----------------------- MODULE QueueCountersProofs -----------------------
(***************************************************************************)
(* Proofs about QueueCounters: every variable keeps its type, and the row  *)
(* of a queue and the deltas on their way to it add up to the messages     *)
(* there are for as long as nothing has happened that no delta tells.      *)
(*                                                                         *)
(* The second is a balance.  Every step takes place in one instance, so it *)
(* changes the sum over the instances by what it changes of that one's     *)
(* share; against that stands what it adds to the row and what it changes  *)
(* of the number of messages.                                              *)
(***************************************************************************)
EXTENDS QueueCounters, TLAPS, FiniteSetTheorems, WellFoundedInduction

-----------------------------------------------------------------------------
(***************************************************************************)
(* Sums of the values of a function.  SumFunctionOnSet is a recursion over *)
(* the subsets of its index set, which is finite: what the proofs need of  *)
(* it is that the sum exists, is an integer, and changes with one value of *)
(* the function by as much as that value does.  Inductions are by the      *)
(* smallest counterexample.                                                *)
(***************************************************************************)
\* A set of natural numbers has a smallest one.
LEMMA NatMin ==
    ASSUME NEW T \in SUBSET Nat, T # {}
    PROVE  \E x \in T : \A y \in T : ~(y < x)
  <1> DEFINE R == {ss \in Nat \X Nat : ss[1] < ss[2]}
  <1>1. IsWellFoundedOn(R, Nat)
    BY NatLessThanWellFounded DEF OpToRel
  <1>2. PICK x \in T : \A y \in T : ~(<<y, x>> \in R)
    <2> HIDE DEF R
    <2> QED BY <1>1, WFMin
  <1>3. \A y \in T : ~(y < x)
    BY <1>2
  <1> QED BY <1>3

\* Of some subsets of a finite set, one contains no other.
LEMMA SubsetMin ==
    ASSUME NEW S, IsFiniteSet(S), NEW T \in SUBSET (SUBSET S), T # {}
    PROVE  \E x \in T : \A y \in T : y \subseteq x => y = x
  <1> DEFINE R == StrictSubsetOrdering(S)
  <1>1. IsWellFoundedOn(R, FiniteSubsetsOf(S))
    BY FS_StrictSubsetOrderingWellFounded
  <1>2. T \subseteq FiniteSubsetsOf(S)
    BY FS_Subset DEF FiniteSubsetsOf
  <1>3. PICK x \in T : \A y \in T : ~(<<y, x>> \in R)
    <2> HIDE DEF R
    <2> QED BY <1>1, <1>2, WFMin
  <1>4. \A y \in T : y \subseteq x => y = x
    BY <1>2, <1>3 DEF StrictSubsetOrdering, FiniteSubsetsOf
  <1> QED BY <1>4

Pick(s) == CHOOSE x \in s : TRUE

Sum(f, g, s) == IF s = {} THEN 0 ELSE f[Pick(s)] + g[s \ {Pick(s)}]

\* g is the recursion behind the sum of f over S.
Sums(f, S, g) == g = [s \in SUBSET S |-> Sum(f, g, s)]

\* The element the recursion takes first is one.
LEMMA PickLemma ==
    ASSUME NEW s, s # {}
    PROVE  Pick(s) \in s
  BY DEF Pick

\* There is such a recursion: for the subsets of at most n elements, for every n.
LEMMA SumsExist ==
    ASSUME NEW S, IsFiniteSet(S), NEW f \in [S -> Int]
    PROVE  \E g : Sums(f, S, g)
  <1> DEFINE Sized(n) == {s \in SUBSET S : Cardinality(s) <= n}
             Solves(g, n) == g = [s \in Sized(n) |-> Sum(f, g, s)]
             Bad == {n \in Nat : ~\E g : Solves(g, n)}
  <1>1. ASSUME NEW s \in SUBSET S
        PROVE  /\ Cardinality(s) \in Nat /\ (Cardinality(s) = 0 <=> s = {})
               /\ s # {} => s \ {Pick(s)} \in SUBSET S
                              /\ Cardinality(s \ {Pick(s)}) = Cardinality(s) - 1
    <2>1. IsFiniteSet(s)
      BY FS_Subset
    <2>2. Cardinality(s) \in Nat /\ (Cardinality(s) = 0 <=> s = {})
      BY <2>1, FS_CardinalityType, FS_EmptySet
    <2>3. s # {} => Cardinality(s \ {Pick(s)}) = Cardinality(s) - 1
      BY <2>1, FS_RemoveElement, PickLemma
    <2> QED BY <2>2, <2>3
  <1>2. Bad = {}
    <2> SUFFICES ASSUME Bad # {} PROVE FALSE
      OBVIOUS
    <2>1. PICK n \in Bad : \A k \in Bad : ~(k < n)
      <3>1. Bad \in SUBSET Nat
        OBVIOUS
      <3> HIDE DEF Bad
      <3> QED BY <3>1, NatMin
    <2>2. n \in Nat /\ ~\E g : Solves(g, n)
      BY <2>1
    <2>3. CASE n = 0
      <3>1. Sized(0) = {{}}
        <4>1. ASSUME NEW s \in SUBSET S
              PROVE  Cardinality(s) <= 0 <=> s = {}
          <5>1. Cardinality(s) \in Nat /\ (Cardinality(s) = 0 <=> s = {})
            BY <1>1
          <5> QED BY ONLY <5>1
        <4> QED BY <4>1
      <3>2. Solves([s \in Sized(0) |-> 0], 0)
        <4>1. [s \in Sized(0) |-> 0] = [s \in Sized(0) |-> Sum(f, [t \in Sized(0) |-> 0], s)]
          BY <3>1 DEF Sum
        <4> QED BY <4>1
      <3> QED BY <2>2, <2>3, <3>2
    <2>4. CASE n # 0
      <3>1. n - 1 \in Nat /\ n - 1 < n
        BY <2>2, <2>4
      <3>2. n - 1 \notin Bad
        BY <2>1, <3>1
      <3>3. PICK g : Solves(g, n - 1)
        BY <3>1, <3>2
      <3> DEFINE h == [s \in Sized(n) |-> Sum(f, g, s)]
      <3>4. ASSUME NEW s \in Sized(n), s # {}
            PROVE  h[s \ {Pick(s)}] = g[s \ {Pick(s)}]
        <4> DEFINE r == s \ {Pick(s)}
        <4>1. r \in Sized(n - 1) /\ r \in Sized(n)
          BY <1>1, <2>2, <3>4
        <4>2. g[r] = Sum(f, g, r)
          <5> HIDE DEF Sized, r
          <5> QED BY <3>3, <4>1
        <4>3. h[r] = Sum(f, g, r)
          <5> HIDE DEF Sized, r
          <5> QED BY <4>1
        <4> QED BY <4>2, <4>3
      <3>5. \A s \in Sized(n) : Sum(f, h, s) = Sum(f, g, s)
        <4> HIDE DEF h, Sized
        <4> QED BY <3>4 DEF Sum
      <3>6. Solves(h, n)
        <4> HIDE DEF Sized
        <4> QED BY <3>5
      <3> QED BY <2>2, <3>6
    <2> QED BY <2>3, <2>4
  <1>3. Cardinality(S) \in Nat /\ Sized(Cardinality(S)) = SUBSET S
    <2>1. Cardinality(S) \in Nat
      BY FS_CardinalityType
    <2>2. \A s \in SUBSET S : Cardinality(s) <= Cardinality(S)
      BY FS_Subset
    <2> QED BY <2>1, <2>2
  <1>4. \E g : Solves(g, Cardinality(S))
    BY <1>2, <1>3
  <1> QED BY <1>3, <1>4 DEF Sums

\* SumFunctionOnSet is that recursion, with its definitions written out.
LEMMA SumUnfold ==
    ASSUME NEW S, NEW f, \E g : Sums(f, S, g)
    PROVE  \E g : Sums(f, S, g) /\ SumFunctionOnSet(f, S) = g[S]
  BY DEF SumFunctionOnSet, FoldFunctionOnSet, MapThenFoldSet, Sums, Sum, Pick

\* The sum of a function's values is that recursion's value for its domain.
LEMMA SumLemma ==
    ASSUME NEW S, IsFiniteSet(S), NEW f \in [S -> Int]
    PROVE  \E g : Sums(f, S, g) /\ SumFunction(f) = g[S]
  <1>1. DOMAIN f = S
    OBVIOUS
  <1>2. SumFunction(f) = SumFunctionOnSet(f, S)
    BY <1>1 DEF SumFunction
  <1> QED BY <1>2, SumsExist, SumUnfold

\* The sum is an integer.
LEMMA SumsType ==
    ASSUME NEW S, IsFiniteSet(S), NEW f \in [S -> Int], NEW g, Sums(f, S, g)
    PROVE  \A s \in SUBSET S : g[s] \in Int
  <1> DEFINE Bad == {s \in SUBSET S : g[s] \notin Int}
  <1> SUFFICES ASSUME Bad # {} PROVE FALSE
    OBVIOUS
  <1>1. PICK s \in Bad : \A t \in Bad : t \subseteq s => t = s
    <2>1. Bad \in SUBSET (SUBSET S)
      OBVIOUS
    <2> HIDE DEF Bad
    <2> QED BY <2>1, SubsetMin
  <1>2. s \in SUBSET S /\ g[s] \notin Int
    BY <1>1
  <1>3. g[s] = Sum(f, g, s)
    BY <1>2 DEF Sums
  <1>4. s # {}
    BY <1>2, <1>3 DEF Sum
  <1>5. Pick(s) \in s /\ Pick(s) \in S /\ s \ {Pick(s)} \in SUBSET S
    BY <1>2, <1>4, PickLemma
  <1>6. g[s \ {Pick(s)}] \in Int
    BY <1>1, <1>5
  <1>7. f[Pick(s)] \in Int
    BY <1>5
  <1> QED BY <1>2, <1>3, <1>4, <1>6, <1>7 DEF Sum

\* One value changes, and the sum by as much.
LEMMA SumChange ==
    ASSUME NEW S, IsFiniteSet(S), NEW f \in [S -> Int], NEW i \in S, NEW v \in Int
    PROVE  /\ SumFunction(f) \in Int
           /\ SumFunction([f EXCEPT ![i] = v]) = SumFunction(f) + (v - f[i])
  <1> DEFINE e == [f EXCEPT ![i] = v]
  <1>1. e \in [S -> Int] /\ e[i] = v /\ \A j \in S \ {i} : e[j] = f[j]
    OBVIOUS
  <1>2. PICK g : Sums(f, S, g) /\ SumFunction(f) = g[S]
    BY SumLemma
  <1> HIDE DEF e
  <1>3. PICK h : Sums(e, S, h) /\ SumFunction(e) = h[S]
    BY <1>1, SumLemma
  <1>4. \A s \in SUBSET S : g[s] \in Int
    BY <1>2, SumsType
  <1> DEFINE change(s) == IF i \in s THEN v - f[i] ELSE 0
             Bad == {s \in SUBSET S : h[s] # g[s] + change(s)}
  <1>5. Bad = {}
    <2> SUFFICES ASSUME Bad # {} PROVE FALSE
      OBVIOUS
    <2>1. PICK s \in Bad : \A t \in Bad : t \subseteq s => t = s
      <3>1. Bad \in SUBSET (SUBSET S)
        OBVIOUS
      <3> HIDE DEF Bad
      <3> QED BY <3>1, SubsetMin
    <2>2. s \in SUBSET S /\ h[s] # g[s] + change(s)
      BY <2>1
    <2>3. h[s] = Sum(e, h, s) /\ g[s] = Sum(f, g, s)
      BY <1>2, <1>3, <2>2 DEF Sums
    <2>4. s # {}
      BY <2>2, <2>3 DEF Sum
    <2> DEFINE x == Pick(s)
               r == s \ {x}
    <2>5. x \in s /\ x \in S /\ r \in SUBSET S /\ r # s
      BY <2>2, <2>4, PickLemma
    <2>6. h[r] = g[r] + change(r)
      BY <2>1, <2>5
    <2>7. h[s] = e[x] + h[r] /\ g[s] = f[x] + g[r]
      BY <2>3, <2>4 DEF Sum
    <2>8. change(s) = change(r) + (e[x] - f[x])
      <3>1. CASE x = i
        BY <1>1, <2>5, <3>1
      <3>2. CASE x # i
        BY <1>1, <2>5, <3>2
      <3> QED BY <3>1, <3>2
    <2>9. g[r] \in Int /\ f[x] \in Int /\ e[x] \in Int /\ change(r) \in Int
      BY <1>1, <1>4, <2>5
    <2> HIDE DEF x, r, change
    <2> QED BY <2>2, <2>6, <2>7, <2>8, <2>9
  <1>6. h[S] = g[S] + (v - f[i])
    BY <1>5
  <1> QED BY <1>2, <1>3, <1>4, <1>6 DEF e

\* Nothing adds up to nothing.
LEMMA SumZero ==
    ASSUME NEW S, IsFiniteSet(S)
    PROVE  SumFunction([i \in S |-> 0]) = 0
  <1> DEFINE f == [i \in S |-> 0]
  <1>1. f \in [S -> Int]
    OBVIOUS
  <1>2. PICK g : Sums(f, S, g) /\ SumFunction(f) = g[S]
    <2> HIDE DEF f
    <2> QED BY <1>1, SumLemma
  <1> DEFINE Bad == {s \in SUBSET S : g[s] # 0}
  <1>3. Bad = {}
    <2> SUFFICES ASSUME Bad # {} PROVE FALSE
      OBVIOUS
    <2>1. PICK s \in Bad : \A t \in Bad : t \subseteq s => t = s
      <3>1. Bad \in SUBSET (SUBSET S)
        OBVIOUS
      <3> HIDE DEF Bad
      <3> QED BY <3>1, SubsetMin
    <2>2. s \in SUBSET S /\ g[s] # 0 /\ g[s] = Sum(f, g, s)
      BY <1>2, <2>1 DEF Sums
    <2>3. s # {}
      BY <2>2 DEF Sum
    <2>4. Pick(s) \in s /\ Pick(s) \in S /\ s \ {Pick(s)} \in SUBSET S
      BY <2>2, <2>3, PickLemma
    <2>5. g[s \ {Pick(s)}] = 0
      BY <2>1, <2>4
    <2>6. f[Pick(s)] = 0
      BY <2>4
    <2> QED BY <2>2, <2>3, <2>5, <2>6 DEF Sum
  <1>4. g[S] = 0
    BY <1>3
  <1> QED BY <1>2, <1>4

-----------------------------------------------------------------------------
\* Types, and what a call or a flush holds at each of its steps

CallFields ==
  [pc : {"idle", "found", "claimed", "move", "sweep", "adjust"}, m : Messages \union {None},
   id : Nat, at : Queues \union {None}, was : Statuses, delta : Deltas]

CallOK(c) ==
  /\ c.pc = "idle" => c = NoCall
  /\ c.pc \in {"found", "claimed", "move", "sweep"} => c.m \in Messages /\ c.at \in Queues
  /\ c.pc = "move" => DeadLetterOf[c.at] # None
  /\ c.pc \in {"found", "sweep"} => c.delta = Zero
  /\ c.pc \in {"claimed", "move"} => c.delta = Claimed(c.at)

CallRecords == {c \in CallFields : CallOK(c)}

FlushFields ==
  [pc : {"idle", "write", "delete", "zero"}, due : Deltas,
   clamp : SUBSET (Queues \X Statuses), purge : Queues \union {None}]

FlushOK(f) ==
  /\ f.pc = "idle" => f = NoFlush
  /\ f.pc \in {"delete", "zero"} => f.purge \in Queues /\ f.due = Zero /\ f.clamp = {}

FlushRecords == {f \in FlushFields : FlushOK(f)}

EditOK == edit \in [m : Messages \union {None}, doc : Docs] /\ (edit = NoEdit \/ edit.m \in Messages)

BoundsOK == ops \in 0 .. MaxOps /\ faults \in 0 .. MaxFaults

TypeInv ==
  /\ msg \in [Messages -> Docs]
  /\ oid \in [Messages -> Nat]
  /\ row \in Deltas
  /\ pending \in [Instances -> Deltas]
  /\ call \in [Instances -> CallRecords]
  /\ flush \in [Instances -> FlushRecords]
  /\ save \in [at : Queues \union {None}, counts : Counts]
  /\ EditOK
  /\ recount \in [counted : Deltas, todo : SUBSET Queues]
  /\ exact \in BOOLEAN
  /\ BoundsOK

\* The deltas the operations make are deltas.
LEMMA DeltaLemma ==
    /\ NoCounts \in Counts /\ Zero \in Deltas
    /\ \A q \in Queues, s \in Statuses : Zero[q][s] = 0
    /\ \A d, e \in Deltas : Plus(d, e) \in Deltas
    /\ \A p, t : \A n \in Int : One(p, t, n) \in Deltas
    /\ \A p \in Queues : Claimed(p) \in Deltas
    /\ \A d \in Deltas, q \in Queues, s \in Statuses : d[q][s] \in Int
  <1>1. NoCounts \in Counts /\ Zero \in Deltas
    BY DEF NoCounts, Counts, Zero, Deltas
  <1>2. \A q \in Queues, s \in Statuses : Zero[q][s] = 0
    BY DEF NoCounts, Zero
  <1>3. \A d \in Deltas, q \in Queues, s \in Statuses : d[q][s] \in Int
    BY DEF Deltas, Counts
  <1>4. \A d, e \in Deltas : Plus(d, e) \in Deltas
    BY <1>3 DEF Plus, Deltas, Counts
  <1>5. \A p, t : \A n \in Int : One(p, t, n) \in Deltas
    BY DEF One, Deltas, Counts
  <1>6. \A p \in Queues : Claimed(p) \in Deltas
    BY <1>4, <1>5 DEF Claimed
  <1> QED BY <1>1, <1>2, <1>3, <1>4, <1>5, <1>6

\* What the deltas are, counter by counter.
LEMMA ValueLemma ==
    ASSUME NEW q \in Queues, NEW s \in Statuses
    PROVE  /\ \A p, t, n : One(p, t, n)[q][s] = IF q = p /\ s = t THEN n ELSE 0
           /\ \A d, e : Plus(d, e)[q][s] = d[q][s] + e[q][s]
  BY DEF One, Plus

\* The messages of a queue in a status are finitely many.
LEMMA CountedLemma ==
    /\ Counted \in Deltas
    /\ \A q \in Queues, s \in Statuses :
         LET in == {m \in Messages : msg[m].at = q /\ msg[m].status = s} IN
         /\ IsFiniteSet(in)
         /\ Counted[q][s] = Cardinality(in) /\ Counted[q][s] \in Nat
  <1>1. ASSUME NEW q \in Queues, NEW s \in Statuses
        PROVE  LET in == {m \in Messages : msg[m].at = q /\ msg[m].status = s} IN
               /\ IsFiniteSet(in)
               /\ Counted[q][s] = Cardinality(in) /\ Counted[q][s] \in Nat
    <2> DEFINE in == {m \in Messages : msg[m].at = q /\ msg[m].status = s}
    <2>1. IsFiniteSet(in)
      BY FS_Subset, CounterAssumption
    <2>2. Cardinality(in) \in Nat
      BY <2>1, FS_CardinalityType
    <2>3. Counted[q][s] = Cardinality(in)
      BY DEF Counted
    <2> QED BY <2>1, <2>2, <2>3
  <1>2. Counted \in Deltas
    <2>1. ASSUME NEW q \in Queues, NEW s \in Statuses
          PROVE  Counted[q][s] \in Int
      <3>1. Counted[q][s] \in Nat
        BY <1>1
      <3> QED BY <3>1
    <2>2. \A q \in Queues : Counted[q] = [s \in Statuses |-> Counted[q][s]]
      BY DEF Counted
    <2>3. Counted = [q \in Queues |-> Counted[q]]
      BY DEF Counted
    <2>4. \A q \in Queues : Counted[q] \in Counts
      BY <2>1, <2>2 DEF Counts
    <2> QED BY <2>3, <2>4 DEF Deltas
  <1> QED BY <1>1, <1>2

\* What an operation leaves of a call: nothing, or the adjustment it owes.
LEMMA NewCallLemma ==
    /\ NoCall \in CallRecords /\ NoCall.delta = Zero
    /\ \A d \in Deltas :
         LET c == [NoCall EXCEPT !.pc = "adjust", !.delta = d] IN
         c \in CallRecords /\ c.pc = "adjust" /\ c.delta = d
  <1>1. "AVAILABLE" \in Statuses
    BY DEF Statuses
  <1>2. NoCall \in CallRecords /\ NoCall.delta = Zero
    BY <1>1, DeltaLemma DEF NoCall, CallRecords, CallFields, CallOK
  <1>3. ASSUME NEW d \in Deltas
        PROVE  LET c == [NoCall EXCEPT !.pc = "adjust", !.delta = d] IN
               c \in CallRecords /\ c.pc = "adjust" /\ c.delta = d
    BY <1>1 DEF NoCall, CallRecords, CallFields, CallOK
  <1> QED BY <1>2, <1>3

\* A flush goes on with what is left to write, and holds on to it.
LEMMA OnwardLemma ==
    /\ NoFlush \in FlushRecords /\ NoFlush.due = Zero
    /\ \A f \in FlushFields : f.pc = "write" =>
         Onward(f) \in FlushRecords /\ Onward(f).due = f.due /\ Onward(f).pc # "zero"
  <1>1. NoFlush \in FlushRecords /\ NoFlush.due = Zero /\ NoFlush.pc # "zero"
    BY DeltaLemma DEF NoFlush, FlushRecords, FlushFields, FlushOK
  <1>2. ASSUME NEW f \in FlushFields, f.pc = "write"
        PROVE  Onward(f) \in FlushRecords /\ Onward(f).due = f.due /\ Onward(f).pc # "zero"
    <2>1. CASE f.due # Zero \/ f.clamp # {}
      BY <1>2, <2>1 DEF Onward, FlushRecords, FlushOK
    <2>2. CASE ~(f.due # Zero \/ f.clamp # {}) /\ f.purge = None
      BY <1>1, <2>2 DEF Onward
    <2>3. CASE ~(f.due # Zero \/ f.clamp # {}) /\ f.purge # None
      <3> DEFINE g == [f EXCEPT !.pc = "delete"]
      <3>1. Onward(f) = g
        BY <2>3 DEF Onward
      <3>2. /\ g \in FlushFields /\ g.pc = "delete"
            /\ g.due = f.due /\ g.clamp = f.clamp /\ g.purge = f.purge
        BY DEF FlushFields
      <3>3. f.purge \in Queues
        BY <2>3 DEF FlushFields
      <3>4. g \in FlushRecords
        BY <2>3, <3>2, <3>3 DEF FlushRecords, FlushOK
      <3> QED BY <3>1, <3>2, <3>4
    <2> QED BY <2>1, <2>2, <2>3
  <1> QED BY <1>1, <1>2

\* The same of the next state.
LEMMA CountedNext ==
    /\ Counted' \in Deltas
    /\ \A q \in Queues, s \in Statuses :
         LET in == {m \in Messages : msg'[m].at = q /\ msg'[m].status = s} IN
         /\ IsFiniteSet(in)
         /\ Counted'[q][s] = Cardinality(in) /\ Counted'[q][s] \in Nat
  <1>1. (/\ Counted \in Deltas
         /\ \A q \in Queues, s \in Statuses :
              LET in == {m \in Messages : msg[m].at = q /\ msg[m].status = s} IN
              /\ IsFiniteSet(in)
              /\ Counted[q][s] = Cardinality(in) /\ Counted[q][s] \in Nat)'
    BY CountedLemma, PTL
  <1> QED BY <1>1

\* A message counts in the counter of its queue and its status.
In(d, q, s) == IF d.at = q /\ d.status = s THEN 1 ELSE 0

\* One message changes: it leaves one counter and enters another.
LEMMA OneMessage ==
    ASSUME NEW m \in Messages, NEW d, msg \in [Messages -> Docs],
           msg' = [msg EXCEPT ![m] = d],
           NEW q \in Queues, NEW s \in Statuses
    PROVE  Counted'[q][s] = Counted[q][s] + (In(d, q, s) - In(msg[m], q, s))
  <1> DEFINE in == {n \in Messages : msg[n].at = q /\ msg[n].status = s}
             new == {n \in Messages : msg'[n].at = q /\ msg'[n].status = s}
  <1>1. IsFiniteSet(in) /\ Counted[q][s] = Cardinality(in) /\ Counted[q][s] \in Nat
    BY CountedLemma
  <1>2. Counted'[q][s] = Cardinality(new)
    BY CountedNext
  <1>3. \A n \in Messages : n # m => msg'[n] = msg[n]
    OBVIOUS
  <1>4. msg'[m] = d
    OBVIOUS
  <1>5. \A n \in Messages : n # m => (n \in in <=> n \in new)
    BY <1>3
  <1>6. m \in in <=> In(msg[m], q, s) = 1
    BY DEF In
  <1>7. m \in new <=> In(d, q, s) = 1
    BY <1>4 DEF In
  <1>8. In(d, q, s) \in {0, 1} /\ In(msg[m], q, s) \in {0, 1}
    BY DEF In
  <1>9. in \subseteq Messages /\ new \subseteq Messages
    OBVIOUS
  <1> HIDE DEF in, new
  <1>10. CASE m \in in /\ m \in new
    <2>1. in = new
      BY <1>5, <1>9, <1>10
    <2> QED BY <1>1, <1>2, <1>6, <1>7, <1>10, <2>1
  <1>11. CASE m \notin in /\ m \notin new
    <2>1. in = new
      BY <1>5, <1>9, <1>11
    <2>2. In(d, q, s) = 0 /\ In(msg[m], q, s) = 0
      BY <1>6, <1>7, <1>8, <1>11
    <2> QED BY <1>1, <1>2, <2>1, <2>2
  <1>12. CASE m \in in /\ m \notin new
    <2>1. new = in \ {m}
      BY <1>5, <1>9, <1>12
    <2>2. Cardinality(new) = Cardinality(in) - 1
      BY <1>1, <1>12, <2>1, FS_RemoveElement
    <2>3. In(d, q, s) = 0 /\ In(msg[m], q, s) = 1
      BY <1>6, <1>7, <1>8, <1>12
    <2> QED BY <1>1, <1>2, <2>2, <2>3
  <1>13. CASE m \notin in /\ m \in new
    <2>1. new = in \union {m}
      BY <1>5, <1>9, <1>13
    <2>2. Cardinality(new) = Cardinality(in) + 1
      BY <1>1, <1>13, <2>1, FS_AddElement
    <2>3. In(d, q, s) = 1 /\ In(msg[m], q, s) = 0
      BY <1>6, <1>7, <1>8, <1>13
    <2> QED BY <1>1, <1>2, <2>2, <2>3
  <1> QED BY <1>10, <1>11, <1>12, <1>13

-----------------------------------------------------------------------------
\* Type correctness, action by action

\* The numbers of operations and faults stay within their bounds.
LEMMA BoundsLemma ==
    ASSUME BoundsOK
    PROVE  /\ Operation => BoundsOK'
           /\ Fault => BoundsOK'
           /\ UNCHANGED Bounds => BoundsOK'
  BY CounterAssumption DEF BoundsOK, Operation, Fault, Bounds

\* What an operation owes is a call that has still to be adjusted.
LEMMA OwesLemma ==
    ASSUME TypeInv, NEW i \in Instances, NEW d \in Deltas, Owes(i, d)
    PROVE  /\ call' \in [Instances -> CallRecords]
           /\ call'[i].pc = "adjust" /\ call'[i].delta = d
           /\ \A j \in Instances \ {i} : call'[j] = call[j]
  <1> DEFINE c == [NoCall EXCEPT !.pc = "adjust", !.delta = d]
  <1>1. c \in CallRecords /\ c.pc = "adjust" /\ c.delta = d
    BY NewCallLemma
  <1>2. call' = [call EXCEPT ![i] = c]
    BY DEF Owes
  <1> HIDE DEF c
  <1> QED BY <1>1, <1>2 DEF TypeInv

\* A call keeps its types and what it holds from one step to the next.
LEMMA SameDelta ==
    ASSUME NEW c \in CallRecords, c.pc \in {"claimed", "move"},
           NEW pc \in {"adjust", "move"}, pc = "move" => DeadLetterOf[c.at] # None
    PROVE  LET e == [c EXCEPT !.pc = pc] IN
           /\ e \in CallRecords
           /\ e.pc = pc /\ e.m = c.m /\ e.at = c.at /\ e.delta = c.delta
  <1> DEFINE e == [c EXCEPT !.pc = pc]
  <1>1. c \in CallFields /\ CallOK(c)
    BY DEF CallRecords
  <1>2. e \in CallFields /\ e.pc = pc /\ e.m = c.m /\ e.at = c.at /\ e.delta = c.delta
    BY <1>1 DEF CallFields
  <1>3. CallOK(e)
    <2> HIDE DEF e
    <2> QED BY <1>1, <1>2 DEF CallOK
  <1> QED BY <1>2, <1>3 DEF CallRecords

\* What a claim makes of the call that found the message.
LEMMA ClaimCall ==
    ASSUME NEW c \in CallRecords, c.pc = "found"
    PROVE  LET e == [c EXCEPT !.pc = "claimed", !.delta = Claimed(c.at)] IN
           /\ e \in CallRecords
           /\ e.pc = "claimed" /\ e.m = c.m /\ e.at = c.at /\ e.delta = Claimed(c.at)
  <1> DEFINE e == [c EXCEPT !.pc = "claimed", !.delta = Claimed(c.at)]
  <1>1. c \in CallFields /\ CallOK(c)
    BY DEF CallRecords
  <1>2. c.m \in Messages /\ c.at \in Queues
    BY <1>1 DEF CallOK
  <1>3. Claimed(c.at) \in Deltas
    BY <1>2, DeltaLemma
  <1>4. /\ e \in CallFields
        /\ e.pc = "claimed" /\ e.m = c.m /\ e.at = c.at /\ e.delta = Claimed(c.at)
    BY <1>1, <1>3 DEF CallFields
  <1>5. CallOK(e)
    <2> HIDE DEF e
    <2> QED BY <1>2, <1>4 DEF CallOK
  <1> QED BY <1>4, <1>5 DEF CallRecords

\* The fields of a message, a call and a flush that are typed.
LEMMA RecordLemma ==
    ASSUME TypeInv
    PROVE  /\ \A m \in Messages : /\ msg[m] \in Docs
                                  /\ msg[m].at \in Queues \union {None}
                                  /\ msg[m].status \in Statuses
           /\ \A i \in Instances : /\ call[i] \in CallFields /\ CallOK(call[i])
                                   /\ call[i].delta \in Deltas
                                   /\ flush[i] \in FlushFields /\ FlushOK(flush[i])
                                   /\ flush[i].due \in Deltas
                                   /\ flush[i].clamp \subseteq Queues \X Statuses
  BY DEF TypeInv, Docs, CallRecords, CallFields, FlushRecords, FlushFields

\* An operation that has read a message owes nothing yet.
LEMMA ReadLemma ==
    ASSUME TypeInv, NEW i \in Instances, NEW m \in Messages, msg[m].at # None,
           NEW pc \in {"found", "sweep"}, Read(i, pc, m)
    PROVE  /\ call' \in [Instances -> CallRecords]
           /\ call'[i].pc = pc /\ call'[i].delta = Zero
           /\ \A j \in Instances \ {i} : call'[j] = call[j]
  <1> DEFINE c == [NoCall EXCEPT !.pc = pc, !.m = m, !.id = oid[m], !.at = msg[m].at,
                                 !.was = msg[m].status]
  <1>1. msg[m].at \in Queues /\ msg[m].status \in Statuses /\ oid[m] \in Nat
    BY RecordLemma DEF TypeInv
  <1>2. c \in CallRecords /\ c.pc = pc /\ c.delta = Zero
    BY <1>1, DeltaLemma DEF NoCall, CallRecords, CallFields, CallOK
  <1>3. call' = [call EXCEPT ![i] = c]
    BY DEF Read
  <1> HIDE DEF c
  <1> QED BY <1>2, <1>3 DEF TypeInv

\* Gone messages, and those put into a queue, are messages.
LEMMA MessageLemma ==
    /\ Gone \in Docs
    /\ \A q \in Queues, s \in Statuses : [at |-> q, status |-> s, by |-> None] \in Docs
    /\ {"AVAILABLE", "DELAYED"} \subseteq Statuses
  BY DEF Gone, Docs, Statuses

\* Every step of an operation on messages keeps the types.
LEMMA BeginTypes ==
    ASSUME TypeInv, NEW i \in Instances, Begin(i)
    PROVE  TypeInv'
  <1> USE BoundsLemma DEF Counting, Documents, EditOK
  <1>1. ASSUME NEW m \in Messages, NEW q \in Queues, Send(i, m, q)
        PROVE  TypeInv'
    <2>1. PICK s \in {"AVAILABLE", "DELAYED"} :
            /\ msg' = [msg EXCEPT ![m] = [at |-> q, status |-> s, by |-> None]]
            /\ Owes(i, One(q, s, 1))
      BY <1>1 DEF Send
    <2>2. msg' \in [Messages -> Docs]
      BY <2>1, MessageLemma DEF TypeInv
    <2>3. call' \in [Instances -> CallRecords]
      BY <2>1, OwesLemma, DeltaLemma
    <2>4. oid' \in [Messages -> Nat]
      BY <1>1 DEF Send, TypeInv
    <2> QED BY <1>1, <2>2, <2>3, <2>4 DEF Send, TypeInv
  <1>2. ASSUME NEW m \in Messages, Find(i, m)
        PROVE  TypeInv'
    <2>1. call' \in [Instances -> CallRecords]
      BY <1>2, ReadLemma DEF Find
    <2> QED BY <1>2, <2>1 DEF Find, TypeInv
  <1>3. ASSUME NEW m \in Messages, Delete(i, m)
        PROVE  TypeInv'
    <2>1. ForDeleted(msg[m]) \in Deltas
      BY DeltaLemma DEF ForDeleted
    <2>2. call' \in [Instances -> CallRecords]
      BY <1>3, <2>1, OwesLemma DEF Delete
    <2>3. msg' \in [Messages -> Docs]
      BY <1>3, MessageLemma DEF Delete, TypeInv
    <2> QED BY <1>3, <2>2, <2>3 DEF Delete, TypeInv
  <1>4. ASSUME NEW m \in Messages, SweepRead(i, m)
        PROVE  TypeInv'
    <2>1. call' \in [Instances -> CallRecords]
      BY <1>4, ReadLemma DEF SweepRead
    <2> QED BY <1>4, <2>1 DEF SweepRead, TypeInv
  <1>5. ASSUME NEW q \in Queues, Redrive(i, q)
        PROVE  TypeInv'
    <2> DEFINE d == DeadLetterOf[q]
               moved == {m \in Messages : msg[m].at = d}
               delta == Plus(One(d, "AVAILABLE", 0 - Cardinality(moved)),
                             One(q, "AVAILABLE", Cardinality(moved)))
    <2>1. Cardinality(moved) \in Int /\ 0 - Cardinality(moved) \in Int
      <3>1. IsFiniteSet(moved)
        BY FS_Subset, CounterAssumption
      <3>2. Cardinality(moved) \in Nat
        BY <3>1, FS_CardinalityType
      <3> QED BY <3>2
    <2>2. delta \in Deltas
      <3> HIDE DEF moved, d
      <3> QED BY <2>1, DeltaLemma
    <2>3. Owes(i, delta)
      BY <1>5 DEF Redrive
    <2> HIDE DEF delta
    <2>4. call' \in [Instances -> CallRecords]
      BY <2>2, <2>3, OwesLemma
    <2>5. msg' = [m \in Messages |->
            IF m \in moved THEN [at |-> q, status |-> "AVAILABLE", by |-> None] ELSE msg[m]]
      BY <1>5 DEF Redrive
    <2> HIDE DEF moved
    <2>6. msg' \in [Messages -> Docs]
      BY <2>5, MessageLemma DEF TypeInv
    <2>7. exact' \in BOOLEAN
      BY <1>5 DEF Redrive
    <2> QED BY <1>5, <2>4, <2>6, <2>7 DEF Redrive, TypeInv
  <1>6. ASSUME NEW q \in Queues, Purge(i, q)
        PROVE  TypeInv'
    <2> DEFINE f == [NoFlush EXCEPT !.pc = "write", !.due = pending[i], !.purge = q]
    <2>1. f \in FlushFields /\ f.pc = "write"
      BY DEF TypeInv, NoFlush, FlushFields
    <2>2. Onward(f) \in FlushRecords
      BY <2>1, OnwardLemma
    <2>3. flush' = [flush EXCEPT ![i] = Onward(f)] /\ pending' = [pending EXCEPT ![i] = Zero]
      BY <1>6 DEF Purge
    <2> HIDE DEF f
    <2>4. flush' \in [Instances -> FlushRecords] /\ pending' \in [Instances -> Deltas]
      BY <2>2, <2>3, DeltaLemma DEF TypeInv
    <2> QED BY <1>6, <2>4 DEF Purge, TypeInv, Messaging
  <1> QED BY <1>1, <1>2, <1>3, <1>4, <1>5, <1>6, CounterAssumption DEF Begin


\* What a claim leaves of a copy of a message is one, without that claim.
LEMMA ForgetLemma ==
    ASSUME TypeInv, NEW i \in Instances, edit' = [edit EXCEPT !.doc = Forget(i, @)]
    PROVE  /\ EditOK'
           /\ edit'.m = edit.m /\ edit'.doc = Forget(i, edit.doc)
           /\ (edit'.doc = edit.doc /\ edit.doc.by # i) \/ edit'.doc.by = None
  <1>1. edit \in [m : Messages \union {None}, doc : Docs] /\ (edit = NoEdit \/ edit.m \in Messages)
    BY DEF TypeInv, EditOK
  <1>2. edit.doc \in Docs
    BY <1>1
  <1>3. /\ Forget(i, edit.doc) \in Docs
        /\ (Forget(i, edit.doc) = edit.doc /\ edit.doc.by # i) \/ Forget(i, edit.doc).by = None
    <2>1. CASE edit.doc.by = i
      BY <1>2, <2>1 DEF Forget, Docs
    <2>2. CASE edit.doc.by # i
      BY <1>2, <2>2 DEF Forget
    <2> QED BY <2>1, <2>2
  <1>4. edit'.m = edit.m /\ edit'.doc = Forget(i, edit.doc)
    BY <1>1
  <1>5. edit = NoEdit => edit' = NoEdit
    <2>1. NoEdit.doc.by = None
      BY DEF NoEdit, Gone
    <2>2. edit = NoEdit => Forget(i, edit.doc) = edit.doc
      BY <2>1, CounterAssumption DEF Forget
    <2> QED BY <1>1, <2>2
  <1>6. edit' \in [m : Messages \union {None}, doc : Docs]
    <2> HIDE DEF Docs
    <2> QED BY <1>1, <1>3
  <1> QED BY <1>1, <1>3, <1>4, <1>5, <1>6 DEF EditOK

\* Every later step of an operation keeps the types.
LEMMA FinishTypes ==
    ASSUME TypeInv, NEW i \in Instances, Finish(i)
    PROVE  TypeInv'
  <1> USE BoundsLemma DEF Counting, Documents, EditOK
  <1> DEFINE c == call[i]
  <1>0. c \in CallRecords /\ c \in CallFields /\ CallOK(c)
    BY RecordLemma DEF TypeInv
  <1>1. ASSUME ReadBack(i)
        PROVE  TypeInv'
    <2>1. ASSUME NEW pc \in IF DeadLetterOf[c.at] = None THEN {"adjust"} ELSE {"adjust", "move"}
          PROVE  [c EXCEPT !.pc = pc] \in CallRecords
      <3>1. pc \in {"adjust", "move"} /\ (pc = "move" => DeadLetterOf[c.at] # None)
        BY <2>1
      <3>2. c.pc \in {"claimed", "move"}
        BY <1>1 DEF ReadBack
      <3> HIDE DEF c
      <3> QED BY <1>0, <3>1, <3>2, SameDelta
    <2>2. \E e \in CallRecords : call' = [call EXCEPT ![i] = e]
      <3>1. CASE Matched(i) /\ msg[c.m].by = i
        <4>1. PICK pc \in IF DeadLetterOf[c.at] = None THEN {"adjust"} ELSE {"adjust", "move"} :
                call' = [call EXCEPT ![i].pc = pc]
          BY <1>1, <3>1 DEF ReadBack
        <4>2. call' = [call EXCEPT ![i] = [c EXCEPT !.pc = pc]]
          BY <4>1 DEF TypeInv
        <4> QED BY <2>1, <4>2
      <3>2. CASE ~(Matched(i) /\ msg[c.m].by = i)
        BY <1>1, <3>2, NewCallLemma DEF ReadBack
      <3> QED BY <3>1, <3>2
    <2>3. call' \in [Instances -> CallRecords]
      BY <2>2 DEF TypeInv
    <2>4. exact' \in BOOLEAN
      BY <1>1 DEF ReadBack, TypeInv
    <2> QED BY <1>1, <2>3, <2>4 DEF ReadBack, TypeInv
  <1>2. ASSUME MoveToDeadLetter(i)
        PROVE  TypeInv'
    <2> DEFINE d == DeadLetterOf[c.at]
               delta == Plus(One(c.at, "AVAILABLE", -1), One(d, "AVAILABLE", 1))
    <2>1. c.pc = "move" /\ c.m \in Messages /\ c.at \in Queues /\ d \in Queues
      <3>1. c.pc = "move"
        BY <1>2 DEF MoveToDeadLetter
      <3>2. c.m \in Messages /\ c.at \in Queues /\ d # None
        BY <1>0, <3>1 DEF CallOK
      <3> QED BY <3>1, <3>2, CounterAssumption
    <2>2. delta \in Deltas
      BY DeltaLemma
    <2>3. Owes(i, delta)
      BY <1>2 DEF MoveToDeadLetter
    <2>4. call' \in [Instances -> CallRecords]
      BY <2>2, <2>3, OwesLemma
    <2>5. [at |-> d, status |-> "AVAILABLE", by |-> None] \in Docs
      BY <2>1, MessageLemma
    <2>6. msg' = msg \/ msg' = [msg EXCEPT ![c.m] = [at |-> d, status |-> "AVAILABLE", by |-> None]]
      BY <1>2 DEF MoveToDeadLetter
    <2> HIDE DEF c, d
    <2>7. msg' \in [Messages -> Docs]
      BY <2>5, <2>6 DEF TypeInv
    <2>8. exact' \in BOOLEAN
      BY <1>2 DEF MoveToDeadLetter
    <2> QED BY <1>2, <2>4, <2>7, <2>8 DEF MoveToDeadLetter, TypeInv
  <1>3. ASSUME SweepReset(i)
        PROVE  TypeInv'
    <2> DEFINE delta == Plus(One(c.at, c.was, -1), One(c.at, "AVAILABLE", 1))
               e == [msg[c.m] EXCEPT !.status = "AVAILABLE", !.by = None]
    <2>1. c.m \in Messages
      BY <1>0, <1>3 DEF SweepReset, CallOK
    <2>2. CASE Matched(i) /\ msg[c.m].status = c.was
      <3>1. delta \in Deltas
        BY DeltaLemma
      <3>2. Owes(i, delta)
        BY <1>3, <2>2 DEF SweepReset
      <3> HIDE DEF delta
      <3>3. call' \in [Instances -> CallRecords]
        BY <3>1, <3>2, OwesLemma
      <3>4. msg[c.m] \in Docs
        BY <2>1, RecordLemma
      <3>5. e \in Docs
        BY <3>4 DEF Docs, Statuses
      <3>6. msg' = [msg EXCEPT ![c.m] = e]
        BY <1>3, <2>1, <2>2 DEF SweepReset, TypeInv, Docs
      <3> HIDE DEF c, e
      <3>7. msg' \in [Messages -> Docs]
        BY <3>5, <3>6 DEF TypeInv
      <3>8. exact' \in BOOLEAN
        BY <1>3, <2>2 DEF SweepReset, c
      <3> QED BY <1>3, <3>3, <3>7, <3>8 DEF SweepReset, TypeInv
    <2>3. CASE ~(Matched(i) /\ msg[c.m].status = c.was)
      <3>1. call' = [call EXCEPT ![i] = NoCall] /\ UNCHANGED <<msg, exact>>
        BY <1>3, <2>3 DEF SweepReset
      <3>2. call' \in [Instances -> CallRecords]
        BY <3>1, NewCallLemma DEF TypeInv
      <3> QED BY <1>3, <3>1, <3>2 DEF SweepReset, TypeInv
    <2> QED BY <2>2, <2>3
  <1>4. ASSUME NEW q \in Queues, Adjust(i, q)
        PROVE  TypeInv'
    <2> DEFINE rest == [c.delta EXCEPT ![q] = NoCounts]
               e == IF rest = Zero THEN NoCall ELSE [c EXCEPT !.delta = rest]
               more == [pending[i] EXCEPT ![q] = [s \in Statuses |-> @[s] + c.delta[q][s]]]
    <2>1. c.pc = "adjust" /\ c.delta \in Deltas /\ rest \in Deltas
      BY <1>4, RecordLemma, DeltaLemma DEF Adjust, Deltas
    <2>2. e \in CallRecords
      <3>1. CASE rest = Zero
        BY <3>1, NewCallLemma
      <3>2. CASE rest # Zero
        <4> DEFINE k == [c EXCEPT !.delta = rest]
        <4> HIDE DEF rest, c
        <4>1. k \in CallFields /\ k.pc = "adjust"
          BY <1>0, <2>1 DEF CallFields
        <4>2. CallOK(k)
          BY <4>1 DEF CallOK
        <4> QED BY <3>2, <4>1, <4>2 DEF CallRecords
      <3> QED BY <3>1, <3>2
    <2>3. call' = [call EXCEPT ![i] = e]
      BY <1>4 DEF Adjust
    <2>4. more \in Deltas
      <3>1. pending[i] \in Deltas
        BY DEF TypeInv
      <3>2. [s \in Statuses |-> pending[i][q][s] + c.delta[q][s]] \in Counts
        BY <2>1, <3>1, DeltaLemma DEF Counts
      <3> QED BY <3>1, <3>2 DEF Deltas
    <2>5. pending' = [pending EXCEPT ![i] = more]
      BY <1>4 DEF Adjust, TypeInv
    <2> HIDE DEF e, more
    <2>6. call' \in [Instances -> CallRecords] /\ pending' \in [Instances -> Deltas]
      BY <2>2, <2>3, <2>4, <2>5 DEF TypeInv
    <2> QED BY <1>4, <2>6 DEF Adjust, TypeInv
  <1>5. ASSUME Claim(i)
        PROVE  TypeInv'
    <2>1. c.pc = "found" /\ c.m \in Messages
      BY <1>0, <1>5 DEF Claim, CallOK
    <2>2. CASE Matched(i) /\ msg[c.m].status = "AVAILABLE"
      <3> DEFINE d == [msg[c.m] EXCEPT !.status = "INVISIBLE", !.by = i]
                 k == [c EXCEPT !.pc = "claimed", !.delta = Claimed(c.at)]
      <3>1. msg' = [msg EXCEPT ![c.m] = d] /\ d \in Docs
        <4>1. msg[c.m] \in Docs
          BY <2>1, RecordLemma
        <4>2. d \in Docs
          BY <4>1 DEF Docs, Statuses
        <4>3. msg' = [msg EXCEPT ![c.m] = d]
          BY <1>5, <2>1, <2>2 DEF Claim, TypeInv, Docs
        <4> QED BY <4>2, <4>3
      <3>2. call' = [call EXCEPT ![i] = k]
        BY <1>5, <2>2 DEF Claim, TypeInv
      <3>3. k \in CallRecords
        <4> HIDE DEF c
        <4> QED BY <1>0, <2>1, ClaimCall
      <3>4. exact' \in BOOLEAN
        BY <1>5, <2>2 DEF Claim
      <3>5. EditOK'
        BY <1>5, <2>2, ForgetLemma DEF Claim, TypeInv
      <3> HIDE DEF c, d, k
      <3>6. msg' \in [Messages -> Docs] /\ call' \in [Instances -> CallRecords]
        BY <3>1, <3>2, <3>3 DEF TypeInv
      <3> QED BY <1>5, <3>4, <3>5, <3>6 DEF Claim, TypeInv
    <2>3. CASE ~(Matched(i) /\ msg[c.m].status = "AVAILABLE")
      <3>1. call' = [call EXCEPT ![i] = NoCall] /\ UNCHANGED <<msg, edit, exact>>
        BY <1>5, <2>3 DEF Claim
      <3>2. call' \in [Instances -> CallRecords]
        BY <3>1, NewCallLemma DEF TypeInv
      <3> QED BY <1>5, <3>1, <3>2 DEF Claim, TypeInv
    <2> QED BY <2>2, <2>3
  <1> QED BY <1>1, <1>2, <1>3, <1>4, <1>5 DEF Finish

Left(i, due, clamp) == Onward([flush[i] EXCEPT !.due = due, !.clamp = clamp])

\* What one step leaves of a flush that is writing holds the deltas left to it.
LEMMA WritingLemma ==
    ASSUME TypeInv, NEW i \in Instances, flush[i].pc = "write",
           NEW due \in Deltas, NEW clamp \in SUBSET (Queues \X Statuses)
    PROVE  /\ Left(i, due, clamp) \in FlushRecords
           /\ Left(i, due, clamp).due = due /\ Left(i, due, clamp).pc # "zero"
  <1> DEFINE g == [flush[i] EXCEPT !.due = due, !.clamp = clamp]
  <1>1. g \in FlushFields /\ g.pc = "write" /\ g.due = due
    BY RecordLemma DEF FlushFields
  <1> HIDE DEF g
  <1>2. Onward(g) \in FlushRecords /\ Onward(g).due = due /\ Onward(g).pc # "zero"
    BY <1>1, OnwardLemma
  <1> QED BY <1>2 DEF g, Left

\* A flush with something to clamp is writing.
LEMMA ClampingLemma ==
    ASSUME TypeInv, NEW i \in Instances, flush[i].clamp # {}
    PROVE  /\ flush[i].pc = "write"
           /\ [flush[i] EXCEPT !.clamp = {}] = [flush[i] EXCEPT !.due = flush[i].due, !.clamp = {}]
  <1>1. flush[i] \in FlushFields /\ FlushOK(flush[i])
    BY RecordLemma
  <1>2. flush[i].pc = "write"
    BY <1>1 DEF FlushOK, FlushFields, NoFlush
  <1>3. [flush[i] EXCEPT !.clamp = {}] = [flush[i] EXCEPT !.due = flush[i].due, !.clamp = {}]
    BY <1>1 DEF FlushFields
  <1> QED BY <1>2, <1>3

\* A step of a flush, a clamp or one that fails: what becomes of the flush.
LEMMA ClampEffect ==
    ASSUME TypeInv, NEW i \in Instances, Clamp(i) \/ ClampFails(i)
    PROVE  \E f \in FlushRecords : /\ flush' = [flush EXCEPT ![i] = f]
                                   /\ f.due = flush[i].due /\ f.pc # "zero"
  <1> DEFINE f == Onward([flush[i] EXCEPT !.clamp = {}])
  <1>1. flush[i].clamp # {} /\ flush' = [flush EXCEPT ![i] = f]
    BY DEF Clamp, ClampFails
  <1>2. f \in FlushRecords /\ f.due = flush[i].due /\ f.pc # "zero"
    <2>1. f = Left(i, flush[i].due, {})
      BY <1>1, ClampingLemma DEF Left
    <2>2. flush[i].pc = "write" /\ flush[i].due \in Deltas /\ {} \in SUBSET (Queues \X Statuses)
      BY <1>1, ClampingLemma, RecordLemma
    <2> HIDE DEF f
    <2> QED BY <2>1, <2>2, WritingLemma
  <1> QED BY <1>1, <1>2

\* The queue that is written, or fails to be, is taken out of what is due.
LEMMA WriteEffect ==
    ASSUME TypeInv, NEW i \in Instances, NEW q \in Queues,
           WriteCounters(i, q) \/ WriteFails(i, q)
    PROVE  \E f \in FlushRecords :
             /\ flush' = [flush EXCEPT ![i] = f]
             /\ f.due = [flush[i].due EXCEPT ![q] = NoCounts] /\ f.pc # "zero"
  <1> DEFINE due == [flush[i].due EXCEPT ![q] = NoCounts]
             below == {<<q, s>> : s \in {t \in Statuses : flush[i].due[q][t] < 0}}
  <1>1. due \in Deltas
    BY RecordLemma, DeltaLemma DEF Deltas
  <1>2. below \in SUBSET (Queues \X Statuses) /\ {} \in SUBSET (Queues \X Statuses)
    OBVIOUS
  <1>3. flush[i].pc = "write" /\ flush[i].clamp = {}
    BY DEF WriteCounters, WriteFails
  <1>4. CASE WriteCounters(i, q)
    <2> DEFINE f == Left(i, due, below)
    <2>1. flush' = [flush EXCEPT ![i] = f]
      BY <1>4 DEF WriteCounters, Left
    <2>2. f \in FlushRecords /\ f.due = due /\ f.pc # "zero"
      <3> HIDE DEF due, below
      <3> QED BY <1>1, <1>2, <1>3, WritingLemma
    <2> QED BY <2>1, <2>2
  <1>5. CASE WriteFails(i, q)
    <2> DEFINE f == Onward([flush[i] EXCEPT !.due = due])
    <2>1. flush' = [flush EXCEPT ![i] = f]
      BY <1>5 DEF WriteFails
    <2>2. [flush[i] EXCEPT !.due = due] = [flush[i] EXCEPT !.due = due, !.clamp = {}]
      <3>1. flush[i] \in FlushFields
        BY RecordLemma
      <3> HIDE DEF due
      <3> QED BY <1>3, <3>1 DEF FlushFields
    <2>3. f \in FlushRecords /\ f.due = due /\ f.pc # "zero"
      <3>1. f = Left(i, due, {})
        BY <2>2 DEF Left
      <3> HIDE DEF due, f
      <3> QED BY <1>1, <1>2, <1>3, <3>1, WritingLemma
    <2> QED BY <2>1, <2>3
  <1> QED BY <1>4, <1>5

\* Every step of a flush keeps the types.
LEMMA FlushTypes ==
    ASSUME TypeInv, NEW i \in Instances, FlushStep(i)
    PROVE  TypeInv'
  <1> USE BoundsLemma DEF Messaging, Documents, EditOK
  <1>1. ASSUME Flush(i)
        PROVE  TypeInv'
    <2> DEFINE f == [NoFlush EXCEPT !.pc = "write", !.due = pending[i]]
    <2>1. f \in FlushRecords
      BY DEF TypeInv, NoFlush, FlushRecords, FlushFields, FlushOK
    <2>2. flush' = [flush EXCEPT ![i] = f] /\ pending' = [pending EXCEPT ![i] = Zero]
      BY <1>1 DEF Flush
    <2> HIDE DEF f
    <2>3. flush' \in [Instances -> FlushRecords] /\ pending' \in [Instances -> Deltas]
      BY <2>1, <2>2, DeltaLemma DEF TypeInv
    <2> QED BY <1>1, <2>3 DEF Flush, TypeInv
  <1>2. ASSUME Clamp(i)
        PROVE  TypeInv'
    <2>1. flush' \in [Instances -> FlushRecords]
      BY <1>2, ClampEffect DEF TypeInv
    <2>2. row' \in Deltas
      <3>1. \A q \in Queues, s \in Statuses : row[q][s] \in Int
        BY DeltaLemma DEF TypeInv
      <3>2. row' = [q \in Queues |-> [s \in Statuses |->
              IF <<q, s>> \in flush[i].clamp /\ row[q][s] < 0 THEN 0 ELSE row[q][s]]]
        BY <1>2 DEF Clamp
      <3>3. \A q \in Queues, s \in Statuses :
              (IF <<q, s>> \in flush[i].clamp /\ row[q][s] < 0 THEN 0 ELSE row[q][s]) \in Int
        BY <3>1
      <3> QED BY <3>2, <3>3 DEF Deltas, Counts
    <2>3. exact' \in BOOLEAN
      BY <1>2 DEF Clamp
    <2> QED BY <1>2, <2>1, <2>2, <2>3 DEF Clamp, TypeInv
  <1>3. ASSUME PurgeDelete(i)
        PROVE  TypeInv'
    <2> DEFINE f == [flush[i] EXCEPT !.pc = "zero"]
    <2>1. f \in FlushRecords
      <3>1. flush[i] \in FlushFields /\ FlushOK(flush[i]) /\ flush[i].pc = "delete"
        BY <1>3, RecordLemma DEF PurgeDelete
      <3> QED BY <3>1 DEF FlushRecords, FlushFields, FlushOK
    <2>2. flush' = [flush EXCEPT ![i] = f]
      BY <1>3 DEF PurgeDelete, TypeInv
    <2> HIDE DEF f
    <2>3. flush' \in [Instances -> FlushRecords]
      BY <2>1, <2>2 DEF TypeInv
    <2>4. msg' \in [Messages -> Docs]
      BY <1>3, MessageLemma DEF PurgeDelete, TypeInv
    <2> QED BY <1>3, <2>3, <2>4 DEF PurgeDelete, TypeInv
  <1>4. ASSUME PurgeZero(i)
        PROVE  TypeInv'
    <2>1. flush' \in [Instances -> FlushRecords]
      BY <1>4, OnwardLemma DEF PurgeZero, TypeInv
    <2>2. row' \in Deltas
      BY <1>4, DeltaLemma DEF PurgeZero, TypeInv, Deltas
    <2> QED BY <1>4, <2>1, <2>2 DEF PurgeZero, TypeInv
  <1>5. ASSUME NEW q \in Queues, WriteCounters(i, q)
        PROVE  TypeInv'
    <2>1. flush' \in [Instances -> FlushRecords]
      BY <1>5, WriteEffect DEF TypeInv
    <2>2. row' \in Deltas
      <3>1. [s \in Statuses |-> row[q][s] + flush[i].due[q][s]] \in Counts
        BY RecordLemma, DeltaLemma DEF Counts, TypeInv
      <3>2. row' = [row EXCEPT ![q] = [s \in Statuses |-> row[q][s] + flush[i].due[q][s]]]
        BY <1>5 DEF WriteCounters, TypeInv, Deltas
      <3> QED BY <3>1, <3>2 DEF TypeInv, Deltas
    <2> QED BY <1>5, <2>1, <2>2 DEF WriteCounters, TypeInv
  <1> QED BY <1>1, <1>2, <1>3, <1>4, <1>5 DEF FlushStep

\* A failure of a call, of a write, of a purge or of the process keeps the types.
LEMMA FailTypes ==
    ASSUME TypeInv, NEW i \in Instances, Fails(i)
    PROVE  TypeInv'
  <1> USE BoundsLemma DEF Messaging, Counting, Documents, EditOK
  <1>1. ASSUME ReceiveFails(i)
        PROVE  TypeInv'
    <2>1. CASE call[i].pc \in {"found", "claimed"}
      <3>1. call' = [call EXCEPT ![i] = NoCall] /\ exact' \in BOOLEAN
        BY <1>1, <2>1 DEF ReceiveFails
      <3>2. call' \in [Instances -> CallRecords]
        BY <3>1, NewCallLemma DEF TypeInv
      <3> QED BY <1>1, <3>1, <3>2 DEF ReceiveFails, TypeInv
    <2>2. CASE call[i].pc = "move"
      <3>1. call' = [call EXCEPT ![i].pc = "adjust"] /\ exact' = exact
        BY <1>1, <2>2 DEF ReceiveFails
      <3> DEFINE e == [call[i] EXCEPT !.pc = "adjust"]
      <3>2. call' = [call EXCEPT ![i] = e]
        BY <3>1 DEF TypeInv
      <3>3. e \in CallRecords
        <4>1. call[i] \in CallRecords
          BY DEF TypeInv
        <4> QED BY <2>2, <4>1, SameDelta
      <3> HIDE DEF e
      <3>4. call' \in [Instances -> CallRecords]
        BY <3>2, <3>3 DEF TypeInv
      <3> QED BY <1>1, <3>1, <3>4 DEF ReceiveFails, TypeInv
    <2> QED BY <1>1, <2>1, <2>2 DEF ReceiveFails
  <1>2. ASSUME ClampFails(i)
        PROVE  TypeInv'
    <2>1. flush' \in [Instances -> FlushRecords]
      BY <1>2, ClampEffect DEF TypeInv
    <2> QED BY <1>2, <2>1 DEF ClampFails, TypeInv
  <1>3. ASSUME PurgeFails(i)
        PROVE  TypeInv'
    <2>1. flush' \in [Instances -> FlushRecords]
      BY <1>3, OnwardLemma DEF PurgeFails, TypeInv
    <2> QED BY <1>3, <2>1 DEF PurgeFails, TypeInv
  <1>4. ASSUME Dies(i)
        PROVE  TypeInv'
    <2>1. /\ flush' \in [Instances -> FlushRecords] /\ call' \in [Instances -> CallRecords]
          /\ pending' \in [Instances -> Deltas]
      BY <1>4, OnwardLemma, NewCallLemma, DeltaLemma DEF Dies, TypeInv
    <2> QED BY <1>4, <2>1 DEF Dies, TypeInv
  <1>5. ASSUME NEW q \in Queues, WriteFails(i, q)
        PROVE  TypeInv'
    <2>1. flush' \in [Instances -> FlushRecords]
      BY <1>5, WriteEffect DEF TypeInv
    <2> QED BY <1>5, <2>1 DEF WriteFails, TypeInv
  <1> QED BY <1>1, <1>2, <1>3, <1>4, <1>5 DEF Fails

\* Every step of the system keeps the types.
LEMMA NextTypes ==
    ASSUME TypeInv, [Next]_vars
    PROVE  TypeInv'
  <1> USE BoundsLemma DEF Rows, Others, Documents, EditOK
  <1>1. ASSUME SaveWrite
        PROVE  TypeInv'
    <2>1. row' \in Deltas /\ save' \in [at : Queues \union {None}, counts : Counts]
      BY <1>1, DeltaLemma DEF SaveWrite, TypeInv, Deltas, NoSave
    <2>2. exact' \in BOOLEAN
      BY <1>1 DEF SaveWrite
    <2> QED BY <1>1, <2>1, <2>2 DEF SaveWrite, TypeInv
  <1>2. ASSUME NEW q \in Queues, SaveRead(q)
        PROVE  TypeInv'
    <2>1. save' \in [at : Queues \union {None}, counts : Counts]
      BY <1>2 DEF SaveRead, TypeInv, Deltas
    <2> QED BY <1>2, <2>1 DEF SaveRead, TypeInv
  <1>3. ASSUME NEW m \in Messages, RetentionExpires(m)
        PROVE  TypeInv'
    <2>1. msg' \in [Messages -> Docs]
      BY <1>3, MessageLemma DEF RetentionExpires, TypeInv
    <2> QED BY <1>3, <2>1 DEF RetentionExpires, TypeInv, Counting
  <1>4. NoRecount \in [counted : Deltas, todo : SUBSET Queues]
    BY DeltaLemma DEF NoRecount
  <1>5. ASSUME GroupCount
        PROVE  TypeInv'
    <2>1. recount' \in [counted : Deltas, todo : SUBSET Queues]
      BY <1>5, CountedLemma DEF GroupCount
    <2> QED BY <1>5, <2>1 DEF GroupCount, TypeInv
  <1>6. ASSUME NEW q \in Queues, SetCounts(q)
        PROVE  TypeInv'
    <2>1. recount' \in [counted : Deltas, todo : SUBSET Queues]
      BY <1>4, <1>6 DEF SetCounts, TypeInv
    <2>2. row' \in Deltas
      BY <1>6 DEF SetCounts, Recounted, TypeInv, Deltas
    <2>3. exact' \in BOOLEAN
      BY <1>6 DEF SetCounts
    <2> QED BY <1>6, <2>1, <2>2, <2>3 DEF SetCounts, TypeInv
  <1>7. ASSUME RecountFails
        PROVE  TypeInv'
    BY <1>4, <1>7 DEF RecountFails, TypeInv
  <1>8. ASSUME UNCHANGED vars
        PROVE  TypeInv'
    BY <1>8 DEF vars, TypeInv, BoundsOK
  <1>9. ASSUME NEW m \in Messages, RewriteRead(m)
        PROVE  TypeInv'
    <2>1. edit' = [m |-> m, doc |-> msg[m]] /\ msg[m] \in Docs
      BY <1>9, RecordLemma DEF RewriteRead
    <2>2. EditOK'
      <3> HIDE DEF Docs
      <3> QED BY <2>1
    <2> QED BY <1>9, <2>2 DEF RewriteRead, TypeInv, Counting
  <1>10. EditOK' \/ edit' # NoEdit
    BY MessageLemma DEF NoEdit
  <1>11. ASSUME RewriteWrite
        PROVE  TypeInv'
    <2>1. edit.m \in Messages /\ edit.doc \in Docs
      BY <1>11 DEF RewriteWrite, TypeInv
    <2>2. msg' \in [Messages -> Docs]
      BY <1>11, <2>1 DEF RewriteWrite, TypeInv
    <2>3. oid' \in [Messages -> Nat]
      BY <1>11, <2>1 DEF RewriteWrite, TypeInv
    <2>4. exact' \in BOOLEAN
      BY <1>11 DEF RewriteWrite
    <2>5. EditOK'
      BY <1>10, <1>11 DEF RewriteWrite
    <2> QED BY <1>11, <2>2, <2>3, <2>4, <2>5 DEF RewriteWrite, TypeInv, Counting
  <1>12. ASSUME RewriteFails
        PROVE  TypeInv'
    BY <1>10, <1>12 DEF RewriteFails, TypeInv, Counting
  <1> QED BY <1>1, <1>2, <1>3, <1>5, <1>6, <1>7, <1>8, <1>9, <1>11, <1>12, BeginTypes, FinishTypes, FlushTypes,
             FailTypes, CounterAssumption DEF Next, Work, RecountStep

\* The first state is typed.
LEMMA InitTypes == Init => TypeInv
  <1> SUFFICES ASSUME Init PROVE TypeInv
    OBVIOUS
  <1>1. msg \in [Messages -> Docs]
    BY MessageLemma DEF Init, Docs, Statuses
  <1>2. row \in Deltas
    BY CountedLemma DEF Init
  <1>3. /\ pending \in [Instances -> Deltas] /\ call \in [Instances -> CallRecords]
        /\ flush \in [Instances -> FlushRecords]
    BY DeltaLemma, NewCallLemma, OnwardLemma DEF Init
  <1>4. /\ save \in [at : Queues \union {None}, counts : Counts]
        /\ recount \in [counted : Deltas, todo : SUBSET Queues]
    BY DeltaLemma DEF Init, NoSave, NoRecount
  <1>5. exact \in BOOLEAN /\ BoundsOK
    BY CounterAssumption DEF Init, BoundsOK
  <1>6. oid \in [Messages -> Nat] /\ EditOK
    BY MessageLemma DEF Init, EditOK, NoEdit
  <1> QED BY <1>1, <1>2, <1>3, <1>4, <1>5, <1>6 DEF TypeInv

\* Every variable keeps its type, and nothing is left of a call or of a flush
\* that is over: what an operation owes is handed over or lost, never forgotten
\* in a call nobody goes on with (adjustQueueCounters(), flushPendingCounters()).
THEOREM TypeCorrect == Spec => []TypeOK
  <1>1. Spec => []TypeInv
    BY InitTypes, NextTypes, PTL DEF Spec
  <1>2. TypeInv => TypeOK
    <2> SUFFICES ASSUME TypeInv PROVE TypeOK
      OBVIOUS
    <2>1. ASSUME NEW i \in Instances
          PROVE  /\ call[i].pc \in {"idle", "found", "claimed", "move", "sweep", "adjust"}
                 /\ call[i].delta \in Deltas
                 /\ flush[i].pc \in {"idle", "write", "delete", "zero"}
                 /\ flush[i].due \in Deltas
                 /\ call[i].pc = "idle" => call[i] = NoCall
                 /\ flush[i].pc = "idle" => flush[i] = NoFlush
      BY RecordLemma DEF CallFields, CallOK, FlushFields, FlushOK
    <2>2. /\ save.counts \in Counts /\ recount.counted \in Deltas /\ recount.todo \subseteq Queues
          /\ edit.doc \in Docs
      BY DEF TypeInv, EditOK
    <2> QED BY <2>1, <2>2 DEF TypeOK, TypeInv, BoundsOK
  <1> QED BY <1>1, <1>2, PTL

-----------------------------------------------------------------------------
\* The balance of a step

\* What one instance has on its way to a counter.
Share(i, q, s) == call[i].delta[q][s] + pending[i][q][s] + flush[i].due[q][s]

Elsewhere(i) ==
  \A j \in Instances \ {i} : call'[j] = call[j] /\ pending'[j] = pending[j] /\ flush'[j] = flush[j]

\* What the row and the instance gain is what there is more of messages.
Balances(i) ==
  \A q \in Queues, s \in Statuses :
    row'[q][s] + Share(i, q, s)' - Counted'[q][s] = row[q][s] + Share(i, q, s) - Counted[q][s]

Whole ==
  \A i \in Instances, q \in Queues, s \in Statuses :
    /\ row[q][s] \in Int /\ Counted[q][s] \in Int /\ Share(i, q, s) \in Int
    /\ call[i].delta[q][s] \in Int /\ pending[i][q][s] \in Int /\ flush[i].due[q][s] \in Int

\* The numbers a balance is made of are integers.
LEMMA Integral == TypeInv => Whole
  <1> SUFFICES ASSUME TypeInv, NEW i \in Instances, NEW q \in Queues, NEW s \in Statuses
               PROVE  /\ row[q][s] \in Int /\ Counted[q][s] \in Int /\ Share(i, q, s) \in Int
                      /\ call[i].delta[q][s] \in Int /\ pending[i][q][s] \in Int
                      /\ flush[i].due[q][s] \in Int
    BY DEF Whole
  <1>1. /\ row \in Deltas /\ pending[i] \in Deltas
        /\ call[i].delta \in Deltas /\ flush[i].due \in Deltas
    BY RecordLemma DEF TypeInv
  <1>2. /\ row[q][s] \in Int /\ pending[i][q][s] \in Int
        /\ call[i].delta[q][s] \in Int /\ flush[i].due[q][s] \in Int
    BY <1>1, DeltaLemma
  <1>3. Counted[q][s] \in Int
    BY CountedLemma, DeltaLemma
  <1> QED BY <1>2, <1>3 DEF Share

\* The same of the next state.
LEMMA IntegralNext == TypeInv' => Whole'
  BY Integral, PTL

\* A step of one instance that balances there conserves the sum over all of them.
LEMMA BalanceLemma ==
    ASSUME TypeInv, TypeInv', NEW i \in Instances, Elsewhere(i), Balances(i), exact, Conserved
    PROVE  Conserved'
  <1> SUFFICES ASSUME NEW q \in Queues, NEW s \in Statuses
               PROVE  row'[q][s] + SumFunction(Owed(q, s)') = Counted'[q][s]
    BY DEF Conserved
  <1> DEFINE f == Owed(q, s)
             v == Share(i, q, s)'
  <1>1. f \in [Instances -> Int]
    BY Integral DEF Whole, Owed, Share
  <1>2. v \in Int /\ row'[q][s] \in Int /\ Counted'[q][s] \in Int
    BY IntegralNext DEF Whole
  <1>3. Owed(q, s)' = [f EXCEPT ![i] = v]
    <2>1. Owed(q, s)' = [j \in Instances |-> Share(j, q, s)']
      BY DEF Owed, Share
    <2>2. f = [j \in Instances |-> Share(j, q, s)]
      BY DEF Owed, Share
    <2>3. \A j \in Instances : j # i => Share(j, q, s)' = Share(j, q, s)
      BY DEF Elsewhere, Share
    <2> HIDE DEF f, v
    <2>4. [f EXCEPT ![i] = v] = [j \in Instances |-> IF j = i THEN v ELSE Share(j, q, s)]
      BY <2>2
    <2>5. \A j \in Instances : Share(j, q, s)' = IF j = i THEN v ELSE Share(j, q, s)
      BY <2>3 DEF v
    <2> QED BY <2>1, <2>4, <2>5
  <1>4. SumFunction(f) \in Int /\ SumFunction([f EXCEPT ![i] = v]) = SumFunction(f) + (v - f[i])
    <2> HIDE DEF f, v
    <2> QED BY <1>1, <1>2, SumChange, CounterAssumption
  <1>5. /\ f[i] = Share(i, q, s) /\ Share(i, q, s) \in Int
        /\ row[q][s] \in Int /\ Counted[q][s] \in Int
    BY Integral DEF Whole, Owed, Share
  <1>6. row[q][s] + SumFunction(f) = Counted[q][s]
    BY DEF Conserved
  <1>7. row'[q][s] + v - Counted'[q][s] = row[q][s] + Share(i, q, s) - Counted[q][s]
    BY DEF Balances
  <1> HIDE DEF f, v
  <1>8. row'[q][s] + SumFunction([f EXCEPT ![i] = v]) = Counted'[q][s]
    BY <1>2, <1>4, <1>5, <1>6, <1>7
  <1> QED BY <1>3, <1>8

\* So does a step that touches neither messages nor rows nor deltas.
LEMMA StillLemma ==
    ASSUME Conserved, exact' => exact /\ row' = row, UNCHANGED <<msg, call, pending, flush>>
    PROVE  Conserved'
  <1> SUFFICES ASSUME exact', NEW q \in Queues, NEW s \in Statuses
               PROVE  row'[q][s] + SumFunction(Owed(q, s)') = Counted'[q][s]
    BY DEF Conserved
  <1>1. Owed(q, s)' = Owed(q, s) /\ Counted' = Counted
    BY DEF Owed, Counted
  <1> QED BY <1>1 DEF Conserved

\* What a call adds to the deltas it holds is what there is more of messages.
Tells(i) ==
  \A q \in Queues, s \in Statuses :
    call'[i].delta[q][s] - call[i].delta[q][s] = Counted'[q][s] - Counted[q][s]

\* A step of a call balances when what it adds to the deltas it holds is what
\* there is more of messages.
LEMMA CallBalance ==
    ASSUME TypeInv, TypeInv', NEW i \in Instances, UNCHANGED <<row, pending, flush>>,
           \A j \in Instances \ {i} : call'[j] = call[j],
           Tells(i)
    PROVE  Elsewhere(i) /\ Balances(i)
  <1>1. Elsewhere(i)
    BY DEF Elsewhere
  <1>2. ASSUME NEW q \in Queues, NEW s \in Statuses
        PROVE  row'[q][s] + Share(i, q, s)' - Counted'[q][s]
                 = row[q][s] + Share(i, q, s) - Counted[q][s]
    <2>1. /\ row[q][s] \in Int /\ Counted[q][s] \in Int /\ Counted'[q][s] \in Int
          /\ call[i].delta[q][s] \in Int /\ call'[i].delta[q][s] \in Int
          /\ pending[i][q][s] \in Int /\ flush[i].due[q][s] \in Int
      BY Integral, IntegralNext DEF Whole
    <2>2. /\ row'[q][s] = row[q][s] /\ pending'[i][q][s] = pending[i][q][s]
          /\ flush'[i].due[q][s] = flush[i].due[q][s]
          /\ call'[i].delta[q][s] - call[i].delta[q][s] = Counted'[q][s] - Counted[q][s]
      BY DEF Tells
    <2>3. /\ Share(i, q, s) = call[i].delta[q][s] + pending[i][q][s] + flush[i].due[q][s]
          /\ Share(i, q, s)' = call'[i].delta[q][s] + pending'[i][q][s] + flush'[i].due[q][s]
      BY DEF Share
    <2> QED BY ONLY <2>1, <2>2, <2>3
  <1> QED BY <1>1, <1>2 DEF Balances

\* What a call owes when a message changes from one thing to another.
Owing(i, old, new) ==
  \A q \in Queues, s \in Statuses :
    call'[i].delta[q][s] - call[i].delta[q][s] = In(new, q, s) - In(old, q, s)

\* One message changes and the call owes the difference.
LEMMA MessageBalance ==
    ASSUME TypeInv, TypeInv', NEW i \in Instances, UNCHANGED <<row, pending, flush>>,
           \A j \in Instances \ {i} : call'[j] = call[j],
           NEW m \in Messages, NEW d, msg' = [msg EXCEPT ![m] = d],
           Owing(i, msg[m], d)
    PROVE  Elsewhere(i) /\ Balances(i)
  <1>1. ASSUME NEW q \in Queues, NEW s \in Statuses
        PROVE  call'[i].delta[q][s] - call[i].delta[q][s] = Counted'[q][s] - Counted[q][s]
    <2>1. Counted'[q][s] = Counted[q][s] + (In(d, q, s) - In(msg[m], q, s))
      <3>1. msg \in [Messages -> Docs]
        BY DEF TypeInv
      <3> QED BY <3>1, OneMessage
    <2>2. Counted[q][s] \in Int
      BY Integral DEF Whole
    <2>3. In(d, q, s) \in Int /\ In(msg[m], q, s) \in Int
      BY DEF In
    <2>4. call'[i].delta[q][s] - call[i].delta[q][s] = In(d, q, s) - In(msg[m], q, s)
      BY DEF Owing
    <2> QED BY ONLY <2>1, <2>2, <2>3, <2>4
  <1>2. Tells(i)
    BY <1>1 DEF Tells
  <1> QED BY <1>2, CallBalance

\* Deltas only change hands: call, map, flush, row.
Shifts(i) ==
  \A q \in Queues, s \in Statuses :
    row'[q][s] + call'[i].delta[q][s] + pending'[i][q][s] + flush'[i].due[q][s]
      = row[q][s] + call[i].delta[q][s] + pending[i][q][s] + flush[i].due[q][s]

\* A step of a flush balances when what one place loses another gains.
LEMMA FlushBalance ==
    ASSUME TypeInv, TypeInv', NEW i \in Instances, UNCHANGED msg,
           \A j \in Instances \ {i} :
             call'[j] = call[j] /\ pending'[j] = pending[j] /\ flush'[j] = flush[j],
           Shifts(i)
    PROVE  Elsewhere(i) /\ Balances(i)
  <1>1. Elsewhere(i)
    BY DEF Elsewhere
  <1>2. Counted' = Counted
    BY DEF Counted
  <1>3. ASSUME NEW q \in Queues, NEW s \in Statuses
        PROVE  row'[q][s] + Share(i, q, s)' - Counted'[q][s]
                 = row[q][s] + Share(i, q, s) - Counted[q][s]
    <2>1. /\ row[q][s] \in Int /\ Counted[q][s] \in Int
          /\ call[i].delta[q][s] \in Int /\ pending[i][q][s] \in Int /\ flush[i].due[q][s] \in Int
          /\ row'[q][s] \in Int /\ call'[i].delta[q][s] \in Int
          /\ pending'[i][q][s] \in Int /\ flush'[i].due[q][s] \in Int
      BY Integral, IntegralNext DEF Whole
    <2>2. row'[q][s] + call'[i].delta[q][s] + pending'[i][q][s] + flush'[i].due[q][s]
            = row[q][s] + call[i].delta[q][s] + pending[i][q][s] + flush[i].due[q][s]
      BY DEF Shifts
    <2>3. /\ Share(i, q, s) = call[i].delta[q][s] + pending[i][q][s] + flush[i].due[q][s]
          /\ Share(i, q, s)' = call'[i].delta[q][s] + pending'[i][q][s] + flush'[i].due[q][s]
          /\ Counted'[q][s] = Counted[q][s]
      BY <1>2 DEF Share
    <2> QED BY ONLY <2>1, <2>2, <2>3
  <1> QED BY <1>1, <1>3 DEF Balances

\* A call that is idle owes nothing, nor does a flush that is.
LEMMA IdleLemma ==
    ASSUME TypeInv, NEW i \in Instances, NEW q \in Queues, NEW s \in Statuses
    PROVE  /\ call[i].pc = "idle" => call[i].delta[q][s] = 0
           /\ call[i].pc \in {"found", "sweep"} => call[i].delta[q][s] = 0
           /\ flush[i].pc \in {"idle", "delete", "zero"} => flush[i].due[q][s] = 0
  <1>1. CallOK(call[i]) /\ FlushOK(flush[i])
    BY RecordLemma
  <1>2. NoCall.delta = Zero /\ NoFlush.due = Zero /\ Zero[q][s] = 0
    <2>1. NoCall.delta = Zero
      BY NewCallLemma
    <2>2. NoFlush.due = Zero
      BY OnwardLemma
    <2>3. Zero[q][s] = 0
      BY DeltaLemma
    <2> QED BY <2>1, <2>2, <2>3
  <1>3. /\ call[i].pc = "idle" => call[i].delta = Zero
        /\ call[i].pc \in {"found", "sweep"} => call[i].delta = Zero
        /\ flush[i].pc \in {"idle", "delete", "zero"} => flush[i].due = Zero
    BY <1>1, <1>2 DEF CallOK, FlushOK
  <1> QED BY <1>2, <1>3

-----------------------------------------------------------------------------
\* The sum is conserved

\* A document that still carries the claim a receive made is where that receive
\* found it, and invisible: the message, and the copy a rewrite may put back.
MineIs(i, d) == d.by = i => d.at = call[i].at /\ d.status = "INVISIBLE"

Mine ==
  exact => \A i \in Instances : call[i].pc \in {"claimed", "move"} =>
    MineIs(i, msg[call[i].m]) /\ (edit.m = call[i].m => MineIs(i, edit.doc))

\* Counters are set to zero only after a purge has deleted what they counted.
Zeroing == \A i \in Instances : flush[i].pc = "zero" => ~exact

CountInv == Mine /\ Zeroing /\ Conserved

\* Claims are not disturbed by what drops some, or leaves messages alone.
LEMMA MineKept ==
    ASSUME TypeInv, Mine, exact' => exact, edit' = edit \/ edit' = NoEdit,
           \A j \in Instances : call'[j].pc \in {"claimed", "move"} =>
             /\ call[j].pc \in {"claimed", "move"}
             /\ call'[j].m = call[j].m /\ call'[j].at = call[j].at,
           \A m \in Messages : msg'[m] = msg[m] \/ msg'[m].by = None
    PROVE  Mine'
  <1> SUFFICES ASSUME exact', NEW j \in Instances, call'[j].pc \in {"claimed", "move"}
               PROVE  /\ MineIs(j, msg[call[j].m])'
                      /\ (edit.m = call[j].m => MineIs(j, edit.doc))'
    BY DEF Mine
  <1>1. /\ call[j].pc \in {"claimed", "move"}
        /\ call'[j].m = call[j].m /\ call'[j].at = call[j].at
    OBVIOUS
  <1>2. call[j].m \in Messages
    BY <1>1, RecordLemma DEF CallOK
  <1>3. MineIs(j, msg[call[j].m]) /\ (edit.m = call[j].m => MineIs(j, edit.doc))
    BY <1>1 DEF Mine
  <1>4. MineIs(j, msg[call[j].m])'
    BY <1>1, <1>2, <1>3, CounterAssumption DEF MineIs
  <1>5. (edit.m = call[j].m => MineIs(j, edit.doc))'
    <2>1. CASE edit' = edit
      BY <1>1, <1>3, <2>1 DEF MineIs
    <2>2. CASE edit' = NoEdit
      BY <1>1, <1>2, <2>2, CounterAssumption DEF NoEdit
    <2> QED BY <2>1, <2>2
  <1> QED BY <1>4, <1>5

\* No purge comes to set counters to zero but by deleting first.
LEMMA ZeroingKept ==
    ASSUME Zeroing, exact' => exact,
           \A j \in Instances : flush'[j].pc = "zero" => flush[j].pc = "zero"
    PROVE  Zeroing'
  BY DEF Zeroing

\* Once the rows are not exact there is nothing to conserve.
LEMMA InexactStep ==
    ASSUME ~exact'
    PROVE  CountInv'
  BY DEF CountInv, Mine, Zeroing, Conserved

\* A step of a call that leaves the flushes alone and balances keeps all three.
LEMMA CallStep ==
    ASSUME TypeInv, TypeInv', CountInv, NEW i \in Instances, Mine',
           exact' => exact, flush' = flush,
           exact' => Elsewhere(i) /\ Balances(i)
    PROVE  CountInv'
  <1>1. Zeroing'
    BY ZeroingKept DEF CountInv
  <1>2. Conserved'
    <2>1. CASE exact'
      BY <2>1, BalanceLemma DEF CountInv
    <2>2. CASE ~exact'
      BY <2>2 DEF Conserved
    <2> QED BY <2>1, <2>2
  <1> QED BY <1>1, <1>2 DEF CountInv

\* A message is sent, and owed as sent.
LEMMA SendCounts ==
    ASSUME TypeInv, TypeInv', CountInv, NEW i \in Instances, NEW m \in Messages,
           NEW q \in Queues, Send(i, m, q)
    PROVE  CountInv'
  <1>1. /\ call[i].pc = "idle" /\ msg[m].at = None
        /\ UNCHANGED <<row, edit, exact, pending, flush>>
    BY DEF Send, Counting
  <1>2. PICK s \in {"AVAILABLE", "DELAYED"} :
          /\ msg' = [msg EXCEPT ![m] = [at |-> q, status |-> s, by |-> None]]
          /\ Owes(i, One(q, s, 1))
    BY DEF Send
  <1> DEFINE d == [at |-> q, status |-> s, by |-> None]
  <1>3. /\ call'[i].pc = "adjust" /\ call'[i].delta = One(q, s, 1)
        /\ \A j \in Instances \ {i} : call'[j] = call[j]
    BY <1>2, OwesLemma, DeltaLemma
  <1>4. ASSUME NEW p \in Queues, NEW t \in Statuses
        PROVE  call'[i].delta[p][t] - call[i].delta[p][t] = In(d, p, t) - In(msg[m], p, t)
    <2>1. call[i].delta[p][t] = 0
      BY <1>1, IdleLemma
    <2>2. call'[i].delta[p][t] = IF p = q /\ t = s THEN 1 ELSE 0
      BY <1>3, ValueLemma
    <2>3. In(msg[m], p, t) = 0
      BY <1>1, CounterAssumption DEF In
    <2>4. In(d, p, t) = IF p = q /\ t = s THEN 1 ELSE 0
      BY DEF In
    <2> QED BY <2>1, <2>2, <2>3, <2>4
  <1>5. Elsewhere(i) /\ Balances(i)
    <2>1. UNCHANGED <<row, pending, flush>> /\ msg' = [msg EXCEPT ![m] = d]
      BY <1>1, <1>2
    <2>2. \A j \in Instances \ {i} : call'[j] = call[j]
      BY <1>3
    <2> HIDE DEF d
    <2>3. Owing(i, msg[m], d)
      BY <1>4 DEF Owing
    <2> QED BY <2>1, <2>2, <2>3, MessageBalance
  <1>6. Mine'
    <2>1. \A n \in Messages : msg'[n] = msg[n] \/ msg'[n].by = None
      BY <1>2 DEF TypeInv
    <2>2. \A j \in Instances : call'[j].pc \in {"claimed", "move"} => call'[j] = call[j]
      BY <1>3
    <2> QED BY <1>1, <2>1, <2>2, MineKept DEF CountInv
  <1> QED BY <1>1, <1>5, <1>6, CallStep

\* A delete owes the counter that held the message.
LEMMA DeleteCounts ==
    ASSUME TypeInv, TypeInv', CountInv, NEW i \in Instances, NEW m \in Messages, Delete(i, m)
    PROVE  CountInv'
  <1>1. /\ call[i].pc = "idle" /\ msg[m].at # None
        /\ msg' = [msg EXCEPT ![m] = Gone]
        /\ Owes(i, One(msg[m].at, msg[m].status, -1))
        /\ UNCHANGED <<row, edit, exact, pending, flush>>
    BY DEF Delete, Counting, Documents, ForDeleted
  <1>2. /\ call'[i].pc = "adjust" /\ call'[i].delta = One(msg[m].at, msg[m].status, -1)
        /\ \A j \in Instances \ {i} : call'[j] = call[j]
    BY <1>1, OwesLemma, DeltaLemma
  <1>3. ASSUME NEW p \in Queues, NEW t \in Statuses
        PROVE  call'[i].delta[p][t] - call[i].delta[p][t] = In(Gone, p, t) - In(msg[m], p, t)
    <2>1. call[i].delta[p][t] = 0
      BY <1>1, IdleLemma
    <2>2. call'[i].delta[p][t] = IF p = msg[m].at /\ t = msg[m].status THEN -1 ELSE 0
      BY <1>2, ValueLemma
    <2>3. In(Gone, p, t) = 0
      BY CounterAssumption DEF In, Gone
    <2>4. In(msg[m], p, t) = IF p = msg[m].at /\ t = msg[m].status THEN 1 ELSE 0
      BY DEF In
    <2> QED BY <2>1, <2>2, <2>3, <2>4
  <1>4. Elsewhere(i) /\ Balances(i)
    <2>1. UNCHANGED <<row, pending, flush>> /\ msg' = [msg EXCEPT ![m] = Gone]
      BY <1>1
    <2>2. \A j \in Instances \ {i} : call'[j] = call[j]
      BY <1>2
    <2>3. Owing(i, msg[m], Gone)
      BY <1>3 DEF Owing
    <2> QED BY <2>1, <2>2, <2>3, MessageBalance
  <1>5. Mine'
    <2>1. \A n \in Messages : msg'[n] = msg[n] \/ msg'[n].by = None
      BY <1>1 DEF TypeInv, Gone
    <2>2. \A j \in Instances : call'[j].pc \in {"claimed", "move"} => call'[j] = call[j]
      BY <1>2
    <2> QED BY <1>1, <2>1, <2>2, MineKept DEF CountInv
  <1> QED BY <1>1, <1>4, <1>5, CallStep

\* A call that goes on, or ends, with the same deltas.
LEMMA SameBalance ==
    ASSUME TypeInv, TypeInv', NEW i \in Instances, UNCHANGED <<msg, row, pending, flush>>,
           \A j \in Instances \ {i} : call'[j] = call[j],
           \A q \in Queues, s \in Statuses : call'[i].delta[q][s] = call[i].delta[q][s]
    PROVE  Elsewhere(i) /\ Balances(i)
  <1>1. Shifts(i)
    BY DEF Shifts
  <1> QED BY <1>1, FlushBalance

\* A call that has only read a message owes nothing, and may end.
LEMMA GivenUpCounts ==
    ASSUME TypeInv, TypeInv', CountInv, NEW i \in Instances, call[i].pc \in {"found", "sweep"},
           call' = [call EXCEPT ![i] = NoCall],
           UNCHANGED <<msg, row, edit, exact, pending, flush>>
    PROVE  CountInv'
  <1>1. call'[i] = NoCall /\ \A j \in Instances \ {i} : call'[j] = call[j]
    BY DEF TypeInv
  <1>2. Mine'
    <2>1. \A j \in Instances : call'[j].pc \in {"claimed", "move"} => call'[j] = call[j]
      BY <1>1 DEF NoCall
    <2> QED BY <2>1, MineKept DEF CountInv
  <1>3. \A q \in Queues, s \in Statuses : call'[i].delta[q][s] = call[i].delta[q][s]
    <2>1. \A q \in Queues, s \in Statuses : call[i].delta[q][s] = 0
      BY IdleLemma
    <2>2. call'[i].delta = Zero
      BY <1>1, NewCallLemma
    <2> QED BY <2>1, <2>2, DeltaLemma
  <1>4. Elsewhere(i) /\ Balances(i)
    BY <1>1, <1>3, SameBalance
  <1> QED BY <1>2, <1>4, CallStep

\* A claim takes a message from one counter to another, and owes both, of the
\* queue that was asked.
LEMMA ClaimCounts ==
    ASSUME TypeInv, TypeInv', CountInv, NEW i \in Instances, Claim(i)
    PROVE  CountInv'
  <1> DEFINE c == call[i]
             m == c.m
             a == c.at
             d == [msg[m] EXCEPT !.status = "INVISIBLE", !.by = i]
             e == [c EXCEPT !.pc = "claimed", !.delta = Claimed(a)]
  <1>1. c.pc = "found" /\ UNCHANGED <<row, pending, flush>>
    BY DEF Claim, Counting
  <1>2. m \in Messages /\ c \in CallRecords
    BY <1>1, RecordLemma DEF CallOK, TypeInv
  <1>3. CASE Matched(i) /\ msg[m].status = "AVAILABLE"
    <2>1. exact' = (exact /\ msg[m].at = a) /\ edit' = [edit EXCEPT !.doc = Forget(i, @)]
      BY <1>3 DEF Claim
    <2>2. msg' = [msg EXCEPT ![m] = d] /\ call' = [call EXCEPT ![i] = e]
      BY <1>2, <1>3 DEF Claim, TypeInv, Docs
    <2>3. d.at = msg[m].at /\ d.status = "INVISIBLE" /\ d.by = i
      <3>1. msg[m] \in Docs
        BY <1>2, RecordLemma
      <3> QED BY <3>1 DEF Docs
    <2>4. e.pc = "claimed" /\ e.m = m /\ e.at = a /\ e.delta = Claimed(a)
      <3> HIDE DEF c
      <3> QED BY <1>1, <1>2, ClaimCall
    <2> HIDE DEF d, e
    <2>5. /\ call'[i] = e /\ \A j \in Instances \ {i} : call'[j] = call[j]
          /\ msg'[m] = d /\ \A n \in Messages \ {m} : msg'[n] = msg[n]
      BY <1>2, <2>2 DEF TypeInv
    <2>6. ASSUME exact'
          PROVE  Elsewhere(i) /\ Balances(i)
      <3>1. ASSUME NEW p \in Queues, NEW t \in Statuses
            PROVE  call'[i].delta[p][t] - call[i].delta[p][t] = In(d, p, t) - In(msg[m], p, t)
        <4>1. call[i].delta[p][t] = 0
          BY <1>1, IdleLemma
        <4>2. call'[i].delta[p][t] = (IF p = a /\ t = "AVAILABLE" THEN -1 ELSE 0)
                                       + (IF p = a /\ t = "INVISIBLE" THEN 1 ELSE 0)
          BY <2>4, <2>5, ValueLemma DEF Claimed
        <4>3. In(msg[m], p, t) = IF p = a /\ t = "AVAILABLE" THEN 1 ELSE 0
          BY <1>3, <2>1, <2>6 DEF In
        <4>4. In(d, p, t) = IF p = a /\ t = "INVISIBLE" THEN 1 ELSE 0
          BY <2>1, <2>3, <2>6 DEF In
        <4> QED BY ONLY <4>1, <4>2, <4>3, <4>4
      <3>2. Owing(i, msg[m], d)
        BY <3>1 DEF Owing
      <3> HIDE DEF m
      <3> QED BY <1>1, <1>2, <2>2, <2>5, <3>2, MessageBalance
    <2>7. Mine'
      <3> SUFFICES ASSUME exact', NEW j \in Instances, call'[j].pc \in {"claimed", "move"}
                   PROVE  /\ MineIs(j, msg[call[j].m])'
                          /\ (edit.m = call[j].m => MineIs(j, edit.doc))'
        BY DEF Mine
      <3>1. exact /\ msg[m].at = a
        BY <2>1
      <3>2. /\ edit'.m = edit.m
            /\ (edit'.doc = edit.doc /\ edit.doc.by # i) \/ edit'.doc.by = None
        BY <2>1, ForgetLemma
      <3>3. CASE j = i
        <4>1. MineIs(j, msg[call[j].m])'
          BY <2>3, <2>4, <2>5, <3>1, <3>3 DEF MineIs
        <4>2. edit'.doc.by # i
          BY <3>2, CounterAssumption
        <4> QED BY <3>3, <4>1, <4>2 DEF MineIs
      <3>4. CASE j # i
        <4>1. call'[j] = call[j] /\ call[j].pc \in {"claimed", "move"}
          BY <2>5, <3>4
        <4>2. call[j].m \in Messages
          BY <4>1, RecordLemma DEF CallOK
        <4>3. MineIs(j, msg[call[j].m]) /\ (edit.m = call[j].m => MineIs(j, edit.doc))
          BY <3>1, <4>1 DEF Mine, CountInv
        <4>4. MineIs(j, msg[call[j].m])'
          BY <2>3, <2>5, <3>4, <4>1, <4>2, <4>3 DEF MineIs
        <4>5. (edit.m = call[j].m => MineIs(j, edit.doc))'
          BY <3>2, <4>1, <4>3, CounterAssumption DEF MineIs
        <4> QED BY <4>4, <4>5
      <3> QED BY <3>3, <3>4
    <2> QED BY <1>1, <2>1, <2>6, <2>7, CallStep
  <1>4. CASE ~(Matched(i) /\ msg[m].status = "AVAILABLE")
    <2>1. call' = [call EXCEPT ![i] = NoCall] /\ UNCHANGED <<msg, edit, exact>>
      BY <1>4 DEF Claim
    <2> QED BY <1>1, <2>1, GivenUpCounts
  <1> QED BY <1>3, <1>4

\* What is read back is counted; what has been taken away meanwhile is not, and
\* the rows are not exact any more.
LEMMA ReadBackCounts ==
    ASSUME TypeInv, TypeInv', CountInv, NEW i \in Instances, ReadBack(i)
    PROVE  CountInv'
  <1> DEFINE c == call[i]
  <1>1. c.pc = "claimed" /\ UNCHANGED <<msg, row, edit, pending, flush>>
    BY DEF ReadBack, Counting, Documents
  <1>2. c \in CallRecords
    BY DEF TypeInv
  <1>3. CASE Matched(i) /\ msg[c.m].by = i
    <2>1. PICK pc \in IF DeadLetterOf[c.at] = None THEN {"adjust"} ELSE {"adjust", "move"} :
            call' = [call EXCEPT ![i].pc = pc]
      BY <1>3 DEF ReadBack
    <2>2. exact' = exact
      BY <1>3 DEF ReadBack
    <2> DEFINE e == [c EXCEPT !.pc = pc]
    <2>3. call' = [call EXCEPT ![i] = e]
      BY <2>1 DEF TypeInv
    <2>4. e.m = c.m /\ e.at = c.at /\ e.delta = c.delta
      BY <1>2 DEF CallRecords, CallFields
    <2> HIDE DEF e
    <2>5. call'[i] = e /\ \A j \in Instances \ {i} : call'[j] = call[j]
      BY <2>3 DEF TypeInv
    <2>6. Mine'
      <3>1. \A m \in Messages : msg'[m] = msg[m] \/ msg'[m].by = None
        BY <1>1
      <3>2. \A j \in Instances : call'[j].pc \in {"claimed", "move"} =>
              /\ call[j].pc \in {"claimed", "move"}
              /\ call'[j].m = call[j].m /\ call'[j].at = call[j].at
        BY <1>1, <2>4, <2>5
      <3> QED BY <1>1, <2>2, <3>1, <3>2, MineKept DEF CountInv
    <2>7. \A q \in Queues, s \in Statuses : call'[i].delta[q][s] = call[i].delta[q][s]
      BY <2>4, <2>5
    <2>8. Elsewhere(i) /\ Balances(i)
      BY <1>1, <2>5, <2>7, SameBalance
    <2> QED BY <1>1, <2>2, <2>6, <2>8, CallStep
  <1>4. CASE ~(Matched(i) /\ msg[c.m].by = i)
    BY <1>4, InexactStep DEF ReadBack
  <1> QED BY <1>3, <1>4

\* A move of a message that is still the receive's own: from "invisible" in its
\* queue to "available" in the dead letter queue, which is what the delta it
\* owes now tells, against the claim it owed before.
LEMMA MoveCounts ==
    ASSUME TypeInv, TypeInv', CountInv, NEW i \in Instances, MoveToDeadLetter(i)
    PROVE  CountInv'
  <1> DEFINE c == call[i]
             m == c.m
             q == c.at
             d == DeadLetterOf[q]
             e == [at |-> d, status |-> "AVAILABLE", by |-> None]
             delta == Plus(One(q, "AVAILABLE", -1), One(d, "AVAILABLE", 1))
  <1>1. /\ c.pc = "move" /\ Owes(i, delta)
        /\ msg' = IF ~Matched(i) THEN msg ELSE [msg EXCEPT ![m] = e]
        /\ exact' = (exact /\ Matched(i) /\ msg[m].by = i)
        /\ UNCHANGED <<row, edit, pending, flush>>
    BY DEF MoveToDeadLetter, Counting, Documents
  <1>2. m \in Messages /\ q \in Queues /\ c.delta = Claimed(q)
    BY <1>1, RecordLemma DEF CallOK
  <1>3. delta \in Deltas
    BY DeltaLemma
  <1>4. /\ call'[i].pc = "adjust" /\ call'[i].delta = delta
        /\ \A j \in Instances \ {i} : call'[j] = call[j]
    <2> HIDE DEF delta
    <2> QED BY <1>1, <1>3, OwesLemma
  <1> HIDE DEF delta
  <1>5. Mine'
    <2>1. \A n \in Messages : msg'[n] = msg[n] \/ msg'[n].by = None
      BY <1>1, <1>2 DEF TypeInv
    <2>2. \A j \in Instances : call'[j].pc \in {"claimed", "move"} => call'[j] = call[j]
      BY <1>4
    <2> QED BY <1>1, <2>1, <2>2, MineKept DEF CountInv
  <1>6. ASSUME exact'
        PROVE  Elsewhere(i) /\ Balances(i)
    <2>1. exact /\ Matched(i) /\ msg[m].by = i
      BY <1>1, <1>6
    <2>2. msg[m].at = q /\ msg[m].status = "INVISIBLE"
      BY <1>1, <2>1 DEF Mine, MineIs, CountInv
    <2>3. msg' = [msg EXCEPT ![m] = e]
      BY <1>1, <2>1
    <2>4. ASSUME NEW p \in Queues, NEW t \in Statuses
          PROVE  call'[i].delta[p][t] - call[i].delta[p][t] = In(e, p, t) - In(msg[m], p, t)
      <3>1. call[i].delta[p][t] = (IF p = q /\ t = "AVAILABLE" THEN -1 ELSE 0)
                                    + (IF p = q /\ t = "INVISIBLE" THEN 1 ELSE 0)
        BY <1>2, ValueLemma DEF Claimed
      <3>2. call'[i].delta[p][t] = (IF p = q /\ t = "AVAILABLE" THEN -1 ELSE 0)
                                     + (IF p = d /\ t = "AVAILABLE" THEN 1 ELSE 0)
        BY <1>4, ValueLemma DEF delta
      <3>3. In(msg[m], p, t) = IF p = q /\ t = "INVISIBLE" THEN 1 ELSE 0
        BY <2>2 DEF In
      <3>4. In(e, p, t) = IF p = d /\ t = "AVAILABLE" THEN 1 ELSE 0
        BY DEF In
      <3> QED BY ONLY <3>1, <3>2, <3>3, <3>4
    <2>5. Owing(i, msg[m], e)
      BY <2>4 DEF Owing
    <2> HIDE DEF e, m
    <2> QED BY <1>1, <1>2, <1>4, <2>3, <2>5, MessageBalance
  <1> QED BY <1>1, <1>5, <1>6, CallStep

\* What a receive finds, or the sweep reads, it does not yet owe.
LEMMA ReadCounts ==
    ASSUME TypeInv, TypeInv', CountInv, NEW i \in Instances, NEW m \in Messages,
           Find(i, m) \/ SweepRead(i, m)
    PROVE  CountInv'
  <1>1. /\ call[i].pc = "idle" /\ msg[m].at # None
        /\ UNCHANGED <<msg, row, edit, exact, pending, flush>>
    BY DEF Find, SweepRead, Counting, Documents
  <1>2. PICK pc \in {"found", "sweep"} : Read(i, pc, m)
    BY DEF Find, SweepRead
  <1>3. /\ call'[i].pc = pc /\ call'[i].delta = Zero
        /\ \A j \in Instances \ {i} : call'[j] = call[j]
    BY <1>1, <1>2, ReadLemma
  <1>4. Mine'
    <2>1. \A j \in Instances : call'[j].pc \in {"claimed", "move"} => call'[j] = call[j]
      BY <1>3
    <2> QED BY <1>1, <2>1, MineKept DEF CountInv
  <1>5. \A q \in Queues, s \in Statuses : call'[i].delta[q][s] = call[i].delta[q][s]
    <2>1. \A q \in Queues, s \in Statuses : call[i].delta[q][s] = 0
      BY <1>1, IdleLemma
    <2> QED BY <1>3, <2>1, DeltaLemma
  <1>6. Elsewhere(i) /\ Balances(i)
    BY <1>1, <1>3, <1>5, SameBalance
  <1> QED BY <1>1, <1>4, <1>6, CallStep

\* The reset owes the change of status, in the queue the cursor read.
LEMMA SweepResetCounts ==
    ASSUME TypeInv, TypeInv', CountInv, NEW i \in Instances, SweepReset(i)
    PROVE  CountInv'
  <1> DEFINE c == call[i]
             m == c.m
             e == [msg[m] EXCEPT !.status = "AVAILABLE", !.by = None]
             delta == Plus(One(c.at, c.was, -1), One(c.at, "AVAILABLE", 1))
  <1>1. c.pc = "sweep" /\ UNCHANGED <<row, edit, pending, flush>>
    BY DEF SweepReset, Counting, Documents
  <1>2. m \in Messages
    BY <1>1, RecordLemma DEF CallOK
  <1>3. CASE Matched(i) /\ msg[m].status = c.was
    <2>1. Owes(i, delta) /\ exact' = (exact /\ msg[m].at = c.at)
      BY <1>3 DEF SweepReset
    <2>2. msg' = [msg EXCEPT ![m] = e]
      BY <1>2, <1>3 DEF SweepReset, TypeInv, Docs
    <2>3. e.at = msg[m].at /\ e.status = "AVAILABLE" /\ e.by = None
      <3>1. msg[m] \in Docs
        BY <1>2, RecordLemma
      <3> QED BY <3>1 DEF Docs
    <2>4. delta \in Deltas
      BY DeltaLemma
    <2> HIDE DEF e, delta
    <2>5. /\ call'[i].pc = "adjust" /\ call'[i].delta = delta
          /\ \A j \in Instances \ {i} : call'[j] = call[j]
      BY <2>1, <2>4, OwesLemma
    <2>6. Mine'
      <3>1. \A n \in Messages : msg'[n] = msg[n] \/ msg'[n].by = None
        BY <1>2, <2>2, <2>3 DEF TypeInv
      <3>2. \A j \in Instances : call'[j].pc \in {"claimed", "move"} => call'[j] = call[j]
        BY <2>5
      <3> QED BY <1>1, <2>1, <3>1, <3>2, MineKept DEF CountInv
    <2>7. ASSUME exact'
          PROVE  Elsewhere(i) /\ Balances(i)
      <3>1. ASSUME NEW p \in Queues, NEW t \in Statuses
            PROVE  call'[i].delta[p][t] - call[i].delta[p][t] = In(e, p, t) - In(msg[m], p, t)
        <4>1. call[i].delta[p][t] = 0
          BY <1>1, IdleLemma
        <4>2. call'[i].delta[p][t] = (IF p = c.at /\ t = c.was THEN -1 ELSE 0)
                                       + (IF p = c.at /\ t = "AVAILABLE" THEN 1 ELSE 0)
          BY <2>5, ValueLemma DEF delta
        <4>3. In(msg[m], p, t) = IF p = c.at /\ t = c.was THEN 1 ELSE 0
          BY <1>3, <2>1, <2>7 DEF In
        <4>4. In(e, p, t) = IF p = c.at /\ t = "AVAILABLE" THEN 1 ELSE 0
          BY <2>1, <2>3, <2>7 DEF In
        <4> QED BY ONLY <4>1, <4>2, <4>3, <4>4
      <3>2. Owing(i, msg[m], e)
        BY <3>1 DEF Owing
      <3> HIDE DEF m
      <3> QED BY <1>1, <1>2, <2>2, <2>5, <3>2, MessageBalance
    <2> QED BY <1>1, <2>1, <2>6, <2>7, CallStep
  <1>4. CASE ~(Matched(i) /\ msg[m].status = c.was)
    <2>1. call' = [call EXCEPT ![i] = NoCall] /\ UNCHANGED <<msg, exact>>
      BY <1>4 DEF SweepReset
    <2> QED BY <1>1, <2>1, GivenUpCounts
  <1> QED BY <1>3, <1>4

\* All of a dead letter queue, when all of it is available, is added to what is
\* available of the queue.
LEMMA MovedLemma ==
    ASSUME NEW q \in Queues, NEW d \in Queues,
           NEW moved, moved = {m \in Messages : msg[m].at = d},
           \A m \in moved : msg[m].status = "AVAILABLE",
           msg' = [m \in Messages |->
             IF m \in moved THEN [at |-> q, status |-> "AVAILABLE", by |-> None] ELSE msg[m]],
           NEW p \in Queues, NEW t \in Statuses
    PROVE  Counted'[p][t] - Counted[p][t]
             = (IF p = d /\ t = "AVAILABLE" THEN 0 - Cardinality(moved) ELSE 0)
                 + (IF p = q /\ t = "AVAILABLE" THEN Cardinality(moved) ELSE 0)
  <1> DEFINE in == {m \in Messages : msg[m].at = p /\ msg[m].status = t}
             new == {m \in Messages : msg'[m].at = p /\ msg'[m].status = t}
  <1>1. IsFiniteSet(in) /\ Counted[p][t] = Cardinality(in) /\ Counted[p][t] \in Nat
    BY CountedLemma
  <1>2. Counted'[p][t] = Cardinality(new)
    BY CountedNext
  <1>3. IsFiniteSet(moved) /\ Cardinality(moved) \in Nat
    <2>1. IsFiniteSet(moved)
      BY FS_Subset, CounterAssumption
    <2> QED BY <2>1, FS_CardinalityType
  <1>4. \A m \in Messages : IF m \in moved THEN msg'[m].at = q /\ msg'[m].status = "AVAILABLE"
                                           ELSE msg'[m] = msg[m]
    OBVIOUS
  <1>5. CASE d = q
    <2>1. new = in
      BY <1>4, <1>5
    <2>2. Counted'[p][t] = Counted[p][t]
      BY <1>1, <1>2, <2>1
    <2> QED BY ONLY <1>1, <1>3, <1>5, <2>2
  <1>6. CASE d # q /\ p = d /\ t = "AVAILABLE"
    <2>1. in = moved /\ new = {}
      BY <1>4, <1>6
    <2>2. Counted[p][t] = Cardinality(moved) /\ Counted'[p][t] = 0
      BY <1>1, <1>2, <2>1, FS_EmptySet
    <2> QED BY ONLY <1>3, <1>6, <2>2
  <1>7. CASE d # q /\ p = q /\ t = "AVAILABLE"
    <2>1. new = in \union moved /\ in \intersect moved = {}
      BY <1>4, <1>7
    <2>2. Cardinality(in \union moved)
            = Cardinality(in) + Cardinality(moved) - Cardinality(in \intersect moved)
      BY <1>1, <1>3, FS_Union
    <2>3. Counted'[p][t] = Counted[p][t] + Cardinality(moved)
      <3>1. Cardinality(in \intersect moved) = 0
        BY <2>1, FS_EmptySet
      <3>2. Cardinality(new) = Cardinality(in \union moved)
        BY <2>1
      <3> HIDE DEF in, new
      <3> QED BY <1>1, <1>2, <1>3, <2>2, <3>1, <3>2
    <2> QED BY ONLY <1>1, <1>3, <1>7, <2>3
  <1>8. CASE d # q /\ ~(p = d /\ t = "AVAILABLE") /\ ~(p = q /\ t = "AVAILABLE")
    <2>1. new = in
      BY <1>4, <1>8
    <2>2. Counted'[p][t] = Counted[p][t]
      BY <1>1, <1>2, <2>1
    <2> QED BY ONLY <1>1, <1>8, <2>2
  <1> QED BY <1>5, <1>6, <1>7, <1>8

\* A redrive owes what it moves, out of one queue and into the other.
LEMMA RedriveCounts ==
    ASSUME TypeInv, TypeInv', CountInv, NEW i \in Instances, NEW q \in Queues, Redrive(i, q)
    PROVE  CountInv'
  <1> DEFINE d == DeadLetterOf[q]
             moved == {m \in Messages : msg[m].at = d}
             n == Cardinality(moved)
             delta == Plus(One(d, "AVAILABLE", 0 - n), One(q, "AVAILABLE", n))
  <1>1. /\ call[i].pc = "idle" /\ d # None /\ Owes(i, delta)
        /\ msg' = [m \in Messages |->
             IF m \in moved THEN [at |-> q, status |-> "AVAILABLE", by |-> None] ELSE msg[m]]
        /\ exact' = (exact /\ \A m \in moved : msg[m].status = "AVAILABLE")
        /\ UNCHANGED <<row, edit, pending, flush>>
    BY DEF Redrive, Counting, Documents
  <1>2. n \in Int /\ 0 - n \in Int
    <2>1. IsFiniteSet(moved)
      BY FS_Subset, CounterAssumption
    <2>2. n \in Nat
      BY <2>1, FS_CardinalityType
    <2> QED BY <2>2
  <1>3. delta \in Deltas
    <2> HIDE DEF n, d
    <2> QED BY <1>2, DeltaLemma
  <1>4. d \in Queues
    BY <1>1, CounterAssumption
  <1> HIDE DEF delta
  <1>5. /\ call'[i].pc = "adjust" /\ call'[i].delta = delta
        /\ \A j \in Instances \ {i} : call'[j] = call[j]
    BY <1>1, <1>3, OwesLemma
  <1>6. Mine'
    <2>1. \A m \in Messages : msg'[m] = msg[m] \/ msg'[m].by = None
      BY <1>1
    <2>2. \A j \in Instances : call'[j].pc \in {"claimed", "move"} => call'[j] = call[j]
      BY <1>5
    <2> QED BY <1>1, <2>1, <2>2, MineKept DEF CountInv
  <1>7. ASSUME exact'
        PROVE  Elsewhere(i) /\ Balances(i)
    <2>1. ASSUME NEW p \in Queues, NEW t \in Statuses
          PROVE  call'[i].delta[p][t] - call[i].delta[p][t] = Counted'[p][t] - Counted[p][t]
      <3>1. call[i].delta[p][t] = 0
        BY <1>1, IdleLemma
      <3>2. call'[i].delta[p][t] = (IF p = d /\ t = "AVAILABLE" THEN 0 - n ELSE 0)
                                     + (IF p = q /\ t = "AVAILABLE" THEN n ELSE 0)
        <4> HIDE DEF n, d
        <4> QED BY <1>5, ValueLemma DEF delta
      <3>3. \A m \in moved : msg[m].status = "AVAILABLE"
        BY <1>1, <1>7
      <3>4. Counted'[p][t] - Counted[p][t]
              = (IF p = d /\ t = "AVAILABLE" THEN 0 - n ELSE 0)
                  + (IF p = q /\ t = "AVAILABLE" THEN n ELSE 0)
        <4>1. moved = {m \in Messages : msg[m].at = d}
          OBVIOUS
        <4> HIDE DEF moved, d
        <4> QED BY <1>1, <1>4, <3>3, <4>1, MovedLemma
      <3> HIDE DEF n, d
      <3> QED BY ONLY <1>2, <3>1, <3>2, <3>4
    <2>2. Tells(i)
      BY <2>1 DEF Tells
    <2> QED BY <1>1, <1>5, <2>2, CallBalance
  <1> QED BY <1>1, <1>6, <1>7, CallStep

\* A step that leaves messages and claims alone, and balances, keeps all three.
LEMMA QuietStep ==
    ASSUME TypeInv, TypeInv', CountInv, NEW i \in Instances, UNCHANGED <<msg, edit>>,
           \A j \in Instances : call'[j].pc \in {"claimed", "move"} => call'[j] = call[j],
           \A j \in Instances : flush'[j].pc = "zero" => flush[j].pc = "zero",
           exact' => exact,
           exact' => Elsewhere(i) /\ Balances(i)
    PROVE  CountInv'
  <1>1. Mine'
    BY MineKept DEF CountInv
  <1>2. Zeroing'
    BY ZeroingKept DEF CountInv
  <1>3. Conserved'
    <2>1. CASE exact'
      BY <2>1, BalanceLemma DEF CountInv
    <2>2. CASE ~exact'
      BY <2>2 DEF Conserved
    <2> QED BY <2>1, <2>2
  <1> QED BY <1>1, <1>2, <1>3 DEF CountInv

\* An adjustment moves what a call owes into the map of its instance.
LEMMA AdjustCounts ==
    ASSUME TypeInv, TypeInv', CountInv, NEW i \in Instances, NEW q \in Queues, Adjust(i, q)
    PROVE  CountInv'
  <1> DEFINE c == call[i]
             rest == [c.delta EXCEPT ![q] = NoCounts]
             e == IF rest = Zero THEN NoCall ELSE [c EXCEPT !.delta = rest]
             more == [s \in Statuses |-> pending[i][q][s] + c.delta[q][s]]
  <1>1. /\ c.pc = "adjust" /\ call' = [call EXCEPT ![i] = e]
        /\ UNCHANGED <<msg, edit, row, flush, exact>>
    BY DEF Adjust, Documents
  <1>2. pending' = [pending EXCEPT ![i][q] = more]
    BY DEF Adjust
  <1>3. c \in CallFields /\ c.delta \in Deltas /\ rest \in Deltas
    BY RecordLemma, DeltaLemma DEF Deltas
  <1>4. e.pc \in {"idle", "adjust"} /\ e.delta = rest
    <2>1. CASE rest = Zero
      BY <2>1, NewCallLemma DEF NoCall
    <2>2. CASE rest # Zero
      <3> HIDE DEF rest, c
      <3> QED BY <1>1, <1>3, <2>2 DEF CallFields
    <2> QED BY <2>1, <2>2
  <1>5. ASSUME NEW p \in Queues, NEW t \in Statuses
        PROVE  call'[i].delta[p][t] + pending'[i][p][t] = call[i].delta[p][t] + pending[i][p][t]
    <2>1. call'[i].delta[p][t] = IF p = q THEN 0 ELSE c.delta[p][t]
      <3>1. call'[i].delta = rest
        <4> HIDE DEF e, rest
        <4> QED BY <1>1, <1>4 DEF TypeInv
      <3>2. rest[p][t] = IF p = q THEN 0 ELSE c.delta[p][t]
        BY <1>3 DEF Deltas, NoCounts
      <3> QED BY <3>1, <3>2
    <2>2. pending'[i][p][t] = IF p = q THEN pending[i][p][t] + c.delta[p][t] ELSE pending[i][p][t]
      BY <1>2 DEF TypeInv, Deltas
    <2>3. c.delta[p][t] \in Int /\ pending[i][p][t] \in Int
      BY Integral DEF Whole
    <2> QED BY ONLY <2>1, <2>2, <2>3
  <1> HIDE DEF e, more
  <1>6. /\ call'[i].pc \in {"idle", "adjust"}
        /\ \A j \in Instances \ {i} : call'[j] = call[j] /\ pending'[j] = pending[j]
    BY <1>1, <1>2, <1>4 DEF TypeInv
  <1>7. Shifts(i)
    <2>1. ASSUME NEW p \in Queues, NEW t \in Statuses
          PROVE  row'[p][t] + call'[i].delta[p][t] + pending'[i][p][t] + flush'[i].due[p][t]
                   = row[p][t] + call[i].delta[p][t] + pending[i][p][t] + flush[i].due[p][t]
      <3>1. call'[i].delta[p][t] + pending'[i][p][t] = call[i].delta[p][t] + pending[i][p][t]
        BY <1>5
      <3>2. row'[p][t] = row[p][t] /\ flush'[i].due[p][t] = flush[i].due[p][t]
        BY <1>1
      <3>3. /\ row[p][t] \in Int /\ call[i].delta[p][t] \in Int /\ pending[i][p][t] \in Int
            /\ flush[i].due[p][t] \in Int /\ call'[i].delta[p][t] \in Int
            /\ pending'[i][p][t] \in Int
        BY Integral, IntegralNext DEF Whole
      <3> QED BY ONLY <3>1, <3>2, <3>3
    <2> QED BY <2>1 DEF Shifts
  <1>8. Elsewhere(i) /\ Balances(i)
    BY <1>1, <1>6, <1>7, FlushBalance
  <1>9. \A j \in Instances : call'[j].pc \in {"claimed", "move"} => call'[j] = call[j]
    BY <1>6
  <1> QED BY <1>1, <1>8, <1>9, QuietStep

\* A flush, and the flush a purge begins with, take what the map holds.
LEMMA TakeCounts ==
    ASSUME TypeInv, TypeInv', CountInv, NEW i \in Instances, NEW f \in FlushRecords,
           flush[i].pc = "idle", f.due = pending[i], f.pc # "zero",
           flush' = [flush EXCEPT ![i] = f], pending' = [pending EXCEPT ![i] = Zero],
           UNCHANGED <<msg, edit, row, call, exact>>
    PROVE  CountInv'
  <1>1. /\ flush'[i] = f /\ pending'[i] = Zero
        /\ \A j \in Instances \ {i} : flush'[j] = flush[j] /\ pending'[j] = pending[j]
    BY DEF TypeInv
  <1>2. ASSUME NEW p \in Queues, NEW t \in Statuses
        PROVE  row'[p][t] + call'[i].delta[p][t] + pending'[i][p][t] + flush'[i].due[p][t]
                 = row[p][t] + call[i].delta[p][t] + pending[i][p][t] + flush[i].due[p][t]
    <2>1. /\ row'[p][t] = row[p][t] /\ call'[i].delta[p][t] = call[i].delta[p][t]
          /\ flush'[i].due[p][t] = pending[i][p][t]
      BY <1>1
    <2>2. pending'[i][p][t] = 0
      BY <1>1, DeltaLemma
    <2>3. flush[i].due[p][t] = 0
      BY IdleLemma
    <2>4. row[p][t] \in Int /\ call[i].delta[p][t] \in Int /\ pending[i][p][t] \in Int
      BY Integral DEF Whole
    <2> QED BY ONLY <2>1, <2>2, <2>3, <2>4
  <1>3. Shifts(i)
    BY <1>2 DEF Shifts
  <1>4. Elsewhere(i) /\ Balances(i)
    BY <1>1, <1>3, FlushBalance
  <1> QED BY <1>1, <1>4, QuietStep

\* The flush's timer takes them.
LEMMA FlushCounts ==
    ASSUME TypeInv, TypeInv', CountInv, NEW i \in Instances, Flush(i)
    PROVE  CountInv'
  <1> DEFINE f == [NoFlush EXCEPT !.pc = "write", !.due = pending[i]]
  <1>1. f \in FlushRecords /\ f.due = pending[i] /\ f.pc # "zero"
    BY DEF TypeInv, NoFlush, FlushRecords, FlushFields, FlushOK
  <1>2. /\ flush[i].pc = "idle"
        /\ flush' = [flush EXCEPT ![i] = f] /\ pending' = [pending EXCEPT ![i] = Zero]
        /\ UNCHANGED <<msg, edit, row, call, exact>>
    BY DEF Flush, Messaging
  <1> HIDE DEF f
  <1> QED BY <1>1, <1>2, TakeCounts

\* So does a purge, before it deletes.
LEMMA PurgeCounts ==
    ASSUME TypeInv, TypeInv', CountInv, NEW i \in Instances, NEW q \in Queues, Purge(i, q)
    PROVE  CountInv'
  <1> DEFINE g == [NoFlush EXCEPT !.pc = "write", !.due = pending[i], !.purge = q]
             f == Onward(g)
  <1>1. g \in FlushFields /\ g.pc = "write" /\ g.due = pending[i]
    BY DEF TypeInv, NoFlush, FlushFields
  <1>2. /\ flush[i].pc = "idle"
        /\ flush' = [flush EXCEPT ![i] = f] /\ pending' = [pending EXCEPT ![i] = Zero]
        /\ UNCHANGED <<msg, edit, row, call, exact>>
    BY DEF Purge, Messaging
  <1> HIDE DEF g
  <1>3. f \in FlushRecords /\ f.due = pending[i] /\ f.pc # "zero"
    BY <1>1, OnwardLemma
  <1> HIDE DEF f
  <1> QED BY <1>2, <1>3, TakeCounts

\* A write adds to the row what was due to it.
LEMMA WriteCounts ==
    ASSUME TypeInv, TypeInv', CountInv, NEW i \in Instances, NEW q \in Queues, WriteCounters(i, q)
    PROVE  CountInv'
  <1>1. PICK f \in FlushRecords : /\ flush' = [flush EXCEPT ![i] = f]
                                  /\ f.due = [flush[i].due EXCEPT ![q] = NoCounts]
                                  /\ f.pc # "zero"
    BY WriteEffect
  <1>2. /\ flush'[i].due = [flush[i].due EXCEPT ![q] = NoCounts] /\ flush'[i].pc # "zero"
        /\ \A j \in Instances \ {i} : flush'[j] = flush[j]
    BY <1>1 DEF TypeInv
  <1>3. /\ row' = [row EXCEPT ![q] = [s \in Statuses |-> row[q][s] + flush[i].due[q][s]]]
        /\ UNCHANGED <<msg, edit, call, pending, exact>>
    BY DEF WriteCounters, Messaging, TypeInv, Deltas
  <1>4. ASSUME NEW p \in Queues, NEW t \in Statuses
        PROVE  row'[p][t] + call'[i].delta[p][t] + pending'[i][p][t] + flush'[i].due[p][t]
                 = row[p][t] + call[i].delta[p][t] + pending[i][p][t] + flush[i].due[p][t]
    <2>1. row'[p][t] = IF p = q THEN row[p][t] + flush[i].due[p][t] ELSE row[p][t]
      BY <1>3 DEF TypeInv, Deltas
    <2>2. flush'[i].due[p][t] = IF p = q THEN 0 ELSE flush[i].due[p][t]
      <3>1. flush[i].due \in Deltas
        BY RecordLemma
      <3> QED BY <1>2, <3>1 DEF Deltas, NoCounts
    <2>3. /\ call'[i].delta[p][t] = call[i].delta[p][t]
          /\ pending'[i][p][t] = pending[i][p][t]
      BY <1>3
    <2>4. /\ row[p][t] \in Int /\ call[i].delta[p][t] \in Int /\ pending[i][p][t] \in Int
          /\ flush[i].due[p][t] \in Int
      BY Integral DEF Whole
    <2> QED BY ONLY <2>1, <2>2, <2>3, <2>4
  <1>5. Shifts(i)
    BY <1>4 DEF Shifts
  <1>6. Elsewhere(i) /\ Balances(i)
    BY <1>2, <1>3, <1>5, FlushBalance
  <1> QED BY <1>2, <1>3, <1>6, QuietStep

\* A flush that goes on with the same deltas, and rows that stay as they are.
LEMMA SameFlush ==
    ASSUME TypeInv, TypeInv', CountInv, NEW i \in Instances, NEW f \in FlushRecords,
           flush' = [flush EXCEPT ![i] = f], f.pc # "zero",
           \A q \in Queues, s \in Statuses : f.due[q][s] = flush[i].due[q][s],
           UNCHANGED <<msg, edit, call, pending>>, exact' => exact /\ row' = row
    PROVE  CountInv'
  <1>1. flush'[i] = f /\ \A j \in Instances \ {i} : flush'[j] = flush[j]
    BY DEF TypeInv
  <1>2. ASSUME exact'
        PROVE  Elsewhere(i) /\ Balances(i)
    <2>1. Shifts(i)
      BY <1>1, <1>2 DEF Shifts
    <2> QED BY <1>1, <2>1, FlushBalance
  <1> QED BY <1>1, <1>2, QuietStep

\* A clamp that finds nothing to clamp, or fails, changes no sum.
LEMMA ClampCounts ==
    ASSUME TypeInv, TypeInv', CountInv, NEW i \in Instances, Clamp(i) \/ ClampFails(i)
    PROVE  CountInv'
  <1>1. PICK f \in FlushRecords : /\ flush' = [flush EXCEPT ![i] = f]
                                  /\ f.due = flush[i].due /\ f.pc # "zero"
    BY ClampEffect
  <1>2. UNCHANGED <<msg, edit, call, pending>> /\ (exact' => exact /\ row' = row)
    <2>1. UNCHANGED <<msg, edit, call, pending>>
      BY DEF Clamp, ClampFails, Messaging
    <2>2. CASE Clamp(i)
      <3>1. exact' = (exact /\ row' = row)
        BY <2>2 DEF Clamp
      <3> QED BY <2>1, <3>1
    <2>3. CASE ClampFails(i)
      BY <2>1, <2>3 DEF ClampFails
    <2> QED BY <2>2, <2>3
  <1>3. \A q \in Queues, s \in Statuses : f.due[q][s] = flush[i].due[q][s]
    BY <1>1
  <1> QED BY <1>1, <1>2, <1>3, SameFlush

\* A purge that ends early or late has no deltas left.
LEMMA PurgeEndCounts ==
    ASSUME TypeInv, TypeInv', CountInv, NEW i \in Instances, PurgeZero(i) \/ PurgeFails(i)
    PROVE  CountInv'
  <1>1. /\ flush' = [flush EXCEPT ![i] = NoFlush] /\ flush[i].pc \in {"delete", "zero"}
        /\ UNCHANGED <<msg, edit, call, pending>>
    BY DEF PurgeZero, PurgeFails, Messaging
  <1>2. exact' => exact /\ row' = row
    <2>1. CASE PurgeZero(i)
      <3>1. flush[i].pc = "zero" /\ exact' = exact
        BY <2>1 DEF PurgeZero
      <3> QED BY <3>1 DEF CountInv, Zeroing
    <2>2. CASE PurgeFails(i)
      BY <2>2 DEF PurgeFails
    <2> QED BY <2>1, <2>2
  <1>3. NoFlush \in FlushRecords /\ NoFlush.pc # "zero" /\ NoFlush.due = Zero
    BY OnwardLemma DEF NoFlush
  <1>4. \A q \in Queues, s \in Statuses : NoFlush.due[q][s] = flush[i].due[q][s]
    <2>1. \A q \in Queues, s \in Statuses : flush[i].due[q][s] = 0
      BY <1>1, IdleLemma
    <2> QED BY <1>3, <2>1, DeltaLemma
  <1> QED BY <1>1, <1>2, <1>3, <1>4, SameFlush

\* A message whose read back fails is not counted; one that fails to be moved
\* is counted as claimed.
LEMMA ReceiveFailsCounts ==
    ASSUME TypeInv, TypeInv', CountInv, NEW i \in Instances, ReceiveFails(i)
    PROVE  CountInv'
  <1>1. UNCHANGED <<msg, row, edit, pending, flush>>
    BY DEF ReceiveFails, Counting, Documents
  <1>2. CASE call[i].pc = "claimed"
    <2>1. exact' = FALSE
      BY <1>2 DEF ReceiveFails
    <2> QED BY <2>1, InexactStep
  <1>4. CASE call[i].pc = "found"
    <2>1. call' = [call EXCEPT ![i] = NoCall] /\ exact' = exact
      BY <1>4 DEF ReceiveFails, TypeInv
    <2> QED BY <1>1, <1>4, <2>1, GivenUpCounts
  <1>3. CASE call[i].pc = "move"
    <2> DEFINE e == [call[i] EXCEPT !.pc = "adjust"]
    <2>1. call' = [call EXCEPT ![i] = e] /\ exact' = exact
      BY <1>3 DEF ReceiveFails, TypeInv
    <2>2. e.pc = "adjust" /\ e.delta = call[i].delta
      <3>1. call[i] \in CallFields
        BY RecordLemma
      <3> QED BY <3>1 DEF CallFields
    <2> HIDE DEF e
    <2>3. call'[i] = e /\ \A j \in Instances \ {i} : call'[j] = call[j]
      BY <2>1 DEF TypeInv
    <2>4. \A j \in Instances : call'[j].pc \in {"claimed", "move"} => call'[j] = call[j]
      BY <2>2, <2>3
    <2>5. Elsewhere(i) /\ Balances(i)
      BY <1>1, <2>2, <2>3, SameBalance
    <2> QED BY <1>1, <2>1, <2>4, <2>5, QuietStep
  <1> QED BY <1>2, <1>3, <1>4 DEF ReceiveFails

\* What no delta tells: a purge's delete, expiry, a write that fails, a death.
LEMMA UntoldCounts ==
    ASSUME TypeInv, CountInv,
           \/ \E i \in Instances : \/ PurgeDelete(i) \/ Dies(i)
                                   \/ \E q \in Queues : WriteFails(i, q)
           \/ \E m \in Messages : RetentionExpires(m)
    PROVE  CountInv'
  <1>1. ~exact'
    BY DEF PurgeDelete, Dies, WriteFails, RetentionExpires
  <1> QED BY <1>1, InexactStep

\* A rewrite that puts back the queue and the status a message has changes no
\* count, and no claim: the copy was read after the claim it carries.
LEMMA RewriteCounts ==
    ASSUME TypeInv, CountInv, RewriteWrite
    PROVE  CountInv'
  <1> DEFINE m == edit.m
             d == edit.doc
  <1>1. /\ msg' = [msg EXCEPT ![m] = d] /\ edit' = NoEdit
        /\ exact' = (exact /\ msg[m].at = d.at /\ msg[m].status = d.status)
        /\ UNCHANGED <<row, call, pending, flush>>
    BY DEF RewriteWrite, Counting
  <1>2. m \in Messages
    BY DEF RewriteWrite, TypeInv, EditOK
  <1>3. SUFFICES ASSUME exact' PROVE CountInv'
    BY InexactStep
  <1>4. exact /\ msg[m].at = d.at /\ msg[m].status = d.status
    BY <1>1, <1>3
  <1>5. Mine'
    <2> SUFFICES ASSUME NEW j \in Instances, call'[j].pc \in {"claimed", "move"}
                 PROVE  /\ MineIs(j, msg[call[j].m])'
                        /\ (edit.m = call[j].m => MineIs(j, edit.doc))'
      BY DEF Mine
    <2>1. call[j].m \in Messages
      BY <1>1, RecordLemma DEF CallOK
    <2>2. MineIs(j, msg[call[j].m]) /\ (edit.m = call[j].m => MineIs(j, edit.doc))
      BY <1>1, <1>4 DEF Mine, CountInv
    <2>3. msg'[call[j].m] = msg[call[j].m] \/ (call[j].m = m /\ msg'[call[j].m] = d)
      BY <1>1, <1>2, <2>1 DEF TypeInv
    <2>4. MineIs(j, msg[call[j].m])'
      BY <1>1, <2>2, <2>3 DEF MineIs
    <2>5. edit'.m # call'[j].m
      BY <1>1, <2>1, CounterAssumption DEF NoEdit
    <2> QED BY <2>4, <2>5
  <1>6. Zeroing'
    BY <1>1, <1>4 DEF Zeroing, CountInv
  <1>7. Conserved'
    <2> SUFFICES ASSUME NEW q \in Queues, NEW s \in Statuses
                 PROVE  row'[q][s] + SumFunction(Owed(q, s)') = Counted'[q][s]
      BY DEF Conserved
    <2>1. Owed(q, s)' = Owed(q, s) /\ row' = row
      BY <1>1 DEF Owed
    <2>2. Counted'[q][s] = Counted[q][s] + (In(d, q, s) - In(msg[m], q, s))
      <3>1. msg \in [Messages -> Docs]
        BY DEF TypeInv
      <3> HIDE DEF m, d
      <3> QED BY <1>1, <1>2, <3>1, OneMessage
    <2>3. In(d, q, s) = In(msg[m], q, s) /\ In(d, q, s) \in Int
      BY <1>4 DEF In
    <2>4. Counted[q][s] \in Int
      BY CountedLemma, DeltaLemma
    <2>5. Counted'[q][s] = Counted[q][s]
      <3> HIDE DEF m, d
      <3> QED BY <2>2, <2>3, <2>4
    <2> QED BY <1>4, <2>1, <2>5 DEF Conserved, CountInv
  <1> QED BY <1>5, <1>6, <1>7 DEF CountInv

\* Reading a document, or failing to write it, changes no message: what the
\* copy carries of a claim is what the message carries.
LEMMA CopyCounts ==
    ASSUME TypeInv, CountInv, RewriteFails \/ \E m \in Messages : RewriteRead(m)
    PROVE  CountInv'
  <1>1. UNCHANGED <<msg, row, call, exact, pending, flush>>
    BY DEF RewriteRead, RewriteFails, Counting
  <1>2. Conserved'
    BY <1>1, StillLemma DEF CountInv
  <1>3. Zeroing'
    BY <1>1 DEF CountInv, Zeroing
  <1>4. Mine'
    <2>1. CASE RewriteFails
      <3>1. edit' = NoEdit
        BY <2>1 DEF RewriteFails
      <3> QED BY <1>1, <3>1, MineKept DEF CountInv
    <2>2. ASSUME NEW m \in Messages, RewriteRead(m)
          PROVE  Mine'
      <3>1. edit'.m = m /\ edit'.doc = msg[m]
        BY <2>2 DEF RewriteRead
      <3> QED BY <1>1, <3>1 DEF CountInv, Mine, MineIs
    <2> QED BY <2>1, <2>2
  <1> QED BY <1>2, <1>3, <1>4 DEF CountInv

\* Whole-row writes and the recount change no delta, and no row while it is exact.
LEMMA RowCounts ==
    ASSUME TypeInv, CountInv,
           \/ SaveWrite \/ \E q \in Queues : SaveRead(q) \/ SetCounts(q)
           \/ GroupCount \/ RecountFails \/ UNCHANGED vars
    PROVE  CountInv'
  <1>1. UNCHANGED <<msg, edit, call, pending, flush>>
    BY DEF SaveWrite, SaveRead, SetCounts, GroupCount, RecountFails, vars, Rows, Others
  <1>2. exact' => exact /\ row' = row
    <2>1. CASE SaveWrite
      <3>1. /\ row' = [row EXCEPT ![save.at] = save.counts]
            /\ exact' = (exact /\ row[save.at] = save.counts)
        BY <2>1 DEF SaveWrite
      <3>2. exact' => exact /\ row[save.at] = save.counts
        BY <3>1
      <3>3. row[save.at] = save.counts => row' = row
        BY <3>1 DEF TypeInv, Deltas
      <3> QED BY <3>2, <3>3
    <2>2. ASSUME NEW q \in Queues, SetCounts(q)
          PROVE  exact' => exact /\ row' = row
      <3>1. /\ row' = [row EXCEPT ![q] = Recounted(q)]
            /\ exact' = (exact /\ row'[q] = row[q])
        BY <2>2 DEF SetCounts
      <3>2. exact' => exact /\ row'[q] = row[q]
        BY <3>1
      <3>3. row'[q] = row[q] => row' = row
        BY <3>1 DEF TypeInv, Deltas
      <3> QED BY <3>2, <3>3
    <2>3. ASSUME NEW q \in Queues, SaveRead(q)
          PROVE  exact' => exact /\ row' = row
      BY <2>3 DEF SaveRead
    <2>4. CASE GroupCount \/ RecountFails \/ UNCHANGED vars
      BY <2>4 DEF GroupCount, RecountFails, vars
    <2> QED BY <2>1, <2>2, <2>3, <2>4
  <1>3. Conserved'
    BY <1>1, <1>2, StillLemma DEF CountInv
  <1>4. Mine'
    BY <1>1, <1>2 DEF CountInv, Mine, MineIs
  <1>5. Zeroing'
    BY <1>1, <1>2 DEF CountInv, Zeroing
  <1> QED BY <1>3, <1>4, <1>5 DEF CountInv

\* Every step of the system keeps the sum.
LEMMA NextCounts ==
    ASSUME TypeInv, TypeInv', CountInv, [Next]_vars
    PROVE  CountInv'
  <1>1. ASSUME NEW i \in Instances, Begin(i)
        PROVE  CountInv'
    BY <1>1, SendCounts, ReadCounts, DeleteCounts, RedriveCounts, PurgeCounts,
       CounterAssumption DEF Begin
  <1>2. ASSUME NEW i \in Instances, Finish(i)
        PROVE  CountInv'
    BY <1>2, ClaimCounts, ReadBackCounts, MoveCounts, SweepResetCounts, AdjustCounts DEF Finish
  <1>3. ASSUME NEW i \in Instances, FlushStep(i)
        PROVE  CountInv'
    BY <1>3, FlushCounts, ClampCounts, UntoldCounts, PurgeEndCounts, WriteCounts DEF FlushStep
  <1>4. ASSUME NEW i \in Instances, Fails(i)
        PROVE  CountInv'
    BY <1>4, ReceiveFailsCounts, ClampCounts, PurgeEndCounts, UntoldCounts DEF Fails
  <1>5. ASSUME NEW m \in Messages, RetentionExpires(m)
        PROVE  CountInv'
    BY <1>5, UntoldCounts
  <1>6. ASSUME \/ SaveWrite \/ RecountStep \/ RecountFails \/ UNCHANGED vars
               \/ \E q \in Addressed : SaveRead(q)
        PROVE  CountInv'
    BY <1>6, RowCounts, CounterAssumption DEF RecountStep
  <1>7. ASSUME RewriteWrite \/ RewriteFails \/ \E m \in Messages : RewriteRead(m)
        PROVE  CountInv'
    BY <1>7, RewriteCounts, CopyCounts
  <1> QED BY <1>1, <1>2, <1>3, <1>4, <1>5, <1>6, <1>7 DEF Next, Work

\* Rows that are right, and nothing owed.
LEMMA InitCounts == Init => CountInv
  <1> SUFFICES ASSUME Init PROVE CountInv
    OBVIOUS
  <1>1. Mine /\ Zeroing
    BY DEF Init, Mine, Zeroing, NoCall, NoFlush
  <1>2. ASSUME NEW q \in Queues, NEW s \in Statuses
        PROVE  row[q][s] + SumFunction(Owed(q, s)) = Counted[q][s]
    <2>1. NoCall.delta = Zero /\ NoFlush.due = Zero
      BY NewCallLemma, OnwardLemma
    <2>2. Zero[q][s] = 0
      BY DeltaLemma
    <2>3. Owed(q, s) = [i \in Instances |-> 0]
      BY <2>1, <2>2 DEF Init, Owed
    <2>4. SumFunction(Owed(q, s)) = 0
      BY <2>3, SumZero, CounterAssumption
    <2>5. row[q][s] = Counted[q][s] /\ Counted[q][s] \in Nat
      BY CountedLemma DEF Init
    <2> QED BY <2>4, <2>5
  <1>3. Conserved
    BY <1>2 DEF Conserved
  <1> QED BY <1>1, <1>3 DEF CountInv

\* Every send, claim, dead letter move, delete, reset and redrive is counted
\* once.  Through any number of instances, queues and messages, whatever the
\* interleaving of finds and claims, redrives, rewrites of whole documents,
\* flushes, purges, whole-row writes and recounts, a queue's row and the deltas
\* still on their way to it add up to the messages the queue holds
\* (adjustQueueCounters() and the calls of it, MongoEqsRepository.cpp), until one
\* of the things happens that no delta tells: expiry, a purge's delete, a claim
\* counted for a queue the message has left, a read back or a move that finds
\* another claim or none, a redrive of what is not available, an upsertMessage()
\* with a stale queue or status or of a deleted message, a clamp or a stale row,
\* a failed write of deltas, a failed receive, a death.
THEOREM EveryChangeCounted == Spec => []Conserved
  <1>1. Init => TypeInv /\ CountInv
    BY InitTypes, InitCounts
  <1>2. TypeInv /\ CountInv /\ [Next]_vars => (TypeInv /\ CountInv)'
    BY NextTypes, NextCounts
  <1>3. CountInv => Conserved
    BY DEF CountInv
  <1> QED BY <1>1, <1>2, <1>3, PTL DEF Spec

=============================================================================
