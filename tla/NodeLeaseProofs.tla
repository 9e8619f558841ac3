-------------------------- MODULE NodeLeaseProofs --------------------------
(***************************************************************************)
(* Proofs about NodeLease, for any nodes, slots, lease, margin, periods    *)
(* and clocks that meet LeaseAssumption.                                   *)
(***************************************************************************)
EXTENDS NodeLease, FiniteSetTheorems, TLAPS

\* A worker that is down has nothing; a decision is carried out before the
\* next one is made, and starts only what is assigned.
PhaseOf(n) ==
  /\ ~wrk[n].up => run[n] = {} /\ wrk[n] = Fresh(FALSE)
  /\ wrk[n].pc # "apply" => wrk[n].stop = {} /\ wrk[n].start = {}
  /\ wrk[n].start \subseteq wrk[n].assigned

\* A renewal somebody waits for belongs to the present turn of the loop.
HeardBy(n) ==
  /\ req[n].pc = "answer" => req[n].heard
  /\ req[n].heard => /\ wrk[n].up /\ wrk[n].pc = "renew"
                     /\ req[n].left >= Lease - wrk[n].turn

\* The worker was within its deadline at its last decision, or it is stopping
\* all it runs.
TimelyAt(n) ==
  run[n] \union wrk[n].start # {} =>
    /\ Skew[n] =< Lease
    /\ \/ wrk[n].left >= Skew[n] - wrk[n].turn
       \/ /\ run[n] \subseteq wrk[n].stop /\ wrk[n].start = {}
          /\ wrk[n].left >= Skew[n] - Period - wrk[n].turn
          /\ wrk[n].turn =< Grace

\* What a renewal writes is not older than a renewal may be.
WritesFreshFor(n) == req[n].pc = "write" => req[n].left >= Lease - Slow

\* The deadline a renewal brings is ahead of the record of no slot of the node
\* by more than a slow write, the ones it has yet to write, or could not write,
\* aside.
RenewalCoveredFor(n) ==
  \A s \in SlotsOf(n) \ unsaved[n] :
    \/ req[n].pc = "idle"
    \/ req[n].pc = "write" /\ s \in req[n].ids
    \/ req[n].left =< slot[s].left + Slow

\* Nor is the deadline a worker goes by.
WorkerCoveredAt(n) ==
  \A s \in SlotsOf(n) \ unsaved[n] : Free(n) \/ wrk[n].left =< slot[s].left + Slow

\* A slot that was lost while its answer was on the way is overdue by then.
AnswerCoveredFor(n) ==
  req[n].pc = "answer" =>
    \A s \in req[n].ids \ (taken \union unsaved[n]) :
      s \in SlotsOf(n) \/ req[n].left < Slow - Margin

LostAt(n) ==
  \A s \in run[n] \ (taken \union unsaved[n]) :
    s \in SlotsOf(n) \/ wrk[n].left < Slow - Margin \/ s \in wrk[n].stop

Phases == \A n \in Nodes : PhaseOf(n)
Heard == \A n \in Nodes : HeardBy(n)
Timely == \A n \in Nodes : TimelyAt(n)
WritesFresh == \A n \in Nodes : WritesFreshFor(n)
RenewalCovered == \A n \in Nodes : RenewalCoveredFor(n)
WorkerCovered == \A n \in Nodes : WorkerCoveredAt(n)
AnswerCovered == \A n \in Nodes : AnswerCoveredFor(n)

\* A slot the manager found expired still is, or has been renewed since.
ExpiredOrRenewed ==
  \A s \in mgr.expired :
    /\ mgr.pc # "idle"
    /\ \/ s \notin HeldSlots
       \/ slot[s].left < 0 - Margin
       \/ slot[s].left >= Lease - Slow - mgr.age

IInv ==
  /\ TypeOK
  /\ Phases
  /\ Heard
  /\ Timely
  /\ WritesFresh
  /\ RenewalCovered
  /\ WorkerCovered
  /\ AnswerCovered
  /\ ExpiredOrRenewed
  /\ LostOnlyOverdue

-----------------------------------------------------------------------------
\* Types

\* The ranges ages and leases are counted in are closed under counting.
LEMMA Bounds ==
  /\ 0 \in Left /\ Lease \in Left
  /\ \A a \in 0 .. Slow : Lease - a \in Left /\ Lease - a >= 0
  /\ \A l \in Left : l \in Int /\ l =< Lease /\ Less(l) \in Left /\ Less(l) =< l /\ Less(l) >= l - 1
  /\ \A a \in 0 .. Lease + Slow + 1 : More(a) \in 0 .. Lease + Slow + 1
  /\ 0 \in 0 .. Lease + Slow + 1 /\ 0 \in 0 .. Slow /\ 0 \in 0 .. Period
<1>1. /\ 0 \in Left /\ Lease \in Left
      /\ \A a \in 0 .. Slow : Lease - a \in Left /\ Lease - a >= 0
    BY LeaseAssumption DEF Left
<1>2. \A l \in Left : l \in Int /\ l =< Lease /\ Less(l) \in Left /\ Less(l) =< l /\ Less(l) >= l - 1
    BY LeaseAssumption DEF Left, Less
<1>3. \A a \in 0 .. Lease + Slow + 1 : More(a) \in 0 .. Lease + Slow + 1
    BY LeaseAssumption DEF More
<1>4. 0 \in 0 .. Lease + Slow + 1 /\ 0 \in 0 .. Slow /\ 0 \in 0 .. Period
    BY LeaseAssumption
<1> QED
    BY <1>1, <1>2, <1>3, <1>4

\* Sets of slots have a size.
LEMMA Counts ==
  /\ Cardinality(Slots) \in Nat /\ Cardinality(Slots) >= 1
  /\ \A S \in SUBSET Slots : Cardinality(S) \in Nat
<1>1. \A S \in SUBSET Slots : IsFiniteSet(S)
    BY LeaseAssumption, FS_Subset
<1>2. \A S \in SUBSET Slots : Cardinality(S) \in Nat
    BY <1>1, FS_CardinalityType
<1>3. Cardinality(Slots) # 0
    BY LeaseAssumption, FS_EmptySet
<1> QED
    BY <1>2, <1>3

\* A pass, a renewal, a node and a worker that begin are typed.
LEMMA IdleTypes ==
  /\ NoPass \in Passes /\ NoRenewal \in Renewals /\ Registered \in NodeRecord
  /\ Fresh(TRUE) \in Workers /\ Fresh(FALSE) \in Workers
<1>1. NoPass \in Passes
    BY Bounds DEF NoPass, Passes
<1>2. NoRenewal \in Renewals
    BY Bounds DEF NoRenewal, Renewals
<1>3. Registered \in NodeRecord
    BY Bounds DEF Registered, NodeRecord
<1>4. \A up \in BOOLEAN : Fresh(up) \in Workers
    BY Bounds DEF Fresh, Workers
<1> QED
    BY <1>1, <1>2, <1>3, <1>4

\* The records are typed one by one.
LEMMA FieldTypes ==
  ASSUME TypeOK
  PROVE  /\ \A s \in Slots : slot[s] \in SlotRecord
         /\ \A n \in Nodes : /\ node[n] \in NodeRecord /\ req[n] \in Renewals
                             /\ wrk[n] \in Workers /\ run[n] \in SUBSET Slots
         /\ mgr \in Passes
         /\ Kept \in SUBSET Slots /\ HeldSlots \in SUBSET Slots
         /\ \A n \in Nodes : SlotsOf(n) \in SUBSET HeldSlots /\ SlotsOf(n) \in SUBSET Slots
<1>1. \A n \in Nodes : n # None
    BY LeaseAssumption
<1> QED
    BY <1>1 DEF TypeOK, Kept, HeldSlots, SlotsOf

-----------------------------------------------------------------------------
\* The operators of the model

\* A turn that is over changes the worker's place in its loop, and its deadline
\* when it has nothing left to keep one for.
LEMMA SettledEffect ==
  ASSUME NEW w \in Workers, NEW r \in SUBSET Slots
  PROVE  /\ Settled(w, r) \in Workers
         /\ Settled(w, r).up = w.up /\ Settled(w, r).turn = w.turn
         /\ Settled(w, r).assigned = w.assigned /\ Settled(w, r).held = w.held
         /\ Settled(w, r).stop = w.stop /\ Settled(w, r).start = w.start
         /\ \/ Settled(w, r).pc = w.pc /\ w.stop \union w.start # {}
            \/ Settled(w, r).pc = "sleep" /\ w.stop = {} /\ w.start = {}
         /\ \/ Settled(w, r).left = w.left
            \/ w.assigned = {} /\ r = {} /\ w.stop = {} /\ w.start = {}
<1>1. CASE w.stop \union w.start # {}
  <2>1. Settled(w, r) = w
      BY <1>1 DEF Settled
  <2> QED
      BY <1>1, <2>1
<1>2. CASE w.stop \union w.start = {} /\ w.assigned \union r # {}
  <2>1. Settled(w, r) = [w EXCEPT !.pc = "sleep"]
      BY <1>2 DEF Settled
  <2>2. w.stop = {} /\ w.start = {}
      BY <1>2
  <2> QED
      BY <2>1, <2>2 DEF Workers
<1>3. CASE w.stop \union w.start = {} /\ w.assigned \union r = {}
  <2>1. Settled(w, r) = [w EXCEPT !.pc = "sleep", !.left = 0]
      BY <1>3 DEF Settled
  <2>2. w.stop = {} /\ w.start = {} /\ w.assigned = {} /\ r = {}
      BY <1>3
  <2> QED
      BY <2>1, <2>2, Bounds DEF Workers
<1> QED
    BY <1>1, <1>2, <1>3

\* What a decision leaves the worker with.
LEMMA DecidedEffect ==
  ASSUME TypeOK, Phases, NEW n \in Nodes, NEW assigned \in SUBSET Slots, NEW left \in Left,
         wrk[n].pc # "apply", Decided(n, assigned, left)
  PROVE  /\ wrk' \in [Nodes -> Workers]
         /\ \A m \in Nodes : m # n => wrk'[m] = wrk[m]
         /\ wrk'[n].up = wrk[n].up /\ wrk'[n].turn = 0
         /\ wrk'[n].pc \in {"apply", "sleep"}
         /\ wrk'[n].pc # "apply" => wrk'[n].stop = {} /\ wrk'[n].start = {}
         /\ wrk'[n].start \subseteq wrk'[n].assigned
         /\ \/ wrk'[n].left = left
            \/ wrk'[n].assigned = {} /\ run[n] = {} /\ wrk'[n].start = {}
         /\ \/ /\ left < Skew[n] /\ wrk'[n].assigned = {}
               /\ wrk'[n].stop = run[n] /\ wrk'[n].start = {}
            \/ /\ left >= Skew[n] /\ wrk'[n].assigned = assigned
               /\ run[n] \ assigned \subseteq wrk'[n].stop
<1>0. /\ wrk[n] \in Workers /\ run[n] \in SUBSET Slots /\ wrk[n].stop = {} /\ wrk[n].start = {}
      /\ Skew[n] \in Int /\ left \in Int
    BY FieldTypes, Bounds, LeaseAssumption DEF Phases, PhaseOf
<1>1. PICK redeployed \in SUBSET (assigned \cap run[n]) :
        wrk' = [wrk EXCEPT ![n] =
          Settled(
            IF left < Skew[n]
              THEN [wrk[n] EXCEPT !.pc = "apply", !.turn = 0, !.assigned = {}, !.left = left,
                             !.stop = run[n]]
              ELSE [wrk[n] EXCEPT !.pc = "apply", !.turn = 0, !.assigned = assigned, !.left = left,
                             !.stop = redeployed \union (run[n] \ assigned),
                             !.start = redeployed \union (assigned \ (run[n] \union wrk[n].held)),
                             !.held = wrk[n].held \cap assigned],
            run[n])]
    BY DEF Decided
<1> DEFINE w1 == [wrk[n] EXCEPT !.pc = "apply", !.turn = 0, !.assigned = {}, !.left = left,
                             !.stop = run[n]]
           w2 == [wrk[n] EXCEPT !.pc = "apply", !.turn = 0, !.assigned = assigned, !.left = left,
                             !.stop = redeployed \union (run[n] \ assigned),
                             !.start = redeployed \union (assigned \ (run[n] \union wrk[n].held)),
                             !.held = wrk[n].held \cap assigned]
<1>2. /\ w1 \in Workers /\ w1.up = wrk[n].up /\ w1.turn = 0 /\ w1.assigned = {} /\ w1.left = left
      /\ w1.stop = run[n] /\ w1.start = {} /\ w1.pc = "apply"
    BY <1>0, Bounds DEF Workers
<1>3. /\ w2 \in Workers /\ w2.up = wrk[n].up /\ w2.turn = 0 /\ w2.assigned = assigned
      /\ w2.left = left /\ w2.pc = "apply"
      /\ run[n] \ assigned \subseteq w2.stop /\ w2.start \subseteq assigned
  <2>1. /\ redeployed \union (run[n] \ assigned) \in SUBSET Slots
        /\ redeployed \union (assigned \ (run[n] \union wrk[n].held)) \in SUBSET Slots
        /\ redeployed \union (assigned \ (run[n] \union wrk[n].held)) \subseteq assigned
        /\ wrk[n].held \cap assigned \in SUBSET Slots
        /\ run[n] \ assigned \subseteq redeployed \union (run[n] \ assigned)
      BY <1>0
  <2> HIDE DEF w1
  <2> QED
      BY <1>0, <2>1, Bounds DEF Workers
<1>4. CASE left < Skew[n]
  <2>1. wrk' = [wrk EXCEPT ![n] = Settled(w1, run[n])]
      BY <1>1, <1>4
  <2> HIDE DEF w1, w2
  <2>2. wrk' \in [Nodes -> Workers] /\ wrk'[n] = Settled(w1, run[n])
        /\ \A m \in Nodes : m # n => wrk'[m] = wrk[m]
      BY <1>0, <1>2, <2>1, SettledEffect DEF TypeOK
  <2> QED
      BY <1>0, <1>2, <1>4, <2>2, SettledEffect
<1>5. CASE ~(left < Skew[n])
  <2>1. wrk' = [wrk EXCEPT ![n] = Settled(w2, run[n])]
      BY <1>1, <1>5
  <2> HIDE DEF w1, w2
  <2>2. wrk' \in [Nodes -> Workers] /\ wrk'[n] = Settled(w2, run[n])
        /\ \A m \in Nodes : m # n => wrk'[m] = wrk[m]
      BY <1>0, <1>3, <2>1, SettledEffect DEF TypeOK
  <2>3. left >= Skew[n]
      BY <1>0, <1>5
  <2> QED
      BY <1>0, <1>3, <2>2, <2>3, SettledEffect
<1> QED
    BY <1>4, <1>5

\* Stopping, starting and failing to start one slot.
LEMMA ApplyEffect ==
  ASSUME TypeOK, Phases, NEW n \in Nodes, NEW s \in Slots,
         Stop(n, s) \/ Start(n, s) \/ StartFails(n, s)
  PROVE  /\ wrk' \in [Nodes -> Workers] /\ run' \in [Nodes -> SUBSET Slots]
         /\ \A m \in Nodes : m # n => wrk'[m] = wrk[m] /\ run'[m] = run[m]
         /\ wrk'[n].up = wrk[n].up /\ wrk'[n].turn = wrk[n].turn
         /\ wrk'[n].assigned = wrk[n].assigned
         /\ wrk[n].pc = "apply" /\ wrk'[n].pc \in {"apply", "sleep"}
         /\ wrk'[n].pc # "apply" => wrk'[n].stop = {} /\ wrk'[n].start = {}
         /\ \/ wrk'[n].left = wrk[n].left
            \/ wrk'[n].assigned = {} /\ run'[n] = {} /\ wrk'[n].start = {}
         /\ \/ /\ s \in wrk[n].stop /\ run'[n] = run[n] \ {s}
               /\ wrk'[n].stop = wrk[n].stop \ {s} /\ wrk'[n].start = wrk[n].start
            \/ /\ wrk[n].stop = {} /\ s \in wrk[n].start /\ s \in SlotsOf(n)
               /\ run'[n] = run[n] \union {s}
               /\ wrk'[n].stop = {} /\ wrk'[n].start = wrk[n].start \ {s}
            \/ /\ wrk[n].stop = {} /\ s \in wrk[n].start /\ run'[n] = run[n]
               /\ wrk'[n].stop = {} /\ wrk'[n].start = wrk[n].start \ {s}
<1>0. wrk[n] \in Workers /\ run[n] \in SUBSET Slots
    BY FieldTypes
<1>1. wrk[n].pc = "apply"
    BY DEF Phases, PhaseOf, Stop, Start, StartFails
<1>2. CASE Stop(n, s)
  <2> DEFINE w == [wrk[n] EXCEPT !.stop = wrk[n].stop \ {s}]
  <2>1. /\ w \in Workers /\ w.up = wrk[n].up /\ w.turn = wrk[n].turn /\ w.left = wrk[n].left
        /\ w.assigned = wrk[n].assigned /\ w.pc = "apply" /\ w.start = wrk[n].start
        /\ w.stop = wrk[n].stop \ {s}
      BY <1>0, <1>1 DEF Workers
  <2>2. /\ run' \in [Nodes -> SUBSET Slots] /\ run'[n] = run[n] \ {s}
        /\ \A m \in Nodes : m # n => run'[m] = run[m]
      BY <1>2, <1>0 DEF Stop, TypeOK
  <2>3. wrk' = [wrk EXCEPT ![n] = Settled(w, run'[n])]
      BY <1>2 DEF Stop
  <2>4. s \in wrk[n].stop
      BY <1>2 DEF Stop
  <2> HIDE DEF w
  <2>5. /\ wrk' \in [Nodes -> Workers] /\ wrk'[n] = Settled(w, run'[n])
        /\ \A m \in Nodes : m # n => wrk'[m] = wrk[m]
      BY <2>1, <2>2, <2>3, SettledEffect DEF TypeOK
  <2> QED
      BY <1>1, <2>1, <2>2, <2>4, <2>5, SettledEffect
<1>3. CASE Start(n, s) \/ StartFails(n, s)
  <2> DEFINE w == [wrk[n] EXCEPT !.start = wrk[n].start \ {s}]
  <2>1. /\ w \in Workers /\ w.up = wrk[n].up /\ w.turn = wrk[n].turn /\ w.left = wrk[n].left
        /\ w.assigned = wrk[n].assigned /\ w.pc = "apply" /\ w.stop = wrk[n].stop
        /\ w.start = wrk[n].start \ {s}
      BY <1>0, <1>1 DEF Workers
  <2>2. /\ run' \in [Nodes -> SUBSET Slots]
        /\ run'[n] = run[n] \/ (run'[n] = run[n] \union {s} /\ s \in SlotsOf(n))
        /\ \A m \in Nodes : m # n => run'[m] = run[m]
    <3>1. CASE Start(n, s)
      <4>1. run' = [run EXCEPT ![n] = run[n] \union {s}] /\ s \in SlotsOf(n)
          BY <3>1 DEF Start, MayHaveCredentials
      <4> QED
          BY <1>0, <4>1 DEF TypeOK
    <3>2. CASE StartFails(n, s)
      <4>1. run' = run
          BY <3>2 DEF StartFails
      <4> QED
          BY <4>1 DEF TypeOK
    <3> QED
        BY <1>3, <3>1, <3>2
  <2>3. wrk' = [wrk EXCEPT ![n] = Settled(w, run'[n])]
    <3>1. CASE Start(n, s)
        BY <3>1 DEF Start
    <3>2. CASE StartFails(n, s)
      <4>1. run' = run
          BY <3>2 DEF StartFails
      <4> QED
          BY <3>2, <4>1 DEF StartFails
    <3> QED
        BY <1>3, <3>1, <3>2
  <2>4. wrk[n].stop = {} /\ s \in wrk[n].start
      BY <1>3 DEF Start, StartFails
  <2> HIDE DEF w
  <2>5. /\ wrk' \in [Nodes -> Workers] /\ wrk'[n] = Settled(w, run'[n])
        /\ \A m \in Nodes : m # n => wrk'[m] = wrk[m]
      BY <2>1, <2>2, <2>3, SettledEffect DEF TypeOK
  <2> QED
      BY <1>1, <2>1, <2>2, <2>4, <2>5, SettledEffect
<1> QED
    BY <1>2, <1>3

-----------------------------------------------------------------------------
\* The invariant holds at first

\* The invariant holds at first: nothing runs.
LEMMA InitInv == Init => IInv
<1> SUFFICES ASSUME Init PROVE IInv
    OBVIOUS
<1>1. slot \in [Slots -> SlotRecord] /\ node \in [Nodes -> NodeRecord]
    BY Bounds DEF Init, SlotRecord, NodeRecord
<1>2. /\ mgr \in Passes /\ req \in [Nodes -> Renewals] /\ wrk \in [Nodes -> Workers]
      /\ run \in [Nodes -> SUBSET Slots] /\ taken \in SUBSET Slots
      /\ unsaved \in [Nodes -> SUBSET Slots]
    BY IdleTypes DEF Init
<1>3. target \in 0 .. Cardinality(Slots) /\ events \in 0 .. MaxEvents
    BY Counts, LeaseAssumption DEF Init
<1>4. TypeOK
    BY <1>1, <1>2, <1>3 DEF TypeOK
<1>5. \A n \in Nodes : /\ run[n] = {} /\ wrk[n] = Fresh(FALSE) /\ req[n] = NoRenewal
                       /\ wrk[n].start = {} /\ wrk[n].stop = {} /\ wrk[n].assigned = {}
                       /\ req[n].pc = "idle" /\ ~req[n].heard
    BY DEF Init, Fresh, NoRenewal
<1>6. \A n \in Nodes : SlotsOf(n) = {}
    BY DEF Init, SlotsOf, Kept
<1>7. mgr.expired = {}
    BY DEF Init, NoPass
<1> QED
    BY <1>4, <1>5, <1>6, <1>7 DEF IInv, Phases, PhaseOf, Heard, HeardBy, Timely, TimelyAt,
       WritesFresh, WritesFreshFor, RenewalCovered, RenewalCoveredFor, WorkerCovered,
          WorkerCoveredAt, AnswerCovered, AnswerCoveredFor, ExpiredOrRenewed, LostOnlyOverdue

-----------------------------------------------------------------------------
\* A slot changes hands

Handing(s) ==
  \/ DropSlot(s)
  \/ Withdraw(s)
  \/ \E n \in Nodes : Place(s, n) \/ Replace(s, n)
  \/ \E n \in Nodes \union {None} : AssignByHand(s, n)

\* What a change of one slot record may do: whoever has the slot afterwards has
\* a new deadline, and whoever lost it lost it early or overdue.
SlotChange(s) ==
  /\ slot' \in [Slots -> SlotRecord]
  /\ \A u \in Slots : u # s => slot'[u] = slot[u]
  /\ taken' \in SUBSET Slots /\ taken \subseteq taken'
  /\ slot'[s] = slot[s] \/ slot'[s].left >= Lease - Slow
     \/ ~(slot'[s].is = "kept" /\ slot'[s].at # None)
  /\ \A n \in Nodes : s \in SlotsOf(n) =>
       \/ slot'[s].is = "kept" /\ slot'[s].at = n
       \/ s \in taken'
       \/ slot[s].left < 0 - Margin

\* An assignment changes one slot; it takes it from its node early, or expired.
LEMMA AssignEffect ==
  ASSUME TypeOK, NEW s \in Slots, NEW n \in Nodes \union {None}, NEW left \in Left, NEW early,
         early \in BOOLEAN, left >= Lease - Slow \/ n = None,
         early \/ s \notin HeldSlots \/ slot[s].left < 0 - Margin,
         AssignInstance(s, n, left, early)
  PROVE  SlotChange(s)
<1>0. slot[s] \in SlotRecord /\ taken \in SUBSET Slots
    BY FieldTypes DEF TypeOK
<1>1. taken' \in SUBSET Slots /\ taken \subseteq taken'
    BY <1>0 DEF AssignInstance, Taken
<1>2. CASE s \notin Kept
  <2>1. slot' = slot
      BY <1>2 DEF AssignInstance
  <2>2. \A m \in Nodes : s \notin SlotsOf(m)
      BY <1>2 DEF SlotsOf
  <2> QED
      BY <1>1, <2>1, <2>2 DEF SlotChange, TypeOK
<1>3. CASE s \in Kept
  <2> DEFINE l == IF n = None THEN 0 ELSE left
             e == [slot[s] EXCEPT !.at = n, !.left = l]
  <2>0. l \in Left /\ (n # None => l >= Lease - Slow)
      BY Bounds
  <2>1. slot' = [slot EXCEPT ![s] = e]
      BY <1>3 DEF AssignInstance
  <2> HIDE DEF l
  <2>2. e \in SlotRecord /\ e.is = slot[s].is /\ e.at = n /\ e.left = l
      BY <1>0, <2>0 DEF SlotRecord
  <2> HIDE DEF e
  <2>3. slot'[s] = e /\ slot' \in [Slots -> SlotRecord] /\ \A u \in Slots : u # s => slot'[u] = slot[u]
      BY <2>1, <2>2 DEF TypeOK
  <2>4. slot[s].is = "kept"
      BY <1>3 DEF Kept
  <2>5. ASSUME NEW m \in Nodes, s \in SlotsOf(m), m # n
        PROVE  s \in taken' \/ slot[s].left < 0 - Margin
    <3>1. s \in HeldSlots /\ slot[s].at = m
        BY <2>5, FieldTypes DEF SlotsOf
    <3>2. early => taken' = taken \union {s}
        BY <2>5, <3>1 DEF AssignInstance, Taken
    <3> QED
        BY <3>1, <3>2
  <2> QED
      BY <1>1, <2>0, <2>2, <2>3, <2>4, <2>5 DEF SlotChange
<1> QED
    BY <1>2, <1>3

\* The manager gives up on a slot it found expired only while it still is.
LEMMA HandingEffect ==
  ASSUME IInv, NEW s \in Slots, Handing(s)
  PROVE  SlotChange(s)
<1>0. TypeOK /\ mgr.age \in 0 .. Slow /\ slot[s] \in SlotRecord
    BY FieldTypes DEF IInv, Passes
<1>1. CASE DropSlot(s)
  <2> DEFINE e == [is |-> "gone", at |-> None, left |-> 0]
  <2>1. e \in SlotRecord
      BY Bounds DEF SlotRecord
  <2>2. slot' = [slot EXCEPT ![s] = e] /\ taken' = Taken(s, None, TRUE)
      BY <1>1 DEF DropSlot
  <2>3. /\ slot' \in [Slots -> SlotRecord] /\ slot'[s].is = "gone"
        /\ \A u \in Slots : u # s => slot'[u] = slot[u]
      BY <1>0, <2>1, <2>2 DEF TypeOK
  <2>4. taken' \in SUBSET Slots /\ taken \subseteq taken'
      BY <1>0, <2>2 DEF Taken, TypeOK
  <2>5. ASSUME NEW n \in Nodes, s \in SlotsOf(n)
        PROVE  s \in taken'
    <3>1. s \in HeldSlots /\ slot[s].at # None
        BY <1>0, <2>5, FieldTypes DEF HeldSlots
    <3> QED
        BY <2>2, <3>1 DEF Taken
  <2> QED
      BY <2>3, <2>4, <2>5 DEF SlotChange
<1>2. CASE Withdraw(s)
  <2>1. AssignInstance(s, None, 0, TRUE)
      BY <1>2 DEF Withdraw
  <2> QED
      BY <1>0, <2>1, AssignEffect, Bounds
<1>3. ASSUME NEW n \in Nodes, Place(s, n)
      PROVE  SlotChange(s)
  <2> DEFINE e == [is |-> "kept", at |-> n, left |-> Lease - mgr.age]
  <2>1. e \in SlotRecord /\ Lease - mgr.age >= Lease - Slow
    <3>1. Lease - mgr.age \in Left
        BY <1>0, Bounds
    <3> QED
        BY <1>0, <3>1, LeaseAssumption DEF SlotRecord
  <2>2. slot' = [slot EXCEPT ![s] = e] /\ taken' = taken /\ slot[s].is = "new"
      BY <1>3 DEF Place
  <2>3. /\ slot' \in [Slots -> SlotRecord] /\ slot'[s].left >= Lease - Slow
        /\ \A u \in Slots : u # s => slot'[u] = slot[u]
      BY <1>0, <2>1, <2>2 DEF TypeOK
  <2>4. \A m \in Nodes : s \notin SlotsOf(m)
      BY <2>2 DEF SlotsOf, Kept
  <2> QED
      BY <1>0, <2>2, <2>3, <2>4 DEF SlotChange, TypeOK
<1>4. ASSUME NEW n \in Nodes, Replace(s, n)
      PROVE  SlotChange(s)
  <2>1. AssignInstance(s, n, Lease - mgr.age, ~LeaseOver(s, 0)) /\ s \in mgr.expired
      BY <1>4 DEF Replace
  <2>2. Lease - mgr.age \in Left /\ Lease - mgr.age >= Lease - Slow
      BY <1>0, Bounds, LeaseAssumption
  <2>3. ~LeaseOver(s, 0) \/ s \notin HeldSlots \/ slot[s].left < 0 - Margin
    <3>1. ASSUME slot[s].left >= Lease - Slow - mgr.age
          PROVE  ~LeaseOver(s, 0)
      <4>1. slot[s].left \in Int /\ mgr.age =< Slow /\ mgr.age \in Int
        <5>1. slot[s].left \in Left
            BY <1>0 DEF SlotRecord
        <5>2. slot[s].left \in Int
            BY <5>1, Bounds
        <5>3. Slow \in Nat
            BY LeaseAssumption
        <5> QED
            BY <1>0, <5>2, <5>3
      <4>2. Lease \in Nat /\ Slow \in Nat /\ 2 * Slow =< Lease
          BY LeaseAssumption
      <4>3. slot[s].left >= 0
        <5> DEFINE l == slot[s].left
                   a == mgr.age
        <5>1. l \in Int /\ a \in Int /\ a =< Slow /\ l >= Lease - Slow - a
            BY <3>1, <4>1
        <5> HIDE DEF l, a
        <5>2. l >= 0
            BY <4>2, <5>1
        <5> QED
            BY <5>2 DEF l
      <4>4. ~(slot[s].left < 0 - 0)
          BY <4>1, <4>3
      <4> QED
          BY <4>4 DEF LeaseOver
    <3> QED
        BY <2>1, <3>1 DEF IInv, ExpiredOrRenewed
  <2>4. (~LeaseOver(s, 0)) \in BOOLEAN
      OBVIOUS
  <2> QED
      BY <1>0, <2>1, <2>2, <2>3, <2>4, AssignEffect
<1>5. ASSUME NEW n \in Nodes \union {None}, AssignByHand(s, n)
      PROVE  SlotChange(s)
  <2>1. AssignInstance(s, n, Lease, TRUE)
      BY <1>5 DEF AssignByHand
  <2>2. Lease >= Lease - Slow
      BY LeaseAssumption
  <2> QED
      BY <1>0, <2>1, <2>2, AssignEffect, Bounds
<1> QED
    BY <1>1, <1>2, <1>3, <1>4, <1>5 DEF Handing

\* A pass goes on as it is, or is over.
LEMMA OngoingEffect ==
  ASSUME NEW p \in Passes
  PROVE  /\ Ongoing(p) \in Passes
         /\ Ongoing(p) = p \/ Ongoing(p).expired = {}
<1>1. NoPass \in Passes /\ NoPass.expired = {}
    BY IdleTypes DEF NoPass
<1> QED
    BY <1>1 DEF Ongoing

\* Everything but the records of slots is as it was.
LEMMA HandingFrame ==
  ASSUME IInv, NEW s \in Slots, Handing(s)
  PROVE  /\ node' = node /\ target' = target /\ req' = req /\ wrk' = wrk /\ run' = run
         /\ unsaved' = unsaved
         /\ mgr' \in Passes
         /\ \/ mgr'.expired = {}
            \/ mgr'.pc = mgr.pc /\ mgr'.age = mgr.age /\ mgr'.expired \subseteq mgr.expired
         /\ events' \in 0 .. MaxEvents
<1>0. mgr \in Passes
    BY FieldTypes DEF IInv
<1>1. /\ node' = node /\ target' = target /\ req' = req /\ wrk' = wrk /\ run' = run
      /\ unsaved' = unsaved
    BY DEF Handing, DropSlot, Withdraw, Place, Replace, AssignByHand
<1>2. events' \in 0 .. MaxEvents
  <2>1. CASE events' = events
      BY <2>1 DEF IInv, TypeOK
  <2>2. CASE Event
      BY <2>2, LeaseAssumption DEF Event, IInv, TypeOK
  <2> QED
      BY <2>1, <2>2 DEF Handing, DropSlot, Withdraw, Place, Replace, AssignByHand
<1> DEFINE Onward(p) ==
      /\ p \in Passes /\ p.pc = mgr.pc /\ p.age = mgr.age /\ p.expired \subseteq mgr.expired
<1>3. /\ Onward(mgr)
      /\ Onward([mgr EXCEPT !.drop = @ \ {s}])
      /\ Onward([mgr EXCEPT !.withdraw = @ \ {s}])
      /\ mgr.place > 0 => Onward([mgr EXCEPT !.place = @ - 1])
      /\ Onward([mgr EXCEPT !.expired = @ \ {s}])
  <2>1. mgr.place > 0 => mgr.place - 1 \in Nat
      BY <1>0 DEF Passes
  <2> QED
      BY <1>0, <2>1 DEF Passes
<1>4. \/ mgr' = mgr
      \/ mgr' = Ongoing([mgr EXCEPT !.drop = @ \ {s}])
      \/ mgr' = Ongoing([mgr EXCEPT !.withdraw = @ \ {s}])
      \/ mgr.place > 0 /\ mgr' = Ongoing([mgr EXCEPT !.place = @ - 1])
      \/ mgr' = Ongoing([mgr EXCEPT !.expired = @ \ {s}])
    BY DEF Handing, DropSlot, Withdraw, Place, Replace, AssignByHand
<1>5. \E p : Onward(p) /\ (mgr' = p \/ mgr' = Ongoing(p))
  <2> HIDE DEF Onward
  <2> QED
      BY <1>3, <1>4
<1>6. /\ mgr' \in Passes
      /\ \/ mgr'.expired = {}
         \/ mgr'.pc = mgr.pc /\ mgr'.age = mgr.age /\ mgr'.expired \subseteq mgr.expired
    BY <1>5, OngoingEffect
<1> QED
    BY <1>1, <1>2, <1>6

\* Whoever holds a slot after the change is covered, and nobody lost one that
\* is not accounted for.
LEMMA CoverAfterChange ==
  ASSUME IInv, NEW s \in Slots, SlotChange(s)
  PROVE  /\ \A n \in Nodes : \A u \in SlotsOf(n)' :
              \/ u \in SlotsOf(n) /\ slot'[u].left = slot[u].left
              \/ u = s /\ slot'[u].left >= Lease - Slow
         /\ \A n \in Nodes : \A u \in SlotsOf(n) :
              u \in SlotsOf(n)' \/ u \in taken' \/ slot[u].left < 0 - Margin
         /\ \A u \in HeldSlots' :
              \/ u \in HeldSlots /\ slot'[u].left = slot[u].left
              \/ slot'[u].left >= Lease - Slow
<1>0. \A n \in Nodes : n # None
    BY LeaseAssumption
<1>1. \A n \in Nodes : \A u \in Slots : u \in SlotsOf(n)' <=> slot'[u].is = "kept" /\ slot'[u].at = n
    BY DEF SlotsOf, Kept
<1>2. \A n \in Nodes : \A u \in Slots : u \in SlotsOf(n) <=> slot[u].is = "kept" /\ slot[u].at = n
    BY DEF SlotsOf, Kept
<1>3. \A u \in Slots : u \in HeldSlots' <=> slot'[u].is = "kept" /\ slot'[u].at # None
    BY DEF HeldSlots, Kept
<1>4. \A u \in Slots : u \in HeldSlots <=> slot[u].is = "kept" /\ slot[u].at # None
    BY DEF HeldSlots, Kept
<1>5. HeldSlots' \subseteq Slots /\ \A n \in Nodes : SlotsOf(n) \subseteq Slots /\ SlotsOf(n)' \subseteq Slots
    BY DEF HeldSlots, SlotsOf, Kept
<1>6. /\ \A u \in Slots : u # s => slot'[u] = slot[u]
      /\ slot'[s] = slot[s] \/ slot'[s].left >= Lease - Slow
         \/ ~(slot'[s].is = "kept" /\ slot'[s].at # None)
      /\ \A n \in Nodes : s \in SlotsOf(n) =>
           \/ slot'[s].is = "kept" /\ slot'[s].at = n
           \/ s \in taken'
           \/ slot[s].left < 0 - Margin
    BY DEF SlotChange
<1>7. ASSUME NEW n \in Nodes, NEW u \in SlotsOf(n)'
      PROVE  \/ u \in SlotsOf(n) /\ slot'[u].left = slot[u].left
             \/ u = s /\ slot'[u].left >= Lease - Slow
    BY <1>0, <1>1, <1>2, <1>5, <1>6
<1>8. ASSUME NEW n \in Nodes, NEW u \in SlotsOf(n)
      PROVE  u \in SlotsOf(n)' \/ u \in taken' \/ slot[u].left < 0 - Margin
    BY <1>1, <1>2, <1>5, <1>6
<1>9. ASSUME NEW u \in HeldSlots'
      PROVE  \/ u \in HeldSlots /\ slot'[u].left = slot[u].left
             \/ slot'[u].left >= Lease - Slow
    BY <1>3, <1>4, <1>5, <1>6
<1> QED
    BY <1>7, <1>8, <1>9

\* A change of a slot record disturbs nothing the workers rely on.
LEMMA ChangeStep ==
  ASSUME IInv, NEW s \in Slots, SlotChange(s), wrk' = wrk, run' = run,
         \A n \in Nodes : req'[n].pc = "answer" => req'[n] = req[n],
         \A n \in Nodes :
           \/ unsaved'[n] = unsaved[n]
           \/ /\ unsaved'[n] = unsaved[n] \ {s} /\ req'[n].pc # "answer"
              /\ s \in SlotsOf(n)' /\ slot'[s].left >= Lease - Slow,
         mgr' \in Passes,
         \/ mgr'.expired = {}
         \/ mgr'.pc = mgr.pc /\ mgr'.age = mgr.age /\ mgr'.expired \subseteq mgr.expired
  PROVE  WorkerCovered' /\ AnswerCovered' /\ ExpiredOrRenewed' /\ LostOnlyOverdue'
<1>0. /\ TypeOK /\ taken \subseteq taken' /\ slot' \in [Slots -> SlotRecord]
      /\ mgr.age \in 0 .. Slow /\ Lease \in Nat /\ Slow \in Nat /\ Margin \in Nat
    BY FieldTypes, LeaseAssumption DEF IInv, SlotChange, Passes
<1>1. \A n \in Nodes : /\ req[n].left \in Int /\ req[n].left =< Lease
                       /\ wrk[n].left \in Int /\ wrk[n].left =< Lease
                       /\ SlotsOf(n)' \subseteq Slots /\ SlotsOf(n) \subseteq Slots
  <2>1. \A n \in Nodes : req[n].left \in Left /\ wrk[n].left \in Left
      BY <1>0, FieldTypes DEF Renewals, Workers
  <2>2. \A n \in Nodes : SlotsOf(n)' \subseteq Slots /\ SlotsOf(n) \subseteq Slots
      BY DEF SlotsOf, Kept
  <2> QED
      BY <2>1, <2>2, Bounds
<1>2. \A u \in Slots : slot[u].left \in Int /\ slot'[u].left \in Int
  <2>1. \A u \in Slots : slot[u].left \in Left /\ slot'[u].left \in Left
      BY <1>0, FieldTypes DEF SlotRecord
  <2> QED
      BY <2>1, Bounds
<1>4. WorkerCovered'
  <2> SUFFICES ASSUME NEW n \in Nodes, NEW u \in SlotsOf(n)' \ unsaved'[n]
               PROVE  Free(n) \/ wrk[n].left =< slot'[u].left + Slow
      BY DEF WorkerCovered, WorkerCoveredAt, Free
  <2>1. CASE u \in SlotsOf(n) /\ u \notin unsaved[n] /\ slot'[u].left = slot[u].left
      BY <2>1 DEF IInv, WorkerCovered, WorkerCoveredAt
  <2>2. CASE slot'[u].left >= Lease - Slow
      BY <1>0, <1>1, <1>2, <2>2
  <2> QED
      BY <2>1, <2>2, CoverAfterChange
<1>5. AnswerCovered'
  <2> SUFFICES ASSUME NEW n \in Nodes, req'[n].pc = "answer",
                      NEW u \in req'[n].ids \ (taken' \union unsaved'[n])
               PROVE  u \in SlotsOf(n)' \/ req'[n].left < Slow - Margin
      BY DEF AnswerCovered, AnswerCoveredFor
  <2>0. req'[n] = req[n] /\ u \notin unsaved[n] /\ u \notin taken
      BY <1>0
  <2>1. u \in SlotsOf(n) \/ req[n].left < Slow - Margin
      BY <2>0 DEF IInv, AnswerCovered, AnswerCoveredFor
  <2>2. CASE u \in SlotsOf(n) /\ slot[u].left < 0 - Margin
    <3>1. req[n].left =< slot[u].left + Slow
        BY <2>0, <2>2 DEF IInv, RenewalCovered, RenewalCoveredFor
    <3> QED
        BY <1>0, <1>1, <1>2, <2>0, <2>2, <3>1
  <2> QED
      BY <2>0, <2>1, <2>2, CoverAfterChange
<1>6. ExpiredOrRenewed'
  <2> SUFFICES ASSUME NEW u \in mgr'.expired, u \in HeldSlots'
               PROVE  \/ slot'[u].left < 0 - Margin
                      \/ slot'[u].left >= Lease - Slow - mgr.age
      BY DEF IInv, ExpiredOrRenewed
  <2>0. u \in Slots /\ u \in mgr.expired
      BY DEF HeldSlots, Kept
  <2>1. CASE u \in HeldSlots /\ slot'[u].left = slot[u].left
      BY <2>1 DEF IInv, ExpiredOrRenewed
  <2>2. CASE slot'[u].left >= Lease - Slow
      BY <1>0, <1>2, <2>0, <2>2
  <2> QED
      BY <2>1, <2>2, CoverAfterChange
<1>7. LostOnlyOverdue'
  <2> SUFFICES ASSUME NEW n \in Nodes, NEW u \in run[n] \ (taken' \union unsaved'[n])
               PROVE  u \in SlotsOf(n)' \/ wrk[n].left < Slow - Margin \/ u \in wrk[n].stop
      BY DEF LostOnlyOverdue
  <2>0. u \notin taken /\ (u \notin unsaved[n] \/ u \in SlotsOf(n)')
      BY <1>0
  <2>1. CASE u \in unsaved[n]
      BY <2>0, <2>1
  <2>2. ASSUME u \notin unsaved[n], u \in SlotsOf(n), slot[u].left < 0 - Margin
        PROVE  wrk[n].left < Slow - Margin
    <3>1. ~Free(n)
        BY DEF Free
    <3>2. wrk[n].left =< slot[u].left + Slow
        BY <2>2, <3>1 DEF IInv, WorkerCovered, WorkerCoveredAt
    <3> QED
        BY <1>0, <1>1, <1>2, <2>2, <3>2
  <2>3. CASE u \notin unsaved[n]
    <3>1. u \in SlotsOf(n) \/ wrk[n].left < Slow - Margin \/ u \in wrk[n].stop
        BY <2>0, <2>3 DEF IInv, LostOnlyOverdue
    <3> QED
        BY <2>2, <2>3, <3>1, CoverAfterChange
  <2> QED
      BY <2>1, <2>3
<1> QED
    BY <1>4, <1>5, <1>6, <1>7

\* Placing, withdrawing, taking back and assigning by hand keep the invariant.
LEMMA HandingStep ==
  ASSUME IInv, NEW s \in Slots, Handing(s)
  PROVE  IInv'
<1>1. SlotChange(s)
    BY HandingEffect
<1>2. TypeOK'
    BY <1>1, HandingFrame DEF IInv, TypeOK, SlotChange
<1>3. Phases' /\ Heard' /\ Timely' /\ WritesFresh'
  <2>1. req' = req /\ wrk' = wrk /\ run' = run
      BY HandingFrame
  <2> QED
      BY <2>1 DEF IInv, Phases, PhaseOf, Heard, HeardBy, Timely, TimelyAt, WritesFresh,
         WritesFreshFor
<1>4. RenewalCovered'
  <2> SUFFICES ASSUME NEW n \in Nodes, NEW u \in SlotsOf(n)' \ unsaved[n]
               PROVE  \/ req[n].pc = "idle"
                      \/ req[n].pc = "write" /\ u \in req[n].ids
                      \/ req[n].left =< slot'[u].left + Slow
      BY HandingFrame DEF RenewalCovered, RenewalCoveredFor
  <2>1. CASE u \in SlotsOf(n) /\ slot'[u].left = slot[u].left
      BY <2>1 DEF IInv, RenewalCovered, RenewalCoveredFor
  <2>2. CASE u = s /\ slot'[u].left >= Lease - Slow
    <3>1. slot'[u].left \in Left /\ req[n].left \in Left
        BY <1>1, <2>2, FieldTypes DEF IInv, SlotChange, SlotRecord, Renewals
    <3>2. slot'[u].left \in Int /\ req[n].left \in Int /\ req[n].left =< Lease
        BY <3>1, Bounds
    <3>3. Lease \in Nat /\ Slow \in Nat
        BY LeaseAssumption
    <3> QED
        BY <2>2, <3>2, <3>3
  <2> QED
      BY <1>1, <2>1, <2>2, CoverAfterChange
<1> QED
    BY <1>1, <1>2, <1>3, <1>4, HandingFrame, ChangeStep DEF IInv

\* A renewal writes one record, whoever has the slot by now.
LEMMA RenewWriteStep ==
  ASSUME IInv, NEW n \in Nodes, NEW s \in Slots, RenewWrite(n, s)
  PROVE  IInv'
<1>0. /\ TypeOK /\ req[n] \in Renewals /\ slot[s] \in SlotRecord /\ req[n].left \in Left
      /\ req[n].left >= Lease - Slow /\ req[n].pc = "write"
    BY FieldTypes DEF IInv, RenewWrite, WritesFresh, WritesFreshFor, Renewals
<1> DEFINE e == [slot[s] EXCEPT !.left = req[n].left]
           q == [req[n] EXCEPT !.ids = req[n].ids \ {s}]
<1>1. e \in SlotRecord /\ e.is = slot[s].is /\ e.at = slot[s].at /\ e.left = req[n].left
    BY <1>0 DEF SlotRecord
<1>2. /\ q \in Renewals /\ q.pc = "write" /\ q.left = req[n].left /\ q.heard = req[n].heard
      /\ q.ids = req[n].ids \ {s}
    BY <1>0 DEF Renewals
<1>3. /\ slot' = IF s \in HeldSlots THEN [slot EXCEPT ![s] = e] ELSE slot
      /\ req' = [req EXCEPT ![n] = q]
      /\ unsaved' = IF s \in SlotsOf(n) THEN [unsaved EXCEPT ![n] = unsaved[n] \ {s}] ELSE unsaved
    BY DEF RenewWrite
<1>4. /\ node' = node /\ target' = target /\ mgr' = mgr /\ wrk' = wrk /\ run' = run
      /\ taken' = taken /\ events' = events
    BY DEF RenewWrite
<1> HIDE DEF e, q
<1>5. /\ req' \in [Nodes -> Renewals] /\ req'[n] = q
      /\ \A m \in Nodes : m # n => req'[m] = req[m]
    BY <1>0, <1>2, <1>3 DEF TypeOK
<1>6. SlotChange(s)
  <2>1. /\ slot' \in [Slots -> SlotRecord]
        /\ \A u \in Slots : u # s => slot'[u] = slot[u]
        /\ slot'[s] = slot[s] \/ slot'[s] = e
      BY <1>0, <1>1, <1>3 DEF TypeOK
  <2>2. \A m \in Nodes : s \in SlotsOf(m) => slot[s].is = "kept" /\ slot[s].at = m
      BY DEF SlotsOf, Kept
  <2>3. taken' \in SUBSET Slots /\ taken \subseteq taken'
      BY <1>0, <1>4 DEF TypeOK
  <2> QED
      BY <1>0, <1>1, <2>1, <2>2, <2>3 DEF SlotChange
<1>A. /\ unsaved' \in [Nodes -> SUBSET Slots]
       /\ \A m \in Nodes : /\ unsaved'[m] \subseteq unsaved[m]
                           /\ unsaved[m] \ {s} \subseteq unsaved'[m]
                           /\ m # n \/ s \notin SlotsOf(n) => unsaved'[m] = unsaved[m]
                           /\ unsaved'[m] = unsaved[m] \/ unsaved'[m] = unsaved[m] \ {s}
    BY <1>0, <1>3 DEF TypeOK
<1>B. s \in SlotsOf(n) => s \in SlotsOf(n)' /\ slot'[s].left >= Lease - Slow
  <2> SUFFICES ASSUME s \in SlotsOf(n)
               PROVE  s \in SlotsOf(n)' /\ slot'[s].left >= Lease - Slow
      OBVIOUS
  <2>1. s \in HeldSlots /\ slot[s].is = "kept" /\ slot[s].at = n
      BY <1>0, FieldTypes DEF SlotsOf, Kept
  <2>2. slot'[s] = e
      BY <1>0, <1>3, <2>1 DEF TypeOK
  <2> QED
      BY <1>0, <1>1, <2>1, <2>2 DEF SlotsOf, Kept
<1>7. TypeOK'
    BY <1>4, <1>5, <1>6, <1>A DEF IInv, TypeOK, SlotChange
<1>8. Phases' /\ Heard' /\ Timely' /\ WritesFresh'
  <2>1. Phases' /\ Timely'
      BY <1>4 DEF IInv, Phases, PhaseOf, Timely, TimelyAt
  <2>2. Heard' /\ WritesFresh'
      BY <1>0, <1>2, <1>4, <1>5 DEF IInv, Heard, HeardBy, WritesFresh, WritesFreshFor
  <2> QED
      BY <2>1, <2>2
<1>9. RenewalCovered'
  <2> SUFFICES ASSUME NEW m \in Nodes, NEW u \in SlotsOf(m)' \ unsaved'[m]
               PROVE  \/ req'[m].pc = "idle"
                      \/ req'[m].pc = "write" /\ u \in req'[m].ids
                      \/ req'[m].left =< slot'[u].left + Slow
      BY DEF RenewalCovered, RenewalCoveredFor
  <2>0. /\ req'[m].pc = req[m].pc /\ req'[m].left = req[m].left
        /\ u # s => (u \in req[m].ids => u \in req'[m].ids)
      BY <1>0, <1>2, <1>5
  <2>1. u \in Slots
      BY DEF SlotsOf, Kept
  <2>2. /\ slot'[u].left \in Int /\ req[m].left \in Int /\ req[m].left =< Lease
        /\ Lease \in Nat /\ Slow \in Nat
    <3>1. slot'[u].left \in Left /\ req[m].left \in Left
        BY <1>0, <1>6, <2>1, FieldTypes DEF SlotChange, SlotRecord, Renewals
    <3> QED
        BY <3>1, Bounds, LeaseAssumption
  <2>3. CASE u = s
    <3>1. s \in HeldSlots
      <4>1. \A k \in Nodes : k # None
          BY LeaseAssumption
      <4>2. slot'[s].is = "kept" /\ slot'[s].at = m
          BY <2>3 DEF SlotsOf, Kept
      <4> QED
          BY <1>3, <4>1, <4>2 DEF HeldSlots, Kept
    <3>2. slot'[s].left = req[n].left
        BY <1>0, <1>1, <1>3, <3>1 DEF TypeOK
    <3> QED
        BY <1>0, <2>0, <2>2, <2>3, <3>2
  <2>4. CASE u # s
    <3>1. u \in SlotsOf(m) \ unsaved[m] /\ slot'[u].left = slot[u].left
        BY <1>6, <1>A, <2>4, CoverAfterChange
    <3> QED
        BY <2>0, <2>4, <3>1 DEF IInv, RenewalCovered, RenewalCoveredFor
  <2> QED
      BY <2>3, <2>4
<1>10. \A m \in Nodes : req'[m].pc = "answer" => req'[m] = req[m]
    BY <1>2, <1>5
<1>11. /\ mgr' \in Passes /\ mgr'.pc = mgr.pc /\ mgr'.age = mgr.age
       /\ mgr'.expired \subseteq mgr.expired
    BY <1>0, <1>4, FieldTypes
<1>12. \A m \in Nodes :
         \/ unsaved'[m] = unsaved[m]
         \/ /\ unsaved'[m] = unsaved[m] \ {s} /\ req'[m].pc # "answer"
            /\ s \in SlotsOf(m)' /\ slot'[s].left >= Lease - Slow
    BY <1>2, <1>5, <1>A, <1>B
<1> QED
    BY <1>4, <1>6, <1>7, <1>8, <1>9, <1>10, <1>11, <1>12, ChangeStep DEF IInv

-----------------------------------------------------------------------------
\* The manager and the operators, where no slot changes hands

Managing ==
  \/ AppsRead \/ LeasesRead \/ PassFails
  \/ \E s \in Slots : NowhereToPlace(s)

Operating ==
  \/ \E k \in 0 .. Cardinality(Slots) : SetTarget(k)
  \/ \E n \in Nodes : DeleteNode(n) \/ \E drained \in BOOLEAN : DrainNode(n, drained)

\* Reading, ending and failing of a pass keep the invariant.
LEMMA ManagingStep ==
  ASSUME IInv, Managing
  PROVE  IInv'
<1>0. /\ slot' = slot /\ node' = node /\ target' = target /\ req' = req /\ wrk' = wrk
      /\ run' = run /\ taken' = taken /\ unsaved' = unsaved
    BY DEF Managing, AppsRead, LeasesRead, PassFails, NowhereToPlace
<1>1. events' \in 0 .. MaxEvents
  <2>1. events' = events \/ Event
      BY DEF Managing, AppsRead, LeasesRead, PassFails, NowhereToPlace
  <2> QED
      BY <2>1, LeaseAssumption DEF Event, IInv, TypeOK
<1>2. /\ HeldSlots \in SUBSET Slots /\ Kept \in SUBSET Slots /\ mgr \in Passes
      /\ target \in 0 .. Cardinality(Slots)
    BY FieldTypes DEF IInv, TypeOK
<1>3. /\ mgr' \in Passes
      /\ \/ mgr'.expired = {}
         \/ mgr'.expired = Expired /\ mgr'.pc = "leases"
         \/ mgr'.expired \subseteq mgr.expired /\ mgr'.age = mgr.age /\ mgr'.pc = mgr.pc
  <2>1. CASE PassFails
      BY <2>1, IdleTypes DEF PassFails, NoPass
  <2>2. CASE LeasesRead
    <3>1. Expired \in SUBSET Slots
        BY <1>2 DEF Expired
    <3>2. mgr' = [NoPass EXCEPT !.pc = "leases", !.expired = Expired]
        BY <2>2 DEF LeasesRead
    <3>3. mgr' \in Passes
        BY <3>1, <3>2, IdleTypes DEF Passes
    <3> QED
        BY <3>2, <3>3 DEF NoPass
  <2>3. ASSUME NEW s \in Slots, NowhereToPlace(s)
        PROVE  /\ mgr' \in Passes
               /\ \/ mgr'.expired = {}
                  \/ mgr'.expired \subseteq mgr.expired /\ mgr'.age = mgr.age /\ mgr'.pc = mgr.pc
    <3> DEFINE p == [mgr EXCEPT !.expired = @ \ {s}]
    <3>1. p \in Passes /\ p.expired \subseteq mgr.expired /\ p.age = mgr.age /\ p.pc = mgr.pc
        BY <1>2 DEF Passes
    <3>2. mgr' = Ongoing(p)
        BY <2>3 DEF NowhereToPlace
    <3> HIDE DEF p
    <3> QED
        BY <3>1, <3>2, OngoingEffect
  <2>4. CASE AppsRead
    <3>1. PICK withdraw \in ToWithdraw :
             mgr' = [NoPass EXCEPT
                    !.pc = "apps", !.drop = ToDrop, !.withdraw = withdraw, !.place = ToPlace,
                    !.nodes = {n \in Nodes : ToPlace > 0 /\ AcceptsWork(n, 0)}]
        BY <2>4 DEF AppsRead
    <3>2. withdraw \in SUBSET Slots
        BY <1>2 DEF ToWithdraw, Rebalance
    <3>3. ToDrop \in SUBSET Slots
        BY <1>2 DEF ToDrop
    <3>4. ToPlace \in Nat
      <4>1. Cardinality(HeldSlots) \in Nat /\ target \in Nat
          BY <1>2, Counts
      <4> QED
          BY <4>1 DEF ToPlace
    <3>5. {n \in Nodes : ToPlace > 0 /\ AcceptsWork(n, 0)} \in SUBSET Nodes
        OBVIOUS
    <3>6. mgr' \in Passes
        BY <3>1, <3>2, <3>3, <3>4, <3>5, IdleTypes DEF Passes
    <3> QED
        BY <3>1, <3>6 DEF NoPass
  <2> QED
      BY <2>1, <2>2, <2>3, <2>4 DEF Managing
<1>4. TypeOK'
    BY <1>0, <1>1, <1>3 DEF IInv, TypeOK
<1>5. /\ HeldSlots' = HeldSlots
      /\ \A n \in Nodes : SlotsOf(n)' = SlotsOf(n) /\ Free(n)' = Free(n)
    BY <1>0 DEF HeldSlots, SlotsOf, Kept, Free
<1>6. ExpiredOrRenewed'
  <2>1. \A s \in Expired : slot[s].left < 0 - Margin
      BY DEF Expired, LeaseOver
  <2> QED
      BY <1>0, <1>3, <1>5, <2>1 DEF IInv, ExpiredOrRenewed
<1>7. Phases' /\ Heard' /\ Timely' /\ WritesFresh'
    BY <1>0 DEF IInv, Phases, PhaseOf, Heard, HeardBy, Timely, TimelyAt, WritesFresh, WritesFreshFor
<1>8. RenewalCovered' /\ WorkerCovered' /\ AnswerCovered' /\ LostOnlyOverdue'
    BY <1>0, <1>5 DEF IInv, RenewalCovered, RenewalCoveredFor, WorkerCovered, WorkerCoveredAt,
       AnswerCovered, AnswerCoveredFor, LostOnlyOverdue
<1> QED
    BY <1>4, <1>6, <1>7, <1>8 DEF IInv

\* Nothing but the records of nodes, the target and the count of calls.
LEMMA FrameStep ==
  ASSUME IInv, slot' = slot, mgr' = mgr, req' = req, wrk' = wrk, run' = run, taken' = taken,
         unsaved' = unsaved, TypeOK'
  PROVE  IInv'
<1>1. /\ HeldSlots' = HeldSlots
      /\ \A n \in Nodes : SlotsOf(n)' = SlotsOf(n) /\ Free(n)' = Free(n)
    BY DEF HeldSlots, SlotsOf, Kept, Free
<1>2. Phases' /\ Heard' /\ Timely' /\ WritesFresh'
    BY DEF IInv, Phases, PhaseOf, Heard, HeardBy, Timely, TimelyAt, WritesFresh, WritesFreshFor
<1>3. /\ RenewalCovered' /\ WorkerCovered' /\ AnswerCovered' /\ LostOnlyOverdue'
      /\ ExpiredOrRenewed'
    BY <1>1 DEF IInv, RenewalCovered, RenewalCoveredFor, WorkerCovered, WorkerCoveredAt,
       AnswerCovered, AnswerCoveredFor, LostOnlyOverdue, ExpiredOrRenewed
<1> QED
    BY <1>2, <1>3 DEF IInv

\* Operators that leave the slots alone keep the invariant.
LEMMA OperatingStep ==
  ASSUME IInv, Operating
  PROVE  IInv'
<1>1. /\ slot' = slot /\ mgr' = mgr /\ req' = req /\ wrk' = wrk /\ run' = run
      /\ taken' = taken /\ unsaved' = unsaved /\ Event
    BY DEF Operating, SetTarget, DeleteNode, DrainNode
<1>2. events' \in 0 .. MaxEvents
    BY <1>1, LeaseAssumption DEF Event, IInv, TypeOK
<1>3. target' \in 0 .. Cardinality(Slots)
    BY DEF Operating, SetTarget, DeleteNode, DrainNode, IInv, TypeOK
<1>4. node' \in [Nodes -> NodeRecord]
  <2>1. CASE node' = node
      BY <2>1 DEF IInv, TypeOK
  <2>2. ASSUME NEW n \in Nodes, DeleteNode(n)
        PROVE  node' \in [Nodes -> NodeRecord]
    <3>1. [known |-> FALSE, ago |-> 0, drained |-> FALSE] \in NodeRecord
        BY Bounds DEF NodeRecord
    <3> QED
        BY <2>2, <3>1 DEF DeleteNode, IInv, TypeOK
  <2>3. ASSUME NEW n \in Nodes, NEW drained \in BOOLEAN, DrainNode(n, drained)
        PROVE  node' \in [Nodes -> NodeRecord]
    <3>1. [node[n] EXCEPT !.drained = drained] \in NodeRecord
        BY FieldTypes DEF IInv, NodeRecord
    <3>2. node' = [node EXCEPT ![n] = [node[n] EXCEPT !.drained = drained]]
        BY <2>3 DEF DrainNode
    <3> QED
        BY <3>1, <3>2 DEF IInv, TypeOK
  <2> QED
      BY <2>1, <2>2, <2>3 DEF Operating, SetTarget
<1> QED
    BY <1>1, <1>2, <1>3, <1>4, FrameStep DEF IInv, TypeOK

-----------------------------------------------------------------------------
\* Steps of one node

\* It is enough to look at the node that takes the step.
LEMMA LocalStep ==
  ASSUME IInv, TypeOK', NEW n \in Nodes, slot' = slot, mgr' = mgr, taken' = taken,
         \A m \in Nodes : m # n => unsaved'[m] = unsaved[m],
         \A m \in Nodes : m # n => wrk'[m] = wrk[m] /\ run'[m] = run[m] /\ req'[m] = req[m],
         PhaseOf(n)', HeardBy(n)', TimelyAt(n)', WritesFreshFor(n)', RenewalCoveredFor(n)',
         WorkerCoveredAt(n)', AnswerCoveredFor(n)', LostAt(n)'
  PROVE  IInv'
<1>1. HeldSlots' = HeldSlots /\ \A m \in Nodes : SlotsOf(m)' = SlotsOf(m)
    BY DEF HeldSlots, SlotsOf, Kept
<1>2. ASSUME NEW m \in Nodes, m # n
      PROVE  /\ PhaseOf(m)' /\ HeardBy(m)' /\ TimelyAt(m)' /\ WritesFreshFor(m)'
             /\ RenewalCoveredFor(m)' /\ WorkerCoveredAt(m)' /\ AnswerCoveredFor(m)' /\ LostAt(m)'
  <2>1. /\ wrk'[m] = wrk[m] /\ run'[m] = run[m] /\ req'[m] = req[m] /\ SlotsOf(m)' = SlotsOf(m)
        /\ unsaved'[m] = unsaved[m]
      BY <1>1, <1>2
  <2>2. PhaseOf(m) /\ HeardBy(m) /\ TimelyAt(m) /\ WritesFreshFor(m)
      BY DEF IInv, Phases, Heard, Timely, WritesFresh
  <2>3. RenewalCoveredFor(m) /\ WorkerCoveredAt(m) /\ AnswerCoveredFor(m) /\ LostAt(m)
      BY DEF IInv, RenewalCovered, WorkerCovered, AnswerCovered, LostOnlyOverdue, LostAt
  <2>4. PhaseOf(m)' /\ HeardBy(m)' /\ TimelyAt(m)' /\ WritesFreshFor(m)'
      BY <2>1, <2>2 DEF PhaseOf, HeardBy, TimelyAt, WritesFreshFor
  <2>5. RenewalCoveredFor(m)' /\ AnswerCoveredFor(m)' /\ LostAt(m)'
      BY <2>1, <2>3 DEF RenewalCoveredFor, AnswerCoveredFor, LostAt
  <2>6. WorkerCoveredAt(m)'
      BY <2>1, <2>3 DEF WorkerCoveredAt, Free
  <2> QED
      BY <2>4, <2>5, <2>6
<1>3. ExpiredOrRenewed'
    BY <1>1 DEF IInv, ExpiredOrRenewed
<1>4. Phases' /\ Heard' /\ Timely' /\ WritesFresh'
    BY <1>2 DEF Phases, Heard, Timely, WritesFresh
<1>5. RenewalCovered' /\ WorkerCovered' /\ AnswerCovered'
    BY <1>2 DEF RenewalCovered, WorkerCovered, AnswerCovered
<1>6. LostOnlyOverdue'
    BY <1>2 DEF LostOnlyOverdue, LostAt
<1> QED
    BY <1>3, <1>4, <1>5, <1>6 DEF IInv

\* What the invariant says of one node.
LEMMA AtNode ==
  ASSUME IInv, NEW n \in Nodes
  PROVE  /\ PhaseOf(n) /\ HeardBy(n) /\ TimelyAt(n) /\ WritesFreshFor(n)
         /\ RenewalCoveredFor(n) /\ WorkerCoveredAt(n) /\ AnswerCoveredFor(n) /\ LostAt(n)
         /\ wrk[n] \in Workers /\ req[n] \in Renewals /\ run[n] \in SUBSET Slots
         /\ node[n] \in NodeRecord /\ SlotsOf(n) \in SUBSET Slots
<1>1. PhaseOf(n) /\ HeardBy(n) /\ TimelyAt(n) /\ WritesFreshFor(n)
    BY DEF IInv, Phases, Heard, Timely, WritesFresh
<1>2. RenewalCoveredFor(n) /\ WorkerCoveredAt(n) /\ AnswerCoveredFor(n) /\ LostAt(n)
    BY DEF IInv, RenewalCovered, WorkerCovered, AnswerCovered, LostOnlyOverdue, LostAt
<1> QED
    BY <1>1, <1>2, FieldTypes DEF IInv

\* A renewal that reaches the master keeps the invariant.
LEMMA RenewSendStep ==
  ASSUME IInv, NEW n \in Nodes, RenewSend(n)
  PROVE  IInv'
<1> DEFINE q == [pc |-> "write", left |-> Lease, ids |-> SlotsOf(n), heard |-> TRUE]
           w == [wrk[n] EXCEPT !.pc = "renew"]
           d == [node[n] EXCEPT !.ago = 0]
<1>1. q \in Renewals
    BY AtNode, Bounds DEF Renewals
<1>2. /\ w \in Workers /\ w.pc = "renew" /\ w.up = wrk[n].up /\ w.turn = wrk[n].turn
      /\ w.left = wrk[n].left /\ w.stop = wrk[n].stop /\ w.start = wrk[n].start
      /\ w.assigned = wrk[n].assigned
    BY AtNode DEF Workers
<1>3. d \in NodeRecord
    BY AtNode, Bounds DEF NodeRecord
<1>4. /\ req' = [req EXCEPT ![n] = q] /\ wrk' = [wrk EXCEPT ![n] = w]
      /\ node' = [node EXCEPT ![n] = d] /\ wrk[n].up /\ wrk[n].pc = "sleep"
      /\ slot' = slot /\ target' = target /\ mgr' = mgr /\ run' = run /\ taken' = taken
      /\ unsaved' = unsaved /\ events' = events
    BY DEF RenewSend
<1> HIDE DEF w, d
<1>5. TypeOK'
    BY <1>1, <1>2, <1>3, <1>4 DEF IInv, TypeOK
<1>6. /\ req'[n] = q /\ wrk'[n] = w /\ run'[n] = run[n]
      /\ \A m \in Nodes : m # n => wrk'[m] = wrk[m] /\ run'[m] = run[m] /\ req'[m] = req[m]
    BY <1>4 DEF IInv, TypeOK
<1>7. SlotsOf(n)' = SlotsOf(n) /\ Free(n)' = Free(n)
    BY <1>2, <1>4, <1>6 DEF SlotsOf, Kept, Free
<1>8. PhaseOf(n)' /\ TimelyAt(n)'
  <2>1. wrk'[n].up
      BY <1>2, <1>4, <1>6
  <2>2. wrk'[n].stop = {} /\ wrk'[n].start = {}
      BY <1>2, <1>4, <1>6, AtNode DEF PhaseOf
  <2>3. PhaseOf(n)'
      BY <2>1, <2>2 DEF PhaseOf
  <2>4. TimelyAt(n)'
      BY <1>2, <1>6, AtNode DEF TimelyAt
  <2> QED
      BY <2>3, <2>4
<1>9. HeardBy(n)' /\ WritesFreshFor(n)'
  <2>1. Lease \in Nat /\ Slow \in Nat /\ Lease >= Lease - Slow
      BY LeaseAssumption
  <2>2. Lease >= Lease - w.turn
    <3>1. w.turn \in Nat
        BY <1>2, LeaseAssumption DEF Workers
    <3> QED
        BY <2>1, <3>1
  <2>3. wrk'[n].up /\ wrk'[n].pc = "renew" /\ wrk'[n].turn = w.turn
      BY <1>2, <1>4, <1>6
  <2>4. req'[n].pc = "write" /\ req'[n].left = Lease
      BY <1>6
  <2> QED
      BY <2>1, <2>2, <2>3, <2>4 DEF HeardBy, WritesFreshFor
<1>10. RenewalCoveredFor(n)' /\ AnswerCoveredFor(n)'
    BY <1>6, <1>7 DEF RenewalCoveredFor, AnswerCoveredFor
<1>11. WorkerCoveredAt(n)' /\ LostAt(n)'
    BY <1>2, <1>4, <1>6, <1>7, AtNode DEF WorkerCoveredAt, LostAt
<1> QED
    BY <1>4, <1>5, <1>6, <1>8, <1>9, <1>10, <1>11, LocalStep

\* The answer holds what the node has by then: the invariant is kept.
LEMMA RenewAnswerStep ==
  ASSUME IInv, NEW n \in Nodes, RenewAnswer(n)
  PROVE  IInv'
<1> DEFINE q == [req[n] EXCEPT !.pc = "answer", !.ids = SlotsOf(n)]
<1>1. /\ q \in Renewals /\ q.pc = "answer" /\ q.ids = SlotsOf(n) /\ q.left = req[n].left
      /\ q.heard = req[n].heard
    BY AtNode DEF Renewals
<1>2. /\ req' = [req EXCEPT ![n] = IF req[n].heard THEN q ELSE NoRenewal]
      /\ req[n].pc = "write" /\ req[n].ids = {}
      /\ slot' = slot /\ node' = node /\ target' = target /\ mgr' = mgr /\ wrk' = wrk
      /\ run' = run /\ taken' = taken /\ unsaved' = unsaved /\ events' = events
    BY DEF RenewAnswer
<1> HIDE DEF q
<1>3. /\ req' \in [Nodes -> Renewals] /\ \A m \in Nodes : m # n => req'[m] = req[m]
      /\ \/ req'[n] = q /\ req[n].heard
         \/ req'[n] = NoRenewal
    BY <1>1, <1>2, IdleTypes DEF IInv, TypeOK
<1>4. TypeOK'
    BY <1>2, <1>3 DEF IInv, TypeOK
<1>5. SlotsOf(n)' = SlotsOf(n) /\ Free(n)' = Free(n)
    BY <1>2 DEF SlotsOf, Kept, Free
<1>6. PhaseOf(n)' /\ TimelyAt(n)' /\ LostAt(n)' /\ WorkerCoveredAt(n)'
    BY <1>2, <1>5, AtNode DEF PhaseOf, TimelyAt, LostAt, WorkerCoveredAt
<1>7. HeardBy(n)' /\ WritesFreshFor(n)' /\ RenewalCoveredFor(n)' /\ AnswerCoveredFor(n)'
  <2>1. CASE req'[n] = q /\ req[n].heard
    <3>1. HeardBy(n)' /\ WritesFreshFor(n)' /\ AnswerCoveredFor(n)'
        BY <1>1, <1>2, <1>5, <2>1, AtNode DEF HeardBy, WritesFreshFor, AnswerCoveredFor
    <3>2. RenewalCoveredFor(n)'
        BY <1>1, <1>2, <1>5, <2>1, AtNode DEF RenewalCoveredFor
    <3> QED
        BY <3>1, <3>2
  <2>2. CASE req'[n] = NoRenewal
    <3>1. req'[n].pc = "idle" /\ ~req'[n].heard
        BY <2>2 DEF NoRenewal
    <3> QED
        BY <3>1 DEF HeardBy, WritesFreshFor, RenewalCoveredFor, AnswerCoveredFor
  <2> QED
      BY <1>3, <2>1, <2>2
<1> QED
    BY <1>2, <1>3, <1>4, <1>6, <1>7, LocalStep

\* A renewal whose writes fail leaves its slots without cover, and says so.
LEMMA RenewWriteFailsStep ==
  ASSUME IInv, NEW n \in Nodes, RenewWriteFails(n)
  PROVE  IInv'
<1> DEFINE q == [req[n] EXCEPT !.ids = {}]
<1>1. /\ q \in Renewals /\ q.pc = "write" /\ q.ids = {} /\ q.left = req[n].left
      /\ q.heard = req[n].heard /\ req[n].pc = "write" /\ req[n].ids \in SUBSET Slots
    BY AtNode DEF Renewals, RenewWriteFails
<1>2. /\ req' = [req EXCEPT ![n] = q]
      /\ unsaved' = [unsaved EXCEPT ![n] = unsaved[n] \union req[n].ids]
      /\ slot' = slot /\ node' = node /\ target' = target /\ mgr' = mgr /\ wrk' = wrk
      /\ run' = run /\ taken' = taken
    BY DEF RenewWriteFails
<1> HIDE DEF q
<1>3. /\ req' \in [Nodes -> Renewals] /\ req'[n] = q
      /\ unsaved' \in [Nodes -> SUBSET Slots] /\ unsaved'[n] = unsaved[n] \union req[n].ids
      /\ \A m \in Nodes : m # n => req'[m] = req[m] /\ unsaved'[m] = unsaved[m]
    BY <1>1, <1>2 DEF IInv, TypeOK
<1>4. events' \in 0 .. MaxEvents
    BY LeaseAssumption DEF RenewWriteFails, Event, IInv, TypeOK
<1>5. TypeOK'
    BY <1>2, <1>3, <1>4 DEF IInv, TypeOK
<1>6. SlotsOf(n)' = SlotsOf(n) /\ Free(n)' = Free(n)
    BY <1>2 DEF SlotsOf, Kept, Free
<1>7. PhaseOf(n)' /\ TimelyAt(n)' /\ HeardBy(n)' /\ WritesFreshFor(n)'
    BY <1>1, <1>2, <1>3, AtNode DEF PhaseOf, TimelyAt, HeardBy, WritesFreshFor
<1>8. LostAt(n)' /\ WorkerCoveredAt(n)'
    BY <1>2, <1>3, <1>6, AtNode DEF LostAt, WorkerCoveredAt
<1>9. RenewalCoveredFor(n)' /\ AnswerCoveredFor(n)'
    BY <1>1, <1>2, <1>3, <1>6, AtNode DEF RenewalCoveredFor, AnswerCoveredFor
<1> QED
    BY <1>2, <1>3, <1>5, <1>7, <1>8, <1>9, LocalStep

\* An answer without slots keeps the invariant.
LEMMA RenewAnswerEmptyStep ==
  ASSUME IInv, NEW n \in Nodes, RenewAnswerEmpty(n)
  PROVE  IInv'
<1> DEFINE q == [req[n] EXCEPT !.pc = "answer"]
<1>1. /\ q \in Renewals /\ q.pc = "answer" /\ q.ids = {} /\ q.left = req[n].left
      /\ q.heard /\ req[n].heard /\ req[n].pc = "write" /\ req[n].ids = {}
    BY AtNode DEF Renewals, RenewAnswerEmpty
<1>2. /\ req' = [req EXCEPT ![n] = q]
      /\ slot' = slot /\ node' = node /\ target' = target /\ mgr' = mgr /\ wrk' = wrk
      /\ run' = run /\ taken' = taken /\ unsaved' = unsaved
    BY DEF RenewAnswerEmpty
<1> HIDE DEF q
<1>3. /\ req' \in [Nodes -> Renewals] /\ req'[n] = q
      /\ \A m \in Nodes : m # n => req'[m] = req[m]
    BY <1>1, <1>2 DEF IInv, TypeOK
<1>4. events' \in 0 .. MaxEvents
    BY LeaseAssumption DEF RenewAnswerEmpty, Event, IInv, TypeOK
<1>5. TypeOK'
    BY <1>2, <1>3, <1>4 DEF IInv, TypeOK
<1>6. SlotsOf(n)' = SlotsOf(n) /\ Free(n)' = Free(n)
    BY <1>2 DEF SlotsOf, Kept, Free
<1>7. PhaseOf(n)' /\ TimelyAt(n)' /\ HeardBy(n)' /\ WritesFreshFor(n)'
    BY <1>1, <1>2, <1>3, AtNode DEF PhaseOf, TimelyAt, HeardBy, WritesFreshFor
<1>8. LostAt(n)' /\ WorkerCoveredAt(n)'
    BY <1>2, <1>6, AtNode DEF LostAt, WorkerCoveredAt
<1>9. RenewalCoveredFor(n)' /\ AnswerCoveredFor(n)'
    BY <1>1, <1>2, <1>3, <1>6, AtNode DEF RenewalCoveredFor, AnswerCoveredFor
<1> QED
    BY <1>2, <1>3, <1>5, <1>7, <1>8, <1>9, LocalStep

\* A decision on a deadline the node's slots are covered by.  While a worker
\* runs something, that deadline is at most one turn in the past.
LEMMA DecisionStep ==
  ASSUME IInv, NEW n \in Nodes, NEW assigned \in SUBSET Slots, NEW left \in Left,
         Decided(n, assigned, left), wrk[n].up, wrk[n].pc # "apply",
         slot' = slot, target' = target, mgr' = mgr, run' = run, taken' = taken,
         unsaved' = unsaved, events' = events,
         node' \in [Nodes -> NodeRecord],
         req' \in [Nodes -> Renewals], \A m \in Nodes : m # n => req'[m] = req[m],
         ~req'[n].heard, req'[n].pc # "answer",
         WritesFreshFor(n)', RenewalCoveredFor(n)',
         \A s \in SlotsOf(n) \ unsaved[n] :
           left =< slot[s].left + Slow \/ assigned \union run[n] = {},
         run[n] # {} => left >= Skew[n] - Period,
         \A s \in assigned \ (taken \union unsaved[n]) :
           s \in run[n] => s \in SlotsOf(n) \/ left < Slow - Margin
  PROVE  IInv'
<1>0. /\ TypeOK /\ Phases /\ wrk[n] \in Workers /\ run[n] \in SUBSET Slots
      /\ TimelyAt(n) /\ wrk[n].start = {} /\ wrk[n].stop = {}
    BY AtNode DEF IInv, PhaseOf
<1>1. /\ wrk' \in [Nodes -> Workers]
      /\ \A m \in Nodes : m # n => wrk'[m] = wrk[m]
      /\ wrk'[n].up = wrk[n].up /\ wrk'[n].turn = 0
      /\ wrk'[n].pc \in {"apply", "sleep"}
      /\ wrk'[n].pc # "apply" => wrk'[n].stop = {} /\ wrk'[n].start = {}
      /\ wrk'[n].start \subseteq wrk'[n].assigned
      /\ \/ wrk'[n].left = left
         \/ wrk'[n].assigned = {} /\ run[n] = {} /\ wrk'[n].start = {}
      /\ \/ /\ left < Skew[n] /\ wrk'[n].assigned = {}
            /\ wrk'[n].stop = run[n] /\ wrk'[n].start = {}
         \/ /\ left >= Skew[n] /\ wrk'[n].assigned = assigned
            /\ run[n] \ assigned \subseteq wrk'[n].stop
    BY <1>0, DecidedEffect
<1>2. TypeOK'
    BY <1>1 DEF IInv, TypeOK
<1>3. /\ left \in Int /\ left =< Lease /\ Skew[n] \in Int /\ Period \in Nat /\ Grace \in Nat
      /\ Lease \in Nat /\ Slow \in Nat
    BY Bounds, LeaseAssumption
<1>4. PhaseOf(n)' /\ HeardBy(n)'
    BY <1>1 DEF PhaseOf, HeardBy
<1>5. TimelyAt(n)'
  <2> SUFFICES ASSUME run[n] \union wrk'[n].start # {}
               PROVE  /\ Skew[n] =< Lease
                      /\ \/ wrk'[n].left >= Skew[n] - wrk'[n].turn
                         \/ /\ run[n] \subseteq wrk'[n].stop /\ wrk'[n].start = {}
                            /\ wrk'[n].left >= Skew[n] - Period - wrk'[n].turn
                            /\ wrk'[n].turn =< Grace
      BY DEF TimelyAt
  <2>1. wrk'[n].left = left
      BY <1>1
  <2>2. CASE left < Skew[n]
    <3>1. /\ wrk'[n].stop = run[n] /\ wrk'[n].start = {} /\ run[n] # {}
        BY <1>1, <1>3, <2>2
    <3>2. Skew[n] =< Lease
        BY <1>0, <3>1 DEF TimelyAt
    <3>3. left >= Skew[n] - Period - 0 /\ 0 =< Grace
        BY <1>3, <3>1
    <3> QED
        BY <1>1, <2>1, <3>1, <3>2, <3>3
  <2>3. CASE left >= Skew[n]
    <3>1. Skew[n] =< Lease /\ left >= Skew[n] - 0
        BY <1>3, <2>3
    <3> QED
        BY <1>1, <2>1, <3>1
  <2> QED
      BY <1>3, <2>2, <2>3
<1>6. WorkerCoveredAt(n)'
  <2>1. SlotsOf(n)' = SlotsOf(n)
      BY DEF SlotsOf, Kept
  <2> SUFFICES ASSUME NEW s \in SlotsOf(n) \ unsaved[n], wrk'[n].assigned \union run[n] # {}
               PROVE  wrk'[n].left =< slot[s].left + Slow
      BY <2>1 DEF WorkerCoveredAt, Free
  <2>2. wrk'[n].left = left /\ assigned \union run[n] # {}
      BY <1>1
  <2> QED
      BY <2>2
<1>7. LostAt(n)'
  <2>1. SlotsOf(n)' = SlotsOf(n)
      BY DEF SlotsOf, Kept
  <2> SUFFICES ASSUME NEW s \in run[n] \ (taken \union unsaved[n])
               PROVE  s \in SlotsOf(n) \/ wrk'[n].left < Slow - Margin \/ s \in wrk'[n].stop
      BY <2>1 DEF LostAt
  <2>2. wrk'[n].left = left
      BY <1>1
  <2> QED
      BY <1>1, <2>2
<1>8. AnswerCoveredFor(n)'
    BY DEF AnswerCoveredFor
<1>9. \A m \in Nodes : m # n => wrk'[m] = wrk[m] /\ run'[m] = run[m] /\ req'[m] = req[m]
    BY <1>1
<1> QED
    BY <1>2, <1>4, <1>5, <1>6, <1>7, <1>8, <1>9, LocalStep

\* The node gives up on its request, which goes on at the master.
LEMMA GivenUp ==
  ASSUME IInv, NEW n \in Nodes,
         req' = [req EXCEPT ![n] = Unheard(req[n])],
         slot' = slot, unsaved' = unsaved
  PROVE  /\ req' \in [Nodes -> Renewals] /\ \A m \in Nodes : m # n => req'[m] = req[m]
         /\ ~req'[n].heard /\ req'[n].pc # "answer"
         /\ WritesFreshFor(n)' /\ RenewalCoveredFor(n)'
<1>0. SlotsOf(n)' = SlotsOf(n)
    BY DEF SlotsOf, Kept
<1>1. CASE ~(req[n].pc = "write" /\ req[n].ids # {})
  <2>1. req' = [req EXCEPT ![n] = NoRenewal]
      BY <1>1 DEF Unheard
  <2>2. req' \in [Nodes -> Renewals] /\ req'[n] = NoRenewal /\ \A m \in Nodes : m # n => req'[m] = req[m]
      BY <2>1, IdleTypes DEF IInv, TypeOK
  <2>3. req'[n].pc = "idle" /\ ~req'[n].heard
      BY <2>2 DEF NoRenewal
  <2> QED
      BY <2>2, <2>3 DEF WritesFreshFor, RenewalCoveredFor
<1>2. CASE req[n].pc = "write" /\ req[n].ids # {}
  <2> DEFINE q == [req[n] EXCEPT !.heard = FALSE]
  <2>1. /\ q \in Renewals /\ q.pc = req[n].pc /\ q.left = req[n].left /\ q.ids = req[n].ids
        /\ q.heard = FALSE
      BY AtNode DEF Renewals
  <2>2. req' = [req EXCEPT ![n] = q]
      BY <1>2 DEF Unheard
  <2> HIDE DEF q
  <2>3. req' \in [Nodes -> Renewals] /\ req'[n] = q /\ \A m \in Nodes : m # n => req'[m] = req[m]
      BY <2>1, <2>2 DEF IInv, TypeOK
  <2>4. WritesFreshFor(n)' /\ RenewalCoveredFor(n)'
      BY <1>0, <2>1, <2>3, AtNode DEF WritesFreshFor, RenewalCoveredFor
  <2> QED
      BY <1>2, <2>1, <2>3, <2>4
<1> QED
    BY <1>1, <1>2

\* The deadline a worker has is at most one turn past, while it runs anything.
LEMMA OldDeadline ==
  ASSUME IInv, NEW n \in Nodes, wrk[n].pc # "apply"
  PROVE  /\ wrk[n].left \in Left /\ wrk[n].assigned \in SUBSET Slots
         /\ run[n] # {} => wrk[n].left >= Skew[n] - Period
         /\ \A s \in SlotsOf(n) \ unsaved[n] :
              wrk[n].left =< slot[s].left + Slow \/ wrk[n].assigned \union run[n] = {}
         /\ \A s \in wrk[n].assigned \ (taken \union unsaved[n]) :
              s \in run[n] => s \in SlotsOf(n) \/ wrk[n].left < Slow - Margin
<1>0. /\ wrk[n] \in Workers /\ wrk[n].stop = {} /\ wrk[n].start = {} /\ TimelyAt(n)
      /\ WorkerCoveredAt(n) /\ LostAt(n)
    BY AtNode DEF PhaseOf
<1>1. wrk[n].left \in Left /\ wrk[n].assigned \in SUBSET Slots /\ wrk[n].turn \in 0 .. Period
    BY <1>0 DEF Workers
<1>2. wrk[n].left \in Int /\ Skew[n] \in Int /\ Period \in Nat
    BY <1>1, Bounds, LeaseAssumption
<1>3. ASSUME run[n] # {}
      PROVE  wrk[n].left >= Skew[n] - Period
  <2>1. wrk[n].left >= Skew[n] - wrk[n].turn
      BY <1>0, <1>3 DEF TimelyAt
  <2> QED
      BY <1>1, <1>2, <2>1
<1>4. \A s \in SlotsOf(n) \ unsaved[n] :
        wrk[n].left =< slot[s].left + Slow \/ wrk[n].assigned \union run[n] = {}
    BY <1>0 DEF WorkerCoveredAt, Free
<1>5. \A s \in wrk[n].assigned \ (taken \union unsaved[n]) :
        s \in run[n] => s \in SlotsOf(n) \/ wrk[n].left < Slow - Margin
    BY <1>0 DEF LostAt
<1> QED
    BY <1>1, <1>3, <1>4, <1>5

\* A renewal without an answer leaves the worker its old deadline.
LEMMA RenewFailsStep ==
  ASSUME IInv, NEW n \in Nodes, RenewFails(n)
  PROVE  IInv'
<1>1. /\ wrk[n].up /\ wrk[n].pc # "apply" /\ Decided(n, wrk[n].assigned, wrk[n].left)
      /\ req' = [req EXCEPT ![n] = Unheard(req[n])]
      /\ slot' = slot /\ node' = node /\ target' = target /\ mgr' = mgr /\ run' = run
      /\ taken' = taken /\ unsaved' = unsaved /\ events' = events
    BY DEF RenewFails
<1>2. node' \in [Nodes -> NodeRecord]
    BY <1>1 DEF IInv, TypeOK
<1> QED
    BY <1>1, <1>2, GivenUp, OldDeadline, DecisionStep

\* A node the master does not know registers and keeps its old deadline.
LEMMA RenewUnknownStep ==
  ASSUME IInv, NEW n \in Nodes, RenewUnknown(n)
  PROVE  IInv'
<1>1. /\ wrk[n].up /\ wrk[n].pc = "sleep" /\ Decided(n, wrk[n].assigned, wrk[n].left)
      /\ node' = [node EXCEPT ![n] = Registered]
      /\ slot' = slot /\ req' = req /\ target' = target /\ mgr' = mgr /\ run' = run
      /\ taken' = taken /\ unsaved' = unsaved /\ events' = events
    BY DEF RenewUnknown
<1>2. node' \in [Nodes -> NodeRecord]
    BY <1>1, IdleTypes DEF IInv, TypeOK
<1>3. ~req'[n].heard /\ req'[n].pc # "answer"
    BY <1>1, AtNode DEF HeardBy
<1>4. req' \in [Nodes -> Renewals] /\ \A m \in Nodes : m # n => req'[m] = req[m]
    BY <1>1 DEF IInv, TypeOK
<1>5. WritesFreshFor(n)' /\ RenewalCoveredFor(n)'
  <2>1. SlotsOf(n)' = SlotsOf(n)
      BY <1>1 DEF SlotsOf, Kept
  <2> QED
      BY <1>1, <2>1, AtNode DEF WritesFreshFor, RenewalCoveredFor
<1>6. wrk[n].pc # "apply"
    BY <1>1
<1> QED
    BY <1>1, <1>2, <1>3, <1>4, <1>5, <1>6, OldDeadline, DecisionStep

\* An answer gives the worker a deadline no later than the leases it wrote.
LEMMA RenewSucceedsStep ==
  ASSUME IInv, NEW n \in Nodes, RenewSucceeds(n)
  PROVE  IInv'
<1>1. /\ req[n].pc = "answer" /\ Decided(n, req[n].ids, req[n].left)
      /\ req' = [req EXCEPT ![n] = NoRenewal]
      /\ slot' = slot /\ node' = node /\ target' = target /\ mgr' = mgr /\ run' = run
      /\ taken' = taken /\ unsaved' = unsaved /\ events' = events
    BY DEF RenewSucceeds
<1>2. /\ req[n].heard /\ wrk[n].up /\ wrk[n].pc = "renew"
      /\ req[n].left >= Lease - wrk[n].turn
    BY <1>1, AtNode DEF HeardBy
<1>3. req[n].ids \in SUBSET Slots /\ req[n].left \in Left /\ wrk[n].turn \in 0 .. Period
    BY AtNode DEF Renewals, Workers
<1>4. /\ req' \in [Nodes -> Renewals] /\ req'[n] = NoRenewal
      /\ \A m \in Nodes : m # n => req'[m] = req[m]
    BY <1>1, IdleTypes DEF IInv, TypeOK
<1>5. req'[n].pc = "idle" /\ ~req'[n].heard
    BY <1>4 DEF NoRenewal
<1>6. WritesFreshFor(n)' /\ RenewalCoveredFor(n)'
    BY <1>5 DEF WritesFreshFor, RenewalCoveredFor
<1>7. \A s \in SlotsOf(n) \ unsaved[n] : req[n].left =< slot[s].left + Slow
    BY <1>1, AtNode DEF RenewalCoveredFor
<1>8. run[n] # {} => req[n].left >= Skew[n] - Period
  <2>1. run[n] # {} => Skew[n] =< Lease
      BY AtNode DEF TimelyAt
  <2>2. /\ req[n].left \in Int /\ Skew[n] \in Int /\ Period \in Nat /\ Lease \in Nat
      BY <1>3, Bounds, LeaseAssumption
  <2> QED
      BY <1>2, <1>3, <2>1, <2>2
<1>9. \A s \in req[n].ids \ (taken \union unsaved[n]) :
        s \in run[n] => s \in SlotsOf(n) \/ req[n].left < Slow - Margin
    BY <1>1, AtNode DEF AnswerCoveredFor
<1>10. node' \in [Nodes -> NodeRecord]
    BY <1>1 DEF IInv, TypeOK
<1>11. wrk[n].pc # "apply" /\ req'[n].pc # "answer"
    BY <1>2, <1>5
<1> QED
    BY <1>1, <1>2, <1>3, <1>4, <1>5, <1>6, <1>7, <1>8, <1>9, <1>10, <1>11, DecisionStep

\* Stops and starts keep the invariant.
LEMMA ApplyStep ==
  ASSUME IInv, NEW n \in Nodes, NEW s \in Slots, Stop(n, s) \/ Start(n, s) \/ StartFails(n, s)
  PROVE  IInv'
<1>0. /\ slot' = slot /\ node' = node /\ target' = target /\ mgr' = mgr /\ req' = req
      /\ taken' = taken /\ unsaved' = unsaved /\ events' = events
    BY DEF Stop, Start, StartFails
<1>1. /\ wrk' \in [Nodes -> Workers] /\ run' \in [Nodes -> SUBSET Slots]
      /\ \A m \in Nodes : m # n => wrk'[m] = wrk[m] /\ run'[m] = run[m]
      /\ wrk'[n].up = wrk[n].up /\ wrk'[n].turn = wrk[n].turn
      /\ wrk'[n].assigned = wrk[n].assigned
      /\ wrk[n].pc = "apply" /\ wrk'[n].pc \in {"apply", "sleep"}
      /\ wrk'[n].pc # "apply" => wrk'[n].stop = {} /\ wrk'[n].start = {}
      /\ \/ wrk'[n].left = wrk[n].left
         \/ wrk'[n].assigned = {} /\ run'[n] = {} /\ wrk'[n].start = {}
      /\ \/ /\ s \in wrk[n].stop /\ run'[n] = run[n] \ {s}
            /\ wrk'[n].stop = wrk[n].stop \ {s} /\ wrk'[n].start = wrk[n].start
         \/ /\ wrk[n].stop = {} /\ s \in wrk[n].start /\ s \in SlotsOf(n)
            /\ run'[n] = run[n] \union {s}
            /\ wrk'[n].stop = {} /\ wrk'[n].start = wrk[n].start \ {s}
         \/ /\ wrk[n].stop = {} /\ s \in wrk[n].start /\ run'[n] = run[n]
            /\ wrk'[n].stop = {} /\ wrk'[n].start = wrk[n].start \ {s}
    BY ApplyEffect DEF IInv
<1>2. TypeOK'
    BY <1>0, <1>1 DEF IInv, TypeOK
<1>3. SlotsOf(n)' = SlotsOf(n)
    BY <1>0 DEF SlotsOf, Kept
<1>4. wrk[n].up
    BY <1>1, AtNode DEF PhaseOf, Fresh
<1>5. PhaseOf(n)'
  <2>1. wrk'[n].start \subseteq wrk'[n].assigned
      BY <1>1, AtNode DEF PhaseOf
  <2>2. wrk'[n].up
      BY <1>1, <1>4
  <2> QED
      BY <1>1, <2>1, <2>2 DEF PhaseOf
<1>6. HeardBy(n)'
    BY <1>0, <1>1, AtNode DEF HeardBy
<1>7. TimelyAt(n)'
  <2> SUFFICES ASSUME run'[n] \union wrk'[n].start # {}
               PROVE  /\ Skew[n] =< Lease
                      /\ \/ wrk'[n].left >= Skew[n] - wrk'[n].turn
                         \/ /\ run'[n] \subseteq wrk'[n].stop /\ wrk'[n].start = {}
                            /\ wrk'[n].left >= Skew[n] - Period - wrk'[n].turn
                            /\ wrk'[n].turn =< Grace
      BY DEF TimelyAt
  <2>1. wrk'[n].left = wrk[n].left
      BY <1>1
  <2>2. run[n] \union wrk[n].start # {}
      BY <1>1
  <2>3. wrk[n].start = {} => run'[n] = run[n] \ {s} /\ wrk'[n].stop = wrk[n].stop \ {s}
      BY <1>1
  <2>4. wrk[n].start = {} => wrk'[n].start = {}
      BY <1>1
  <2> QED
      BY <1>1, <2>1, <2>2, <2>3, <2>4, AtNode DEF TimelyAt
<1>8. WritesFreshFor(n)' /\ RenewalCoveredFor(n)' /\ AnswerCoveredFor(n)'
    BY <1>0, <1>3, AtNode DEF WritesFreshFor, RenewalCoveredFor, AnswerCoveredFor
<1>9. WorkerCoveredAt(n)'
  <2> SUFFICES ASSUME NEW u \in SlotsOf(n) \ unsaved[n], wrk'[n].assigned \union run'[n] # {}
               PROVE  wrk'[n].left =< slot[u].left + Slow
      BY <1>0, <1>3 DEF WorkerCoveredAt, Free
  <2>1. wrk'[n].left = wrk[n].left
      BY <1>1
  <2>2. wrk[n].assigned \union run[n] # {}
      BY <1>1, AtNode DEF PhaseOf
  <2> QED
      BY <2>1, <2>2, AtNode DEF WorkerCoveredAt, Free
<1>10. LostAt(n)'
  <2> SUFFICES ASSUME NEW u \in run'[n] \ (taken \union unsaved[n])
               PROVE  u \in SlotsOf(n) \/ wrk'[n].left < Slow - Margin \/ u \in wrk'[n].stop
      BY <1>0, <1>3 DEF LostAt
  <2>1. wrk'[n].left = wrk[n].left
      BY <1>1
  <2>2. CASE u \in run[n]
    <3>1. u \in SlotsOf(n) \/ wrk[n].left < Slow - Margin \/ u \in wrk[n].stop
        BY <2>2, AtNode DEF LostAt
    <3> QED
        BY <1>1, <2>1, <3>1
  <2>3. CASE u \notin run[n]
      BY <1>1, <2>3
  <2> QED
      BY <2>2, <2>3
<1>11. \A m \in Nodes : m # n => wrk'[m] = wrk[m] /\ run'[m] = run[m] /\ req'[m] = req[m]
    BY <1>0, <1>1
<1> QED
    BY <1>0, <1>2, <1>5, <1>6, <1>7, <1>8, <1>9, <1>10, <1>11, LocalStep

\* A node that is down or comes up has nothing to keep.
LEMMA HostStep ==
  ASSUME IInv, NEW n \in Nodes, NodeDown(n) \/ NodeUp(n)
  PROVE  IInv'
<1>0. slot' = slot /\ target' = target /\ mgr' = mgr /\ taken' = taken /\ unsaved' = unsaved
    BY DEF NodeDown, NodeUp
<1>1. /\ wrk' \in [Nodes -> Workers] /\ \A m \in Nodes : m # n => wrk'[m] = wrk[m]
      /\ \/ NodeDown(n) /\ wrk'[n] = Fresh(FALSE)
         \/ NodeUp(n) /\ wrk'[n] = Fresh(TRUE)
  <2>1. \/ NodeDown(n) /\ wrk' = [wrk EXCEPT ![n] = Fresh(FALSE)]
        \/ NodeUp(n) /\ wrk' = [wrk EXCEPT ![n] = Fresh(TRUE)]
      BY DEF NodeDown, NodeUp
  <2> QED
      BY <2>1, IdleTypes DEF IInv, TypeOK
<1>2. /\ run' \in [Nodes -> SUBSET Slots] /\ run'[n] = {}
      /\ \A m \in Nodes : m # n => run'[m] = run[m]
  <2>1. CASE NodeDown(n)
      BY <2>1 DEF NodeDown, IInv, TypeOK
  <2>2. CASE NodeUp(n)
    <3>1. run' = run /\ ~wrk[n].up
        BY <2>2 DEF NodeUp
    <3> QED
        BY <3>1, AtNode DEF PhaseOf, IInv, TypeOK
  <2> QED
      BY <2>1, <2>2
<1>3. /\ req' \in [Nodes -> Renewals] /\ \A m \in Nodes : m # n => req'[m] = req[m]
      /\ ~req'[n].heard /\ req'[n].pc # "answer"
      /\ WritesFreshFor(n)' /\ RenewalCoveredFor(n)'
  <2>1. CASE NodeDown(n)
    <3>1. req' = [req EXCEPT ![n] = Unheard(req[n])]
        BY <2>1 DEF NodeDown
    <3> QED
        BY <1>0, <3>1, GivenUp
  <2>2. CASE NodeUp(n)
    <3>1. req' = req /\ ~wrk[n].up
        BY <2>2 DEF NodeUp
    <3>2. ~req[n].heard /\ req[n].pc # "answer"
        BY <3>1, AtNode DEF HeardBy
    <3>3. SlotsOf(n)' = SlotsOf(n)
        BY <1>0 DEF SlotsOf, Kept
    <3>4. WritesFreshFor(n)' /\ RenewalCoveredFor(n)'
        BY <1>0, <3>1, <3>3, AtNode DEF WritesFreshFor, RenewalCoveredFor
    <3>5. req' \in [Nodes -> Renewals]
        BY <3>1 DEF IInv, TypeOK
    <3> QED
        BY <3>1, <3>2, <3>4, <3>5
  <2> QED
      BY <2>1, <2>2
<1>4. node' \in [Nodes -> NodeRecord]
    BY IdleTypes DEF NodeDown, NodeUp, IInv, TypeOK
<1>5. events' \in 0 .. MaxEvents
  <2>1. events' = events \/ Event
      BY DEF NodeDown, NodeUp
  <2> QED
      BY <2>1, LeaseAssumption DEF Event, IInv, TypeOK
<1>6. TypeOK'
    BY <1>0, <1>1, <1>2, <1>3, <1>4, <1>5 DEF IInv, TypeOK
<1>7. /\ wrk'[n].stop = {} /\ wrk'[n].start = {} /\ wrk'[n].assigned = {}
      /\ wrk'[n].up \/ wrk'[n] = Fresh(FALSE)
  <2>1. Fresh(TRUE).up
      BY DEF Fresh
  <2> QED
      BY <1>1, <2>1 DEF Fresh
<1>8. PhaseOf(n)' /\ HeardBy(n)' /\ TimelyAt(n)' /\ AnswerCoveredFor(n)' /\ LostAt(n)'
    BY <1>2, <1>3, <1>7 DEF PhaseOf, HeardBy, TimelyAt, AnswerCoveredFor, LostAt
<1>9. WorkerCoveredAt(n)'
    BY <1>2, <1>7 DEF WorkerCoveredAt, Free
<1> QED
    BY <1>0, <1>1, <1>2, <1>3, <1>6, <1>8, <1>9, LocalStep

\* A process that ends by itself, or is held off no longer.
LEMMA ReapStep ==
  ASSUME IInv, NEW n \in Nodes, NEW s \in Slots, ProcessExits(n, s) \/ HoldOver(n, s)
  PROVE  IInv'
<1>0. /\ slot' = slot /\ node' = node /\ target' = target /\ mgr' = mgr /\ req' = req
      /\ taken' = taken /\ unsaved' = unsaved
    BY DEF ProcessExits, HoldOver
<1>1. \E h \in SUBSET Slots : wrk' = [wrk EXCEPT ![n] = [wrk[n] EXCEPT !.held = h]]
  <2>1. wrk[n].held \union {s} \in SUBSET Slots /\ wrk[n].held \ {s} \in SUBSET Slots
      BY AtNode DEF Workers
  <2>2. \/ wrk' = [wrk EXCEPT ![n] = [wrk[n] EXCEPT !.held = wrk[n].held \union {s}]]
        \/ wrk' = [wrk EXCEPT ![n] = [wrk[n] EXCEPT !.held = wrk[n].held \ {s}]]
      BY DEF ProcessExits, HoldOver
  <2> QED
      BY <2>1, <2>2
<1>2. PICK h \in SUBSET Slots : wrk' = [wrk EXCEPT ![n] = [wrk[n] EXCEPT !.held = h]]
    BY <1>1
<1>3. /\ wrk' \in [Nodes -> Workers] /\ \A m \in Nodes : m # n => wrk'[m] = wrk[m]
      /\ wrk'[n].up = wrk[n].up /\ wrk'[n].pc = wrk[n].pc /\ wrk'[n].turn = wrk[n].turn
      /\ wrk'[n].assigned = wrk[n].assigned /\ wrk'[n].left = wrk[n].left
      /\ wrk'[n].stop = wrk[n].stop /\ wrk'[n].start = wrk[n].start
  <2> DEFINE w == [wrk[n] EXCEPT !.held = h]
  <2>1. /\ w \in Workers /\ w.up = wrk[n].up /\ w.pc = wrk[n].pc /\ w.turn = wrk[n].turn
        /\ w.assigned = wrk[n].assigned /\ w.left = wrk[n].left
        /\ w.stop = wrk[n].stop /\ w.start = wrk[n].start
      BY AtNode DEF Workers
  <2> HIDE DEF w
  <2>2. wrk' = [wrk EXCEPT ![n] = w]
      BY <1>2 DEF w
  <2> QED
      BY <2>1, <2>2 DEF IInv, TypeOK
<1>4. /\ run' \in [Nodes -> SUBSET Slots] /\ run'[n] \subseteq run[n]
      /\ \A m \in Nodes : m # n => run'[m] = run[m]
    BY DEF ProcessExits, HoldOver, IInv, TypeOK
<1>5. events' \in 0 .. MaxEvents
  <2>1. events' = events \/ Event
      BY DEF ProcessExits, HoldOver
  <2> QED
      BY <2>1, LeaseAssumption DEF Event, IInv, TypeOK
<1>6. TypeOK'
    BY <1>0, <1>3, <1>4, <1>5 DEF IInv, TypeOK
<1>7. wrk[n].up
  <2>1. ~wrk[n].up => run[n] = {} /\ wrk[n].held = {}
      BY AtNode DEF PhaseOf, Fresh
  <2> QED
      BY <2>1 DEF ProcessExits, HoldOver
<1>8. SlotsOf(n)' = SlotsOf(n)
    BY <1>0 DEF SlotsOf, Kept
<1>9. PhaseOf(n)' /\ HeardBy(n)'
  <2>1. wrk'[n].up
      BY <1>3, <1>7
  <2> QED
      BY <1>0, <1>3, <2>1, AtNode DEF PhaseOf, HeardBy
<1>10. TimelyAt(n)' /\ LostAt(n)'
    BY <1>0, <1>3, <1>4, <1>8, AtNode DEF TimelyAt, LostAt
<1>11. WritesFreshFor(n)' /\ RenewalCoveredFor(n)' /\ AnswerCoveredFor(n)'
    BY <1>0, <1>8, AtNode DEF WritesFreshFor, RenewalCoveredFor, AnswerCoveredFor
<1>12. WorkerCoveredAt(n)'
    BY <1>0, <1>3, <1>4, <1>8, AtNode DEF WorkerCoveredAt, Free
<1>13. \A m \in Nodes : m # n => wrk'[m] = wrk[m] /\ run'[m] = run[m] /\ req'[m] = req[m]
    BY <1>0, <1>3, <1>4
<1> QED
    BY <1>0, <1>6, <1>9, <1>10, <1>11, <1>12, <1>13, LocalStep

-----------------------------------------------------------------------------
\* Time passes

\* Time changes ages, leases and deadlines, nothing else.
LEMMA TickEffect ==
  ASSUME IInv, Tick
  PROVE  /\ TypeOK'
         /\ taken' = taken /\ unsaved' = unsaved /\ run' = run
         /\ HeldSlots' = HeldSlots /\ \A n \in Nodes : SlotsOf(n)' = SlotsOf(n)
         /\ \A s \in HeldSlots : slot'[s].left = Less(slot[s].left)
         /\ mgr'.expired = mgr.expired /\ mgr'.pc = mgr.pc
         /\ mgr'.age = IF mgr.pc # "idle" THEN mgr.age + 1 ELSE mgr.age
         /\ \A n \in Nodes :
              /\ req'[n].pc = req[n].pc /\ req'[n].ids = req[n].ids /\ req'[n].heard = req[n].heard
              /\ req[n].pc # "idle" => req'[n].left = Less(req[n].left)
              /\ req[n].pc = "idle" => req'[n].left = req[n].left
              /\ ~wrk[n].up => wrk'[n] = wrk[n]
              /\ wrk[n].up => /\ wrk'[n].turn = wrk[n].turn + 1
                             /\ wrk'[n].left = IF Free(n) THEN wrk[n].left ELSE Less(wrk[n].left)
              /\ wrk'[n].up = wrk[n].up /\ wrk'[n].pc = wrk[n].pc
              /\ wrk'[n].assigned = wrk[n].assigned
              /\ wrk'[n].stop = wrk[n].stop /\ wrk'[n].start = wrk[n].start
<1>0. /\ TypeOK /\ InTime /\ target' = target /\ run' = run /\ taken' = taken
      /\ unsaved' = unsaved /\ events' = events
    BY DEF IInv, Tick
<1>1. ASSUME NEW s \in Slots
      PROVE  /\ slot'[s] \in SlotRecord /\ slot'[s].is = slot[s].is /\ slot'[s].at = slot[s].at
             /\ s \in HeldSlots => slot'[s].left = Less(slot[s].left)
  <2>1. slot[s] \in SlotRecord /\ slot[s].left \in Left
      BY <1>0, FieldTypes DEF SlotRecord
  <2>2. Less(slot[s].left) \in Left
      BY <2>1, Bounds
  <2>3. slot'[s] = IF s \in HeldSlots THEN [slot[s] EXCEPT !.left = Less(slot[s].left)] ELSE slot[s]
      BY DEF Tick
  <2> QED
      BY <2>1, <2>2, <2>3 DEF SlotRecord
<1>2. /\ slot' \in [Slots -> SlotRecord]
      /\ HeldSlots' = HeldSlots /\ \A n \in Nodes : SlotsOf(n)' = SlotsOf(n)
  <2>1. slot' = [s \in Slots |-> slot'[s]]
      BY DEF Tick
  <2> QED
      BY <1>1, <2>1 DEF HeldSlots, SlotsOf, Kept
<1>3. node' \in [Nodes -> NodeRecord]
  <2>1. ASSUME NEW n \in Nodes
        PROVE  node'[n] \in NodeRecord
    <3>1. node[n] \in NodeRecord /\ node[n].ago \in 0 .. Lease + Slow + 1
        BY <1>0, FieldTypes DEF NodeRecord
    <3>2. More(node[n].ago) \in 0 .. Lease + Slow + 1
        BY <3>1, Bounds
    <3>3. node'[n] = IF node[n].known THEN [node[n] EXCEPT !.ago = More(node[n].ago)] ELSE node[n]
        BY DEF Tick
    <3> QED
        BY <3>1, <3>2, <3>3 DEF NodeRecord
  <2>2. node' = [n \in Nodes |-> node'[n]]
      BY DEF Tick
  <2> QED
      BY <2>1, <2>2
<1>4. /\ mgr' \in Passes /\ mgr'.expired = mgr.expired /\ mgr'.pc = mgr.pc
      /\ mgr'.age = IF mgr.pc # "idle" THEN mgr.age + 1 ELSE mgr.age
  <2>1. mgr \in Passes /\ mgr.age \in 0 .. Slow
      BY <1>0, FieldTypes DEF Passes
  <2>2. mgr.pc # "idle" => mgr.age + 1 \in 0 .. Slow
    <3>1. mgr.pc # "idle" => mgr.age < Slow
        BY <1>0 DEF InTime
    <3>2. Slow \in Nat
        BY LeaseAssumption
    <3> QED
        BY <2>1, <3>1, <3>2
  <2>3. mgr' = IF mgr.pc # "idle" THEN [mgr EXCEPT !.age = mgr.age + 1] ELSE mgr
      BY DEF Tick
  <2> QED
      BY <2>1, <2>2, <2>3 DEF Passes
<1>5. ASSUME NEW n \in Nodes
      PROVE  /\ req'[n] \in Renewals
             /\ req'[n].pc = req[n].pc /\ req'[n].ids = req[n].ids /\ req'[n].heard = req[n].heard
             /\ req[n].pc # "idle" => req'[n].left = Less(req[n].left)
             /\ req[n].pc = "idle" => req'[n].left = req[n].left
  <2>1. req[n] \in Renewals /\ req[n].left \in Left
      BY <1>0, FieldTypes DEF Renewals
  <2>2. Less(req[n].left) \in Left
      BY <2>1, Bounds
  <2>3. req'[n] = IF req[n].pc # "idle" THEN [req[n] EXCEPT !.left = Less(req[n].left)] ELSE req[n]
      BY DEF Tick
  <2> QED
      BY <2>1, <2>2, <2>3 DEF Renewals
<1>6. req' \in [Nodes -> Renewals]
  <2>1. req' = [n \in Nodes |-> req'[n]]
      BY DEF Tick
  <2> QED
      BY <1>5, <2>1
<1>7. ASSUME NEW n \in Nodes
      PROVE  /\ wrk'[n] \in Workers
             /\ ~wrk[n].up => wrk'[n] = wrk[n]
             /\ wrk[n].up => /\ wrk'[n].turn = wrk[n].turn + 1
                            /\ wrk'[n].left = IF Free(n) THEN wrk[n].left ELSE Less(wrk[n].left)
             /\ wrk'[n].up = wrk[n].up /\ wrk'[n].pc = wrk[n].pc
             /\ wrk'[n].assigned = wrk[n].assigned
             /\ wrk'[n].stop = wrk[n].stop /\ wrk'[n].start = wrk[n].start
  <2> DEFINE l == IF Free(n) THEN wrk[n].left ELSE Less(wrk[n].left)
             w == [wrk[n] EXCEPT !.turn = wrk[n].turn + 1, !.left = l]
  <2>1. wrk[n] \in Workers /\ wrk[n].left \in Left /\ wrk[n].turn \in 0 .. Period
      BY <1>0, FieldTypes DEF Workers
  <2>2. l \in Left
      BY <2>1, Bounds
  <2>3. wrk[n].up => wrk[n].turn + 1 \in 0 .. Period
    <3>1. wrk[n].up => wrk[n].turn < IF wrk[n].stop # {} THEN Grace ELSE Period
        BY <1>0 DEF InTime
    <3>2. Period \in Nat /\ Grace \in Nat /\ Grace =< Period
        BY LeaseAssumption
    <3> QED
        BY <2>1, <3>1, <3>2
  <2>4. /\ wrk[n].up => wrk'[n] = w
        /\ ~wrk[n].up => wrk'[n] = wrk[n]
      BY DEF Tick
  <2> HIDE DEF l
  <2>5. wrk[n].up => /\ w \in Workers /\ w.turn = wrk[n].turn + 1 /\ w.left = l
                     /\ w.up = wrk[n].up /\ w.pc = wrk[n].pc /\ w.assigned = wrk[n].assigned
                     /\ w.stop = wrk[n].stop /\ w.start = wrk[n].start
      BY <2>1, <2>2, <2>3 DEF Workers
  <2> HIDE DEF w
  <2> QED
      BY <2>1, <2>4, <2>5 DEF l
<1>8. wrk' \in [Nodes -> Workers]
  <2>1. wrk' = [n \in Nodes |-> wrk'[n]]
      BY DEF Tick
  <2> QED
      BY <1>7, <2>1
<1>9. TypeOK'
    BY <1>0, <1>2, <1>3, <1>4, <1>6, <1>8 DEF TypeOK
<1>10. HeldSlots \subseteq Slots
    BY DEF HeldSlots, Kept
<1> QED
    BY <1>0, <1>1, <1>2, <1>4, <1>5, <1>7, <1>9, <1>10

\* Two times that both pass keep their distance.
LEMMA LessKeeps ==
  \A l, k \in Left : l =< k + Slow => Less(l) =< Less(k) + Slow
BY LeaseAssumption DEF Left, Less

\* Time keeps the invariant: master and worker count down together, but for the skew.
LEMMA TickStep ==
  ASSUME IInv, Tick
  PROVE  IInv'
<1>0. /\ Lease \in Nat /\ Slow \in Nat /\ Margin \in Nat /\ Period \in Nat /\ Grace \in Nat
      /\ \A n \in Nodes : Skew[n] \in Int
    BY LeaseAssumption
<1>1. \A s \in HeldSlots : /\ slot[s].left \in Left /\ slot'[s].left = Less(slot[s].left)
                          /\ slot[s].left \in Int /\ slot'[s].left \in Int
                          /\ slot'[s].left =< slot[s].left /\ slot'[s].left >= slot[s].left - 1
  <2>1. \A s \in HeldSlots : slot[s].left \in Left /\ slot'[s].left = Less(slot[s].left)
      BY TickEffect, FieldTypes DEF IInv, SlotRecord
  <2>2. \A l \in Left : l \in Int /\ Less(l) \in Int /\ Less(l) =< l /\ Less(l) >= l - 1
      BY Bounds
  <2> QED
      BY <2>1, <2>2
<1>2. ExpiredOrRenewed'
  <2> SUFFICES ASSUME NEW s \in mgr.expired, s \in HeldSlots
               PROVE  slot'[s].left < 0 - Margin \/ slot'[s].left >= Lease - Slow - mgr'.age
      BY TickEffect DEF IInv, ExpiredOrRenewed
  <2>1. /\ mgr.pc # "idle"
        /\ slot[s].left < 0 - Margin \/ slot[s].left >= Lease - Slow - mgr.age
      BY DEF IInv, ExpiredOrRenewed
  <2>2. mgr.age \in Int /\ mgr'.age = mgr.age + 1
      BY <1>0, <2>1, FieldTypes, TickEffect DEF IInv, Passes
  <2> QED
      BY <1>0, <1>1, <2>1, <2>2
<1>3. ASSUME NEW n \in Nodes
      PROVE  /\ PhaseOf(n)' /\ HeardBy(n)' /\ TimelyAt(n)' /\ WritesFreshFor(n)'
             /\ RenewalCoveredFor(n)' /\ WorkerCoveredAt(n)' /\ AnswerCoveredFor(n)' /\ LostAt(n)'
  <2>0. /\ SlotsOf(n)' = SlotsOf(n) /\ SlotsOf(n) \subseteq HeldSlots
        /\ run' = run /\ taken' = taken /\ unsaved' = unsaved
        /\ req'[n].pc = req[n].pc /\ req'[n].ids = req[n].ids /\ req'[n].heard = req[n].heard
        /\ wrk'[n].up = wrk[n].up /\ wrk'[n].pc = wrk[n].pc /\ wrk'[n].assigned = wrk[n].assigned
        /\ wrk'[n].stop = wrk[n].stop /\ wrk'[n].start = wrk[n].start
        /\ ~wrk[n].up => wrk'[n] = wrk[n]
      BY TickEffect, FieldTypes DEF IInv
  <2>1. /\ req[n].left \in Left /\ req[n].left \in Int /\ req'[n].left \in Int
        /\ req[n].pc # "idle" =>
             /\ req'[n].left = Less(req[n].left)
             /\ req'[n].left =< req[n].left /\ req'[n].left >= req[n].left - 1
    <3>1. req[n].left \in Left
        BY AtNode DEF Renewals
    <3>2. /\ req[n].pc # "idle" => req'[n].left = Less(req[n].left)
          /\ req[n].pc = "idle" => req'[n].left = req[n].left
        BY TickEffect
    <3>3. \A l \in Left : l \in Int /\ Less(l) \in Int /\ Less(l) =< l /\ Less(l) >= l - 1
        BY Bounds
    <3> QED
        BY <3>1, <3>2, <3>3
  <2>2. /\ wrk[n].left \in Left /\ wrk[n].left \in Int /\ wrk'[n].left \in Int
        /\ wrk'[n].left =< wrk[n].left /\ wrk'[n].left >= wrk[n].left - 1
        /\ ~Free(n) => wrk[n].up /\ wrk'[n].left = Less(wrk[n].left)
        /\ wrk[n].turn \in Int
        /\ wrk[n].up => wrk'[n].turn = wrk[n].turn + 1
    <3>1. wrk[n].left \in Left /\ wrk[n].turn \in Int
        BY <1>0, AtNode DEF Workers
    <3>2. /\ wrk[n].up => /\ wrk'[n].turn = wrk[n].turn + 1
                          /\ wrk'[n].left = IF Free(n) THEN wrk[n].left ELSE Less(wrk[n].left)
          /\ ~wrk[n].up => wrk'[n].left = wrk[n].left
        BY TickEffect
    <3>3. \A l \in Left : l \in Int /\ Less(l) \in Int /\ Less(l) =< l /\ Less(l) >= l - 1
        BY Bounds
    <3>4. ~wrk[n].up => Free(n)
        BY AtNode DEF PhaseOf, Fresh, Free
    <3> QED
        BY <3>1, <3>2, <3>3, <3>4
  <2>3. Free(n)' = Free(n)
      BY <2>0 DEF Free
  <2>4. PhaseOf(n)'
      BY <2>0, AtNode DEF PhaseOf
  <2>5. HeardBy(n)'
    <3>1. CASE req[n].heard
      <4>1. wrk[n].up /\ wrk[n].pc = "renew" /\ req[n].left >= Lease - wrk[n].turn
          BY <3>1, AtNode DEF HeardBy
      <4>2. req'[n].left >= req[n].left - 1
          BY <2>1, TickEffect
      <4>3. req'[n].left >= Lease - wrk'[n].turn
          BY <1>0, <2>1, <2>2, <4>1, <4>2
      <4> QED
          BY <2>0, <3>1, <4>1, <4>3 DEF HeardBy
    <3>2. CASE ~req[n].heard
        BY <2>0, <3>2, AtNode DEF HeardBy
    <3> QED
        BY <3>1, <3>2
  <2>6. TimelyAt(n)'
    <3> SUFFICES ASSUME run[n] \union wrk[n].start # {}
                 PROVE  /\ Skew[n] =< Lease
                        /\ \/ wrk'[n].left >= Skew[n] - wrk'[n].turn
                           \/ /\ run[n] \subseteq wrk[n].stop /\ wrk[n].start = {}
                              /\ wrk'[n].left >= Skew[n] - Period - wrk'[n].turn
                              /\ wrk'[n].turn =< Grace
        BY <2>0 DEF TimelyAt
    <3>1. ~Free(n)
        BY AtNode DEF PhaseOf, Free
    <3>2. wrk[n].up /\ wrk'[n].turn = wrk[n].turn + 1
        BY <2>2, <3>1
    <3>3. TimelyAt(n)
        BY AtNode
    <3>4. CASE wrk[n].left >= Skew[n] - wrk[n].turn
        BY <1>0, <2>2, <3>2, <3>3, <3>4 DEF TimelyAt
    <3>5. CASE /\ run[n] \subseteq wrk[n].stop /\ wrk[n].start = {}
               /\ wrk[n].left >= Skew[n] - Period - wrk[n].turn
      <4>1. wrk[n].stop # {}
          BY <3>5
      <4>2. wrk[n].turn < Grace
          BY <3>2, <4>1 DEF Tick, InTime
      <4>3. wrk'[n].left >= Skew[n] - Period - wrk'[n].turn /\ wrk'[n].turn =< Grace
          BY <1>0, <2>2, <3>2, <3>5, <4>2
      <4>4. Skew[n] =< Lease
          BY <3>3 DEF TimelyAt
      <4> QED
          BY <3>5, <4>3, <4>4
    <3> QED
        BY <3>3, <3>4, <3>5 DEF TimelyAt
  <2>7. WritesFreshFor(n)'
    <3>1. req[n].pc = "write" => Lease - req[n].left < Slow
        BY DEF Tick, InTime
    <3> QED
        BY <1>0, <2>0, <2>1, <3>1 DEF WritesFreshFor
  <2>8. RenewalCoveredFor(n)'
    <3> SUFFICES ASSUME NEW u \in SlotsOf(n) \ unsaved[n], req[n].pc # "idle",
                        ~(req[n].pc = "write" /\ u \in req[n].ids)
                 PROVE  req'[n].left =< slot'[u].left + Slow
        BY <2>0 DEF RenewalCoveredFor
    <3>1. req[n].left =< slot[u].left + Slow
        BY AtNode DEF RenewalCoveredFor
    <3>2. u \in HeldSlots
        BY <2>0
    <3> QED
        BY <1>1, <2>1, <3>1, <3>2, LessKeeps
  <2>9. WorkerCoveredAt(n)'
    <3> SUFFICES ASSUME NEW u \in SlotsOf(n) \ unsaved[n], ~Free(n)
                 PROVE  wrk'[n].left =< slot'[u].left + Slow
        BY <2>0, <2>3 DEF WorkerCoveredAt
    <3>1. wrk[n].left =< slot[u].left + Slow
        BY AtNode DEF WorkerCoveredAt
    <3>2. u \in HeldSlots
        BY <2>0
    <3> QED
        BY <1>1, <2>2, <3>1, <3>2, LessKeeps
  <2>10. AnswerCoveredFor(n)' /\ LostAt(n)'
    <3>1. AnswerCoveredFor(n)'
      <4>1. AnswerCoveredFor(n)
          BY AtNode
      <4> SUFFICES ASSUME req[n].pc = "answer",
                          NEW s \in req[n].ids \ (taken \union unsaved[n])
                   PROVE  s \in SlotsOf(n) \/ req'[n].left < Slow - Margin
          BY <2>0 DEF AnswerCoveredFor
      <4>2. s \in SlotsOf(n) \/ req[n].left < Slow - Margin
          BY <4>1 DEF AnswerCoveredFor
      <4>3. req'[n].left =< req[n].left
          BY <2>1
      <4> QED
          BY <1>0, <2>1, <4>2, <4>3
    <3>2. LostAt(n)'
        BY <1>0, <2>0, <2>2, AtNode DEF LostAt
    <3> QED
        BY <3>1, <3>2
  <2> QED
      BY <2>4, <2>5, <2>6, <2>7, <2>8, <2>9, <2>10
<1>4. Phases' /\ Heard' /\ Timely' /\ WritesFresh'
    BY <1>3 DEF Phases, Heard, Timely, WritesFresh
<1>5. RenewalCovered' /\ WorkerCovered' /\ AnswerCovered'
    BY <1>3 DEF RenewalCovered, WorkerCovered, AnswerCovered
<1>6. LostOnlyOverdue'
    BY <1>3 DEF LostOnlyOverdue, LostAt
<1> QED
    BY <1>2, <1>4, <1>5, <1>6, TickEffect DEF IInv

-----------------------------------------------------------------------------
\* The invariant, and what it says of the code

\* Every step keeps the invariant.
LEMMA InvStep == IInv /\ [Next]_vars => IInv'
<1> SUFFICES ASSUME IInv, [Next]_vars
             PROVE  IInv'
    OBVIOUS
<1>1. ASSUME NEW s \in Slots, Handing(s)
      PROVE  IInv'
    BY <1>1, HandingStep
<1>2. CASE Applications
    BY <1>1, <1>2, ManagingStep DEF Applications, Handing, Managing
<1>3. CASE Leases
    BY <1>1, <1>3, ManagingStep DEF Leases, Handing, Managing
<1>4. CASE PassFails
    BY <1>4, ManagingStep DEF Managing
<1>5. ASSUME NEW n \in Nodes, Renewal(n)
      PROVE  IInv'
    BY <1>5, RenewAnswerStep, RenewAnswerEmptyStep, RenewWriteStep, RenewWriteFailsStep DEF Renewal
<1>6. ASSUME NEW n \in Nodes, Worker(n)
      PROVE  IInv'
    BY <1>6, RenewSendStep, RenewSucceedsStep, RenewFailsStep, RenewUnknownStep, ApplyStep DEF Worker
<1>7. ASSUME NEW n \in Nodes, Host(n)
      PROVE  IInv'
    BY <1>7, HostStep, ReapStep DEF Host
<1>8. CASE Operator
    BY <1>1, <1>8, OperatingStep DEF Operator, Handing, Operating
<1>9. CASE Tick
    BY <1>9, TickStep
<1>10. CASE UNCHANGED vars
  <2>1. TypeOK'
      BY <1>10 DEF vars, IInv, TypeOK
  <2> QED
      BY <1>10, <2>1, FrameStep DEF vars
<1> QED
    BY <1>2, <1>3, <1>4, <1>5, <1>6, <1>7, <1>8, <1>9, <1>10 DEF Next

\* The invariant always holds.
LEMMA InvAlways == Spec => []IInv
BY InitInv, InvStep, PTL DEF Spec

\* Every record keeps its type: a deadline never leaves the range it is counted
\* in, however the manager, the renewals and the workers interleave.
THEOREM TypeCorrect == Spec => []TypeOK
<1>1. IInv => TypeOK
    BY DEF IInv
<1> QED
    BY <1>1, InvAlways, PTL

\* Worker::loop() stops what it runs by its own clock: no process outlives the
\* deadline its worker knows by more than a turn of the loop and the grace of a
\* stop, for any lease and any clocks.
THEOREM OwnClock == Spec => []StopsOnItsOwn
<1>1. ASSUME IInv, NEW n \in Nodes, run[n] # {}
      PROVE  wrk[n].left >= Skew[n] - Period - Grace
  <2>1. /\ Period \in Nat /\ Grace \in Nat /\ Skew[n] \in Int
        /\ wrk[n].turn \in 0 .. Period
      BY <1>1, LeaseAssumption, AtNode DEF Workers
  <2>2. wrk[n].left \in Int
    <3>1. wrk[n].left \in Left
        BY <1>1, AtNode DEF Workers
    <3> QED
        BY <3>1, Bounds
  <2>3. TimelyAt(n)
      BY <1>1, AtNode
  <2>4. run[n] \union wrk[n].start # {}
      BY <1>1
  <2> QED
      BY <2>1, <2>2, <2>3, <2>4 DEF TimelyAt
<1>2. IInv => StopsOnItsOwn
    BY <1>1 DEF StopsOnItsOwn
<1> QED
    BY <1>2, InvAlways, PTL

\* reconcileNodeLeases() gives a slot away only when its node has let it go, as
\* far as the margin reaches, whatever renewal is under way at the time and
\* whichever of its writes fail: the only slots it may take from under a worker
\* that is within its deadline are those taken early and those whose renewal
\* renewInstanceLeases() could not write.
THEOREM LostSlots == Spec => []LostOnlyOverdue
<1>1. IInv => LostOnlyOverdue
    BY DEF IInv
<1> QED
    BY <1>1, InvAlways, PTL
=============================================================================
