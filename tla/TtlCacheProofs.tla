--------------------------- MODULE TtlCacheProofs ---------------------------
(***************************************************************************)
(* Proofs about TtlCache, for any number of keys, readers and writers, any *)
(* TTL and any bounds.                                                     *)
(***************************************************************************)
EXTENDS TtlCache, FiniteSetTheorems, TLAPS

\* Lookups and writes in progress have a key.
KeysKnown ==
    /\ \A r \in Readers : reader[r].pc # "idle" => reader[r].key \in Keys
    /\ \A w \in Writers : writer[w].pc # "idle" => writer[w].key \in Keys

TypeInv == TypeOK /\ KeysKnown

\* Ages stay within their bound.
LEMMA OlderType ==
    ASSUME NEW a \in 0..MaxAge
    PROVE  Older(a) \in 0..MaxAge /\ a <= Older(a)
BY CacheAssumption DEF Older

\* Initially every variable has its type.
LEMMA TypeInit == Init => TypeInv
<1> SUFFICES ASSUME Init PROVE TypeInv
    OBVIOUS
<1>1. 0 \in Versions /\ 0 \in 0..MaxAge /\ 0 \in Nat
    BY CacheAssumption DEF Versions
<1>2. NoLookup \in Lookups /\ NoWrite \in Writes
    BY <1>1 DEF NoLookup, NoWrite, Lookups, Writes
<1>3. TypeOK
    BY <1>1, <1>2 DEF Init, TypeOK, NoEntry
<1>4. KeysKnown
    BY DEF Init, KeysKnown, NoLookup, NoWrite
<1> QED
    BY <1>3, <1>4 DEF TypeInv

\* Every step of the cache keeps the types.
LEMMA TypeStep == TypeInv /\ [Next]_vars => TypeInv'
<1> SUFFICES ASSUME TypeInv, [Next]_vars PROVE TypeInv'
    OBVIOUS
<1> USE DEF TypeInv, TypeOK, KeysKnown
<1>0. 0 \in Versions /\ 0 \in 0..MaxAge /\ 0 \in Nat /\ NoEntry \in [ver : Versions, age : 0..MaxAge]
    BY CacheAssumption DEF Versions, NoEntry
<1>n. NoLookup \in Lookups /\ NoWrite \in Writes /\ NoLookup.pc = "idle" /\ NoWrite.pc = "idle"
    BY <1>0 DEF NoLookup, NoWrite, Lookups, Writes
<1>1. ASSUME NEW r \in Readers, NEW k \in Keys, Lookup(r, k)
      PROVE  TypeInv'
  <2>1. reader'[r] \in Lookups /\ reader'[r].key \in Keys
      BY <1>0, <1>1 DEF Lookup, Lookups
  <2>2. \A s \in Readers \ {r} : reader'[s] = reader[s]
      BY <1>1 DEF Lookup
  <2>3. reader' \in [Readers -> Lookups]
      BY <2>1, <2>2, <1>1 DEF Lookup
  <2> QED
      BY <2>1, <2>2, <2>3, <1>1 DEF Lookup
<1>2. ASSUME NEW r \in Readers, Load(r)
      PROVE  TypeInv'
  <2>0. reader[r] \in Lookups /\ reader[r].key \in Keys
      BY <1>2 DEF Load
  <2>a. row[reader[r].key].ver \in Versions /\ row[reader[r].key].there \in BOOLEAN
      BY <2>0
  <2>b. reader'[r] = [reader[r] EXCEPT !.pc = "store", !.ver = row[reader[r].key].ver,
                                       !.there = row[reader[r].key].there]
      BY <1>2 DEF Load
  <2>1. reader'[r] \in Lookups /\ reader'[r].key \in Keys
      BY ONLY <2>0, <2>a, <2>b DEF Lookups
  <2>2. \A s \in Readers \ {r} : reader'[s] = reader[s]
      BY <1>2 DEF Load
  <2>3. reader' \in [Readers -> Lookups]
      BY <2>1, <2>2, <1>2 DEF Load
  <2> QED
      BY <2>1, <2>2, <2>3, <1>2 DEF Load
<1>3. ASSUME NEW r \in Readers, Store(r)
      PROVE  TypeInv'
  <2>0. reader[r] \in Lookups /\ reader[r].key \in Keys
      BY <1>3 DEF Store
  <2>a. reader'[r] = [reader[r] EXCEPT !.pc = "done"]
      BY <1>3 DEF Store
  <2>1. reader'[r] \in Lookups /\ reader'[r].key \in Keys /\ reader[r].key \in Keys
      BY ONLY <2>0, <2>a DEF Lookups
  <2>2. \A s \in Readers \ {r} : reader'[s] = reader[s]
      BY <1>3 DEF Store
  <2>3. reader' \in [Readers -> Lookups]
      BY <2>1, <2>2, <1>3 DEF Store
  <2>4. Kept(reader[r]) \subseteq Keys
      BY DEF Kept
  <2>5. NewEntry(reader[r]) \in [ver : Versions, age : 0..MaxAge]
      BY ONLY <2>0 DEF NewEntry, Lookups
  <2>6. held' \subseteq Keys /\ entry' \in [Keys -> [ver : Versions, age : 0..MaxAge]]
    <3>1. CASE MayStore(reader[r])
      <4>1. /\ held' = Kept(reader[r]) \cup {reader[r].key}
            /\ entry' = [k \in Keys |-> IF k = reader[r].key THEN NewEntry(reader[r])
                              ELSE IF k \in Kept(reader[r]) THEN entry[k] ELSE NoEntry]
          BY ONLY <1>3, <3>1 DEF Store
      <4>2. entry \in [Keys -> [ver : Versions, age : 0..MaxAge]]
          OBVIOUS
      <4> QED
          BY ONLY <1>0, <2>1, <2>4, <2>5, <4>1, <4>2
    <3>2. CASE ~MayStore(reader[r])
      <4>1. UNCHANGED <<held, entry>>
          BY ONLY <1>3, <3>2 DEF Store
      <4> QED
          BY <4>1
    <3> QED
      BY <3>1, <3>2
  <2>7. \A s \in Readers : reader'[s].pc # "idle" => reader'[s].key \in Keys
      BY <2>1, <2>2
  <2>8. UNCHANGED <<row, generation, writer, forgotten, gone>>
      BY <1>3 DEF Store
  <2> QED
      BY <2>3, <2>6, <2>7, <2>8
<1>4. ASSUME NEW r \in Readers, Return(r)
      PROVE  TypeInv'
  <2>2. reader'[r] = NoLookup /\ \A s \in Readers \ {r} : reader'[s] = reader[s]
      BY <1>4 DEF Return
  <2>3. reader' \in [Readers -> Lookups]
      BY <2>2, <1>n, <1>4 DEF Return
  <2> QED
      BY <2>2, <2>3, <1>n, <1>4 DEF Return
<1>w. ASSUME NEW k \in Keys, NEW there \in BOOLEAN, WriteRow(k, there)
      PROVE  /\ row' \in [Keys -> [ver : Versions, there : BOOLEAN]]
             /\ row[k].ver + 1 \in Versions
  <2>1. row[k].ver \in 0..MaxWrites /\ row[k].ver < MaxWrites
      BY <1>w DEF WriteRow, Versions
  <2>2. row[k].ver + 1 \in Versions
      BY ONLY <2>1, CacheAssumption DEF Versions
  <2>3. [ver |-> row[k].ver + 1, there |-> there] \in [ver : Versions, there : BOOLEAN]
      BY ONLY <2>2, there \in BOOLEAN
  <2>4. row' = [row EXCEPT ![k] = [ver |-> row[k].ver + 1, there |-> there]]
      BY <1>w DEF WriteRow
  <2> QED
      BY <2>2, <2>3, <2>4
<1>f. ASSUME NEW S, Forget(S)
      PROVE  /\ held' \subseteq Keys /\ generation' \in Nat
             /\ entry' \in [Keys -> [ver : Versions, age : 0..MaxAge]]
      BY <1>0, <1>f DEF Forget, NextGeneration
<1>5. ASSUME NEW w \in Writers, NEW k \in Keys, Upsert(w, k)
      PROVE  TypeInv'
  <2>1. writer'[w] \in Writes /\ writer'[w].key \in Keys
      BY <1>w, <1>5 DEF Upsert, Writes
  <2>2. \A s \in Writers \ {w} : writer'[s] = writer[s]
      BY <1>5 DEF Upsert
  <2>3. writer' \in [Writers -> Writes]
      BY <2>1, <2>2, <1>5 DEF Upsert
  <2> QED
      BY <2>1, <2>2, <2>3, <1>w, <1>5 DEF Upsert
<1>6. ASSUME NEW w \in Writers, NEW k \in Keys, DeleteStart(w, k)
      PROVE  TypeInv'
  <2>1. writer'[w] \in Writes /\ writer'[w].key \in Keys
      BY <1>0, <1>6 DEF DeleteStart, Writes
  <2>2. \A s \in Writers \ {w} : writer'[s] = writer[s]
      BY <1>6 DEF DeleteStart
  <2>3. writer' \in [Writers -> Writes]
      BY <2>1, <2>2, <1>6 DEF DeleteStart
  <2> QED
      BY <2>1, <2>2, <2>3, <1>6 DEF DeleteStart
<1>7. ASSUME NEW w \in Writers, DeleteRow(w)
      PROVE  TypeInv'
  <2>0. writer[w].key \in Keys
      BY <1>7 DEF DeleteRow
  <2>a. row[writer[w].key].ver + 1 \in Versions /\ writer[w] \in Writes
      BY <2>0, <1>w, <1>7 DEF DeleteRow
  <2>b. writer'[w] = [writer[w] EXCEPT !.pc = "forget", !.ver = row[writer[w].key].ver + 1]
      BY <1>7 DEF DeleteRow
  <2>1. writer'[w] \in Writes /\ writer'[w].key \in Keys
      BY ONLY <2>0, <2>a, <2>b DEF Writes
  <2>2. \A s \in Writers \ {w} : writer'[s] = writer[s]
      BY <1>7 DEF DeleteRow
  <2>3. writer' \in [Writers -> Writes]
      BY <2>1, <2>2, <1>7 DEF DeleteRow
  <2> QED
      BY <2>0, <2>1, <2>2, <2>3, <1>w, <1>7 DEF DeleteRow
<1>8. ASSUME NEW w \in Writers, ForgetFirst(w)
      PROVE  TypeInv'
  <2>1. writer'[w] \in Writes /\ writer'[w].key \in Keys
      BY <1>8 DEF ForgetFirst, Writes
  <2>2. \A s \in Writers \ {w} : writer'[s] = writer[s]
      BY <1>8 DEF ForgetFirst
  <2>3. writer' \in [Writers -> Writes]
      BY <2>1, <2>2, <1>8 DEF ForgetFirst
  <2> QED
      BY <2>1, <2>2, <2>3, <1>f, <1>8 DEF ForgetFirst
<1>9. ASSUME NEW w \in Writers, NEW S, ForgetAfter(w, S)
      PROVE  TypeInv'
  <2>1. writer'[w] = NoWrite /\ \A s \in Writers \ {w} : writer'[s] = writer[s]
      BY <1>9 DEF ForgetAfter
  <2>2. writer' \in [Writers -> Writes]
      BY <2>1, <1>n, <1>9 DEF ForgetAfter
  <2>3. forgotten' \in [Keys -> Versions]
      BY <1>9 DEF ForgetAfter, Writes
  <2> QED
      BY <2>1, <2>2, <2>3, <1>n, <1>f, <1>9 DEF ForgetAfter
<1>10. ASSUME NEW k \in Keys, RemoteWrite(k)
      PROVE  TypeInv'
      BY <1>w, <1>10 DEF RemoteWrite
<1>11. CASE Tick
  <2>0. ASSUME NEW r \in Readers
        PROVE  reader'[r] \in Lookups
    <3>1. reader[r] \in Lookups /\ Older(reader[r].age) \in 0..MaxAge
        BY OlderType DEF Lookups
    <3>2. [reader[r] EXCEPT !.age = Older(reader[r].age)] \in Lookups
        BY <3>1 DEF Lookups
    <3> QED
        BY <3>1, <3>2, <1>11 DEF Tick
  <2>1. reader' \in [Readers -> Lookups]
      BY <2>0, <1>11 DEF Tick
  <2>2. \A r \in Readers : reader'[r].pc = reader[r].pc /\ reader'[r].key = reader[r].key
      BY <1>11 DEF Tick, Lookups
  <2>3. entry' \in [Keys -> [ver : Versions, age : 0..MaxAge]]
      BY <1>11, OlderType DEF Tick
  <2>4. gone' \in [Keys -> [Versions -> 0..MaxAge]]
      BY <1>11, OlderType DEF Tick
  <2> QED
      BY <2>1, <2>2, <2>3, <2>4, <1>11 DEF Tick
<1>12. CASE UNCHANGED vars
      BY <1>12 DEF vars
<1> QED
      BY <1>1, <1>2, <1>3, <1>4, <1>5, <1>6, <1>7, <1>8, <1>9, <1>10, <1>11, <1>12 DEF Next

\* Every variable keeps its type in every behaviour of the cache.
THEOREM TypeCorrect == Spec => []TypeOK
<1>1. TypeInv => TypeOK
    BY DEF TypeInv
<1> QED
    BY TypeInit, TypeStep, <1>1, PTL DEF Spec

-----------------------------------------------------------------------------
(***************************************************************************)
(* Forgetting is final.  The property speaks of finished lookups; what     *)
(* makes it inductive is that no entry, and no loaded answer that may      *)
(* still be stored, is older than what was forgotten: a forgetting moves   *)
(* the generation past every load in progress.                             *)
(***************************************************************************)
ForgetInv ==
    /\ \A k \in Keys : forgotten[k] <= row[k].ver
    /\ \A w \in Writers : writer[w].pc # "idle" => writer[w].ver <= row[writer[w].key].ver
    /\ \A k \in held : entry[k].ver >= forgotten[k]
    /\ \A r \in Readers :
          /\ reader[r].gen <= generation
          /\ reader[r].pc # "idle" => reader[r].asOf <= forgotten[reader[r].key]
          /\ reader[r].pc = "store" /\ reader[r].gen = generation
                => reader[r].ver >= forgotten[reader[r].key]
          /\ reader[r].pc \in {"store", "done"} => reader[r].ver >= reader[r].asOf

\* Initially nothing is cached, looked up or forgotten.
LEMMA ForgetInit == Init => ForgetInv
<1> SUFFICES ASSUME Init PROVE ForgetInv
    OBVIOUS
<1> QED
    BY DEF Init, ForgetInv, NoLookup, NoWrite

\* Versions are natural numbers.
LEMMA VersionsNat == \A v \in Versions : v \in Nat
BY CacheAssumption DEF Versions

\* A write of a row moves its version on and changes nothing else.
LEMMA WriteRowGrows ==
    ASSUME TypeInv, NEW k \in Keys, NEW there \in BOOLEAN, WriteRow(k, there)
    PROVE  /\ row'[k].ver = row[k].ver + 1
           /\ \A j \in Keys : row[j].ver \in Nat /\ row'[j].ver \in Nat /\ row[j].ver <= row'[j].ver
<1>1. row \in [Keys -> [ver : Versions, there : BOOLEAN]]
    BY DEF TypeInv, TypeOK
<1>2. \A j \in Keys : row[j].ver \in Nat
    BY <1>1, VersionsNat
<1>3. row'[k].ver = row[k].ver + 1 /\ \A j \in Keys \ {k} : row'[j] = row[j]
    BY <1>1 DEF WriteRow
<1> QED
    BY <1>2, <1>3

\* Every step of a cache with generations keeps ForgetInv.
LEMMA ForgetStep ==
    ASSUME Generational
    PROVE  TypeInv /\ ForgetInv /\ [Next]_vars => ForgetInv'
<1> SUFFICES ASSUME TypeInv, ForgetInv, [Next]_vars PROVE ForgetInv'
    OBVIOUS
<1>0. /\ \A k \in Keys : row[k].ver \in Nat /\ entry[k].ver \in Nat /\ forgotten[k] \in Nat
      /\ \A r \in Readers : reader[r].ver \in Nat /\ reader[r].asOf \in Nat /\ reader[r].gen \in Nat
      /\ \A w \in Writers : writer[w].ver \in Nat
      /\ generation \in Nat
  <2>1. \A k \in Keys : row[k].ver \in Versions /\ entry[k].ver \in Versions /\ forgotten[k] \in Versions
      BY DEF TypeInv, TypeOK
  <2>2. \A r \in Readers : reader[r].ver \in Versions /\ reader[r].asOf \in Versions /\ reader[r].gen \in Nat
      BY DEF TypeInv, TypeOK, Lookups
  <2>3. \A w \in Writers : writer[w].ver \in Versions
      BY DEF TypeInv, TypeOK, Writes
  <2> QED
      BY <2>1, <2>2, <2>3, VersionsNat DEF TypeInv, TypeOK
<1>k. /\ \A r \in Readers : reader[r].pc # "idle" => reader[r].key \in Keys
      /\ \A w \in Writers : writer[w].pc # "idle" => writer[w].key \in Keys
      BY DEF TypeInv, KeysKnown
<1>t. /\ held \subseteq Keys
      /\ row \in [Keys -> [ver : Versions, there : BOOLEAN]]
      /\ reader \in [Readers -> Lookups]
      /\ writer \in [Writers -> Writes]
      /\ forgotten \in [Keys -> Versions]
      BY DEF TypeInv, TypeOK
<1>1. ASSUME NEW r \in Readers, NEW k \in Keys, Lookup(r, k)
      PROVE  ForgetInv'
  <2>1. \A s \in Readers \ {r} : reader'[s] = reader[s]
      BY <1>1, <1>t DEF Lookup
  <2>2. /\ reader'[r].gen = generation /\ reader'[r].key = k
        /\ reader'[r].asOf = forgotten[k]
        /\ reader'[r].pc = IF Hit(k) THEN "done" ELSE "load"
        /\ reader'[r].ver = IF Hit(k) THEN entry[k].ver ELSE 0
      BY <1>1, <1>t DEF Lookup
  <2> QED
      BY <2>1, <2>2, <1>0, <1>k, <1>1 DEF Lookup, ForgetInv, Hit
<1>2. ASSUME NEW r \in Readers, Load(r)
      PROVE  ForgetInv'
  <2>1. \A s \in Readers \ {r} : reader'[s] = reader[s]
      BY <1>2, <1>t DEF Load
  <2>2. /\ reader'[r].gen = reader[r].gen /\ reader'[r].key = reader[r].key
        /\ reader'[r].asOf = reader[r].asOf /\ reader'[r].pc = "store"
        /\ reader'[r].ver = row[reader[r].key].ver
        /\ reader[r].key \in Keys /\ reader[r].pc = "load"
      BY <1>2, <1>t, <1>k DEF Load, Lookups
  <2>3. /\ row[reader[r].key].ver >= forgotten[reader[r].key]
        /\ row[reader[r].key].ver >= reader[r].asOf
      BY <2>2, <1>0 DEF ForgetInv
  <2>4. UNCHANGED <<row, held, entry, generation, writer, forgotten>>
      BY <1>2 DEF Load
  <2>5. \A s \in Readers :
          /\ reader'[s].gen <= generation
          /\ reader'[s].pc # "idle" => reader'[s].asOf <= forgotten[reader'[s].key]
          /\ reader'[s].pc = "store" /\ reader'[s].gen = generation
                => reader'[s].ver >= forgotten[reader'[s].key]
          /\ reader'[s].pc \in {"store", "done"} => reader'[s].ver >= reader'[s].asOf
      BY <2>1, <2>2, <2>3 DEF ForgetInv
  <2> QED
      BY <2>4, <2>5 DEF ForgetInv
<1>3. ASSUME NEW r \in Readers, Store(r)
      PROVE  ForgetInv'
  <2>1. \A s \in Readers \ {r} : reader'[s] = reader[s]
      BY <1>3, <1>t DEF Store
  <2>2. /\ reader'[r].gen = reader[r].gen /\ reader'[r].key = reader[r].key
        /\ reader'[r].asOf = reader[r].asOf /\ reader'[r].ver = reader[r].ver
        /\ reader'[r].pc = "done" /\ reader[r].pc = "store" /\ reader[r].key \in Keys
      BY <1>3, <1>t, <1>k DEF Store, Lookups
  <2>3. \A k \in held' : entry'[k].ver >= forgotten[k]
    <3>1. CASE MayStore(reader[r])
      <4>1. Kept(reader[r]) \subseteq held
          BY DEF Kept
      <4>2. reader[r].gen = generation
          BY <3>1 DEF MayStore
      <4>3. NewEntry(reader[r]).ver >= forgotten[reader[r].key]
          BY <4>2, <2>2 DEF NewEntry, ForgetInv
      <4> QED
          BY <3>1, <4>1, <4>3, <1>3, <1>t, <2>2 DEF Store, ForgetInv
    <3>2. CASE ~MayStore(reader[r])
        BY <3>2, <1>3 DEF Store, ForgetInv
    <3> QED
        BY <3>1, <3>2
  <2> QED
      BY <2>1, <2>2, <2>3, <1>0, <1>k, <1>3 DEF Store, ForgetInv
<1>4. ASSUME NEW r \in Readers, Return(r)
      PROVE  ForgetInv'
  <2>1. reader'[r] = NoLookup /\ \A s \in Readers \ {r} : reader'[s] = reader[s]
      BY <1>4, <1>t DEF Return
  <2> QED
      BY <2>1, <1>0, <1>k, <1>4 DEF Return, ForgetInv, NoLookup
<1>w. ASSUME NEW k \in Keys, NEW there \in BOOLEAN, WriteRow(k, there),
             UNCHANGED <<held, entry, generation, reader, forgotten>>,
             \A w \in Writers : writer'[w].pc # "idle" =>
                 writer'[w].key \in Keys /\ writer'[w].ver <= row'[writer'[w].key].ver
      PROVE  ForgetInv'
  <2>1. \A j \in Keys : row'[j].ver \in Nat /\ row[j].ver <= row'[j].ver
      BY <1>w, WriteRowGrows
  <2>2. \A j \in Keys : forgotten[j] <= row'[j].ver
      BY <2>1, <1>0 DEF ForgetInv
  <2> QED
      BY <2>2, <1>w DEF ForgetInv
<1>5. ASSUME NEW w \in Writers, NEW k \in Keys, Upsert(w, k)
      PROVE  ForgetInv'
  <2>1. writer'[w].key = k /\ writer'[w].ver = row[k].ver + 1
      BY <1>5, <1>t DEF Upsert
  <2>2. \A s \in Writers \ {w} : writer'[s] = writer[s]
      BY <1>5, <1>t DEF Upsert
  <2>3. WriteRow(k, TRUE)
      BY <1>5 DEF Upsert
  <2>4. \A j \in Keys : row'[j].ver \in Nat /\ row[j].ver <= row'[j].ver
      BY <2>3, WriteRowGrows
  <2>5. row'[k].ver = row[k].ver + 1
      BY <2>3, WriteRowGrows
  <2>6. \A s \in Writers : writer'[s].pc # "idle" =>
            writer'[s].key \in Keys /\ writer'[s].ver <= row'[writer'[s].key].ver
      BY <2>1, <2>2, <2>4, <2>5, <1>0, <1>k DEF ForgetInv
  <2> QED
      BY <2>3, <2>6, <1>w, <1>5 DEF Upsert
<1>6. ASSUME NEW w \in Writers, NEW k \in Keys, DeleteStart(w, k)
      PROVE  ForgetInv'
  <2>1. writer'[w].key = k /\ writer'[w].ver = 0
      BY <1>6, <1>t DEF DeleteStart
  <2>2. \A s \in Writers \ {w} : writer'[s] = writer[s]
      BY <1>6, <1>t DEF DeleteStart
  <2>3. UNCHANGED <<row, held, entry, generation, reader, forgotten>>
      BY <1>6 DEF DeleteStart
  <2>4. \A s \in Writers : writer'[s].pc # "idle" => writer'[s].ver <= row[writer'[s].key].ver
      BY <2>1, <2>2, <1>0 DEF ForgetInv
  <2> QED
      BY <2>3, <2>4 DEF ForgetInv
<1>7. ASSUME NEW w \in Writers, DeleteRow(w)
      PROVE  ForgetInv'
  <2>0. writer[w].key \in Keys
      BY <1>7, <1>k DEF DeleteRow
  <2>1. writer'[w].key = writer[w].key /\ writer'[w].ver = row[writer[w].key].ver + 1
      BY <1>7, <1>t DEF DeleteRow, Writes
  <2>2. \A s \in Writers \ {w} : writer'[s] = writer[s]
      BY <1>7, <1>t DEF DeleteRow
  <2>3. WriteRow(writer[w].key, FALSE)
      BY <1>7 DEF DeleteRow
  <2>4. \A j \in Keys : row'[j].ver \in Nat /\ row[j].ver <= row'[j].ver
      BY <2>0, <2>3, WriteRowGrows
  <2>5. row'[writer[w].key].ver = row[writer[w].key].ver + 1
      BY <2>0, <2>3, WriteRowGrows
  <2>6. \A s \in Writers : writer'[s].pc # "idle" =>
            writer'[s].key \in Keys /\ writer'[s].ver <= row'[writer'[s].key].ver
      BY <2>0, <2>1, <2>2, <2>4, <2>5, <1>0, <1>k DEF ForgetInv
  <2> QED
      BY <2>0, <2>3, <2>6, <1>w, <1>7 DEF DeleteRow
<1>f. ASSUME NEW S, Forget(S)
      PROVE  /\ held' \subseteq held
             /\ \A k \in held' : k \notin S /\ entry'[k] = entry[k]
             /\ generation' = generation + 1
      BY <1>f, <1>t DEF Forget, NextGeneration
<1>8. ASSUME NEW w \in Writers, ForgetFirst(w)
      PROVE  ForgetInv'
  <2>1. writer'[w].key = writer[w].key /\ writer'[w].ver = writer[w].ver /\ writer[w].pc # "idle"
      BY <1>8, <1>t DEF ForgetFirst, Writes
  <2>2. \A s \in Writers \ {w} : writer'[s] = writer[s]
      BY <1>8, <1>t DEF ForgetFirst
  <2>3. /\ held' \subseteq held
        /\ \A k \in held' : entry'[k] = entry[k]
        /\ generation' = generation + 1
      BY <1>f, <1>8 DEF ForgetFirst
  <2>4. UNCHANGED <<row, reader, forgotten>>
      BY <1>8 DEF ForgetFirst
  <2>5. \A s \in Writers : writer'[s].pc # "idle" => writer'[s].ver <= row[writer'[s].key].ver
      BY <2>1, <2>2 DEF ForgetInv
  <2>6. \A r \in Readers : reader[r].gen < generation'
      BY <2>3, <1>0 DEF ForgetInv
  <2>7. generation' \in Nat
      BY <2>3, <1>0
  <2> QED
      BY <2>3, <2>4, <2>5, <2>6, <2>7, <1>0 DEF ForgetInv
<1>9. ASSUME NEW w \in Writers, NEW S, ForgetAfter(w, S)
      PROVE  ForgetInv'
  <2>0. writer[w].key \in Keys /\ writer[w].key \in S /\ writer[w].ver <= row[writer[w].key].ver
      BY <1>9, <1>k DEF ForgetAfter, ForgetInv
  <2>1. writer'[w] = NoWrite /\ \A s \in Writers \ {w} : writer'[s] = writer[s]
      BY <1>9, <1>t DEF ForgetAfter
  <2>2. /\ \A k \in Keys \ {writer[w].key} : forgotten'[k] = forgotten[k]
        /\ forgotten'[writer[w].key] = IF writer[w].ver > forgotten[writer[w].key]
                                       THEN writer[w].ver ELSE forgotten[writer[w].key]
      BY <1>9, <1>t, <2>0 DEF ForgetAfter
  <2>3. /\ held' \subseteq held
        /\ \A k \in held' : k # writer[w].key /\ entry'[k] = entry[k]
        /\ generation' = generation + 1
      BY <1>f, <1>9, <2>0 DEF ForgetAfter
  <2>4. \A k \in Keys : forgotten'[k] \in Nat /\ forgotten[k] <= forgotten'[k]
                        /\ forgotten'[k] <= row[k].ver
      BY <2>0, <2>2, <1>0 DEF ForgetInv
  <2>5. \A k \in held' : entry'[k].ver >= forgotten'[k]
      BY <2>2, <2>3, <1>t DEF ForgetInv
  <2>6. \A r \in Readers : reader[r].gen < generation'
      BY <2>3, <1>0 DEF ForgetInv
  <2>7. \A r \in Readers : reader[r].pc # "idle" => reader[r].asOf <= forgotten'[reader[r].key]
      BY <2>4, <1>0, <1>k DEF ForgetInv
  <2>8. UNCHANGED <<row, reader>>
      BY <1>9 DEF ForgetAfter
  <2>9. \A s \in Writers : writer'[s].pc # "idle" => writer'[s].ver <= row[writer'[s].key].ver
      BY <2>1 DEF ForgetInv, NoWrite
  <2> QED
      BY <2>3, <2>4, <2>5, <2>6, <2>7, <2>8, <2>9, <1>0 DEF ForgetInv
<1>10. ASSUME NEW k \in Keys, RemoteWrite(k)
       PROVE  ForgetInv'
  <2>1. PICK there \in BOOLEAN : WriteRow(k, there)
      BY <1>10 DEF RemoteWrite
  <2>2. \A j \in Keys : row'[j].ver \in Nat /\ row[j].ver <= row'[j].ver
      BY <2>1, WriteRowGrows
  <2>3. \A s \in Writers : writer'[s].pc # "idle" =>
            writer'[s].key \in Keys /\ writer'[s].ver <= row'[writer'[s].key].ver
      BY <2>2, <1>0, <1>k, <1>10 DEF RemoteWrite, ForgetInv
  <2> QED
      BY <2>1, <2>3, <1>w, <1>10 DEF RemoteWrite
<1>11. CASE Tick
  <2>1. \A r \in Readers :
            /\ reader'[r].pc = reader[r].pc /\ reader'[r].key = reader[r].key
            /\ reader'[r].gen = reader[r].gen /\ reader'[r].ver = reader[r].ver
            /\ reader'[r].asOf = reader[r].asOf
      BY <1>11, <1>t DEF Tick, Lookups
  <2>2. \A k \in Keys : entry'[k].ver = entry[k].ver
      BY <1>11 DEF Tick, TypeInv, TypeOK
  <2> QED
      BY <2>1, <2>2, <1>t, <1>11 DEF Tick, ForgetInv
<1>12. CASE UNCHANGED vars
      BY <1>12 DEF vars, ForgetInv
<1> QED
      BY <1>1, <1>2, <1>3, <1>4, <1>5, <1>6, <1>7, <1>8, <1>9, <1>10, <1>11, <1>12 DEF Next

\* With generations, a lookup that begins after a write here has forgotten its key
\* never answers with what was there before (get(), erase() and clear() of
\* Core::TtlCache).
THEOREM ForgetFinal ==
    ASSUME Generational
    PROVE  Spec => []ForgetIsFinal
<1>1. TypeInv /\ ForgetInv => ForgetIsFinal
    BY DEF ForgetInv, ForgetIsFinal
<1>2. Generational
    OBVIOUS
<1>3. TypeInv /\ ForgetInv /\ [Next]_vars => ForgetInv'
    BY <1>2, ForgetStep
<1> QED
    BY TypeInit, TypeStep, ForgetInit, <1>1, <1>3, PTL DEF Spec

-----------------------------------------------------------------------------
(***************************************************************************)
(* Staleness.  What a lookup has loaded, and what is stored from it, was   *)
(* the row after the lookup read the clock: the row moved past it no       *)
(* longer ago than the lookup's, and then the entry's, age.                *)
(***************************************************************************)
StaleInv ==
    /\ \A k \in Keys : \A v \in Versions : v >= row[k].ver => gone[k][v] = 0
    /\ \A k \in held :
          entry[k].ver < row[k].ver => gone[k][entry[k].ver] <= entry[k].age
    /\ \A r \in Readers :
          reader[r].pc = "store" /\ reader[r].ver < row[reader[r].key].ver
             => gone[reader[r].key][reader[r].ver] <= reader[r].age

\* Initially no row has moved.
LEMMA StaleInit == Init => StaleInv
<1> SUFFICES ASSUME Init PROVE StaleInv
    OBVIOUS
<1> QED
    BY DEF Init, StaleInv, NoLookup

\* Older keeps the order of two ages.
LEMMA OlderMonotone ==
    ASSUME NEW a \in 0..MaxAge, NEW b \in 0..MaxAge, a <= b
    PROVE  Older(a) <= Older(b)
BY CacheAssumption DEF Older

\* A write of a row starts the clock of the version it replaces.
LEMMA StaleWrite ==
    ASSUME TypeInv, StaleInv, NEW k \in Keys, NEW there \in BOOLEAN, WriteRow(k, there),
           UNCHANGED <<held, entry, reader, gone>>
    PROVE  StaleInv'
<1>0. row \in [Keys -> [ver : Versions, there : BOOLEAN]]
    BY DEF TypeInv, TypeOK
<1>1. row'[k].ver = row[k].ver + 1 /\ row[k].ver \in Nat /\ \A j \in Keys \ {k} : row'[j] = row[j]
    BY <1>0, VersionsNat DEF WriteRow
<1>2. \A v \in Versions : v >= row[k].ver => gone[k][v] = 0
    BY DEF StaleInv
<1>3. \A v \in Versions, a \in 0..MaxAge :
          (v < row[k].ver => gone[k][v] <= a) => (v < row'[k].ver => gone[k][v] <= a)
    BY <1>1, <1>2, VersionsNat
<1>4. \A j \in Keys : \A v \in Versions : v >= row'[j].ver => gone[j][v] = 0
    BY <1>1, VersionsNat DEF StaleInv
<1>5. \A j \in held : j \in Keys /\ entry[j].ver \in Versions /\ entry[j].age \in 0..MaxAge
    BY DEF TypeInv, TypeOK
<1>6. \A r \in Readers : reader[r].ver \in Versions /\ reader[r].age \in 0..MaxAge
                         /\ (reader[r].pc = "store" => reader[r].key \in Keys)
    BY DEF TypeInv, TypeOK, KeysKnown, Lookups
<1>7. \A j \in held : entry[j].ver < row'[j].ver => gone[j][entry[j].ver] <= entry[j].age
  <2> TAKE j \in held
  <2>1. CASE j = k
      BY <2>1, <1>3, <1>5 DEF StaleInv
  <2>2. CASE j # k
      BY <2>2, <1>1, <1>5 DEF StaleInv
  <2> QED
      BY <2>1, <2>2
<1>8. \A r \in Readers :
          reader[r].pc = "store" /\ reader[r].ver < row'[reader[r].key].ver
             => gone[reader[r].key][reader[r].ver] <= reader[r].age
  <2> SUFFICES ASSUME NEW r \in Readers, reader[r].pc = "store",
                      reader[r].ver < row'[reader[r].key].ver
               PROVE  gone[reader[r].key][reader[r].ver] <= reader[r].age
      OBVIOUS
  <2>1. CASE reader[r].key = k
      BY <2>1, <1>3, <1>6 DEF StaleInv
  <2>2. CASE reader[r].key # k
      BY <2>2, <1>1, <1>6 DEF StaleInv
  <2> QED
      BY <2>1, <2>2
<1> QED
    BY <1>4, <1>7, <1>8 DEF StaleInv

\* Every step keeps StaleInv.
LEMMA StaleStep == TypeInv /\ StaleInv /\ [Next]_vars => StaleInv'
<1> SUFFICES ASSUME TypeInv, StaleInv, [Next]_vars PROVE StaleInv'
    OBVIOUS
<1>k. /\ \A r \in Readers : reader[r].pc # "idle" => reader[r].key \in Keys
      /\ \A w \in Writers : writer[w].pc # "idle" => writer[w].key \in Keys
      BY DEF TypeInv, KeysKnown
<1>t. /\ held \subseteq Keys
      /\ row \in [Keys -> [ver : Versions, there : BOOLEAN]]
      /\ entry \in [Keys -> [ver : Versions, age : 0..MaxAge]]
      /\ reader \in [Readers -> Lookups]
      /\ gone \in [Keys -> [Versions -> 0..MaxAge]]
      BY DEF TypeInv, TypeOK
<1>1. ASSUME NEW r \in Readers, UNCHANGED <<row, held, entry, gone>>,
             \A s \in Readers \ {r} : reader'[s] = reader[s],
             reader'[r].pc = "store" =>
                 reader'[r].ver >= row[reader'[r].key].ver /\ row[reader'[r].key].ver \in Nat
                                                           /\ reader'[r].ver \in Nat
      PROVE  StaleInv'
      BY <1>1 DEF StaleInv
<1>2. ASSUME NEW r \in Readers, NEW k \in Keys, Lookup(r, k)
      PROVE  StaleInv'
  <2>1. reader'[r].pc # "store" /\ \A s \in Readers \ {r} : reader'[s] = reader[s]
      BY <1>2, <1>t DEF Lookup
  <2> QED
      BY <2>1, <1>1, <1>2 DEF Lookup
<1>3. ASSUME NEW r \in Readers, Load(r)
      PROVE  StaleInv'
  <2>1. /\ reader'[r].ver = row[reader[r].key].ver /\ reader'[r].key = reader[r].key
        /\ reader[r].key \in Keys
        /\ \A s \in Readers \ {r} : reader'[s] = reader[s]
      BY <1>3, <1>t, <1>k DEF Load, Lookups
  <2>2. row[reader[r].key].ver \in Nat
      BY <2>1, <1>t, VersionsNat
  <2>3. UNCHANGED <<row, held, entry, gone>>
      BY <1>3 DEF Load
  <2>4. reader'[r].ver >= row[reader'[r].key].ver /\ row[reader'[r].key].ver \in Nat
        /\ reader'[r].ver \in Nat
      BY <2>1, <2>2
  <2> QED
      BY <2>1, <2>3, <2>4, <1>1
<1>4. ASSUME NEW r \in Readers, Store(r)
      PROVE  StaleInv'
  <2>1. /\ reader'[r].pc = "done" /\ reader[r].pc = "store" /\ reader[r].key \in Keys
        /\ \A s \in Readers \ {r} : reader'[s] = reader[s]
      BY <1>4, <1>t, <1>k DEF Store
  <2>2. \A k \in held' : entry'[k].ver < row[k].ver => gone[k][entry'[k].ver] <= entry'[k].age
    <3>1. CASE MayStore(reader[r])
      <4>1. Kept(reader[r]) \subseteq held
          BY DEF Kept
      <4>2. ASSUME NEW k \in held', k # reader[r].key
            PROVE  k \in held /\ entry'[k] = entry[k]
          BY <4>1, <4>2, <3>1, <1>4, <1>t DEF Store
      <4>3. entry'[reader[r].key] = NewEntry(reader[r])
          BY <2>1, <3>1, <1>4 DEF Store
      <4>4. NewEntry(reader[r]).ver = reader[r].ver /\ NewEntry(reader[r]).age = reader[r].age
          BY DEF NewEntry
      <4> QED
          BY <4>2, <4>3, <4>4, <2>1 DEF StaleInv
    <3>2. CASE ~MayStore(reader[r])
        BY <3>2, <1>4 DEF Store, StaleInv
    <3> QED
        BY <3>1, <3>2
  <2> QED
      BY <2>1, <2>2, <1>4 DEF Store, StaleInv
<1>5. ASSUME NEW r \in Readers, Return(r)
      PROVE  StaleInv'
  <2>1. reader'[r].pc # "store" /\ \A s \in Readers \ {r} : reader'[s] = reader[s]
      BY <1>5, <1>t DEF Return, NoLookup
  <2> QED
      BY <2>1, <1>1, <1>5 DEF Return
<1>6. ASSUME NEW w \in Writers, NEW k \in Keys, Upsert(w, k)
      PROVE  StaleInv'
      BY <1>6, StaleWrite DEF Upsert
<1>7. ASSUME NEW w \in Writers, NEW k \in Keys, DeleteStart(w, k)
      PROVE  StaleInv'
      BY <1>7 DEF DeleteStart, StaleInv
<1>8. ASSUME NEW w \in Writers, DeleteRow(w)
      PROVE  StaleInv'
  <2>1. writer[w].key \in Keys
      BY <1>8, <1>k DEF DeleteRow
  <2> QED
      BY <2>1, <1>8, StaleWrite DEF DeleteRow
<1>f. ASSUME NEW S, Forget(S), UNCHANGED <<row, reader, gone>>
      PROVE  StaleInv'
  <2>1. held' \subseteq held /\ \A k \in held' : entry'[k] = entry[k]
      BY <1>f, <1>t DEF Forget
  <2> QED
      BY <2>1, <1>f DEF StaleInv
<1>9. ASSUME NEW w \in Writers, ForgetFirst(w)
      PROVE  StaleInv'
      BY <1>9, <1>f DEF ForgetFirst
<1>10. ASSUME NEW w \in Writers, NEW S, ForgetAfter(w, S)
       PROVE  StaleInv'
      BY <1>10, <1>f DEF ForgetAfter
<1>11. ASSUME NEW k \in Keys, RemoteWrite(k)
       PROVE  StaleInv'
  <2>1. PICK there \in BOOLEAN : WriteRow(k, there)
      BY <1>11 DEF RemoteWrite
  <2> QED
      BY <2>1, <1>11, StaleWrite DEF RemoteWrite
<1>12. CASE Tick
  <2>1. UNCHANGED <<row, held>>
      BY <1>12 DEF Tick
  <2>2. \A k \in Keys, v \in Versions :
            gone'[k][v] = IF v < row[k].ver THEN Older(gone[k][v]) ELSE gone[k][v]
      BY <1>12 DEF Tick
  <2>3. \A k \in held : entry'[k].ver = entry[k].ver /\ entry'[k].age = Older(entry[k].age)
      BY <1>12, <1>t DEF Tick
  <2>4. \A r \in Readers :
            /\ reader'[r].pc = reader[r].pc /\ reader'[r].key = reader[r].key
            /\ reader'[r].ver = reader[r].ver
            /\ reader[r].pc = "store" => reader'[r].age = Older(reader[r].age)
      BY <1>12, <1>t DEF Tick, Lookups
  <2>5. \A k \in Keys : \A v \in Versions : v >= row[k].ver => gone'[k][v] = 0
    <3>1. \A k \in Keys : row[k].ver \in Nat
        BY <1>t, VersionsNat
    <3>2. \A k \in Keys, v \in Versions : v >= row[k].ver => ~(v < row[k].ver)
        BY <3>1, VersionsNat
    <3> QED
        BY <2>2, <3>2 DEF StaleInv
  <2>6. ASSUME NEW k \in held, entry[k].ver < row[k].ver
        PROVE  gone'[k][entry[k].ver] <= Older(entry[k].age)
    <3>1. k \in Keys /\ entry[k].ver \in Versions /\ entry[k].age \in 0..MaxAge
          /\ gone[k][entry[k].ver] \in 0..MaxAge
        BY <1>t
    <3>2. gone[k][entry[k].ver] <= entry[k].age
        BY <2>6 DEF StaleInv
    <3> QED
        BY <3>1, <3>2, <2>2, <2>6, OlderMonotone
  <2>7. ASSUME NEW r \in Readers, reader[r].pc = "store",
               reader[r].ver < row[reader[r].key].ver
        PROVE  gone'[reader[r].key][reader[r].ver] <= Older(reader[r].age)
    <3>1. reader[r].key \in Keys /\ reader[r].ver \in Versions /\ reader[r].age \in 0..MaxAge
          /\ gone[reader[r].key][reader[r].ver] \in 0..MaxAge
        BY <1>t, <1>k, <2>7 DEF Lookups
    <3>2. gone[reader[r].key][reader[r].ver] <= reader[r].age
        BY <2>7 DEF StaleInv
    <3> QED
        BY <3>1, <3>2, <2>2, <2>7, OlderMonotone
  <2> QED
      BY <2>1, <2>3, <2>4, <2>5, <2>6, <2>7 DEF StaleInv
<1>13. CASE UNCHANGED vars
      BY <1>13 DEF vars, StaleInv
<1> QED
      BY <1>2, <1>3, <1>4, <1>5, <1>6, <1>7, <1>8, <1>9, <1>10, <1>11, <1>12, <1>13 DEF Next

\* What get() answers from the cache was the row less than a TTL ago, with or
\* without generations, whichever process changed the row.
THEOREM Staleness == Spec => []StaleBounded
<1>1. TypeInv /\ StaleInv => StaleBounded
  <2> SUFFICES ASSUME TypeInv, StaleInv, NEW k \in held, Hit(k), entry[k].ver < row[k].ver
               PROVE  gone[k][entry[k].ver] < Ttl
      BY DEF StaleBounded
  <2>1. gone[k][entry[k].ver] <= entry[k].age /\ entry[k].age < Ttl
      BY DEF StaleInv, Hit
  <2>2. gone[k][entry[k].ver] \in 0..MaxAge /\ entry[k].age \in 0..MaxAge
      BY DEF TypeInv, TypeOK
  <2> QED
      BY <2>1, <2>2, CacheAssumption
<1> QED
    BY TypeInit, TypeStep, StaleInit, StaleStep, <1>1, PTL DEF Spec

-----------------------------------------------------------------------------
(***************************************************************************)
(* The bound.                                                              *)
(***************************************************************************)
BoundInv == IsFiniteSet(held) /\ WithinBound

\* Every step keeps the cache within its bound.
LEMMA BoundStep == BoundInv /\ [Next]_vars => BoundInv'
<1> SUFFICES ASSUME BoundInv, [Next]_vars PROVE BoundInv'
    OBVIOUS
<1> USE DEF BoundInv, WithinBound
<1>n. MaxEntries \in Nat
    BY CacheAssumption
<1>1. ASSUME NEW r \in Readers, Store(r)
      PROVE  BoundInv'
  <2>1. CASE MayStore(reader[r])
    <3>1. Kept(reader[r]) \subseteq held /\ IsFiniteSet(Kept(reader[r]))
      <4>1. Kept(reader[r]) \subseteq held
          BY DEF Kept
      <4> QED
          BY <4>1, FS_Subset
    <3>2. Cardinality(Kept(reader[r])) < MaxEntries
        BY FS_EmptySet, CacheAssumption DEF Kept
    <3>3. Cardinality(Kept(reader[r])) \in Nat
        BY <3>1, FS_CardinalityType
    <3>4. IsFiniteSet(Kept(reader[r]) \cup {reader[r].key})
          /\ Cardinality(Kept(reader[r]) \cup {reader[r].key}) <= Cardinality(Kept(reader[r])) + 1
      <4>1. /\ IsFiniteSet(Kept(reader[r]) \cup {reader[r].key})
            /\ Cardinality(Kept(reader[r]) \cup {reader[r].key}) =
                  IF reader[r].key \in Kept(reader[r]) THEN Cardinality(Kept(reader[r]))
                  ELSE Cardinality(Kept(reader[r])) + 1
          BY <3>1, FS_AddElement
      <4> QED
          BY <4>1, <3>3
    <3>5. Cardinality(Kept(reader[r]) \cup {reader[r].key}) \in Nat
        BY <3>4, FS_CardinalityType
    <3>6. Cardinality(Kept(reader[r]) \cup {reader[r].key}) <= MaxEntries
        BY <3>2, <3>3, <3>4, <3>5, <1>n
    <3> QED
        BY <3>4, <3>6, <2>1, <1>1 DEF Store
  <2>2. CASE ~MayStore(reader[r])
      BY <2>2, <1>1 DEF Store
  <2> QED
      BY <2>1, <2>2
<1>2. ASSUME NEW S, Forget(S)
      PROVE  BoundInv'
  <2>1. held' \subseteq held
      BY <1>2 DEF Forget
  <2>2. IsFiniteSet(held') /\ Cardinality(held') <= Cardinality(held)
      BY <2>1, FS_Subset
  <2>3. Cardinality(held') \in Nat /\ Cardinality(held) \in Nat
      BY <2>2, FS_CardinalityType
  <2> QED
      BY <2>2, <2>3, <1>n
<1>3. CASE UNCHANGED held
      BY <1>3
<1> QED
      BY <1>1, <1>2, <1>3 DEF Next, vars, Lookup, Load, Return, Upsert, DeleteStart, DeleteRow,
         ForgetFirst, ForgetAfter, RemoteWrite, Tick

\* The cache never holds more entries than its bound, whatever is looked up.
THEOREM Bounded == Spec => []WithinBound
<1>1. Init => BoundInv
  <2> SUFFICES ASSUME Init PROVE BoundInv
      OBVIOUS
  <2>1. held = {}
      BY DEF Init
  <2> QED
      BY <2>1, FS_EmptySet, CacheAssumption DEF BoundInv, WithinBound
<1>2. BoundInv => WithinBound
    BY DEF BoundInv
<1> QED
    BY <1>1, <1>2, BoundStep, PTL DEF Spec

=============================================================================
