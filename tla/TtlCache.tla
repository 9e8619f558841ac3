------------------------------ MODULE TtlCache ------------------------------
(***************************************************************************)
(* A cache one process keeps in front of database rows, and the threads    *)
(* that look keys up, change rows and forget keys.  Two caches of the code *)
(* are instances of it:                                                    *)
(*                                                                         *)
(*   Core::TtlCache (Generational, bounded): the queues, subscriptions,    *)
(*   users and grants that are read on every request                       *)
(*   (core/include/euclid/core/TtlCache.h);                                *)
(*                                                                         *)
(*   the map behind MongoEqsRepository::queueConfig() (not Generational,   *)
(*   never full): a queue's visibility, delay, receive limit and dead      *)
(*   letter queue, read by every send and receive.                         *)
(*                                                                         *)
(* A row's content is its version.  A lookup is several steps, because the *)
(* row is read outside the lock; a write of this process changes the row   *)
(* and then forgets the key; another process changes the row and forgets   *)
(* nothing here.  Times are ages: an entry's age counts from the moment    *)
(* its lookup read the clock, up to MaxAge.                                *)
(***************************************************************************)
EXTENDS Integers, FiniteSets

CONSTANTS
    Keys,
    NoKey,        \* not a key
    Readers,      \* threads looking a key up
    Writers,      \* threads of this process changing a row
    Generational, \* whether a load that a forgetting overtook is kept
    CacheMisses,  \* whether "there is none" is kept
    Ttl,          \* how long an entry is used, 0 for not at all
    MaxEntries,   \* the most entries kept
    MaxAge,       \* where ages stop counting
    MaxWrites     \* bound on the writes of one row

ASSUME CacheAssumption ==
    /\ NoKey \notin Keys
    /\ Generational \in BOOLEAN /\ CacheMisses \in BOOLEAN
    /\ Ttl \in Nat /\ MaxAge \in Nat /\ Ttl <= MaxAge
    /\ MaxEntries \in Nat \ {0}
    /\ MaxWrites \in Nat

VARIABLES
    row,         \* each key's row: its version and whether it exists
    held,        \* the keys with an entry
    entry,       \* the entry of each, NoEntry without one
    generation,  \* _generation
    reader,      \* the lookup each reader is in
    writer,      \* the write each writer is in
    forgotten,   \* per key, the latest version written here whose forgetting is done
    gone         \* per key and version, how long ago the row moved past it

vars == <<row, held, entry, generation, reader, writer, forgotten, gone>>

Versions == 0..MaxWrites

NoEntry == [ver |-> 0, age |-> 0]

NoLookup ==
    [pc |-> "idle", key |-> NoKey, gen |-> 0, ver |-> 0, there |-> FALSE, age |-> 0, asOf |-> 0]

NoWrite == [pc |-> "idle", key |-> NoKey, ver |-> 0]

Init ==
    /\ row = [k \in Keys |-> [ver |-> 0, there |-> TRUE]]
    /\ held = {}
    /\ entry = [k \in Keys |-> NoEntry]
    /\ generation = 0
    /\ reader = [r \in Readers |-> NoLookup]
    /\ writer = [w \in Writers |-> NoWrite]
    /\ forgotten = [k \in Keys |-> 0]
    /\ gone = [k \in Keys |-> [v \in Versions |-> 0]]

-----------------------------------------------------------------------------
(***************************************************************************)
(* Lookups: get().                                                         *)
(***************************************************************************)
Hit(k) == k \in held /\ entry[k].age < Ttl

\* The clock and the map are read; a fresh entry is the answer, otherwise the
\* generation is noted and the row is read next.
Lookup(r, k) ==
    /\ reader[r].pc = "idle"
    /\ reader' = [reader EXCEPT ![r] =
          [pc |-> IF Hit(k) THEN "done" ELSE "load", key |-> k, gen |-> generation,
           ver |-> IF Hit(k) THEN entry[k].ver ELSE 0,
           there |-> FALSE, age |-> 0, asOf |-> forgotten[k]]]
    /\ UNCHANGED <<row, held, entry, generation, writer, forgotten, gone>>

\* The loader: one read of the row, outside the lock.
Load(r) ==
    /\ reader[r].pc = "load"
    /\ reader' = [reader EXCEPT ![r].pc = "store",
                                ![r].ver = row[reader[r].key].ver,
                                ![r].there = row[reader[r].key].there]
    /\ UNCHANGED <<row, held, entry, generation, writer, forgotten, gone>>

\* Mutant of MayStore: the generation is not compared.
MutMayStore(x) == (x.there \/ CacheMisses) /\ Ttl > 0

\* Whether what was loaded is kept.
MayStore(x) ==
    /\ x.there \/ CacheMisses
    /\ Ttl > 0
    /\ Generational => x.gen = generation

\* Mutant of Kept: what has expired makes room, and nothing else does.
MutKept(x) ==
    IF Cardinality(held) < MaxEntries THEN held
    ELSE {k \in held : entry[k].age < Ttl + x.age}

\* evict(): at the bound what had expired when the lookup read the clock goes, and
\* everything when that is not enough.
Kept(x) ==
    LET fresh == {k \in held : entry[k].age < Ttl + x.age} IN
    IF Cardinality(held) < MaxEntries THEN held
    ELSE IF Cardinality(fresh) < MaxEntries THEN fresh ELSE {}

\* Mutant of NewEntry: the entry's time starts when it is stored.
MutNewEntry(x) == [ver |-> x.ver, age |-> 0]

\* The entry runs out a TTL after the lookup read the clock, which was before the
\* row was read.
NewEntry(x) == [ver |-> x.ver, age |-> x.age]

Store(r) ==
    LET x == reader[r] IN
    /\ x.pc = "store"
    /\ IF MayStore(x)
       THEN /\ held' = Kept(x) \cup {x.key}
            /\ entry' = [k \in Keys |-> IF k = x.key THEN NewEntry(x)
                                        ELSE IF k \in Kept(x) THEN entry[k] ELSE NoEntry]
       ELSE UNCHANGED <<held, entry>>
    /\ reader' = [reader EXCEPT ![r].pc = "done"]
    /\ UNCHANGED <<row, generation, writer, forgotten, gone>>

\* The answer is returned to the caller, who uses it.
Return(r) ==
    /\ reader[r].pc = "done"
    /\ reader' = [reader EXCEPT ![r] = NoLookup]
    /\ UNCHANGED <<row, held, entry, generation, writer, forgotten, gone>>

-----------------------------------------------------------------------------
(***************************************************************************)
(* Writes of the rows, and forgetting.                                     *)
(***************************************************************************)
WriteRow(k, there) ==
    /\ row[k].ver < MaxWrites
    /\ row' = [row EXCEPT ![k] = [ver |-> row[k].ver + 1, there |-> there]]

\* upsertQueue(): the row is written first, the key is forgotten next.
Upsert(w, k) ==
    /\ writer[w].pc = "idle"
    /\ WriteRow(k, TRUE)
    /\ writer' = [writer EXCEPT ![w] = [pc |-> "forget", key |-> k, ver |-> row[k].ver + 1]]
    /\ UNCHANGED <<held, entry, generation, reader, forgotten, gone>>

\* deleteQueueByErn() forgets the key before it deletes the row as well as after.
DeleteStart(w, k) ==
    /\ writer[w].pc = "idle"
    /\ writer' = [writer EXCEPT ![w] = [pc |-> "forget first", key |-> k, ver |-> 0]]
    /\ UNCHANGED <<row, held, entry, generation, reader, forgotten, gone>>

DeleteRow(w) ==
    /\ writer[w].pc = "delete"
    /\ WriteRow(writer[w].key, FALSE)
    /\ writer' = [writer EXCEPT ![w].pc = "forget",
                                ![w].ver = row[writer[w].key].ver + 1]
    /\ UNCHANGED <<held, entry, generation, reader, forgotten, gone>>

\* Mutant of NextGeneration: it counts down, which an unsigned counter survives only
\* by wrapping.
MutNextGeneration == generation - 1

NextGeneration == generation + 1

\* erase(key), or clear() when S is everything: one critical section.
Forget(S) ==
    /\ held' = held \ S
    /\ entry' = [k \in Keys |-> IF k \in S THEN NoEntry ELSE entry[k]]
    /\ generation' = NextGeneration

ForgetFirst(w) ==
    /\ writer[w].pc = "forget first"
    /\ Forget({writer[w].key})
    /\ writer' = [writer EXCEPT ![w].pc = "delete"]
    /\ UNCHANGED <<row, reader, forgotten, gone>>

ForgetAfter(w, S) ==
    /\ writer[w].pc = "forget" /\ writer[w].key \in S
    /\ Forget(S)
    /\ forgotten' = [forgotten EXCEPT ![writer[w].key] =
          IF writer[w].ver > forgotten[writer[w].key] THEN writer[w].ver
          ELSE forgotten[writer[w].key]]
    /\ writer' = [writer EXCEPT ![w] = NoWrite]
    /\ UNCHANGED <<row, reader, gone>>

\* Another process writes or deletes the row, or a write here takes effect and its
\* answer is lost: nothing is forgotten.
RemoteWrite(k) ==
    /\ \E there \in BOOLEAN : WriteRow(k, there)
    /\ UNCHANGED <<held, entry, generation, reader, writer, forgotten, gone>>

-----------------------------------------------------------------------------
Older(a) == IF a < MaxAge THEN a + 1 ELSE a

Tick ==
    /\ entry' = [k \in Keys |->
          IF k \in held THEN [entry[k] EXCEPT !.age = Older(entry[k].age)] ELSE entry[k]]
    /\ reader' = [r \in Readers |->
          IF reader[r].pc \in {"load", "store"}
          THEN [reader[r] EXCEPT !.age = Older(reader[r].age)] ELSE reader[r]]
    /\ gone' = [k \in Keys |-> [v \in Versions |->
          IF v < row[k].ver THEN Older(gone[k][v]) ELSE gone[k][v]]]
    /\ UNCHANGED <<row, held, generation, writer, forgotten>>

Next ==
    \/ \E r \in Readers, k \in Keys : Lookup(r, k)
    \/ \E r \in Readers : Load(r) \/ Store(r) \/ Return(r)
    \/ \E w \in Writers, k \in Keys : Upsert(w, k) \/ DeleteStart(w, k)
    \/ \E w \in Writers : DeleteRow(w) \/ ForgetFirst(w)
    \/ \E w \in Writers, k \in Keys : ForgetAfter(w, {k})
    \/ \E w \in Writers : ForgetAfter(w, Keys)
    \/ \E k \in Keys : RemoteWrite(k)
    \/ Tick

Spec == Init /\ [][Next]_vars

-----------------------------------------------------------------------------
(***************************************************************************)
(* Properties.                                                             *)
(***************************************************************************)
Lookups ==
    [pc : {"idle", "load", "store", "done"}, key : Keys \cup {NoKey}, gen : Nat,
     ver : Versions, there : BOOLEAN, age : 0..MaxAge, asOf : Versions]

Writes ==
    [pc : {"idle", "forget first", "delete", "forget"}, key : Keys \cup {NoKey}, ver : Versions]

\* Every variable has its type: get(), erase(), clear() and the writes they follow
\* keep lookups, writes and entries well formed.
TypeOK ==
    /\ row \in [Keys -> [ver : Versions, there : BOOLEAN]]
    /\ held \subseteq Keys
    /\ entry \in [Keys -> [ver : Versions, age : 0..MaxAge]]
    /\ generation \in Nat
    /\ reader \in [Readers -> Lookups]
    /\ writer \in [Writers -> Writes]
    /\ forgotten \in [Keys -> Versions]
    /\ gone \in [Keys -> [Versions -> 0..MaxAge]]

\* Forgetting is final: a lookup that begins once a write of this process has
\* forgotten the key answers with that write or a later one, so what get() read
\* before the change is never "put back over the forgetting and served", however
\* loads, evictions and the writes of this and other processes interleave.
ForgetIsFinal ==
    \A r \in Readers : reader[r].pc = "done" => reader[r].ver >= reader[r].asOf

\* "A cached answer is a stale answer for up to the TTL": an entry get() would still
\* answer from is what the row was less than a TTL ago, whoever changed the row
\* and however long the load took.
StaleBounded ==
    \A k \in held : Hit(k) /\ entry[k].ver < row[k].ver => gone[k][entry[k].ver] < Ttl

\* evict() keeps the map within its bound when loads of several keys finish one
\* after the other and none of the entries has expired.
WithinBound == Cardinality(held) <= MaxEntries

=============================================================================
