-------------------------- MODULE ReceiveWaitProofs --------------------------
(***************************************************************************)
(* Proofs about ReceiveWait, for any number of threads, messages, tiers    *)
(* and claim passes.                                                       *)
(***************************************************************************)
EXTENDS ReceiveWait, FiniteSetTheorems, TLAPS

\* The type of everything but the slot counter, whose type rests on SlotInv.
ShapeOK ==
    /\ message \in [Messages -> {"unsent", "available", "taken", "gone"}]
    /\ report \in [Messages -> Reports]
    /\ generation \in Nat
    /\ thread \in [Threads -> Tasks]

\* A thread about to wake somebody has sent a message, a thread about to claim has
\* found one, and a claim is only made after the count saw something.
TasksMakeSense ==
    \A t \in Threads :
        /\ thread[t].pc \in {"wake", "claim"} => thread[t].msg \in Messages
        /\ thread[t].pc \in {"find", "claim"} => thread[t].saw = TRUE

Shape == ShapeOK /\ TasksMakeSense

\* The task of a thread that does nothing is a task.
LEMMA NoTaskType == NoTask \in Tasks /\ NoTask.pc = "idle" /\ NoTask.held = FALSE
BY WaitAssumption DEF NoTask, Tasks, Points

\* One thread goes from its task to another that makes sense, the others keep theirs.
LEMMA TaskStep ==
    ASSUME Shape, NEW t \in Threads, NEW x \in Tasks,
           x.pc \in {"wake", "claim"} => x.msg \in Messages,
           x.pc \in {"find", "claim"} => x.saw = TRUE,
           thread' = [thread EXCEPT ![t] = x]
    PROVE  thread' \in [Threads -> Tasks] /\ TasksMakeSense'
BY DEF Shape, ShapeOK, TasksMakeSense

\* What an arrival and a report do to the messages is well typed.
LEMMA ArrivalType ==
    ASSUME Shape, NEW m \in Messages
    PROVE  /\ \A r \in Reports : Arrives(m, r) =>
                 /\ message' \in [Messages -> {"unsent", "available", "taken", "gone"}]
                 /\ report' \in [Messages -> Reports]
           /\ Wake(m) => generation' \in Nat /\ report' \in [Messages -> Reports]
BY DEF Shape, ShapeOK, Arrives, Wake, Reports

\* Where a look leads is a point.
LEMMA OnwardType == \A t \in Threads : Onward(t) \in {"park", "leave"}
BY DEF Onward

\* The end of a pass is a task that makes sense.
LEMMA NextPassType ==
    ASSUME Shape, NEW t \in Threads, thread[t].pc = "claim", NextPass(t)
    PROVE  thread' \in [Threads -> Tasks] /\ TasksMakeSense'
<1> DEFINE p == IF thread[t].pass + 1 < Passes THEN "find" ELSE Onward(t)
           n == thread[t].pass + 1
           x == [thread[t] EXCEPT !.pc = p, !.pass = n, !.msg = NoMessage]
<1>1. thread[t] \in Tasks /\ thread[t].saw = TRUE
    BY DEF Shape, ShapeOK, TasksMakeSense
<1>2. thread' = [thread EXCEPT ![t] = x]
    BY DEF NextPass, Shape, ShapeOK
<1>3. p \in {"find", "park", "leave"} /\ n \in Nat
    BY <1>1, OnwardType DEF Tasks
<1> HIDE DEF p, n
<1>4. x \in Tasks /\ x.pc \in {"find", "park", "leave"} /\ x.saw = TRUE
    BY <1>1, <1>3 DEF Tasks, Points
<1> HIDE DEF x
<1> QED
    BY <1>2, <1>4, TaskStep

\* Initially everything has its shape.
LEMMA ShapeInit == Init => Shape
BY NoTaskType DEF Init, Shape, ShapeOK, TasksMakeSense, Reports

\* Every step keeps the shape.
LEMMA ShapeStep == Shape /\ [Next]_vars => Shape'
<1> SUFFICES ASSUME Shape, [Next]_vars PROVE Shape'
    OBVIOUS
<1>0. ShapeOK /\ TasksMakeSense /\ \A t \in Threads : thread[t] \in Tasks
    BY DEF Shape, ShapeOK
<1>1. ASSUME NEW t \in Threads, NEW m \in Messages, Send(t, m)
      PROVE  Shape'
  <2> DEFINE x == [NoTask EXCEPT !.pc = "wake", !.msg = m]
  <2>1. x \in Tasks /\ x.pc = "wake" /\ x.msg \in Messages
      BY NoTaskType DEF Tasks, Points, NoTask
  <2>2. thread' = [thread EXCEPT ![t] = x]
      BY <1>1 DEF Send
  <2> HIDE DEF x
  <2>3. thread' \in [Threads -> Tasks] /\ TasksMakeSense'
      BY <2>1, <2>2, TaskStep
  <2> QED
      BY <1>0, <1>1, <2>3, ArrivalType DEF Send, Shape, ShapeOK, Reports
<1>2. ASSUME NEW t \in Threads, SendWakes(t) \/ Leave(t)
      PROVE  Shape'
  <2>1. thread' = [thread EXCEPT ![t] = NoTask]
      BY <1>2 DEF SendWakes, Leave
  <2>2. thread' \in [Threads -> Tasks] /\ TasksMakeSense'
      BY <2>1, NoTaskType, TaskStep
  <2>3. SendWakes(t) => thread[t].msg \in Messages
      BY <1>0 DEF SendWakes, TasksMakeSense
  <2> QED
      BY <1>0, <1>2, <2>2, <2>3, ArrivalType DEF SendWakes, Leave, Shape, ShapeOK
<1>3. ASSUME NEW t \in Threads, Receive(t)
      PROVE  Shape'
  <2>1. PICK free \in BOOLEAN :
           thread' = [thread EXCEPT ![t] = [NoTask EXCEPT !.pc = "enroll", !.held = free]]
    <3>1. SlotFree \in BOOLEAN
        BY DEF SlotFree
    <3> QED
        BY <1>3, <3>1 DEF Receive
  <2> DEFINE x == [NoTask EXCEPT !.pc = "enroll", !.held = free]
  <2>2. x \in Tasks /\ x.pc = "enroll"
      BY NoTaskType DEF Tasks, Points, NoTask
  <2> HIDE DEF x
  <2>3. thread' \in [Threads -> Tasks] /\ TasksMakeSense'
      BY <2>1, <2>2, TaskStep DEF x
  <2> QED
      BY <1>0, <1>3, <2>3 DEF Receive, Shape, ShapeOK
<1>4. ASSUME NEW t \in Threads,
             Enroll(t) \/ Park(t) \/ Awakes(t) \/ TimesOut(t)
      PROVE  Shape'
  <2>1. PICK p \in {"read", "asleep"} : thread' = [thread EXCEPT ![t].pc = p]
      BY <1>4 DEF Enroll, Park, Awakes, TimesOut
  <2> DEFINE x == [thread[t] EXCEPT !.pc = p]
  <2>2. x \in Tasks /\ x.pc \in {"read", "asleep"}
      BY <1>0 DEF Tasks, Points
  <2>3. thread' = [thread EXCEPT ![t] = x]
      BY <1>0, <2>1
  <2> HIDE DEF x
  <2>4. thread' \in [Threads -> Tasks] /\ TasksMakeSense'
      BY <2>2, <2>3, TaskStep
  <2>5. generation' \in Nat
      BY <1>0, <1>4 DEF Enroll, Park, Awakes, TimesOut, ShapeOK
  <2> QED
      BY <1>0, <1>4, <2>4, <2>5 DEF Enroll, Park, Awakes, TimesOut, Shape, ShapeOK
<1>5. ASSUME NEW t \in Threads, ReadGeneration(t)
      PROVE  Shape'
  <2> DEFINE x == [thread[t] EXCEPT !.pc = "count", !.seen = generation, !.saw = FALSE,
                                    !.tier = 0, !.pass = 0, !.msg = NoMessage]
  <2>1. x \in Tasks /\ x.pc = "count"
      BY <1>0 DEF Tasks, Points, ShapeOK
  <2>2. thread' = [thread EXCEPT ![t] = x]
      BY <1>0, <1>5 DEF ReadGeneration, ShapeOK
  <2> HIDE DEF x
  <2>3. thread' \in [Threads -> Tasks] /\ TasksMakeSense'
      BY <2>1, <2>2, TaskStep
  <2> QED
      BY <1>0, <1>5, <2>3 DEF ReadGeneration, Shape, ShapeOK
<1>6. ASSUME NEW t \in Threads, Count(t)
      PROVE  Shape'
  <2>1. PICK x \in Tasks : /\ x.pc \in {"find", "count", "park", "leave"}
                           /\ x.pc = "find" => x.saw = TRUE
                           /\ thread' = [thread EXCEPT ![t] = x]
    <3>1. CASE thread' = [thread EXCEPT ![t].pc = "find", ![t].saw = TRUE]
      <4> DEFINE x == [thread[t] EXCEPT !.pc = "find", !.saw = TRUE]
      <4>1. x \in Tasks /\ x.pc = "find" /\ x.saw = TRUE
          BY <1>0 DEF Tasks, Points
      <4>2. thread' = [thread EXCEPT ![t] = x]
          BY <1>0, <3>1 DEF ShapeOK
      <4> HIDE DEF x
      <4> QED
          BY <4>1, <4>2
    <3>2. CASE thread' = [thread EXCEPT ![t].tier = thread[t].tier + 1]
      <4> DEFINE n == thread[t].tier + 1
                 x == [thread[t] EXCEPT !.tier = n]
      <4>1. n \in Nat /\ thread[t].pc = "count"
          BY <1>0, <1>6 DEF Tasks, Count
      <4>2. thread' = [thread EXCEPT ![t] = x]
          BY <1>0, <3>2 DEF ShapeOK
      <4> HIDE DEF n
      <4>3. x \in Tasks /\ x.pc = "count"
          BY <1>0, <4>1 DEF Tasks
      <4> HIDE DEF x
      <4> QED
          BY <4>2, <4>3
    <3>3. CASE thread' = [thread EXCEPT ![t].pc = Onward(t)]
      <4> DEFINE x == [thread[t] EXCEPT !.pc = Onward(t)]
      <4>1. x \in Tasks /\ x.pc \in {"park", "leave"}
          BY <1>0, OnwardType DEF Tasks, Points
      <4>2. thread' = [thread EXCEPT ![t] = x]
          BY <1>0, <3>3 DEF ShapeOK
      <4> HIDE DEF x
      <4> QED
          BY <4>1, <4>2
    <3> QED
        BY <1>6, <3>1, <3>2, <3>3 DEF Count
  <2>2. thread' \in [Threads -> Tasks] /\ TasksMakeSense'
      BY <2>1, TaskStep
  <2> QED
      BY <1>0, <1>6, <2>2 DEF Count, Shape, ShapeOK
<1>7. ASSUME NEW t \in Threads, Find(t)
      PROVE  Shape'
  <2>1. CASE thread' = [thread EXCEPT ![t].pc = Onward(t)]
    <3> DEFINE x == [thread[t] EXCEPT !.pc = Onward(t)]
    <3>1. x \in Tasks /\ x.pc \in {"park", "leave"}
        BY <1>0, OnwardType DEF Tasks, Points
    <3>2. thread' = [thread EXCEPT ![t] = x]
        BY <1>0, <2>1 DEF ShapeOK
    <3> HIDE DEF x
    <3>3. thread' \in [Threads -> Tasks] /\ TasksMakeSense'
        BY <3>1, <3>2, TaskStep
    <3> QED
        BY <1>0, <1>7, <3>3 DEF Find, Shape, ShapeOK
  <2>2. ASSUME NEW m \in Waiting(thread[t].tier),
               thread' = [thread EXCEPT ![t].pc = "claim", ![t].msg = m]
        PROVE  Shape'
    <3> DEFINE x == [thread[t] EXCEPT !.pc = "claim", !.msg = m]
    <3>1. m \in Messages /\ thread[t].saw = TRUE
        BY <1>0, <1>7 DEF Waiting, Available, Find, TasksMakeSense
    <3>2. x \in Tasks /\ x.pc = "claim" /\ x.msg \in Messages /\ x.saw = TRUE
        BY <1>0, <3>1 DEF Tasks, Points
    <3>3. thread' = [thread EXCEPT ![t] = x]
        BY <1>0, <2>2 DEF ShapeOK
    <3> HIDE DEF x
    <3>4. thread' \in [Threads -> Tasks] /\ TasksMakeSense'
        BY <3>2, <3>3, TaskStep
    <3> QED
        BY <1>0, <1>7, <3>4 DEF Find, Shape, ShapeOK
  <2> QED
      BY <1>7, <2>1, <2>2 DEF Find
<1>8. ASSUME NEW t \in Threads, ClaimDelivers(t) \/ LookFails(t)
      PROVE  Shape'
  <2> DEFINE x == [thread[t] EXCEPT !.pc = "leave", !.msg = NoMessage]
  <2>1. x \in Tasks /\ x.pc = "leave"
      BY <1>0 DEF Tasks, Points
  <2>2. thread' = [thread EXCEPT ![t] = x]
      BY <1>0, <1>8 DEF ClaimDelivers, LookFails, ShapeOK
  <2> HIDE DEF x
  <2>3. thread' \in [Threads -> Tasks] /\ TasksMakeSense'
      BY <2>1, <2>2, TaskStep
  <2> QED
      BY <1>0, <1>8, <2>3 DEF ClaimDelivers, LookFails, Shape, ShapeOK, Reports
<1>9. ASSUME NEW t \in Threads, ClaimDeadLetters(t) \/ ClaimLost(t)
      PROVE  Shape'
  <2>1. thread' \in [Threads -> Tasks] /\ TasksMakeSense'
      BY <1>9, NextPassType DEF ClaimDeadLetters, ClaimLost
  <2> QED
      BY <1>0, <1>9, <2>1 DEF ClaimDeadLetters, ClaimLost, Shape, ShapeOK, Reports
<1>10. ASSUME NEW t \in Threads, DeadlinePasses(t)
       PROVE  Shape'
  <2> DEFINE x == [thread[t] EXCEPT !.expired = TRUE]
  <2>1. /\ x \in Tasks /\ x.pc = thread[t].pc /\ x.msg = thread[t].msg
        /\ x.saw = thread[t].saw
      BY <1>0 DEF Tasks
  <2>2. thread' = [thread EXCEPT ![t] = x]
      BY <1>0, <1>10 DEF DeadlinePasses, ShapeOK
  <2> HIDE DEF x
  <2>3. thread' \in [Threads -> Tasks] /\ TasksMakeSense'
      BY <1>0, <2>1, <2>2, TaskStep DEF TasksMakeSense
  <2> QED
      BY <1>0, <1>10, <2>3 DEF DeadlinePasses, Shape, ShapeOK
<1>11. CASE Arrival
  <2>1. UNCHANGED thread
      BY <1>11 DEF Arrival, RemoteSend, SweepEndsLease, RemoteEndsLease, Reported, StreamLoses
  <2>2. TasksMakeSense'
      BY <1>0, <2>1 DEF TasksMakeSense
  <2>3. ShapeOK'
      BY <1>0, <1>11, <2>1, ArrivalType
         DEF Arrival, RemoteSend, SweepEndsLease, RemoteEndsLease, Reported, StreamLoses,
             ShapeOK, Reports
  <2> QED
      BY <2>2, <2>3 DEF Shape
<1>12. CASE UNCHANGED vars
    BY <1>0, <1>12 DEF vars, Shape, ShapeOK, TasksMakeSense
<1> QED
    BY <1>1, <1>2, <1>3, <1>4, <1>5, <1>6, <1>7, <1>8, <1>9, <1>10, <1>11, <1>12
       DEF Next, Step, Look

-----------------------------------------------------------------------------
(***************************************************************************)
(* Slots: the counter is the number of threads that hold one, nobody waits *)
(* without one, and there are never more than the limit.                   *)
(***************************************************************************)
Holders == {t \in Threads : thread[t].held = TRUE}

SlotInv ==
    /\ inUse = Cardinality(Holders) /\ inUse <= Limit
    /\ \A t \in Threads : thread[t].pc \in {"idle", "wake"} => thread[t].held = FALSE
    /\ \A t \in Threads : thread[t].pc \in {"park", "asleep"} => thread[t].held = TRUE

\* A set of threads is finite, and its size is a number.
LEMMA HoldersFinite == IsFiniteSet(Holders) /\ Cardinality(Holders) \in Nat
<1>1. Holders \in SUBSET Threads
    BY DEF Holders
<1>2. IsFiniteSet(Holders)
    BY <1>1, FS_Subset, WaitAssumption
<1> QED
    BY <1>2, FS_CardinalityType

\* The limit is a number above zero, below the number of threads when there are two.
LEMMA LimitType ==
    /\ Limit \in Nat \ {0}
    /\ Cardinality(Threads) \in Nat
    /\ Cardinality(Threads) > 1 => Limit < Cardinality(Threads)
<1>1. Cardinality(Threads) \in Nat
    BY FS_CardinalityType, WaitAssumption
<1> QED
    BY <1>1 DEF Limit

\* A step that gives and takes no slot keeps the invariant.
LEMMA SameSlots ==
    ASSUME Shape, SlotInv, NEW t \in Threads, UNCHANGED inUse,
           thread' \in [Threads -> Tasks],
           \A s \in Threads \ {t} : thread'[s] = thread[s],
           thread'[t].held = thread[t].held,
           thread'[t].pc \in {"idle", "wake"} => thread[t].pc \in {"idle", "wake"},
           thread'[t].pc \in {"park", "asleep"} => thread[t].held = TRUE
    PROVE  SlotInv'
<1>1. Holders' = Holders
    BY DEF Holders
<1> QED
    BY <1>1 DEF SlotInv, Limit

\* A look that leads to the wait has a slot.
LEMMA OnwardHeld ==
    ASSUME Shape, NEW t \in Threads, Onward(t) = "park"
    PROVE  thread[t].held = TRUE
<1>1. thread[t].held \in BOOLEAN
    BY DEF Shape, ShapeOK, Tasks
<1> QED
    BY <1>1 DEF Onward

\* Every step keeps count of the slots.
LEMMA SlotStep == Shape /\ SlotInv /\ [Next]_vars => SlotInv'
<1> SUFFICES ASSUME Shape, SlotInv, [Next]_vars PROVE SlotInv'
    OBVIOUS
<1>0. Shape' /\ thread' \in [Threads -> Tasks] /\ thread \in [Threads -> Tasks]
    BY ShapeStep DEF Shape, ShapeOK
<1>1. ASSUME NEW t \in Threads, NEW m \in Messages, Send(t, m)
      PROVE  SlotInv'
  <2>1. thread'[t].held = thread[t].held /\ thread'[t].pc = "wake"
      BY <1>0, <1>1 DEF Send, SlotInv, NoTask
  <2> QED
      BY <1>0, <1>1, <2>1, SameSlots DEF Send
<1>2. ASSUME NEW t \in Threads, SendWakes(t)
      PROVE  SlotInv'
  <2>1. thread'[t].held = thread[t].held /\ thread'[t].pc = "idle"
      BY <1>0, <1>2 DEF SendWakes, SlotInv, NoTask
  <2> QED
      BY <1>0, <1>2, <2>1, SameSlots DEF SendWakes
<1>3. ASSUME NEW t \in Threads, Receive(t)
      PROVE  SlotInv'
  <2>1. /\ thread'[t].pc = "enroll"
        /\ thread'[t].held = SlotFree
        /\ \A s \in Threads \ {t} : thread'[s] = thread[s]
      BY <1>0, <1>3 DEF Receive, NoTask
  <2>2. thread[t].held = FALSE /\ t \notin Holders
      BY <1>3 DEF Receive, SlotInv, Holders
  <2>3. CASE SlotFree
    <3>1. Holders' = Holders \cup {t}
        BY <2>1, <2>3 DEF Holders
    <3>2. Cardinality(Holders') = Cardinality(Holders) + 1
        BY <2>2, <3>1, HoldersFinite, FS_AddElement
    <3>3. inUse' = Cardinality(Holders') /\ inUse' <= Limit
        BY <1>3, <2>3, <3>2, LimitType, HoldersFinite DEF Receive, SlotInv, SlotFree
    <3> QED
        BY <2>1, <3>3 DEF SlotInv, Limit
  <2>4. CASE ~SlotFree
    <3>1. Holders' = Holders
        BY <2>1, <2>2, <2>4 DEF Holders
    <3> QED
        BY <1>3, <2>1, <2>4, <3>1 DEF SlotInv, Limit, Receive
  <2> QED
      BY <2>3, <2>4
<1>4. ASSUME NEW t \in Threads, Leave(t)
      PROVE  SlotInv'
  <2>1. /\ thread'[t].pc = "idle" /\ thread'[t].held = FALSE
        /\ \A s \in Threads \ {t} : thread'[s] = thread[s]
      BY <1>0, <1>4 DEF Leave, NoTask
  <2>2. thread[t].held \in BOOLEAN
      BY <1>0 DEF Tasks
  <2>3. Holders' = Holders \ {t}
      BY <2>1 DEF Holders
  <2>4. Cardinality(Holders') = IF thread[t].held = TRUE THEN Cardinality(Holders) - 1
                                ELSE Cardinality(Holders)
      BY <2>3, HoldersFinite, FS_RemoveElement DEF Holders
  <2>5. inUse' = IF thread[t].held = TRUE THEN inUse - 1 ELSE inUse
      BY <1>4, <2>2 DEF Leave
  <2>6. inUse' = Cardinality(Holders') /\ inUse' <= Limit
      BY <2>4, <2>5, LimitType, HoldersFinite DEF SlotInv
  <2> QED
      BY <2>1, <2>6 DEF SlotInv, Limit
<1>5. ASSUME NEW t \in Threads,
             \/ Enroll(t) \/ ReadGeneration(t) \/ Park(t) \/ Awakes(t)
             \/ TimesOut(t) \/ DeadlinePasses(t) \/ ClaimDelivers(t) \/ LookFails(t)
      PROVE  SlotInv'
  <2>1. /\ thread'[t].held = thread[t].held /\ UNCHANGED inUse
        /\ \A s \in Threads \ {t} : thread'[s] = thread[s]
        /\ \/ thread'[t].pc \in {"read", "count", "leave"}
           \/ thread[t].pc = "park" /\ thread'[t].pc = "asleep"
           \/ thread'[t].pc = thread[t].pc
      BY <1>0, <1>5 DEF Enroll, ReadGeneration, Park, Awakes, TimesOut, DeadlinePasses,
                        ClaimDelivers, LookFails, Tasks
  <2> QED
      BY <1>0, <2>1, SameSlots DEF SlotInv
<1>6. ASSUME NEW t \in Threads,
             Count(t) \/ Find(t) \/ ClaimDeadLetters(t) \/ ClaimLost(t)
      PROVE  SlotInv'
  <2>1. /\ thread'[t].held = thread[t].held /\ UNCHANGED inUse
        /\ \A s \in Threads \ {t} : thread'[s] = thread[s]
        /\ thread'[t].pc \in {"find", "count", "claim", Onward(t)}
      BY <1>0, <1>6 DEF Count, Find, ClaimDeadLetters, ClaimLost, NextPass, Tasks
  <2>2. thread'[t].pc \in {"park", "asleep"} => thread[t].held = TRUE
      BY <2>1, OnwardType, OnwardHeld
  <2>3. thread'[t].pc \notin {"idle", "wake"}
      BY <2>1, OnwardType
  <2> QED
      BY <1>0, <2>1, <2>2, <2>3, SameSlots
<1>7. CASE Arrival
  <2>1. UNCHANGED <<thread, inUse>>
      BY <1>7 DEF Arrival, RemoteSend, SweepEndsLease, RemoteEndsLease, Reported, StreamLoses
  <2> QED
      BY <2>1 DEF SlotInv, Holders, Limit
<1>8. CASE UNCHANGED vars
    BY <1>8 DEF vars, SlotInv, Holders, Limit
<1> QED
    BY <1>1, <1>2, <1>3, <1>4, <1>5, <1>6, <1>7, <1>8 DEF Next, Step, Look

\* Initially no slot is held.
LEMMA SlotInit == Init => SlotInv
<1> SUFFICES ASSUME Init PROVE SlotInv
    OBVIOUS
<1>1. \A t \in Threads : thread[t].pc = "idle" /\ thread[t].held = FALSE
    BY NoTaskType DEF Init
<1>2. Holders = {}
    BY <1>1 DEF Holders
<1> QED
    BY <1>1, <1>2, FS_EmptySet, LimitType DEF Init, SlotInv

\* LongPollSlots and the waiters stay well typed; in particular no slot is given
\* back that was not held, so the counter never goes below zero.
THEOREM TypeCorrect == Spec => []TypeOK
<1>1. Shape /\ SlotInv => TypeOK
    BY HoldersFinite DEF Shape, ShapeOK, SlotInv, TypeOK
<1> QED
    BY <1>1, ShapeInit, ShapeStep, SlotInit, SlotStep, PTL DEF Spec

\* However many receives wait, and however many threads the process has, one of
\* them is left for requests with work to do.
THEOREM OneThreadLeft == Spec => []ThreadLeft
<1>1. Shape /\ SlotInv => ThreadLeft
  <2> SUFFICES ASSUME Shape, SlotInv, Cardinality(Threads) > 1,
                      \A t \in Threads : thread[t].pc \in {"park", "asleep"}
               PROVE  FALSE
      BY DEF ThreadLeft
  <2>1. Holders = Threads
      BY DEF SlotInv, Holders
  <2> QED
      BY <2>1, LimitType DEF SlotInv
<1> QED
    BY <1>1, ShapeInit, ShapeStep, SlotInit, SlotStep, PTL DEF Spec

-----------------------------------------------------------------------------
(***************************************************************************)
(* Wake-ups.  While a receive looks and waits, the generation it read is   *)
(* not ahead of the entry's (its enrolment keeps the entry, so nobody      *)
(* starts the generation again); and as long as the two are the same, no   *)
(* message of a tier it counted as empty has been reported since.          *)
(***************************************************************************)
Looking == {"count", "find", "claim", "park", "asleep"}

SeenInv == \A t \in Threads : thread[t].pc \in Looking => thread[t].seen <= generation

\* Tiers that t has counted as empty in this look.
Counted(t, k) == thread[t].pc \in {"park", "asleep"} \/ (thread[t].pc = "count" /\ k < thread[t].tier)

EmptyInv ==
    \A t \in Threads, m \in Messages :
        /\ thread[t].saw = FALSE /\ thread[t].seen = generation
        /\ Counted(t, Tier[m]) /\ message[m] = "available"
        => report[m] # "done"

WakeInv == SeenInv /\ EmptyInv

\* A report that reaches a waiter leaves the generation it read behind.
LEMMA WakeMoves ==
    ASSUME Shape, WakeInv, NEW n \in Messages, Wake(n), NEW t \in Threads,
           thread[t].pc \in Looking
    PROVE  thread[t].seen < generation'
<1>1. Enrolled(t)
    BY DEF Looking, Enrolled
<1>2. generation' = generation + 1
    BY <1>1 DEF Wake
<1> QED
    BY <1>2 DEF Shape, ShapeOK, Tasks, WakeInv, SeenInv

\* Every step keeps the wake-up invariant.
LEMMA WakeStep == Shape /\ WakeInv /\ [Next]_vars => WakeInv'
<1> SUFFICES ASSUME Shape, WakeInv, [Next]_vars PROVE WakeInv'
    OBVIOUS
<1>0. /\ Shape' /\ ShapeOK /\ thread' \in [Threads -> Tasks] /\ thread \in [Threads -> Tasks]
      /\ generation \in Nat /\ generation' \in Nat
    BY ShapeStep DEF Shape, ShapeOK
<1>t. \A t \in Threads : /\ thread[t].seen \in Nat /\ thread[t].saw \in BOOLEAN
                         /\ thread[t].tier \in Nat
    BY <1>0 DEF Tasks
<1>k. \A m \in Messages : Tier[m] \in Nat /\ Tier[m] < Tiers
    BY WaitAssumption
<1>1. ASSUME NEW t \in Threads, NEW m \in Messages, Send(t, m)
      PROVE  WakeInv'
  <2>1. /\ thread'[t].pc = "wake" /\ generation' = generation
        /\ \A s \in Threads \ {t} : thread'[s] = thread[s]
      BY <1>0, <1>1 DEF Send, NoTask
  <2>2. SeenInv'
      BY <2>1 DEF WakeInv, SeenInv, Looking
  <2>3. /\ \A n \in Messages \ {m} : report'[n] = report[n] /\ message'[n] = message[n]
        /\ report'[m] = "send"
      BY <1>0, <1>1 DEF Send, Arrives, ShapeOK
  <2>4. EmptyInv'
      BY <2>1, <2>3 DEF WakeInv, EmptyInv, Counted
  <2> QED
      BY <2>2, <2>4 DEF WakeInv
<1>2. ASSUME NEW t \in Threads, SendWakes(t)
      PROVE  WakeInv'
  <2>1. /\ thread'[t].pc = "idle" /\ thread[t].msg \in Messages
        /\ \A s \in Threads \ {t} : thread'[s] = thread[s]
      BY <1>0, <1>2 DEF SendWakes, NoTask, Shape, TasksMakeSense
  <2>2. \A s \in Threads : thread'[s].pc \in Looking =>
           thread'[s] = thread[s] /\ thread[s].seen < generation'
      BY <1>2, <2>1, WakeMoves DEF SendWakes, Looking
  <2> QED
      BY <1>0, <1>t, <2>2 DEF WakeInv, SeenInv, EmptyInv, Counted, Looking
<1>3. ASSUME NEW t \in Threads, Receive(t) \/ Leave(t) \/ Awakes(t) \/ TimesOut(t)
      PROVE  WakeInv'
  <2>1. /\ thread'[t].pc \notin Looking
        /\ \A s \in Threads \ {t} : thread'[s] = thread[s]
        /\ UNCHANGED <<message, report, generation>>
    <3>1. CASE Receive(t)
        BY <1>0, <3>1 DEF Receive, NoTask, Looking
    <3>2. CASE Leave(t)
        BY <1>0, <3>2 DEF Leave, NoTask, Looking
    <3>3. CASE Awakes(t) \/ TimesOut(t)
        BY <1>0, <3>3 DEF Awakes, TimesOut, Looking, Tasks
    <3> QED
        BY <1>3, <3>1, <3>2, <3>3
  <2> QED
      BY <2>1 DEF WakeInv, SeenInv, EmptyInv, Counted, Looking
<1>4. ASSUME NEW t \in Threads, Enroll(t)
      PROVE  WakeInv'
  <2>1. /\ thread'[t].pc = "read"
        /\ \A s \in Threads \ {t} : thread'[s] = thread[s]
        /\ UNCHANGED <<message, report>>
      BY <1>0, <1>4 DEF Enroll, Tasks
  <2>2. CASE \E s \in Threads : Enrolled(s)
    <3>1. generation' = generation
        BY <1>4, <2>2 DEF Enroll
    <3> QED
        BY <2>1, <3>1 DEF WakeInv, SeenInv, EmptyInv, Counted, Looking
  <2>3. CASE ~ \E s \in Threads : Enrolled(s)
    <3>1. \A s \in Threads : thread'[s].pc \notin Looking
        BY <2>1, <2>3 DEF Enrolled, Looking
    <3> QED
        BY <3>1 DEF WakeInv, SeenInv, EmptyInv, Counted, Looking
  <2> QED
      BY <2>2, <2>3
<1>5. ASSUME NEW t \in Threads, ReadGeneration(t)
      PROVE  WakeInv'
  <2>1. /\ thread'[t].pc = "count" /\ thread'[t].seen = generation /\ thread'[t].tier = 0
        /\ \A s \in Threads \ {t} : thread'[s] = thread[s]
        /\ UNCHANGED <<message, report, generation>>
      BY <1>0, <1>5 DEF ReadGeneration, Tasks
  <2> QED
      BY <1>0, <1>k, <2>1 DEF WakeInv, SeenInv, EmptyInv, Counted, Looking
<1>6. ASSUME NEW t \in Threads, Count(t)
      PROVE  WakeInv'
  <2> DEFINE k == thread[t].tier
  <2>1. /\ thread[t].pc = "count" /\ thread'[t].seen = thread[t].seen
        /\ \A s \in Threads \ {t} : thread'[s] = thread[s]
        /\ UNCHANGED <<message, report, generation>>
      BY <1>0, <1>6 DEF Count, Tasks
  <2>2. SeenInv'
      BY <1>t, <2>1 DEF WakeInv, SeenInv, Looking
  <2>3. ASSUME NEW m \in Messages,
               thread'[t].saw = FALSE, thread'[t].seen = generation',
               Counted(t, Tier[m])', message'[m] = "available"
        PROVE  report'[m] # "done"
    <3>1. thread[t].saw = FALSE /\ Waiting(k) = {}
        BY <1>0, <1>6, <2>3 DEF Count, Tasks
    <3>2. CASE k + 1 < Tiers
      <4>1. thread'[t].pc = "count" /\ thread'[t].tier = k + 1
          BY <1>0, <1>6, <3>1, <3>2, <1>t, WaitAssumption DEF Count, Tasks
      <4>2. Tier[m] < k \/ Tier[m] = k
          BY <1>k, <1>t, <2>3, <4>1 DEF Counted
      <4> QED
          BY <2>1, <2>3, <3>1, <4>2 DEF WakeInv, EmptyInv, Counted, Waiting, Available
    <3>3. CASE k + 1 >= Tiers
      <4>1. Tier[m] < k \/ Tier[m] = k
          BY <1>k, <1>t, <3>3, WaitAssumption
      <4> QED
          BY <2>1, <2>3, <3>1, <4>1 DEF WakeInv, EmptyInv, Counted, Waiting, Available
    <3> QED
        BY <3>2, <3>3, <1>t, WaitAssumption
  <2>4. EmptyInv'
      BY <2>1, <2>3 DEF WakeInv, EmptyInv, Counted
  <2> QED
      BY <2>2, <2>4 DEF WakeInv
<1>7. ASSUME NEW t \in Threads,
             Find(t) \/ ClaimDelivers(t) \/ ClaimDeadLetters(t) \/ ClaimLost(t)
      PROVE  WakeInv'
  <2>1. /\ thread[t].saw = TRUE /\ thread[t].pc \in Looking
        /\ thread'[t].saw = thread[t].saw /\ thread'[t].seen = thread[t].seen
        /\ \A s \in Threads \ {t} : thread'[s] = thread[s]
        /\ UNCHANGED generation
      BY <1>0, <1>7 DEF Find, ClaimDelivers, ClaimDeadLetters, ClaimLost, NextPass, Tasks,
                        Shape, TasksMakeSense, Looking
  <2>2. \A m \in Messages : message'[m] = "available" => message[m] = "available"
                                                       /\ report'[m] = report[m]
      BY <1>0, <1>7 DEF Find, ClaimDelivers, ClaimDeadLetters, ClaimLost, ShapeOK
  <2> QED
      BY <2>1, <2>2 DEF WakeInv, SeenInv, EmptyInv, Counted
<1>8. ASSUME NEW t \in Threads, LookFails(t)
      PROVE  WakeInv'
  <2>1. /\ thread'[t].pc = "leave"
        /\ \A s \in Threads \ {t} : thread'[s] = thread[s]
        /\ UNCHANGED <<message, report, generation>>
      BY <1>0, <1>8 DEF LookFails, Tasks
  <2> QED
      BY <2>1 DEF WakeInv, SeenInv, EmptyInv, Counted, Looking
<1>9. ASSUME NEW t \in Threads, Park(t) \/ DeadlinePasses(t)
      PROVE  WakeInv'
  <2>1. /\ \/ thread[t].pc = "park" /\ thread'[t].pc \in {"read", "asleep"}
           \/ thread'[t].pc = thread[t].pc
        /\ thread'[t].seen = thread[t].seen /\ thread'[t].saw = thread[t].saw
        /\ thread'[t].tier = thread[t].tier
        /\ \A s \in Threads \ {t} : thread'[s] = thread[s]
        /\ UNCHANGED <<message, report, generation>>
      BY <1>0, <1>9 DEF Park, DeadlinePasses, Tasks
  <2> QED
      BY <2>1 DEF WakeInv, SeenInv, EmptyInv, Counted, Looking
<1>10. ASSUME NEW m \in Messages, Reported(m)
       PROVE  WakeInv'
  <2>1. UNCHANGED thread
      BY <1>10 DEF Reported
  <2>2. \A s \in Threads : thread[s].pc \in Looking => thread[s].seen < generation'
      BY <1>10, WakeMoves DEF Reported
  <2> QED
      BY <1>0, <1>t, <2>1, <2>2 DEF WakeInv, SeenInv, EmptyInv, Counted, Looking
<1>11. ASSUME NEW m \in Messages,
              RemoteSend(m) \/ SweepEndsLease(m) \/ RemoteEndsLease(m) \/ StreamLoses(m)
       PROVE  WakeInv'
  <2>1. /\ UNCHANGED <<thread, generation>> /\ report'[m] # "done"
        /\ \A n \in Messages \ {m} : report'[n] = report[n] /\ message'[n] = message[n]
      BY <1>0, <1>11 DEF RemoteSend, SweepEndsLease, RemoteEndsLease, StreamLoses, Arrives, ShapeOK
  <2> QED
      BY <2>1 DEF WakeInv, SeenInv, EmptyInv, Counted
<1>12. CASE UNCHANGED vars
    BY <1>12 DEF vars, WakeInv, SeenInv, EmptyInv, Counted
<1> QED
    BY <1>1, <1>2, <1>3, <1>4, <1>5, <1>6, <1>7, <1>8, <1>9, <1>10, <1>11, <1>12
       DEF Next, Step, Look, Arrival

\* ChangeWaiters loses no wake-up: whatever arrives and is reported between a
\* receive's first count and its sleep, in any process and on any thread, ends
\* that sleep.
THEOREM WakeupsKept == Spec => []NoLostWakeup
<1>1. Init => WakeInv
    BY NoTaskType DEF Init, WakeInv, SeenInv, EmptyInv, Counted, Looking
<1>2. Shape /\ WakeInv => NoLostWakeup
  <2>1. Shape => \A t \in Threads : thread[t].saw \in BOOLEAN
      BY DEF Shape, ShapeOK, Tasks
  <2> QED
      BY <2>1 DEF WakeInv, EmptyInv, Counted, NoLostWakeup, Unwoken, Available
<1> QED
    BY <1>1, <1>2, ShapeInit, ShapeStep, WakeStep, PTL DEF Spec

=============================================================================
