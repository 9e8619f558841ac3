-------------------------- MODULE SchedulerProofs --------------------------
(***************************************************************************)
(* Proofs about Scheduler, for any tasks, interval, grace period and bound *)
(* on the firings that are under way at once.                              *)
(***************************************************************************)
EXTENDS Scheduler, TLAPS

\* The timer has a task in hand: from taking it to scheduling it again.
Busy == timer.pc \in {"taken", "counted", "launched"}

\* What it has in hand was scheduled once, is due and has left the queue.
Carries ==
  Busy => /\ timer.task \in Tasks
          /\ entry[timer.task].is # "new"
          /\ entry[timer.task].left =< 0
          /\ ~entry[timer.task].queued

\* Nothing is known of a task nobody has scheduled.
Unscheduled ==
  \A t \in Tasks : entry[t].is = "new" => ~entry[t].queued /\ inFlight[t] = 0

\* _inFlight counts the threads of a task, and one more from the moment the
\* timer has counted it until the thread exists.
Pending(t) == IF timer.pc = "counted" /\ timer.task = t THEN 1 ELSE 0

Accounted ==
  \A t \in Tasks : inFlight[t] = firing[t].launched + firing[t].inside + Pending(t)

\* A task with no room for another firing is neither due nor about to be counted.
FullIsNotDue ==
  \A t \in Tasks : inFlight[t] = MaxFirings =>
    /\ ~(timer.pc = "taken" /\ timer.task = t)
    /\ running => ~(entry[t].queued /\ entry[t].left =< 0)

\* The timer thread is gone once it has been joined.
Joined ==
  /\ owner.pc # "up" => ~running
  /\ owner.pc \in {"off", "drain"} => timer.pc = "off"

CleanStop == owner.pc = "off" /\ owner.clean => \A t \in Tasks : inFlight[t] = 0

\* A task that was cancelled while none of its firings was in its function stays
\* marked, whatever the timer had begun with it.
AtRest ==
  \A t \in quiet : entry[t].cancelled /\ entry[t].is = "over" /\ firing[t].inside = 0

\* The timer's deadline is no later than the first entry: than any entry while it
\* holds the mutex, and than those that were notified of while it sleeps.
Seen == IF timer.pc = "block" THEN Queue ELSE Queue \ unsaid

DeadlineFits ==
  timer.pc \in {"block", "asleep"} =>
    \A t \in Seen :
      timer.until # None /\ (timer.until =< entry[t].left \/ timer.until = 0)

IInv ==
  /\ TypeOK
  /\ Carries
  /\ Unscheduled
  /\ Accounted
  /\ FullIsNotDue
  /\ Joined
  /\ CleanStop
  /\ AtRest
  /\ DeadlineFits

\* The invariant holds at first: nothing is scheduled.
LEMMA InitInv == Init => IInv
<1> SUFFICES ASSUME Init PROVE IInv
    OBVIOUS
<1>0. 0 \in Left /\ 0 \in 0 .. Grace /\ 0 \in 0 .. MaxFirings /\ MaxFirings # 0
    BY SchedulerAssumption DEF Left
<1>1. entry \in [Tasks -> Entries]
    BY <1>0 DEF Init, Entries, Kinds
<1>2. timer \in Timers /\ owner \in Owners
    BY <1>0 DEF Init, NoTimer, Timers, Owners
<1>3. /\ firing \in [Tasks -> [launched : 0 .. MaxFirings, inside : 0 .. MaxFirings]]
      /\ inFlight \in [Tasks -> 0 .. MaxFirings]
    BY <1>0 DEF Init
<1>4. TypeOK
    BY <1>1, <1>2, <1>3 DEF Init, TypeOK
<1>5. timer.pc = "off" /\ owner.pc = "off"
    BY DEF Init, NoTimer
<1>6. Accounted
  <2>1. ASSUME NEW t \in Tasks
        PROVE  inFlight[t] = firing[t].launched + firing[t].inside + Pending(t)
    <3>1. inFlight[t] = 0 /\ firing[t].launched = 0 /\ firing[t].inside = 0
        BY DEF Init
    <3>2. Pending(t) = 0
        BY <1>5 DEF Pending
    <3> QED
        BY <3>1, <3>2
  <2> QED
      BY <2>1 DEF Accounted
<1> QED
    BY <1>0, <1>4, <1>5, <1>6 DEF Init, IInv, Carries, Busy, Unscheduled, FullIsNotDue, Joined,
                             CleanStop, AtRest, DeadlineFits, Seen

-----------------------------------------------------------------------------
\* Types

\* Whatever becomes of one entry, of the timer or of the owner has its type.
LEMMA FieldTypes ==
  ASSUME TypeOK
  PROVE  /\ \A t \in Tasks : /\ entry[t] \in Entries
                             /\ firing[t] \in [launched : 0 .. MaxFirings, inside : 0 .. MaxFirings]
                             /\ inFlight[t] \in 0 .. MaxFirings
         /\ timer \in Timers /\ owner \in Owners
         /\ Notified \in Timers /\ NoTimer \in Timers /\ Looking \in Timers
BY DEF TypeOK, Notified, NoTimer, Looking, Timers

\* Scheduling and cancelling keep the types.
LEMMA TypeCallers ==
  ASSUME IInv, \/ \E t \in Tasks, kind \in Kinds, delay \in 0 .. Interval : Schedule(t, kind, delay)
               \/ \E t \in Tasks : ScheduleNotify(t) \/ Cancel(t)
  PROVE  TypeOK'
<1>1. ASSUME NEW t \in Tasks, NEW kind \in Kinds, NEW delay \in 0 .. Interval,
             Schedule(t, kind, delay)
      PROVE  TypeOK'
  <2>1. delay \in Left
      BY SchedulerAssumption DEF Left
  <2>2. [kind |-> kind, left |-> delay, is |-> "listed", queued |-> TRUE, cancelled |-> FALSE]
          \in Entries
      BY <2>1 DEF Entries
  <2> QED
      BY <1>1, <2>2, FieldTypes DEF IInv, TypeOK, Schedule
<1>2. ASSUME NEW t \in Tasks, Cancel(t)
      PROVE  TypeOK'
  <2>1. [entry[t] EXCEPT !.kind = "once", !.is = "over", !.cancelled = TRUE] \in Entries
      BY FieldTypes DEF IInv, Entries, Kinds
  <2>2. entry' = [entry EXCEPT ![t] =
                    [entry[t] EXCEPT !.kind = "once", !.is = "over", !.cancelled = TRUE]]
      BY <1>2 DEF Cancel
  <2>3. entry' \in [Tasks -> Entries]
      BY <2>1, <2>2 DEF IInv, TypeOK
  <2>4. timer' \in Timers /\ quiet' \in SUBSET Tasks
      BY <1>2, FieldTypes DEF IInv, TypeOK, Cancel
  <2> QED
      BY <1>2, <2>3, <2>4 DEF IInv, TypeOK, Cancel
<1>3. ASSUME NEW t \in Tasks, ScheduleNotify(t)
      PROVE  TypeOK'
    BY <1>3, FieldTypes DEF IInv, TypeOK, ScheduleNotify
<1> QED
    BY <1>1, <1>2, <1>3

\* The timer's waits keep the types.
LEMMA TypeWaits ==
  ASSUME IInv, Returns \/ NothingDue \/ FallsAsleep \/ Wakes \/ TimesOut
  PROVE  TypeOK'
<1>1. timer' \in Timers
  <2>0. timer \in Timers
      BY FieldTypes DEF IInv
  <2>1. CASE Returns
      BY <2>1, FieldTypes DEF Returns, IInv
  <2>2. CASE NothingDue
    <3>1. \A t \in Queue : entry[t].left \in 0 .. Interval
      <4>1. \A t \in Queue : entry[t].left \in Left /\ ~(entry[t].left =< 0)
          BY <2>2, FieldTypes DEF IInv, NothingDue, Queue, Due, Entries
      <4>2. \A l \in Left : l =< 0 \/ l \in 0 .. Interval
          BY SchedulerAssumption DEF Left
      <4> QED
          BY <4>1, <4>2
    <3>2. \A u \in (0 .. Interval) \union {None} :
             [timer EXCEPT !.pc = "block", !.until = u] \in Timers
        BY <2>0 DEF Timers
    <3> QED
        BY <2>2, <3>1, <3>2 DEF NothingDue
  <2>3. CASE FallsAsleep \/ Wakes \/ TimesOut
    <3>1. /\ [timer EXCEPT !.pc = "asleep"] \in Timers
          /\ [timer EXCEPT !.pc = "block"] \in Timers
        BY <2>0 DEF Timers
    <3> QED
        BY <2>3, <3>1, FieldTypes DEF FallsAsleep, Wakes, TimesOut, IInv
  <2> QED
      BY <2>1, <2>2, <2>3
<1> QED
    BY <1>1 DEF IInv, TypeOK, Returns, NothingDue, FallsAsleep, Wakes, TimesOut, TimerOnly

\* Taking, counting, launching and scheduling again keep the types.
LEMMA TypeFires ==
  ASSUME IInv, (\E t \in Tasks : Take(t)) \/ Count \/ Launch \/ Reschedule
  PROVE  TypeOK'
<1>0. timer \in Timers
    BY FieldTypes DEF IInv
<1>1. ASSUME NEW t \in Tasks, Take(t)
      PROVE  TypeOK'
  <2>1. Spent(entry[t]) \in Entries /\ [entry[t] EXCEPT !.queued = FALSE] \in Entries
    <3>1. 0 \in Left
        BY SchedulerAssumption DEF Left
    <3> QED
        BY <3>1, FieldTypes DEF IInv, Spent, Entries, Kinds
  <2>2. [timer EXCEPT !.pc = "taken", !.task = t] \in Timers
      BY <1>0 DEF Timers
  <2>3. entry' \in [Tasks -> Entries] /\ timer' \in Timers
      BY <1>0, <1>1, <2>1, <2>2, FieldTypes DEF IInv, TypeOK, Take
  <2> QED
      BY <1>1, <2>3 DEF IInv, TypeOK, Take, TimerOnly
<1>2. ASSUME Count
      PROVE  TypeOK'
  <2>1. timer.task \in Tasks /\ inFlight[timer.task] # MaxFirings
      BY <1>2 DEF IInv, Count, Carries, Busy, FullIsNotDue
  <2>2. inFlight[timer.task] + 1 \in 0 .. MaxFirings
      BY <2>1, FieldTypes, SchedulerAssumption DEF IInv
  <2>3. timer' \in Timers
      BY <1>0, <1>2 DEF Count, Timers
  <2>4. inFlight' \in [Tasks -> 0 .. MaxFirings]
      BY <1>2, <2>2 DEF IInv, TypeOK, Count
  <2> QED
      BY <1>2, <2>3, <2>4 DEF IInv, TypeOK, Count, TimerOnly
<1>3. ASSUME Launch
      PROVE  TypeOK'
  <2>1. timer.task \in Tasks
      BY <1>3 DEF IInv, Launch, Carries, Busy
  <2>2. firing[timer.task].launched + 1 \in 0 .. MaxFirings
    <3>1. inFlight[timer.task] = firing[timer.task].launched + firing[timer.task].inside + 1
        BY <1>3, <2>1 DEF IInv, Accounted, Pending, Launch
    <3>2. firing[timer.task].launched \in Nat /\ firing[timer.task].inside \in Nat
        BY <2>1, FieldTypes, SchedulerAssumption DEF IInv
    <3> QED
        BY <2>1, <3>1, <3>2, FieldTypes, SchedulerAssumption DEF IInv
  <2>3. timer' \in Timers
      BY <1>0, <1>3 DEF Launch, Timers
  <2>4. firing' = [firing EXCEPT ![timer.task] =
                     [firing[timer.task] EXCEPT !.launched = firing[timer.task].launched + 1]]
      BY <1>3 DEF Launch
  <2>5. [firing[timer.task] EXCEPT !.launched = firing[timer.task].launched + 1]
          \in [launched : 0 .. MaxFirings, inside : 0 .. MaxFirings]
      BY <2>1, <2>2, FieldTypes DEF IInv
  <2> QED
      BY <1>3, <2>3, <2>4, <2>5 DEF IInv, TypeOK, Launch
<1>4. ASSUME Reschedule
      PROVE  TypeOK'
  <2>1. timer.task \in Tasks /\ entry[timer.task].left =< 0
      BY <1>4 DEF IInv, Reschedule, Carries, Busy
  <2>2. entry[timer.task] \in Entries
      BY <2>1, FieldTypes DEF IInv
  <2>3. Spent(entry[timer.task]) \in Entries
    <3>1. 0 \in Left
        BY SchedulerAssumption DEF Left
    <3> QED
        BY <3>1, <2>2 DEF Spent, Entries, Kinds
  <2>4. NextRuns(entry[timer.task]) \subseteq Left
      BY <2>1, <2>2, SchedulerAssumption DEF NextRuns, Left, Entries
  <2>5. \A l \in Left : [entry[timer.task] EXCEPT !.left = l, !.queued = TRUE] \in Entries
      BY <2>2 DEF Entries
  <2>6. \/ entry' = [entry EXCEPT ![timer.task] = Spent(entry[timer.task])]
        \/ \E l \in NextRuns(entry[timer.task]) :
             entry' = [entry EXCEPT ![timer.task] =
                         [entry[timer.task] EXCEPT !.left = l, !.queued = TRUE]]
      BY <1>4 DEF Reschedule
  <2>7. entry' \in [Tasks -> Entries]
    <3>1. \A e \in Entries : [entry EXCEPT ![timer.task] = e] \in [Tasks -> Entries]
        BY <2>1 DEF IInv, TypeOK
    <3>2. CASE entry' = [entry EXCEPT ![timer.task] = Spent(entry[timer.task])]
        BY <2>3, <3>1, <3>2
    <3>3. ASSUME NEW l \in NextRuns(entry[timer.task]),
                 entry' = [entry EXCEPT ![timer.task] =
                             [entry[timer.task] EXCEPT !.left = l, !.queued = TRUE]]
          PROVE  entry' \in [Tasks -> Entries]
        BY <2>4, <2>5, <3>1, <3>3
    <3> QED
        BY <2>6, <3>2, <3>3
  <2>8. timer' \in Timers
      BY <1>4, FieldTypes DEF Reschedule, IInv
  <2> QED
      BY <1>4, <2>7, <2>8 DEF IInv, TypeOK, Reschedule, TimerOnly
<1> QED
    BY <1>1, <1>2, <1>3, <1>4

\* _inFlight is decremented, and not below zero.
LEMMA DownType == \A n \in Nat : Down(n) \in Nat /\ Down(n) =< n /\ (n > 0 => Down(n) = n - 1)
BY DEF Down

\* A thread that leaves keeps the types.
LEMMA TypeThreadEnds ==
  ASSUME IInv, ThreadEnds
  PROVE  TypeOK'
BY DEF IInv, TypeOK, ThreadEnds

\* Firings that begin and end keep the types.
LEMMA TypeFirings ==
  ASSUME IInv, NEW t \in Tasks, FiringBegins(t) \/ FiringEnds(t)
  PROVE  TypeOK'
<1>0. /\ firing[t].launched \in Nat /\ firing[t].inside \in Nat /\ inFlight[t] \in Nat
      /\ firing[t].launched + firing[t].inside =< inFlight[t] /\ inFlight[t] =< MaxFirings
  <2>1. /\ firing[t].launched \in Nat /\ firing[t].inside \in Nat
        /\ inFlight[t] \in Nat /\ inFlight[t] =< MaxFirings
      BY FieldTypes, SchedulerAssumption DEF IInv
  <2> QED
      BY <2>1 DEF IInv, Accounted, Pending
<1>1. Down(inFlight[t]) \in 0 .. MaxFirings
    BY <1>0, DownType, SchedulerAssumption
<1>2. inFlight' \in [Tasks -> 0 .. MaxFirings]
    BY <1>1 DEF FiringBegins, FiringEnds, IInv, TypeOK
<1> DEFINE F == [launched : 0 .. MaxFirings, inside : 0 .. MaxFirings]
<1>3. \A l, i \in 0 .. MaxFirings :
        [firing EXCEPT ![t] = [firing[t] EXCEPT !.launched = l, !.inside = i]] \in [Tasks -> F]
    BY FieldTypes DEF IInv, TypeOK
<1>4. firing' \in [Tasks -> F]
  <2>1. \/ /\ firing[t].launched > 0
           /\ firing' = [firing EXCEPT ![t] = [firing[t] EXCEPT
                           !.launched = firing[t].launched - 1, !.inside = firing[t].inside]]
        \/ /\ firing[t].launched > 0
           /\ firing' = [firing EXCEPT ![t] = [firing[t] EXCEPT
                           !.launched = firing[t].launched - 1, !.inside = firing[t].inside + 1]]
        \/ /\ firing[t].inside > 0
           /\ firing' = [firing EXCEPT ![t] = [firing[t] EXCEPT
                           !.launched = firing[t].launched, !.inside = firing[t].inside - 1]]
      BY FieldTypes DEF FiringBegins, FiringEnds, IInv, TypeOK
  <2>2. firing[t].launched \in 0 .. MaxFirings /\ firing[t].inside \in 0 .. MaxFirings
      BY <1>0, SchedulerAssumption
  <2>3. firing[t].launched > 0 => /\ firing[t].launched - 1 \in 0 .. MaxFirings
                                 /\ firing[t].inside + 1 \in 0 .. MaxFirings
      BY <1>0, SchedulerAssumption
  <2>4. firing[t].inside > 0 => firing[t].inside - 1 \in 0 .. MaxFirings
      BY <1>0, SchedulerAssumption
  <2>5. CASE firing[t].launched > 0
    <3>1. /\ [firing EXCEPT ![t] = [firing[t] EXCEPT
                !.launched = firing[t].launched - 1, !.inside = firing[t].inside]] \in [Tasks -> F]
          /\ [firing EXCEPT ![t] = [firing[t] EXCEPT
                !.launched = firing[t].launched - 1, !.inside = firing[t].inside + 1]] \in [Tasks -> F]
        BY <1>3, <2>2, <2>3, <2>5
    <3>2. firing[t].inside > 0 => [firing EXCEPT ![t] = [firing[t] EXCEPT
                !.launched = firing[t].launched, !.inside = firing[t].inside - 1]] \in [Tasks -> F]
        BY <1>3, <2>2, <2>4
    <3> QED
        BY <2>1, <3>1, <3>2
  <2>6. CASE ~(firing[t].launched > 0)
    <3>1. firing[t].inside > 0 => [firing EXCEPT ![t] = [firing[t] EXCEPT
                !.launched = firing[t].launched, !.inside = firing[t].inside - 1]] \in [Tasks -> F]
        BY <1>3, <2>2, <2>4
    <3> QED
        BY <2>1, <2>6, <3>1
  <2> QED
      BY <2>5, <2>6
<1> QED
    BY <1>2, <1>4 DEF FiringBegins, FiringEnds, IInv, TypeOK

\* Start() and Stop() keep the types.
LEMMA TypeOwner ==
  ASSUME IInv, Start \/ Stop
  PROVE  TypeOK'
<1>0. owner \in Owners /\ timer \in Timers
    BY FieldTypes DEF IInv
<1>1. owner' \in Owners
  <2>1. 0 \in 0 .. Grace
      BY SchedulerAssumption
  <2>2. \A c \in BOOLEAN : /\ [pc |-> "up", age |-> 0, clean |-> c] \in Owners
                           /\ [pc |-> "off", age |-> 0, clean |-> c] \in Owners
      BY <2>1 DEF Owners
  <2>3. \A pc \in {"notify", "join", "drain"} : [owner EXCEPT !.pc = pc] \in Owners
      BY <1>0 DEF Owners
  <2> QED
      BY <2>2, <2>3 DEF Start, Stop, StopFlag, StopNotify, Join, Drained, GraceOver
<1>2. timer' \in Timers
    BY <1>0, FieldTypes DEF IInv, Start, Stop, StopFlag, StopNotify, Join, Drained, GraceOver,
                            Looking
<1> QED
    BY <1>1, <1>2 DEF IInv, TypeOK, Start, Stop, StopFlag, StopNotify, Join, Drained, GraceOver

\* Time keeps an entry in the range it is counted in, and what is due stays due.
LEMMA LaterType == \A l \in Left : Later(l) \in Left /\ (l =< 0 => Later(l) =< 0)
BY SchedulerAssumption DEF Left, Later

\* Time keeps the types.
LEMMA TypeTick ==
  ASSUME IInv, Tick
  PROVE  TypeOK'
<1>1. entry' \in [Tasks -> Entries]
  <2>1. ASSUME NEW t \in Tasks
        PROVE  entry'[t] \in Entries
    <3>1. entry[t] \in Entries /\ Later(entry[t].left) \in Left
        BY FieldTypes, LaterType DEF IInv, Entries
    <3>2. [entry[t] EXCEPT !.left = Later(entry[t].left)] \in Entries
        BY <3>1 DEF Entries
    <3> QED
        BY <3>1, <3>2 DEF Tick
  <2> QED
      BY <2>1 DEF Tick
<1>2. timer' \in Timers
  <2>1. timer \in Timers
      BY FieldTypes DEF IInv
  <2>2. (IF timer.until \in {None, 0} THEN timer.until ELSE timer.until - 1)
           \in (0 .. Interval) \union {None}
      BY <2>1, SchedulerAssumption DEF Timers
  <2> QED
      BY <2>1, <2>2 DEF Tick, Timers
<1>3. owner' \in Owners
  <2>1. owner \in Owners
      BY FieldTypes DEF IInv
  <2>2. (IF owner.pc = "drain" /\ owner.age < Grace THEN owner.age + 1 ELSE owner.age)
           \in 0 .. Grace
      BY <2>1, SchedulerAssumption DEF Owners
  <2> QED
      BY <2>1, <2>2 DEF Tick, Owners
<1> QED
    BY <1>1, <1>2, <1>3 DEF IInv, TypeOK, Tick

-----------------------------------------------------------------------------
\* What a step does to the entries and to the timer

\* Somebody who notifies wakes a sleeping timer, and does nothing else.
LEMMA NotifiedTimer ==
  ASSUME IInv, timer' = Notified
  PROVE  /\ timer'.task = timer.task /\ timer'.until = timer.until
         /\ timer'.pc = IF timer.pc = "asleep" THEN "woken" ELSE timer.pc
<1>1. timer \in Timers
    BY FieldTypes DEF IInv
<1> QED
    BY <1>1 DEF Notified, Timers

\* Time changes what is left, nothing else.
LEMMA TickEffect ==
  ASSUME IInv, Tick
  PROVE  /\ timer'.pc = timer.pc /\ timer'.task = timer.task
         /\ timer'.until = IF timer.until \in {None, 0} THEN timer.until ELSE timer.until - 1
         /\ owner'.pc = owner.pc /\ owner'.clean = owner.clean
         /\ \A t \in Tasks :
              /\ entry'[t].is = entry[t].is /\ entry'[t].queued = entry[t].queued
              /\ entry'[t].cancelled = entry[t].cancelled
              /\ entry'[t].left = IF entry[t].queued \/ timer.task = t
                                    THEN Later(entry[t].left) ELSE entry[t].left
<1>1. timer \in Timers /\ owner \in Owners
    BY FieldTypes DEF IInv
<1>2. ASSUME NEW t \in Tasks
      PROVE  /\ entry'[t].is = entry[t].is /\ entry'[t].queued = entry[t].queued
             /\ entry'[t].cancelled = entry[t].cancelled
             /\ entry'[t].left = IF entry[t].queued \/ timer.task = t
                                   THEN Later(entry[t].left) ELSE entry[t].left
  <2>1. entry[t] \in Entries
      BY FieldTypes DEF IInv
  <2>2. entry'[t] = IF entry[t].queued \/ timer.task = t
                      THEN [entry[t] EXCEPT !.left = Later(entry[t].left)] ELSE entry[t]
      BY DEF Tick
  <2> QED
      BY <2>1, <2>2 DEF Entries
<1> QED
    BY <1>1, <1>2 DEF Tick, Timers, Owners

\* Where the timer is after a step of its waiting.
LEMMA WaitEffect ==
  ASSUME IInv
  PROVE  /\ Returns => timer'.pc = "off"
         /\ NothingDue => timer'.pc = "block"
         /\ FallsAsleep => timer'.pc = "asleep" /\ timer'.until = timer.until
         /\ Wakes => \/ ShouldWake /\ timer'.pc = "look"
                     \/ ~ShouldWake /\ timer'.pc = "block" /\ timer'.until = timer.until
         /\ TimesOut => timer'.pc = "look"
<1>1. timer \in Timers
    BY FieldTypes DEF IInv
<1>2. Returns => timer'.pc = "off"
    BY DEF Returns, NoTimer
<1>3. NothingDue => timer'.pc = "block"
    BY <1>1 DEF NothingDue, Timers
<1>4. FallsAsleep => timer'.pc = "asleep" /\ timer'.until = timer.until
    BY <1>1 DEF FallsAsleep, Timers
<1>5. Wakes => \/ ShouldWake /\ timer'.pc = "look"
               \/ ~ShouldWake /\ timer'.pc = "block" /\ timer'.until = timer.until
    BY <1>1 DEF Wakes, Timers, Looking, NoTimer
<1>6. TimesOut => timer'.pc = "look"
    BY DEF TimesOut, Looking, NoTimer
<1> QED
    BY <1>2, <1>3, <1>4, <1>5, <1>6

\* The steps of the timer, one field at a time.
LEMMA TimerEffect ==
  ASSUME IInv, Run
  PROVE  /\ running' = running /\ owner' = owner /\ quiet' = quiet
         /\ \/ Returns /\ timer'.pc = "off" /\ entry' = entry
            \/ NothingDue /\ timer'.pc = "block" /\ entry' = entry
            \/ FallsAsleep /\ timer'.pc = "asleep" /\ timer'.until = timer.until /\ entry' = entry
            \/ Wakes /\ timer'.pc \in {"look", "block"} /\ entry' = entry
            \/ TimesOut /\ timer'.pc = "look" /\ entry' = entry
            \/ \E t \in Tasks : /\ Take(t) /\ entry[t].cancelled
                                /\ timer' = timer /\ entry' = [entry EXCEPT ![t] = Spent(entry[t])]
            \/ \E t \in Tasks : /\ Take(t) /\ ~entry[t].cancelled
                                /\ timer'.pc = "taken" /\ timer'.task = t
                                /\ entry' = [entry EXCEPT ![t].queued = FALSE]
            \/ Count /\ timer'.pc = "counted" /\ timer'.task = timer.task /\ entry' = entry
            \/ Launch /\ timer'.pc = "launched" /\ timer'.task = timer.task /\ entry' = entry
            \/ Reschedule /\ timer'.pc = "look"
<1>1. timer \in Timers
    BY FieldTypes DEF IInv
<1>2. CASE Returns \/ NothingDue \/ FallsAsleep \/ Wakes \/ TimesOut
  <2>1. entry' = entry /\ running' = running /\ owner' = owner /\ quiet' = quiet
      BY <1>2 DEF Returns, NothingDue, FallsAsleep, Wakes, TimesOut, TimerOnly
  <2> QED
      BY <1>2, <2>1, WaitEffect
<1>3. CASE \E t \in Tasks : Take(t)
    BY <1>1, <1>3 DEF Take, Timers, TimerOnly
<1>4. CASE Count
    BY <1>1, <1>4 DEF Count, Timers, TimerOnly
<1>5. CASE Launch
    BY <1>1, <1>5 DEF Launch, Timers
<1>6. CASE Reschedule
    BY <1>6 DEF Reschedule, Looking, NoTimer, TimerOnly
<1> QED
    BY <1>2, <1>3, <1>4, <1>5, <1>6 DEF Run

\* The counters move only with a count, a launch and the firings.
LEMMA SameCounters ==
  ASSUME IInv,
         \/ \E t \in Tasks, kind \in Kinds, delay \in 0 .. Interval : Schedule(t, kind, delay)
         \/ \E t \in Tasks : ScheduleNotify(t) \/ Cancel(t) \/ Take(t)
         \/ ThreadEnds
         \/ Returns \/ NothingDue \/ FallsAsleep \/ Wakes \/ TimesOut \/ Reschedule
         \/ Start \/ Stop \/ Tick \/ UNCHANGED vars
  PROVE  inFlight' = inFlight /\ firing' = firing
BY DEF Schedule, ScheduleNotify, Cancel, ThreadEnds, Take, Returns, NothingDue, FallsAsleep, Wakes, TimesOut, Reschedule,
       Start, Stop, StopFlag, StopNotify, Join, Drained, GraceOver, Tick, TimerOnly, vars

\* Scheduling makes a new entry listed and queued.
LEMMA ScheduleEffect ==
  ASSUME IInv, NEW t \in Tasks, NEW kind \in Kinds, NEW delay \in 0 .. Interval,
         Schedule(t, kind, delay)
  PROVE  /\ \A u \in Tasks : u # t => entry'[u] = entry[u]
         /\ entry[t].is = "new" /\ entry'[t].is = "listed" /\ entry'[t].left = delay
         /\ entry'[t].queued /\ ~entry'[t].cancelled
BY DEF Schedule, IInv, TypeOK

\* Cancelling ends an entry and leaves it in the queue.
LEMMA CancelEffect ==
  ASSUME IInv, NEW t \in Tasks, Cancel(t)
  PROVE  /\ \A u \in Tasks : u # t => entry'[u] = entry[u]
         /\ entry[t].is = "listed" /\ entry'[t].is = "over" /\ entry'[t].left = entry[t].left
         /\ entry'[t].queued = entry[t].queued /\ entry'[t].cancelled
<1>1. entry[t] \in Entries
    BY FieldTypes DEF IInv
<1>2. /\ \A u \in Tasks : u # t => entry'[u] = entry[u]
      /\ entry'[t] = [entry[t] EXCEPT !.kind = "once", !.is = "over", !.cancelled = TRUE]
    BY DEF Cancel, IInv, TypeOK
<1>3. entry[t].is = "listed"
    BY DEF Cancel
<1>4. /\ entry'[t].is = "over" /\ entry'[t].left = entry[t].left
      /\ entry'[t].queued = entry[t].queued /\ entry'[t].cancelled
    BY <1>1, <1>2 DEF Entries
<1> QED
    BY <1>2, <1>3, <1>4

\* What a notification and the end of a thread leave alone.
LEMMA NotifyEffect ==
  ASSUME IInv, (\E t \in Tasks : ScheduleNotify(t)) \/ ThreadEnds
  PROVE  /\ entry' = entry /\ running' = running /\ owner' = owner /\ firing' = firing
         /\ inFlight' = inFlight /\ quiet' = quiet
         /\ timer'.task = timer.task /\ timer'.until = timer.until
         /\ timer'.pc \in {timer.pc, "woken"}
         /\ timer'.pc = "woken" => timer.pc \in {"asleep", "woken"}
         /\ timer.pc = "asleep" /\ timer'.pc = "asleep" => unsaid' = unsaid
<1>1. CASE \E t \in Tasks : ScheduleNotify(t)
  <2>1. timer' = Notified
      BY <1>1 DEF ScheduleNotify
  <2> QED
      BY <1>1, <2>1, NotifiedTimer DEF ScheduleNotify
<1>2. CASE ThreadEnds
    BY <1>2 DEF ThreadEnds
<1> QED
    BY <1>1, <1>2

\* The timer takes an entry that is queued and due.
LEMMA TakeEffect ==
  ASSUME IInv, NEW t \in Tasks, Take(t)
  PROVE  /\ \A u \in Tasks : u # t => entry'[u] = entry[u]
         /\ entry[t].queued /\ entry[t].left =< 0 /\ entry[t].is # "new"
         /\ ~entry'[t].queued /\ entry'[t].left =< 0 /\ entry'[t].is # "new"
         /\ entry'[t].cancelled = entry[t].cancelled
         /\ entry[t].is = "over" => entry'[t].is = "over"
<1>1. entry[t] \in Entries
    BY FieldTypes DEF IInv
<1>2. entry[t].queued /\ entry[t].left =< 0
    BY DEF Take, Due, Queue
<1>3. entry[t].is # "new"
    BY <1>2 DEF IInv, Unscheduled
<1>4. /\ \A u \in Tasks : u # t => entry'[u] = entry[u]
      /\ entry'[t] \in {Spent(entry[t]), [entry[t] EXCEPT !.queued = FALSE]}
    BY DEF Take, IInv, TypeOK
<1>5. CASE entry'[t] = Spent(entry[t])
    BY <1>1, <1>2, <1>3, <1>4, <1>5 DEF Spent, Entries
<1>6. CASE entry'[t] = [entry[t] EXCEPT !.queued = FALSE]
    BY <1>1, <1>2, <1>3, <1>4, <1>6 DEF Entries
<1> QED
    BY <1>4, <1>5, <1>6

\* An entry that is queued again is not due yet.
LEMMA RescheduleEffect ==
  ASSUME IInv, Reschedule
  PROVE  /\ timer.task \in Tasks
         /\ \A u \in Tasks : u # timer.task => entry'[u] = entry[u]
         /\ entry'[timer.task].queued => entry'[timer.task].left > 0
         /\ entry'[timer.task].is # "new"
         /\ entry'[timer.task].cancelled = entry[timer.task].cancelled
         /\ entry[timer.task].is = "over" => entry'[timer.task].is = "over"
         /\ timer'.pc = "look"
<1> DEFINE e == entry[timer.task]
<1>1. timer.task \in Tasks /\ e.left =< 0 /\ e.is # "new"
    BY DEF Reschedule, IInv, Carries, Busy
<1>2. e \in Entries /\ timer \in Timers
    BY <1>1, FieldTypes DEF IInv
<1>3. \A l \in NextRuns(e) : l > 0
  <2>1. e.left \in Left
      BY <1>2 DEF Entries
  <2>2. e.left + Interval > 0
      BY <2>1, SchedulerAssumption DEF Left
  <2>3. \A l \in 1 .. Interval : l > 0
      BY SchedulerAssumption
  <2> QED
      BY <2>2, <2>3 DEF NextRuns
<1>4. /\ \A u \in Tasks : u # timer.task => entry'[u] = entry[u]
      /\ \/ entry'[timer.task] = Spent(e)
         \/ \E l \in NextRuns(e) : entry'[timer.task] = [e EXCEPT !.left = l, !.queued = TRUE]
    BY <1>1 DEF Reschedule, IInv, TypeOK
<1>5. timer'.pc = "look"
    BY DEF Reschedule, Looking, NoTimer
<1>6. CASE entry'[timer.task] = Spent(e)
    BY <1>1, <1>2, <1>4, <1>5, <1>6 DEF Spent, Entries
<1>7. ASSUME NEW l \in NextRuns(e), entry'[timer.task] = [e EXCEPT !.left = l, !.queued = TRUE]
      PROVE  /\ entry'[timer.task].left = l /\ entry'[timer.task].is = e.is
             /\ entry'[timer.task].cancelled = e.cancelled
    BY <1>2, <1>7 DEF Entries
<1> QED
    BY <1>1, <1>3, <1>4, <1>5, <1>6, <1>7

-----------------------------------------------------------------------------
\* The parts of the invariant

\* Every step keeps what the timer has in hand.
LEMMA CarriesStep ==
  ASSUME IInv, [Next]_vars
  PROVE  Carries'
<1>1. ASSUME NEW t \in Tasks, NEW kind \in Kinds, NEW delay \in 0 .. Interval,
             Schedule(t, kind, delay)
      PROVE  Carries'
  <2>1. timer'.task = timer.task /\ Busy' = Busy
      BY <1>1 DEF Schedule, Busy
  <2> QED
      BY <1>1, <2>1, ScheduleEffect DEF IInv, Carries
<1>2. ASSUME NEW t \in Tasks, Cancel(t)
      PROVE  Carries'
  <2>1. timer'.task = timer.task /\ Busy' = Busy
      BY <1>2, NotifiedTimer DEF Cancel, Busy
  <2> QED
      BY <1>2, <2>1, CancelEffect DEF IInv, Carries
<1>3. CASE Run
  <2>1. ASSUME NEW t \in Tasks, Take(t)
        PROVE  Carries'
      BY <2>1, <1>3, TakeEffect, TimerEffect DEF Carries, Busy, Take, IInv
  <2>2. CASE Returns \/ NothingDue \/ FallsAsleep \/ Wakes \/ TimesOut \/ Count \/ Launch \/ Reschedule
    <3>1. \/ timer'.pc \notin {"taken", "counted", "launched"}
          \/ Count /\ timer'.task = timer.task /\ entry' = entry
          \/ Launch /\ timer'.task = timer.task /\ entry' = entry
          \/ \E t \in Tasks : Take(t)
        BY <1>3, TimerEffect
    <3> QED
        BY <2>1, <3>1 DEF IInv, Carries, Busy, Count, Launch
  <2> QED
      BY <1>3, <2>1, <2>2 DEF Run
<1>4. ASSUME NEW t \in Tasks, FiringBegins(t) \/ FiringEnds(t)
      PROVE  Carries'
    BY <1>4 DEF FiringBegins, FiringEnds, IInv, Carries, Busy
<1>5. CASE Start \/ Stop
  <2>1. timer'.pc = "look" \/ timer' = Notified \/ timer' = timer
      BY <1>5 DEF Start, Stop, StopFlag, StopNotify, Join, Drained, GraceOver, Looking, NoTimer
  <2>2. entry' = entry
      BY <1>5 DEF Start, Stop, StopFlag, StopNotify, Join, Drained, GraceOver
  <2> QED
      BY <2>1, <2>2, NotifiedTimer DEF IInv, Carries, Busy
<1>6. CASE Tick
  <2>1. \A t \in Tasks : entry[t].left \in Left
      BY FieldTypes DEF IInv, Entries
  <2> QED
      BY <1>6, <2>1, TickEffect, LaterType DEF IInv, Carries, Busy
<1>7. CASE UNCHANGED vars
    BY <1>7 DEF vars, IInv, Carries, Busy
<1>8. CASE (\E t \in Tasks : ScheduleNotify(t)) \/ ThreadEnds
    BY <1>8, NotifyEffect DEF IInv, Carries, Busy
<1> QED
    BY <1>1, <1>2, <1>3, <1>4, <1>5, <1>6, <1>7, <1>8 DEF Next

\* Every step leaves alone what nobody has scheduled.
LEMMA UnscheduledStep ==
  ASSUME IInv, [Next]_vars
  PROVE  Unscheduled'
<1>1. ASSUME NEW t \in Tasks, NEW kind \in Kinds, NEW delay \in 0 .. Interval,
             Schedule(t, kind, delay)
      PROVE  Unscheduled'
    BY <1>1, ScheduleEffect, SameCounters DEF IInv, Unscheduled
<1>2. ASSUME NEW t \in Tasks, Cancel(t)
      PROVE  Unscheduled'
    BY <1>2, CancelEffect, SameCounters DEF IInv, Unscheduled
<1>3. ASSUME NEW t \in Tasks, Take(t)
      PROVE  Unscheduled'
    BY <1>3, TakeEffect, SameCounters DEF IInv, Unscheduled
<1>4. CASE Count
  <2>1. entry' = entry /\ timer.task \in Tasks /\ entry[timer.task].is # "new"
      BY <1>4 DEF Count, IInv, Carries, Busy
  <2>2. \A u \in Tasks : u # timer.task => inFlight'[u] = inFlight[u]
      BY <1>4, <2>1 DEF Count, IInv, TypeOK
  <2> QED
      BY <2>1, <2>2 DEF IInv, Unscheduled
<1>5. CASE Returns \/ NothingDue \/ FallsAsleep \/ Wakes \/ TimesOut \/ Launch
    BY <1>5 DEF Returns, NothingDue, FallsAsleep, Wakes, TimesOut, Launch, TimerOnly, IInv,
                Unscheduled
<1>6. CASE Reschedule
    BY <1>6, RescheduleEffect, SameCounters DEF IInv, Unscheduled
<1>7. ASSUME NEW t \in Tasks, FiringBegins(t) \/ FiringEnds(t)
      PROVE  Unscheduled'
  <2>1. entry' = entry /\ \A u \in Tasks : u # t => inFlight'[u] = inFlight[u]
      BY <1>7 DEF FiringBegins, FiringEnds, IInv, TypeOK
  <2>2. inFlight[t] = 0 => inFlight'[t] = 0
      BY <1>7 DEF FiringBegins, FiringEnds, IInv, TypeOK, Down
  <2> QED
      BY <2>1, <2>2 DEF IInv, Unscheduled
<1>8. CASE Start \/ Stop \/ UNCHANGED vars
    BY <1>8 DEF Start, Stop, StopFlag, StopNotify, Join, Drained, GraceOver, vars, IInv, Unscheduled
<1>9. CASE Tick
    BY <1>9, TickEffect, SameCounters DEF IInv, Unscheduled
<1>10. CASE (\E t \in Tasks : ScheduleNotify(t)) \/ ThreadEnds
    BY <1>10, NotifyEffect DEF IInv, Unscheduled
<1> QED
    BY <1>1, <1>2, <1>3, <1>4, <1>5, <1>6, <1>7, <1>8, <1>9, <1>10 DEF Next, Run

\* What is pending changes only for the task the timer counts or launches.
LEMMA AccountedStep ==
  ASSUME IInv, [Next]_vars
  PROVE  Accounted'
<1>0. \A t \in Tasks : /\ firing[t].launched \in Nat /\ firing[t].inside \in Nat
                       /\ inFlight[t] \in Nat
                       /\ inFlight[t] = firing[t].launched + firing[t].inside + Pending(t)
    BY FieldTypes, SchedulerAssumption DEF IInv, Accounted
<1>1. ASSUME inFlight' = inFlight, firing' = firing, \A t \in Tasks : Pending(t)' = Pending(t)
      PROVE  Accounted'
    BY <1>0, <1>1 DEF Accounted
<1>2. ASSUME timer.pc # "counted", timer'.pc # "counted"
      PROVE  \A t \in Tasks : Pending(t)' = Pending(t)
    BY <1>2 DEF Pending
<1>3. ASSUME timer' = Notified
      PROVE  \A t \in Tasks : Pending(t)' = Pending(t)
    BY <1>3, NotifiedTimer DEF Pending
<1>4. CASE \/ \E t \in Tasks, kind \in Kinds, delay \in 0 .. Interval : Schedule(t, kind, delay)
           \/ \E t \in Tasks : ScheduleNotify(t) \/ Cancel(t)
           \/ ThreadEnds
  <2>1. timer' = timer \/ timer' = Notified
      BY <1>4 DEF Schedule, ScheduleNotify, Cancel, ThreadEnds
  <2>2. \A t \in Tasks : Pending(t)' = Pending(t)
      BY <1>3, <2>1 DEF Pending
  <2> QED
      BY <1>1, <1>4, <2>2, SameCounters
<1>5. CASE \/ Returns \/ NothingDue \/ FallsAsleep \/ Wakes \/ TimesOut \/ Reschedule
           \/ \E t \in Tasks : Take(t)
  <2>1. timer.pc # "counted"
      BY <1>5 DEF Returns, NothingDue, FallsAsleep, Wakes, TimesOut, Reschedule, Take
  <2>2. timer'.pc # "counted"
    <3>1. Run
        BY <1>5 DEF Run
    <3>2. ~Count /\ ~Launch
        BY <1>5 DEF Count, Launch, Returns, NothingDue, FallsAsleep, Wakes, TimesOut, Reschedule, Take
    <3> QED
        BY <2>1, <3>1, <3>2, TimerEffect
  <2> QED
      BY <1>1, <1>2, <1>5, <2>1, <2>2, SameCounters
<1>6. CASE Count
  <2>1. timer.task \in Tasks /\ timer.pc = "taken"
      BY <1>6 DEF Count, IInv, Carries, Busy
  <2>2. timer'.pc = "counted" /\ timer'.task = timer.task /\ firing' = firing
    <3>1. timer \in Timers
        BY FieldTypes DEF IInv
    <3> QED
        BY <1>6, <3>1 DEF Count, Timers, TimerOnly
  <2>3. \A t \in Tasks : inFlight'[t] = IF t = timer.task THEN inFlight[t] + 1 ELSE inFlight[t]
      BY <1>6 DEF Count, IInv, TypeOK
  <2>4. \A t \in Tasks : Pending(t) = 0 /\ Pending(t)' = IF t = timer.task THEN 1 ELSE 0
      BY <2>1, <2>2 DEF Pending
  <2> QED
      BY <1>0, <2>2, <2>3, <2>4 DEF Accounted
<1>7. CASE Launch
  <2>1. timer.task \in Tasks /\ timer.pc = "counted"
      BY <1>7 DEF Launch, IInv, Carries, Busy
  <2>2. timer'.pc = "launched" /\ inFlight' = inFlight
    <3>1. timer \in Timers
        BY FieldTypes DEF IInv
    <3> QED
        BY <1>7, <3>1 DEF Launch, Timers
  <2>3. \A t \in Tasks : /\ firing'[t].launched = IF t = timer.task THEN firing[t].launched + 1
                                                                    ELSE firing[t].launched
                         /\ firing'[t].inside = firing[t].inside
      BY <1>7, <2>1, FieldTypes DEF Launch, IInv, TypeOK
  <2>4. \A t \in Tasks : Pending(t)' = 0 /\ Pending(t) = IF t = timer.task THEN 1 ELSE 0
      BY <2>1, <2>2 DEF Pending
  <2> QED
      BY <1>0, <2>2, <2>3, <2>4 DEF Accounted
<1>8. ASSUME NEW t \in Tasks, FiringBegins(t) \/ FiringEnds(t)
      PROVE  Accounted'
  <2>1. \A u \in Tasks : u # t => inFlight'[u] = inFlight[u] /\ firing'[u] = firing[u]
      BY <1>8 DEF FiringBegins, FiringEnds, IInv, TypeOK
  <2>2. \A u \in Tasks : Pending(u)' = Pending(u) /\ Pending(u) \in Nat
      BY <1>8 DEF FiringBegins, FiringEnds, Pending
  <2>3. \/ /\ firing[t].launched > 0
           /\ firing'[t].launched = firing[t].launched - 1
           /\ \/ firing'[t].inside = firing[t].inside /\ inFlight'[t] = Down(inFlight[t])
              \/ firing'[t].inside = firing[t].inside + 1 /\ inFlight'[t] = inFlight[t]
        \/ /\ firing[t].inside > 0 /\ firing'[t].inside = firing[t].inside - 1
           /\ firing'[t].launched = firing[t].launched
           /\ inFlight'[t] = Down(inFlight[t])
      BY <1>8, FieldTypes DEF FiringBegins, FiringEnds, IInv, TypeOK
  <2>4. inFlight[t] > 0
      BY <1>0, <2>2, <2>3
  <2>5. Down(inFlight[t]) = inFlight[t] - 1
      BY <1>0, <2>4, DownType
  <2>6. inFlight'[t] = firing'[t].launched + firing'[t].inside + Pending(t)'
      BY <1>0, <2>2, <2>3, <2>5
  <2> QED
      BY <1>0, <2>1, <2>2, <2>6 DEF Accounted
<1>9. CASE Start \/ Stop
  <2>1. \/ timer' = timer \/ timer' = Notified
        \/ timer.pc = "off" /\ timer'.pc = "look"
      BY <1>9 DEF Start, Stop, StopFlag, StopNotify, Join, Drained, GraceOver, Looking, NoTimer,
                  IInv, Joined
  <2>2. \A t \in Tasks : Pending(t)' = Pending(t)
      BY <1>3, <2>1 DEF Pending
  <2> QED
      BY <1>1, <1>9, <2>2, SameCounters
<1>10. CASE Tick
  <2>1. \A t \in Tasks : Pending(t)' = Pending(t)
      BY <1>10, TickEffect DEF Pending
  <2> QED
      BY <1>1, <1>10, <2>1, SameCounters
<1>11. CASE UNCHANGED vars
  <2>1. \A t \in Tasks : Pending(t)' = Pending(t)
      BY <1>11 DEF Pending, vars
  <2> QED
      BY <1>1, <1>11, <2>1, SameCounters
<1> QED
    BY <1>4, <1>5, <1>6, <1>7, <1>8, <1>9, <1>10, <1>11 DEF Next, Run

\* A periodic or a cron task is due again only after the time of its next run,
\* and time passes only while there is room for one more firing of each task.
LEMMA FullIsNotDueStep ==
  ASSUME IInv, [Next]_vars
  PROVE  FullIsNotDue'
<1>0. MaxFirings # 0 /\ \A t \in Tasks : inFlight[t] \in 0 .. MaxFirings
    BY FieldTypes, SchedulerAssumption DEF IInv
<1>1. ASSUME NEW t \in Tasks, NEW kind \in Kinds, NEW delay \in 0 .. Interval,
             Schedule(t, kind, delay)
      PROVE  FullIsNotDue'
  <2>1. /\ timer'.pc = "taken" => timer.pc = "taken"
        /\ timer'.task = timer.task /\ inFlight' = inFlight /\ running' = running
      BY <1>1, SameCounters DEF Schedule
  <2>2. inFlight[t] = 0
      BY <1>1, ScheduleEffect DEF IInv, Unscheduled
  <2> QED
      BY <1>0, <1>1, <2>1, <2>2, ScheduleEffect DEF IInv, FullIsNotDue
<1>2. ASSUME NEW t \in Tasks, Cancel(t)
      PROVE  FullIsNotDue'
  <2>1. /\ timer'.pc = "taken" => timer.pc = "taken"
        /\ timer'.task = timer.task /\ inFlight' = inFlight /\ running' = running
      BY <1>2, NotifiedTimer, SameCounters DEF Cancel
  <2> QED
      BY <1>2, <2>1, CancelEffect DEF IInv, FullIsNotDue
<1>3. ASSUME NEW t \in Tasks, Take(t)
      PROVE  FullIsNotDue'
  <2>0. running /\ running' = running /\ inFlight' = inFlight
      BY <1>3 DEF Take, TimerOnly
  <2>1. timer'.pc = "taken" => timer'.task = t
    <3>1. timer \in Timers /\ timer.pc = "look"
        BY <1>3, FieldTypes DEF IInv, Take
    <3> QED
        BY <1>3, <3>1 DEF Take, Timers
  <2>2. inFlight[t] # MaxFirings
      BY <1>3, <2>0, TakeEffect DEF IInv, FullIsNotDue
  <2> QED
      BY <1>3, <2>0, <2>1, <2>2, TakeEffect DEF IInv, FullIsNotDue
<1>4. CASE Count
  <2>1. /\ timer'.pc = "counted" /\ entry' = entry /\ running' = running
        /\ timer.task \in Tasks /\ ~entry[timer.task].queued
        /\ \A t \in Tasks : t # timer.task => inFlight'[t] = inFlight[t]
    <3>1. timer \in Timers
        BY FieldTypes DEF IInv
    <3> QED
        BY <1>4, <3>1 DEF Count, TimerOnly, Timers, IInv, TypeOK, Carries, Busy
  <2> QED
      BY <2>1 DEF IInv, FullIsNotDue
<1>5. CASE Launch \/ Returns \/ NothingDue \/ FallsAsleep \/ Wakes \/ TimesOut
  <2>1. /\ inFlight' = inFlight /\ entry' = entry /\ running' = running
      BY <1>5 DEF Launch, Returns, NothingDue, FallsAsleep, Wakes, TimesOut, TimerOnly
  <2>2. timer'.pc # "taken"
    <3>1. timer \in Timers
        BY FieldTypes DEF IInv
    <3>2. Launch => timer'.pc # "taken"
        BY <3>1 DEF Launch, Timers
    <3> QED
        BY <1>5, <3>2, WaitEffect
  <2> QED
      BY <2>1, <2>2 DEF IInv, FullIsNotDue
<1>6. CASE Reschedule
  <2>1. inFlight' = inFlight /\ running' = running
      BY <1>6 DEF Reschedule, TimerOnly
  <2>2. entry'[timer.task].queued => ~(entry'[timer.task].left =< 0)
    <3>1. entry' \in [Tasks -> Entries]
        BY <1>6, TypeFires DEF TypeOK
    <3>2. entry'[timer.task].left \in Int
        BY <1>6, <3>1, RescheduleEffect, SchedulerAssumption DEF Entries, Left
    <3> QED
        BY <1>6, <3>2, RescheduleEffect
  <2> QED
      BY <1>6, <2>1, <2>2, RescheduleEffect DEF IInv, FullIsNotDue
<1>7. ASSUME NEW t \in Tasks, FiringBegins(t) \/ FiringEnds(t)
      PROVE  FullIsNotDue'
  <2>1. /\ entry' = entry /\ running' = running /\ timer' = timer
        /\ \A u \in Tasks : u # t => inFlight'[u] = inFlight[u]
        /\ inFlight'[t] \in {inFlight[t], Down(inFlight[t])}
      BY <1>7 DEF FiringBegins, FiringEnds, IInv, TypeOK
  <2>2. inFlight'[t] = MaxFirings => inFlight[t] = MaxFirings
      BY <1>0, <2>1, SchedulerAssumption DEF Down
  <2> QED
      BY <2>1, <2>2 DEF IInv, FullIsNotDue
<1>8. CASE Start
  <2>1. timer'.pc = "look" /\ inFlight' = inFlight
      BY <1>8 DEF Start, Looking, NoTimer
  <2>2. \A t \in Tasks : inFlight[t] # MaxFirings
      BY <1>0, <1>8, SchedulerAssumption DEF Start, Room
  <2> QED
      BY <2>1, <2>2 DEF FullIsNotDue
<1>9. CASE Stop
  <2>1. /\ inFlight' = inFlight /\ entry' = entry
        /\ running' => running
        /\ timer' = timer \/ timer' = Notified
      BY <1>9 DEF Stop, StopFlag, StopNotify, Join, Drained, GraceOver
  <2>2. timer'.task = timer.task /\ (timer'.pc = "taken" => timer.pc = "taken")
      BY <2>1, NotifiedTimer
  <2>3. ASSUME NEW t \in Tasks, inFlight'[t] = MaxFirings
        PROVE  /\ ~(timer'.pc = "taken" /\ timer'.task = t)
               /\ running' => ~(entry'[t].queued /\ entry'[t].left =< 0)
    <3>1. /\ ~(timer.pc = "taken" /\ timer.task = t)
          /\ running => ~(entry[t].queued /\ entry[t].left =< 0)
        BY <2>1, <2>3 DEF IInv, FullIsNotDue
    <3> QED
        BY <2>1, <2>2, <3>1
  <2> QED
      BY <2>3 DEF FullIsNotDue
<1>10. CASE Tick
  <2>1. inFlight' = inFlight /\ running' = running
      BY <1>10 DEF Tick
  <2>2. running => \A t \in Tasks : inFlight[t] # MaxFirings
      BY <1>0, <1>10, SchedulerAssumption DEF Tick, Room
  <2> QED
      BY <1>10, <2>1, <2>2, TickEffect DEF IInv, FullIsNotDue
<1>11. CASE UNCHANGED vars
    BY <1>11 DEF vars, IInv, FullIsNotDue
<1>12. CASE (\E t \in Tasks : ScheduleNotify(t)) \/ ThreadEnds
    BY <1>12, NotifyEffect DEF IInv, FullIsNotDue
<1> QED
    BY <1>1, <1>2, <1>3, <1>4, <1>5, <1>6, <1>7, <1>8, <1>9, <1>10, <1>11, <1>12 DEF Next, Run

\* Only Start() sets _running and only a running timer comes back to life.
LEMMA JoinedStep ==
  ASSUME IInv, [Next]_vars
  PROVE  Joined'
<1>1. CASE \/ \E t \in Tasks, kind \in Kinds, delay \in 0 .. Interval : Schedule(t, kind, delay)
           \/ \E t \in Tasks : ScheduleNotify(t) \/ Cancel(t)
           \/ ThreadEnds
  <2>1. running' = running /\ owner' = owner /\ (timer' = timer \/ timer' = Notified)
      BY <1>1 DEF Schedule, ScheduleNotify, Cancel, ThreadEnds
  <2> QED
      BY <2>1, NotifiedTimer DEF IInv, Joined
<1>2. CASE Run
  <2>1. timer.pc # "off"
      BY <1>2 DEF Run, Returns, NothingDue, FallsAsleep, Wakes, TimesOut, Take, Count, Launch, Reschedule
  <2>2. running' = running /\ owner' = owner
      BY <1>2, TimerEffect
  <2> QED
      BY <2>1, <2>2 DEF IInv, Joined
<1>3. CASE Start
    BY <1>3 DEF Start, Joined
<1>4. CASE Stop
  <2>0. owner \in Owners
      BY FieldTypes DEF IInv
  <2>1. CASE StopFlag
      BY <2>0, <2>1 DEF StopFlag, Joined, Owners
  <2>2. CASE StopNotify
      BY <2>0, <2>2 DEF StopNotify, IInv, Joined, Owners
  <2>3. CASE Join
      BY <2>0, <2>3 DEF Join, IInv, Joined, Owners
  <2>4. CASE Drained \/ GraceOver
      BY <2>0, <2>4 DEF Drained, GraceOver, IInv, Joined, Owners
  <2> QED
      BY <1>4, <2>1, <2>2, <2>3, <2>4 DEF Stop
<1>5. CASE Tick
  <2>1. running' = running
      BY <1>5 DEF Tick
  <2> QED
      BY <1>5, <2>1, TickEffect DEF IInv, Joined
<1>6. CASE UNCHANGED vars \/ \E t \in Tasks : FiringBegins(t) \/ FiringEnds(t)
  <2>1. running' = running /\ owner' = owner /\ timer' = timer
      BY <1>6 DEF vars, FiringBegins, FiringEnds
  <2> QED
      BY <2>1 DEF IInv, Joined
<1> QED
    BY <1>1, <1>2, <1>3, <1>4, <1>5, <1>6 DEF Next

\* After a clean stop nothing is counted, and nobody is there to count.
LEMMA CleanStopStep ==
  ASSUME IInv, [Next]_vars
  PROVE  CleanStop'
<1>0. owner \in Owners
    BY FieldTypes DEF IInv
<1>1. ASSUME inFlight' = inFlight, owner'.pc = owner.pc, owner'.clean = owner.clean
      PROVE  CleanStop'
    BY <1>1 DEF IInv, CleanStop
<1>2. CASE \/ \E t \in Tasks, kind \in Kinds, delay \in 0 .. Interval : Schedule(t, kind, delay)
           \/ \E t \in Tasks : ScheduleNotify(t) \/ Cancel(t)
           \/ ThreadEnds \/ UNCHANGED vars
    BY <1>1, <1>2 DEF Schedule, ScheduleNotify, Cancel, ThreadEnds, vars
<1>3. CASE Run
  <2>1. timer.pc # "off" /\ owner' = owner
      BY <1>3, TimerEffect DEF Run, Returns, NothingDue, FallsAsleep, Wakes, TimesOut, Take, Count,
                               Launch, Reschedule
  <2> QED
      BY <2>1 DEF IInv, Joined, CleanStop
<1>4. ASSUME NEW t \in Tasks, FiringBegins(t) \/ FiringEnds(t)
      PROVE  CleanStop'
  <2>1. /\ owner' = owner
        /\ \A u \in Tasks : u # t => inFlight'[u] = inFlight[u]
        /\ inFlight'[t] \in {inFlight[t], Down(inFlight[t])}
      BY <1>4 DEF FiringBegins, FiringEnds, IInv, TypeOK
  <2>2. Down(0) = 0
      BY DEF Down
  <2> QED
      BY <2>1, <2>2 DEF IInv, CleanStop
<1>5. CASE Start
    BY <1>5 DEF Start, CleanStop
<1>6. CASE StopFlag \/ StopNotify \/ Join \/ GraceOver
    BY <1>0, <1>6 DEF StopFlag, StopNotify, Join, GraceOver, CleanStop, Owners
<1>7. CASE Drained
    BY <1>7 DEF Drained, CleanStop
<1>8. CASE Tick
    BY <1>1, <1>8, TickEffect DEF Tick
<1> QED
    BY <1>2, <1>3, <1>4, <1>5, <1>6, <1>7, <1>8 DEF Next, Stop

\* A mark stays, and a firing that finds it does not enter the function.
LEMMA AtRestStep ==
  ASSUME IInv, [Next]_vars
  PROVE  AtRest'
<1>0. quiet \subseteq Tasks
    BY DEF IInv, TypeOK
<1>1. ASSUME NEW t \in Tasks, NEW kind \in Kinds, NEW delay \in 0 .. Interval,
             Schedule(t, kind, delay)
      PROVE  AtRest'
  <2>1. quiet' = quiet /\ firing' = firing /\ t \notin quiet
      BY <1>1 DEF Schedule, IInv, AtRest
  <2> QED
      BY <1>0, <1>1, <2>1, ScheduleEffect DEF IInv, AtRest
<1>2. ASSUME NEW t \in Tasks, Cancel(t)
      PROVE  AtRest'
  <2>1. firing' = firing
      BY <1>2 DEF Cancel
  <2>2. ASSUME NEW u \in quiet
        PROVE  entry'[u].cancelled /\ entry'[u].is = "over" /\ firing'[u].inside = 0
      BY <1>0, <1>2, <2>1, CancelEffect DEF IInv, AtRest
  <2>3. ASSUME quiet' # quiet
        PROVE  /\ quiet' = quiet \union {t}
               /\ entry'[t].cancelled /\ entry'[t].is = "over" /\ firing'[t].inside = 0
    <3>1. quiet' = quiet \union {t} /\ ~(firing[t].inside > 0)
        BY <1>2, <2>3 DEF Cancel
    <3>2. firing[t].inside \in Nat
        BY FieldTypes, SchedulerAssumption DEF IInv
    <3> QED
        BY <1>2, <2>1, <3>1, <3>2, CancelEffect
  <2> QED
      BY <2>2, <2>3 DEF AtRest
<1>3. ASSUME NEW t \in Tasks, Take(t)
      PROVE  AtRest'
  <2>1. quiet' = quiet /\ firing' = firing
      BY <1>3 DEF Take, TimerOnly
  <2> QED
      BY <1>0, <1>3, <2>1, TakeEffect DEF IInv, AtRest
<1>4. CASE Count \/ Launch
  <2>1. entry' = entry /\ quiet' = quiet
      BY <1>4 DEF Count, Launch, TimerOnly
  <2>2. timer.task \in Tasks
      BY <1>4 DEF Count, Launch, IInv, Carries, Busy
  <2>3. \A u \in Tasks : firing'[u].inside = firing[u].inside
      BY <1>4, <2>2, FieldTypes DEF Count, Launch, TimerOnly, IInv, TypeOK
  <2> QED
      BY <1>0, <2>1, <2>3 DEF IInv, AtRest
<1>5. CASE Returns \/ NothingDue \/ FallsAsleep \/ Wakes \/ TimesOut
    BY <1>5 DEF Returns, NothingDue, FallsAsleep, Wakes, TimesOut, TimerOnly, IInv, AtRest
<1>6. CASE Reschedule
  <2>1. quiet' = quiet /\ firing' = firing
      BY <1>6 DEF Reschedule, TimerOnly
  <2> QED
      BY <1>0, <1>6, <2>1, RescheduleEffect DEF IInv, AtRest
<1>7. ASSUME NEW t \in Tasks, FiringBegins(t) \/ FiringEnds(t)
      PROVE  AtRest'
  <2>1. /\ quiet' = quiet /\ entry' = entry
        /\ \A u \in Tasks : u # t => firing'[u] = firing[u]
      BY <1>7 DEF FiringBegins, FiringEnds, IInv, TypeOK
  <2>2. ASSUME t \in quiet
        PROVE  firing'[t].inside = 0
    <3>1. entry[t].cancelled /\ firing[t].inside = 0
        BY <2>2 DEF IInv, AtRest
    <3>2. firing' = [firing EXCEPT ![t].launched = firing[t].launched - 1]
        BY <1>7, <3>1 DEF FiringBegins, FiringEnds
    <3> QED
        BY <3>1, <3>2, FieldTypes DEF IInv, TypeOK
  <2> QED
      BY <1>0, <2>1, <2>2 DEF IInv, AtRest
<1>8. CASE Start \/ Stop \/ UNCHANGED vars
    BY <1>8 DEF Start, Stop, StopFlag, StopNotify, Join, Drained, GraceOver, vars, IInv, AtRest
<1>9. CASE Tick
  <2>1. quiet' = quiet /\ firing' = firing
      BY <1>9 DEF Tick
  <2> QED
      BY <1>0, <1>9, <2>1, TickEffect DEF IInv, AtRest
<1>10. CASE (\E t \in Tasks : ScheduleNotify(t)) \/ ThreadEnds
    BY <1>10, NotifyEffect DEF IInv, AtRest
<1> QED
    BY <1>1, <1>2, <1>3, <1>4, <1>5, <1>6, <1>7, <1>8, <1>9, <1>10 DEF Next, Run

\* No step makes the timer's deadline later than the first entry.
LEMMA DeadlineFitsStep ==
  ASSUME IInv, [Next]_vars
  PROVE  DeadlineFits'
<1>0. timer \in Timers
    BY FieldTypes DEF IInv
<1>1. ASSUME NEW t \in Tasks, NEW kind \in Kinds, NEW delay \in 0 .. Interval,
             Schedule(t, kind, delay)
      PROVE  DeadlineFits'
  <2>1. timer.pc # "block" /\ timer' = timer /\ unsaid' = unsaid \union {t}
      BY <1>1 DEF Schedule, Unlocked
  <2>2. \A u \in Queue' \ unsaid' : u \in Queue \ unsaid /\ entry'[u] = entry[u]
      BY <1>1, <2>1, ScheduleEffect DEF Queue
  <2> QED
      BY <2>1, <2>2 DEF IInv, DeadlineFits, Seen
<1>8. ASSUME NEW t \in Tasks, Cancel(t)
      PROVE  DeadlineFits'
  <2>1. timer.pc # "block" /\ timer' = Notified
      BY <1>8 DEF Cancel, Unlocked
  <2> QED
      BY <2>1, NotifiedTimer DEF DeadlineFits
<1>9. CASE (\E t \in Tasks : ScheduleNotify(t)) \/ ThreadEnds
  <2>1. timer'.pc \in {"block", "asleep"} => timer'.pc = timer.pc /\ Seen' = Seen
      BY <1>9, NotifyEffect DEF Seen, Queue
  <2> QED
      BY <1>9, <2>1, NotifyEffect DEF IInv, DeadlineFits
<1>2. CASE NothingDue
  <2>1. entry' = entry /\ Queue' = Queue
      BY <1>2 DEF NothingDue, Queue
  <2>2. CASE Queue = {}
      BY <2>1, <2>2 DEF DeadlineFits, Seen
  <2>3. CASE Queue # {}
    <3>1. PICK t \in Queue : /\ \A u \in Queue : entry[t].left =< entry[u].left
                             /\ timer' = [timer EXCEPT !.pc = "block", !.until = entry[t].left]
        BY <1>2, <2>3 DEF NothingDue
    <3>2. timer'.until = entry[t].left
        BY <1>0, <3>1 DEF Timers
    <3>3. entry[t].left # None
        BY FieldTypes, SchedulerAssumption DEF IInv, Queue, Entries, Left
    <3> QED
        BY <2>1, <3>1, <3>2, <3>3 DEF DeadlineFits, Seen
  <2> QED
      BY <2>2, <2>3
<1>3. CASE FallsAsleep
  <2>1. /\ entry' = entry /\ timer.pc = "block"
        /\ timer'.until = timer.until /\ timer'.pc = "asleep"
      BY <1>0, <1>3 DEF FallsAsleep, Timers
  <2> QED
      BY <2>1 DEF IInv, DeadlineFits, Seen, Queue
<1>4. CASE Wakes
  <2>1. entry' = entry
      BY <1>4 DEF Wakes
  <2>2. timer'.pc = "look" \/ (~ShouldWake /\ timer'.pc = "block" /\ timer'.until = timer.until)
      BY <1>4, WaitEffect
  <2>3. ASSUME ~ShouldWake, NEW t \in Queue
        PROVE  timer.until # None /\ timer.until =< entry[t].left
    <3>1. timer.until # None /\ ~(entry[t].left < timer.until)
        BY <2>3 DEF ShouldWake
    <3>2. timer.until \in Int /\ entry[t].left \in Int
        BY <1>0, <3>1, FieldTypes, SchedulerAssumption DEF Timers, IInv, Queue, Entries, Left
    <3> QED
        BY <3>1, <3>2
  <2> QED
      BY <2>1, <2>2, <2>3 DEF DeadlineFits, Seen, Queue
<1>5. CASE \/ Returns \/ TimesOut \/ Count \/ Launch \/ Reschedule \/ Start
           \/ \E t \in Tasks : Take(t)
  <2>1. timer'.pc \notin {"block", "asleep"}
    <3>1. Returns \/ TimesOut \/ Start => timer'.pc \notin {"block", "asleep"}
        BY <1>0 DEF Returns, TimesOut, Start, Looking, NoTimer, Timers
    <3>2. Count \/ Launch \/ Reschedule => timer'.pc \notin {"block", "asleep"}
        BY <1>0 DEF Count, Launch, Reschedule, Looking, NoTimer, Timers
    <3>3. ASSUME NEW t \in Tasks, Take(t)
          PROVE  timer'.pc \notin {"block", "asleep"}
        BY <1>0, <3>3 DEF Take, Timers
    <3> QED
        BY <1>5, <3>1, <3>2, <3>3
  <2> QED
      BY <2>1 DEF DeadlineFits
<1>6. CASE Stop \/ UNCHANGED vars \/ \E t \in Tasks : FiringBegins(t) \/ FiringEnds(t)
  <2>1. /\ entry' = entry /\ unsaid' = unsaid
        /\ timer' = timer \/ timer' = Notified
      BY <1>6 DEF Stop, StopFlag, StopNotify, Join, Drained, GraceOver, vars, FiringBegins, FiringEnds
  <2>2. /\ timer'.until = timer.until
        /\ timer'.pc \in {"block", "asleep"} => timer'.pc = timer.pc
      BY <2>1, NotifiedTimer
  <2> QED
      BY <2>1, <2>2 DEF IInv, DeadlineFits, Seen, Queue
<1>7. CASE Tick
  <2>1. Queue' = Queue /\ Seen' = Seen /\ Seen \subseteq Queue /\ timer'.pc = timer.pc
    <3>1. Queue' = Queue /\ timer'.pc = timer.pc
        BY <1>7, TickEffect DEF Queue
    <3>2. unsaid' = unsaid
        BY <1>7 DEF Tick
    <3> QED
        BY <3>1, <3>2 DEF Seen
  <2>2. ASSUME NEW t \in Queue, timer.until # None,
               timer.until =< entry[t].left \/ timer.until = 0
        PROVE  timer'.until # None /\ (timer'.until =< entry'[t].left \/ timer'.until = 0)
    <3>1. entry'[t].left = Later(entry[t].left) /\ entry[t].left \in Left
        BY <1>7, TickEffect, FieldTypes DEF Queue, IInv, Entries
    <3>2. timer'.until = IF timer.until = 0 THEN 0 ELSE timer.until - 1
        BY <1>7, <2>2, TickEffect
    <3>3. timer.until \in 0 .. Interval
        BY <1>0, <2>2 DEF Timers
    <3> QED
        BY <2>2, <3>1, <3>2, <3>3, SchedulerAssumption DEF Later, Left
  <2> QED
      BY <2>1, <2>2 DEF IInv, DeadlineFits
<1> QED
    BY <1>1, <1>2, <1>3, <1>4, <1>5, <1>6, <1>7, <1>8, <1>9 DEF Next, Run

-----------------------------------------------------------------------------
\* The theorems

\* Every step keeps the types.
LEMMA TypeStep ==
  ASSUME IInv, [Next]_vars
  PROVE  TypeOK'
<1>1. CASE UNCHANGED vars
    BY <1>1 DEF vars, IInv, TypeOK
<1> QED
    BY <1>1, TypeCallers, TypeWaits, TypeFires, TypeFirings, TypeThreadEnds, TypeOwner, TypeTick
       DEF Next, Run

\* Every step keeps the invariant.
LEMMA InvStep == IInv /\ [Next]_vars => IInv'
BY TypeStep, CarriesStep, UnscheduledStep, AccountedStep, FullIsNotDueStep, JoinedStep,
   CleanStopStep, AtRestStep, DeadlineFitsStep DEF IInv

\* The invariant always holds.
LEMMA InvAlways == Spec => []IInv
BY InitInv, InvStep, PTL DEF Spec

\* Every field of the scheduler keeps its type; above all _inFlight never goes
\* below zero, and never past the bound on the firings under way.
THEOREM TypeCorrect == Spec => []TypeOK
<1>1. IInv => TypeOK
    BY DEF IInv
<1> QED
    BY <1>1, InvAlways, PTL

\* Stop() is a barrier: after a stop within the grace period no thread is in the
\* function of a task, or may yet enter it, until the next Start(), however the
\* firings, the timer's count and the stop interleave.
THEOREM Barrier == Spec => []StopIsBarrier
<1>1. IInv => StopIsBarrier
  <2> SUFFICES ASSUME IInv, owner.pc = "off", owner.clean
               PROVE  /\ timer.pc = "off"
                      /\ \A t \in Tasks : firing[t].launched + firing[t].inside = 0
      BY DEF StopIsBarrier
  <2>1. timer.pc = "off"
      BY DEF IInv, Joined
  <2>2. ASSUME NEW t \in Tasks
        PROVE  firing[t].launched + firing[t].inside = 0
    <3>1. inFlight[t] = 0 /\ Pending(t) = 0
        BY <2>1 DEF IInv, CleanStop, Pending
    <3>2. firing[t].launched \in Nat /\ firing[t].inside \in Nat
        BY FieldTypes, SchedulerAssumption DEF IInv
    <3> QED
        BY <3>1, <3>2 DEF IInv, Accounted
  <2> QED
      BY <2>1, <2>2
<1> QED
    BY <1>1, InvAlways, PTL

\* Cancel() of a task none of whose firings is in its function is final, also
\* between the timer's taking it and its thread's look at the mark: no firing is
\* in the function ever again, so what the task uses may be destroyed.
THEOREM Quiet == Spec => []CancelledStaysQuiet
<1>1. IInv => CancelledStaysQuiet
    BY DEF IInv, AtRest, CancelledStaysQuiet
<1> QED
    BY <1>1, InvAlways, PTL

\* The timer never sleeps past an entry of the queue that was notified of, whatever
\* is scheduled or cancelled between its decision and its sleep, and although
\* schedule() notifies after it has unlocked.
THEOREM NeverOversleeps == Spec => []NoOversleep
<1>1. IInv => NoOversleep
    BY DEF IInv, DeadlineFits, Seen, NoOversleep
<1> QED
    BY <1>1, InvAlways, PTL
=============================================================================
