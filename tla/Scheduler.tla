----------------------------- MODULE Scheduler -----------------------------
(***************************************************************************)
(* Core::Scheduler (src/core/src/Scheduler.cpp) of one process: a timer    *)
(* thread that waits for the next due entry and lets every firing run on a *)
(* detached thread of its own, the callers of Schedule...() and Cancel(),  *)
(* and the thread that starts the scheduler and stops it before the        *)
(* process takes down what the tasks use.                                  *)
(*                                                                         *)
(* What is done under _mutex in one piece is one step; the timer keeps it  *)
(* from waking up until it sleeps again or unlocks for a firing.  Stop()   *)
(* sets _running and notifies without it, schedule() and a firing that     *)
(* ends notify after they have given their mutex back.                     *)
(***************************************************************************)
EXTENDS Integers

CONSTANTS
  Tasks,       \* task ids, each scheduled once
  None,        \* no task, no time
  Interval,    \* ticks between two firings of a periodic task
  Grace,       \* kStopGracePeriod
  MaxFirings   \* bound: firings of one task under way at once

ASSUME SchedulerAssumption ==
  /\ Interval \in Nat \ {0}
  /\ Grace \in Nat
  /\ MaxFirings \in Nat \ {0}
  /\ None \notin Tasks \union Int

VARIABLES
  entry,     \* the entry of a task
  unsaid,    \* tasks whose schedule() has unlocked and has yet to notify
  running,   \* _running
  timer,     \* the timer thread
  owner,     \* the thread that calls Start() and Stop()
  firing,    \* threads of a task: launched, and inside its function
  inFlight,  \* _inFlight, by task
  leaving,   \* a thread has counted itself down during the drain of Stop(), and has
             \* yet to notify _inFlightCv
  missed,    \* history: Stop() notified a timer that was about to sleep
  quiet      \* history: tasks cancelled while no firing was in their function

vars == <<entry, unsaid, running, timer, owner, firing, inFlight, leaving, missed, quiet>>

Kinds == {"once", "periodic", "cron"}

\* left is nextRun - now; once it is past only its phase matters.
Left == (1 - Interval) .. Interval
Later(left) == IF left = 1 - Interval THEN 0 ELSE left - 1

Entries == [kind : Kinds, left : Left, is : {"new", "listed", "over"},
            queued : BOOLEAN, cancelled : BOOLEAN]

\* until is the time it sleeps to, None while the queue is empty.
Timers ==
  [pc : {"off", "look", "block", "asleep", "woken", "taken", "counted", "launched"},
   until : (0 .. Interval) \union {None}, task : Tasks \union {None}]

NoTimer == [pc |-> "off", until |-> None, task |-> None]
Looking == [NoTimer EXCEPT !.pc = "look"]

Owners == [pc : {"off", "up", "notify", "join", "drain"}, age : 0 .. Grace, clean : BOOLEAN]

\* Nothing refers to the entry any more but a firing of it.
Spent(e) == [e EXCEPT !.kind = "once", !.left = 0, !.is = "over", !.queued = FALSE]

Queue == {t \in Tasks : entry[t].queued}
Due == {t \in Queue : entry[t].left =< 0}

\* _mutex is not with the timer.
Unlocked == timer.pc \notin {"look", "block"}

\* _cv.notify_all() reaches a timer that sleeps, and no other.
Notified == [timer EXCEPT !.pc = IF @ = "asleep" THEN "woken" ELSE @]

-----------------------------------------------------------------------------
\* Callers, from any thread, tasks included

\* ScheduleOnce(), ScheduleAt(), SchedulePeriodic(), ScheduleCron(): the entry
\* is there as soon as the mutex is given back.
Schedule(t, kind, delay) ==
  /\ Unlocked
  /\ entry[t].is = "new"
  /\ entry' = [entry EXCEPT ![t] =
       [kind |-> kind, left |-> delay, is |-> "listed", queued |-> TRUE, cancelled |-> FALSE]]
  /\ unsaid' = unsaid \union {t}
  /\ UNCHANGED <<running, timer, owner, firing, inFlight, leaving, missed, quiet>>

\* The notification, and the return of the id.
ScheduleNotify(t) ==
  /\ t \in unsaid
  /\ unsaid' = unsaid \ {t}
  /\ timer' = Notified
  /\ UNCHANGED <<entry, running, owner, firing, inFlight, leaving, missed, quiet>>

\* By an id that was returned.  The entry stays in the queue until it is due; its
\* type is not read again.
Cancel(t) ==
  /\ Unlocked
  /\ entry[t].is = "listed" /\ t \notin unsaid
  /\ entry' = [entry EXCEPT ![t].kind = "once", ![t].is = "over", ![t].cancelled = TRUE]
  /\ timer' = Notified
  /\ quiet' = IF firing[t].inside > 0 THEN quiet ELSE quiet \union {t}
  /\ UNCHANGED <<unsaid, running, owner, firing, inFlight, leaving, missed>>

-----------------------------------------------------------------------------
\* The timer thread: run()

TimerOnly == <<unsaid, running, owner, firing, leaving, missed, quiet>>

Returns ==
  /\ timer.pc = "look" /\ ~running
  /\ timer' = NoTimer
  /\ UNCHANGED <<entry, inFlight, TimerOnly>>

\* Nothing is due: the condition of the wait has been looked at, and is not met.
NothingDue ==
  /\ timer.pc = "look" /\ running
  /\ Due = {}
  /\ \/ Queue = {} /\ timer' = [timer EXCEPT !.pc = "block", !.until = None]
     \/ \E t \in Queue :
          /\ \A u \in Queue : entry[t].left =< entry[u].left
          /\ timer' = [timer EXCEPT !.pc = "block", !.until = entry[t].left]
  /\ UNCHANGED <<entry, inFlight, TimerOnly>>

\* The wait gives the mutex back and sleeps.
FallsAsleep ==
  /\ timer.pc = "block"
  /\ timer' = [timer EXCEPT !.pc = "asleep"]
  /\ UNCHANGED <<entry, inFlight, TimerOnly>>

\* Mutant: only the first entry, or the end, is waited for.
MutShouldWake == ~running \/ (timer.until = None /\ Queue # {})

\* The conditions of the two waits.
ShouldWake ==
  \/ ~running
  \/ timer.until = None /\ Queue # {}
  \/ timer.until # None /\ (Queue = {} \/ \E t \in Queue : entry[t].left < timer.until)

Wakes ==
  /\ timer.pc = "woken"
  /\ timer' = IF ShouldWake THEN Looking ELSE [timer EXCEPT !.pc = "block"]
  /\ UNCHANGED <<entry, inFlight, TimerOnly>>

TimesOut ==
  /\ timer.pc = "asleep" /\ timer.until = 0
  /\ timer' = Looking
  /\ UNCHANGED <<entry, inFlight, TimerOnly>>

\* A due entry leaves the queue; the mutex is given back for its firing.
Take(t) ==
  /\ timer.pc = "look" /\ running
  /\ t \in Due
  /\ IF entry[t].cancelled
       THEN /\ entry' = [entry EXCEPT ![t] = Spent(@)]
            /\ UNCHANGED timer
       ELSE /\ entry' = [entry EXCEPT ![t].queued = FALSE]
            /\ timer' = [timer EXCEPT !.pc = "taken", !.task = t]
  /\ UNCHANGED <<inFlight, TimerOnly>>

\* Mutant: the new thread counts itself.
MutCount ==
  /\ timer.pc = "taken"
  /\ timer' = [timer EXCEPT !.pc = "counted"]
  /\ UNCHANGED <<entry, inFlight, TimerOnly>>

\* Counted before its thread exists.
Count ==
  /\ timer.pc = "taken"
  /\ inFlight' = [inFlight EXCEPT ![timer.task] = @ + 1]
  /\ timer' = [timer EXCEPT !.pc = "counted"]
  /\ UNCHANGED <<entry, TimerOnly>>

Launch ==
  /\ timer.pc = "counted"
  /\ firing' = [firing EXCEPT ![timer.task].launched = @ + 1]
  /\ timer' = [timer EXCEPT !.pc = "launched"]
  /\ UNCHANGED <<entry, unsaid, running, owner, inFlight, leaving, missed, quiet>>

\* Mutant: counted from the end of the firing.
MutNextRuns(e) == IF e.kind = "periodic" THEN {e.left + Interval + 1} ELSE 1 .. Interval

\* The next run of a periodic task keeps its phase and is not in the past; cron
\* computes one from the present time.
NextRuns(e) == IF e.kind = "periodic" THEN {e.left + Interval} ELSE 1 .. Interval

\* Back under the mutex.
Reschedule ==
  /\ timer.pc = "launched"
  /\ LET t == timer.task
         e == entry[t] IN
     \/ /\ e.cancelled \/ e.kind = "once"
        /\ entry' = [entry EXCEPT ![t] = Spent(e)]
     \/ /\ ~e.cancelled /\ e.kind # "once"
        /\ \E left \in NextRuns(e) :
             entry' = [entry EXCEPT ![t].left = left, ![t].queued = TRUE]
  /\ timer' = Looking
  /\ UNCHANGED <<inFlight, TimerOnly>>

-----------------------------------------------------------------------------
\* A firing, on its own thread

\* The destructor of Done; a name that is not in the map is left alone.
Down(n) == IF n = 0 THEN 0 ELSE n - 1

\* Mutant: what was launched runs, cancelled or not.
MutFiringBegins(t) ==
  /\ firing[t].launched > 0
  /\ firing' = [firing EXCEPT ![t].launched = @ - 1, ![t].inside = @ + 1]
  /\ UNCHANGED <<entry, unsaid, running, timer, owner, inFlight, leaving, missed, quiet>>

\* A task that was cancelled since it was taken is not run, only counted down.
FiringBegins(t) ==
  /\ firing[t].launched > 0
  /\ IF entry[t].cancelled
       THEN /\ firing' = [firing EXCEPT ![t].launched = @ - 1]
            /\ inFlight' = [inFlight EXCEPT ![t] = Down(@)]
            /\ leaving' = (leaving \/ owner.pc = "drain")
       ELSE /\ firing' = [firing EXCEPT ![t].launched = @ - 1, ![t].inside = @ + 1]
            /\ UNCHANGED <<inFlight, leaving>>
  /\ UNCHANGED <<entry, unsaid, running, timer, owner, missed, quiet>>

\* Whether it returns or throws.
FiringEnds(t) ==
  /\ firing[t].inside > 0
  /\ firing' = [firing EXCEPT ![t].inside = @ - 1]
  /\ inFlight' = [inFlight EXCEPT ![t] = Down(@)]
  /\ leaving' = (leaving \/ owner.pc = "drain")
  /\ UNCHANGED <<entry, unsaid, running, timer, owner, missed, quiet>>

\* The last of them has notified _inFlightCv, and its thread is gone.  Nobody
\* waits there but the drain, so that only those are told apart.
ThreadEnds ==
  /\ leaving
  /\ leaving' = FALSE
  /\ UNCHANGED <<entry, unsaid, running, timer, owner, firing, inFlight, missed, quiet>>

-----------------------------------------------------------------------------
\* Start() and Stop(): one thread calls them, in turn

\* There is room for another firing of every task.
Room == \A t \in Tasks : inFlight[t] < MaxFirings

\* A thread that is still to notify _inFlightCv finds nobody there any more.
Start ==
  /\ owner.pc = "off" /\ Room
  /\ leaving' = FALSE
  /\ running' = TRUE
  /\ timer' = Looking
  /\ owner' = [pc |-> "up", age |-> 0, clean |-> FALSE]
  /\ UNCHANGED <<entry, unsaid, firing, inFlight, missed, quiet>>

StopFlag ==
  /\ owner.pc = "up"
  /\ running' = FALSE
  /\ owner' = [owner EXCEPT !.pc = "notify"]
  /\ UNCHANGED <<entry, unsaid, timer, firing, inFlight, leaving, missed, quiet>>

\* Mutant: the timer is left to find out.
MutStopNotify ==
  /\ owner.pc = "notify"
  /\ owner' = [owner EXCEPT !.pc = "join"]
  /\ UNCHANGED <<entry, unsaid, running, timer, firing, inFlight, leaving, missed, quiet>>

StopNotify ==
  /\ owner.pc = "notify"
  /\ timer' = Notified
  /\ missed' = (timer.pc = "block")
  /\ owner' = [owner EXCEPT !.pc = "join"]
  /\ UNCHANGED <<entry, unsaid, running, firing, inFlight, leaving, quiet>>

Join ==
  /\ owner.pc = "join" /\ timer.pc = "off"
  /\ owner' = [owner EXCEPT !.pc = "drain"]
  /\ missed' = FALSE
  /\ UNCHANGED <<entry, unsaid, running, timer, firing, inFlight, leaving, quiet>>

\* Looked at under _inFlightMutex: at once, when a thread that leaves notifies,
\* or at the end of the grace period.
Drained ==
  /\ owner.pc = "drain"
  /\ \A t \in Tasks : inFlight[t] = 0
  /\ owner' = [pc |-> "off", age |-> 0, clean |-> TRUE]
  /\ UNCHANGED <<entry, unsaid, running, timer, firing, inFlight, leaving, missed, quiet>>

\* What still runs is named in the log, and left to itself.
GraceOver ==
  /\ owner.pc = "drain" /\ owner.age = Grace
  /\ \E t \in Tasks : inFlight[t] # 0
  /\ owner' = [pc |-> "off", age |-> 0, clean |-> FALSE]
  /\ UNCHANGED <<entry, unsaid, running, timer, firing, inFlight, leaving, missed, quiet>>

-----------------------------------------------------------------------------
Tick ==
  /\ running => Room
  /\ entry' = [t \in Tasks |->
       IF entry[t].queued \/ timer.task = t THEN [entry[t] EXCEPT !.left = Later(@)] ELSE entry[t]]
  /\ timer' = [timer EXCEPT !.until = IF @ \in {None, 0} THEN @ ELSE @ - 1]
  /\ owner' = [owner EXCEPT !.age = IF owner.pc = "drain" /\ @ < Grace THEN @ + 1 ELSE @]
  /\ UNCHANGED <<unsaid, running, firing, inFlight, leaving, missed, quiet>>

Init ==
  /\ entry = [t \in Tasks |->
       [kind |-> "once", left |-> 0, is |-> "new", queued |-> FALSE, cancelled |-> FALSE]]
  /\ unsaid = {}
  /\ running = FALSE
  /\ timer = NoTimer
  /\ owner = [pc |-> "off", age |-> 0, clean |-> TRUE]
  /\ firing = [t \in Tasks |-> [launched |-> 0, inside |-> 0]]
  /\ inFlight = [t \in Tasks |-> 0]
  /\ leaving = FALSE
  /\ missed = FALSE
  /\ quiet = {}

Run ==
  \/ Returns \/ NothingDue \/ FallsAsleep \/ Wakes \/ TimesOut
  \/ \E t \in Tasks : Take(t)
  \/ Count \/ Launch \/ Reschedule

Stop == StopFlag \/ StopNotify \/ Join \/ Drained \/ GraceOver

Next ==
  \/ \E t \in Tasks, kind \in Kinds, delay \in 0 .. Interval : Schedule(t, kind, delay)
  \/ \E t \in Tasks : ScheduleNotify(t) \/ Cancel(t) \/ FiringBegins(t) \/ FiringEnds(t)
  \/ ThreadEnds
  \/ Run
  \/ Start
  \/ Stop
  \/ Tick

Spec == Init /\ [][Next]_vars

\* The timer and the stopping thread run, and time passes; a task may hang, and so
\* may a caller.
Fairness == WF_vars(Run) /\ WF_vars(Stop) /\ WF_vars(Tick)

FairSpec == Spec /\ Fairness

-----------------------------------------------------------------------------
\* Every field has its type.
TypeOK ==
  /\ entry \in [Tasks -> Entries]
  /\ unsaid \in SUBSET Tasks
  /\ running \in BOOLEAN
  /\ timer \in Timers
  /\ owner \in Owners
  /\ firing \in [Tasks -> [launched : 0 .. MaxFirings, inside : 0 .. MaxFirings]]
  /\ inFlight \in [Tasks -> 0 .. MaxFirings]
  /\ leaving \in BOOLEAN
  /\ missed \in BOOLEAN
  /\ quiet \in SUBSET Tasks

\* Stop() is a barrier: when it has returned within its grace period, no thread
\* is in the function of a task or may yet enter it, and none will until somebody
\* calls Start() again.  A thread that is past its function and its count may
\* still be about to notify _inFlightCv.
StopIsBarrier ==
  owner.pc = "off" /\ owner.clean =>
    /\ timer.pc = "off"
    /\ \A t \in Tasks : firing[t].launched + firing[t].inside = 0

\* A task that is cancelled while none of its firings is in its function never
\* runs again, even if the timer had taken it from the queue, had counted it or
\* had launched its thread: its owner may be destroyed (Cancel(), the thread of
\* run(), MetricsPusher's destructor).
CancelledStaysQuiet == \A t \in quiet : firing[t].inside = 0

\* The timer never sleeps past the next entry, whatever is scheduled while it
\* makes up its mind, from the moment schedule() has notified (schedule(), run()).
NoOversleep ==
  timer.pc = "asleep" =>
    \A t \in Queue \ unsaid :
      timer.until # None /\ (timer.until =< entry[t].left \/ timer.until = 0)

\* Stop() returns even when a task hangs, unless its notification fell between
\* the timer's look at _running and its sleep, and nothing is queued to end that.
StopEnds ==
  (owner.pc = "join" /\ (~missed \/ Queue \ unsaid # {})) ~> (owner.pc = "off")
=============================================================================
