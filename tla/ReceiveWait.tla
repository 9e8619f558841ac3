---------------------------- MODULE ReceiveWait ----------------------------
(***************************************************************************)
(* Long polling in one EQS process: how a receive that finds nothing waits *)
(* for a message instead of asking again, and what wakes it                *)
(* (database/src/ChangeWaiters.cpp, core/include/euclid/core/              *)
(* LongPollSlots.h, handleReceiveMessage() and the loop of                 *)
(* receiveMessages()).                                                     *)
(*                                                                         *)
(* One queue, one message per receive.  A message arrives by a send of     *)
(* this process, a send of another one, or the end of a lease; it becomes  *)
(* receivable first and is reported - a Wake() of the queue's waiters -    *)
(* later, or never.  The queue's waiters share one entry with a            *)
(* generation, which exists while somebody is enrolled.                    *)
(***************************************************************************)
EXTENDS Integers, FiniteSets

CONSTANTS
    Threads,       \* the worker threads of the process
    Messages,
    NoMessage,     \* not a message
    Tiers,         \* how many priorities there are
    Tier,          \* the priority of each message, 0 the highest
    Passes,        \* kClaimPasses
    MaxGeneration  \* nothing arrives once the generation is this high

ASSUME WaitAssumption ==
    /\ IsFiniteSet(Threads) /\ Threads # {}
    /\ NoMessage \notin Messages
    /\ Tiers \in Nat \ {0} /\ Tier \in [Messages -> 0..Tiers - 1]
    /\ Passes \in Nat \ {0} /\ MaxGeneration \in Nat

VARIABLES
    message,     \* where each message is
    report,      \* who will report that it can be received, or "done", or "none"
    generation,  \* Entry::generation
    inUse,       \* LongPollSlots::_inUse
    thread       \* what each thread is doing

vars == <<message, report, generation, inUse, thread>>

Reports == {"none", "send", "stream", "sweep", "done"}

\* Where a thread is: a send about to wake, or a receive between two steps.
Points == {"idle", "wake", "enroll", "read", "count", "find", "claim", "park", "asleep", "leave"}

Tasks ==
    [pc      : Points,
     held    : BOOLEAN,                   \* it has a slot, and may wait
     expired : BOOLEAN,                   \* its deadline is over
     seen    : Nat,                       \* the generation read before it looked
     saw     : BOOLEAN,                   \* this look's count found something
     tier    : Nat,                       \* the tier it counts, or takes from
     pass    : Nat,                       \* claim passes made in this look
     msg     : Messages \cup {NoMessage}] \* the message it sends, or tries to claim

NoTask ==
    [pc |-> "idle", held |-> FALSE, expired |-> FALSE, seen |-> 0, saw |-> FALSE,
     tier |-> 0, pass |-> 0, msg |-> NoMessage]

Enrolled(t) ==
    thread[t].pc \in {"read", "count", "find", "claim", "park", "asleep", "leave"}

Available == {m \in Messages : message[m] = "available"}

Init ==
    /\ message = [m \in Messages |-> "unsent"]
    /\ report = [m \in Messages |-> "none"]
    /\ generation = 0
    /\ inUse = 0
    /\ thread = [t \in Threads |-> NoTask]

-----------------------------------------------------------------------------
(***************************************************************************)
(* Arrivals.                                                               *)
(***************************************************************************)
Arrives(m, r) ==
    /\ generation < MaxGeneration
    /\ message' = [message EXCEPT ![m] = "available"]
    /\ report' = [report EXCEPT ![m] = r]

\* Wake(): the generation moves on and everybody asleep is notified; nothing
\* happens when nobody is enrolled.
Wake(m) ==
    /\ generation' = IF \E t \in Threads : Enrolled(t) THEN generation + 1 ELSE generation
    /\ report' = [report EXCEPT ![m] = "done"]

\* sendMessage(): the insert, then the wake-up.
Send(t, m) ==
    /\ thread[t].pc = "idle" /\ message[m] = "unsent"
    /\ Arrives(m, "send")
    /\ thread' = [thread EXCEPT ![t] = [NoTask EXCEPT !.pc = "wake", !.msg = m]]
    /\ UNCHANGED <<generation, inUse>>

SendWakes(t) ==
    /\ thread[t].pc = "wake"
    /\ Wake(thread[t].msg)
    /\ thread' = [thread EXCEPT ![t] = NoTask]
    /\ UNCHANGED <<message, inUse>>

\* Another process's insert, which the change stream reports...
RemoteSend(m) ==
    /\ message[m] = "unsent"
    /\ Arrives(m, "stream")
    /\ UNCHANGED <<generation, inUse, thread>>

\* ... and a lease that this process's sweep ended, which the sweep reports...
SweepEndsLease(m) ==
    /\ message[m] = "taken"
    /\ Arrives(m, "sweep")
    /\ UNCHANGED <<generation, inUse, thread>>

Reported(m) ==
    /\ report[m] \in {"stream", "sweep"}
    /\ Wake(m)
    /\ UNCHANGED <<message, inUse, thread>>

\* ... unless the stream breaks off before it does.
StreamLoses(m) ==
    /\ report[m] = "stream"
    /\ report' = [report EXCEPT ![m] = "none"]
    /\ UNCHANGED <<message, generation, inUse, thread>>

\* A lease ended by another process's sweep, or a redrive there, is an update and
\* not an insert: the stream does not report it.
RemoteEndsLease(m) ==
    /\ message[m] = "taken"
    /\ Arrives(m, "none")
    /\ UNCHANGED <<generation, inUse, thread>>

-----------------------------------------------------------------------------
(***************************************************************************)
(* A receive.                                                              *)
(***************************************************************************)
\* limit(threads - 1): at least one.
Limit == IF Cardinality(Threads) > 1 THEN Cardinality(Threads) - 1 ELSE 1

\* Mutant of SlotFree: the comparison is off by one.
MutSlotFree == inUse <= Limit

SlotFree == inUse < Limit

\* handleReceiveMessage(): a slot if one is free, and no waiting without one.
Receive(t) ==
    /\ thread[t].pc = "idle"
    /\ thread' = [thread EXCEPT ![t] = [NoTask EXCEPT !.pc = "enroll", !.held = SlotFree]]
    /\ inUse' = IF SlotFree THEN inUse + 1 ELSE inUse
    /\ UNCHANGED <<message, report, generation>>

\* Enroll(): the first waiter of the key makes its entry.
Enroll(t) ==
    /\ thread[t].pc = "enroll"
    /\ thread' = [thread EXCEPT ![t].pc = "read"]
    /\ generation' = IF \E s \in Threads : Enrolled(s) THEN generation ELSE 0
    /\ UNCHANGED <<message, report, inUse>>

\* Generation(), before every look.
ReadGeneration(t) ==
    /\ thread[t].pc = "read"
    /\ thread' = [thread EXCEPT ![t].pc = "count", ![t].seen = generation, ![t].saw = FALSE,
                                ![t].tier = 0, ![t].pass = 0, ![t].msg = NoMessage]
    /\ UNCHANGED <<message, report, generation, inUse>>

\* Mutant of Onward: the deadline is left to the wait.
MutOnward(t) == IF thread[t].held THEN "park" ELSE "leave"

\* Where a look that found nothing leads: to the wait, or out of the call.
Onward(t) == IF thread[t].held /\ ~thread[t].expired THEN "park" ELSE "leave"

Waiting(k) == {m \in Available : Tier[m] = k}

\* The counts per priority, one tier after the other.  The one place of a receive
\* goes to the highest tier that counted a message.
Count(t) ==
    LET k == thread[t].tier IN
    /\ thread[t].pc = "count"
    /\ \/ /\ Waiting(k) # {}
          /\ thread' = [thread EXCEPT ![t].pc = "find", ![t].saw = TRUE]
       \/ /\ Waiting(k) = {} /\ k + 1 < Tiers
          /\ thread' = [thread EXCEPT ![t].tier = k + 1]
       \/ /\ Waiting(k) = {} /\ k + 1 >= Tiers
          /\ thread' = [thread EXCEPT ![t].pc = Onward(t)]
    /\ UNCHANGED <<message, report, generation, inUse>>

Find(t) ==
    /\ thread[t].pc = "find"
    /\ \/ /\ Waiting(thread[t].tier) = {}
          /\ thread' = [thread EXCEPT ![t].pc = Onward(t)]
       \/ \E m \in Waiting(thread[t].tier) :
              thread' = [thread EXCEPT ![t].pc = "claim", ![t].msg = m]
    /\ UNCHANGED <<message, report, generation, inUse>>

\* The next pass, or the end of the look.
NextPass(t) ==
    thread' = [thread EXCEPT ![t].pc = IF thread[t].pass + 1 < Passes THEN "find" ELSE Onward(t),
                             ![t].pass = thread[t].pass + 1, ![t].msg = NoMessage]

\* The claim is won and the message delivered.
ClaimDelivers(t) ==
    /\ thread[t].pc = "claim" /\ thread[t].msg \in Available
    /\ message' = [message EXCEPT ![thread[t].msg] = "taken"]
    /\ report' = [report EXCEPT ![thread[t].msg] = "none"]
    /\ thread' = [thread EXCEPT ![t].pc = "leave", ![t].msg = NoMessage]
    /\ UNCHANGED <<generation, inUse>>

\* The claim is won and the message goes to the dead letter queue.
ClaimDeadLetters(t) ==
    /\ thread[t].pc = "claim" /\ thread[t].msg \in Available
    /\ message' = [message EXCEPT ![thread[t].msg] = "gone"]
    /\ report' = [report EXCEPT ![thread[t].msg] = "none"]
    /\ NextPass(t)
    /\ UNCHANGED <<generation, inUse>>

\* The claim is lost to a sibling.
ClaimLost(t) ==
    /\ thread[t].pc = "claim" /\ thread[t].msg \notin Available
    /\ NextPass(t)
    /\ UNCHANGED <<message, report, generation, inUse>>

\* An exception ends the look and the call.
LookFails(t) ==
    /\ thread[t].pc \in {"count", "find", "claim"}
    /\ thread' = [thread EXCEPT ![t].pc = "leave", ![t].msg = NoMessage]
    /\ UNCHANGED <<message, report, generation, inUse>>

\* Mutant of Park: the generation is read when the wait begins.
MutPark(t) ==
    /\ thread[t].pc = "park"
    /\ thread' = [thread EXCEPT ![t].pc = "asleep", ![t].seen = generation]
    /\ UNCHANGED <<message, report, generation, inUse>>

\* Wait(): back to the look at once when the generation has moved since it was
\* read, to sleep otherwise.
Park(t) ==
    /\ thread[t].pc = "park"
    /\ thread' = [thread EXCEPT ![t].pc = IF generation # thread[t].seen THEN "read" ELSE "asleep"]
    /\ UNCHANGED <<message, report, generation, inUse>>

Awakes(t) ==
    /\ thread[t].pc = "asleep" /\ generation # thread[t].seen
    /\ thread' = [thread EXCEPT ![t].pc = "read"]
    /\ UNCHANGED <<message, report, generation, inUse>>

\* The fallback interval, or the deadline, ends the sleep.
TimesOut(t) ==
    /\ thread[t].pc = "asleep"
    /\ thread' = [thread EXCEPT ![t].pc = "read"]
    /\ UNCHANGED <<message, report, generation, inUse>>

DeadlinePasses(t) ==
    /\ Enrolled(t) /\ ~thread[t].expired
    /\ thread' = [thread EXCEPT ![t].expired = TRUE]
    /\ UNCHANGED <<message, report, generation, inUse>>

\* Mutant of Leave: the slot is given back whether or not one was held.
MutLeave(t) ==
    /\ thread[t].pc = "leave"
    /\ thread' = [thread EXCEPT ![t] = NoTask]
    /\ inUse' = inUse - 1
    /\ UNCHANGED <<message, report, generation>>

\* The call returns: the waiter is released, and the slot with the handler's scope.
Leave(t) ==
    /\ thread[t].pc = "leave"
    /\ thread' = [thread EXCEPT ![t] = NoTask]
    /\ inUse' = IF thread[t].held THEN inUse - 1 ELSE inUse
    /\ UNCHANGED <<message, report, generation>>

-----------------------------------------------------------------------------
Look(t) ==
    \/ ReadGeneration(t)
    \/ Count(t)
    \/ Find(t)
    \/ ClaimDelivers(t)
    \/ ClaimDeadLetters(t)
    \/ ClaimLost(t)
    \/ LookFails(t)

Step(t) ==
    \/ SendWakes(t)
    \/ Enroll(t)
    \/ Look(t)
    \/ Park(t)
    \/ Awakes(t)
    \/ Leave(t)

Arrival ==
    \E m \in Messages :
        \/ RemoteSend(m)
        \/ SweepEndsLease(m)
        \/ RemoteEndsLease(m)
        \/ Reported(m)
        \/ StreamLoses(m)

Next ==
    \/ \E t \in Threads, m \in Messages : Send(t, m)
    \/ \E t \in Threads : Receive(t) \/ Step(t) \/ TimesOut(t) \/ DeadlinePasses(t)
    \/ Arrival

Spec == Init /\ [][Next]_vars

\* A thread that can run does, wait_until() returns when its time is over, and time
\* passes.  Nothing arrives of necessity, and nothing is reported of necessity.
Fairness ==
    \A t \in Threads : WF_vars(Step(t)) /\ WF_vars(TimesOut(t)) /\ WF_vars(DeadlinePasses(t))

FairSpec == Spec /\ Fairness

-----------------------------------------------------------------------------
(***************************************************************************)
(* Properties.                                                             *)
(***************************************************************************)
\* Every variable has its type: slots, waiters and the messages they wait for stay
\* well formed through every interleaving of receives, sends and wake-ups.
TypeOK ==
    /\ message \in [Messages -> {"unsent", "available", "taken", "gone"}]
    /\ report \in [Messages -> Reports]
    /\ generation \in Nat
    /\ inUse \in Nat
    /\ thread \in [Threads -> Tasks]

\* Asleep with no wake-up on its way to it.
Unwoken(t) == thread[t].pc = "asleep" /\ thread[t].seen = generation

\* No lost wake-up (ChangeWaiters): a receive whose look found the queue empty does
\* not sleep on beside a message whose arrival has been reported, whenever the
\* message came in between reading the generation and going to sleep.
NoLostWakeup ==
    \A t \in Threads : Unwoken(t) /\ ~thread[t].saw =>
        \A m \in Available : report[m] # "done"

\* LongPollSlots leaves "at least one [thread] for requests that have actual work
\* to do": however many receives wait, a process with more than one thread has one
\* that does not.
ThreadLeft ==
    Cardinality(Threads) > 1 => \E t \in Threads : thread[t].pc \notin {"park", "asleep"}

\* Every long poll ends, wake-ups lost, messages fought over and failures included.
PollEnds == \A t \in Threads : thread[t].pc = "enroll" ~> thread[t].pc = "idle"

=============================================================================
