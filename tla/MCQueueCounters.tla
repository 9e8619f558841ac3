-------------------------- MODULE MCQueueCounters --------------------------
(***************************************************************************)
(* Instances of QueueCounters for model checking: a queue and its dead     *)
(* letter queue.                                                           *)
(***************************************************************************)
EXTENDS QueueCounters, TLC

CONSTANTS queue, dead

WithDlq == (queue :> dead) @@ (dead :> None)
=============================================================================
