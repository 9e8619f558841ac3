--------------------------- MODULE MCEqsMessages ---------------------------
(***************************************************************************)
(* Instances of EqsMessages for TLC: a queue with a dead letter queue, a   *)
(* queue without one, and the symmetry of the sets whose members nothing   *)
(* tells apart.                                                            *)
(***************************************************************************)
EXTENDS EqsMessages, TLC

CONSTANTS q, dlq

\* One queue and its dead letter queue; one receive is allowed before the move.
WithDlq == (q :> dlq) @@ (dlq :> NoQueue)
OneReceive == (q :> 1) @@ (dlq :> 1)
NoDelay == (q :> 0) @@ (dlq :> 0)

\* One queue alone.
Alone == q :> NoQueue
AloneReceive == q :> 1
AloneDelay == q :> 1

\* The state without the history that the properties of a run do not read and no
\* action's guard reads either.
WithoutHistory == <<sent, stored, doc, oid, mint, call, sweep, snap, delivered, faults>>
WithoutLeaseAge == <<WithoutHistory, deliveries>>

Symmetry ==
    Permutations(Messages) \cup Permutations(Handles) \cup Permutations(Consumers)
       \cup Permutations(Sweepers)

=============================================================================
