------------------------------ MODULE Mailbox ------------------------------
(***************************************************************************)
(* What the event bus promises its subscribers: at least once, and never   *)
(* again.  An event that was put into the box stays there until somebody   *)
(* has processed it, until it lies in the dead letter box, or until it is  *)
(* thrown away on purpose; an event that has left the box does not return. *)
(***************************************************************************)
CONSTANT Events

VARIABLES
  put,      \* events that were ever put into the box
  kept,     \* events that are in it
  handled,  \* events somebody has processed, some of them more than once
  dead,     \* events in the dead letter box
  dropped   \* events that were thrown away

box == <<put, kept, handled, dead, dropped>>

Init ==
  /\ put = {}
  /\ kept = {}
  /\ handled = {}
  /\ dead = {}
  /\ dropped = {}

Put(e) ==
  /\ e \notin put
  /\ put' = put \union {e}
  /\ kept' = kept \union {e}
  /\ UNCHANGED <<handled, dead, dropped>>

\* Processed, and taken out at once or later.
Handle(e) ==
  /\ e \in put
  /\ handled' = handled \union {e}
  /\ kept' \in {kept, kept \ {e}}
  /\ UNCHANGED <<put, dead, dropped>>

Bury(e) ==
  /\ e \in put
  /\ dead' = dead \union {e}
  /\ UNCHANGED <<put, kept, handled, dropped>>

Drop(e) ==
  /\ e \in kept
  /\ kept' = kept \ {e}
  /\ dropped' = dropped \union {e}
  /\ UNCHANGED <<put, handled, dead>>

\* Only what was processed or buried is taken out.
TakeOut(es) ==
  /\ es \subseteq handled \union dead
  /\ kept' = kept \ es
  /\ UNCHANGED <<put, handled, dead, dropped>>

Next ==
  \/ \E e \in Events : Put(e) \/ Handle(e) \/ Bury(e) \/ Drop(e)
  \/ \E es \in SUBSET Events : TakeOut(es)

Spec == Init /\ [][Next]_box
=============================================================================
