----------------------------- MODULE MCEventBus -----------------------------
(***************************************************************************)
(* Instances of EventBus for model checking.                               *)
(***************************************************************************)
EXTENDS EventBus
=============================================================================
