--------------------------- MODULE MCReceiveWait ---------------------------
(***************************************************************************)
(* Instances of ReceiveWait for model checking.                            *)
(***************************************************************************)
EXTENDS ReceiveWait

\* Every message is of the tier that is counted first, so that one arrives while
\* the others are counted.
FirstTier == [m \in Messages |-> 0]

=============================================================================
