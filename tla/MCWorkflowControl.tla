------------------------- MODULE MCWorkflowControl --------------------------
(* The timer of a live run and one other host; two attempts to cancel with *)
(* one key and one to provide the input.                                   *)
EXTENDS WorkflowControl

MCAttempt == 1..3
MCKeyOf == <<"k", "l", "k">>
MCKindOf == <<"cancel", "input", "cancel">>

=============================================================================
