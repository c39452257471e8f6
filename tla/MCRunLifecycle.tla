--------------------------- MODULE MCRunLifecycle ---------------------------
(* A message and a cancel command, a call that writes and two that may run *)
(* concurrently, two steps, one turn of each budget.                       *)
EXTENDS RunLifecycle, TLC

CONSTANTS message, cancel, write, read1, read2

MCKindOf == (message :> "user_message") @@ (cancel :> "cancel")

=============================================================================
