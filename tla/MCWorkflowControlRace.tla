----------------------- MODULE MCWorkflowControlRace ------------------------
(* The timer of a live run, its connection, which handles the same         *)
(* commands in the same way, and another host; one command to cancel and   *)
(* one to provide the input.                                               *)
EXTENDS WorkflowControl, TLC

MCAttempt == 1..2
MCKeyOf == <<"k", "l">>
MCKindOf == <<"cancel", "input">>
MCSymmetry == Permutations(LiveCall)

=============================================================================
