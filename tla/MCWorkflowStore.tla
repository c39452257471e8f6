--------------------------- MODULE MCWorkflowStore ---------------------------
(* Two or three calls of acquireWriter on one workflow run.                *)
EXTENDS WorkflowStore, TLC

MCSymmetry == Permutations(Writer)

=============================================================================
