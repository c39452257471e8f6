---------------------------- MODULE MCTaskOutput ----------------------------
(* Two readers of a task of at most three chunks.                          *)
EXTENDS TaskOutput, TLC

MCSymmetry == Permutations(Reader)

=============================================================================
