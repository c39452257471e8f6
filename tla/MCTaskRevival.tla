--------------------------- MODULE MCTaskRevival ----------------------------
(* Two tasks of one run, two revivals, two crashes and one join of each task  *)
(* after its end.                                                          *)
EXTENDS TaskRevival

=============================================================================
