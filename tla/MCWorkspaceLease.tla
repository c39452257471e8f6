-------------------------- MODULE MCWorkspaceLease --------------------------
(* Instances of WorkspaceLease for TLC: a run, its child and grandchild.   *)
EXTENDS WorkspaceLease, TLC

CONSTANTS root, child, grandchild

(* The root run declares no ancestor, a child its parent, and a grandchild *)
(* the whole chain (what the tool wrapper passes).                         *)
MCAncestorLists ==
  (root :> {{}}) @@ (child :> {{root}})
    @@ (grandchild :> {{root, child}})

=============================================================================
