---------------------- MODULE MCWorkspaceLeaseSession ----------------------
(* Two children, one of a root run that also writes, and that root run.    *)
EXTENDS WorkspaceLeaseSession, TLC

CONSTANTS ours, other, root

MCAncestors == (ours :> {root}) @@ (other :> {}) @@ (root :> {})

MCRequest == UNION {{o} \X Calls(o) : o \in Run}

=============================================================================
