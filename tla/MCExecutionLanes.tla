-------------------------- MODULE MCExecutionLanes --------------------------
(* Three lanes that contend for two slots, and five commands, of which two *)
(* repeat each other.  Commands differ in their keys only, so those with   *)
(* the same key are submitted in their order: the other cases are          *)
(* renamings of these.                                                     *)
EXTENDS ExecutionLanes

CONSTANTS c1, c2, c3, c4, c5, k

MCKeyOf == [c \in Command |-> IF c \in {c1, c2} THEN k ELSE None]

InOrder ==
  \A pair \in {<<c1, c2>>, <<c3, c4>>, <<c4, c5>>} :
    state[pair[1]] = "idle" => state[pair[2]] = "idle"

(* How a command ended, and whether it had been cancelled, makes no        *)
(* difference to what can follow: states that differ in this are one.      *)
Ahead == {c \in Command : state[c] \in {"idle", "queued", "starting", "running"}}
Used == {<<l, q>> \in Lane \X Key : chosen[l][q] # None}

MCView == <<lanes, scheduling, Used, [c \in Ahead |-> state[c]],
            aborted \cap Ahead, cancelled \cap Ahead>>

=============================================================================
