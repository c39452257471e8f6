----------------------------- MODULE LaneQueues -----------------------------
(***************************************************************************)
(* What the execution lanes promise the callers of submit(): a command is  *)
(* taken into one lane or turned away, and turned away only if its key was *)
(* used in the lane or it could not have started at once.  A lane runs one *)
(* command at a time, in the order in which they came, and at most Limit   *)
(* lanes run.  Only the cancellation of a lane drops commands: all those   *)
(* that wait in it.  Nothing is said of the order in which lanes take      *)
(* turns, nor of how a lane that may run is found.                         *)
(***************************************************************************)
EXTENDS Integers, Sequences, FiniteSets, SequencesExt

CONSTANTS Lane, Command, KeyOf, Limit, None

VARIABLES
  waiting,  \* waiting[l]: the commands that wait in lane l, in order
  running,  \* running[l]: the command that lane l runs, or None
  used,     \* used[l]: the keys used in lane l
  fate      \* fate[c]: what became of command c

vars == <<waiting, running, used, fate>>

Busy == {l \in Lane : running[l] # None}

Init ==
  /\ waiting = [l \in Lane |-> << >>]
  /\ running = [l \in Lane |-> None]
  /\ used = [l \in Lane |-> {}]
  /\ fate = [c \in Command |-> "new"]

TurnAway(c, l) ==
  /\ fate[c] = "new"
  /\ KeyOf[c] \in used[l] \/ running[l] # None \/ Cardinality(Busy) = Limit
  /\ fate' = [fate EXCEPT ![c] = "answered"]
  /\ UNCHANGED <<waiting, running, used>>

Enter(c, l) ==
  /\ fate[c] = "new" /\ KeyOf[c] \notin used[l]
  /\ fate' = [fate EXCEPT ![c] = "waiting"]
  /\ waiting' = [waiting EXCEPT ![l] = Append(@, c)]
  /\ used' = [used EXCEPT ![l] = @ \union ({KeyOf[c]} \ {None})]
  /\ UNCHANGED running

Begin(l) ==
  /\ running[l] = None /\ waiting[l] # << >>
  /\ Cardinality(Busy) < Limit
  /\ running' = [running EXCEPT ![l] = Head(waiting[l])]
  /\ waiting' = [waiting EXCEPT ![l] = Tail(@)]
  /\ fate' = [fate EXCEPT ![Head(waiting[l])] = "running"]
  /\ UNCHANGED used

End(l) ==
  /\ running[l] # None
  /\ running' = [running EXCEPT ![l] = None]
  /\ fate' = [fate EXCEPT ![running[l]] = "over"]
  /\ UNCHANGED <<waiting, used>>

Clear(l) ==
  /\ waiting' = [waiting EXCEPT ![l] = << >>]
  /\ fate' = [c \in Command |->
       IF c \in ToSet(waiting[l]) THEN "dropped" ELSE fate[c]]
  /\ UNCHANGED <<running, used>>

Next == \E l \in Lane :
  \/ Begin(l) \/ End(l) \/ Clear(l)
  \/ \E c \in Command : TurnAway(c, l) \/ Enter(c, l)

Spec == Init /\ [][Next]_vars

=============================================================================
