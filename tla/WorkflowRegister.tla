-------------------------- MODULE WorkflowRegister --------------------------
(***************************************************************************)
(* What the workflow store promises about one workflow run: a record that  *)
(* one writer at a time changes.  A writer takes the record over at most   *)
(* once, and from then on only it changes the record, until the next one   *)
(* takes over.  A change is never taken back.                              *)
(***************************************************************************)
EXTENDS Sequences, SequencesExt

CONSTANTS
  Writer,
  Change   \* the changes a writer may make

VARIABLES
  owners,  \* the writers that took the record over, in order
  history  \* the changes of the record: who made them, and which

Init == owners = << >> /\ history = << >>

TakeOver(w) ==
  /\ w \notin ToSet(owners)
  /\ owners' = Append(owners, w)
  /\ UNCHANGED history

Write(w, c) ==
  /\ owners # << >> /\ w = Last(owners)
  /\ history' = Append(history, <<w, c>>)
  /\ UNCHANGED owners

Next == \E w \in Writer : TakeOver(w) \/ \E c \in Change : Write(w, c)

Spec == Init /\ [][Next]_<<owners, history>>

=============================================================================
