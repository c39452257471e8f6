--------------------------- MODULE WorkflowControl --------------------------
(***************************************************************************)
(* Durable control commands of one workflow run:                           *)
(*   packages/agent-runtime/src/workflows/control.ts                       *)
(*                     FileWorkflowControlInbox: accept and recordOutcome  *)
(*   packages/agent-runtime/src/workflows/control-processor.ts             *)
(*                     WorkflowControlCommandProcessor.processNext         *)
(*   packages/host/src/runtime/workflow-runtime-operations.ts              *)
(*                     the pump of a live run and the dispatch by id       *)
(*                                                                         *)
(* Attempts to submit a command, the calls of processNext by a live run    *)
(* that holds the workflow's lease (its timer and its connection), and     *)
(* those of other hosts interleave, and each may stop between any two      *)
(* files it writes.  An exclusive file is created before it has content;   *)
(* whoever sees it in between, or after a crash there, cannot parse it.    *)
(*                                                                         *)
(* The workflow store is the register that WorkflowStore.tla implements:   *)
(* an owner, a generation that each takeover advances, a record that only  *)
(* the owner changes, and a journal of the changes.  Of the record it      *)
(* keeps whether it is cancelled and whether its input is provided.        *)
(* Expiry times, authorisation and resume requests are left out.           *)
(***************************************************************************)
EXTENDS Integers, Sequences, FiniteSets, FiniteSetsExt, SequencesExt

CONSTANTS
  Attempt,      \* calls of accept(): numbers, in the order of createdAt
  KeyOf,        \* KeyOf[a]: the scope and idempotency key of a
  KindOf,       \* KindOf[a]: "cancel" or "input"
  LiveCall,     \* calls of processNext with the writer of the live run
  OtherCall,    \* calls of processNext by other hosts
  MaxClaims,    \* bound on takeovers
  MaxCrashes    \* bound on crashes

ASSUME ControlAssumption ==
  /\ Attempt \subseteq Nat \ {0} /\ IsFiniteSet(Attempt)
  /\ DOMAIN KeyOf = Attempt
  /\ KindOf \in [Attempt -> {"cancel", "input"}]
  /\ LiveCall \intersect OtherCall = {}
  /\ MaxClaims \in Nat /\ MaxCrashes \in Nat

Call == LiveCall \union OtherCall
Key == {KeyOf[a] : a \in Attempt}

VARIABLES
  dedupe,    \* dedupe[k]: the file of key k, and the attempt it names
  command,   \* command[a]: the command file of attempt a
  outcome,   \* outcome[a]: the outcome file of attempt a
  expected,  \* expected[a]: the generation the submitter of a saw
  submit,    \* submit[a]: how far accept() got
  store,     \* the workflow store
  journal,   \* the attempts that the journal's events name, in order
  call,      \* the calls of processNext
  live,      \* the process of the live run is up
  crashes    \* crashes so far

inbox == <<dedupe, command, outcome>>
vars == <<inbox, expected, submit, store, journal, call, live, crashes>>

None == 0
Torn == -1
Live == "live"
WriterOf(p) == IF p \in LiveCall THEN Live ELSE p

CallPoints == {"idle", "applied", "precondition", "acquire", "fresh",
               "mutate", "verify", "record", "fill", "release"}

TypeOK ==
  /\ dedupe \in [Key -> {None, Torn} \union Attempt]
  /\ command \in [Attempt -> {"none", "torn", "file"}]
  /\ outcome \in [Attempt -> {"none", "torn", "applied", "rejected"}]
  /\ expected \in [Attempt -> 0..MaxClaims]
  /\ submit \in [Attempt -> {"new", "claim", "read", "publish", "fill",
                             "accepted", "duplicate", "failed"}]
  /\ store \in [owner: OtherCall \union {Live}, leased: BOOLEAN,
                generation: 0..MaxClaims, revision: Nat,
                cancelled: BOOLEAN, provided: BOOLEAN]
  /\ store.revision = Len(journal)
  /\ journal \in Seq(Attempt)
  /\ call \in [Call -> [pc: CallPoints, id: Attempt \union {None},
                        seen: Nat, result: {"applied", "rejected"}]]
  /\ live \in BOOLEAN
  /\ crashes \in 0..MaxCrashes

(* A live run has adopted the workflow, which waits for input.             *)
Init ==
  /\ dedupe = [k \in Key |-> None]
  /\ command = [a \in Attempt |-> "none"]
  /\ outcome = [a \in Attempt |-> "none"]
  /\ expected = [a \in Attempt |-> 0]
  /\ submit = [a \in Attempt |-> "new"]
  /\ store = [owner |-> Live, leased |-> TRUE, generation |-> 0,
              revision |-> 0, cancelled |-> FALSE, provided |-> FALSE]
  /\ journal = << >>
  /\ call = [p \in Call |-> [pc |-> "idle", id |-> None, seen |-> 0,
                             result |-> "applied"]]
  /\ live = TRUE
  /\ crashes = 0

-----------------------------------------------------------------------------
(* accept(): the dedupe entry of the key, then the command file it names *)

Step(a, from, to) ==
  /\ submit[a] = from
  /\ submit' = [submit EXCEPT ![a] = to]

(* The envelope is built with the generation the submitter sees, then the  *)
(* key is claimed: the first to create the entry names the command.        *)
ClaimKey(a) ==
  /\ \/ dedupe[KeyOf[a]] = None /\ Step(a, "new", "claim")
        /\ dedupe' = [dedupe EXCEPT ![KeyOf[a]] = Torn]
     \/ dedupe[KeyOf[a]] # None /\ Step(a, "new", "read")
        /\ UNCHANGED dedupe
  /\ expected' = [expected EXCEPT ![a] = store.generation]
  /\ UNCHANGED <<command, outcome, store, journal, call, live, crashes>>

NameCommand(a) ==
  /\ Step(a, "claim", "publish")
  /\ dedupe' = [dedupe EXCEPT ![KeyOf[a]] = a]
  /\ UNCHANGED <<command, outcome, expected, store, journal, call, live,
                 crashes>>

(* The attempt whose envelope a publishes and returns.                     *)
CanonicalOwn(a) == a  \* a mutant: a duplicate publishes its own envelope

Canonical(a) == dedupe[KeyOf[a]]

(* readDedupe retries for a while and then gives up.  A different payload  *)
(* under the same key is a conflict.                                       *)
ReadDedupe(a) ==
  /\ \/ /\ Canonical(a) \in Attempt
        /\ KindOf[Canonical(a)] = KindOf[a]
        /\ Step(a, "read", "publish")
     \/ /\ Canonical(a) \in Attempt => KindOf[Canonical(a)] # KindOf[a]
        /\ Step(a, "read", "failed")
  /\ UNCHANGED <<inbox, expected, store, journal, call, live, crashes>>

Accepted(a) == IF Canonical(a) = a THEN "accepted" ELSE "duplicate"

(* publishCommand: whoever finds the file already there compares it.       *)
CreateCommand(a) ==
  /\ submit[a] = "publish"
  /\ \/ /\ command[Canonical(a)] = "none"
        /\ command' = [command EXCEPT ![Canonical(a)] = "torn"]
        /\ Step(a, "publish", "fill")
     \/ /\ command[Canonical(a)] = "torn"
        /\ Step(a, "publish", "failed")
        /\ UNCHANGED command
     \/ /\ command[Canonical(a)] = "file"
        /\ Step(a, "publish", Accepted(a))
        /\ UNCHANGED command
  /\ UNCHANGED <<dedupe, outcome, expected, store, journal, call, live,
                 crashes>>

FillCommand(a) ==
  /\ Step(a, "fill", Accepted(a))
  /\ command' = [command EXCEPT ![Canonical(a)] = "file"]
  /\ UNCHANGED <<dedupe, outcome, expected, store, journal, call, live,
                 crashes>>

SubmitterCrash(a) ==
  /\ crashes < MaxCrashes
  /\ crashes' = crashes + 1
  /\ submit[a] \in {"claim", "publish", "fill"}
  /\ submit' = [submit EXCEPT ![a] = "failed"]
  /\ UNCHANGED <<inbox, expected, store, journal, call, live>>

-----------------------------------------------------------------------------
(* processNext *)

PendingAll ==  \* a mutant: commands that have an outcome are not left out
  {a \in Attempt : command[a] = "file"}

Pending == {a \in Attempt : command[a] = "file" /\
                            outcome[a] \notin {"applied", "rejected"}}

Goes(p, pc) == call' = [call EXCEPT ![p].pc = pc]
Concludes(p, result) ==
  call' = [call EXCEPT ![p].pc = "record", ![p].result = result]

others == <<expected, submit, live, crashes>>

(* The pump of a live run takes the oldest pending command, a dispatch the *)
(* one it was called for.                                                  *)
Pick(p) ==
  /\ call[p].pc = "idle"
  /\ p \in LiveCall => live
  /\ \E a \in Pending :
       /\ p \in LiveCall => a = Min(Pending)
       /\ call' = [call EXCEPT ![p].pc = "applied", ![p].id = a]
  /\ UNCHANGED <<inbox, store, journal, others>>

(* findAppliedEvent.                                                       *)
HasEvent(a) == a \in ToSet(journal)

FindApplied(p) ==
  /\ call[p].pc = "applied"
  /\ IF HasEvent(call[p].id) THEN Concludes(p, "applied")
                             ELSE Goes(p, "precondition")
  /\ UNCHANGED <<inbox, store, journal, others>>

(* commandStateRejection: a cancelled workflow takes nothing more, and an  *)
(* input is provided once.                                                 *)
StateRejects(a) ==
  store.cancelled \/ (KindOf[a] = "input" /\ store.provided)

(* preconditionRejection: the generation must be the one the submitter     *)
(* saw.                                                                    *)
Precondition(p) ==
  /\ call[p].pc = "precondition"
  /\ IF store.generation # expected[call[p].id] \/ StateRejects(call[p].id)
     THEN Concludes(p, "rejected")
     ELSE Goes(p, "acquire")
  /\ UNCHANGED <<inbox, store, journal, others>>

(* acquireWriter takes the workflow over, unless someone's lease stands    *)
(* (busy); a live run uses the writer it has.                              *)
Acquire(p) ==
  /\ call[p].pc = "acquire"
  /\ \/ p \in LiveCall /\ Goes(p, "fresh") /\ UNCHANGED store
     \/ p \in OtherCall /\ store.leased /\ Goes(p, "idle")
        /\ UNCHANGED store
     \/ /\ p \in OtherCall /\ ~ store.leased
        /\ store.generation < MaxClaims
        /\ store' = [store EXCEPT !.owner = p, !.leased = TRUE,
                                  !.generation = @ + 1]
        /\ Goes(p, "fresh")
  /\ UNCHANGED <<inbox, journal, others>>

(* readFresh, and the state check on what it read.                         *)
Fresh(p) ==
  /\ call[p].pc = "fresh"
  /\ \/ /\ ~ StateRejects(call[p].id)
        /\ call' = [call EXCEPT ![p].pc = "mutate",
                                ![p].seen = store.revision]
     \/ /\ StateRejects(call[p].id)
        /\ Concludes(p, IF HasEvent(call[p].id) THEN "applied"
                                                ELSE "rejected")
  /\ UNCHANGED <<inbox, store, journal, others>>

(* mutate() of the writer: only the owner, on the revision it read.        *)
MayMutateUnseen(p) ==  \* a mutant: the expected revision is not checked
  store.owner = WriterOf(p) /\ store.leased

MayMutate(p) ==
  /\ store.owner = WriterOf(p) /\ store.leased
  /\ call[p].seen = store.revision

MutateAnyway(p) ==  \* a mutant: a stale write is reported as applied
  /\ call[p].pc = "mutate"
  /\ \/ /\ MayMutate(p)
        /\ journal' = Append(journal, call[p].id)
        /\ store' = [store EXCEPT !.revision = @ + 1]
     \/ ~ MayMutate(p) /\ UNCHANGED <<store, journal>>
  /\ Concludes(p, "applied")
  /\ UNCHANGED <<inbox, others>>

MutateSilent(p) ==  \* a mutant: the revision is not advanced
  /\ call[p].pc = "mutate"
  /\ MayMutate(p)
  /\ journal' = Append(journal, call[p].id)
  /\ Goes(p, "verify")
  /\ UNCHANGED <<inbox, store, others>>

Mutate(p) ==
  /\ call[p].pc = "mutate"
  /\ \/ /\ MayMutate(p)
        /\ store' = [store EXCEPT !.revision = @ + 1,
             !.cancelled = @ \/ KindOf[call[p].id] = "cancel",
             !.provided = @ \/ KindOf[call[p].id] = "input"]
        /\ journal' = Append(journal, call[p].id)
        /\ Goes(p, "verify")
     \/ /\ ~ MayMutate(p)
        /\ Goes(p, "release")
        /\ UNCHANGED <<store, journal>>
  /\ UNCHANGED <<inbox, others>>

(* A takeover in between has the change reported as stale.                 *)
Verify(p) ==
  /\ call[p].pc = "verify"
  /\ IF store.owner = WriterOf(p) THEN Concludes(p, "applied")
                                  ELSE Goes(p, "release")
  /\ UNCHANGED <<inbox, store, journal, others>>

(* recordOutcome: the first outcome stands.  Who comes later finds one     *)
(* that differs, at least in its time, or none it can parse, and throws.   *)
RecordOver(p) ==  \* a mutant: the outcome file is not exclusive
  /\ call[p].pc = "record"
  /\ outcome' = [outcome EXCEPT ![call[p].id] = "torn"]
  /\ Goes(p, "fill")
  /\ UNCHANGED <<dedupe, command, store, journal, others>>

Record(p) ==
  /\ call[p].pc = "record"
  /\ \/ /\ outcome[call[p].id] = "none"
        /\ outcome' = [outcome EXCEPT ![call[p].id] = "torn"]
        /\ Goes(p, "fill")
     \/ /\ outcome[call[p].id] # "none"
        /\ Goes(p, "release")
        /\ UNCHANGED outcome
  /\ UNCHANGED <<dedupe, command, store, journal, others>>

Fill(p) ==
  /\ call[p].pc = "fill"
  /\ outcome' = [outcome EXCEPT ![call[p].id] = call[p].result]
  /\ Goes(p, "release")
  /\ UNCHANGED <<dedupe, command, store, journal, others>>

(* finally: a writer that was acquired for the command is released.        *)
Release(p) ==
  /\ call[p].pc = "release"
  /\ call' = [call EXCEPT ![p].pc = "idle", ![p].id = None]
  /\ store' = [store EXCEPT !.leased =
                 @ /\ ~ (p \in OtherCall /\ store.owner = p)]
  /\ UNCHANGED <<inbox, journal, others>>

-----------------------------------------------------------------------------
(* Time and failure *)

Expire ==
  /\ store.leased
  /\ store' = [store EXCEPT !.leased = FALSE]
  /\ UNCHANGED <<inbox, expected, submit, journal, call, live, crashes>>

Stopped(S) == call' = [p \in Call |-> IF p \in S
                 THEN [call[p] EXCEPT !.pc = "idle", !.id = None] ELSE call[p]]

CrashCall(p) ==
  /\ crashes < MaxCrashes
  /\ crashes' = crashes + 1
  /\ call[p].pc # "idle"
  /\ \/ p \in OtherCall /\ Stopped({p}) /\ UNCHANGED live
     \/ p \in LiveCall /\ Stopped(LiveCall) /\ live' = FALSE
  /\ UNCHANGED <<inbox, expected, submit, store, journal>>

-----------------------------------------------------------------------------
Accept == \E a \in Attempt :
  \/ ClaimKey(a) \/ NameCommand(a) \/ ReadDedupe(a)
  \/ CreateCommand(a) \/ FillCommand(a) \/ SubmitterCrash(a)

Process(p) ==
  \/ Pick(p) \/ FindApplied(p) \/ Precondition(p) \/ Acquire(p)
  \/ Fresh(p) \/ Mutate(p) \/ Verify(p) \/ Record(p) \/ Fill(p)
  \/ Release(p)

Next ==
  \/ Accept
  \/ \E p \in Call : Process(p)
  \/ Expire
  \/ \E p \in Call : CrashCall(p)

Spec == Init /\ [][Next]_vars

(* The pump of a live run ticks for ever.                                  *)
FairSpec == Spec /\ \A p \in LiveCall : WF_vars(Process(p))

-----------------------------------------------------------------------------
(* Properties *)

(* No command changes the workflow twice, and of the attempts with one     *)
(* idempotency key at most one does, whatever is repeated after crashes,   *)
(* takeovers and lost races.                                               *)
AppliedOnce ==
  \A i, j \in 1..Len(journal) :
    KeyOf[journal[i]] = KeyOf[journal[j]] => i = j

(* An outcome that says "applied" is backed by an event of the journal.    *)
(* (One that says "rejected" may have an event too: one host takes the     *)
(* workflow over to apply a command, and another finds the generation      *)
(* changed and records a rejection before the first records its success.)  *)
AppliedIsTrue ==
  \A a \in Attempt : outcome[a] = "applied" => a \in ToSet(journal)

(* A submitter that was told "accepted" or "duplicate" has its command on  *)
(* file, also when the first attempt crashed half way.                     *)
AcceptedIsStored ==
  \A a \in Attempt : submit[a] \in {"accepted", "duplicate"} =>
    dedupe[KeyOf[a]] \in Attempt /\ command[dedupe[KeyOf[a]]] = "file"

(* An outcome never changes once it can be read.                           *)
OutcomeStays ==
  [][\A a \in Attempt : outcome[a] \in {"applied", "rejected"} =>
       outcome'[a] = outcome[a]]_vars

(* As long as the live run owns the workflow, every command on file gets   *)
(* its outcome, unless a crash left the outcome of some command torn.      *)
CommandsServed ==
  \A a \in Attempt :
    (command[a] = "file") ~>
      \/ outcome[a] \in {"applied", "rejected"}
      \/ ~ live \/ store.owner # Live \/ ~ store.leased
      \/ \E b \in Attempt : outcome[b] = "torn"

(* The same without the exception: the torn outcome that a crash left does *)
(* not wedge the later commands.  The code breaks this: the pump of a live *)
(* run keeps trying the oldest command without a readable outcome.         *)
LaterCommandsServed ==
  \A a \in Attempt :
    (command[a] = "file") ~>
      \/ outcome[a] # "none" \/ \E p \in Call : call[p].pc = "fill"
      \/ ~ live \/ store.owner # Live \/ ~ store.leased

=============================================================================
