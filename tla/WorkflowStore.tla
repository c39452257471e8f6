---------------------------- MODULE WorkflowStore ----------------------------
(***************************************************************************)
(* Writers of one durable workflow run, as packages/agent-runtime keeps it *)
(* on disk: a lease directory (src/doc-store/index.ts) that says who may   *)
(* try, and a journal of numbered entries (src/workflows/journal.ts) that  *)
(* says who may write.  acquireWriter (src/workflows/store.ts) takes the   *)
(* lease, publishes a claim of the next generation and returns a writer    *)
(* whose mutations carry its token and generation.                         *)
(*                                                                         *)
(* Processes share nothing but the files.  Publishing creates an entry and *)
(* fills it in two steps; every read, and every file operation, is a step; *)
(* a process may stop for any time or crash between any two.  The scan of  *)
(* a directory is one step, and so is the writing of a lease entry.        *)
(*                                                                         *)
(* Each element of Writer is one call of acquireWriter and what is done    *)
(* with the writer it returns.                                             *)
(***************************************************************************)
EXTENDS Integers, Sequences, FiniteSets, SequencesExt

CONSTANTS
  Writer,
  None,     \* no writer
  MaxSlot,  \* bound on the entries of the journal
  Prompt    \* TRUE: nobody creates or fills an entry below an existing one,
            \* that is, nobody is held up while others publish

ASSUME StoreAssumption ==
  /\ None \notin Writer /\ IsFiniteSet(Writer)
  /\ MaxSlot \in Nat
  /\ Prompt \in BOOLEAN

VARIABLES
  slots,    \* slots[s]: the journal's entry number s
  exists,   \* the journal's directory exists
  head,     \* what readWorkflowJournal returns: Replay(slots)
  disk,     \* writers with an unexpired entry in the lease directory
  order,    \* writers by the acquiredAt of their lease record; between the
            \* check and the write of a refresh a writer is in it twice
  pc,       \* where each writer is
  job,      \* the entry it is publishing, and its number
  gen,      \* the generation it claimed
  expect,   \* the expectedRevision of the mutation it is at
  acked,    \* entries whose mutation was reported as done (history)
  refused   \* entries whose mutation was published and then reported as
            \* stale (history)

lease   == <<disk, order>>
journal == <<slots, exists, head>>
history == <<acked, refused>>
vars    == <<journal, lease, pc, job, gen, expect, history>>

Slot == 0..MaxSlot
Revision == 0..(MaxSlot + 1)
Generation == 0..Cardinality(Writer)

(* An entry that was created and not filled does not parse (torn).         *)
Kinds == {"absent", "torn", "baseline", "claim", "mutation"}

(* A claim carries its generation and expectedRecordRevision, a mutation   *)
(* its generation and recordRevision.                                      *)
Entry == [kind : Kinds, token : Writer \cup {None}, gen : Generation,
          rev : Revision]

Bare(kind) == [kind |-> kind, token |-> None, gen |-> 0, rev |-> 0]
Absent == Bare("absent")
Torn   == Bare("torn")

(* The head after the entries seen so far: the number of the last entry,   *)
(* the generation and the revision; owners are the tokens of the canonical *)
(* claims (the code keeps the last) and events the canonical mutations.    *)
EmptyHead == [phys |-> -1, gen |-> 0, rev |-> 0,
              owners |-> << >>, events |-> << >>]

Job   == [slot : Slot, entry : Entry]
NoJob == [slot |-> 0, entry |-> Absent]

Stages == {"idle", "entering", "confirming", "held", "publishing", "filling",
           "verifying", "ready", "checking", "refreshing", "fresh",
           "leaving", "gone"}

TypeOK ==
  /\ slots \in [Slot -> Entry]
  /\ exists \in BOOLEAN
  /\ head.gen = Len(head.owners) /\ head.rev = Len(head.events)
  /\ disk \subseteq Writer
  /\ order \in Seq(Writer) /\ Len(order) <= 2 * Cardinality(Writer)
  /\ pc \in [Writer -> Stages]
  /\ job \in [Writer -> Job]
  /\ gen \in [Writer -> Generation]
  /\ expect \in [Writer -> Revision]
  /\ acked \subseteq Slot
  /\ refused \subseteq Slot

Init ==
  /\ slots = [s \in Slot |-> Absent]
  /\ exists = FALSE
  /\ head = EmptyHead
  /\ disk = {}
  /\ order = << >>
  /\ pc = [w \in Writer |-> "idle"]
  /\ job = [w \in Writer |-> NoJob]
  /\ gen = [w \in Writer |-> 0]
  /\ expect = [w \in Writer |-> 0]
  /\ acked = {}
  /\ refused = {}

Goes(w, stage) == pc' = [pc EXCEPT ![w] = stage]

(* The same, for a writer that is through with its entry.                  *)
Rests(w, stage) ==
  /\ Goes(w, stage)
  /\ job' = [job EXCEPT ![w] = NoJob]
  /\ expect' = [expect EXCEPT ![w] = 0]

-----------------------------------------------------------------------------
(* Reading the journal *)

Token(h) == IF h.owners = << >> THEN None ELSE Last(h.owners)

(* A canonical claim follows the generation and the revision of the head.  *)
ClaimApplies(h, e) ==
  e.kind = "claim" /\ e.gen = h.gen + 1 /\ e.rev = h.rev

(* A canonical mutation is the owner's and makes the next revision.        *)
MutationApplies(h, e) ==
  e.kind = "mutation" /\ e.gen = h.gen /\ e.token = Token(h) /\ e.rev = h.rev + 1

(* Any other entry is quarantined, and still counts as the last entry.     *)
Applied(h, e, s) ==
  IF e = Absent THEN h
  ELSE IF ClaimApplies(h, e)
    THEN [h EXCEPT !.phys = s, !.gen = e.gen, !.owners = Append(@, e.token)]
  ELSE IF MutationApplies(h, e)
    THEN [h EXCEPT !.phys = s, !.rev = e.rev, !.events = Append(@, <<e.token, s>>)]
  ELSE [h EXCEPT !.phys = s]

Replay(sl) ==
  LET upTo[n \in 0..(MaxSlot + 1)] ==
        IF n = 0 THEN EmptyHead ELSE Applied(upTo[n - 1], sl[n - 1], n - 1)
  IN  upTo[MaxSlot + 1]

(* The journal's entry s becomes e, for whoever reads it from now on.      *)
Puts(s, e) ==
  LET now == [slots EXCEPT ![s] = e] IN slots' = now /\ head' = Replay(now)

-----------------------------------------------------------------------------
(* The lease *)

(* The active entry that was acquired first wins.                          *)
Wins(w) ==
  /\ w \in disk
  /\ \E i \in 1..Len(order) :
       order[i] = w /\ \A j \in 1..(i - 1) : order[j] \notin disk

(* The order without w's record on disk.                                   *)
Dropped(w) == IF w \in disk THEN RemoveFirst(order, w) ELSE order

LeaseBusy(w) ==
  /\ pc[w] = "idle"
  /\ disk # {}
  /\ Goes(w, "gone")
  /\ UNCHANGED <<journal, lease, job, gen, expect, history>>

(* Nobody has the lease: make a record, to be written next.                *)
LeaseFree(w) ==
  /\ pc[w] = "idle"
  /\ disk = {}
  /\ order' = Append(order, w)
  /\ Goes(w, "entering")
  /\ UNCHANGED <<journal, disk, job, gen, expect, history>>

LeaseWrite(w) ==
  /\ pc[w] = "entering"
  /\ disk' = disk \cup {w}
  /\ Goes(w, "confirming")
  /\ UNCHANGED <<journal, order, job, gen, expect, history>>

LeaseConfirm(w) ==
  /\ pc[w] = "confirming"
  /\ Goes(w, IF Wins(w) THEN "held" ELSE "gone")
  /\ IF Wins(w) THEN UNCHANGED lease
     ELSE disk' = disk \ {w} /\ order' = Dropped(w)
  /\ UNCHANGED <<journal, job, gen, expect, history>>

Expire(w) ==
  /\ w \in disk
  /\ disk' = disk \ {w}
  /\ order' = Dropped(w)
  /\ UNCHANGED <<journal, pc, job, gen, expect, history>>

(* release(): the writer is done, or acquireWriter failed.                 *)
Leave(w) ==
  /\ pc[w] \in {"ready", "leaving"}
  /\ disk' = disk \ {w}
  /\ order' = Dropped(w)
  /\ Rests(w, "gone")
  /\ UNCHANGED <<journal, gen, history>>

(* The process stops for good; its files stay.                             *)
Crash(w) ==
  /\ pc[w] \notin {"idle", "gone"}
  /\ Rests(w, "gone")
  /\ UNCHANGED <<journal, lease, gen, history>>

-----------------------------------------------------------------------------
(* Publishing an entry *)

Publishes(w, s, e) ==
  /\ s <= MaxSlot
  /\ job' = [job EXCEPT ![w] = [slot |-> s, entry |-> e]]
  /\ Goes(w, "publishing")

(* Where a writer goes that could not publish its entry.                   *)
Fails(w) == Rests(w, IF job[w].entry.kind = "mutation" THEN "ready" ELSE "leaving")

Timely(s) == Prompt => \A t \in Slot : t > s => slots[t] = Absent

CreateOver(w) ==  \* a mutant: an entry that is there is replaced
  /\ pc[w] = "publishing"
  /\ Timely(job[w].slot)
  /\ Puts(job[w].slot, Torn)
  /\ Goes(w, "filling")
  /\ UNCHANGED <<exists, lease, job, gen, expect, history>>

Create(w) ==
  /\ pc[w] = "publishing"
  /\ slots[job[w].slot] = Absent
  /\ Timely(job[w].slot)
  /\ Puts(job[w].slot, Torn)
  /\ Goes(w, "filling")
  /\ UNCHANGED <<exists, lease, job, gen, expect, history>>

Conflict(w) ==
  /\ pc[w] = "publishing"
  /\ slots[job[w].slot] # Absent
  /\ Fails(w)
  /\ UNCHANGED <<journal, lease, gen, history>>

Fill(w) ==
  /\ pc[w] = "filling"
  /\ Timely(job[w].slot)
  /\ Puts(job[w].slot, job[w].entry)
  /\ Goes(w, "verifying")
  /\ UNCHANGED <<exists, lease, job, gen, expect, history>>

(* The write fails, and the entry is removed.                              *)
FillFails(w) ==
  /\ pc[w] = "filling"
  /\ Puts(job[w].slot, Absent)
  /\ Fails(w)
  /\ UNCHANGED <<exists, lease, gen, history>>

-----------------------------------------------------------------------------
(* acquireWriter, once the lease is held *)

(* The directory is made first: whoever finds it empty claims entry 0.     *)
PublishBaseline(w) ==
  /\ pc[w] = "held"
  /\ ~exists
  /\ Publishes(w, 0, Bare("baseline"))
  /\ exists' = TRUE
  /\ UNCHANGED <<slots, head, lease, gen, expect, history>>

VerifyBaseline(w) ==
  /\ pc[w] = "verifying" /\ job[w].entry.kind = "baseline"
  /\ Rests(w, "held")
  /\ UNCHANGED <<journal, lease, gen, history>>

PublishClaim(w) ==
  /\ pc[w] = "held"
  /\ exists
  /\ Publishes(w, head.phys + 1,
       [kind |-> "claim", token |-> w, gen |-> head.gen + 1, rev |-> head.rev])
  /\ UNCHANGED <<journal, lease, gen, expect, history>>

VerifyClaim(w) ==
  /\ pc[w] = "verifying" /\ job[w].entry.kind = "claim"
  /\ LET mine == Token(head) = w /\ head.gen = job[w].entry.gen
     IN  /\ Rests(w, IF mine THEN "ready" ELSE "leaving")
         /\ gen' = IF mine THEN [gen EXCEPT ![w] = head.gen] ELSE gen
  /\ UNCHANGED <<journal, lease, history>>

-----------------------------------------------------------------------------
(* create, mutate and compensate *)

(* The caller read the record just before (readFresh) and expects its      *)
(* revision; without a record it creates one, which refreshes no lease.    *)
Begin(w) ==
  /\ pc[w] = "ready"
  /\ expect' = [expect EXCEPT ![w] = head.rev]
  /\ Goes(w, IF head.rev = 0 THEN "fresh" ELSE "checking")
  /\ UNCHANGED <<journal, lease, job, gen, history>>

(* refresh() checks the lease, makes a new record, and then writes it.     *)
RefreshCheck(w) ==
  /\ pc[w] = "checking"
  /\ Goes(w, IF Wins(w) THEN "refreshing" ELSE "ready")
  /\ order' = IF Wins(w) THEN Append(order, w) ELSE order
  /\ UNCHANGED <<journal, disk, job, gen, expect, history>>

RefreshWriteBeside(w) ==  \* a mutant: the old lease record stays
  /\ pc[w] = "refreshing"
  /\ disk' = disk \cup {w}
  /\ Goes(w, "fresh")
  /\ UNCHANGED <<journal, order, job, gen, expect, history>>

RefreshWrite(w) ==
  /\ pc[w] = "refreshing"
  /\ disk' = disk \cup {w}
  /\ order' = Dropped(w)
  /\ Goes(w, "fresh")
  /\ UNCHANGED <<journal, job, gen, expect, history>>

(* The journal is read again, and must still have this writer as its owner *)
(* and the revision the caller expects.                                    *)
IsHead(w) ==
  Token(head) = w /\ head.gen = gen[w] /\ head.rev = expect[w]

PublishMutation(w) ==
  /\ pc[w] = "fresh"
  /\ IsHead(w)
  /\ Publishes(w, head.phys + 1,
       [kind |-> "mutation", token |-> w, gen |-> gen[w], rev |-> expect[w] + 1])
  /\ UNCHANGED <<journal, lease, gen, expect, history>>

MutationStale(w) ==
  /\ pc[w] = "fresh"
  /\ ~IsHead(w)
  /\ Rests(w, "ready")
  /\ UNCHANGED <<journal, lease, gen, history>>

(* The mutation is reported as done when it is the head of the journal.    *)
VerifyMutationOff(w) ==  \* a mutant: the number of the entry is off by one
  /\ pc[w] = "verifying" /\ job[w].entry.kind = "mutation"
  /\ LET s == job[w].slot
         done == head.rev = job[w].entry.rev /\ Last(head.events) = <<w, s + 1>>
     IN  /\ acked' = IF done THEN acked \cup {s} ELSE acked
         /\ refused' = IF done THEN refused ELSE refused \cup {s}
  /\ Rests(w, "ready")
  /\ UNCHANGED <<journal, lease, gen>>

VerifyMutation(w) ==
  /\ pc[w] = "verifying" /\ job[w].entry.kind = "mutation"
  /\ LET s == job[w].slot
         done == /\ Token(head) = w /\ head.gen = gen[w]
                 /\ head.rev = job[w].entry.rev
                 /\ Last(head.events) = <<w, s>>
     IN  /\ acked' = IF done THEN acked \cup {s} ELSE acked
         /\ refused' = IF done THEN refused ELSE refused \cup {s}
  /\ Rests(w, "ready")
  /\ UNCHANGED <<journal, lease, gen>>

-----------------------------------------------------------------------------
Next ==
  \E w \in Writer :
    \/ LeaseBusy(w) \/ LeaseFree(w) \/ LeaseWrite(w) \/ LeaseConfirm(w)
    \/ Expire(w) \/ Leave(w) \/ Crash(w)
    \/ PublishBaseline(w) \/ VerifyBaseline(w)
    \/ PublishClaim(w) \/ VerifyClaim(w)
    \/ Create(w) \/ Conflict(w) \/ Fill(w) \/ FillFails(w)
    \/ Begin(w) \/ RefreshCheck(w) \/ RefreshWrite(w)
    \/ PublishMutation(w) \/ MutationStale(w) \/ VerifyMutation(w)

Spec == Init /\ [][Next]_vars

-----------------------------------------------------------------------------
(* Properties *)

Canonical == {e[2] : e \in ToSet(head.events)}

(* A mutation that was reported as done stays in the record, whoever takes *)
(* over later ("its update, event, and restore attempts must all fail      *)
(* without changing B's canonical record/history").                        *)
DoneStays == acked \subseteq Canonical

(* A mutation that was published and then reported as stale has either no  *)
(* effect, or its writer had lost the record to another one by then.       *)
StaleMeansTakeover ==
  \A s \in refused \cap Canonical : Token(head) # slots[s].token

(* The journal implements the register: a writer that was fenced off by a  *)
(* later claim never changes the record again, and no canonical claim or   *)
(* mutation is ever taken back.                                            *)
Register ==
  INSTANCE WorkflowRegister
    WITH Change <- Slot, owners <- head.owners, history <- head.events

OneWriterAtATime == Register!Spec

=============================================================================
