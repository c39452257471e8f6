------------------------- MODULE WorkflowControlProofs ------------------------
(***************************************************************************)
(* The safety of WorkflowControl for any attempts, keys, hosts, crashes    *)
(* and takeovers.                                                          *)
(*                                                                         *)
(* Two things keep a command from being applied twice.  Of the attempts    *)
(* with one key only the one that the dedupe entry names has a command     *)
(* file (Canonicals).  And the state of the workflow rejects what the      *)
(* journal holds (JournalRejected), so that a call that read the record    *)
(* fresh and finds its revision unchanged cannot meet its own command      *)
(* there (FreshReads).                                                     *)
(***************************************************************************)
EXTENDS WorkflowControl, TLAPS

CallType == [pc: CallPoints, id: Attempt \union {None}, seen: Nat,
             result: {"applied", "rejected"}]
StoreType == [owner: OtherCall \union {Live}, leased: BOOLEAN,
              generation: Nat, revision: Nat, cancelled: BOOLEAN,
              provided: BOOLEAN]

(* The types the proofs need.                                              *)
Types ==
  /\ dedupe \in [Key -> {None, Torn} \union Attempt]
  /\ command \in [Attempt -> {"none", "torn", "file"}]
  /\ outcome \in [Attempt -> {"none", "torn", "applied", "rejected"}]
  /\ submit \in [Attempt -> {"new", "claim", "read", "publish", "fill",
                             "accepted", "duplicate", "failed"}]
  /\ store \in StoreType
  /\ journal \in Seq(Attempt)
  /\ call \in [Call -> CallType]

(* A key that is claimed has one claimant, and one that is named its own   *)
(* attempt.                                                                *)
Claims ==
  /\ \A a \in Attempt : submit[a] = "claim" => dedupe[KeyOf[a]] = Torn
  /\ \A a, b \in Attempt : submit[a] = "claim" /\ submit[b] = "claim"
                           /\ KeyOf[a] = KeyOf[b] => a = b
  /\ \A k \in Key : dedupe[k] \in Attempt => KeyOf[dedupe[k]] = k

(* Only the attempt that its key names has a command file.                 *)
Canonicals ==
  /\ \A a \in Attempt : command[a] # "none" => dedupe[KeyOf[a]] = a
  /\ \A a \in Attempt :
       submit[a] \in {"publish", "fill", "accepted", "duplicate"} =>
         dedupe[KeyOf[a]] \in Attempt

(* What is processed and what was applied is on file.                      *)
OnFile ==
  /\ \A p \in Call : call[p].pc # "idle" =>
       call[p].id \in Attempt /\ command[call[p].id] = "file"
  /\ \A i \in 1..Len(journal) : command[journal[i]] = "file"

(* What was applied would be rejected.                                     *)
JournalRejected == \A i \in 1..Len(journal) : StateRejects(journal[i])

(* A call about to change the record that it read: it may, if nobody else  *)
(* changed it.                                                             *)
FreshReads ==
  \A p \in Call : call[p].pc = "mutate" =>
    /\ call[p].seen <= store.revision
    /\ call[p].seen = store.revision => ~ StateRejects(call[p].id)

(* No event is repeated.                                                   *)
NoRepeats ==
  \A i, j \in 1..Len(journal) : journal[i] = journal[j] => i = j

(* A success that is about to be recorded is in the journal.               *)
InJournal(a) == \E i \in 1..Len(journal) : journal[i] = a

SuccessKnown ==
  /\ \A p \in Call :
       \/ call[p].pc = "verify"
       \/ call[p].pc \in {"record", "fill"} /\ call[p].result = "applied"
       => InJournal(call[p].id)
  /\ \A a \in Attempt : outcome[a] = "applied" => InJournal(a)

(* An outcome that is being filled has one writer.                         *)
OneFiller ==
  /\ \A p \in Call : call[p].pc = "fill" => outcome[call[p].id] = "torn"
  /\ \A p, q \in Call : call[p].pc = "fill" /\ call[q].pc = "fill"
                        /\ call[p].id = call[q].id => p = q

IInv ==
  /\ Types
  /\ Claims
  /\ Canonicals
  /\ OnFile
  /\ JournalRejected
  /\ FreshReads
  /\ NoRepeats
  /\ SuccessKnown
  /\ OneFiller
  /\ AcceptedIsStored

-----------------------------------------------------------------------------
(* The library's set of a sequence's elements, by index.                   *)
LEMMA HasEventIsInJournal ==
  ASSUME journal \in Seq(Attempt), NEW a
  PROVE  a \in ToSet(journal) <=> InJournal(a)
BY DEF ToSet, InJournal

(* Attempts have keys and kinds, and are neither None nor Torn.            *)
LEMMA Attempts ==
  /\ None \notin Attempt /\ Torn \notin Attempt
  /\ \A a \in Attempt : KeyOf[a] \in Key /\ KindOf[a] \in {"cancel", "input"}
BY ControlAssumption DEF None, Torn, Key

(* A step that changes none of these leaves the invariant as it is.        *)
LEMMA IdleKeeps ==
  ASSUME IInv, UNCHANGED <<inbox, submit, journal, call>>,
         store' \in StoreType, store'.revision = store.revision,
         store'.cancelled = store.cancelled,
         store'.provided = store.provided
  PROVE  IInv'
<1>1. UNCHANGED <<dedupe, command, outcome>>
  BY DEF inbox
<1>2. Types' /\ Claims' /\ Canonicals' /\ AcceptedIsStored'
  BY <1>1 DEF IInv, Types, Claims, Canonicals, AcceptedIsStored
<1>3. OnFile' /\ NoRepeats' /\ SuccessKnown' /\ OneFiller'
  BY <1>1 DEF IInv, OnFile, NoRepeats, SuccessKnown, InJournal, OneFiller
<1>4. JournalRejected' /\ FreshReads'
  BY DEF IInv, JournalRejected, FreshReads, StateRejects
<1>5. QED BY <1>2, <1>3, <1>4 DEF IInv

(* A step of accept() takes no command file away.                          *)
LEMMA AcceptKeeps ==
  ASSUME IInv, UNCHANGED <<outcome, store, journal, call>>,
         Types', Claims', Canonicals', AcceptedIsStored',
         \A a \in Attempt : command[a] = "file" => command'[a] = "file"
  PROVE  IInv'
<1>1. OnFile'
  <2>1. \A p \in Call : call[p].pc # "idle" => call[p].id \in Attempt
    BY DEF IInv, OnFile
  <2>2. \A i \in 1..Len(journal) : journal[i] \in Attempt
    BY DEF IInv, Types
  <2>3. QED BY <2>1, <2>2 DEF IInv, OnFile
<1>2. NoRepeats' /\ SuccessKnown' /\ OneFiller'
  BY DEF IInv, NoRepeats, SuccessKnown, InJournal, OneFiller
<1>3. JournalRejected' /\ FreshReads'
  BY DEF IInv, JournalRejected, FreshReads, StateRejects
<1>4. QED BY <1>1, <1>2, <1>3 DEF IInv

(* A step of one call, to c, that appends nothing to the journal.          *)
LEMMA CallKeeps ==
  ASSUME IInv, NEW p \in Call, NEW c \in CallType,
         call' = [call EXCEPT ![p] = c],
         UNCHANGED <<dedupe, command, submit, journal>>,
         store' \in StoreType, store'.revision = store.revision,
         store'.cancelled = store.cancelled,
         store'.provided = store.provided,
         outcome' \in [Attempt -> {"none", "torn", "applied", "rejected"}],
         \A a \in Attempt : outcome'[a] = "applied" => InJournal(a),
         OneFiller',
         c.pc # "idle" => c.id \in Attempt /\ command[c.id] = "file",
         c.pc = "mutate" =>
           /\ c.seen <= store.revision
           /\ c.seen = store.revision => ~ StateRejects(c.id),
         \/ c.pc = "verify"
         \/ c.pc \in {"record", "fill"} /\ c.result = "applied"
         => InJournal(c.id)
  PROVE  IInv'
<1>1. /\ call' \in [Call -> CallType] /\ call'[p] = c
      /\ \A q \in Call : q # p => call'[q] = call[q]
  BY DEF IInv, Types
<1>2. Types' /\ Claims' /\ Canonicals' /\ AcceptedIsStored'
  BY <1>1 DEF IInv, Types, Claims, Canonicals, AcceptedIsStored
<1>3. OnFile'
  BY <1>1 DEF IInv, OnFile
<1>4. JournalRejected' /\ NoRepeats'
  BY DEF IInv, JournalRejected, NoRepeats, StateRejects
<1>5. FreshReads'
  <2>1. SUFFICES ASSUME NEW q \in Call, call'[q].pc = "mutate"
                 PROVE  /\ call'[q].seen <= store'.revision
                        /\ call'[q].seen = store'.revision =>
                             ~ StateRejects(call[q].id)'
    BY DEF FreshReads
  <2>2. CASE q = p
    BY <1>1, <2>1, <2>2 DEF StateRejects
  <2>3. CASE q # p
    BY <1>1, <2>1, <2>3 DEF IInv, FreshReads, StateRejects
  <2>4. QED BY <2>2, <2>3
<1>6. SuccessKnown'
  <2>1. \A a : InJournal(a)' = InJournal(a)
    BY DEF InJournal
  <2>2. QED BY <1>1, <2>1 DEF IInv, SuccessKnown
<1>7. QED BY <1>2, <1>3, <1>4, <1>5, <1>6 DEF IInv

(* The same where no outcome is written.                                   *)
LEMMA QuietKeeps ==
  ASSUME IInv, NEW p \in Call, NEW c \in CallType,
         call' = [call EXCEPT ![p] = c],
         UNCHANGED <<inbox, submit, journal>>,
         store' \in StoreType, store'.revision = store.revision,
         store'.cancelled = store.cancelled,
         store'.provided = store.provided,
         c.pc # "fill",
         c.pc # "idle" => c.id \in Attempt /\ command[c.id] = "file",
         c.pc = "mutate" =>
           /\ c.seen <= store.revision
           /\ c.seen = store.revision => ~ StateRejects(c.id),
         c.pc = "verify" \/ (c.pc = "record" /\ c.result = "applied") =>
           InJournal(c.id)
  PROVE  IInv'
<1>1. UNCHANGED <<dedupe, command, outcome>>
  BY DEF inbox
<1>2. /\ outcome' \in [Attempt -> {"none", "torn", "applied", "rejected"}]
      /\ \A a \in Attempt : outcome'[a] = "applied" => InJournal(a)
  BY <1>1 DEF IInv, Types, SuccessKnown
<1>3. OneFiller'
  <2>1. \A q \in Call : call'[q].pc = "fill" => q # p /\ call'[q] = call[q]
    BY DEF IInv, Types
  <2>2. QED BY <1>1, <2>1 DEF IInv, OneFiller
<1>4. QED BY <1>1, <1>2, <1>3, CallKeeps

(* A call that only goes on, or concludes.                                 *)
LEMMA GoesKeeps ==
  ASSUME IInv, NEW p \in Call, call[p].pc # "idle",
         NEW pc \in {"precondition", "acquire", "fresh", "release"},
         Goes(p, pc), UNCHANGED <<inbox, submit, journal>>,
         store' \in StoreType, store'.revision = store.revision,
         store'.cancelled = store.cancelled,
         store'.provided = store.provided
  PROVE  IInv'
<1> DEFINE c == [call[p] EXCEPT !.pc = pc]
<1>1. /\ c \in CallType /\ c.pc = pc /\ c.id = call[p].id
      /\ call' = [call EXCEPT ![p] = c]
  BY DEF IInv, Types, CallType, CallPoints, Goes
<1>2. c.id \in Attempt /\ command[c.id] = "file"
  BY <1>1 DEF IInv, OnFile
<1> HIDE DEF c
<1>3. QED BY <1>1, <1>2, QuietKeeps

(* A call that has its result, of which a success is in the journal.       *)
LEMMA ConcludesKeeps ==
  ASSUME IInv, NEW p \in Call, call[p].pc # "idle",
         NEW result \in {"applied", "rejected"},
         result = "applied" => InJournal(call[p].id),
         Concludes(p, result), UNCHANGED <<inbox, submit, store, journal>>
  PROVE  IInv'
<1> DEFINE c == [call[p] EXCEPT !.pc = "record", !.result = result]
<1>1. /\ c \in CallType /\ c.pc = "record" /\ c.id = call[p].id
      /\ c.result = result
      /\ call' = [call EXCEPT ![p] = c]
  BY DEF IInv, Types, CallType, CallPoints, Concludes
<1>2. c.id \in Attempt /\ command[c.id] = "file" /\ store' \in StoreType
  BY <1>1 DEF IInv, OnFile, Types
<1> HIDE DEF c
<1>3. QED BY <1>1, <1>2, QuietKeeps

(* A call that stops, or that finds the workflow busy.                     *)
LEMMA StopKeeps ==
  ASSUME IInv, NEW p \in Call, NEW c \in CallType, c.pc = "idle",
         call' = [call EXCEPT ![p] = c],
         UNCHANGED <<inbox, submit, journal>>,
         store' \in StoreType, store'.revision = store.revision,
         store'.cancelled = store.cancelled,
         store'.provided = store.provided
  PROVE  IInv'
BY QuietKeeps

-----------------------------------------------------------------------------
(* accept() *)

(* The first to create the entry of a key is its only claimant.            *)
LEMMA ClaimKeyKeeps ==
  ASSUME IInv, NEW a \in Attempt, ClaimKey(a)
  PROVE  IInv'
<1>1. KeyOf[a] \in Key
  BY Attempts
<1>2. UNCHANGED <<command, outcome, store, journal, call>>
  BY DEF ClaimKey
<1>3. CASE dedupe[KeyOf[a]] = None
  <2>1. /\ submit' = [submit EXCEPT ![a] = "claim"]
        /\ dedupe' = [dedupe EXCEPT ![KeyOf[a]] = Torn]
    BY <1>3 DEF ClaimKey, Step
  <2>2. Types'
    BY <1>1, <1>2, <2>1 DEF IInv, Types
  <2>3. dedupe[KeyOf[a]] \notin Attempt
    BY <1>3, Attempts
  <2>4. Claims'
    <3>1. \A b \in Attempt : submit[b] = "claim" => KeyOf[b] # KeyOf[a]
      BY <1>3 DEF IInv, Claims, None, Torn
    <3>2. QED
      BY <1>1, <2>1, <3>1, Attempts DEF IInv, Types, Claims
  <2>5. Canonicals' /\ AcceptedIsStored'
    <3>1. \A b \in Attempt :
            \/ command[b] # "none"
            \/ submit[b] \in {"publish", "fill", "accepted", "duplicate"}
            => KeyOf[b] # KeyOf[a]
      BY <2>3 DEF IInv, Canonicals
    <3>2. \A b \in Attempt : KeyOf[b] # KeyOf[a] =>
            dedupe'[KeyOf[b]] = dedupe[KeyOf[b]]
      BY <2>1, Attempts DEF IInv, Types
    <3>3. QED
      BY <1>2, <2>1, <3>1, <3>2 DEF IInv, Types, Canonicals, AcceptedIsStored
  <2>6. QED BY <1>2, <2>2, <2>4, <2>5, AcceptKeeps
<1>4. CASE dedupe[KeyOf[a]] # None
  <2>1. submit' = [submit EXCEPT ![a] = "read"] /\ UNCHANGED dedupe
    BY <1>4 DEF ClaimKey, Step
  <2>2. Types' /\ Claims' /\ Canonicals' /\ AcceptedIsStored'
    BY <1>2, <2>1
       DEF IInv, Types, Claims, Canonicals, AcceptedIsStored
  <2>3. QED BY <1>2, <2>2, AcceptKeeps
<1>5. QED BY <1>3, <1>4

(* The claimant names itself.                                              *)
LEMMA NameCommandKeeps ==
  ASSUME IInv, NEW a \in Attempt, NameCommand(a)
  PROVE  IInv'
<1>1. /\ submit[a] = "claim" /\ submit' = [submit EXCEPT ![a] = "publish"]
      /\ dedupe' = [dedupe EXCEPT ![KeyOf[a]] = a]
      /\ UNCHANGED <<command, outcome, store, journal, call>>
  BY DEF NameCommand, Step
<1>2. KeyOf[a] \in Key /\ dedupe[KeyOf[a]] = Torn
  BY <1>1, Attempts DEF IInv, Claims
<1>3. /\ dedupe'[KeyOf[a]] = a
      /\ \A k \in Key : k # KeyOf[a] => dedupe'[k] = dedupe[k]
      /\ \A b \in Attempt : b # a => submit'[b] = submit[b]
      /\ submit'[a] = "publish"
  BY <1>1, <1>2 DEF IInv, Types
<1>4. Types'
  BY <1>1, <1>2 DEF IInv, Types
<1>5. Claims'
  <2>1. \A b \in Attempt : submit'[b] = "claim" => KeyOf[b] # KeyOf[a]
    BY <1>1, <1>3 DEF IInv, Claims
  <2>2. QED BY <1>3, <2>1, Attempts DEF IInv, Claims
<1>6. Canonicals' /\ AcceptedIsStored'
  <2>1. \A b \in Attempt :
          \/ command[b] # "none"
          \/ submit[b] \in {"publish", "fill", "accepted", "duplicate"}
          => KeyOf[b] # KeyOf[a]
    BY <1>2, Attempts DEF IInv, Canonicals
  <2>2. Canonicals'
    BY <1>1, <1>3, <2>1, Attempts DEF IInv, Canonicals
  <2>3. AcceptedIsStored'
    BY <1>1, <1>3, <2>1, Attempts DEF IInv, AcceptedIsStored
  <2>4. QED BY <2>2, <2>3
<1>7. QED BY <1>1, <1>4, <1>5, <1>6, AcceptKeeps

(* A submitter reads who its key names, or gives up.                       *)
LEMMA ReadDedupeKeeps ==
  ASSUME IInv, NEW a \in Attempt, ReadDedupe(a)
  PROVE  IInv'
<1>1. /\ UNCHANGED <<dedupe, command, outcome, store, journal, call>>
      /\ \/ /\ submit' = [submit EXCEPT ![a] = "publish"]
            /\ dedupe[KeyOf[a]] \in Attempt
         \/ submit' = [submit EXCEPT ![a] = "failed"]
  BY DEF ReadDedupe, Step, Canonical, inbox
<1>2. PICK to \in {"publish", "failed"} :
             /\ submit' = [submit EXCEPT ![a] = to]
             /\ to = "publish" => dedupe[KeyOf[a]] \in Attempt
  BY <1>1
<1>3. /\ submit'[a] = to
      /\ \A b \in Attempt : b # a => submit'[b] = submit[b]
  BY <1>2 DEF IInv, Types
<1>4. Types' /\ Claims'
  BY <1>1, <1>2 DEF IInv, Types, Claims
<1>5. Canonicals' /\ AcceptedIsStored'
  BY <1>1, <1>2, <1>3 DEF IInv, Canonicals, AcceptedIsStored
<1>6. QED BY <1>1, <1>4, <1>5, AcceptKeeps

(* A submitter that publishes knows the attempt that its key names.        *)
LEMMA CreateCommandKeeps ==
  ASSUME IInv, NEW a \in Attempt, CreateCommand(a)
  PROVE  IInv'
<1> DEFINE d == dedupe[KeyOf[a]]
<1>1. d \in Attempt /\ dedupe[KeyOf[d]] = d
  BY Attempts DEF IInv, Canonicals, Claims, CreateCommand
<1>2. UNCHANGED <<dedupe, outcome, store, journal, call>>
  BY DEF CreateCommand
<1>3. CASE command[d] = "none"
  <2>1. /\ command' = [command EXCEPT ![d] = "torn"]
        /\ submit' = [submit EXCEPT ![a] = "fill"]
    BY <1>3 DEF CreateCommand, Step, Canonical
  <2>2. Types' /\ Claims'
    BY <1>2, <2>1 DEF IInv, Types, Claims
  <2>3. Canonicals' /\ AcceptedIsStored'
    BY <1>1, <1>2, <1>3, <2>1
       DEF IInv, Types, Canonicals, AcceptedIsStored
  <2>4. \A b \in Attempt : command[b] = "file" => command'[b] = "file"
    BY <1>3, <2>1 DEF IInv, Types
  <2>5. QED BY <1>2, <2>2, <2>3, <2>4, AcceptKeeps
<1>4. CASE command[d] # "none"
  <2>1. /\ UNCHANGED command
        /\ \/ submit' = [submit EXCEPT ![a] = "failed"]
           \/ /\ command[d] = "file"
              /\ submit' = [submit EXCEPT ![a] = Accepted(a)]
    BY <1>4 DEF CreateCommand, Step, Canonical
  <2>2. Accepted(a) \in {"accepted", "duplicate"}
    BY DEF Accepted
  <2>3. Types' /\ Claims' /\ Canonicals' /\ AcceptedIsStored'
    BY <1>1, <1>2, <2>1, <2>2
       DEF IInv, Types, Claims, Canonicals, AcceptedIsStored
  <2>4. QED BY <1>2, <2>1, <2>3, AcceptKeeps
<1>5. QED BY <1>3, <1>4

(* The command file gets its content, the submitter its answer.            *)
LEMMA FillCommandKeeps ==
  ASSUME IInv, NEW a \in Attempt, FillCommand(a)
  PROVE  IInv'
<1> DEFINE d == dedupe[KeyOf[a]]
<1>1. d \in Attempt /\ dedupe[KeyOf[d]] = d
  BY Attempts DEF IInv, Canonicals, Claims, FillCommand, Step
<1>2. UNCHANGED <<dedupe, outcome, store, journal, call>>
  BY DEF FillCommand
<1>3. /\ command' = [command EXCEPT ![d] = "file"]
      /\ submit' = [submit EXCEPT ![a] = Accepted(a)]
      /\ Accepted(a) \in {"accepted", "duplicate"}
  BY DEF FillCommand, Step, Canonical, Accepted
<1>4. Types' /\ Claims'
  BY <1>2, <1>3 DEF IInv, Types, Claims
<1>5. Canonicals' /\ AcceptedIsStored'
  BY <1>1, <1>2, <1>3 DEF IInv, Types, Canonicals, AcceptedIsStored
<1>6. \A b \in Attempt : command[b] = "file" => command'[b] = "file"
  BY <1>3 DEF IInv, Types
<1>7. QED BY <1>2, <1>4, <1>5, <1>6, AcceptKeeps

(* A crashed submitter leaves what it wrote where it is.                   *)
LEMMA SubmitterCrashKeeps ==
  ASSUME IInv, NEW a \in Attempt, SubmitterCrash(a)
  PROVE  IInv'
<1>1. /\ UNCHANGED <<dedupe, command, outcome, store, journal, call>>
      /\ submit' = [submit EXCEPT ![a] = "failed"]
  BY DEF SubmitterCrash, inbox
<1>2. PICK to \in {"publish", "failed"} :
             /\ submit' = [submit EXCEPT ![a] = to]
             /\ to = "publish" => dedupe[KeyOf[a]] \in Attempt
  BY <1>1
<1>3. /\ submit'[a] = to
      /\ \A b \in Attempt : b # a => submit'[b] = submit[b]
  BY <1>2 DEF IInv, Types
<1>4. Types' /\ Claims'
  BY <1>1, <1>2 DEF IInv, Types, Claims
<1>5. Canonicals' /\ AcceptedIsStored'
  BY <1>1, <1>2, <1>3 DEF IInv, Canonicals, AcceptedIsStored
<1>6. QED BY <1>1, <1>4, <1>5, AcceptKeeps

-----------------------------------------------------------------------------
(* processNext *)

(* A pending command has its file.                                         *)
LEMMA PickKeeps ==
  ASSUME IInv, NEW p \in Call, Pick(p)
  PROVE  IInv'
<1>1. PICK a \in Pending :
             call' = [call EXCEPT ![p].pc = "applied", ![p].id = a]
  BY DEF Pick
<1> DEFINE c == [call[p] EXCEPT !.pc = "applied", !.id = a]
<1>2. /\ c \in CallType /\ c.pc = "applied"
      /\ c.id \in Attempt /\ command[c.id] = "file"
      /\ call' = [call EXCEPT ![p] = c]
  BY ZenonT(60), <1>1 DEF IInv, Types, CallType, CallPoints, Pending
<1>3. UNCHANGED <<inbox, submit, store, journal>> /\ store' \in StoreType
  BY DEF Pick, others, IInv, Types
<1> HIDE DEF c
<1>4. QED BY <1>2, <1>3, QuietKeeps

(* A command whose event is found is a success.                            *)
LEMMA FindAppliedKeeps ==
  ASSUME IInv, NEW p \in Call, FindApplied(p)
  PROVE  IInv'
<1>1. /\ UNCHANGED <<inbox, submit, store, journal>> /\ store' \in StoreType
      /\ call[p].pc = "applied"
  BY DEF FindApplied, others, IInv, Types
<1>2. CASE HasEvent(call[p].id)
  <2>1. Concludes(p, "applied") /\ InJournal(call[p].id)
    BY <1>2, HasEventIsInJournal DEF FindApplied, HasEvent, IInv, Types
  <2>2. QED BY <1>1, <2>1, ConcludesKeeps
<1>3. CASE ~ HasEvent(call[p].id)
  <2>1. Goes(p, "precondition")
    BY <1>3 DEF FindApplied
  <2>2. QED BY <1>1, <2>1, GoesKeeps
<1>4. QED BY <1>2, <1>3

(* A command may be rejected at any time.                                  *)
LEMMA PreconditionKeeps ==
  ASSUME IInv, NEW p \in Call, Precondition(p)
  PROVE  IInv'
<1>1. /\ UNCHANGED <<inbox, submit, store, journal>> /\ store' \in StoreType
      /\ call[p].pc = "precondition"
      /\ Concludes(p, "rejected") \/ Goes(p, "acquire")
  BY DEF Precondition, others, IInv, Types
<1>2. QED BY <1>1, ConcludesKeeps, GoesKeeps

(* A takeover changes the owner, not what the record says.                 *)
LEMMA AcquireKeeps ==
  ASSUME IInv, NEW p \in Call, Acquire(p)
  PROVE  IInv'
<1>1. UNCHANGED <<inbox, submit, journal>> /\ call[p].pc = "acquire"
  BY DEF Acquire, others
<1>2. /\ store' \in StoreType
      /\ store'.revision = store.revision
      /\ store'.cancelled = store.cancelled
      /\ store'.provided = store.provided
  <2>1. store \in StoreType /\ store.generation \in Nat
    BY DEF IInv, Types, StoreType
  <2>2. CASE UNCHANGED store
    BY <2>1, <2>2
  <2>3. CASE /\ p \in OtherCall
             /\ store' = [store EXCEPT !.owner = p, !.leased = TRUE,
                                       !.generation = @ + 1]
    <3>1. store' = [owner |-> p, leased |-> TRUE,
                    generation |-> store.generation + 1,
                    revision |-> store.revision,
                    cancelled |-> store.cancelled,
                    provided |-> store.provided]
      BY <2>1, <2>3 DEF StoreType
    <3>2. store.generation + 1 \in Nat
      BY <2>1
    <3>3. QED BY <2>1, <2>3, <3>1, <3>2 DEF StoreType
  <2>4. QED BY <2>2, <2>3 DEF Acquire
<1>3. CASE Goes(p, "fresh")
  BY <1>1, <1>2, <1>3, GoesKeeps
<1>4. CASE Goes(p, "idle")
  <2> DEFINE c == [call[p] EXCEPT !.pc = "idle"]
  <2>1. c \in CallType /\ c.pc = "idle" /\ call' = [call EXCEPT ![p] = c]
    BY <1>4 DEF Goes, IInv, Types, CallType, CallPoints
  <2> HIDE DEF c
  <2>2. QED BY <1>1, <1>2, <2>1, StopKeeps
<1>5. QED BY <1>3, <1>4 DEF Acquire

(* The revision that is read goes with a state that accepts the command.   *)
LEMMA FreshKeeps ==
  ASSUME IInv, NEW p \in Call, Fresh(p)
  PROVE  IInv'
<1>1. /\ UNCHANGED <<inbox, submit, store, journal>> /\ store' \in StoreType
      /\ call[p].pc = "fresh"
  BY DEF Fresh, others, IInv, Types
<1>2. CASE ~ StateRejects(call[p].id)
  <2> DEFINE c == [call[p] EXCEPT !.pc = "mutate", !.seen = store.revision]
  <2>1. store.revision \in Nat
    BY DEF IInv, Types, StoreType
  <2>2. /\ c \in CallType /\ c.pc = "mutate" /\ c.id = call[p].id
        /\ c.seen = store.revision /\ c.seen <= store.revision
        /\ call' = [call EXCEPT ![p] = c]
    <3>1. call[p] \in CallType
      BY DEF IInv, Types
    <3>2. /\ c \in CallType /\ c.pc = "mutate" /\ c.id = call[p].id
          /\ c.seen = store.revision
      BY <2>1, <3>1 DEF CallType, CallPoints
    <3>3. call' = [call EXCEPT ![p] = c]
      BY <1>2 DEF Fresh
    <3>4. QED BY <2>1, <3>2, <3>3
  <2>3. c.id \in Attempt /\ command[c.id] = "file"
    BY <1>1, <2>2 DEF IInv, OnFile
  <2> HIDE DEF c
  <2>4. QED BY <1>1, <1>2, <2>2, <2>3, QuietKeeps
<1>3. CASE StateRejects(call[p].id)
  <2>1. PICK result \in {"applied", "rejected"} :
               /\ Concludes(p, result)
               /\ result = "applied" => HasEvent(call[p].id)
    BY <1>3 DEF Fresh
  <2>2. result = "applied" => InJournal(call[p].id)
    BY <2>1, HasEventIsInJournal DEF HasEvent, IInv, Types
  <2>3. QED BY <1>1, <2>1, <2>2, ConcludesKeeps
<1>4. QED BY <1>2, <1>3

(* The append: the command is new, and no other call can append on the     *)
(* revision it read before.                                                *)
LEMMA AppendKeeps ==
  ASSUME IInv, NEW p \in Call, Mutate(p), MayMutate(p)
  PROVE  IInv'
<1>0. PICK id \in Attempt : id = call[p].id
  BY DEF IInv, OnFile, Mutate
<1>1. /\ call[p].pc = "mutate" /\ Goes(p, "verify")
      /\ store' = [store EXCEPT !.revision = @ + 1,
                     !.cancelled = @ \/ KindOf[id] = "cancel",
                     !.provided = @ \/ KindOf[id] = "input"]
      /\ journal' = Append(journal, id)
      /\ UNCHANGED <<dedupe, command, outcome, submit>>
  BY <1>0 DEF Mutate, inbox, others
<1>2. command[id] = "file" /\ ~ StateRejects(id)
  BY <1>0, <1>1 DEF IInv, OnFile, FreshReads, MayMutate
<1>3. /\ call' \in [Call -> CallType]
      /\ call'[p].pc = "verify" /\ call'[p].id = id
      /\ \A q \in Call : q # p => call'[q] = call[q]
  BY ZenonT(60), <1>0, <1>1 DEF IInv, Types, CallType, CallPoints, Goes
<1>4. /\ store' \in StoreType /\ store'.revision = store.revision + 1
      /\ store.revision \in Nat
      /\ store.cancelled \/ KindOf[id] = "cancel" => store'.cancelled
      /\ store.provided \/ KindOf[id] = "input" => store'.provided
  <2> DEFINE cancelled == store.cancelled \/ KindOf[id] = "cancel"
             provided == store.provided \/ KindOf[id] = "input"
  <2>1. store \in StoreType /\ store.revision \in Nat
    BY DEF IInv, Types, StoreType
  <2>2. /\ cancelled \in BOOLEAN /\ provided \in BOOLEAN
        /\ store' = [store EXCEPT !.revision = @ + 1,
                       !.cancelled = cancelled, !.provided = provided]
    BY <1>1
  <2>3. /\ store' \in StoreType /\ store'.revision = store.revision + 1
        /\ store'.cancelled = cancelled /\ store'.provided = provided
    <3> HIDE DEF cancelled, provided
    <3>1. store' = [owner |-> store.owner, leased |-> store.leased,
                    generation |-> store.generation,
                    revision |-> store.revision + 1,
                    cancelled |-> cancelled, provided |-> provided]
      BY <2>1, <2>2 DEF StoreType
    <3>2. store.revision + 1 \in Nat
      BY <2>1
    <3>3. QED BY <2>1, <2>2, <3>1, <3>2 DEF StoreType
  <2>4. QED BY <2>1, <2>3
<1>5. /\ journal' \in Seq(Attempt) /\ Len(journal) \in Nat
      /\ Len(journal') = Len(journal) + 1
      /\ journal'[Len(journal) + 1] = id
      /\ \A i \in 1..Len(journal) : journal'[i] = journal[i]
  BY <1>1 DEF IInv, Types
<1>6. \A i \in 1..Len(journal') :
        \/ i \in 1..Len(journal) /\ journal'[i] = journal[i]
        \/ i = Len(journal) + 1 /\ journal'[i] = id
  BY <1>5
<1>7. Types' /\ Claims' /\ Canonicals' /\ AcceptedIsStored'
  BY <1>1, <1>3, <1>4, <1>5
     DEF IInv, Types, Claims, Canonicals, AcceptedIsStored
<1>8. OnFile'
  BY <1>1, <1>2, <1>3, <1>6 DEF IInv, OnFile
<1>9. JournalRejected'
  <2>1. \A a \in Attempt : StateRejects(a) => StateRejects(a)'
    BY <1>4 DEF StateRejects
  <2>2. StateRejects(id)'
    BY <1>4, Attempts DEF StateRejects
  <2>3. \A i \in 1..Len(journal) :
          journal[i] \in Attempt /\ StateRejects(journal[i])
    BY DEF IInv, Types, JournalRejected
  <2>4. SUFFICES ASSUME NEW i \in 1..Len(journal')
                 PROVE  StateRejects(journal[i])'
    BY DEF JournalRejected
  <2>5. CASE i \in 1..Len(journal) /\ journal'[i] = journal[i]
    BY <1>4, <2>3, <2>5 DEF StateRejects
  <2>6. CASE journal'[i] = id
    BY <2>2, <2>6 DEF StateRejects
  <2>7. QED BY <1>6, <2>5, <2>6
<1>10. FreshReads'
  <2>1. ASSUME NEW q \in Call, call'[q].pc = "mutate"
        PROVE  call'[q].seen < store'.revision
    <3>1. /\ call'[q] = call[q] /\ call[q].seen \in Nat
          /\ call[q].seen <= store.revision
      BY <1>3, <2>1 DEF IInv, FreshReads, Types, CallType
    <3>2. QED BY <1>4, <3>1
  <2>2. call' \in [Call -> CallType] /\ store'.revision \in Nat
    BY <1>3, <1>4
  <2>3. \A q \in Call : call'[q].seen \in Nat
    BY <2>2 DEF CallType
  <2>4. QED BY <2>1, <2>2, <2>3 DEF FreshReads
<1>11. NoRepeats'
  <2>1. \A i \in 1..Len(journal) : journal[i] # id
    BY <1>2 DEF IInv, JournalRejected
  <2>2. QED BY <1>6, <2>1 DEF IInv, NoRepeats
<1>12. SuccessKnown'
  <2>1. \A a : InJournal(a) => InJournal(a)'
    BY <1>5 DEF InJournal
  <2>2. InJournal(id)'
    <3>1. Len(journal) + 1 \in 1..Len(journal')
      BY <1>5
    <3>2. QED BY <1>5, <3>1 DEF InJournal
  <2>3. \A q \in Call :
          \/ call'[q].pc = "verify"
          \/ call'[q].pc \in {"record", "fill"} /\ call'[q].result = "applied"
          => \E i \in 1..Len(journal') : journal'[i] = call'[q].id
    <3>1. SUFFICES ASSUME NEW q \in Call,
                     \/ call'[q].pc = "verify"
                     \/ /\ call'[q].pc \in {"record", "fill"}
                        /\ call'[q].result = "applied"
                   PROVE  \E i \in 1..Len(journal') : journal'[i] = call'[q].id
      OBVIOUS
    <3>2. CASE q = p
      BY <1>3, <2>2, <3>2 DEF InJournal
    <3>3. CASE q # p
      <4>1. InJournal(call[q].id)
        BY <1>3, <3>1, <3>3 DEF IInv, SuccessKnown
      <4>2. QED BY <1>3, <2>1, <3>3, <4>1 DEF InJournal
    <3>4. QED BY <3>2, <3>3
  <2>4. QED BY <1>1, <2>1, <2>3 DEF IInv, SuccessKnown, InJournal
<1>13. OneFiller'
  BY <1>1, <1>3 DEF IInv, OneFiller
<1>14. QED
  BY <1>7, <1>8, <1>9, <1>10, <1>11, <1>12, <1>13 DEF IInv

(* The record is changed, or someone else changed it before.               *)
LEMMA MutateKeeps ==
  ASSUME IInv, NEW p \in Call, Mutate(p)
  PROVE  IInv'
<1>1. CASE MayMutate(p)
  BY <1>1, AppendKeeps
<1>2. CASE ~ MayMutate(p)
  <2>1. /\ call[p].pc = "mutate" /\ Goes(p, "release")
        /\ UNCHANGED <<inbox, submit, store, journal>>
        /\ store' \in StoreType
    BY <1>2 DEF Mutate, others, IInv, Types
  <2>2. QED BY <2>1, GoesKeeps
<1>3. QED BY <1>1, <1>2

(* What was appended is reported, unless the owner changed.                *)
LEMMA VerifyKeeps ==
  ASSUME IInv, NEW p \in Call, Verify(p)
  PROVE  IInv'
<1>1. /\ UNCHANGED <<inbox, submit, store, journal>> /\ store' \in StoreType
      /\ call[p].pc = "verify"
      /\ Concludes(p, "applied") \/ Goes(p, "release")
  BY DEF Verify, others, IInv, Types
<1>2. InJournal(call[p].id)
  BY <1>1 DEF IInv, SuccessKnown
<1>3. QED BY <1>1, <1>2, ConcludesKeeps, GoesKeeps

(* Who creates the outcome file is its only writer.                        *)
LEMMA RecordKeeps ==
  ASSUME IInv, NEW p \in Call, Record(p)
  PROVE  IInv'
<1>1. /\ UNCHANGED <<dedupe, command, submit, store, journal>>
      /\ store' \in StoreType /\ call[p].pc = "record"
  BY DEF Record, others, IInv, Types
<1>2. CASE outcome[call[p].id] = "none"
  <2> DEFINE c == [call[p] EXCEPT !.pc = "fill"]
  <2>1. /\ c \in CallType /\ c.pc = "fill" /\ c.id = call[p].id
        /\ c.result = call[p].result
        /\ call' = [call EXCEPT ![p] = c]
        /\ outcome' = [outcome EXCEPT ![c.id] = "torn"]
    BY ZenonT(60), <1>2 DEF Record, Goes, IInv, Types, CallType, CallPoints
  <2>2. c.id \in Attempt /\ command[c.id] = "file"
    BY <1>1, <2>1 DEF IInv, OnFile
  <2>3. c.result = "applied" => InJournal(c.id)
    BY <1>1, <2>1 DEF IInv, SuccessKnown
  <2> HIDE DEF c
  <2>4. /\ outcome' \in [Attempt -> {"none", "torn", "applied", "rejected"}]
        /\ \A a \in Attempt : outcome'[a] = "applied" => InJournal(a)
    BY <2>1 DEF IInv, Types, SuccessKnown
  <2>5. OneFiller'
    <3>1. /\ call'[p] = c
          /\ \A q \in Call : q # p => call'[q] = call[q]
      BY <2>1 DEF IInv, Types
    <3>2. \A q \in Call : call[q].pc = "fill" =>
            call[q].id # c.id /\ call[q].id \in Attempt
      BY <1>2, <2>1 DEF IInv, OneFiller, OnFile
    <3>3. QED
      BY <2>1, <2>2, <3>1, <3>2 DEF IInv, OneFiller, Types
  <2>6. QED BY <1>1, <2>1, <2>2, <2>3, <2>4, <2>5, CallKeeps
<1>3. CASE outcome[call[p].id] # "none"
  <2>1. Goes(p, "release") /\ UNCHANGED inbox
    BY <1>1, <1>3 DEF Record, inbox
  <2>2. QED BY <1>1, <2>1, GoesKeeps
<1>4. QED BY <1>2, <1>3

(* Only the outcome that the call created is filled.                       *)
LEMMA FillKeeps ==
  ASSUME IInv, NEW p \in Call, Fill(p)
  PROVE  IInv'
<1> DEFINE c == [call[p] EXCEPT !.pc = "release"]
<1>1. /\ UNCHANGED <<dedupe, command, submit, store, journal>>
      /\ store' \in StoreType /\ call[p].pc = "fill"
      /\ outcome' = [outcome EXCEPT ![call[p].id] = call[p].result]
  BY DEF Fill, others, IInv, Types
<1>2. /\ c \in CallType /\ c.pc = "release" /\ c.id = call[p].id
      /\ call' = [call EXCEPT ![p] = c]
  BY DEF Fill, Goes, IInv, Types, CallType, CallPoints
<1>3. c.id \in Attempt /\ command[c.id] = "file"
  BY <1>1, <1>2 DEF IInv, OnFile
<1>4. call[p].result \in {"applied", "rejected"}
  BY DEF IInv, Types, CallType
<1> HIDE DEF c
<1>5. /\ outcome' \in [Attempt -> {"none", "torn", "applied", "rejected"}]
      /\ \A a \in Attempt : outcome'[a] = "applied" => InJournal(a)
  BY <1>1, <1>2, <1>3, <1>4 DEF IInv, Types, SuccessKnown
<1>6. OneFiller'
  <2>1. /\ call'[p] = c
        /\ \A q \in Call : q # p => call'[q] = call[q]
    BY <1>2 DEF IInv, Types
  <2>2. \A q \in Call : q # p /\ call[q].pc = "fill" =>
          call[q].id # c.id /\ call[q].id \in Attempt
    BY <1>1, <1>2 DEF IInv, OneFiller, OnFile
  <2>3. QED
    BY <1>1, <1>2, <2>1, <2>2 DEF IInv, OneFiller, Types
<1>7. QED BY <1>1, <1>2, <1>3, <1>5, <1>6, CallKeeps

(* A released lease changes nothing of the record.                         *)
LEMMA ReleaseKeeps ==
  ASSUME IInv, NEW p \in Call, Release(p)
  PROVE  IInv'
<1> DEFINE c == [call[p] EXCEPT !.pc = "idle", !.id = None]
<1>1. c \in CallType /\ c.pc = "idle" /\ call' = [call EXCEPT ![p] = c]
  BY DEF Release, IInv, Types, CallType, CallPoints
<1>2. /\ UNCHANGED <<inbox, submit, journal>>
      /\ store' \in StoreType
      /\ store'.revision = store.revision
      /\ store'.cancelled = store.cancelled
      /\ store'.provided = store.provided
  BY DEF Release, others, IInv, Types, StoreType
<1> HIDE DEF c
<1>3. QED BY <1>1, <1>2, StopKeeps

-----------------------------------------------------------------------------
(* Time and failure *)

(* A lease runs out.                                                       *)
LEMMA ExpireKeeps ==
  ASSUME IInv, Expire \/ UNCHANGED vars
  PROVE  IInv'
<1>1. /\ UNCHANGED <<inbox, submit, journal, call>>
      /\ store' \in StoreType
      /\ store'.revision = store.revision
      /\ store'.cancelled = store.cancelled
      /\ store'.provided = store.provided
  BY DEF Expire, vars, IInv, Types, StoreType
<1>2. QED BY <1>1, IdleKeeps

(* A crash leaves what was written where it is.                            *)
LEMMA CrashCallKeeps ==
  ASSUME IInv, NEW p \in Call, CrashCall(p)
  PROVE  IInv'
<1>1. UNCHANGED <<dedupe, command, outcome, submit, store, journal>>
  BY DEF CrashCall, inbox
<1>2. /\ call' \in [Call -> CallType]
      /\ \A q \in Call : call'[q].pc = "idle" \/ call'[q] = call[q]
  <2>1. PICK S \in SUBSET Call : Stopped(S)
    BY DEF CrashCall, Call
  <2>2. QED BY ZenonT(60), <2>1 DEF IInv, Types, CallType, CallPoints, Stopped
<1>3. Types' /\ Claims' /\ Canonicals' /\ AcceptedIsStored'
  BY <1>1, <1>2 DEF IInv, Types, Claims, Canonicals, AcceptedIsStored
<1>4. OnFile' /\ NoRepeats' /\ OneFiller'
  BY <1>1, <1>2 DEF IInv, OnFile, NoRepeats, OneFiller
<1>5. JournalRejected' /\ FreshReads'
  BY <1>1, <1>2 DEF IInv, JournalRejected, FreshReads, StateRejects
<1>6. SuccessKnown'
  BY <1>1, <1>2 DEF IInv, SuccessKnown, InJournal
<1>7. QED BY <1>3, <1>4, <1>5, <1>6 DEF IInv

-----------------------------------------------------------------------------
(* The inductive invariant holds in the initial state and is kept.         *)
LEMMA InitIInv == Init => IInv
<1> SUFFICES ASSUME Init PROVE IInv
  OBVIOUS
<1>1. journal = << >> /\ Len(journal) = 0 /\ journal \in Seq(Attempt)
  BY DEF Init
<1>2. call \in [Call -> CallType] /\ \A p \in Call : call[p].pc = "idle"
  BY DEF Init, CallType, CallPoints
<1>3. Types
  BY <1>1, <1>2 DEF Init, Types, StoreType
<1>4. Claims /\ Canonicals /\ AcceptedIsStored
  BY Attempts DEF Init, Claims, Canonicals, AcceptedIsStored
<1>5. OnFile /\ JournalRejected /\ FreshReads /\ NoRepeats
  BY <1>1, <1>2 DEF OnFile, JournalRejected, FreshReads, NoRepeats
<1>6. SuccessKnown /\ OneFiller
  BY <1>2 DEF Init, SuccessKnown, OneFiller
<1>7. QED BY <1>3, <1>4, <1>5, <1>6 DEF IInv

(* Every step of a submitter, of a call, of time and of failure keeps it.  *)
LEMMA NextIInv == IInv /\ [Next]_vars => IInv'
<1> SUFFICES ASSUME IInv, [Next]_vars PROVE IInv'
  OBVIOUS
<1>1. CASE Accept
  BY <1>1, ClaimKeyKeeps, NameCommandKeeps, ReadDedupeKeeps,
     CreateCommandKeeps, FillCommandKeeps, SubmitterCrashKeeps
     DEF Accept
<1>2. ASSUME NEW p \in Call, Process(p) PROVE IInv'
  BY <1>2, PickKeeps, FindAppliedKeeps, PreconditionKeeps, AcquireKeeps,
     FreshKeeps, MutateKeeps, VerifyKeeps, RecordKeeps, FillKeeps,
     ReleaseKeeps
     DEF Process
<1>3. QED BY <1>1, <1>2, ExpireKeeps, CrashCallKeeps DEF Next

(* Hence it always holds.                                                  *)
LEMMA Inductive == Spec => []IInv
<1>1. QED BY InitIInv, NextIInv, PTL DEF Spec

(* Whatever is repeated, a key changes the workflow at most once.          *)
THEOREM CommandsApplyOnce == Spec => []AppliedOnce
<1>1. IInv => AppliedOnce
  <2> SUFFICES ASSUME IInv, NEW i \in 1..Len(journal),
                      NEW j \in 1..Len(journal),
                      KeyOf[journal[i]] = KeyOf[journal[j]]
               PROVE  i = j
    BY DEF AppliedOnce
  <2>1. journal[i] \in Attempt /\ journal[j] \in Attempt
    BY DEF IInv, Types
  <2>2. command[journal[i]] = "file" /\ command[journal[j]] = "file"
    BY DEF IInv, OnFile
  <2>3. journal[i] = journal[j]
    BY <2>1, <2>2 DEF IInv, Canonicals
  <2>4. QED BY <2>3 DEF IInv, NoRepeats
<1>2. QED BY <1>1, Inductive, PTL

(* A recorded success has its event.                                       *)
THEOREM SuccessIsTrue == Spec => []AppliedIsTrue
<1>1. IInv => AppliedIsTrue
  BY HasEventIsInJournal DEF IInv, Types, SuccessKnown, AppliedIsTrue
<1>2. QED BY <1>1, Inductive, PTL

(* An acceptance is backed by a command file.                              *)
THEOREM AcceptanceIsStored == Spec => []AcceptedIsStored
<1>1. IInv => AcceptedIsStored
  BY DEF IInv
<1>2. QED BY <1>1, Inductive, PTL

(* A readable outcome stands.                                              *)
THEOREM OutcomesStay == Spec => OutcomeStays
<1>1. ASSUME IInv, [Next]_vars, NEW a \in Attempt,
             outcome[a] \in {"applied", "rejected"}
      PROVE  outcome'[a] = outcome[a]
  <2>1. ASSUME NEW p \in Call, Record(p) PROVE outcome'[a] = outcome[a]
    BY <1>1, <2>1 DEF IInv, Types, Record
  <2>2. ASSUME NEW p \in Call, Fill(p) PROVE outcome'[a] = outcome[a]
    <3>1. outcome[call[p].id] = "torn"
      BY <1>1, <2>2 DEF Fill, IInv, OneFiller
    <3>2. QED BY <1>1, <2>2, <3>1 DEF IInv, Types, Fill
  <2>3. ASSUME ~ \E p \in Call : Record(p) \/ Fill(p)
        PROVE  outcome' = outcome
    BY <1>1, <2>3
       DEF Next, Accept, Process, ClaimKey, NameCommand, ReadDedupe,
           CreateCommand, FillCommand, SubmitterCrash, Pick, FindApplied,
           Precondition, Acquire, Fresh, Mutate, Verify, Release, Expire,
           CrashCall, inbox, vars
  <2>4. QED BY <2>1, <2>2, <2>3
<1>2. IInv /\ [Next]_vars =>
        [\A a \in Attempt : outcome[a] \in {"applied", "rejected"} =>
           outcome'[a] = outcome[a]]_vars
  BY <1>1
<1>3. QED BY <1>2, Inductive, PTL DEF Spec, OutcomeStays

(* What TypeOK says beyond Types: the bounds, and that the revision counts *)
(* the events.                                                             *)
Bounds ==
  /\ expected \in [Attempt -> 0..MaxClaims]
  /\ store.generation \in 0..MaxClaims
  /\ store.revision = Len(journal)
  /\ live \in BOOLEAN
  /\ crashes \in 0..MaxCrashes

(* Every step stays within the bounds and counts the event it appends.     *)
LEMMA NextBounds ==
  ASSUME IInv, Bounds, [Next]_vars
  PROVE  Bounds'
<1> USE ControlAssumption DEF Bounds
<1>1. ASSUME NEW a \in Attempt, ClaimKey(a) PROVE Bounds'
  BY <1>1 DEF ClaimKey
<1>2. ASSUME NEW a \in Attempt, SubmitterCrash(a) PROVE Bounds'
  BY <1>2 DEF SubmitterCrash
<1>3. ASSUME NEW a \in Attempt,
             NameCommand(a) \/ ReadDedupe(a) \/ CreateCommand(a)
             \/ FillCommand(a)
      PROVE  Bounds'
  BY <1>3 DEF NameCommand, ReadDedupe, CreateCommand, FillCommand
<1>4. ASSUME NEW p \in Call, Acquire(p) PROVE Bounds'
  <2>1. UNCHANGED <<expected, journal, live, crashes>>
    BY <1>4 DEF Acquire, others
  <2>2. /\ store'.revision = store.revision
        /\ \/ store'.generation = store.generation
           \/ /\ store.generation < MaxClaims
              /\ store'.generation = store.generation + 1
    BY <1>4 DEF Acquire, IInv, Types, StoreType
  <2>3. QED BY <2>1, <2>2
<1>5. ASSUME NEW p \in Call, Mutate(p) PROVE Bounds'
  <2>1. CASE UNCHANGED <<store, journal>>
    BY <1>5, <2>1 DEF Mutate, others
  <2>2. CASE ~ UNCHANGED <<store, journal>>
    <3>1. call[p].id \in Attempt
      BY <1>5 DEF Mutate, IInv, OnFile
    <3>2. Len(journal') = Len(journal) + 1
      BY <1>5, <2>2, <3>1 DEF Mutate, IInv, Types
    <3>3. /\ store'.generation = store.generation
          /\ store'.revision = store.revision + 1
          /\ UNCHANGED <<expected, live, crashes>>
      BY <1>5, <2>2 DEF Mutate, others, IInv, Types, StoreType
    <3>4. QED BY <3>2, <3>3
  <2>3. QED BY <2>1, <2>2
<1>6. ASSUME NEW p \in Call, Release(p) PROVE Bounds'
  BY <1>6 DEF Release, others, IInv, Types, StoreType
<1>7. ASSUME NEW p \in Call,
             Pick(p) \/ FindApplied(p) \/ Precondition(p) \/ Fresh(p)
             \/ Verify(p) \/ Record(p) \/ Fill(p)
      PROVE  Bounds'
  BY <1>7
     DEF Pick, FindApplied, Precondition, Fresh, Verify, Record, Fill, others
<1>8. ASSUME NEW p \in Call, CrashCall(p) PROVE Bounds'
  <2>1. UNCHANGED <<expected, store, journal>> /\ crashes' = crashes + 1
        /\ crashes < MaxCrashes
    BY <1>8 DEF CrashCall
  <2>2. live' \in BOOLEAN
    BY Zenon, <1>8 DEF CrashCall
  <2>3. QED BY <2>1, <2>2
<1>9. CASE Expire
  BY <1>9 DEF Expire, IInv, Types, StoreType
<1>10. CASE UNCHANGED vars
  BY <1>10 DEF vars
<1>11. QED
  BY <1>1, <1>2, <1>3, <1>4, <1>5, <1>6, <1>7, <1>8, <1>9, <1>10
     DEF Next, Accept, Process

(* The state is well typed, the generation and the crashes stay within     *)
(* their bounds and the revision of the store counts the journal's events. *)
THEOREM TypeCorrect == Spec => []TypeOK
<1>1. Init => Bounds
  BY ControlAssumption DEF Init, Bounds
<1>2. IInv /\ Bounds => TypeOK
  BY DEF IInv, Types, Bounds, TypeOK, StoreType, CallType
<1>3. QED BY <1>1, <1>2, NextBounds, Inductive, PTL DEF Spec

=============================================================================
