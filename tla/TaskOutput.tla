----------------------------- MODULE TaskOutput -----------------------------
(***************************************************************************)
(* The output of one background task in the in-memory task store of        *)
(* packages/agent-runtime (src/tasks/store.ts, class InMemoryTaskStore):   *)
(* the runner appends chunks, readers follow them through the iterators    *)
(* that loadOutput() returns, and the task's terminal status ends them.    *)
(*                                                                         *)
(* A chunk is its sequence number.  next() runs to completion up to the    *)
(* point where it waits, so each call is one step; a reader calls next()   *)
(* again only when the last call has returned.  (Some names carry Output   *)
(* because TaskProofs extends TaskRevival and this module.)                *)
(***************************************************************************)
EXTENDS Integers, Sequences, SequencesExt

CONSTANTS
  Reader,
  MaxChunks  \* bound on the chunks of the task

ASSUME ChunkAssumption == MaxChunks \in Nat

VARIABLES
  terminal,   \* the record's status is terminal
  length,     \* buffer.length
  phase,      \* what each reader's iterator is doing
  nextIndex,  \* the iterator's nextIndex
  pending,    \* the iterator's queue of live chunks
  listening,  \* readers whose terminal waiter is registered
  first,      \* first[r]: the fromSequence of reader r
  got         \* got[r]: the chunks reader r has received (history)

iterators == <<phase, nextIndex, pending, listening, first, got>>
outputVars == <<terminal, length, iterators>>

Chunk == 0..(MaxChunks - 1)

OutputTypeOK ==
  /\ terminal \in BOOLEAN
  /\ length \in 0..MaxChunks
  /\ phase \in [Reader -> {"closed", "open", "waiting", "done"}]
  /\ nextIndex \in [Reader -> 0..MaxChunks]
  /\ pending \in [Reader -> Seq(Chunk)]
  /\ listening \subseteq Reader
  /\ first \in [Reader -> 0..MaxChunks]
  /\ got \in [Reader -> Seq(Chunk)]

OutputInit ==
  /\ terminal = FALSE
  /\ length = 0
  /\ phase = [r \in Reader |-> "closed"]
  /\ nextIndex = [r \in Reader |-> 0]
  /\ pending = [r \in Reader |-> << >>]
  /\ listening = {}
  /\ first = [r \in Reader |-> 0]
  /\ got = [r \in Reader |-> << >>]

-----------------------------------------------------------------------------
(* The store *)

(* appendOutput: the chunk joins the buffer, and every subscribed iterator *)
(* that is past none of it takes it: a waiting next() returns it, any      *)
(* other iterator queues it.                                               *)
Hears(r) == phase[r] \in {"open", "waiting"} /\ length >= nextIndex[r]

AppendOutput ==
  /\ length < MaxChunks
  /\ length' = length + 1
  /\ LET woken == {r \in Reader : Hears(r) /\ phase[r] = "waiting"}
         late  == {r \in Reader : Hears(r) /\ phase[r] = "open"}
     IN  /\ phase' = [r \in Reader |-> IF r \in woken THEN "open" ELSE phase[r]]
         /\ nextIndex' = [r \in Reader |->
              IF r \in woken THEN length + 1 ELSE nextIndex[r]]
         /\ got' = [r \in Reader |->
              IF r \in woken THEN Append(got[r], length) ELSE got[r]]
         /\ pending' = [r \in Reader |->
              IF r \in late THEN Append(pending[r], length) ELSE pending[r]]
  /\ UNCHANGED <<terminal, listening, first>>

(* update() to a terminal status ends the calls of next() that wait.       *)
EndsNobody ==  \* a mutant: the terminal waiters are not called
  /\ ~terminal
  /\ terminal' = TRUE
  /\ listening' = {}
  /\ UNCHANGED <<length, phase, nextIndex, pending, first, got>>

Terminate ==
  /\ ~terminal
  /\ terminal' = TRUE
  /\ phase' = [r \in Reader |->
       IF r \in listening /\ phase[r] = "waiting" THEN "done" ELSE phase[r]]
  /\ listening' = {}
  /\ UNCHANGED <<length, nextIndex, pending, first, got>>

-----------------------------------------------------------------------------
(* An iterator *)

Open(r, from) ==
  /\ phase[r] = "closed"
  /\ phase' = [phase EXCEPT ![r] = "open"]
  /\ nextIndex' = [nextIndex EXCEPT ![r] = from]
  /\ first' = [first EXCEPT ![r] = from]
  /\ listening' = IF terminal THEN listening ELSE listening \cup {r}
  /\ UNCHANGED <<terminal, length, pending, got>>

ReturnsPast(r, chunk) ==  \* a mutant: the index moves one too far
  /\ got' = [got EXCEPT ![r] = Append(@, chunk)]
  /\ nextIndex' = [nextIndex EXCEPT ![r] = chunk + 2]

Returns(r, chunk) ==
  /\ got' = [got EXCEPT ![r] = Append(@, chunk)]
  /\ nextIndex' = [nextIndex EXCEPT ![r] = chunk + 1]

(* next() returns buffered history first,                                  *)
NextBufferedLate(r) ==  \* a mutant: the index moves before the read
  /\ phase[r] = "open"
  /\ nextIndex[r] + 1 < length
  /\ Returns(r, nextIndex[r] + 1)
  /\ UNCHANGED <<terminal, length, phase, pending, listening, first>>

NextBuffered(r) ==
  /\ phase[r] = "open"
  /\ nextIndex[r] < length
  /\ Returns(r, nextIndex[r])
  /\ UNCHANGED <<terminal, length, phase, pending, listening, first>>

(* then chunks that were queued while the reader was busy,                 *)
NextPending(r) ==
  /\ phase[r] = "open"
  /\ nextIndex[r] >= length
  /\ pending[r] # << >>
  /\ Returns(r, Head(pending[r]))
  /\ pending' = [pending EXCEPT ![r] = Tail(@)]
  /\ UNCHANGED <<terminal, length, phase, listening, first>>

(* then the end, when the task is over,                                    *)
Drained(r) ==
  /\ phase[r] = "open"
  /\ nextIndex[r] >= length
  /\ pending[r] = << >>

NextEnd(r) ==
  /\ Drained(r)
  /\ terminal
  /\ phase' = [phase EXCEPT ![r] = "done"]
  /\ listening' = listening \ {r}
  /\ UNCHANGED <<terminal, length, nextIndex, pending, first, got>>

(* or else waits.                                                          *)
NextWaits(r) ==
  /\ Drained(r)
  /\ ~terminal
  /\ phase' = [phase EXCEPT ![r] = "waiting"]
  /\ UNCHANGED <<terminal, length, nextIndex, pending, listening, first, got>>

(* The reader stops reading: return(), also while its next() still waits   *)
(* (the task tools give a chunk that is not there at once no time).        *)
Close(r) ==
  /\ phase[r] \in {"open", "waiting"}
  /\ phase' = [phase EXCEPT ![r] = "done"]
  /\ listening' = listening \ {r}
  /\ UNCHANGED <<terminal, length, nextIndex, pending, first, got>>

-----------------------------------------------------------------------------
Reads(r) == NextBuffered(r) \/ NextPending(r) \/ NextEnd(r) \/ NextWaits(r)

OutputNext ==
  \/ AppendOutput
  \/ Terminate
  \/ \E r \in Reader :
       \/ \E from \in 0..MaxChunks : Open(r, from)
       \/ NextBuffered(r) \/ NextPending(r) \/ NextEnd(r) \/ NextWaits(r)
       \/ Close(r)

OutputSpec == OutputInit /\ [][OutputNext]_outputVars

(* A reader that was given a chunk asks for the next one, and the runner   *)
(* ends, in success, in failure or because it was cancelled.               *)
FairOutputSpec ==
  /\ OutputSpec
  /\ WF_outputVars(Terminate)
  /\ \A r \in Reader : WF_outputVars(Reads(r))

-----------------------------------------------------------------------------
(* Properties *)

Seen(r) == ToSet(got[r])

(* No chunk is ever skipped: whatever the reader's pace, the chunks it has *)
(* are all those from where it started up to the last one it has, and a    *)
(* reader that waits has everything there is to have.                      *)
NothingSkipped ==
  \A r \in Reader :
    /\ \A c \in Seen(r) : c >= first[r] /\ first[r]..c \subseteq Seen(r)
    /\ nextIndex[r] > first[r] => first[r]..(nextIndex[r] - 1) \subseteq Seen(r)
    /\ phase[r] = "waiting" =>
         ~terminal /\ first[r]..(length - 1) \subseteq Seen(r)

(* A reader that follows the task comes to an end: it is neither left      *)
(* waiting for a task that is over nor kept going round in what it has.    *)
ReadersEnd ==
  \A r \in Reader : phase[r] \in {"open", "waiting"} ~> phase[r] = "done"

=============================================================================
