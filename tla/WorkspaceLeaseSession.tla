------------------------ MODULE WorkspaceLeaseSession ------------------------
(***************************************************************************)
(* Runs that share a workspace through the lease coordinator: child runs   *)
(* with a lease session (createWorkspaceMutationAdmission, class           *)
(* WorkspaceLeaseSession), which are admitted under a read lease and turn  *)
(* it into a write lease at their first mutating tool call, and root runs, *)
(* whose mutating tools each take a write lease of their own               *)
(* (withWorkspaceMutationLease).  All of them count mutations in the       *)
(* shared workspace epoch.                                                 *)
(*                                                                         *)
(* A run makes its mutating calls one at a time and never beside a read    *)
(* (packages/core tool-orchestration), so a run is in one phase.  But core *)
(* only stops AWAITING a call that times out or whose run is cancelled     *)
(* (executeWithTimeout): the body of the tool goes on.  After a timeout    *)
(* the run goes on beside it; after a cancellation the body writes on for  *)
(* a run that is over.  At most one call per run is given up here, and     *)
(* only a mutating one; a given-up writer of a root run stands also for a  *)
(* command that keeps the call's lease as a background task.  Leases are   *)
(* renewed and nobody revokes them; module WorkspaceLease covers the loss  *)
(* of a lease.                                                             *)
(***************************************************************************)
EXTENDS WorkspaceScope

CONSTANTS
  Child,      \* child runs with a lease session
  Root,       \* runs that lock each mutating call by itself
  Ancestors,  \* Ancestors[o]: the ancestor owners o's requests declare
  MaxEpoch,   \* bound on the mutations of the workspace
  NoEpoch     \* "no transition is pending"

Run == Child \cup Root

ASSUME RunAssumption ==
  /\ Child \cap Root = {}
  /\ Ancestors \in [Run -> SUBSET Run]
  /\ \A o \in Run : o \notin Ancestors[o]

ASSUME EpochAssumption == MaxEpoch \in Nat /\ NoEpoch \notin Nat

(* The requests of a run: a child's session makes one at a time; a root    *)
(* run makes one per call, of which two may be under way.  All ask for the *)
(* default time to live.                                                   *)
Calls(o) == IF o \in Child THEN {1} ELSE {1, 2}

ASSUME ScopeAssumption ==
  /\ Owner = Run
  /\ Request = UNION {{o} \X Calls(o) : o \in Run}
  /\ 1 \in Ttl

VARIABLES
  scope,     \* the coordinator's scope
  epoch,     \* workspaceState.currentEpoch()
  phase,     \* what each run is doing
  observed,  \* observed[c]: the session's observedEpoch
  reval,     \* reval[c]: the session's revalidationRequired
  from,      \* from[c]: the epoch a pending transition started from
  ghost,     \* ghost[o]: what the call that was given up is doing
  fate,      \* fate[o]: whether and how the run is over
  gaveUp,    \* runs that had a call given up (history)
  stale,     \* stale[o]: others wrote under a lease since o last looked
             \* (history)
  guarded    \* guarded[c]: c held a lease when it last looked (history)

vars == <<scope, epoch, phase, observed, reval, from, ghost, fate, gaveUp, stale, guarded>>

session == <<observed, reval, from>>
history == <<gaveUp, stale, guarded>>

TypeOK ==
  /\ scope \in Scope
  /\ epoch \in 0..MaxEpoch
  /\ phase \in [Run -> {"new", "admitting", "running", "reading",
                        "waiting", "writing", "ended"}]
  /\ observed \in [Child -> 0..MaxEpoch]
  /\ reval \in [Child -> BOOLEAN]
  /\ from \in [Child -> (0..MaxEpoch) \cup {NoEpoch}]
  /\ ghost \in [Run -> {"none", "waiting", "writing"}]
  /\ fate \in [Run -> {"live", "finished", "cancelled"}]
  /\ gaveUp \subseteq Run
  /\ stale \in [Run -> BOOLEAN]
  /\ guarded \in [Child -> BOOLEAN]

Init ==
  /\ scope = EmptyScope
  /\ epoch = 0
  /\ phase = [o \in Run |-> IF o \in Child THEN "new" ELSE "running"]
  /\ observed = [c \in Child |-> 0]
  /\ reval = [c \in Child |-> FALSE]
  /\ from = [c \in Child |-> NoEpoch]
  /\ ghost = [o \in Run |-> "none"]
  /\ fate = [o \in Run |-> "live"]
  /\ gaveUp = {}
  /\ stale = [o \in Run |-> FALSE]
  /\ guarded = [c \in Child |-> TRUE]

-----------------------------------------------------------------------------
(* Requests *)

WaiterUntimed(r, m) ==  \* a mutant: the default time to live is left out
  [id |-> r, owner |-> r[1], ancestors |-> Ancestors[r[1]], mode |-> m,
   ttl |-> 0, auto |-> TRUE]

WaiterOf(r, m) ==
  [id |-> r, owner |-> r[1], ancestors |-> Ancestors[r[1]], mode |-> m,
   ttl |-> 1, auto |-> TRUE]

(* acquire() in sc when no lease is there to join.                         *)
Asked(sc, r, m) == Drained(Pushed(sc, WaiterOf(r, m)))

(* The request of the call that o awaits, and of the one it gave up.       *)
CallOf(o)  == <<o, IF o \in Root /\ o \in gaveUp THEN 2 ELSE 1>>
GhostOf(o) == <<o, 1>>

Owned(o)      == {h \in scope.holders : h.owner = o}
Granting(r)   == \E h \in scope.holders : r \in h.handlers
Waits(o)      == \E i \in 1..Len(scope.queue) : scope.queue[i].owner = o
Pending(c)    == from[c] # NoEpoch
Unresumed(c)  == Pending(c) /\ Owned(c) # {}

HoldsAny(c) ==  \* a mutant: any lease will do to write
  ~Pending(c) /\ Owned(c) # {}

HoldsWrite(c) == ~Pending(c) /\ \E h \in Owned(c) : h.mode = "write"

(* The scope after o has released its lease, if it has one.                *)
Freed(o) ==
  IF Owned(o) = {} THEN scope
  ELSE Drained([scope EXCEPT !.holders = @ \ Owned(o)])

(* The scope after the first waiter of o in sc has been aborted, if o has  *)
(* one.                                                                    *)
Aborted(sc, o) ==
  LET own == {i \in 1..Len(sc.queue) : sc.queue[i].owner = o}
  IN  IF own = {} THEN sc
      ELSE Drained(Withdrawn(sc, CHOOSE i \in own : \A j \in own : i <= j))

(* Request r of o lets its lease go: the last reference frees it.          *)
ReleasedWhole(o, r) ==  \* a mutant: the references are not counted
  LET h == CHOOSE h \in Owned(o) : r \in h.handlers
  IN  Drained(Removed(scope, h))

Released(o, r) ==
  LET h == CHOOSE h \in Owned(o) : r \in h.handlers
  IN  IF h.refs > 1 THEN Replaced(scope, h, Dereferenced(h, r))
      ELSE Drained(Removed(scope, h))

(* An abort ends the calls that wait; a body that writes is only no longer *)
(* awaited.                                                                *)
Stopped(s, t) == IF s = "writing" THEN s ELSE t

-----------------------------------------------------------------------------
(* Admission of a child under a read lease *)

AdmissionRefused(c) ==
  /\ phase[c] = "new"
  /\ AncestorBlocks(scope, Ancestors[c])
  /\ phase' = [phase EXCEPT ![c] = "ended"]
  /\ fate' = [fate EXCEPT ![c] = "finished"]
  /\ UNCHANGED <<scope, epoch, session, ghost, history>>

Admit(c) ==
  /\ phase[c] = "new"
  /\ ~AncestorBlocks(scope, Ancestors[c])
  /\ scope' = Asked(scope, <<c, 1>>, "read")
  /\ phase' = [phase EXCEPT ![c] = "admitting"]
  /\ UNCHANGED <<epoch, session, ghost, fate, history>>

(* The lease arrives and the session is created at the current epoch.      *)
Admitted(c) ==
  /\ phase[c] = "admitting"
  /\ Owned(c) # {}
  /\ phase' = [phase EXCEPT ![c] = "running"]
  /\ observed' = [observed EXCEPT ![c] = epoch]
  /\ stale' = [stale EXCEPT ![c] = FALSE]
  /\ UNCHANGED <<scope, epoch, reval, from, ghost, fate, gaveUp, guarded>>

-----------------------------------------------------------------------------
(* Observing tools *)

(* The tool looks at the workspace now; its output arrives later.          *)
BeginRead(c) ==
  /\ phase[c] = "running"
  /\ phase' = [phase EXCEPT ![c] = "reading"]
  /\ stale' = [stale EXCEPT ![c] = FALSE]
  /\ guarded' = [guarded EXCEPT ![c] = Owned(c) # {}]
  /\ UNCHANGED <<scope, epoch, session, ghost, fate, gaveUp>>

(* recordSuccessfulRead: at the epoch the read ends in.                    *)
FinishRead(c) ==
  /\ phase[c] = "reading"
  /\ phase' = [phase EXCEPT ![c] = "running"]
  /\ observed' = [observed EXCEPT ![c] = epoch]
  /\ reval' = [reval EXCEPT ![c] = FALSE]
  /\ UNCHANGED <<scope, epoch, from, ghost, fate, history>>

-----------------------------------------------------------------------------
(* Mutating tools of a child: ensureWrite, then the tool *)

(* The write lease is held and nothing is left to reread.  (When a reread  *)
(* is due the call fails and nothing changes.)                             *)
WriteAtOnce(c) ==
  /\ phase[c] = "running"
  /\ HoldsWrite(c)
  /\ ~reval[c]
  /\ phase' = [phase EXCEPT ![c] = "writing"]
  /\ UNCHANGED <<scope, epoch, session, ghost, fate, history>>

(* transitionToWrite releases the read lease, which may let others in, and *)
(* asks for a write lease; the request is refused or queued.               *)
TransitionRefused(c) ==
  /\ phase[c] = "running"
  /\ ~Pending(c) /\ ~HoldsWrite(c)
  /\ AncestorBlocks(Freed(c), Ancestors[c])
  /\ scope' = Freed(c)
  /\ UNCHANGED <<epoch, phase, session, ghost, fate, history>>

Transition(c) ==
  /\ phase[c] = "running"
  /\ ~Pending(c) /\ ~HoldsWrite(c)
  /\ ~AncestorBlocks(Freed(c), Ancestors[c])
  /\ scope' = Asked(Freed(c), <<c, 1>>, "write")
  /\ from' = [from EXCEPT ![c] = observed[c]]
  /\ phase' = [phase EXCEPT ![c] = "waiting"]
  /\ UNCHANGED <<epoch, observed, reval, ghost, fate, history>>

(* A second call awaits the transition that is already under way.          *)
JoinTransition(c) ==
  /\ phase[c] = "running"
  /\ Pending(c)
  /\ phase' = [phase EXCEPT ![c] = "waiting"]
  /\ UNCHANGED <<scope, epoch, session, ghost, fate, history>>

(* The write lease has arrived.  The calls that awaited it go on to write  *)
(* if the epoch is still the one the transition started from; otherwise    *)
(* they fail, and the workspace must be reread before the next write.      *)
Proceeds(s) == IF s = "waiting" THEN "writing" ELSE s
Fails(s, t) == IF s = "waiting" THEN t ELSE s

ResumeUnchecked(c) ==  \* a mutant: the epochs are not compared
  /\ Unresumed(c)
  /\ from' = [from EXCEPT ![c] = NoEpoch]
  /\ observed' = [observed EXCEPT ![c] = epoch]
  /\ phase' = [phase EXCEPT ![c] = Proceeds(@)]
  /\ ghost' = [ghost EXCEPT ![c] = Proceeds(@)]
  /\ UNCHANGED <<scope, epoch, reval, fate, history>>

Resume(c) ==
  /\ Unresumed(c)
  /\ from' = [from EXCEPT ![c] = NoEpoch]
  /\ observed' = [observed EXCEPT ![c] = epoch]
  /\ \/ /\ epoch = from[c]
        /\ phase' = [phase EXCEPT ![c] = Proceeds(@)]
        /\ ghost' = [ghost EXCEPT ![c] = Proceeds(@)]
        /\ UNCHANGED reval
     \/ /\ epoch # from[c]
        /\ phase' = [phase EXCEPT ![c] = Fails(@, "running")]
        /\ ghost' = [ghost EXCEPT ![c] = Fails(@, "none")]
        /\ reval' = [reval EXCEPT ![c] = TRUE]
  /\ UNCHANGED <<scope, epoch, fate, history>>

(* The body of a mutating call of o ends: of the call of its phase (s is   *)
(* "call"), or of the one that was given up ("ghost").                     *)
CallEnds(o, s) ==
  \/ /\ s = "call" /\ phase[o] = "writing"
     /\ phase' = [phase EXCEPT ![o] = IF fate[o] = "live" THEN "running" ELSE "ended"]
     /\ UNCHANGED ghost
  \/ /\ s = "ghost" /\ ghost[o] = "writing"
     /\ ghost' = [ghost EXCEPT ![o] = "none"] /\ UNCHANGED phase

(* Others have not seen the mutation that o just made.  A body that writes *)
(* on when its run is over and its lease is gone is ordered by nothing,    *)
(* and does not count here.                                                *)
Outdates(o) == stale' = [p \in Run |-> stale[p] \/ (p # o /\ Owned(o) # {})]

Mutate(c, s) ==
  /\ epoch < MaxEpoch
  /\ CallEnds(c, s)
  /\ epoch' = epoch + 1
  /\ observed' = [observed EXCEPT ![c] = epoch + 1]
  /\ Outdates(c)
  /\ UNCHANGED <<scope, reval, from, fate, gaveUp, guarded>>

(* The tool finds the file changed under it: a reread is due.              *)
MutationConflicts(c, s) ==
  /\ CallEnds(c, s)
  /\ observed' = [observed EXCEPT ![c] = epoch]
  /\ reval' = [reval EXCEPT ![c] = TRUE]
  /\ UNCHANGED <<scope, epoch, from, fate, history>>

MutationFails(c, s) ==
  /\ CallEnds(c, s)
  /\ UNCHANGED <<scope, epoch, session, fate, history>>

(* Core gives a mutating call up (its timeout wins the race): the run goes *)
(* on, and the call goes on by itself.                                     *)
GiveUp(o) ==
  /\ phase[o] \in {"waiting", "writing"}
  /\ fate[o] = "live"
  /\ o \notin gaveUp
  /\ ghost' = [ghost EXCEPT ![o] = phase[o]]
  /\ phase' = [phase EXCEPT ![o] = "running"]
  /\ gaveUp' = gaveUp \cup {o}
  /\ UNCHANGED <<scope, epoch, session, fate, stale, guarded>>

-----------------------------------------------------------------------------
(* The end of a child *)

(* The run is over and its admission is released: session.release() frees  *)
(* the lease the session knows of, also under a given-up call that writes. *)
Finish(c) ==
  /\ phase[c] = "running"
  /\ ~Unresumed(c)
  /\ phase' = [phase EXCEPT ![c] = "ended"]
  /\ fate' = [fate EXCEPT ![c] = "finished"]
  /\ scope' = IF Pending(c) THEN scope ELSE Freed(c)
  /\ UNCHANGED <<epoch, session, ghost, history>>

(* The parent's signal aborts: the waiter leaves the queue, the transition *)
(* and what awaited it fail, the run ends and its admission is released.   *)
(* Bodies that write go on without the lease.                              *)
Cancel(c) ==
  /\ phase[c] \in {"admitting", "running", "reading", "waiting", "writing"}
  /\ fate[c] = "live"
  /\ ~Unresumed(c)
  /\ phase' = [phase EXCEPT ![c] = Stopped(@, "ended")]
  /\ ghost' = [ghost EXCEPT ![c] = Stopped(@, "none")]
  /\ fate' = [fate EXCEPT ![c] = "cancelled"]
  /\ from' = [from EXCEPT ![c] = NoEpoch]
  /\ scope' = IF Waits(c) THEN Aborted(scope, c) ELSE Freed(c)
  /\ UNCHANGED <<epoch, observed, reval, history>>

-----------------------------------------------------------------------------
(* Mutating tools of a root run: one write lease per call (a root run that *)
(* just ends asks for nothing more, which is a run that stays "running")   *)

(* The call joins the lease that a given-up call of the run still holds.   *)
RootJoins(w) ==
  /\ phase[w] = "running"
  /\ \E h \in Reentrant(scope, w, "write") :
       scope' = Replaced(scope, h, Joined(h, CallOf(w), 1, TRUE))
  /\ phase' = [phase EXCEPT ![w] = "waiting"]
  /\ UNCHANGED <<epoch, session, ghost, fate, history>>

RootAsks(w) ==
  /\ phase[w] = "running"
  /\ Reentrant(scope, w, "write") = {}
  /\ ~AncestorBlocks(scope, Ancestors[w])
  /\ scope' = Asked(scope, CallOf(w), "write")
  /\ phase' = [phase EXCEPT ![w] = "waiting"]
  /\ UNCHANGED <<epoch, session, ghost, fate, history>>

(* A call that has its lease and has not yet gone on.                      *)
Unstarted(w) ==
  \/ phase[w] = "waiting" /\ Granting(CallOf(w))
  \/ ghost[w] = "waiting" /\ Granting(GhostOf(w))

RootWrites(w) ==
  /\ \/ /\ phase[w] = "waiting" /\ Granting(CallOf(w))
        /\ phase' = [phase EXCEPT ![w] = "writing"]
        /\ UNCHANGED ghost
     \/ /\ ghost[w] = "waiting" /\ Granting(GhostOf(w))
        /\ ghost' = [ghost EXCEPT ![w] = "writing"]
        /\ UNCHANGED phase
  /\ UNCHANGED <<scope, epoch, session, fate, history>>

(* The body ends, with a mutation or not, and releases its lease.          *)
RootDone(w, s) ==
  /\ CallEnds(w, s)
  /\ scope' = Released(w, IF s = "call" THEN CallOf(w) ELSE GhostOf(w))
  /\ \/ epoch < MaxEpoch /\ epoch' = epoch + 1 /\ Outdates(w)
     \/ UNCHANGED <<epoch, stale>>
  /\ UNCHANGED <<session, fate, gaveUp, guarded>>

(* The run is cancelled: its calls that wait leave the queue, one after    *)
(* the other; bodies that write go on under their lease.                   *)
RootCancel(w) ==
  /\ phase[w] \in {"running", "waiting", "writing"}
  /\ fate[w] = "live"
  /\ ~Unstarted(w)
  /\ phase' = [phase EXCEPT ![w] = Stopped(@, "ended")]
  /\ ghost' = [ghost EXCEPT ![w] = Stopped(@, "none")]
  /\ fate' = [fate EXCEPT ![w] = "cancelled"]
  /\ scope' = Aborted(Aborted(scope, w), w)
  /\ UNCHANGED <<epoch, session, history>>

-----------------------------------------------------------------------------
Next ==
  \/ \E c \in Child :
       \/ AdmissionRefused(c) \/ Admit(c) \/ Admitted(c)
       \/ BeginRead(c) \/ FinishRead(c)
       \/ WriteAtOnce(c)
       \/ TransitionRefused(c) \/ Transition(c) \/ JoinTransition(c) \/ Resume(c)
       \/ \E s \in {"call", "ghost"} :
            Mutate(c, s) \/ MutationConflicts(c, s) \/ MutationFails(c, s)
       \/ GiveUp(c) \/ Finish(c) \/ Cancel(c)
  \/ \E w \in Root :
       \/ RootJoins(w) \/ RootAsks(w) \/ RootWrites(w)
       \/ \E s \in {"call", "ghost"} : RootDone(w, s)
       \/ GiveUp(w) \/ RootCancel(w)

Spec == Init /\ [][Next]_vars

-----------------------------------------------------------------------------
(* Properties *)

(* Some body of o may write to the workspace now.                          *)
Mutates(o) == phase[o] = "writing" \/ ghost[o] = "writing"

(* A body of a child that is over, whose lease session.release() has       *)
(* freed: nothing in the coordinator knows of it any more.                 *)
Late(o) == o \in Child /\ fate[o] # "live" /\ Owned(o) = {}

(* While a run mutates the workspace, no other run does, and none reads    *)
(* under a lease: whichever calls were given up, and whichever runs were   *)
(* cancelled.  The exception is a late body, of a child that is over: core *)
(* does not wait for it, and its lease goes with the child's admission.    *)
WriterWorksAlone ==
  \A a, b \in Run : a # b /\ Mutates(a) /\ ~Late(a) =>
    /\ Mutates(b) => Late(b)
    /\ ~ (phase[b] = "reading" /\ guarded[b])

(* A child that writes, and that held a lease when it last looked at the   *)
(* workspace, has looked since another lease holder last changed it        *)
(* ("reread affected state before retrying the mutation").  A child that   *)
(* read without a lease, after a refused transition, may write on a stale  *)
(* view: a mutation that falls into its read is recorded as observed.  A   *)
(* body that outlives its run is not bound by it.                          *)
FreshWritesUnderLease ==
  \A c \in Child :
    fate[c] = "live" /\ Mutates(c) /\ guarded[c] => ~stale[c]

(* What stands in the scope is what the runs have under way.  Each request *)
(* stands there once, waiting or holding, and a lease counts exactly the   *)
(* requests that share it, so the last of them frees it.  The requests of  *)
(* a root run are those of its calls that have not ended, given up or not. *)
(* A child's session has one, which concurrent transitions share, and a    *)
(* child that is over has none ("held for the full child execution and     *)
(* invoked exactly once afterwards"), but for a child that finished beside *)
(* a given-up call that awaits a write lease: its release() frees the read *)
(* lease once more, and the write request, then the lease, stay behind.    *)
Waiting(r)  == {i \in 1..Len(scope.queue) : scope.queue[i].id = r}
Sharing(r)  == {h \in scope.holders : r \in h.handlers}
Standing(o) == {r \in {o} \X Calls(o) : Waiting(r) # {} \/ Sharing(r) # {}}

UnderWay(w) ==
  {r \in {w} \X Calls(w) :
     \/ phase[w] \in {"waiting", "writing"} /\ r = CallOf(w)
     \/ ghost[w] # "none" /\ r = GhostOf(w)}

LeftBehind(c) ==
  /\ fate[c] = "finished" /\ c \in gaveUp
  /\ \A h \in Sharing(<<c, 1>>) : h.mode = "write"
  /\ \A i \in Waiting(<<c, 1>>) : scope.queue[i].mode = "write"

RequestsOfCalls ==
  /\ \A r \in Request : Cardinality(Waiting(r)) + Cardinality(Sharing(r)) <= 1
  /\ \A h \in scope.holders : h.refs = Cardinality(h.handlers)
  /\ \A w \in Root : Standing(w) = UnderWay(w)
  /\ \A c \in Child :
       fate[c] # "live" => Standing(c) = {} \/ LeftBehind(c)

=============================================================================
