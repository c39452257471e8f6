--------------------------- MODULE WorkspaceLease ---------------------------
(***************************************************************************)
(* The process-local fair workspace lease coordinator of packages/host     *)
(* (src/workspace-lease-coordinator.ts) under arbitrary callers: runs      *)
(* acquire, abort, release, lose and are revoked leases of one workspace   *)
(* root while timers expire leases and heartbeats renew them.              *)
(*                                                                         *)
(* JavaScript runs each method to completion, so each call is one step;    *)
(* timers fire between them, in the order they are due.  Time is kept      *)
(* inside the records as the ticks left until a timer fires.  Each element *)
(* of Request stands for one acquire call and is used at most once, which  *)
(* bounds the calls of a behaviour and nothing else.                       *)
(***************************************************************************)
EXTENDS WorkspaceScope

CONSTANTS
  AncestorLists,  \* AncestorLists[o]: the ancestor lists o's calls may pass
  Renewals        \* subset of BOOLEAN: the autoRenew values callers pass

ASSUME OwnerAssumption ==
  /\ AncestorLists \in [Owner -> SUBSET (SUBSET Owner)]
  /\ \A o \in Owner : \A a \in AncestorLists[o] : o \notin a

ASSUME RenewalAssumption == Renewals \subseteq BOOLEAN

VARIABLES
  scope,   \* the scope: holders and queue
  call,    \* call[r]: what became of acquire call r and of its handle
  lease,   \* lease[r]: the id of the lease record r's handle refers to
  told     \* calls whose loss handler has run

vars == <<scope, call, lease, told>>

CallStates == {"idle", "queued", "held", "released", "refused", "aborted"}

TypeOK ==
  /\ scope \in Scope
  /\ call \in [Request -> CallStates]
  /\ lease \in [Request -> Request]
  /\ told \in SUBSET Request

Init ==
  /\ scope = EmptyScope
  /\ call = [r \in Request |-> "idle"]
  /\ lease = [r \in Request |-> r]
  /\ told = {}

(* The calls c after drain() has run on sc: those it grants get a handle.  *)
Settled(sc, c) ==
  [r \in Request |-> IF \E w \in Granted(sc) : w.id = r THEN "held" ELSE c[r]]

(* A handle is live while its record is the one in the scope.              *)
Current(r) == {h \in scope.holders : h.id = lease[r]}

-----------------------------------------------------------------------------
(* acquire *)

(* The owner already holds a lease the call can share.                     *)
Reenter(r, o, m, ttl, auto) ==
  /\ call[r] = "idle"
  /\ \E h \in Reentrant(scope, o, m) :
       /\ scope' = Replaced(scope, h, Joined(h, r, ttl, auto))
       /\ lease' = [lease EXCEPT ![r] = h.id]
  /\ call' = [call EXCEPT ![r] = "held"]
  /\ UNCHANGED told

(* The call is rejected: its signal is already aborted, or it would        *)
(* upgrade a read lease, or one of its ancestors holds or waits.           *)
Refuse(r, o, a, m) ==
  /\ call[r] = "idle"
  /\ Reentrant(scope, o, m) = {}
  /\ NeedsUpgrade(scope, o, m) \/ AncestorBlocks(scope, a)
  /\ call' = [call EXCEPT ![r] = "refused"]
  /\ UNCHANGED <<scope, lease, told>>

(* The call queues, and the queue is drained at once.                      *)
Enqueue(r, o, a, m, ttl, auto) ==
  /\ call[r] = "idle"
  /\ Reentrant(scope, o, m) = {}
  /\ ~NeedsUpgrade(scope, o, m)
  /\ ~AncestorBlocks(scope, a)
  /\ LET w  == [id |-> r, owner |-> o, ancestors |-> a, mode |-> m,
                ttl |-> ttl, auto |-> auto]
         sc == Pushed(scope, w)
     IN  /\ scope' = Drained(sc)
         /\ call' = Settled(sc, [call EXCEPT ![r] = "queued"])
  /\ UNCHANGED <<lease, told>>

Acquire(r, o, a, m, ttl, auto) ==
  \/ Reenter(r, o, m, ttl, auto)
  \/ Refuse(r, o, a, m)
  \/ Enqueue(r, o, a, m, ttl, auto)

(* The caller's signal fires.  Before the call it makes acquire reject;    *)
(* while the call waits it withdraws the waiter and drains the queue;      *)
(* once the call is granted the listener is gone.                          *)
AbortBefore(r) ==
  /\ call[r] = "idle"
  /\ call' = [call EXCEPT ![r] = "aborted"]
  /\ UNCHANGED <<scope, lease, told>>

AbortWaitingNoDrain(r) ==  \* a mutant: the queue is not drained
  /\ call[r] = "queued"
  /\ \E i \in 1..Len(scope.queue) :
       scope.queue[i].id = r /\ scope' = Withdrawn(scope, i)
  /\ call' = [call EXCEPT ![r] = "aborted"]
  /\ UNCHANGED <<lease, told>>

AbortWaiting(r) ==
  /\ call[r] = "queued"
  /\ \E i \in 1..Len(scope.queue) :
       /\ scope.queue[i].id = r
       /\ LET sc == Withdrawn(scope, i)
          IN  /\ scope' = Drained(sc)
              /\ call' = Settled(sc, [call EXCEPT ![r] = "aborted"])
  /\ UNCHANGED <<lease, told>>

-----------------------------------------------------------------------------
(* The end of a lease *)

(* A handle is released once.  The last reference of a current record      *)
(* removes it and drains the queue; a stale handle changes nothing else.   *)
ReleaseStale(r) ==
  /\ call[r] = "held"
  /\ Current(r) = {}
  /\ call' = [call EXCEPT ![r] = "released"]
  /\ UNCHANGED <<scope, lease, told>>

ReleaseShared(r) ==
  /\ call[r] = "held"
  /\ \E h \in Current(r) :
       /\ h.refs > 1
       /\ scope' = Replaced(scope, h, Dereferenced(h, r))
  /\ call' = [call EXCEPT ![r] = "released"]
  /\ UNCHANGED <<lease, told>>

ReleaseLastNoDrain(r) ==  \* a mutant: the queue is not drained
  /\ call[r] = "held"
  /\ \E h \in Current(r) : h.refs <= 1 /\ scope' = Removed(scope, h)
  /\ call' = [call EXCEPT ![r] = "released"]
  /\ UNCHANGED <<lease, told>>

ReleaseLast(r) ==
  /\ call[r] = "held"
  /\ \E h \in Current(r) :
       /\ h.refs <= 1
       /\ LET sc == Removed(scope, h)
          IN  /\ scope' = Drained(sc)
              /\ call' = Settled(sc, [call EXCEPT ![r] = "released"])
  /\ UNCHANGED <<lease, told>>

Release(r) == ReleaseStale(r) \/ ReleaseShared(r) \/ ReleaseLast(r)

(* loseRecord: the holder's loss handlers run, then the queue is drained.  *)
Lose(h) ==
  /\ LET sc == Removed(scope, h)
     IN  /\ scope' = Drained(sc)
         /\ call' = Settled(sc, call)
  /\ told' = told \cup h.handlers
  /\ UNCHANGED lease

(* revoke: the owner's write lease, or else one of its read leases.        *)
Revoke(o) ==
  \E h \in scope.holders :
    /\ h.owner = o
    /\ h.mode = "write" \/ ~\E g \in Writers(scope) : g.owner = o
    /\ Lose(h)

-----------------------------------------------------------------------------
(* Timers *)

Expire ==
  \E h \in scope.holders : h.left = 0 /\ Lose(h)

Heartbeat ==
  \E h \in scope.holders :
    /\ h.auto
    /\ h.due = 0
    /\ scope' = Replaced(scope, h, Renewed(h))
    /\ UNCHANGED <<call, lease, told>>

(* One tick passes when no timer is due.                                   *)
TimerDueLate(h) == h.left = 0  \* a mutant: heartbeats may be missed

TimerDue(h) == h.left = 0 \/ (h.auto /\ h.due = 0)

Aged(h) == [h EXCEPT !.left = @ - 1, !.due = IF h.auto THEN @ - 1 ELSE @]

Tick ==
  /\ scope.holders # {}
  /\ \A h \in scope.holders : ~TimerDue(h)
  /\ scope' = [scope EXCEPT !.holders = {Aged(h) : h \in @}]
  /\ UNCHANGED <<call, lease, told>>

-----------------------------------------------------------------------------
Next ==
  \/ \E r \in Request, o \in Owner, m \in Modes, ttl \in Ttl, auto \in Renewals :
       \E a \in AncestorLists[o] : Acquire(r, o, a, m, ttl, auto)
  \/ \E r \in Request : AbortBefore(r) \/ AbortWaiting(r) \/ Release(r)
  \/ \E o \in Owner : Revoke(o)
  \/ Expire
  \/ Heartbeat
  \/ Tick

Spec == Init /\ [][Next]_vars

(* Timers fire and time passes.  A holder that keeps its lease renewed     *)
(* releases it in the end (every caller releases in a finally block); one  *)
(* that opted out of renewal may have abandoned it.                        *)
ReleaseRenewed(r) == (\E h \in Current(r) : h.auto) /\ Release(r)

Fairness ==
  /\ WF_vars(Expire)
  /\ WF_vars(Heartbeat)
  /\ WF_vars(Tick)
  /\ \A r \in Request : WF_vars(ReleaseRenewed(r))

FairSpec == Spec /\ Fairness

-----------------------------------------------------------------------------
(* Properties *)

(* A writer is alone in the workspace: no other writer and no reader holds *)
(* a lease beside it.                                                      *)
WriterIsAlone == Exclusive(scope)

(* No request waits for one of the ancestors it declared: none of them     *)
(* holds a lease or stands before it in the queue ("A descendant waiting   *)
(* on an ancestor is rejected instead of entering a run-chain deadlock").  *)
NoWaitOnAncestor == ChainFree(scope)

(* No wake-up is lost: whenever the coordinator is at rest, the head of    *)
(* the queue really has to wait for a holder.                              *)
HeadMustWait == HeadBlocked(scope)

(* A lease counts exactly the live handles on it, so that it neither       *)
(* outlives its last handle nor ends under a handle nobody released, and   *)
(* whoever lost a lease without releasing it has been told so before       *)
(* anyone else could be granted the workspace.                             *)
LiveHandles(h) == {r \in Request : call[r] = "held" /\ lease[r] = h.id}

HandlesAreKnown ==
  /\ \A h \in scope.holders : h.refs = Cardinality(LiveHandles(h))
  /\ \A r \in Request : call[r] = "held" /\ Current(r) = {} => r \in told

(* First come, first served: a lease is granted to a call only when no     *)
(* call that came before it is left waiting.  Only a call that joins a     *)
(* lease its owner already holds may pass the queue.                       *)
CameBefore(i, r) ==
  \A j \in 1..Len(scope.queue) : scope.queue[j].id = r => i < j

NewLeases == {h.id : h \in scope'.holders} \ {h.id : h \in scope.holders}

GrantsInOrder ==
  [][\A r \in NewLeases :
       \A i \in 1..Len(scope.queue) :
         CameBefore(i, r) => call'[scope.queue[i].id] # "queued"]_vars

(* Every waiting request is granted or aborted in the end.                 *)
EveryCallSettles ==
  \A r \in Request : (call[r] = "queued") ~> (call[r] # "queued")

=============================================================================
