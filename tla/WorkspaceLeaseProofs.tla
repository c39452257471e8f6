------------------------ MODULE WorkspaceLeaseProofs ------------------------
(***************************************************************************)
(* Proofs about the lease coordinator for every set of owners and calls.   *)
(* What its methods make of a scope is proved in WorkspaceScopeProofs;     *)
(* here are the behaviours of module WorkspaceLease.                       *)
(***************************************************************************)
EXTENDS WorkspaceLease, WorkspaceScopeProofs, FiniteSetTheorems

-----------------------------------------------------------------------------
(* The clock *)

(* The passing of a tick keeps owners and modes, and with them everything  *)
(* the scope promises.                                                     *)
LEMMA AgedScope ==
  ASSUME NEW sc \in Scope, \A h \in sc.holders : ~TimerDue(h),
         NEW d, d = [sc EXCEPT !.holders = {Aged(h) : h \in @}]
  PROVE  /\ d \in Scope
         /\ Exclusive(sc) => Exclusive(d)
         /\ ChainFree(sc) => ChainFree(d)
         /\ HeadBlocked(sc) => HeadBlocked(d)
<1>1. ASSUME NEW h \in sc.holders
      PROVE  Aged(h) \in Lease /\ Aged(h).owner = h.owner /\ Aged(h).mode = h.mode
  <2> DEFINE due == IF h.auto THEN h.due - 1 ELSE h.due
  <2>1. h \in Lease /\ ~ (h.left = 0) /\ ~ (h.auto /\ h.due = 0)
    BY DEF Scope, TimerDue
  <2>2. h.left - 1 \in Nat
    BY <2>1 DEF Lease
  <2>3. due \in Nat
    BY <2>1 DEF Lease
  <2>4. Aged(h) = [h EXCEPT !.left = @ - 1, !.due = due]
    BY Zenon DEF Aged
  <2> HIDE DEF due
  <2> QED BY <2>1, <2>2, <2>3, <2>4 DEF Lease
<1>2. d.holders = {Aged(h) : h \in sc.holders} /\ d.queue = sc.queue
  BY DEF Scope
<1>3. d \in Scope
  BY <1>1 DEF Scope
<1>4. Exclusive(sc) => Exclusive(d)
  BY <1>1, <1>2 DEF Exclusive
<1>5. ChainFree(sc) => ChainFree(d)
  BY <1>1, <1>2 DEF ChainFree
<1>6. HeadBlocked(sc) => HeadBlocked(d)
  BY <1>1, <1>2 DEF HeadBlocked, Writers
<1> QED BY <1>3, <1>4, <1>5, <1>6

-----------------------------------------------------------------------------
(* Behaviours of the coordinator *)

(* The invariants of the scope support each other through drain(), and     *)
(* together with the types they are inductive.                             *)
ScopeOK(sc) == Exclusive(sc) /\ ChainFree(sc) /\ HeadBlocked(sc)

IInv == TypeOK /\ ScopeOK(scope)

LEMMA DrainKeepsScopeOK ==
  ASSUME NEW sc \in Scope, Exclusive(sc), ChainFree(sc)
  PROVE  Drained(sc) \in Scope /\ ScopeOK(Drained(sc))
BY DrainedParts, DrainKeepsExclusive, DrainKeepsChainFree, DrainBlocksHead
   DEF ScopeOK

LEMMA SettledType ==
  ASSUME NEW sc, NEW c \in [Request -> CallStates]
  PROVE  Settled(sc, c) \in [Request -> CallStates]
BY DEF Settled, CallStates

(* Initially nothing is held and nobody waits.                             *)
LEMMA InitIInv == Init => IInv
<1> SUFFICES ASSUME Init PROVE IInv
  OBVIOUS
<1>1. EmptyScope \in Scope /\ ScopeOK(EmptyScope)
  BY EmptySeq DEF EmptyScope, Scope, ScopeOK, Exclusive, ChainFree, HeadBlocked
<1> QED BY <1>1 DEF Init, IInv, TypeOK, CallStates

(* Every step of the coordinator keeps the invariant.                      *)
LEMMA NextIInv == IInv /\ [Next]_vars => IInv'
<1> SUFFICES ASSUME IInv, [Next]_vars PROVE IInv'
  OBVIOUS
<1> USE DEF IInv, TypeOK
<1>a. ASSUME scope' \in Scope, ScopeOK(scope'), call' \in [Request -> CallStates],
             lease' \in [Request -> Request], told' \in SUBSET Request
      PROVE  IInv'
  BY <1>a DEF ScopeOK, Exclusive, ChainFree, HeadBlocked, Writers
<1>0. scope \in Scope /\ Exclusive(scope) /\ ChainFree(scope) /\ HeadBlocked(scope)
  BY DEF ScopeOK
<1>1. ASSUME NEW r \in Request, NEW o \in Owner, NEW m \in Modes,
             NEW ttl \in Ttl, NEW auto \in Renewals, Reenter(r, o, m, ttl, auto)
      PROVE  IInv'
  <2>1. PICK h \in Reentrant(scope, o, m) :
          /\ scope' = Replaced(scope, h, Joined(h, r, ttl, auto))
          /\ lease' = [lease EXCEPT ![r] = h.id]
    BY <1>1 DEF Reenter
  <2>2. h \in scope.holders /\ h \in Lease
    BY <1>0 DEF Reentrant, Writers, Readers, Scope
  <2>3. /\ Joined(h, r, ttl, auto) \in Lease
        /\ Joined(h, r, ttl, auto).owner = h.owner
        /\ Joined(h, r, ttl, auto).mode = h.mode
    BY <2>2, RenewalAssumption, JoinedType
  <2>4. scope' \in Scope /\ ScopeOK(scope')
    BY <1>0, <2>1, <2>2, <2>3, ReplacedScope DEF ScopeOK
  <2>5. call' \in [Request -> CallStates] /\ told' \in SUBSET Request
    BY <1>1 DEF Reenter, CallStates
  <2>6. lease' \in [Request -> Request]
    BY <2>1, <2>2 DEF Lease
  <2> QED BY <1>a, <2>4, <2>5, <2>6
<1>2. ASSUME NEW r \in Request, NEW o \in Owner, NEW m \in Modes,
             NEW a \in AncestorLists[o], Refuse(r, o, a, m)
      PROVE  IInv'
  BY <1>a, <1>0, <1>2 DEF Refuse, CallStates, ScopeOK
<1>3. ASSUME NEW r \in Request, NEW o \in Owner, NEW a \in AncestorLists[o],
             NEW m \in Modes, NEW ttl \in Ttl, NEW auto \in Renewals,
             Enqueue(r, o, a, m, ttl, auto)
      PROVE  IInv'
  <2> DEFINE w  == [id |-> r, owner |-> o, ancestors |-> a, mode |-> m,
                    ttl |-> ttl, auto |-> auto]
             sc == Pushed(scope, w)
  <2>1. w \in Waiter /\ w.ancestors = a
    BY OwnerAssumption, RenewalAssumption DEF Waiter
  <2>2. ~AncestorBlocks(scope, a)
    BY <1>3 DEF Enqueue
  <2>3. /\ scope' = Drained(sc)
        /\ call' = Settled(sc, [call EXCEPT ![r] = "queued"])
        /\ lease' = lease /\ told' = told
    BY <1>3 DEF Enqueue
  <2> HIDE DEF w
  <2>4. sc \in Scope /\ Exclusive(sc) /\ ChainFree(sc)
    BY <1>0, <2>1, <2>2, PushedScope
  <2> HIDE DEF sc
  <2>5. scope' \in Scope /\ ScopeOK(scope')
    BY <2>3, <2>4, DrainKeepsScopeOK
  <2>6. call' \in [Request -> CallStates]
    BY <2>3, SettledType DEF CallStates
  <2> QED BY <1>a, <2>3, <2>5, <2>6
<1>4. ASSUME NEW r \in Request, AbortBefore(r) PROVE IInv'
  BY <1>a, <1>0, <1>4 DEF AbortBefore, CallStates, ScopeOK
<1>5. ASSUME NEW r \in Request, AbortWaiting(r) PROVE IInv'
  <2>1. PICK i \in 1..Len(scope.queue) :
          /\ scope' = Drained(Withdrawn(scope, i))
          /\ call' = Settled(Withdrawn(scope, i), [call EXCEPT ![r] = "aborted"])
    BY <1>5 DEF AbortWaiting
  <2>2. scope' \in Scope /\ ScopeOK(scope')
    BY <1>0, <2>1, WithdrawnScope, DrainKeepsScopeOK
  <2>3. call' \in [Request -> CallStates]
    BY <2>1, SettledType DEF CallStates
  <2> QED BY <1>a, <1>5, <2>2, <2>3 DEF AbortWaiting
<1>6. ASSUME NEW r \in Request, ReleaseStale(r) PROVE IInv'
  BY <1>a, <1>0, <1>6 DEF ReleaseStale, CallStates, ScopeOK
<1>7. ASSUME NEW r \in Request, ReleaseShared(r) PROVE IInv'
  <2>1. PICK h \in scope.holders :
          h.refs > 1 /\ scope' = Replaced(scope, h, Dereferenced(h, r))
    BY <1>7 DEF ReleaseShared, Current
  <2>2. /\ Dereferenced(h, r) \in Lease
        /\ Dereferenced(h, r).owner = h.owner
        /\ Dereferenced(h, r).mode = h.mode
    <3>1. h \in Lease /\ h.refs - 1 \in Nat
      BY <1>0, <2>1 DEF Scope, Lease
    <3> QED BY <3>1 DEF Dereferenced, Lease
  <2>3. scope' \in Scope /\ ScopeOK(scope')
    BY <1>0, <2>1, <2>2, ReplacedScope DEF ScopeOK
  <2> QED BY <1>a, <1>7, <2>3 DEF ReleaseShared, CallStates
<1>8. ASSUME NEW r \in Request, ReleaseLast(r) PROVE IInv'
  <2>1. PICK h : /\ scope' = Drained(Removed(scope, h))
                 /\ call' = Settled(Removed(scope, h), [call EXCEPT ![r] = "released"])
    BY <1>8 DEF ReleaseLast
  <2>2. scope' \in Scope /\ ScopeOK(scope')
    BY <1>0, <2>1, RemovedScope, DrainKeepsScopeOK
  <2>3. call' \in [Request -> CallStates]
    BY <2>1, SettledType DEF CallStates
  <2> QED BY <1>a, <1>8, <2>2, <2>3 DEF ReleaseLast
<1>9. ASSUME NEW h \in scope.holders, Lose(h) PROVE IInv'
  <2>1. /\ scope' = Drained(Removed(scope, h))
        /\ call' = Settled(Removed(scope, h), call)
        /\ told' = told \cup h.handlers /\ lease' = lease
    BY <1>9 DEF Lose
  <2>2. scope' \in Scope /\ ScopeOK(scope')
    BY <1>0, <2>1, RemovedScope, DrainKeepsScopeOK
  <2>3. call' \in [Request -> CallStates]
    BY <2>1, SettledType
  <2>4. told' \in SUBSET Request
    BY <1>0, <2>1 DEF Scope, Lease
  <2> QED BY <1>a, <2>1, <2>2, <2>3, <2>4
<1>10. CASE Heartbeat
  <2>1. PICK h \in scope.holders : scope' = Replaced(scope, h, Renewed(h))
    BY <1>10 DEF Heartbeat
  <2>2. /\ Renewed(h) \in Lease
        /\ Renewed(h).owner = h.owner
        /\ Renewed(h).mode = h.mode
    <3>1. h \in Lease /\ h.ttl \in Nat
      BY <1>0, <2>1, TtlAssumption DEF Scope, Lease
    <3> QED BY <3>1 DEF Renewed, Lease
  <2>3. scope' \in Scope /\ ScopeOK(scope')
    BY <1>0, <2>1, <2>2, ReplacedScope DEF ScopeOK
  <2> QED BY <1>a, <1>10, <2>3 DEF Heartbeat
<1>11. CASE Tick
  <2>1. scope' \in Scope /\ ScopeOK(scope')
    BY <1>0, <1>11, AgedScope DEF Tick, ScopeOK
  <2> QED BY <1>a, <1>11, <2>1 DEF Tick
<1>12. CASE UNCHANGED vars
  BY <1>a, <1>0, <1>12 DEF vars, ScopeOK
<1>13. CASE Next
  <2>1. CASE \E r \in Request, o \in Owner, m \in Modes, ttl \in Ttl, auto \in Renewals :
               \E a \in AncestorLists[o] : Acquire(r, o, a, m, ttl, auto)
    BY <1>1, <1>2, <1>3, <2>1 DEF Acquire
  <2>2. CASE \E r \in Request : AbortBefore(r) \/ AbortWaiting(r) \/ Release(r)
    BY <1>4, <1>5, <1>6, <1>7, <1>8, <2>2 DEF Release
  <2>3. CASE (\E o \in Owner : Revoke(o)) \/ Expire
    BY <1>9, <2>3 DEF Revoke, Expire
  <2> QED BY <1>10, <1>11, <1>13, <2>1, <2>2, <2>3 DEF Next
<1> QED BY <1>12, <1>13

(* In every behaviour the state is well-typed.                             *)
THEOREM TypeCorrect == Spec => []TypeOK
<1>1. IInv => TypeOK
  BY DEF IInv
<1> QED BY InitIInv, NextIInv, <1>1, PTL DEF Spec

(* However many runs ask, expire, abort and are revoked, a writer is alone *)
(* in the workspace.                                                       *)
THEOREM WriterAlone == Spec => []WriterIsAlone
<1>1. IInv => WriterIsAlone
  BY DEF IInv, ScopeOK, WriterIsAlone
<1> QED BY InitIInv, NextIInv, <1>1, PTL DEF Spec

(* No request ever waits, directly or through the queue, for an ancestor   *)
(* it declared: the coordinator itself cannot deadlock a run chain.        *)
THEOREM RunChainsNeverDeadlock == Spec => []NoWaitOnAncestor
<1>1. IInv => NoWaitOnAncestor
  BY DEF IInv, ScopeOK, NoWaitOnAncestor
<1> QED BY InitIInv, NextIInv, <1>1, PTL DEF Spec

(* No wake-up is lost: after every call and every timer the head of the    *)
(* queue has a holder to wait for.                                         *)
THEOREM NoLostWakeup == Spec => []HeadMustWait
<1>1. IInv => HeadMustWait
  BY DEF IInv, ScopeOK, HeadMustWait
<1> QED BY InitIInv, NextIInv, <1>1, PTL DEF Spec

-----------------------------------------------------------------------------
(* Calls, handles and leases *)

LiveOf(c, l, id) == {r \in Request : c[r] = "held" /\ l[r] = id}

(* Scope sc goes with the calls c, the lease ids l and the calls t that    *)
(* were told of a loss: who waits is queued, each call has one place, a    *)
(* lease knows its live handles, and a lease is named only once it exists. *)
Known(sc, c, l, t) ==
  /\ \A i \in 1..Len(sc.queue) : c[sc.queue[i].id] = "queued"
  /\ \A i, j \in 1..Len(sc.queue) : sc.queue[i].id = sc.queue[j].id => i = j
  /\ \A g, h \in sc.holders : g.id = h.id => g = h
  /\ \A h \in sc.holders :
       /\ c[h.id] \notin {"idle", "queued"}
       /\ h.handlers = LiveOf(c, l, h.id)
       /\ IsFiniteSet(h.handlers)
       /\ h.refs = Cardinality(h.handlers)
  /\ \A r \in Request : c[r] \in {"idle", "queued"} => l[r] = r
  /\ \A r \in Request : l[r] # r => c[l[r]] \notin {"idle", "queued"}
  /\ \A r \in Request :
       c[r] = "held" => (\E h \in sc.holders : h.id = l[r]) \/ r \in t

(* drain() turns waiters into leases with one live handle, their own.      *)
LEMMA DrainKnown ==
  ASSUME NEW sc \in Scope, NEW c \in [Request -> CallStates],
         NEW l \in [Request -> Request], NEW t, Known(sc, c, l, t)
  PROVE  Known(Drained(sc), Settled(sc, c), l, t)
<1> DEFINE n == DrainCount(sc)
           d == Drained(sc)
           e == Settled(sc, c)
           q == sc.queue
<1>1. q \in Seq(Waiter) /\ Len(q) \in Nat /\ \A i \in 1..Len(q) : q[i] \in Waiter
  BY LenProperties, ElementOfSeq DEF Scope
<1>2. /\ n \in 0..Len(q)
      /\ d \in Scope
      /\ Len(d.queue) = Len(q) - n
      /\ \A i \in 1..(Len(q) - n) : d.queue[i] = q[i + n]
      /\ \A h \in d.holders : h \in sc.holders \/ \E i \in 1..n : h = LeaseFor(q[i])
      /\ sc.holders \subseteq d.holders
      /\ \A i \in 1..n : LeaseFor(q[i]) \in d.holders
  BY DrainedParts
<1>3. \A i \in 1..Len(q) : /\ q[i].id \in Request
                           /\ c[q[i].id] = "queued"
                           /\ l[q[i].id] = q[i].id
                           /\ LeaseFor(q[i]).id = q[i].id
                           /\ LeaseFor(q[i]).refs = 1
                           /\ LeaseFor(q[i]).handlers = {q[i].id}
  BY <1>1 DEF Known, LeaseFor, Waiter
<1>4. \A i \in 1..n : i \in 1..Len(q)
  BY <1>1, <1>2
<1>5. \A r \in Request :
        \/ (\E i \in 1..n : q[i].id = r) /\ e[r] = "held"
        \/ (\A i \in 1..n : q[i].id # r) /\ e[r] = c[r]
  BY Zenon DEF Settled, Granted
<1>6. \A i, j \in 1..Len(q) : q[i].id = q[j].id => i = j
  BY DEF Known
<1>7. \A h \in sc.holders : h.id \in Request /\ c[h.id] \notin {"idle", "queued"}
  BY DEF Known, Scope, Lease
<1> HIDE DEF n, d, e, q
<1>8. \A i \in 1..Len(d.queue) : e[d.queue[i].id] = "queued"
  <2> SUFFICES ASSUME NEW i \in 1..Len(d.queue) PROVE e[d.queue[i].id] = "queued"
    OBVIOUS
  <2>1. i + n \in 1..Len(q) /\ d.queue[i] = q[i + n] /\ \A j \in 1..n : j # i + n
    BY <1>1, <1>2
  <2>2. \A j \in 1..n : q[j].id # q[i + n].id
    BY <1>4, <1>6, <2>1
  <2> QED BY <1>3, <1>5, <2>1, <2>2
<1>9. \A i, j \in 1..Len(d.queue) : d.queue[i].id = d.queue[j].id => i = j
  <2> SUFFICES ASSUME NEW i \in 1..Len(d.queue), NEW j \in 1..Len(d.queue),
                      d.queue[i].id = d.queue[j].id
               PROVE  i = j
    OBVIOUS
  <2>1. /\ i + n \in 1..Len(q) /\ d.queue[i] = q[i + n]
        /\ j + n \in 1..Len(q) /\ d.queue[j] = q[j + n]
    BY <1>1, <1>2
  <2>2. i + n = j + n
    BY <1>6, <2>1
  <2> QED BY <1>1, <1>2, <2>2
<1>10. \A g, h \in d.holders : g.id = h.id => g = h
  <2> SUFFICES ASSUME NEW g \in d.holders, NEW h \in d.holders, g.id = h.id
               PROVE  g = h
    OBVIOUS
  <2>1. CASE g \in sc.holders /\ h \in sc.holders
    BY <2>1 DEF Known
  <2>2. CASE g \in sc.holders /\ \E i \in 1..n : h = LeaseFor(q[i])
    BY <1>3, <1>4, <1>7, <2>2
  <2>3. CASE h \in sc.holders /\ \E i \in 1..n : g = LeaseFor(q[i])
    BY <1>3, <1>4, <1>7, <2>3
  <2>4. CASE /\ \E i \in 1..n : g = LeaseFor(q[i])
             /\ \E j \in 1..n : h = LeaseFor(q[j])
    BY <1>3, <1>4, <1>6, <2>4
  <2> QED BY <1>2, <2>1, <2>2, <2>3, <2>4
<1>11. ASSUME NEW h \in d.holders
       PROVE  /\ e[h.id] \notin {"idle", "queued"}
              /\ h.handlers = LiveOf(e, l, h.id)
              /\ IsFiniteSet(h.handlers)
              /\ h.refs = Cardinality(h.handlers)
  <2>1. CASE h \in sc.holders
    <3>1. e[h.id] \notin {"idle", "queued"}
      BY <1>5, <1>7, <2>1
    <3>2. LiveOf(e, l, h.id) = LiveOf(c, l, h.id)
      <4> SUFFICES ASSUME NEW r \in Request, l[r] = h.id
                   PROVE  e[r] = c[r]
        BY DEF LiveOf
      <4>1. \A i \in 1..n : q[i].id # r
        BY <1>3, <1>4, <1>7, <2>1
      <4> QED BY <1>5, <4>1
    <3> QED BY <2>1, <3>1, <3>2 DEF Known
  <2>2. ASSUME NEW i \in 1..n, h = LeaseFor(q[i])
        PROVE  /\ e[h.id] \notin {"idle", "queued"}
               /\ h.handlers = LiveOf(e, l, h.id)
               /\ IsFiniteSet(h.handlers)
               /\ h.refs = Cardinality(h.handlers)
    <3>1. /\ h.id = q[i].id /\ h.refs = 1 /\ h.handlers = {h.id}
          /\ h.id \in Request /\ l[h.id] = h.id /\ c[h.id] = "queued"
      BY <1>3, <1>4, <2>2
    <3>2. e[h.id] = "held"
      BY <1>5, <3>1
    <3>3. ASSUME NEW r \in Request, e[r] = "held", l[r] = h.id PROVE r = h.id
      <4>1. CASE \E j \in 1..n : q[j].id = r
        BY <1>3, <1>4, <3>3, <4>1
      <4>2. CASE c[r] = "held"
        BY <3>1, <3>3, <4>2 DEF Known
      <4> QED BY <1>5, <3>3, <4>1, <4>2
    <3>4. h.handlers = LiveOf(e, l, h.id)
      BY <3>1, <3>2, <3>3 DEF LiveOf
    <3>5. IsFiniteSet(h.handlers) /\ h.refs = Cardinality(h.handlers)
      BY <3>1, FS_Singleton
    <3> QED BY <3>2, <3>4, <3>5
  <2> QED BY <1>2, <2>1, <2>2
<1>12. \A r \in Request : e[r] \in {"idle", "queued"} => l[r] = r
  BY <1>5 DEF Known
<1>13. \A r \in Request : l[r] # r => e[l[r]] \notin {"idle", "queued"}
  BY <1>5 DEF Known
<1>14. ASSUME NEW r \in Request, e[r] = "held"
       PROVE  (\E h \in d.holders : h.id = l[r]) \/ r \in t
  <2>1. CASE \E i \in 1..n : q[i].id = r
    BY <1>2, <1>3, <1>4, <2>1
  <2>2. CASE c[r] = "held"
    BY <1>2, <2>2 DEF Known
  <2> QED BY <1>5, <1>14, <2>1, <2>2
<1> QED BY <1>8, <1>9, <1>10, <1>11, <1>12, <1>13, <1>14 DEF Known, d, e

(* The queue of a scope holds waiters, its leases have ids.                *)
LEMMA ScopeIds ==
  ASSUME NEW sc \in Scope
  PROVE  /\ sc.queue \in Seq(Waiter)
         /\ Len(sc.queue) \in Nat
         /\ \A i \in 1..Len(sc.queue) : sc.queue[i].id \in Request
         /\ \A h \in sc.holders : h.id \in Request
<1>1. sc.queue \in Seq(Waiter) /\ sc.holders \subseteq Lease
  BY DEF Scope
<1>2. /\ Len(sc.queue) \in Nat
      /\ \A i \in 1..Len(sc.queue) : sc.queue[i] \in Waiter
  BY <1>1, LenProperties, ElementOfSeq
<1> QED BY <1>1, <1>2 DEF Waiter, Lease

(* A call that ends, refused, aborted or with a handle nobody knows any    *)
(* more, is nobody's concern.                                              *)
LEMMA LeaveKnown ==
  ASSUME NEW sc \in Scope, NEW c \in [Request -> CallStates],
         NEW l \in [Request -> Request], NEW t, Known(sc, c, l, t),
         NEW r \in Request, NEW x \in {"refused", "aborted", "released"},
         \/ c[r] = "idle"
         \/ c[r] = "held" /\ \A h \in sc.holders : h.id # l[r]
  PROVE  Known(sc, [c EXCEPT ![r] = x], l, t)
<1> DEFINE e == [c EXCEPT ![r] = x]
<1>1. \A s \in Request : e[s] = IF s = r THEN x ELSE c[s]
  OBVIOUS
<1>2. x \notin {"idle", "queued", "held"}
  OBVIOUS
<1>3. \A i \in 1..Len(sc.queue) : sc.queue[i].id \in Request
  BY ScopeIds
<1>4. \A h \in sc.holders : h.id \in Request
  BY DEF Scope, Lease
<1> HIDE DEF e
<1>5. \A i \in 1..Len(sc.queue) : e[sc.queue[i].id] = "queued"
  BY <1>1, <1>3 DEF Known
<1>6. ASSUME NEW h \in sc.holders
      PROVE  e[h.id] \notin {"idle", "queued"} /\ LiveOf(e, l, h.id) = LiveOf(c, l, h.id)
  BY <1>1, <1>2, <1>4 DEF Known, LiveOf
<1>7. \A s \in Request : l[s] # s => e[l[s]] \notin {"idle", "queued"}
  BY <1>1, <1>2 DEF Known
<1>8. \A s \in Request : /\ e[s] \in {"idle", "queued"} => c[s] = e[s]
                         /\ e[s] = "held" => c[s] = "held"
  BY <1>1, <1>2
<1> QED BY <1>5, <1>6, <1>7, <1>8 DEF Known, e

(* A call that starts to wait takes its place at the end of the queue.     *)
LEMMA PushKnown ==
  ASSUME NEW sc \in Scope, NEW c \in [Request -> CallStates],
         NEW l \in [Request -> Request], NEW t, Known(sc, c, l, t),
         NEW w \in Waiter, c[w.id] = "idle"
  PROVE  Known(Pushed(sc, w), [c EXCEPT ![w.id] = "queued"], l, t)
<1> DEFINE r == w.id
           e == [c EXCEPT ![r] = "queued"]
           p == Pushed(sc, w)
<1>1. r \in Request /\ \A s \in Request : e[s] = IF s = r THEN "queued" ELSE c[s]
  BY DEF Waiter
<1>2. sc.queue \in Seq(Waiter) /\ Len(sc.queue) \in Nat
  BY LenProperties DEF Scope
<1>3. /\ p.holders = sc.holders
      /\ Len(p.queue) = Len(sc.queue) + 1
      /\ \A i \in 1..Len(sc.queue) : p.queue[i] = sc.queue[i]
      /\ p.queue[Len(sc.queue) + 1] = w
  BY <1>2, AppendProperties DEF Pushed, Scope
<1>4. \A i \in 1..Len(sc.queue) : sc.queue[i].id \in Request
  BY ScopeIds
<1>5. \A h \in sc.holders : h.id \in Request /\ h.id # r
  BY DEF Known, Scope, Lease
<1>6. \A i \in 1..Len(sc.queue) : sc.queue[i].id # r
  BY DEF Known
<1>7. \A i \in 1..Len(p.queue) : i \in 1..Len(sc.queue) \/ i = Len(sc.queue) + 1
  BY <1>2, <1>3
<1> HIDE DEF p, e
<1>8. \A i \in 1..Len(p.queue) : e[p.queue[i].id] = "queued"
  BY <1>1, <1>3, <1>4, <1>7 DEF Known
<1>9. \A i, j \in 1..Len(p.queue) : p.queue[i].id = p.queue[j].id => i = j
  <2> SUFFICES ASSUME NEW i \in 1..Len(p.queue), NEW j \in 1..Len(p.queue),
                      p.queue[i].id = p.queue[j].id
               PROVE  i = j
    OBVIOUS
  <2>1. CASE i \in 1..Len(sc.queue) /\ j \in 1..Len(sc.queue)
    BY <1>3, <2>1 DEF Known
  <2>2. CASE i \in 1..Len(sc.queue) /\ j = Len(sc.queue) + 1
    BY <1>3, <1>6, <2>2
  <2>3. CASE i = Len(sc.queue) + 1 /\ j \in 1..Len(sc.queue)
    BY <1>3, <1>6, <2>3
  <2> QED BY <1>7, <2>1, <2>2, <2>3
<1>10. ASSUME NEW h \in p.holders
       PROVE  e[h.id] = c[h.id] /\ LiveOf(e, l, h.id) = LiveOf(c, l, h.id)
  BY <1>1, <1>3, <1>5 DEF LiveOf
<1>11. \A s \in Request : l[s] # s => e[l[s]] \notin {"idle", "queued"}
  BY <1>1 DEF Known
<1>12. \A s \in Request : /\ e[s] \in {"idle", "queued"} => c[s] \in {"idle", "queued"}
                          /\ e[s] = "held" => c[s] = "held"
  BY <1>1
<1>13. /\ \A h \in p.holders : /\ e[h.id] \notin {"idle", "queued"}
                               /\ h.handlers = LiveOf(e, l, h.id)
                               /\ IsFiniteSet(h.handlers)
                               /\ h.refs = Cardinality(h.handlers)
       /\ \A g, h \in p.holders : g.id = h.id => g = h
  BY <1>3, <1>10 DEF Known
<1>14. \A s \in Request : /\ e[s] \in {"idle", "queued"} => l[s] = s
                          /\ e[s] = "held" =>
                               (\E h \in p.holders : h.id = l[s]) \/ s \in t
  BY <1>3, <1>12 DEF Known
<1>15. Known(p, e, l, t)
  BY <1>8, <1>9, <1>11, <1>13, <1>14 DEF Known
<1> QED BY <1>15 DEF e, p

(* A waiter that gives up leaves everyone else's place as it was.          *)
LEMMA WithdrawKnown ==
  ASSUME NEW sc \in Scope, NEW c \in [Request -> CallStates],
         NEW l \in [Request -> Request], NEW t, Known(sc, c, l, t),
         NEW k \in 1..Len(sc.queue), NEW r, r = sc.queue[k].id
  PROVE  Known(Withdrawn(sc, k), [c EXCEPT ![r] = "aborted"], l, t)
<1> DEFINE e == [c EXCEPT ![r] = "aborted"]
           d == Withdrawn(sc, k)
           at(i) == IF i < k THEN i ELSE i + 1
<1>1. sc.queue \in Seq(Waiter) /\ Len(sc.queue) \in Nat
  BY LenProperties DEF Scope
<1>2. \A i \in 1..Len(sc.queue) : sc.queue[i].id \in Request
  BY ScopeIds
<1>3. r \in Request /\ \A s \in Request : e[s] = IF s = r THEN "aborted" ELSE c[s]
  BY <1>2
<1>4. /\ d.holders = sc.holders
      /\ Len(d.queue) = Len(sc.queue) - 1
      /\ \A i \in 1..Len(d.queue) : d.queue[i] = sc.queue[at(i)]
  BY WithdrawnParts
<1>5. /\ \A i \in 1..Len(d.queue) : at(i) \in 1..Len(sc.queue) /\ at(i) # k
      /\ \A i, j \in 1..Len(d.queue) : at(i) = at(j) => i = j
  BY <1>1, <1>4
<1>6. c[r] = "queued" /\ \A h \in sc.holders : h.id \in Request /\ h.id # r
  BY DEF Known, Scope, Lease
<1>7. \A i, j \in 1..Len(sc.queue) : sc.queue[i].id = sc.queue[j].id => i = j
  BY DEF Known
<1> HIDE DEF d, e, at
<1>8. \A i \in 1..Len(d.queue) : e[d.queue[i].id] = "queued"
  <2>1. \A i \in 1..Len(d.queue) : d.queue[i].id # r
    BY <1>4, <1>5, <1>7
  <2>2. \A i \in 1..Len(sc.queue) : c[sc.queue[i].id] = "queued"
    BY DEF Known
  <2> QED BY <1>2, <1>3, <1>4, <1>5, <2>1, <2>2
<1>9. \A i, j \in 1..Len(d.queue) : d.queue[i].id = d.queue[j].id => i = j
  <2> SUFFICES ASSUME NEW i \in 1..Len(d.queue), NEW j \in 1..Len(d.queue),
                      d.queue[i].id = d.queue[j].id
               PROVE  i = j
    OBVIOUS
  <2>1. /\ at(i) \in 1..Len(sc.queue) /\ d.queue[i] = sc.queue[at(i)]
        /\ at(j) \in 1..Len(sc.queue) /\ d.queue[j] = sc.queue[at(j)]
    BY <1>4, <1>5
  <2>2. at(i) = at(j)
    BY <1>7, <2>1
  <2> QED BY <1>5, <2>2
<1>10. ASSUME NEW h \in sc.holders
       PROVE  e[h.id] = c[h.id] /\ LiveOf(e, l, h.id) = LiveOf(c, l, h.id)
  BY <1>3, <1>6 DEF LiveOf
<1>11. \A s \in Request : l[s] # s => e[l[s]] \notin {"idle", "queued"}
  BY <1>3 DEF Known
<1>12. \A s \in Request : /\ e[s] \in {"idle", "queued"} => c[s] \in {"idle", "queued"}
                          /\ e[s] = "held" => c[s] = "held"
  BY <1>3
<1> QED BY <1>4, <1>8, <1>9, <1>10, <1>11, <1>12 DEF Known, d, e

(* A lease that is lost goes with its handles, and they are told.          *)
LEMMA LoseKnown ==
  ASSUME NEW sc \in Scope, NEW c \in [Request -> CallStates],
         NEW l \in [Request -> Request], NEW t, Known(sc, c, l, t),
         NEW h \in sc.holders
  PROVE  Known(Removed(sc, h), c, l, t \cup h.handlers)
<1> DEFINE d == Removed(sc, h)
<1>1. d.holders = sc.holders \ {h} /\ d.queue = sc.queue
  BY DEF Removed, Scope
<1>2. ASSUME NEW r \in Request, c[r] = "held"
      PROVE  (\E g \in d.holders : g.id = l[r]) \/ r \in t \cup h.handlers
  <2>1. CASE l[r] = h.id
    BY <1>2, <2>1 DEF Known, LiveOf
  <2> QED BY <1>1, <1>2, <2>1 DEF Known
<1> HIDE DEF d
<1> QED BY <1>1, <1>2 DEF Known, d

(* The last handle of a lease takes it along.                              *)
LEMMA LastKnown ==
  ASSUME NEW sc \in Scope, NEW c \in [Request -> CallStates],
         NEW l \in [Request -> Request], NEW t, Known(sc, c, l, t),
         NEW h \in sc.holders, h.refs <= 1,
         NEW r \in Request, c[r] = "held", l[r] = h.id
  PROVE  Known(Removed(sc, h), [c EXCEPT ![r] = "released"], l, t)
<1> DEFINE d == Removed(sc, h)
           e == [c EXCEPT ![r] = "released"]
<1>1. d.holders = sc.holders \ {h} /\ d.queue = sc.queue
  BY DEF Removed, Scope
<1>2. \A s \in Request : e[s] = IF s = r THEN "released" ELSE c[s]
  OBVIOUS
<1>3. h.handlers = {r}
  <2>1. /\ IsFiniteSet(h.handlers) /\ h.refs = Cardinality(h.handlers)
        /\ r \in h.handlers /\ h.refs \in Nat
    BY DEF Known, LiveOf, Scope, Lease
  <2>2. /\ IsFiniteSet(h.handlers \ {r})
        /\ Cardinality(h.handlers \ {r}) = h.refs - 1
        /\ Cardinality(h.handlers \ {r}) \in Nat
    BY <2>1, FS_RemoveElement, FS_CardinalityType
  <2>3. Cardinality(h.handlers \ {r}) = 0
    BY <2>1, <2>2
  <2> QED BY <2>1, <2>2, <2>3, FS_EmptySet
<1>4. \A i \in 1..Len(sc.queue) : sc.queue[i].id \in Request /\ sc.queue[i].id # r
  BY ScopeIds DEF Known
<1>5. \A g \in d.holders : g \in sc.holders /\ g.id \in Request /\ g.id # h.id
  BY <1>1 DEF Known, Scope, Lease
<1> HIDE DEF d, e
<1>6. ASSUME NEW g \in d.holders
      PROVE  e[g.id] \notin {"idle", "queued"} /\ LiveOf(e, l, g.id) = LiveOf(c, l, g.id)
  BY <1>2, <1>5 DEF Known, LiveOf
<1>7. ASSUME NEW s \in Request, e[s] = "held"
      PROVE  (\E g \in d.holders : g.id = l[s]) \/ s \in t
  <2>1. c[s] = "held" /\ s # r
    BY <1>2, <1>7
  <2>2. l[s] # h.id
    BY <1>3, <2>1 DEF Known, LiveOf
  <2> QED BY <1>1, <2>1, <2>2 DEF Known
<1>8. \A s \in Request : l[s] # s => e[l[s]] \notin {"idle", "queued"}
  BY <1>2 DEF Known
<1>9. \A s \in Request : e[s] \in {"idle", "queued"} => c[s] \in {"idle", "queued"}
  BY <1>2
<1>10. \A i \in 1..Len(d.queue) : e[d.queue[i].id] = "queued"
  BY <1>1, <1>2, <1>4 DEF Known
<1>11. \A g \in d.holders : /\ e[g.id] \notin {"idle", "queued"}
                            /\ g.handlers = LiveOf(e, l, g.id)
                            /\ IsFiniteSet(g.handlers)
                            /\ g.refs = Cardinality(g.handlers)
  BY <1>5, <1>6 DEF Known
<1>12. /\ \A i, j \in 1..Len(d.queue) : d.queue[i].id = d.queue[j].id => i = j
       /\ \A f, g \in d.holders : f.id = g.id => f = g
  BY <1>1, <1>5 DEF Known
<1>13. \A s \in Request : e[s] \in {"idle", "queued"} => l[s] = s
  BY <1>9 DEF Known
<1> QED BY <1>7, <1>8, <1>10, <1>11, <1>12, <1>13 DEF Known, d, e

(* Timers change nothing of what a lease knows of its handles.             *)
LEMMA TimersKnown ==
  ASSUME NEW sc \in Scope, NEW c, NEW l, NEW t, Known(sc, c, l, t), NEW d,
         d.queue = sc.queue,
         \A g \in d.holders : \E h \in sc.holders :
           g.id = h.id /\ g.handlers = h.handlers /\ g.refs = h.refs,
         \A h \in sc.holders : \E g \in d.holders : g.id = h.id,
         \A f, g \in d.holders : f.id = g.id => f = g
  PROVE  Known(d, c, l, t)
<1>1. ASSUME NEW g \in d.holders
      PROVE  /\ c[g.id] \notin {"idle", "queued"}
             /\ g.handlers = LiveOf(c, l, g.id)
             /\ IsFiniteSet(g.handlers)
             /\ g.refs = Cardinality(g.handlers)
  BY DEF Known
<1>2. \A r \in Request :
        c[r] = "held" => (\E g \in d.holders : g.id = l[r]) \/ r \in t
  <2> SUFFICES ASSUME NEW r \in Request, c[r] = "held", r \notin t
               PROVE  \E g \in d.holders : g.id = l[r]
    OBVIOUS
  <2>1. PICK h \in sc.holders : h.id = l[r]
    BY DEF Known
  <2> QED BY <2>1
<1> QED BY <1>1, <1>2 DEF Known

(* A call that joins a lease becomes one more of its handles.              *)
LEMMA JoinKnown ==
  ASSUME NEW sc \in Scope, NEW c \in [Request -> CallStates],
         NEW l \in [Request -> Request], NEW t, Known(sc, c, l, t),
         NEW h \in sc.holders, NEW r \in Request, c[r] = "idle", NEW g,
         g.id = h.id, g.refs = h.refs + 1, g.handlers = h.handlers \cup {r}
  PROVE  Known(Replaced(sc, h, g), [c EXCEPT ![r] = "held"], [l EXCEPT ![r] = h.id], t)
<1> DEFINE d == Replaced(sc, h, g)
           e == [c EXCEPT ![r] = "held"]
           m == [l EXCEPT ![r] = h.id]
<1>1. d.holders = (sc.holders \ {h}) \cup {g} /\ d.queue = sc.queue
  BY DEF Replaced, Scope
<1>2. /\ \A s \in Request : e[s] = IF s = r THEN "held" ELSE c[s]
      /\ \A s \in Request : m[s] = IF s = r THEN h.id ELSE l[s]
  OBVIOUS
<1>3. /\ \A i \in 1..Len(sc.queue) : sc.queue[i].id \in Request /\ sc.queue[i].id # r
      /\ \A f \in sc.holders : f.id \in Request /\ f.id # r
  BY ScopeIds DEF Known
<1>4. \A f \in sc.holders : f # h => f.id # h.id
  BY DEF Known
<1>5. /\ h.handlers = LiveOf(c, l, h.id) /\ IsFiniteSet(h.handlers)
      /\ h.refs = Cardinality(h.handlers)
      /\ c[h.id] \notin {"idle", "queued"}
  BY DEF Known
<1> HIDE DEF d, e, m
<1>6. \A i \in 1..Len(d.queue) : e[d.queue[i].id] = "queued"
  BY <1>1, <1>2, <1>3 DEF Known
<1>7. \A f, k \in d.holders : f.id = k.id => f = k
  BY <1>1, <1>4 DEF Known
<1>8. ASSUME NEW f \in d.holders
      PROVE  /\ e[f.id] \notin {"idle", "queued"}
             /\ f.handlers = LiveOf(e, m, f.id)
             /\ IsFiniteSet(f.handlers)
             /\ f.refs = Cardinality(f.handlers)
  <2>1. CASE f = g
    <3>1. r \notin h.handlers
      BY <1>5 DEF LiveOf
    <3>2. IsFiniteSet(g.handlers) /\ g.refs = Cardinality(g.handlers)
      <4>1. /\ IsFiniteSet(h.handlers \cup {r})
            /\ Cardinality(h.handlers \cup {r}) = Cardinality(h.handlers) + 1
        BY <1>5, <3>1, FS_AddElement
      <4> QED BY <1>5, <4>1
    <3>3. g.handlers = LiveOf(e, m, h.id)
      BY <1>2, <1>5 DEF LiveOf
    <3>4. e[h.id] \notin {"idle", "queued"}
      BY <1>2, <1>3, <1>5
    <3> QED BY <2>1, <3>2, <3>3, <3>4
  <2>2. CASE f \in sc.holders /\ f # h
    <3>1. LiveOf(e, m, f.id) = LiveOf(c, l, f.id)
      BY <1>2, <1>4, <2>2 DEF LiveOf
    <3>2. e[f.id] = c[f.id]
      BY <1>2, <1>3, <2>2
    <3> QED BY <2>2, <3>1, <3>2 DEF Known
  <2> QED BY <1>1, <2>1, <2>2
<1>9. \A s \in Request : e[s] \in {"idle", "queued"} => m[s] = s
  BY <1>2 DEF Known
<1>10. ASSUME NEW s \in Request, m[s] # s PROVE e[m[s]] \notin {"idle", "queued"}
  <2>1. CASE s = r
    BY <1>2, <1>3, <1>5, <2>1
  <2>2. CASE s # r
    <3>1. l[s] \in Request /\ m[s] = l[s] /\ c[l[s]] \notin {"idle", "queued"}
      BY <1>2, <1>10, <2>2 DEF Known
    <3> QED BY <1>2, <3>1
  <2> QED BY <2>1, <2>2
<1>11. ASSUME NEW s \in Request, e[s] = "held"
       PROVE  (\E f \in d.holders : f.id = m[s]) \/ s \in t
  <2>1. CASE s = r
    BY <1>1, <1>2, <2>1
  <2>2. CASE s # r /\ s \notin t
    <3>1. PICK f \in sc.holders : f.id = l[s]
      BY <1>2, <1>11, <2>2 DEF Known
    <3>2. \E k \in d.holders : k.id = f.id
      BY <1>1
    <3> QED BY <1>2, <2>2, <3>1, <3>2
  <2> QED BY <2>1, <2>2
<1>12. \A i, j \in 1..Len(d.queue) : d.queue[i].id = d.queue[j].id => i = j
  BY <1>1 DEF Known
<1> QED BY <1>6, <1>7, <1>8, <1>9, <1>10, <1>11, <1>12 DEF Known, d, e, m

(* A handle that is released while others share its lease leaves them to   *)
(* it.                                                                     *)
LEMMA DropKnown ==
  ASSUME NEW sc \in Scope, NEW c \in [Request -> CallStates],
         NEW l \in [Request -> Request], NEW t, Known(sc, c, l, t),
         NEW h \in sc.holders, NEW r \in Request, c[r] = "held", l[r] = h.id, NEW g,
         g.id = h.id, g.refs = h.refs - 1, g.handlers = h.handlers \ {r}
  PROVE  Known(Replaced(sc, h, g), [c EXCEPT ![r] = "released"], l, t)
<1> DEFINE d == Replaced(sc, h, g)
           e == [c EXCEPT ![r] = "released"]
<1>1. d.holders = (sc.holders \ {h}) \cup {g} /\ d.queue = sc.queue
  BY DEF Replaced, Scope
<1>2. \A s \in Request : e[s] = IF s = r THEN "released" ELSE c[s]
  OBVIOUS
<1>3. /\ \A i \in 1..Len(sc.queue) : sc.queue[i].id \in Request /\ sc.queue[i].id # r
      /\ \A f \in sc.holders : f.id \in Request
  BY ScopeIds DEF Known
<1>4. \A f \in sc.holders : f # h => f.id # h.id
  BY DEF Known
<1>5. /\ h.handlers = LiveOf(c, l, h.id) /\ IsFiniteSet(h.handlers)
      /\ h.refs = Cardinality(h.handlers)
      /\ c[h.id] \notin {"idle", "queued"}
  BY DEF Known
<1> HIDE DEF d, e
<1>6. \A i \in 1..Len(d.queue) : e[d.queue[i].id] = "queued"
  BY <1>1, <1>2, <1>3 DEF Known
<1>7. \A f, k \in d.holders : f.id = k.id => f = k
  BY <1>1, <1>4 DEF Known
<1>8. ASSUME NEW f \in d.holders
      PROVE  /\ e[f.id] \notin {"idle", "queued"}
             /\ f.handlers = LiveOf(e, l, f.id)
             /\ IsFiniteSet(f.handlers)
             /\ f.refs = Cardinality(f.handlers)
  <2>1. CASE f = g
    <3>1. r \in h.handlers
      BY <1>5 DEF LiveOf
    <3>2. IsFiniteSet(g.handlers) /\ g.refs = Cardinality(g.handlers)
      <4>1. /\ IsFiniteSet(h.handlers \ {r})
            /\ Cardinality(h.handlers \ {r}) = Cardinality(h.handlers) - 1
        BY <1>5, <3>1, FS_RemoveElement
      <4> QED BY <1>5, <4>1
    <3>3. g.handlers = LiveOf(e, l, h.id)
      BY <1>2, <1>5 DEF LiveOf
    <3>4. e[h.id] \notin {"idle", "queued"}
      BY <1>2, <1>3, <1>5
    <3> QED BY <2>1, <3>2, <3>3, <3>4
  <2>2. CASE f \in sc.holders /\ f # h
    <3>1. LiveOf(e, l, f.id) = LiveOf(c, l, f.id)
      BY <1>2, <1>4, <2>2 DEF LiveOf
    <3>2. e[f.id] \notin {"idle", "queued"}
      BY <1>2, <1>3, <2>2 DEF Known
    <3> QED BY <2>2, <3>1, <3>2 DEF Known
  <2> QED BY <1>1, <2>1, <2>2
<1>9. \A s \in Request : l[s] # s => e[l[s]] \notin {"idle", "queued"}
  BY <1>2 DEF Known
<1>10. \A s \in Request : e[s] \in {"idle", "queued"} => l[s] = s
  BY <1>2 DEF Known
<1>11. ASSUME NEW s \in Request, e[s] = "held"
       PROVE  (\E f \in d.holders : f.id = l[s]) \/ s \in t
  <2>1. CASE s \notin t
    <3>1. PICK f \in sc.holders : f.id = l[s]
      BY <1>2, <1>11, <2>1 DEF Known
    <3>2. \E k \in d.holders : k.id = f.id
      BY <1>1
    <3> QED BY <3>1, <3>2
  <2> QED BY <2>1
<1>12. \A i, j \in 1..Len(d.queue) : d.queue[i].id = d.queue[j].id => i = j
  BY <1>1 DEF Known
<1> QED BY <1>6, <1>7, <1>8, <1>9, <1>10, <1>11, <1>12 DEF Known, d, e

(* The passing of a tick, which leaves every lease its own.                *)
LEMMA TickKnown ==
  ASSUME NEW sc \in Scope, NEW c, NEW l, NEW t, Known(sc, c, l, t), NEW d,
         d = [sc EXCEPT !.holders = {Aged(h) : h \in @}]
  PROVE  Known(d, c, l, t)
<1>1. d.queue = sc.queue /\ d.holders = {Aged(h) : h \in sc.holders}
  BY DEF Scope
<1>2. \A h \in sc.holders : /\ Aged(h).id = h.id
                            /\ Aged(h).handlers = h.handlers
                            /\ Aged(h).refs = h.refs
  BY DEF Aged, Scope, Lease
<1>3. \A f, g \in d.holders : f.id = g.id => f = g
  BY <1>1, <1>2 DEF Known
<1>4. \A g \in d.holders : \E h \in sc.holders :
        g.id = h.id /\ g.handlers = h.handlers /\ g.refs = h.refs
  BY <1>1, <1>2
<1>5. \A h \in sc.holders : \E g \in d.holders : g.id = h.id
  BY <1>1, <1>2
<1>6. d.queue = sc.queue
  BY <1>1
<1> QED BY <1>3, <1>4, <1>5, <1>6, TimersKnown, Zenon

(* The inductive invariant about calls: with the types and the scope.      *)
KInv == IInv /\ Known(scope, call, lease, told)

(* Initially there is neither call nor lease.                              *)
LEMMA InitKInv == Init => KInv
<1> SUFFICES ASSUME Init PROVE Known(scope, call, lease, told)
  BY InitIInv DEF KInv
<1>1. scope.holders = {} /\ scope.queue = << >>
  BY DEF Init, EmptyScope
<1>2. Len(scope.queue) = 0
  BY <1>1, EmptySeq
<1>3. \A r \in Request : call[r] = "idle" /\ lease[r] = r
  BY DEF Init
<1> QED BY <1>1, <1>2, <1>3 DEF Known

(* Every step of the coordinator keeps calls, handles and leases together. *)
LEMMA NextKInv == KInv /\ [Next]_vars => KInv'
<1> SUFFICES ASSUME KInv, [Next]_vars PROVE Known(scope, call, lease, told)'
  BY NextIInv DEF KInv
<1>0. /\ scope \in Scope /\ call \in [Request -> CallStates]
      /\ lease \in [Request -> Request]
      /\ Known(scope, call, lease, told)
  BY DEF KInv, IInv, TypeOK
<1>a. ASSUME Known(scope', call', lease', told') PROVE Known(scope, call, lease, told)'
  BY <1>a DEF Known, LiveOf
<1>1. ASSUME NEW r \in Request, NEW o \in Owner, NEW m \in Modes,
             NEW ttl \in Ttl, NEW auto \in Renewals, Reenter(r, o, m, ttl, auto)
      PROVE  Known(scope', call', lease', told')
  <2>1. PICK h \in Reentrant(scope, o, m) :
          /\ scope' = Replaced(scope, h, Joined(h, r, ttl, auto))
          /\ lease' = [lease EXCEPT ![r] = h.id]
    BY <1>1 DEF Reenter
  <2>2. h \in scope.holders /\ h \in Lease
    BY <1>0 DEF Reentrant, Writers, Readers, Scope
  <2>3. /\ Joined(h, r, ttl, auto).id = h.id
        /\ Joined(h, r, ttl, auto).refs = h.refs + 1
        /\ Joined(h, r, ttl, auto).handlers = h.handlers \cup {r}
    BY <2>2, RenewalAssumption, JoinedHandles
  <2>4. /\ call[r] = "idle" /\ call' = [call EXCEPT ![r] = "held"]
        /\ told' = told
    BY <1>1 DEF Reenter
  <2> QED BY <1>0, <2>1, <2>2, <2>3, <2>4, JoinKnown
<1>2. ASSUME NEW r \in Request, NEW o \in Owner, NEW m \in Modes,
             NEW a \in AncestorLists[o], Refuse(r, o, a, m)
      PROVE  Known(scope', call', lease', told')
  BY <1>0, <1>2, LeaveKnown DEF Refuse
<1>3. ASSUME NEW r \in Request, NEW o \in Owner, NEW a \in AncestorLists[o],
             NEW m \in Modes, NEW ttl \in Ttl, NEW auto \in Renewals,
             Enqueue(r, o, a, m, ttl, auto)
      PROVE  Known(scope', call', lease', told')
  <2> DEFINE w  == [id |-> r, owner |-> o, ancestors |-> a, mode |-> m,
                    ttl |-> ttl, auto |-> auto]
             sc == Pushed(scope, w)
             c  == [call EXCEPT ![r] = "queued"]
  <2>1. w \in Waiter /\ w.id = r
    BY OwnerAssumption, RenewalAssumption DEF Waiter
  <2>2. /\ call[r] = "idle"
        /\ scope' = Drained(sc) /\ call' = Settled(sc, c)
        /\ lease' = lease /\ told' = told
    BY <1>3 DEF Enqueue
  <2> HIDE DEF w
  <2>3. sc \in Scope /\ c \in [Request -> CallStates]
    BY <1>0, <2>1, PushedScope DEF CallStates
  <2>4. Known(sc, c, lease, told)
    BY <1>0, <2>1, <2>2, PushKnown
  <2> HIDE DEF sc, c
  <2> QED BY <1>0, <2>2, <2>3, <2>4, DrainKnown
<1>4. ASSUME NEW r \in Request, AbortBefore(r)
      PROVE  Known(scope', call', lease', told')
  BY <1>0, <1>4, LeaveKnown DEF AbortBefore
<1>5. ASSUME NEW r \in Request, AbortWaiting(r)
      PROVE  Known(scope', call', lease', told')
  <2> DEFINE c == [call EXCEPT ![r] = "aborted"]
  <2>1. PICK i \in 1..Len(scope.queue) :
          /\ scope.queue[i].id = r
          /\ scope' = Drained(Withdrawn(scope, i))
          /\ call' = Settled(Withdrawn(scope, i), c)
    BY <1>5 DEF AbortWaiting
  <2>2. Withdrawn(scope, i) \in Scope /\ c \in [Request -> CallStates]
    BY <1>0, WithdrawnParts DEF CallStates
  <2>3. Known(Withdrawn(scope, i), c, lease, told)
    BY <1>0, <2>1, WithdrawKnown
  <2> HIDE DEF c
  <2>4. Known(scope', call', lease, told)
    BY <1>0, <2>1, <2>2, <2>3, DrainKnown
  <2> QED BY <1>5, <2>4 DEF AbortWaiting
<1>6. ASSUME NEW r \in Request, ReleaseStale(r)
      PROVE  Known(scope', call', lease', told')
  <2>1. \A h \in scope.holders : h.id # lease[r]
    BY <1>6 DEF ReleaseStale, Current
  <2> QED BY <1>0, <1>6, <2>1, LeaveKnown DEF ReleaseStale
<1>7. ASSUME NEW r \in Request, ReleaseShared(r)
      PROVE  Known(scope', call', lease', told')
  <2>1. PICK h \in scope.holders :
          h.id = lease[r] /\ scope' = Replaced(scope, h, Dereferenced(h, r))
    BY <1>7 DEF ReleaseShared, Current
  <2>2. /\ Dereferenced(h, r).id = h.id
        /\ Dereferenced(h, r).refs = h.refs - 1
        /\ Dereferenced(h, r).handlers = h.handlers \ {r}
    BY <1>0, <2>1 DEF Dereferenced, Scope, Lease
  <2>3. /\ call[r] = "held" /\ call' = [call EXCEPT ![r] = "released"]
        /\ lease' = lease /\ told' = told
    BY <1>7 DEF ReleaseShared
  <2> QED BY <1>0, <2>1, <2>2, <2>3, DropKnown
<1>8. ASSUME NEW r \in Request, ReleaseLast(r)
      PROVE  Known(scope', call', lease', told')
  <2> DEFINE c == [call EXCEPT ![r] = "released"]
  <2>1. PICK h \in scope.holders :
          /\ h.id = lease[r] /\ h.refs <= 1
          /\ scope' = Drained(Removed(scope, h))
          /\ call' = Settled(Removed(scope, h), c)
    BY <1>8 DEF ReleaseLast, Current
  <2>2. call[r] = "held" /\ lease' = lease /\ told' = told
    BY <1>8 DEF ReleaseLast
  <2>3. Removed(scope, h) \in Scope /\ c \in [Request -> CallStates]
    BY <1>0, RemovedScope DEF CallStates
  <2>4. Known(Removed(scope, h), c, lease, told)
    BY <1>0, <2>1, <2>2, LastKnown
  <2> HIDE DEF c
  <2> QED BY <1>0, <2>1, <2>2, <2>3, <2>4, DrainKnown
<1>9. ASSUME NEW h \in scope.holders, Lose(h)
      PROVE  Known(scope', call', lease', told')
  <2>1. /\ scope' = Drained(Removed(scope, h))
        /\ call' = Settled(Removed(scope, h), call)
        /\ told' = told \cup h.handlers /\ lease' = lease
    BY <1>9 DEF Lose
  <2>2. Removed(scope, h) \in Scope
    BY <1>0, RemovedScope
  <2>3. Known(Removed(scope, h), call, lease, told')
    BY <1>0, <2>1, LoseKnown
  <2> QED BY <1>0, <2>1, <2>2, <2>3, DrainKnown
<1>10. CASE Heartbeat
  <2>1. PICK h \in scope.holders : scope' = Replaced(scope, h, Renewed(h))
    BY <1>10 DEF Heartbeat
  <2>2. call' = call /\ lease' = lease /\ told' = told
    BY <1>10 DEF Heartbeat
  <2>3. /\ Renewed(h).id = h.id
        /\ Renewed(h).refs = h.refs
        /\ Renewed(h).handlers = h.handlers
    BY <1>0, <2>1 DEF Renewed, Scope, Lease
  <2>4. scope'.holders = (scope.holders \ {h}) \cup {Renewed(h)} /\ scope'.queue = scope.queue
    BY <1>0, <2>1 DEF Replaced, Scope
  <2>5. \A f, g \in scope'.holders : f.id = g.id => f = g
    BY <1>0, <2>3, <2>4 DEF Known
  <2>6. Known(scope', call, lease, told)
    BY <1>0, <2>3, <2>4, <2>5, TimersKnown
  <2> QED BY <2>2, <2>6
<1>11. CASE Tick
  BY <1>0, <1>11, TickKnown DEF Tick
<1>12. CASE UNCHANGED vars
  BY <1>0, <1>12 DEF vars
<1>13. CASE Next
  <2>1. CASE \E r \in Request, o \in Owner, m \in Modes, ttl \in Ttl, auto \in Renewals :
               \E a \in AncestorLists[o] : Acquire(r, o, a, m, ttl, auto)
    BY <1>1, <1>2, <1>3, <1>a, <2>1 DEF Acquire
  <2>2. CASE \E r \in Request : AbortBefore(r) \/ AbortWaiting(r) \/ Release(r)
    BY <1>4, <1>5, <1>6, <1>7, <1>8, <1>a, <2>2 DEF Release
  <2>3. CASE (\E o \in Owner : Revoke(o)) \/ Expire
    BY <1>9, <1>a, <2>3 DEF Revoke, Expire
  <2> QED BY <1>10, <1>11, <1>13, <1>a, <2>1, <2>2, <2>3 DEF Next
<1> QED BY <1>12, <1>13, <1>a

(* A lease is counted exactly: it ends with its last handle and not        *)
(* before, and no handle loses its lease without having been told.         *)
THEOREM EveryHandleCounts == Spec => []HandlesAreKnown
<1>1. KInv => HandlesAreKnown
  <2> SUFFICES ASSUME KInv PROVE HandlesAreKnown
    OBVIOUS
  <2>1. \A h : LiveHandles(h) = LiveOf(call, lease, h.id)
    BY DEF LiveHandles, LiveOf
  <2>2. \A h \in scope.holders : h.refs = Cardinality(LiveHandles(h))
    BY <2>1 DEF KInv, Known
  <2>3. \A r \in Request : call[r] = "held" /\ Current(r) = {} => r \in told
    BY DEF KInv, Known, Current
  <2> QED BY <2>2, <2>3 DEF HandlesAreKnown
<1> QED BY InitKInv, NextKInv, <1>1, PTL DEF Spec

-----------------------------------------------------------------------------
(* The order of the grants *)

(* What drain() grants, it grants to waiters of the queue, and to all that *)
(* stand before the last of them.                                          *)
LEMMA DrainInOrder ==
  ASSUME NEW sc \in Scope, NEW c,
         NEW h \in Drained(sc).holders, h \notin sc.holders
  PROVE  \E k \in 1..Len(sc.queue) :
           /\ h.id = sc.queue[k].id
           /\ \A i \in 1..k : Settled(sc, c)[sc.queue[i].id] = "held"
<1> DEFINE n == DrainCount(sc)
<1>1. n \in 0..Len(sc.queue) /\ \E k \in 1..n : h = LeaseFor(sc.queue[k])
  BY DrainedParts
<1>2. PICK k \in 1..n : h = LeaseFor(sc.queue[k])
  BY <1>1
<1>3. \A i \in 1..Len(sc.queue) : sc.queue[i].id \in Request
  BY ScopeIds
<1>4. Len(sc.queue) \in Nat
  BY ScopeIds
<1>5. k \in 1..Len(sc.queue) /\ \A i \in 1..k : i \in 1..n /\ i \in 1..Len(sc.queue)
  BY <1>1, <1>4
<1>6. ASSUME NEW i \in 1..k PROVE Settled(sc, c)[sc.queue[i].id] = "held"
  <2>1. sc.queue[i] \in Granted(sc) /\ sc.queue[i].id \in Request
    BY <1>3, <1>5 DEF Granted
  <2> QED BY <2>1 DEF Settled
<1>7. h.id = sc.queue[k].id
  BY <1>2 DEF LeaseFor
<1> QED BY <1>5, <1>6, <1>7

(* No step lets a call past one that came before it.                       *)
LEMMA StepInOrder ==
  ASSUME IInv, Next, NEW g \in scope'.holders, \A h \in scope.holders : h.id # g.id,
         NEW i \in 1..Len(scope.queue), CameBefore(i, g.id)
  PROVE  call'[scope.queue[i].id] # "queued"
<1>0. /\ scope \in Scope /\ call \in [Request -> CallStates]
      /\ Len(scope.queue) \in Nat
      /\ \A j \in 1..Len(scope.queue) : scope.queue[j].id \in Request
  BY ScopeIds DEF IInv, TypeOK
<1>1. ASSUME \A f \in scope'.holders : \E h \in scope.holders : h.id = f.id
      PROVE  FALSE
  BY <1>1
<1>2. ASSUME NEW h \in scope.holders, NEW f, f.id = h.id,
             scope' = Replaced(scope, h, f)
      PROVE  FALSE
  BY <1>2 DEF Replaced, Scope
<1>3. ASSUME NEW sc \in Scope, NEW c, sc.queue = scope.queue,
             sc.holders \subseteq scope.holders,
             scope' = Drained(sc), call' = Settled(sc, c)
      PROVE  call'[scope.queue[i].id] # "queued"
  <2>1. PICK k \in 1..Len(sc.queue) :
          /\ g.id = sc.queue[k].id
          /\ \A j \in 1..k : Settled(sc, c)[sc.queue[j].id] = "held"
    BY <1>3, DrainInOrder
  <2>2. i < k
    BY <1>3, <2>1 DEF CameBefore
  <2> QED BY <1>3, <2>1, <2>2
<1>4. ASSUME NEW r \in Request, NEW o \in Owner, NEW m \in Modes,
             NEW ttl \in Ttl, NEW auto \in Renewals, Reenter(r, o, m, ttl, auto)
      PROVE  FALSE
  <2>1. PICK h \in Reentrant(scope, o, m) :
          scope' = Replaced(scope, h, Joined(h, r, ttl, auto))
    BY <1>4 DEF Reenter
  <2>2. h \in scope.holders /\ h \in Lease
    BY <1>0 DEF Reentrant, Writers, Readers, Scope
  <2> QED BY <1>2, <2>1, <2>2, RenewalAssumption, JoinedHandles
<1>5. ASSUME NEW r \in Request, NEW o \in Owner, NEW a \in AncestorLists[o],
             NEW m \in Modes, NEW ttl \in Ttl, NEW auto \in Renewals,
             Enqueue(r, o, a, m, ttl, auto)
      PROVE  call'[scope.queue[i].id] # "queued"
  <2> DEFINE w  == [id |-> r, owner |-> o, ancestors |-> a, mode |-> m,
                    ttl |-> ttl, auto |-> auto]
             sc == Pushed(scope, w)
             c  == [call EXCEPT ![r] = "queued"]
  <2>1. w \in Waiter
    BY OwnerAssumption, RenewalAssumption DEF Waiter
  <2>2. scope' = Drained(sc) /\ call' = Settled(sc, c)
    BY <1>5 DEF Enqueue
  <2> HIDE DEF w, c
  <2>3. /\ sc \in Scope /\ sc.holders = scope.holders
        /\ Len(sc.queue) = Len(scope.queue) + 1
        /\ \A j \in 1..Len(scope.queue) : sc.queue[j] = scope.queue[j]
    <3>1. scope.queue \in Seq(Waiter)
      BY ScopeIds, <1>0
    <3>2. sc.holders = scope.holders /\ sc.queue = Append(scope.queue, w)
      BY <1>0 DEF Pushed, Scope
    <3>3. sc \in Scope
      BY <1>0, <2>1, PushedScope
    <3> HIDE DEF sc
    <3> QED BY <2>1, <3>1, <3>2, <3>3, AppendProperties
  <2> HIDE DEF sc
  <2>4. PICK k \in 1..Len(sc.queue) :
          /\ g.id = sc.queue[k].id
          /\ \A j \in 1..k : Settled(sc, c)[sc.queue[j].id] = "held"
    BY <2>2, <2>3, DrainInOrder
  <2>5. i < k
    BY <1>0, <2>3, <2>4 DEF CameBefore
  <2> QED BY <2>2, <2>3, <2>4, <2>5
<1>6. ASSUME NEW r \in Request, AbortWaiting(r)
      PROVE  call'[scope.queue[i].id] # "queued"
  <2> DEFINE c == [call EXCEPT ![r] = "aborted"]
  <2>1. PICK p \in 1..Len(scope.queue) :
          /\ scope.queue[p].id = r
          /\ scope' = Drained(Withdrawn(scope, p))
          /\ call' = Settled(Withdrawn(scope, p), c)
    BY <1>6 DEF AbortWaiting
  <2> DEFINE sc == Withdrawn(scope, p)
             at(j) == IF j < p THEN j ELSE j + 1
  <2>2. /\ sc \in Scope /\ sc.holders = scope.holders
        /\ Len(sc.queue) = Len(scope.queue) - 1
        /\ \A j \in 1..Len(sc.queue) : sc.queue[j] = scope.queue[at(j)]
    BY <1>0, WithdrawnParts
  <2>3. c[r] = "aborted"
    BY <1>0
  <2>4. scope' = Drained(sc) /\ call' = Settled(sc, c)
    BY <2>1
  <2> HIDE DEF sc, c
  <2>5. PICK k \in 1..Len(sc.queue) :
          /\ g.id = sc.queue[k].id
          /\ \A j \in 1..k : Settled(sc, c)[sc.queue[j].id] = "held"
    BY <2>2, <2>4, DrainInOrder
  <2>6. CASE i = p
    BY <2>1, <2>3, <2>4, <2>6 DEF Settled
  <2>7. CASE i # p
    <3>1. at(k) \in 1..Len(scope.queue) /\ g.id = scope.queue[at(k)].id
      BY <1>0, <2>2, <2>5
    <3>2. i < at(k)
      BY <3>1 DEF CameBefore
    <3>3. \E j \in 1..k : at(j) = i
      <4>1. CASE i < p
        BY <1>0, <2>2, <3>2, <4>1
      <4>2. CASE i > p
        <5>1. i - 1 \in 1..k /\ at(i - 1) = i
          BY <1>0, <2>2, <3>2, <4>2
        <5> QED BY <5>1
      <4> QED BY <2>7, <4>1, <4>2
    <3>4. PICK j \in 1..k : at(j) = i
      BY <3>3
    <3>5. sc.queue[j] = scope.queue[i]
      BY <1>0, <2>2, <3>4
    <3> QED BY <2>4, <2>5, <3>4, <3>5
  <2> QED BY <2>6, <2>7
<1>7. ASSUME NEW r \in Request, ReleaseShared(r) PROVE FALSE
  <2>1. PICK h \in scope.holders : scope' = Replaced(scope, h, Dereferenced(h, r))
    BY <1>7 DEF ReleaseShared, Current
  <2>2. Dereferenced(h, r).id = h.id
    BY <1>0, <2>1 DEF Dereferenced, Scope, Lease
  <2> QED BY <1>2, <2>1, <2>2
<1>8. ASSUME NEW h \in scope.holders, NEW c,
             scope' = Drained(Removed(scope, h)),
             call' = Settled(Removed(scope, h), c)
      PROVE  call'[scope.queue[i].id] # "queued"
  <2>1. /\ Removed(scope, h) \in Scope
        /\ Removed(scope, h).queue = scope.queue
        /\ Removed(scope, h).holders \subseteq scope.holders
    BY <1>0, RemovedScope DEF Removed, Scope
  <2> QED BY <1>3, <1>8, <2>1
<1>9. CASE Heartbeat
  <2>1. PICK h \in scope.holders : scope' = Replaced(scope, h, Renewed(h))
    BY <1>9 DEF Heartbeat
  <2>2. Renewed(h).id = h.id
    BY <1>0, <2>1 DEF Renewed, Scope, Lease
  <2> QED BY <1>2, <2>1, <2>2
<1>10. CASE Tick
  <2>1. scope'.holders = {Aged(h) : h \in scope.holders}
    BY <1>0, <1>10 DEF Tick, Scope
  <2>2. \A h \in scope.holders : Aged(h).id = h.id
    BY <1>0 DEF Aged, Scope, Lease
  <2> QED BY <1>1, <2>1, <2>2
<1>11. CASE scope' = scope
  BY <1>1, <1>11
<1>12. CASE \E r \in Request, o \in Owner, m \in Modes, ttl \in Ttl, auto \in Renewals :
              \E a \in AncestorLists[o] : Acquire(r, o, a, m, ttl, auto)
  <2>1. CASE \E r \in Request, o \in Owner, m \in Modes :
               \E a \in AncestorLists[o] : Refuse(r, o, a, m)
    BY <1>11, <2>1 DEF Refuse
  <2> QED BY <1>4, <1>5, <1>12, <2>1 DEF Acquire
<1>13. CASE \E r \in Request : AbortBefore(r) \/ AbortWaiting(r) \/ Release(r)
  <2>1. CASE \E r \in Request : AbortBefore(r) \/ ReleaseStale(r)
    BY <1>11, <2>1 DEF AbortBefore, ReleaseStale
  <2>2. CASE \E r \in Request : ReleaseLast(r)
    BY <1>8, <2>2 DEF ReleaseLast, Current
  <2> QED BY <1>6, <1>7, <1>13, <2>1, <2>2 DEF Release
<1>14. CASE (\E o \in Owner : Revoke(o)) \/ Expire
  BY <1>8, <1>14 DEF Revoke, Expire, Lose
<1> QED BY <1>9, <1>10, <1>12, <1>13, <1>14 DEF Next

(* First come, first served, whoever expires, aborts or is revoked         *)
(* meanwhile: every grant is to a call with nobody left waiting before it. *)
THEOREM FirstComeFirstServed == Spec => GrantsInOrder
<1>1. IInv /\ [Next]_vars =>
        [\A r \in NewLeases :
           \A i \in 1..Len(scope.queue) :
             CameBefore(i, r) => call'[scope.queue[i].id] # "queued"]_vars
  <2> SUFFICES ASSUME IInv, Next, NEW r \in NewLeases,
                      NEW i \in 1..Len(scope.queue), CameBefore(i, r)
               PROVE  call'[scope.queue[i].id] # "queued"
    OBVIOUS
  <2>1. PICK g \in scope'.holders : g.id = r /\ \A h \in scope.holders : h.id # r
    BY DEF NewLeases
  <2> QED BY <2>1, StepInOrder
<1> QED BY InitIInv, NextIInv, <1>1, PTL DEF Spec, GrantsInOrder

=============================================================================
