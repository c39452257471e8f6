--------------------- MODULE WorkspaceLeaseSessionProofs ---------------------
(***************************************************************************)
(* Proofs about lease sessions for every set of children and root runs:    *)
(* the first part is about what a change of the scope leaves to each       *)
(* request, the second about the behaviours of WorkspaceLeaseSession.      *)
(***************************************************************************)
EXTENDS WorkspaceLeaseSession, WorkspaceScopeProofs, FiniteSetTheorems

-----------------------------------------------------------------------------
(* How a request stands in a scope *)

LeasesOf(sc, r) == {h \in sc.holders : r \in h.handlers}
QueuedOf(sc, r) == {i \in 1..Len(sc.queue) : sc.queue[i].id = r}

(* The modes r holds leases in, and waits for leases in.                   *)
Held(sc, r) == {h.mode : h \in LeasesOf(sc, r)}
Asks(sc, r) == {sc.queue[i].mode : i \in QueuedOf(sc, r)}

Absent(sc, r) == Held(sc, r) = {} /\ Asks(sc, r) = {}
Writes(sc, r) == Held(sc, r) \cup Asks(sc, r) \subseteq {"write"}

(* A request is in one place.                                              *)
Once(sc) ==
  \A r \in Request :
    /\ \A g, h \in LeasesOf(sc, r) : g = h
    /\ \A i, j \in QueuedOf(sc, r) : i = j
    /\ LeasesOf(sc, r) = {} \/ QueuedOf(sc, r) = {}

(* A lease counts the requests that share it, which are of one owner.      *)
Counted(h) ==
  /\ h.handlers # {} /\ IsFiniteSet(h.handlers)
  /\ h.refs = Cardinality(h.handlers)
  /\ \A r \in h.handlers : r[1] = h.owner

Shared(sc) ==
  /\ \A h \in sc.holders : Counted(h)
  /\ \A i \in 1..Len(sc.queue) : sc.queue[i].id[1] = sc.queue[i].owner

Sound(sc) == sc \in Scope /\ Exclusive(sc) /\ Once(sc) /\ Shared(sc)

(* Nobody waits for a workspace that is free.                              *)
AtRest(sc) == Sound(sc) /\ (sc.queue # << >> => sc.holders # {})

(* What a change of the scope from sc to d by others leaves to r: it may   *)
(* grant r what r waits for, and nothing else.                             *)
Same(sc, d, r) == Held(d, r) = Held(sc, r) /\ Asks(d, r) = Asks(sc, r)
Gets(sc, d, r) ==
  Held(sc, r) = {} /\ Held(d, r) = Asks(sc, r) /\ Asks(d, r) = {}
Keeps(sc, d, r) == Same(sc, d, r) \/ Gets(sc, d, r)

-----------------------------------------------------------------------------
(* The inductive invariant *)

(* The one request of a child.                                             *)
Own(c) == <<c, 1>>

(* A run that is over is between its calls, but for bodies that write on.  *)
FateOK(o) ==
  /\ phase[o] = "ended" => fate[o] # "live"
  /\ fate[o] # "live" => phase[o] \in {"writing", "ended"}
  /\ fate[o] = "finished" => phase[o] = "ended"
  /\ ghost[o] # "none" => o \in gaveUp
  /\ phase[o] \in {"new", "admitting"} => o \notin gaveUp

(* When c waits, and for what: only an admission waits for a read lease,   *)
(* and only a call that was given up leaves a request to a run that goes   *)
(* on or has finished.                                                     *)
AsksOK(c) ==
  /\ phase[c] = "new" => Absent(scope, Own(c))
  /\ ~Pending(c) /\ phase[c] # "admitting" /\ fate[c] = "live" =>
       Asks(scope, Own(c)) = {}
  /\ Pending(c) =>
       /\ Writes(scope, Own(c))
       /\ phase[c] \notin {"new", "admitting"}
       /\ phase[c] = "waiting" \/ c \in gaveUp
       /\ fate[c] # "cancelled"
  /\ fate[c] = "cancelled" => Absent(scope, Own(c))
  /\ fate[c] = "finished" =>
       \/ Absent(scope, Own(c))
       \/ c \in gaveUp /\ Writes(scope, Own(c))

(* The session holds its write lease (HoldsWrite, seen from the request).  *)
WriteHeld(c) == ~Pending(c) /\ "write" \in Held(scope, Own(c))

(* What c does under a lease, it holds.                                    *)
HoldsOK(c) ==
  /\ fate[c] = "live" /\ Mutates(c) => WriteHeld(c)
  /\ phase[c] = "reading" /\ guarded[c] => Held(scope, Own(c)) # {}

(* When others wrote since c looked, its epoch is behind, or it knows that *)
(* it has to reread.                                                       *)
LooksOK(c) ==
  /\ observed[c] <= epoch
  /\ Pending(c) => from[c] <= epoch
  /\ fate[c] = "live" /\ guarded[c] /\ stale[c] =>
       /\ phase[c] # "reading" /\ ~Mutates(c)
       /\ phase[c] \in {"running", "waiting"} =>
            \/ Pending(c) /\ from[c] < epoch
            \/ ~Pending(c) /\ WriteHeld(c) /\ reval[c]
            \/ ~Pending(c) /\ ~WriteHeld(c) /\ observed[c] < epoch

ChildOK(c) == FateOK(c) /\ AsksOK(c) /\ HoldsOK(c) /\ LooksOK(c)

(* A call of a root run that waits or writes stands in the scope for a     *)
(* write lease; a call that does neither does not stand there.             *)
Stands(sc, r, s) ==
  CASE s = "waiting" -> \/ Held(sc, r) = {} /\ Asks(sc, r) = {"write"}
                        \/ Held(sc, r) = {"write"} /\ Asks(sc, r) = {}
    [] s = "writing" -> Held(sc, r) = {"write"} /\ Asks(sc, r) = {}
    [] OTHER -> Absent(sc, r)

RootOK(w) ==
  /\ FateOK(w)
  /\ phase[w] \in {"running", "waiting", "writing", "ended"}
  /\ fate[w] # "live" => ghost[w] # "waiting"
  /\ Stands(scope, CallOf(w), phase[w])
  /\ IF w \in gaveUp THEN Stands(scope, GhostOf(w), ghost[w])
                     ELSE Absent(scope, <<w, 2>>)

IInv ==
  /\ TypeOK
  /\ AtRest(scope)
  /\ \A c \in Child : ChildOK(c)
  /\ \A w \in Root : RootOK(w)

-----------------------------------------------------------------------------
(* Changes of a scope *)

(* No change keeps everything.                                             *)
LEMMA KeepsSame ==
  ASSUME NEW sc, NEW r
  PROVE  Keeps(sc, sc, r)
BY DEF Keeps, Same

LEMMA KeepsTwice ==
  ASSUME NEW sc, NEW d, NEW e, NEW r, Keeps(sc, d, r), Keeps(d, e, r)
  PROVE  Keeps(sc, e, r)
BY DEF Keeps, Same, Gets

(* The same leases and the same waiters are the same standing.             *)
LEMMA SameParts ==
  ASSUME NEW sc, NEW d, NEW r,
         LeasesOf(d, r) = LeasesOf(sc, r),
         QueuedOf(d, r) = QueuedOf(sc, r),
         \A i \in QueuedOf(sc, r) : d.queue[i] = sc.queue[i]
  PROVE  Same(sc, d, r)
BY DEF Same, Held, Asks

(* A request holds or waits only for what some lease or waiter says.       *)
LEMMA EmptyParts ==
  ASSUME NEW sc, NEW r
  PROVE  /\ Held(sc, r) = {} <=> LeasesOf(sc, r) = {}
         /\ Asks(sc, r) = {} <=> QueuedOf(sc, r) = {}
BY DEF Held, Asks

(* drain() turns waiters into holders of the same request and mode.  It    *)
(* grants no write lease beside a holder.                                  *)
LEMMA DrainKeeps ==
  ASSUME NEW sc, Sound(sc)
  PROVE  /\ AtRest(Drained(sc))
         /\ \A r \in Request : Keeps(sc, Drained(sc), r)
         /\ sc.holders # {} =>
              \A r \in Request : Asks(sc, r) \subseteq {"write"} =>
                                   Same(sc, Drained(sc), r)
<1> DEFINE d == Drained(sc)
           n == DrainCount(sc)
<1>1. /\ sc \in Scope /\ Exclusive(sc) /\ Once(sc) /\ Shared(sc)
      /\ sc.queue \in Seq(Waiter) /\ Len(sc.queue) \in Nat
  BY LenProperties DEF Sound, Scope
<1>2. /\ n \in 0..Len(sc.queue)
      /\ d \in Scope
      /\ Len(d.queue) = Len(sc.queue) - n
      /\ \A i \in 1..(Len(sc.queue) - n) : d.queue[i] = sc.queue[i + n]
      /\ \A h \in d.holders :
           h \in sc.holders \/ \E i \in 1..n : h = LeaseFor(sc.queue[i])
      /\ sc.holders \subseteq d.holders
      /\ \A i \in 1..n : LeaseFor(sc.queue[i]) \in d.holders
  BY <1>1, DrainedParts
<1>3. ASSUME NEW i \in 1..Len(sc.queue)
      PROVE  /\ sc.queue[i] \in Waiter
             /\ LeaseFor(sc.queue[i]).handlers = {sc.queue[i].id}
             /\ LeaseFor(sc.queue[i]).owner = sc.queue[i].owner
             /\ LeaseFor(sc.queue[i]).mode = sc.queue[i].mode
             /\ LeaseFor(sc.queue[i]).refs = 1
  BY <1>1, ElementOfSeq DEF LeaseFor
<1>4. Exclusive(d)
  BY <1>1, DrainKeepsExclusive
<1>5. d.queue # << >> => d.holders # {}
  BY <1>1, DrainBlocksHead DEF HeadBlocked, Writers
<1>6. sc.holders # {} => \A i \in 1..n : sc.queue[i].mode = "read"
  BY <1>1, DrainCases DEF WriterIsNext, IsReadPrefix
<1> HIDE DEF d, n
<1>7. ASSUME NEW r \in Request, NEW i \in 1..n, sc.queue[i].id = r
      PROVE  /\ Gets(sc, d, r)
             /\ LeasesOf(d, r) = {LeaseFor(sc.queue[i])} /\ QueuedOf(d, r) = {}
             /\ sc.queue[i].mode \in Asks(sc, r)
  <2>1. i \in 1..Len(sc.queue) /\ i \in QueuedOf(sc, r)
    BY <1>1, <1>2, <1>7 DEF QueuedOf
  <2>2. LeasesOf(sc, r) = {} /\ \A j \in QueuedOf(sc, r) : j = i
    BY <1>1, <2>1 DEF Once
  <2>3. ASSUME NEW h \in LeasesOf(d, r) PROVE h = LeaseFor(sc.queue[i])
    <3>1. PICK j \in 1..n : h = LeaseFor(sc.queue[j])
      BY <1>2, <2>2, <2>3 DEF LeasesOf
    <3>2. j \in 1..Len(sc.queue)
      BY <1>1, <1>2
    <3>3. sc.queue[j].id = r
      BY <1>3, <2>3, <3>1, <3>2 DEF LeasesOf
    <3> QED BY <2>2, <3>1, <3>2, <3>3 DEF QueuedOf
  <2>4. LeasesOf(d, r) = {LeaseFor(sc.queue[i])}
    BY <1>2, <1>3, <1>7, <2>1, <2>3 DEF LeasesOf
  <2>5. ASSUME NEW j \in QueuedOf(d, r) PROVE FALSE
    <3>1. j \in 1..(Len(sc.queue) - n) /\ d.queue[j] = sc.queue[j + n]
      BY <1>2, <2>5 DEF QueuedOf
    <3>2. j + n \in QueuedOf(sc, r)
      BY <1>1, <1>2, <2>5, <3>1 DEF QueuedOf
    <3> QED BY <1>1, <1>2, <2>2, <3>1, <3>2
  <2>6. Asks(sc, r) = {sc.queue[i].mode}
    BY <2>1, <2>2 DEF Asks
  <2>7. Held(d, r) = {sc.queue[i].mode}
    BY <1>3, <2>1, <2>4 DEF Held
  <2> QED BY <2>2, <2>4, <2>5, <2>6, <2>7, EmptyParts DEF Gets
<1>8. ASSUME NEW r \in Request, \A i \in 1..n : sc.queue[i].id # r
      PROVE  /\ Same(sc, d, r)
             /\ LeasesOf(d, r) = LeasesOf(sc, r)
             /\ \A j \in QueuedOf(d, r) : j \in Nat /\ j + n \in QueuedOf(sc, r)
  <2>1. LeasesOf(d, r) = LeasesOf(sc, r)
    <3>1. \A i \in 1..n : i \in 1..Len(sc.queue)
      BY <1>1, <1>2
    <3>2. \A i \in 1..n : r \notin LeaseFor(sc.queue[i]).handlers
      BY <1>3, <1>8, <3>1
    <3> QED BY <1>2, <3>2 DEF LeasesOf
  <2>2. ASSUME NEW j \in QueuedOf(d, r)
        PROVE  j \in Nat /\ j + n \in QueuedOf(sc, r) /\ d.queue[j] = sc.queue[j + n]
    <3>1. j \in 1..(Len(sc.queue) - n) /\ d.queue[j] = sc.queue[j + n]
      BY <1>2, <2>2 DEF QueuedOf
    <3>2. j \in Nat /\ j + n \in 1..Len(sc.queue)
      BY <1>1, <1>2, <3>1
    <3>3. d.queue[j].id = r
      BY <2>2 DEF QueuedOf
    <3> QED BY <3>1, <3>2, <3>3 DEF QueuedOf
  <2>3. ASSUME NEW i \in QueuedOf(sc, r)
        PROVE  i - n \in QueuedOf(d, r) /\ d.queue[i - n] = sc.queue[i]
    <3>1. i \in 1..Len(sc.queue) /\ ~ (i \in 1..n)
      BY <1>8, <2>3 DEF QueuedOf
    <3>2. i - n \in 1..(Len(sc.queue) - n) /\ (i - n) + n = i
      BY <1>1, <1>2, <3>1
    <3> QED BY <1>2, <2>3, <3>2 DEF QueuedOf
  <2>4. Asks(d, r) = Asks(sc, r)
    BY <2>2, <2>3 DEF Asks
  <2> QED BY <2>1, <2>2, <2>4 DEF Same, Held
<1>9. \A r \in Request : Keeps(sc, d, r)
  BY <1>7, <1>8 DEF Keeps
<1>10. ASSUME sc.holders # {}, NEW r \in Request, Asks(sc, r) \subseteq {"write"}
       PROVE  Same(sc, d, r)
  BY <1>6, <1>7, <1>8, <1>10
<1>11. Once(d)
  <2> SUFFICES ASSUME NEW r \in Request
               PROVE  /\ \A g, h \in LeasesOf(d, r) : g = h
                      /\ \A i, j \in QueuedOf(d, r) : i = j
                      /\ LeasesOf(d, r) = {} \/ QueuedOf(d, r) = {}
    BY DEF Once
  <2>1. /\ \A g, h \in LeasesOf(sc, r) : g = h
        /\ \A i, j \in QueuedOf(sc, r) : i = j
        /\ LeasesOf(sc, r) = {} \/ QueuedOf(sc, r) = {}
    BY <1>1 DEF Once
  <2>2. CASE \E i \in 1..n : sc.queue[i].id = r
    BY <1>7, <2>2
  <2>3. CASE \A i \in 1..n : sc.queue[i].id # r
    <3>1. /\ LeasesOf(d, r) = LeasesOf(sc, r)
          /\ \A j \in QueuedOf(d, r) : j \in Nat /\ j + n \in QueuedOf(sc, r)
      BY <1>8, <2>3
    <3>2. ASSUME NEW i \in QueuedOf(d, r), NEW j \in QueuedOf(d, r) PROVE i = j
      <4>1. i + n = j + n /\ i \in Nat /\ j \in Nat
        BY <2>1, <3>1
      <4> QED BY <1>2, <4>1
    <3> QED BY <2>1, <3>1, <3>2
  <2> QED BY <2>2, <2>3
<1>12. Shared(d)
  <2>1. ASSUME NEW h \in d.holders PROVE Counted(h)
    <3>1. CASE h \in sc.holders
      BY <1>1, <3>1 DEF Shared
    <3>2. CASE \E i \in 1..n : h = LeaseFor(sc.queue[i])
      <4>1. PICK i \in 1..n : h = LeaseFor(sc.queue[i])
        BY <3>2
      <4>2. i \in 1..Len(sc.queue)
        BY <1>1, <1>2
      <4>3. /\ h.handlers = {sc.queue[i].id} /\ h.refs = 1
            /\ sc.queue[i].id[1] = h.owner
        BY <1>1, <1>3, <4>1, <4>2 DEF Shared
      <4> QED BY <4>3, FS_Singleton DEF Counted
    <3> QED BY <1>2, <3>1, <3>2
  <2>2. ASSUME NEW j \in 1..Len(d.queue) PROVE d.queue[j].id[1] = d.queue[j].owner
    <3>1. j + n \in 1..Len(sc.queue) /\ d.queue[j] = sc.queue[j + n]
      BY <1>1, <1>2
    <3> QED BY <1>1, <3>1 DEF Shared
  <2> QED BY <2>1, <2>2 DEF Shared
<1> QED BY <1>2, <1>4, <1>5, <1>9, <1>10, <1>11, <1>12 DEF AtRest, Sound, d

(* A request goes to the end of the queue.                                 *)
LEMMA PushKeeps ==
  ASSUME NEW sc, Sound(sc), NEW w \in Waiter, w.id[1] = w.owner, Absent(sc, w.id)
  PROVE  /\ Sound(Pushed(sc, w))
         /\ \A r \in Request \ {w.id} : Keeps(sc, Pushed(sc, w), r)
         /\ Held(Pushed(sc, w), w.id) = {}
         /\ Asks(Pushed(sc, w), w.id) = {w.mode}
<1> DEFINE d == Pushed(sc, w)
<1>1. /\ sc \in Scope /\ Exclusive(sc) /\ Once(sc) /\ Shared(sc)
      /\ sc.queue \in Seq(Waiter) /\ Len(sc.queue) \in Nat
  BY LenProperties DEF Sound, Scope
<1>2. /\ d \in Scope /\ Exclusive(d)
      /\ d.holders = sc.holders /\ d.queue = Append(sc.queue, w)
  BY <1>1, PushedScope DEF Pushed, Scope
<1>3. /\ Len(d.queue) = Len(sc.queue) + 1
      /\ \A i \in 1..Len(sc.queue) : d.queue[i] = sc.queue[i]
      /\ d.queue[Len(sc.queue) + 1] = w
  BY <1>1, <1>2, AppendProperties
<1> HIDE DEF d
<1>4. \A r : LeasesOf(d, r) = LeasesOf(sc, r)
  BY <1>2 DEF LeasesOf
<1>5. ASSUME NEW r, r # w.id
      PROVE  /\ QueuedOf(d, r) = QueuedOf(sc, r)
             /\ \A i \in QueuedOf(sc, r) : d.queue[i] = sc.queue[i]
  <2>1. QueuedOf(d, r) \subseteq 1..Len(sc.queue)
    BY <1>1, <1>3, <1>5 DEF QueuedOf
  <2>2. 1..Len(sc.queue) \subseteq 1..Len(d.queue)
    BY <1>1, <1>3
  <2> QED BY <1>3, <2>1, <2>2 DEF QueuedOf
<1>6. /\ LeasesOf(d, w.id) = {}
      /\ QueuedOf(d, w.id) = {Len(sc.queue) + 1}
  <2>1. \A i \in 1..Len(d.queue) : i \in 1..Len(sc.queue) \/ i = Len(sc.queue) + 1
    BY <1>1, <1>3
  <2>2. QueuedOf(sc, w.id) = {} /\ LeasesOf(sc, w.id) = {}
    BY EmptyParts DEF Absent
  <2>3. Len(sc.queue) + 1 \in QueuedOf(d, w.id)
    BY <1>1, <1>3 DEF QueuedOf
  <2>4. \A i \in QueuedOf(d, w.id) : i = Len(sc.queue) + 1
    BY <1>3, <2>1, <2>2 DEF QueuedOf
  <2> QED BY <1>4, <2>2, <2>3, <2>4
<1>7. Once(d)
  <2> SUFFICES ASSUME NEW r \in Request
               PROVE  /\ \A g, h \in LeasesOf(d, r) : g = h
                      /\ \A i, j \in QueuedOf(d, r) : i = j
                      /\ LeasesOf(d, r) = {} \/ QueuedOf(d, r) = {}
    BY DEF Once
  <2>1. CASE r = w.id
    BY <1>6, <2>1
  <2>2. CASE r # w.id
    BY <1>1, <1>4, <1>5, <2>2 DEF Once
  <2> QED BY <2>1, <2>2
<1>8. \A r \in Request \ {w.id} : Keeps(sc, d, r)
  BY <1>4, <1>5, SameParts DEF Keeps
<1>9. Held(d, w.id) = {} /\ Asks(d, w.id) = {w.mode}
  BY <1>3, <1>6 DEF Held, Asks
<1>10. Shared(d)
  <2>1. \A i \in 1..Len(d.queue) : i \in 1..Len(sc.queue) \/ i = Len(sc.queue) + 1
    BY <1>1, <1>3
  <2> QED BY <1>1, <1>2, <1>3, <2>1 DEF Shared
<1> QED BY <1>2, <1>7, <1>8, <1>9, <1>10 DEF Sound, d

(* A waiter that leaves the queue leaves nothing of its request there.     *)
LEMMA WithdrawKeeps ==
  ASSUME NEW sc, Sound(sc), NEW r \in Request, NEW k \in QueuedOf(sc, r)
  PROVE  /\ Sound(Withdrawn(sc, k))
         /\ Withdrawn(sc, k).holders = sc.holders
         /\ \A x \in Request \ {r} : Same(sc, Withdrawn(sc, k), x)
         /\ Absent(Withdrawn(sc, k), r)
<1> DEFINE d == Withdrawn(sc, k)
           at(i) == IF i < k THEN i ELSE i + 1
           to(i) == IF i < k THEN i ELSE i - 1
<1>1. /\ sc \in Scope /\ Exclusive(sc) /\ Once(sc) /\ Shared(sc)
      /\ Len(sc.queue) \in Nat /\ k \in 1..Len(sc.queue)
      /\ sc.queue[k].id = r
  BY LenProperties DEF Sound, Scope, QueuedOf
<1>2. /\ d \in Scope /\ Exclusive(d)
      /\ d.holders = sc.holders
      /\ Len(d.queue) = Len(sc.queue) - 1
      /\ \A i \in 1..(Len(sc.queue) - 1) : d.queue[i] = sc.queue[at(i)]
  <2>1. d \in Scope /\ Exclusive(d)
    BY <1>1, WithdrawnScope
  <2>2. /\ d.holders = sc.holders
        /\ Len(d.queue) = Len(sc.queue) - 1
        /\ \A i \in 1..(Len(sc.queue) - 1) : d.queue[i] = sc.queue[at(i)]
    BY <1>1, WithdrawnParts
  <2> QED BY <2>1, <2>2
<1> HIDE DEF d
<1>3. \A x : LeasesOf(d, x) = LeasesOf(sc, x)
  BY <1>2 DEF LeasesOf
<1>4. ASSUME NEW i \in 1..Len(d.queue)
      PROVE  /\ at(i) \in 1..Len(sc.queue) /\ at(i) # k /\ i \in Nat
             /\ d.queue[i] = sc.queue[at(i)]
  <2>1. i \in 1..(Len(sc.queue) - 1) /\ i \in Nat
    BY <1>1, <1>2
  <2>2. at(i) \in 1..Len(sc.queue) /\ at(i) # k
    BY <1>1, <2>1
  <2> HIDE DEF at
  <2> QED BY <1>2, <2>1, <2>2
<1>5. \A i, j \in Nat : at(i) = at(j) => i = j
  BY <1>1
<1>6. ASSUME NEW x \in Request, x # r, NEW j \in QueuedOf(sc, x)
      PROVE  to(j) \in QueuedOf(d, x) /\ d.queue[to(j)] = sc.queue[j]
  <2>1. j \in 1..Len(sc.queue) /\ j # k /\ sc.queue[j].id = x
    BY <1>1, <1>6 DEF QueuedOf
  <2>2. to(j) \in 1..(Len(sc.queue) - 1) /\ at(to(j)) = j
    BY <1>1, <2>1
  <2> HIDE DEF at, to
  <2>3. d.queue[to(j)] = sc.queue[j]
    BY <1>2, <2>2
  <2> QED BY <1>2, <2>1, <2>2, <2>3 DEF QueuedOf
<1> HIDE DEF at, to
<1>7. ASSUME NEW x \in Request, NEW i \in QueuedOf(d, x)
      PROVE  at(i) \in QueuedOf(sc, x) /\ at(i) # k /\ i \in Nat
             /\ d.queue[i] = sc.queue[at(i)]
  BY <1>4 DEF QueuedOf
<1>8. Once(d)
  <2> SUFFICES ASSUME NEW x \in Request
               PROVE  /\ \A g, h \in LeasesOf(d, x) : g = h
                      /\ \A i, j \in QueuedOf(d, x) : i = j
                      /\ LeasesOf(d, x) = {} \/ QueuedOf(d, x) = {}
    BY DEF Once
  <2>1. /\ \A g, h \in LeasesOf(sc, x) : g = h
        /\ \A i, j \in QueuedOf(sc, x) : i = j
        /\ LeasesOf(sc, x) = {} \/ QueuedOf(sc, x) = {}
    BY <1>1 DEF Once
  <2>2. ASSUME NEW i \in QueuedOf(d, x), NEW j \in QueuedOf(d, x) PROVE i = j
    <3>1. at(i) = at(j) /\ i \in Nat /\ j \in Nat
      BY <1>7, <2>1
    <3> QED BY <1>5, <3>1
  <2> QED BY <1>3, <1>7, <2>1, <2>2
<1>9. ASSUME NEW x \in Request \ {r} PROVE Same(sc, d, x)
  <2>1. Asks(d, x) = Asks(sc, x)
    BY <1>6, <1>7 DEF Asks
  <2> QED BY <1>3, <2>1 DEF Same, Held
<1>10. Absent(d, r)
  <2>1. LeasesOf(sc, r) = {} /\ \A i \in QueuedOf(sc, r) : i = k
    BY <1>1 DEF Once
  <2> QED BY <1>3, <1>7, <2>1, EmptyParts DEF Absent
<1>11. Shared(d)
  BY <1>1, <1>2, <1>4 DEF Shared
<1> QED BY <1>2, <1>8, <1>9, <1>10, <1>11 DEF Sound, d

(* A lease that is taken away was that of its last request.                *)
LEMMA RemoveKeeps ==
  ASSUME NEW sc, Sound(sc), NEW r \in Request, NEW h \in sc.holders,
         h.handlers = {r}
  PROVE  /\ Sound(Removed(sc, h))
         /\ \A x \in Request \ {r} : Keeps(sc, Removed(sc, h), x)
         /\ Absent(Removed(sc, h), r)
<1> DEFINE d == Removed(sc, h)
<1>1. sc \in Scope /\ Once(sc) /\ Shared(sc)
  BY DEF Sound
<1>2. /\ d \in Scope /\ Exclusive(d)
      /\ d.holders = sc.holders \ {h} /\ d.queue = sc.queue
  BY RemovedScope DEF Removed, Sound, Scope
<1> HIDE DEF d
<1>3. \A x : QueuedOf(d, x) = QueuedOf(sc, x)
  BY <1>2 DEF QueuedOf
<1>4. \A x : x # r => LeasesOf(d, x) = LeasesOf(sc, x)
  BY <1>2 DEF LeasesOf
<1>5. \A x : LeasesOf(d, x) \subseteq LeasesOf(sc, x)
  BY <1>2 DEF LeasesOf
<1>6. h \in LeasesOf(sc, r)
  BY DEF LeasesOf
<1>7. LeasesOf(d, r) = {} /\ QueuedOf(d, r) = {}
  BY <1>1, <1>2, <1>3, <1>5, <1>6 DEF Once, LeasesOf
<1>8. Once(d) /\ Shared(d)
  <2>1. Once(d)
    BY <1>1, <1>3, <1>5 DEF Once
  <2>2. Shared(d)
    BY <1>1, <1>2 DEF Shared
  <2> QED BY <2>1, <2>2
<1>9. \A x \in Request \ {r} : Keeps(sc, d, x)
  BY <1>2, <1>3, <1>4, SameParts DEF Keeps
<1> QED BY <1>2, <1>7, <1>8, <1>9, EmptyParts DEF Sound, Absent, d

(* What holds of a lease that is replaced by itself with other requests.   *)
LEMMA ReplaceKeeps ==
  ASSUME NEW sc, Sound(sc), NEW h \in sc.holders, NEW g \in Lease,
         g.owner = h.owner, g.mode = h.mode, Counted(g),
         NEW r \in Request,
         \A x \in Request \ {r} : x \in g.handlers <=> x \in h.handlers,
         r \in g.handlers => Absent(sc, r)
  PROVE  /\ AtRest(Replaced(sc, h, g))
         /\ \A x \in Request \ {r} : Keeps(sc, Replaced(sc, h, g), x)
         /\ r \in g.handlers =>
              /\ Held(Replaced(sc, h, g), r) = {h.mode}
              /\ Asks(Replaced(sc, h, g), r) = {}
         /\ r \in h.handlers /\ r \notin g.handlers =>
              Absent(Replaced(sc, h, g), r)
<1> DEFINE d == Replaced(sc, h, g)
<1>1. sc \in Scope /\ Once(sc) /\ Shared(sc)
  BY DEF Sound
<1>2. /\ d \in Scope /\ Exclusive(d)
      /\ d.holders = (sc.holders \ {h}) \cup {g} /\ d.queue = sc.queue
  BY ReplacedScope DEF Replaced, Sound, Scope
<1> HIDE DEF d
<1>3. \A x : QueuedOf(d, x) = QueuedOf(sc, x) /\ Asks(d, x) = Asks(sc, x)
  BY <1>2 DEF QueuedOf, Asks
<1>4. ASSUME NEW x \in Request \ {r}
      PROVE  /\ Held(d, x) = Held(sc, x)
             /\ \A a, b \in LeasesOf(d, x) : a = b
             /\ LeasesOf(d, x) = {} <=> LeasesOf(sc, x) = {}
  <2>1. \A a, b \in LeasesOf(sc, x) : a = b
    BY <1>1 DEF Once
  <2>2. CASE x \in h.handlers
    <3>1. LeasesOf(sc, x) = {h}
      BY <2>1, <2>2 DEF LeasesOf
    <3>2. LeasesOf(d, x) = {g}
      BY <1>2, <2>2, <3>1 DEF LeasesOf
    <3> QED BY <3>1, <3>2 DEF Held
  <2>3. CASE x \notin h.handlers
    <3>1. LeasesOf(d, x) = LeasesOf(sc, x)
      BY <1>2, <2>3 DEF LeasesOf
    <3> QED BY <2>1, <3>1 DEF Held
  <2> QED BY <2>2, <2>3
<1>5. ASSUME r \in g.handlers
      PROVE  LeasesOf(d, r) = {g} /\ QueuedOf(d, r) = {}
  BY <1>2, <1>3, <1>5, EmptyParts DEF Absent, LeasesOf
<1>6. ASSUME r \notin g.handlers
      PROVE  /\ LeasesOf(d, r) \subseteq LeasesOf(sc, r)
             /\ r \in h.handlers => LeasesOf(d, r) = {} /\ QueuedOf(d, r) = {}
  <2>1. LeasesOf(d, r) \subseteq LeasesOf(sc, r) \ {h}
    BY <1>2, <1>6 DEF LeasesOf
  <2>2. ASSUME r \in h.handlers PROVE LeasesOf(sc, r) = {h} /\ QueuedOf(sc, r) = {}
    BY <1>1, <2>2 DEF Once, LeasesOf
  <2> QED BY <1>3, <2>1, <2>2
<1>7. Once(d)
  <2> SUFFICES ASSUME NEW x \in Request
               PROVE  /\ \A a, b \in LeasesOf(d, x) : a = b
                      /\ \A i, j \in QueuedOf(d, x) : i = j
                      /\ LeasesOf(d, x) = {} \/ QueuedOf(d, x) = {}
    BY DEF Once
  <2>1. /\ \A a, b \in LeasesOf(sc, x) : a = b
        /\ \A i, j \in QueuedOf(sc, x) : i = j
        /\ LeasesOf(sc, x) = {} \/ QueuedOf(sc, x) = {}
    BY <1>1 DEF Once
  <2>2. CASE x # r
    BY <1>3, <1>4, <2>1, <2>2
  <2>3. CASE x = r /\ r \in g.handlers
    BY <1>5, <2>3
  <2>4. CASE x = r /\ r \notin g.handlers
    BY <1>3, <1>6, <2>1, <2>4
  <2> QED BY <2>2, <2>3, <2>4
<1>8. Shared(d) /\ d.holders # {}
  BY <1>1, <1>2 DEF Shared
<1>9. \A x \in Request \ {r} : Keeps(sc, d, x)
  BY <1>3, <1>4 DEF Keeps, Same
<1>10. r \in g.handlers => Held(d, r) = {h.mode} /\ Asks(d, r) = {}
  BY <1>5 DEF Held, Asks
<1>11. r \in h.handlers /\ r \notin g.handlers => Absent(d, r)
  BY <1>6, EmptyParts DEF Absent
<1> QED BY <1>2, <1>7, <1>8, <1>9, <1>10, <1>11 DEF AtRest, Sound, d

-----------------------------------------------------------------------------
(* The changes of the session *)

(* Whose requests there are.                                               *)
LEMMA Requests ==
  /\ \A c \in Child : Own(c) \in Request /\ CallOf(c) = Own(c)
  /\ \A w \in Root : <<w, 1>> \in Request /\ <<w, 2>> \in Request
  /\ \A r \in Request :
       /\ r[1] \in Run
       /\ r[1] \in Child => r = Own(r[1])
       /\ r[1] \in Root => r = <<r[1], 1>> \/ r = <<r[1], 2>>
<1>1. ASSUME NEW r \in Request
      PROVE  \E o \in Run : \E k \in Calls(o) : r = <<o, k>>
  BY ScopeAssumption
<1>2. \A c \in Child : c \in Run /\ c \notin Root /\ Calls(c) = {1}
  BY RunAssumption DEF Run, Calls
<1>3. \A w \in Root : w \in Run /\ w \notin Child /\ Calls(w) = {1, 2}
  BY RunAssumption DEF Run, Calls
<1>4. ASSUME NEW o \in Run, NEW k \in Calls(o)
      PROVE  <<o, k>> \in Request
  BY ScopeAssumption
<1>5. ASSUME NEW r \in Request
      PROVE  /\ r[1] \in Run
             /\ r[1] \in Child => r = Own(r[1])
             /\ r[1] \in Root => r = <<r[1], 1>> \/ r = <<r[1], 2>>
  <2>1. PICK o \in Run : \E k \in Calls(o) : r = <<o, k>>
    BY <1>1
  <2> QED BY <1>2, <1>3, <2>1 DEF Own
<1>6. \A c \in Child : Own(c) \in Request /\ CallOf(c) = Own(c)
  BY <1>2, <1>4 DEF Own, CallOf
<1>7. \A w \in Root : <<w, 1>> \in Request /\ <<w, 2>> \in Request
  BY <1>3, <1>4
<1> QED BY <1>5, <1>6, <1>7

(* A request has a lease of its run, and a lease of a run has a request.   *)
LEMMA OwnedStand ==
  ASSUME Sound(scope)
  PROVE  /\ \A r \in Request :
              /\ \A h \in LeasesOf(scope, r) : h \in Owned(r[1])
              /\ Granting(r) <=> Held(scope, r) # {}
              /\ \A i \in QueuedOf(scope, r) : scope.queue[i].owner = r[1]
         /\ \A o, h : h \in Owned(o) =>
              \E r \in Request : r[1] = o /\ h \in LeasesOf(scope, r)
         /\ \A i \in 1..Len(scope.queue) :
              /\ scope.queue[i].id \in Request
              /\ scope.queue[i].id[1] = scope.queue[i].owner
<1>1. /\ \A h \in scope.holders : Counted(h) /\ h.handlers \subseteq Request
      /\ \A i \in 1..Len(scope.queue) :
           scope.queue[i].id[1] = scope.queue[i].owner
      /\ scope.queue \in Seq(Waiter)
  BY DEF Sound, Shared, Scope, Lease
<1>2. \A i \in 1..Len(scope.queue) : scope.queue[i].id \in Request
  <2>1. \A i \in 1..Len(scope.queue) : scope.queue[i] \in Waiter
    BY <1>1, ElementOfSeq
  <2> QED BY <2>1 DEF Waiter
<1>3. ASSUME NEW r \in Request
      PROVE  /\ \A h \in LeasesOf(scope, r) : h \in Owned(r[1])
             /\ Granting(r) <=> Held(scope, r) # {}
             /\ \A i \in QueuedOf(scope, r) : scope.queue[i].owner = r[1]
  <2>1. \A h \in LeasesOf(scope, r) : h \in Owned(r[1])
    BY <1>1 DEF LeasesOf, Owned, Counted
  <2>2. Granting(r) <=> Held(scope, r) # {}
    BY EmptyParts DEF Granting, LeasesOf
  <2>3. \A i \in QueuedOf(scope, r) : scope.queue[i].owner = r[1]
    BY <1>1 DEF QueuedOf
  <2> QED BY <2>1, <2>2, <2>3
<1>4. ASSUME NEW o, NEW h \in Owned(o)
      PROVE  \E r \in Request : r[1] = o /\ h \in LeasesOf(scope, r)
  <2>1. h \in scope.holders /\ h.owner = o
    BY DEF Owned
  <2>2. PICK r \in h.handlers : TRUE
    BY <1>1, <2>1 DEF Counted
  <2> QED BY <1>1, <2>1, <2>2 DEF Counted, LeasesOf
<1> QED BY <1>1, <1>2, <1>3, <1>4

(* What a child owns and waits for is what its one request does.           *)
LEMMA ChildStands ==
  ASSUME Sound(scope), NEW c \in Child
  PROVE  /\ Owned(c) = LeasesOf(scope, Own(c))
         /\ Owned(c) = {} <=> Held(scope, Own(c)) = {}
         /\ Waits(c) <=> Asks(scope, Own(c)) # {}
         /\ HoldsWrite(c) <=> WriteHeld(c)
<1>1. Own(c) \in Request /\ Own(c)[1] = c
  BY Requests DEF Own
<1>2. \A r \in Request : r[1] = c => r = Own(c)
  BY Requests
<1>3. Owned(c) = LeasesOf(scope, Own(c))
  <2>1. \A h \in LeasesOf(scope, Own(c)) : h \in Owned(c)
    BY <1>1, OwnedStand
  <2>2. ASSUME NEW h \in Owned(c) PROVE h \in LeasesOf(scope, Own(c))
    <3>1. PICK r \in Request : r[1] = c /\ h \in LeasesOf(scope, r)
      BY OwnedStand
    <3> QED BY <1>2, <3>1
  <2> QED BY <2>1, <2>2
<1>4. Waits(c) <=> QueuedOf(scope, Own(c)) # {}
  <2>1. ASSUME Waits(c) PROVE QueuedOf(scope, Own(c)) # {}
    BY <1>2, <2>1, OwnedStand DEF Waits, QueuedOf
  <2>2. ASSUME QueuedOf(scope, Own(c)) # {} PROVE Waits(c)
    BY <1>1, <2>2, OwnedStand DEF Waits, QueuedOf
  <2> QED BY <2>1, <2>2
<1>5. HoldsWrite(c) <=> WriteHeld(c)
  BY <1>3 DEF HoldsWrite, WriteHeld, Held
<1> QED BY <1>3, <1>4, <1>5, EmptyParts

(* A child that frees its lease does not stand in the scope any more.      *)
LEMMA FreedKeeps ==
  ASSUME AtRest(scope), NEW c \in Child, Asks(scope, Own(c)) = {}
  PROVE  /\ AtRest(Freed(c))
         /\ \A r \in Request \ {Own(c)} : Keeps(scope, Freed(c), r)
         /\ Absent(Freed(c), Own(c))
<1>1. Sound(scope) /\ Own(c) \in Request
  BY Requests DEF AtRest
<1>2. CASE Owned(c) = {}
  <2>1. Freed(c) = scope
    BY <1>2 DEF Freed
  <2> QED BY <1>1, <1>2, <2>1, ChildStands, KeepsSame DEF Absent
<1>3. CASE Owned(c) # {}
  <2>1. PICK h \in Owned(c) : TRUE
    BY <1>3
  <2>2. Owned(c) = {h} /\ h \in scope.holders
    <3>1. Owned(c) = LeasesOf(scope, Own(c))
      BY <1>1, ChildStands
    <3>2. \A g \in Owned(c) : g = h
      BY <1>1, <2>1, <3>1 DEF Sound, Once
    <3> QED BY <2>1, <3>2 DEF Owned
  <2>3. h.handlers = {Own(c)}
    <3>1. \A r \in h.handlers : r \in Request /\ r[1] = c
      BY <1>1, <2>1, <2>2 DEF Sound, Shared, Counted, Owned, Scope, Lease
    <3>2. h.handlers # {}
      BY <1>1, <2>2 DEF Sound, Shared, Counted
    <3> QED BY <3>1, <3>2, Requests
  <2> DEFINE d == Removed(scope, h)
  <2>4. Freed(c) = Drained(d)
    BY <1>3, <2>2 DEF Freed, Removed
  <2>5. /\ Sound(d)
        /\ \A r \in Request \ {Own(c)} : Keeps(scope, d, r)
        /\ Absent(d, Own(c))
    BY <1>1, <2>2, <2>3, RemoveKeeps
  <2> HIDE DEF d
  <2>6. AtRest(Drained(d)) /\ \A r \in Request : Keeps(d, Drained(d), r)
    BY <2>5, DrainKeeps
  <2>7. Absent(Drained(d), Own(c))
    BY <1>1, <2>5, <2>6 DEF Absent, Keeps, Same, Gets
  <2> QED BY <2>4, <2>5, <2>6, <2>7, KeepsTwice
<1> QED BY <1>2, <1>3

(* A request that is asked for is granted at once, or waits.               *)
LEMMA AskedKeeps ==
  ASSUME NEW sc, Sound(sc), NEW r \in Request, Absent(sc, r), NEW m \in Modes
  PROVE  /\ AtRest(Asked(sc, r, m))
         /\ \A x \in Request \ {r} : Keeps(sc, Asked(sc, r, m), x)
         /\ \/ Held(Asked(sc, r, m), r) = {} /\ Asks(Asked(sc, r, m), r) = {m}
            \/ Held(Asked(sc, r, m), r) = {m} /\ Asks(Asked(sc, r, m), r) = {}
<1> DEFINE w == WaiterOf(r, m)
           d == Pushed(sc, w)
<1>1. w \in Waiter /\ w.id = r /\ w.owner = r[1] /\ w.mode = m
  BY Requests, RunAssumption, ScopeAssumption DEF WaiterOf, Waiter
<1> HIDE DEF w
<1>2. /\ Sound(d)
      /\ \A x \in Request \ {r} : Keeps(sc, d, x)
      /\ Held(d, r) = {} /\ Asks(d, r) = {m}
  BY <1>1, PushKeeps
<1> HIDE DEF d
<1>3. AtRest(Drained(d)) /\ \A x \in Request : Keeps(d, Drained(d), x)
  BY <1>2, DrainKeeps
<1>4. Asked(sc, r, m) = Drained(d)
  BY DEF Asked, d, w
<1>5. \/ Held(Drained(d), r) = {} /\ Asks(Drained(d), r) = {m}
      \/ Held(Drained(d), r) = {m} /\ Asks(Drained(d), r) = {}
  BY <1>2, <1>3 DEF Keeps, Same, Gets
<1> QED BY <1>2, <1>3, <1>4, <1>5, KeepsTwice

(* An abort takes one request of its run out of the queue, if one waits;   *)
(* what it lets in beside the holders are readers.                         *)
LEMMA AbortedKeeps ==
  ASSUME NEW sc, AtRest(sc), NEW o \in Run
  PROVE  \/ /\ Aborted(sc, o) = sc
            /\ \A r \in Request : r[1] = o => Asks(sc, r) = {}
         \/ \E x \in Request :
              /\ x[1] = o /\ Held(sc, x) = {} /\ Asks(sc, x) # {}
              /\ AtRest(Aborted(sc, o)) /\ Absent(Aborted(sc, o), x)
              /\ \A r \in Request \ {x} :
                   /\ Keeps(sc, Aborted(sc, o), r)
                   /\ Asks(sc, r) \subseteq {"write"} => Same(sc, Aborted(sc, o), r)
<1> DEFINE own == {i \in 1..Len(sc.queue) : sc.queue[i].owner = o}
           k == CHOOSE i \in own : \A j \in own : i <= j
           d == Withdrawn(sc, k)
<1>1. /\ Sound(sc) /\ Once(sc) /\ Shared(sc)
      /\ sc.queue \in Seq(Waiter) /\ Len(sc.queue) \in Nat
  BY LenProperties DEF AtRest, Sound, Scope
<1>2. CASE own = {}
  <2>1. \A r \in Request : r[1] = o => QueuedOf(sc, r) = {}
    BY <1>1, <1>2 DEF QueuedOf, Shared
  <2>2. Aborted(sc, o) = sc
    BY <1>2 DEF Aborted
  <2> QED BY <2>1, <2>2, EmptyParts
<1>3. CASE own # {}
  <2>1. \E i \in own : \A j \in own : i <= j
    <3>1. own \subseteq Nat
      BY <1>1
    <3>2. \A i \in own : i >= 0
      BY <3>1
    <3> HIDE DEF own
    <3>3. PICK m \in own : \A j \in own : ~ (<<j, m>> \in OpToRel(<, Nat))
      BY <1>3, <3>1, NatLessThanWellFounded, WFMin
    <3>4. \A j \in own : ~ (j < m)
      BY <3>1, <3>3, Zenon DEF OpToRel
    <3> QED BY <3>1, <3>4
  <2>2. k \in own
    <3> HIDE DEF own
    <3> QED BY <2>1
  <2>3. Aborted(sc, o) = Drained(d)
    BY <1>3 DEF Aborted
  <2> HIDE DEF k
  <2> DEFINE x == sc.queue[k].id
  <2>4. k \in 1..Len(sc.queue) /\ x[1] = o /\ x \in Request
    <3>1. k \in 1..Len(sc.queue) /\ sc.queue[k].owner = o
      BY <2>2
    <3>2. sc.queue[k] \in Waiter
      BY <1>1, <3>1, ElementOfSeq
    <3> QED BY <1>1, <3>1, <3>2 DEF Shared, Waiter
  <2>5. k \in QueuedOf(sc, x)
    BY <2>4 DEF QueuedOf
  <2> HIDE DEF x, own
  <2>6. /\ Sound(d) /\ d.holders = sc.holders
        /\ \A r \in Request \ {x} : Same(sc, d, r)
        /\ Absent(d, x)
    BY <1>1, <2>4, <2>5, WithdrawKeeps
  <2> HIDE DEF d
  <2>7. sc.holders # {}
    BY <1>1, <2>4, EmptySeq DEF AtRest
  <2>8. /\ AtRest(Drained(d))
        /\ \A r \in Request : Keeps(d, Drained(d), r)
        /\ \A r \in Request : Asks(d, r) \subseteq {"write"} => Same(d, Drained(d), r)
    BY <2>6, <2>7, DrainKeeps
  <2>9. Held(sc, x) = {} /\ Asks(sc, x) # {}
    BY <1>1, <2>4, <2>5, EmptyParts DEF Once
  <2>10. Absent(Drained(d), x)
    BY <2>4, <2>6, <2>8 DEF Absent, Keeps, Same, Gets
  <2>11. ASSUME NEW r \in Request \ {x}
         PROVE  /\ Keeps(sc, Drained(d), r)
                /\ Asks(sc, r) \subseteq {"write"} => Same(sc, Drained(d), r)
    <3>1. Same(sc, d, r) /\ Keeps(d, Drained(d), r)
      BY <2>6, <2>8
    <3>2. Asks(d, r) \subseteq {"write"} => Same(d, Drained(d), r)
      BY <2>8
    <3>3. Keeps(sc, d, r) /\ Asks(d, r) = Asks(sc, r)
      BY <3>1 DEF Keeps, Same
    <3>4. Keeps(sc, Drained(d), r)
      BY <3>1, <3>3, KeepsTwice
    <3>5. Asks(sc, r) \subseteq {"write"} => Same(sc, Drained(d), r)
      BY <3>1, <3>2, <3>3 DEF Same
    <3> QED BY <3>4, <3>5
  <2> DEFINE e == Aborted(sc, o)
  <2>12. e = Drained(d)
    BY <2>3
  <2> HIDE DEF e
  <2>13. AtRest(e) /\ Absent(e, x)
    BY <2>8, <2>10, <2>12
  <2>14. \A r \in Request \ {x} :
           /\ Keeps(sc, e, r)
           /\ Asks(sc, r) \subseteq {"write"} => Same(sc, e, r)
    BY <2>11, <2>12
  <2> QED BY <2>4, <2>9, <2>13, <2>14 DEF e
<1> QED BY <1>2, <1>3

(* A child that waits and is aborted does not stand in the scope.          *)
LEMMA ChildAborted ==
  ASSUME AtRest(scope), NEW c \in Child, Waits(c)
  PROVE  /\ AtRest(Aborted(scope, c))
         /\ \A r \in Request \ {Own(c)} : Keeps(scope, Aborted(scope, c), r)
         /\ Absent(Aborted(scope, c), Own(c))
<1>1. /\ c \in Run /\ Own(c) \in Request /\ Own(c)[1] = c
      /\ \A r \in Request : r[1] = c => r = Own(c)
  BY Requests DEF Run, Own
<1>2. Asks(scope, Own(c)) # {}
  BY ChildStands DEF AtRest
<1>3. PICK x \in Request :
        /\ x[1] = c
        /\ AtRest(Aborted(scope, c)) /\ Absent(Aborted(scope, c), x)
        /\ \A r \in Request \ {x} : Keeps(scope, Aborted(scope, c), r)
  BY <1>1, <1>2, AbortedKeeps
<1> QED BY <1>1, <1>3

(* Two aborts take what a root run waits for out of the queue, and grant   *)
(* it nothing on the way.                                                  *)
LEMMA RootAborted ==
  ASSUME AtRest(scope), NEW w \in Root, NEW e, e = Aborted(Aborted(scope, w), w),
         Asks(scope, <<w, 1>>) \subseteq {"write"},
         Asks(scope, <<w, 2>>) \subseteq {"write"}
  PROVE  /\ AtRest(e)
         /\ \A r \in Request : r[1] # w => Keeps(scope, e, r)
         /\ \A r \in {<<w, 1>>, <<w, 2>>} :
              Held(e, r) = Held(scope, r) /\ Asks(e, r) = {}
<1> DEFINE d == Aborted(scope, w)
           Mine == {r \in Request : r[1] = w}
<1>1. w \in Run /\ Mine = {<<w, 1>>, <<w, 2>>}
  BY Requests DEF Run
<1>2. \A r \in Mine : Asks(scope, r) \subseteq {"write"}
  BY <1>1
<1>3. e = Aborted(d, w)
  OBVIOUS
<1> DEFINE Step(a, b) ==
             \/ b = a /\ \A r \in Mine : Asks(a, r) = {}
             \/ \E x \in Mine :
                  /\ Held(a, x) = {} /\ Asks(a, x) # {}
                  /\ AtRest(b) /\ Absent(b, x)
                  /\ \A r \in Request \ {x} :
                       /\ Keeps(a, b, r)
                       /\ Asks(a, r) \subseteq {"write"} => Same(a, b, r)
<1>4. Step(scope, d)
  BY <1>1, AbortedKeeps
<1>5. AtRest(d)
  BY <1>4
<1>6. Step(d, e)
  <2> HIDE DEF d
  <2> QED BY <1>1, <1>3, <1>5, AbortedKeeps
<1> HIDE DEF d
<1>7. AtRest(e)
  BY <1>5, <1>6
<1>8. ASSUME NEW r \in Request, r[1] # w PROVE Keeps(scope, e, r)
  <2>1. Keeps(scope, d, r)
    BY <1>4, <1>8, KeepsSame
  <2>2. Keeps(d, e, r)
    BY <1>6, <1>8, KeepsSame
  <2> QED BY <2>1, <2>2, KeepsTwice
<1>9. ASSUME NEW r \in Mine PROVE Held(e, r) = Held(scope, r) /\ Asks(e, r) = {}
  <2>1. CASE \A x \in Mine : Asks(scope, x) = {}
    <3>1. d = scope
      BY <1>4, <2>1
    <3> QED BY <1>6, <2>1, <3>1
  <2>2. CASE \E x \in Mine : Asks(scope, x) # {}
    <3>1. PICK x \in Mine :
            /\ Held(scope, x) = {} /\ Asks(scope, x) # {} /\ Absent(d, x)
            /\ \A y \in Mine \ {x} : Same(scope, d, y)
      BY <1>2, <1>4, <2>2
    <3>2. Asks(d, x) = {} /\ Held(d, x) = {} /\ Asks(d, x) \subseteq {"write"}
      BY <3>1 DEF Absent
    <3>3. CASE e = d /\ \A y \in Mine : Asks(d, y) = {}
      BY <3>1, <3>2, <3>3 DEF Same
    <3>4. CASE ~ (e = d /\ \A y \in Mine : Asks(d, y) = {})
      <4>1. PICK z \in Mine :
              /\ Held(d, z) = {} /\ Asks(d, z) # {} /\ Absent(e, z)
              /\ \A y \in Mine \ {z} :
                   Asks(d, y) \subseteq {"write"} => Same(d, e, y)
        BY <1>6, <3>4
      <4>2. z # x
        BY <3>2, <4>1
      <4>3. \A y \in Mine : y = x \/ y = z
        BY <1>1, <4>2
      <4>4. Same(d, e, x) /\ Same(scope, d, z)
        BY <3>1, <3>2, <4>1, <4>2
      <4> QED BY <3>1, <3>2, <4>1, <4>3, <4>4 DEF Same, Absent
    <3> QED BY <3>3, <3>4
  <2> QED BY <2>1, <2>2
<1> QED BY <1>1, <1>7, <1>8, <1>9

(* A request joins the lease that its run holds.                           *)
LEMMA JoinKeeps ==
  ASSUME AtRest(scope), NEW w \in Root, NEW h \in Reentrant(scope, w, "write"),
         NEW r \in Request, r[1] = w, Absent(scope, r),
         NEW d, d = Replaced(scope, h, Joined(h, r, 1, TRUE))
  PROVE  /\ AtRest(d)
         /\ \A x \in Request \ {r} : Keeps(scope, d, x)
         /\ Held(d, r) = {"write"} /\ Asks(d, r) = {}
<1> DEFINE g == Joined(h, r, 1, TRUE)
<1>1. /\ h \in scope.holders /\ h.owner = w /\ h.mode = "write"
      /\ h \in Lease /\ Counted(h) /\ Sound(scope) /\ r \notin h.handlers
  <2>1. h \in scope.holders /\ h.owner = w /\ h.mode = "write"
    BY DEF Reentrant, Writers
  <2>2. r \notin h.handlers
    BY <2>1, EmptyParts DEF Absent, LeasesOf
  <2> QED BY <2>1, <2>2 DEF AtRest, Sound, Shared, Scope
<1>2. /\ g \in Lease /\ g.owner = h.owner /\ g.mode = h.mode
      /\ g.refs = h.refs + 1 /\ g.handlers = h.handlers \cup {r}
  <2>1. 1 \in Ttl /\ TRUE \in BOOLEAN
    BY ScopeAssumption
  <2>2. g \in Lease /\ g.owner = h.owner /\ g.mode = h.mode
    BY <1>1, <2>1, JoinedType
  <2>3. g.refs = h.refs + 1 /\ g.handlers = h.handlers \cup {r}
    BY <1>1, <2>1, JoinedHandles
  <2> QED BY <2>2, <2>3
<1> HIDE DEF g
<1>3. Counted(g)
  <2>1. /\ IsFiniteSet(g.handlers)
        /\ Cardinality(g.handlers) = Cardinality(h.handlers) + 1
    <3>1. IsFiniteSet(h.handlers) /\ r \notin h.handlers
      BY <1>1 DEF Counted
    <3>2. /\ IsFiniteSet(h.handlers \cup {r})
          /\ Cardinality(h.handlers \cup {r}) = Cardinality(h.handlers) + 1
      BY ONLY <3>1, FS_AddElement
    <3>3. g.handlers = h.handlers \cup {r}
      BY <1>2
    <3> QED BY <3>2, <3>3
  <2>2. \A x \in g.handlers : x[1] = g.owner
    BY <1>1, <1>2 DEF Counted
  <2> QED BY <1>1, <1>2, <2>1, <2>2 DEF Counted
<1>4. /\ r \in g.handlers
      /\ \A x \in Request \ {r} : x \in g.handlers <=> x \in h.handlers
  BY <1>2
<1>5. d = Replaced(scope, h, g)
  BY DEF g
<1>6. /\ AtRest(Replaced(scope, h, g))
      /\ \A x \in Request \ {r} : Keeps(scope, Replaced(scope, h, g), x)
      /\ Held(Replaced(scope, h, g), r) = {"write"}
      /\ Asks(Replaced(scope, h, g), r) = {}
  BY <1>1, <1>2, <1>3, <1>4, ReplaceKeeps
<1> QED BY <1>5, <1>6

(* A request that lets its lease go does not stand in the scope any more,  *)
(* and those that share the lease keep it.                                 *)
LEMMA ReleasedKeeps ==
  ASSUME AtRest(scope), NEW o \in Run, NEW r \in Request, r[1] = o,
         Held(scope, r) # {}
  PROVE  /\ AtRest(Released(o, r))
         /\ \A x \in Request \ {r} : Keeps(scope, Released(o, r), x)
         /\ Absent(Released(o, r), r)
<1> DEFINE h == CHOOSE h \in Owned(o) : r \in h.handlers
<1>1. Sound(scope)
  BY DEF AtRest
<1>2. h \in Owned(o) /\ r \in h.handlers
  <2>1. PICK g \in LeasesOf(scope, r) : TRUE
    BY EmptyParts
  <2>2. g \in Owned(o) /\ r \in g.handlers
    BY <1>1, <2>1, OwnedStand DEF LeasesOf
  <2> QED BY <2>2
<1>3. Released(o, r) = IF h.refs > 1 THEN Replaced(scope, h, Dereferenced(h, r))
                       ELSE Drained(Removed(scope, h))
  BY DEF Released
<1> HIDE DEF h
<1>4. h \in scope.holders /\ Counted(h) /\ h \in Lease /\ h.refs \in Nat
  BY <1>1, <1>2 DEF Owned, Sound, Shared, Scope, Lease
<1>5. CASE h.refs > 1
  <2> DEFINE g == Dereferenced(h, r)
  <2>1. /\ g.refs = h.refs - 1 /\ g.handlers = h.handlers \ {r}
        /\ g.owner = h.owner /\ g.mode = h.mode /\ g \in Lease
    <3>1. h.refs - 1 \in Nat /\ h.handlers \ {r} \in SUBSET Request
      BY <1>4, <1>5 DEF Lease
    <3> QED BY <1>4, <3>1 DEF Dereferenced, Lease
  <2> HIDE DEF g
  <2>2. Counted(g)
    <3>1. /\ IsFiniteSet(g.handlers)
          /\ Cardinality(g.handlers) = Cardinality(h.handlers) - 1
      <4>1. IsFiniteSet(h.handlers) /\ r \in h.handlers
        BY <1>2, <1>4 DEF Counted
      <4>2. /\ IsFiniteSet(h.handlers \ {r})
            /\ Cardinality(h.handlers \ {r}) = Cardinality(h.handlers) - 1
        BY ONLY <4>1, FS_RemoveElement
      <4> QED BY <2>1, <4>2
    <3>2. g.handlers # {}
      BY <1>4, <1>5, <3>1, FS_EmptySet DEF Counted
    <3> QED BY <1>4, <2>1, <3>1, <3>2 DEF Counted
  <2>3. Released(o, r) = Replaced(scope, h, g)
    BY <1>3, <1>5 DEF g
  <2>4. \A x \in Request \ {r} : x \in g.handlers <=> x \in h.handlers
    BY <2>1
  <2>5. r \notin g.handlers
    BY <2>1
  <2> QED BY <1>1, <1>2, <1>4, <2>1, <2>2, <2>3, <2>4, <2>5, ReplaceKeeps
<1>6. CASE ~ (h.refs > 1)
  <2>1. h.handlers = {r}
    <3>1. Cardinality(h.handlers) = 1
      <4>1. Cardinality(h.handlers) # 0
        BY <1>4, FS_EmptySet DEF Counted
      <4> QED BY <1>4, <1>6, <4>1 DEF Counted
    <3>2. PICK x : h.handlers = {x}
      BY <1>4, <3>1, FS_Singleton DEF Counted
    <3> QED BY <1>2, <3>2
  <2> DEFINE d == Removed(scope, h)
  <2>2. /\ Sound(d)
        /\ \A x \in Request \ {r} : Keeps(scope, d, x)
        /\ Absent(d, r)
    BY <1>1, <1>4, <2>1, RemoveKeeps
  <2>3. Released(o, r) = Drained(d)
    BY <1>3, <1>6
  <2> HIDE DEF d
  <2>4. AtRest(Drained(d)) /\ \A x \in Request : Keeps(d, Drained(d), x)
    BY <2>2, DrainKeeps
  <2>5. Absent(Drained(d), r)
    BY <2>2, <2>4 DEF Absent, Keeps, Same, Gets
  <2> QED BY <2>2, <2>3, <2>4, <2>5, KeepsTwice
<1> QED BY <1>5, <1>6

-----------------------------------------------------------------------------
(* What a step of run o leaves to the others: they go on with what they    *)
(* did, and only those without a lease become stale.                       *)
Elsewhere(o) ==
  /\ \A r \in Request : r[1] # o => Keeps(scope, scope', r)
  /\ \A p \in Run \ {o} :
       /\ phase'[p] = phase[p] /\ ghost'[p] = ghost[p] /\ fate'[p] = fate[p]
       /\ p \in gaveUp' <=> p \in gaveUp
  /\ \A c \in Child \ {o} :
       /\ observed'[c] = observed[c] /\ reval'[c] = reval[c]
       /\ from'[c] = from[c] /\ guarded'[c] = guarded[c]
       /\ \/ stale'[c] = stale[c]
          \/ epoch' = epoch + 1 /\ Owned(c) = {}
  /\ epoch' \in {epoch, epoch + 1}

(* A call of a root run stands for what it did.                            *)
LEMMA StandsKept ==
  ASSUME NEW sc, NEW d, NEW r, NEW s, Keeps(sc, d, r), Stands(sc, r, s)
  PROVE  Stands(d, r, s)
BY DEF Keeps, Same, Gets, Stands, Absent

LEMMA OthersKeep ==
  ASSUME IInv, TypeOK', NEW o \in Run, Elsewhere(o)
  PROVE  /\ \A c \in Child \ {o} : ChildOK(c)'
         /\ \A w \in Root \ {o} : RootOK(w)'
<1>1. ASSUME NEW c \in Child \ {o} PROVE ChildOK(c)'
  <2>1. /\ phase'[c] = phase[c] /\ ghost'[c] = ghost[c] /\ fate'[c] = fate[c]
        /\ c \in gaveUp' <=> c \in gaveUp
        /\ observed'[c] = observed[c] /\ reval'[c] = reval[c]
        /\ from'[c] = from[c] /\ guarded'[c] = guarded[c]
        /\ \/ stale'[c] = stale[c]
           \/ epoch' = epoch + 1 /\ Owned(c) = {}
    BY DEF Elsewhere, Run
  <2>2. FateOK(c) /\ AsksOK(c) /\ HoldsOK(c) /\ LooksOK(c)
    BY DEF IInv, ChildOK
  <2>3. Keeps(scope, scope', Own(c))
    <3>1. Own(c) \in Request /\ Own(c)[1] # o
      BY Requests DEF Own
    <3> QED BY <3>1 DEF Elsewhere
  <2>4. Pending(c)' <=> Pending(c)
    BY <2>1 DEF Pending
  <2>5. FateOK(c)'
    BY <2>1, <2>2 DEF FateOK
  <2>6. /\ Absent(scope, Own(c)) => Absent(scope', Own(c))
        /\ Writes(scope, Own(c)) => Writes(scope', Own(c))
        /\ Asks(scope, Own(c)) = {} =>
             Asks(scope', Own(c)) = {} /\ (WriteHeld(c)' <=> WriteHeld(c))
        /\ WriteHeld(c) => WriteHeld(c)'
        /\ Held(scope, Own(c)) # {} => Held(scope', Own(c)) # {}
    BY <2>3, <2>4 DEF Keeps, Same, Gets, Absent, Writes, WriteHeld
  <2>7. AsksOK(c)'
    BY <2>1, <2>2, <2>4, <2>6 DEF AsksOK
  <2>8. Mutates(c)' <=> Mutates(c)
    BY <2>1 DEF Mutates
  <2>9. HoldsOK(c)'
    BY <2>1, <2>2, <2>6, <2>8 DEF HoldsOK
  <2>10. /\ epoch \in Nat /\ epoch' \in Nat /\ epoch <= epoch'
         /\ observed[c] \in Nat
         /\ Pending(c) => from[c] \in Nat
    BY EpochAssumption DEF Elsewhere, IInv, TypeOK, Pending
  <2>11. /\ observed'[c] <= epoch'
         /\ Pending(c)' => from'[c] <= epoch'
    BY <2>1, <2>2, <2>4, <2>10 DEF LooksOK
  <2>12. ASSUME fate'[c] = "live", guarded'[c], stale'[c]
         PROVE  /\ phase'[c] # "reading" /\ ~Mutates(c)'
                /\ phase'[c] \in {"running", "waiting"} =>
                     \/ Pending(c)' /\ from'[c] < epoch'
                     \/ ~Pending(c)' /\ WriteHeld(c)' /\ reval'[c]
                     \/ ~Pending(c)' /\ ~WriteHeld(c)' /\ observed'[c] < epoch'
    <3>1. ~Pending(c) /\ phase[c] \in {"running", "waiting"} =>
            (WriteHeld(c)' <=> WriteHeld(c))
      BY <2>1, <2>2, <2>6, <2>12 DEF AsksOK
    <3>2. CASE stale'[c] = stale[c]
      BY <2>1, <2>2, <2>4, <2>8, <2>10, <2>12, <3>1, <3>2 DEF LooksOK
    <3>3. CASE epoch' = epoch + 1 /\ Owned(c) = {}
      <4>1. Held(scope, Own(c)) = {} /\ ~WriteHeld(c)
        BY <3>3, ChildStands DEF IInv, AtRest, WriteHeld
      <4>2. ~Mutates(c) /\ phase[c] # "reading"
        BY <2>1, <2>2, <2>12, <4>1 DEF HoldsOK
      <4> QED BY <2>1, <2>2, <2>4, <2>8, <2>10, <3>1, <3>3, <4>1, <4>2 DEF LooksOK
    <3> QED BY <2>1, <3>2, <3>3
  <2>13. LooksOK(c)'
    BY <2>11, <2>12 DEF LooksOK
  <2> QED BY <2>5, <2>7, <2>9, <2>13 DEF ChildOK
<1>2. ASSUME NEW w \in Root \ {o} PROVE RootOK(w)'
  <2>1. /\ phase'[w] = phase[w] /\ ghost'[w] = ghost[w] /\ fate'[w] = fate[w]
        /\ w \in gaveUp' <=> w \in gaveUp
    BY DEF Elsewhere, Run
  <2>2. RootOK(w)
    BY DEF IInv
  <2>3. \A k \in {1, 2} : Keeps(scope, scope', <<w, k>>)
    BY Requests DEF Elsewhere
  <2>4. CallOf(w)' = CallOf(w) /\ GhostOf(w)' = GhostOf(w)
    BY <2>1 DEF CallOf, GhostOf
  <2>5. Keeps(scope, scope', CallOf(w)) /\ Keeps(scope, scope', GhostOf(w))
    BY <2>3 DEF CallOf, GhostOf
  <2>6. FateOK(w)'
    BY <2>1, <2>2 DEF RootOK, FateOK
  <2>7. Stands(scope', CallOf(w), phase[w])
    BY <2>2, <2>5, StandsKept DEF RootOK
  <2>8. IF w \in gaveUp THEN Stands(scope', GhostOf(w), ghost[w])
                        ELSE Absent(scope', <<w, 2>>)
    <3>1. CASE w \in gaveUp
      BY <2>2, <2>5, <3>1, StandsKept DEF RootOK
    <3>2. CASE w \notin gaveUp
      BY <2>2, <2>3, <3>2 DEF RootOK, Keeps, Same, Gets, Absent
    <3> QED BY <3>1, <3>2
  <2> QED BY <2>1, <2>2, <2>4, <2>6, <2>7, <2>8 DEF RootOK
<1> QED BY <1>1, <1>2

(* A step of o that makes nobody stale.                                    *)
OnlyOwn(o) ==
  /\ \A p \in Run \ {o} :
       /\ phase'[p] = phase[p] /\ ghost'[p] = ghost[p] /\ fate'[p] = fate[p]
       /\ p \in gaveUp' <=> p \in gaveUp
  /\ \A c \in Child \ {o} :
       /\ observed'[c] = observed[c] /\ reval'[c] = reval[c]
       /\ from'[c] = from[c] /\ guarded'[c] = guarded[c]
       /\ stale'[c] = stale[c]

LEMMA ChildStep ==
  ASSUME IInv, TypeOK', NEW c \in Child, OnlyOwn(c), UNCHANGED epoch,
         AtRest(scope'), \A r \in Request \ {Own(c)} : Keeps(scope, scope', r),
         ChildOK(c)'
  PROVE  IInv'
<1>1. Elsewhere(c)
  <2>1. \A r \in Request : r[1] # c => r # Own(c)
    BY DEF Own
  <2> QED BY <2>1 DEF OnlyOwn, Elsewhere
<1>2. c \in Run /\ c \notin Root
  BY RunAssumption DEF Run
<1>3. /\ \A d \in Child : ChildOK(d)'
      /\ \A w \in Root : RootOK(w)'
  BY <1>1, <1>2, OthersKeep
<1> QED BY <1>3 DEF IInv

LEMMA QuietStep ==
  ASSUME IInv, TypeOK', NEW c \in Child, OnlyOwn(c), UNCHANGED <<scope, epoch>>,
         ChildOK(c)'
  PROVE  IInv'
<1>1. AtRest(scope') /\ \A r \in Request : Keeps(scope, scope', r)
  BY KeepsSame DEF IInv
<1> QED BY <1>1, ChildStep

(* What a child's session knows of itself when it decides.                 *)
LEMMA ChildFacts ==
  ASSUME IInv, NEW c \in Child
  PROVE  /\ c \in Run /\ AtRest(scope) /\ Sound(scope) /\ ChildOK(c)
         /\ Own(c) \in Request /\ epoch \in Nat
         /\ observed[c] \in Nat
         /\ Owned(c) = {} <=> Held(scope, Own(c)) = {}
         /\ Waits(c) <=> Asks(scope, Own(c)) # {}
         /\ HoldsWrite(c) <=> WriteHeld(c)
         /\ Held(scope, Own(c)) = {} \/ Asks(scope, Own(c)) = {}
         /\ "write" \in Held(scope, Own(c)) => Writes(scope, Own(c))
<1>1. /\ c \in Run /\ AtRest(scope) /\ Sound(scope) /\ ChildOK(c)
      /\ epoch \in Nat /\ observed[c] \in Nat
  BY EpochAssumption DEF IInv, AtRest, TypeOK, Run
<1>2. Own(c) \in Request
  BY Requests
<1>3. /\ \A g, h \in LeasesOf(scope, Own(c)) : g = h
      /\ LeasesOf(scope, Own(c)) = {} \/ QueuedOf(scope, Own(c)) = {}
  BY <1>1, <1>2 DEF Sound, Once
<1>4. Held(scope, Own(c)) = {} \/ Asks(scope, Own(c)) = {}
  BY <1>3, EmptyParts
<1>5. "write" \in Held(scope, Own(c)) => Writes(scope, Own(c))
  BY <1>3, <1>4 DEF Held, Writes
<1> QED BY <1>1, <1>2, <1>4, <1>5, ChildStands

-----------------------------------------------------------------------------
(* Admission *)

LEMMA AdmissionRefusedKeeps ==
  ASSUME IInv, NEW c \in Child, AdmissionRefused(c)
  PROVE  IInv'
<1>1. TypeOK' /\ OnlyOwn(c)
  BY DEF IInv, TypeOK, OnlyOwn, AdmissionRefused, Run, session, history
<1>2. /\ phase[c] = "new" /\ phase'[c] = "ended" /\ fate'[c] = "finished"
      /\ UNCHANGED <<scope, epoch, observed, reval, from, ghost, gaveUp, stale, guarded>>
  BY DEF IInv, TypeOK, AdmissionRefused, Run, session, history
<1>3. ChildOK(c)
  BY DEF IInv
<1>4. FateOK(c)' /\ AsksOK(c)' /\ HoldsOK(c)' /\ LooksOK(c)'
  BY <1>2, <1>3
     DEF ChildOK, FateOK, AsksOK, HoldsOK, LooksOK, Pending, WriteHeld, Mutates
<1> QED BY <1>1, <1>2, <1>4, QuietStep DEF ChildOK

(* A new child does not stand in the scope, so its request may.            *)
LEMMA AdmitKeeps ==
  ASSUME IInv, NEW c \in Child, Admit(c)
  PROVE  IInv'
<1>1. c \in Run /\ phase[c] = "new" /\ Sound(scope) /\ ChildOK(c) /\ Own(c) \in Request
  BY ChildFacts DEF Admit
<1>2. /\ scope' = Asked(scope, Own(c), "read") /\ phase'[c] = "admitting"
      /\ UNCHANGED <<epoch, observed, reval, from, ghost, fate, gaveUp, stale, guarded>>
      /\ OnlyOwn(c)
  BY <1>1 DEF IInv, TypeOK, Admit, OnlyOwn, session, history, Own
<1>3. /\ AtRest(scope')
      /\ \A r \in Request \ {Own(c)} : Keeps(scope, scope', r)
  BY <1>1, <1>2, AskedKeeps DEF ChildOK, AsksOK, Modes
<1>4. TypeOK'
  BY <1>2, <1>3 DEF IInv, TypeOK, Admit, AtRest, Sound
<1>5. ~Pending(c) /\ ghost[c] = "none" /\ fate[c] = "live" /\ c \notin gaveUp
  BY <1>1 DEF ChildOK, FateOK, AsksOK, IInv, TypeOK
<1>6. FateOK(c)' /\ AsksOK(c)' /\ HoldsOK(c)'
  BY <1>1, <1>2, <1>5 DEF ChildOK, FateOK, AsksOK, HoldsOK, Pending, Mutates
<1>7. LooksOK(c)'
  BY <1>1, <1>2, <1>5 DEF ChildOK, LooksOK, Pending, Mutates
<1> QED BY <1>2, <1>3, <1>4, <1>6, <1>7, ChildStep DEF ChildOK

(* The lease is there, so nothing of the child waits any more.             *)
LEMMA AdmittedKeeps ==
  ASSUME IInv, NEW c \in Child, Admitted(c)
  PROVE  IInv'
<1>1. TypeOK' /\ OnlyOwn(c)
  BY DEF IInv, TypeOK, OnlyOwn, Admitted, Run
<1>2. /\ phase[c] = "admitting" /\ phase'[c] = "running"
      /\ observed'[c] = epoch /\ ~stale'[c] /\ Owned(c) # {}
      /\ UNCHANGED <<scope, epoch, reval, from, ghost, fate, gaveUp, guarded>>
  BY DEF IInv, TypeOK, Admitted, Run
<1>3. ChildOK(c) /\ epoch \in Nat /\ Asks(scope, Own(c)) = {}
  BY <1>2, ChildFacts
<1>4. FateOK(c)' /\ AsksOK(c)' /\ HoldsOK(c)' /\ LooksOK(c)'
  BY <1>2, <1>3
     DEF ChildOK, FateOK, AsksOK, HoldsOK, LooksOK, Pending, WriteHeld, Mutates
<1> QED BY <1>1, <1>2, <1>4, QuietStep DEF ChildOK

-----------------------------------------------------------------------------
(* Observing tools *)

LEMMA BeginReadKeeps ==
  ASSUME IInv, NEW c \in Child, BeginRead(c)
  PROVE  IInv'
<1>1. TypeOK' /\ OnlyOwn(c)
  BY DEF IInv, TypeOK, OnlyOwn, BeginRead, Run, session
<1>2. /\ phase[c] = "running" /\ phase'[c] = "reading"
      /\ ~stale'[c] /\ guarded'[c] = (Owned(c) # {})
      /\ UNCHANGED <<scope, epoch, observed, reval, from, ghost, fate, gaveUp>>
  BY DEF IInv, TypeOK, BeginRead, Run, session
<1>3. ChildOK(c) /\ (Owned(c) = {} <=> Held(scope, Own(c)) = {})
  BY ChildFacts
<1>4. FateOK(c)' /\ AsksOK(c)' /\ HoldsOK(c)' /\ LooksOK(c)'
  BY <1>2, <1>3
     DEF ChildOK, FateOK, AsksOK, HoldsOK, LooksOK, Pending, WriteHeld, Mutates
<1> QED BY <1>1, <1>2, <1>4, QuietStep DEF ChildOK

LEMMA FinishReadKeeps ==
  ASSUME IInv, NEW c \in Child, FinishRead(c)
  PROVE  IInv'
<1>1. TypeOK' /\ OnlyOwn(c)
  BY DEF IInv, TypeOK, OnlyOwn, FinishRead, Run, history
<1>2. /\ phase[c] = "reading" /\ phase'[c] = "running"
      /\ observed'[c] = epoch
      /\ UNCHANGED <<scope, epoch, from, ghost, fate, gaveUp, stale, guarded>>
  BY DEF IInv, TypeOK, FinishRead, Run, history
<1>3. ChildOK(c) /\ epoch \in Nat
  BY ChildFacts
<1>4. FateOK(c)' /\ AsksOK(c)' /\ HoldsOK(c)' /\ LooksOK(c)'
  BY <1>2, <1>3
     DEF ChildOK, FateOK, AsksOK, HoldsOK, LooksOK, Pending, WriteHeld, Mutates
<1> QED BY <1>1, <1>2, <1>4, QuietStep DEF ChildOK

-----------------------------------------------------------------------------
(* Mutating tools of a child *)

LEMMA WriteAtOnceKeeps ==
  ASSUME IInv, NEW c \in Child, WriteAtOnce(c)
  PROVE  IInv'
<1>1. TypeOK' /\ OnlyOwn(c)
  BY DEF IInv, TypeOK, OnlyOwn, WriteAtOnce, Run, session, history
<1>2. /\ phase[c] = "running" /\ phase'[c] = "writing"
      /\ HoldsWrite(c) /\ ~reval[c]
      /\ UNCHANGED <<scope, epoch, observed, reval, from, ghost, fate, gaveUp, stale, guarded>>
  BY DEF IInv, TypeOK, WriteAtOnce, Run, session, history
<1>3. ChildOK(c) /\ WriteHeld(c)
  BY <1>2, ChildFacts
<1>4. FateOK(c)' /\ AsksOK(c)' /\ HoldsOK(c)' /\ LooksOK(c)'
  BY <1>2, <1>3
     DEF ChildOK, FateOK, AsksOK, HoldsOK, LooksOK, Pending, WriteHeld, Mutates
<1> QED BY <1>1, <1>2, <1>4, QuietStep DEF ChildOK

LEMMA JoinTransitionKeeps ==
  ASSUME IInv, NEW c \in Child, JoinTransition(c)
  PROVE  IInv'
<1>1. TypeOK' /\ OnlyOwn(c)
  BY DEF IInv, TypeOK, OnlyOwn, JoinTransition, Run, session, history
<1>2. /\ phase[c] = "running" /\ phase'[c] = "waiting" /\ Pending(c)
      /\ UNCHANGED <<scope, epoch, observed, reval, from, ghost, fate, gaveUp, stale, guarded>>
  BY DEF IInv, TypeOK, JoinTransition, Run, session, history
<1>3. ChildOK(c)
  BY DEF IInv
<1>4. FateOK(c)' /\ AsksOK(c)' /\ HoldsOK(c)' /\ LooksOK(c)'
  BY <1>2, <1>3
     DEF ChildOK, FateOK, AsksOK, HoldsOK, LooksOK, Pending, WriteHeld, Mutates
<1> QED BY <1>1, <1>2, <1>4, QuietStep DEF ChildOK


(* The refused child has let go of its read lease.                         *)
LEMMA TransitionRefusedKeeps ==
  ASSUME IInv, NEW c \in Child, TransitionRefused(c)
  PROVE  IInv'
<1>1. c \in Run /\ AtRest(scope) /\ ChildOK(c) /\ ~WriteHeld(c)
  BY ChildFacts DEF TransitionRefused
<1>2. /\ phase[c] = "running" /\ ~Pending(c)
      /\ scope' = Freed(c)
      /\ UNCHANGED <<epoch, phase, observed, reval, from, ghost, fate, gaveUp, stale, guarded>>
      /\ OnlyOwn(c)
  BY DEF TransitionRefused, OnlyOwn, session, history
<1>3. Asks(scope, Own(c)) = {} /\ fate[c] = "live"
  BY <1>1, <1>2 DEF ChildOK, FateOK, AsksOK, IInv, TypeOK
<1>4. /\ AtRest(scope') /\ Absent(scope', Own(c))
      /\ \A r \in Request \ {Own(c)} : Keeps(scope, scope', r)
  BY <1>1, <1>2, <1>3, FreedKeeps
<1>5. TypeOK'
  BY <1>2, <1>4 DEF IInv, TypeOK, AtRest, Sound
<1>6. ~WriteHeld(c)' /\ ~Pending(c)' /\ ~Mutates(c)
  BY <1>1, <1>2, <1>3, <1>4 DEF WriteHeld, Absent, Pending, ChildOK, HoldsOK
<1>7. FateOK(c)' /\ AsksOK(c)' /\ HoldsOK(c)'
  BY <1>1, <1>2, <1>4, <1>6
     DEF ChildOK, FateOK, AsksOK, HoldsOK, Absent, Mutates
<1>8. LooksOK(c)'
  BY <1>1, <1>2, <1>6 DEF ChildOK, LooksOK, Mutates
<1> QED BY <1>2, <1>4, <1>5, <1>7, <1>8, ChildStep DEF ChildOK

(* A child that starts a transition waits for nothing yet.                 *)
LEMMA TransitionKeeps ==
  ASSUME IInv, NEW c \in Child, Transition(c)
  PROVE  IInv'
<1>1. c \in Run /\ AtRest(scope) /\ ChildOK(c) /\ ~WriteHeld(c) /\ Own(c) \in Request
  BY ChildFacts DEF Transition
<1>2. /\ phase[c] = "running" /\ ~Pending(c)
      /\ scope' = Asked(Freed(c), Own(c), "write")
      /\ phase'[c] = "waiting" /\ from'[c] = observed[c]
      /\ UNCHANGED <<epoch, observed, reval, ghost, fate, gaveUp, stale, guarded>>
      /\ OnlyOwn(c)
  BY <1>1 DEF IInv, TypeOK, Transition, OnlyOwn, history, Own
<1>3. Asks(scope, Own(c)) = {} /\ fate[c] = "live"
  BY <1>1, <1>2 DEF ChildOK, FateOK, AsksOK, IInv, TypeOK
<1>4. /\ AtRest(Freed(c)) /\ Absent(Freed(c), Own(c))
      /\ \A r \in Request \ {Own(c)} : Keeps(scope, Freed(c), r)
  BY <1>1, <1>3, FreedKeeps
<1>5. /\ AtRest(scope')
      /\ \A r \in Request \ {Own(c)} : Keeps(Freed(c), scope', r)
      /\ \/ Held(scope', Own(c)) = {} /\ Asks(scope', Own(c)) = {"write"}
         \/ Held(scope', Own(c)) = {"write"} /\ Asks(scope', Own(c)) = {}
  BY <1>1, <1>2, <1>4, AskedKeeps DEF Modes, AtRest
<1>6. \A r \in Request \ {Own(c)} : Keeps(scope, scope', r)
  BY <1>4, <1>5, KeepsTwice
<1>7. TypeOK'
  BY <1>2, <1>5 DEF IInv, TypeOK, Transition, AtRest, Sound
<1>8. Pending(c)' /\ ~Mutates(c) /\ ~Mutates(c)' /\ Writes(scope', Own(c))
  <2>1. ~Mutates(c)
    BY <1>1, <1>3 DEF ChildOK, HoldsOK
  <2>2. Pending(c)'
    BY <1>2, EpochAssumption DEF IInv, TypeOK, Pending
  <2>3. Writes(scope', Own(c))
    BY <1>5 DEF Writes
  <2> QED BY <1>2, <2>1, <2>2, <2>3 DEF Mutates
<1>9. FateOK(c)' /\ AsksOK(c)' /\ HoldsOK(c)'
  BY <1>1, <1>2, <1>3, <1>8 DEF ChildOK, FateOK, AsksOK, HoldsOK
<1>10. LooksOK(c)'
  BY <1>1, <1>2, <1>8 DEF ChildOK, LooksOK
<1> QED BY <1>2, <1>5, <1>6, <1>7, <1>9, <1>10, ChildStep DEF ChildOK

(* A transition that finds the epoch it started from finds nothing stale.  *)
LEMMA ResumeKeeps ==
  ASSUME IInv, NEW c \in Child, Resume(c)
  PROVE  IInv'
<1>1. TypeOK' /\ OnlyOwn(c)
  BY DEF IInv, TypeOK, OnlyOwn, Resume, Proceeds, Fails, Run, history
<1>2. /\ Pending(c) /\ Owned(c) # {} /\ ~Pending(c)' /\ observed'[c] = epoch
      /\ UNCHANGED <<scope, epoch, fate, gaveUp, stale, guarded>>
      /\ \/ /\ epoch = from[c]
            /\ phase'[c] = Proceeds(phase[c])
            /\ ghost'[c] = Proceeds(ghost[c])
            /\ reval'[c] = reval[c]
         \/ /\ epoch # from[c]
            /\ phase'[c] = Fails(phase[c], "running")
            /\ ghost'[c] = Fails(ghost[c], "none")
            /\ reval'[c]
  BY DEF IInv, TypeOK, Resume, Unresumed, Pending, Run, history
<1>3. /\ ChildOK(c) /\ epoch \in Nat
      /\ Held(scope, Own(c)) # {} /\ Asks(scope, Own(c)) = {}
  BY <1>2, ChildFacts
<1>4. Writes(scope, Own(c)) /\ "write" \in Held(scope, Own(c))
  BY <1>2, <1>3 DEF ChildOK, AsksOK, Writes
<1>5. WriteHeld(c)'
  BY <1>2, <1>4 DEF WriteHeld
<1>6. FateOK(c)'
  BY <1>2, <1>3 DEF ChildOK, FateOK, AsksOK, Proceeds, Fails, IInv, TypeOK
<1>7. AsksOK(c)'
  BY <1>2, <1>3, <1>4 DEF ChildOK, AsksOK, Proceeds, Fails, Absent
<1>8. HoldsOK(c)'
  BY <1>2, <1>3, <1>5 DEF HoldsOK
<1>9. LooksOK(c)'
  <2>1. CASE epoch = from[c]
    <3>1. fate[c] = "live" /\ guarded[c] /\ stale[c] =>
            /\ phase[c] \notin {"running", "waiting", "reading", "writing"}
            /\ ~Mutates(c)
      BY <1>2, <1>3, <2>1 DEF ChildOK, LooksOK, Mutates
    <3>2. phase'[c] \in {"running", "waiting", "reading", "writing"} =>
            phase[c] \in {"running", "waiting", "reading", "writing"}
      BY <1>2 DEF Proceeds, Fails
    <3>3. fate[c] = "live" => phase[c] \in {"running", "waiting", "reading", "writing"}
      BY <1>2, <1>3 DEF ChildOK, FateOK, AsksOK, IInv, TypeOK, Run
    <3> QED BY <1>2, <1>3, <3>1, <3>3 DEF LooksOK
  <2>2. CASE epoch # from[c]
    <3>1. /\ phase'[c] = Fails(phase[c], "running") /\ reval'[c]
          /\ ghost'[c] = Fails(ghost[c], "none")
      BY <1>2, <2>2
    <3>2. fate[c] = "live" /\ guarded[c] /\ stale[c] =>
            phase'[c] # "reading" /\ ~Mutates(c)'
      BY <1>3, <3>1 DEF ChildOK, LooksOK, Fails, Mutates
    <3> QED BY <1>2, <1>3, <1>5, <3>1, <3>2 DEF LooksOK
  <2> QED BY <2>1, <2>2
<1> QED BY <1>1, <1>2, <1>6, <1>7, <1>8, <1>9, QuietStep DEF ChildOK

-----------------------------------------------------------------------------
(* The end of a mutating call, of any run *)

LEMMA CallEndsFacts ==
  ASSUME IInv, NEW o \in Run, NEW s \in {"call", "ghost"}, CallEnds(o, s)
  PROVE  /\ Mutates(o)
         /\ phase' \in [Run -> {"new", "admitting", "running", "reading",
                               "waiting", "writing", "ended"}]
         /\ ghost' \in [Run -> {"none", "waiting", "writing"}]
         /\ \A p \in Run \ {o} : phase'[p] = phase[p] /\ ghost'[p] = ghost[p]
         /\ \/ /\ s = "call"
               /\ phase[o] = "writing" /\ ghost'[o] = ghost[o]
               /\ phase'[o] = IF fate[o] = "live" THEN "running" ELSE "ended"
            \/ /\ s = "ghost"
               /\ ghost[o] = "writing" /\ ghost'[o] = "none"
               /\ phase'[o] = phase[o]
BY DEF IInv, TypeOK, CallEnds, Mutates

(* What a run that mutates owns is its write lease, beside nobody's.       *)
LEMMA MutatorAlone ==
  ASSUME IInv, NEW o \in Run, Mutates(o), Owned(o) # {},
         NEW p \in Run \ {o}
  PROVE  Owned(p) = {}
<1>1. PICK h \in scope.holders : h.owner = o /\ h.mode = "write"
  <2>1. \E r \in Request : r[1] = o /\ "write" \in Held(scope, r)
    <3>1. CASE o \in Child
      <4>1. /\ ChildOK(o) /\ Own(o) \in Request /\ Own(o)[1] = o
            /\ Held(scope, Own(o)) # {}
        BY <3>1, ChildFacts DEF Own
      <4>2. fate[o] = "live" => "write" \in Held(scope, Own(o))
        BY <4>1 DEF ChildOK, HoldsOK, WriteHeld
      <4>3. fate[o] # "live" => "write" \in Held(scope, Own(o))
        BY <3>1, <4>1 DEF ChildOK, AsksOK, Absent, Writes, IInv, TypeOK
      <4> QED BY <4>1, <4>2, <4>3
    <3>2. CASE o \in Root
      <4>1. RootOK(o) /\ <<o, 1>> \in Request /\ <<o, 2>> \in Request
        BY <3>2, Requests DEF IInv
      <4>2. \E r \in {CallOf(o), GhostOf(o)} : "write" \in Held(scope, r)
        BY <4>1 DEF Mutates, RootOK, FateOK, Stands
      <4> QED BY <4>1, <4>2 DEF CallOf, GhostOf
    <3> QED BY <3>1, <3>2 DEF Run
  <2>2. PICK r \in Request : r[1] = o /\ "write" \in Held(scope, r)
    BY <2>1
  <2>3. PICK h \in LeasesOf(scope, r) : h.mode = "write"
    BY <2>2 DEF Held
  <2>4. h \in Owned(o)
    BY <2>2, <2>3, OwnedStand DEF IInv, AtRest
  <2> QED BY <2>3, <2>4 DEF Owned
<1>2. \A g \in scope.holders : g.owner = o
  BY <1>1 DEF IInv, AtRest, Sound, Exclusive
<1> QED BY <1>2 DEF Owned

(* A mutation changes the view of those only who hold no lease.            *)
LEMMA OutdatesOthers ==
  ASSUME IInv, NEW o \in Run, Mutates(o), Outdates(o), NEW c \in Child \ {o}
  PROVE  stale'[c] = stale[c] \/ Owned(c) = {}
<1>1. CASE Owned(o) = {}
  BY <1>1 DEF IInv, TypeOK, Outdates, Run
<1>2. CASE Owned(o) # {}
  BY <1>2, MutatorAlone DEF Run
<1> QED BY <1>1, <1>2

LEMMA MutateKeeps ==
  ASSUME IInv, NEW c \in Child, NEW s \in {"call", "ghost"}, Mutate(c, s)
  PROVE  IInv'
<1>1. c \in Run /\ c \notin Root /\ ChildOK(c) /\ AtRest(scope)
  BY RunAssumption DEF IInv, Run
<1>2. CallEnds(c, s) /\ Outdates(c)
  BY DEF Mutate
<1>3. /\ Mutates(c)
      /\ \A p \in Run \ {c} : phase'[p] = phase[p] /\ ghost'[p] = ghost[p]
      /\ \/ /\ phase[c] = "writing" /\ ghost'[c] = ghost[c]
            /\ phase'[c] = IF fate[c] = "live" THEN "running" ELSE "ended"
         \/ /\ ghost[c] = "writing" /\ ghost'[c] = "none"
            /\ phase'[c] = phase[c]
  BY <1>1, <1>2, CallEndsFacts
<1>4. /\ epoch' = epoch + 1 /\ observed'[c] = epoch + 1
      /\ epoch \in Nat /\ epoch < MaxEpoch
      /\ stale'[c] = stale[c]
      /\ UNCHANGED <<scope, reval, from, fate, gaveUp, guarded>>
      /\ \A d \in Child \ {c} : observed'[d] = observed[d]
  BY <1>1, <1>2, EpochAssumption DEF IInv, TypeOK, Mutate, Outdates
<1>5. TypeOK'
  <2>1. epoch' \in 0..MaxEpoch
    BY <1>4, EpochAssumption DEF IInv, TypeOK
  <2>2. stale' \in [Run -> BOOLEAN] /\ observed' \in [Child -> 0..MaxEpoch]
    BY <1>2, <1>4, <2>1 DEF IInv, TypeOK, Mutate, Outdates
  <2> QED BY <1>1, <1>2, <1>4, <2>1, <2>2, CallEndsFacts DEF IInv, TypeOK
<1>6. Elsewhere(c)
  <2>1. \A d \in Child \ {c} : stale'[d] = stale[d] \/ Owned(d) = {}
    BY <1>1, <1>2, <1>3, OutdatesOthers
  <2> QED BY <1>3, <1>4, <2>1, KeepsSame DEF Elsewhere
<1>7. /\ \A d \in Child : d # c => ChildOK(d)'
      /\ \A w \in Root : RootOK(w)'
  BY <1>1, <1>5, <1>6, OthersKeep
<1>8. FateOK(c)' /\ AsksOK(c)' /\ HoldsOK(c)'
  BY <1>1, <1>3, <1>4
     DEF ChildOK, FateOK, AsksOK, HoldsOK, Pending, WriteHeld, Mutates
<1>9. LooksOK(c)'
  <2>1. /\ observed'[c] <= epoch'
        /\ Pending(c) /\ from[c] <= epoch => from[c] <= epoch'
    BY <1>4, EpochAssumption DEF IInv, TypeOK, Pending
  <2>2. ~ (fate[c] = "live" /\ guarded[c] /\ stale[c])
    BY <1>1, <1>3 DEF ChildOK, LooksOK
  <2> QED BY <1>1, <1>4, <2>1, <2>2 DEF ChildOK, LooksOK, Pending
<1> QED BY <1>1, <1>4, <1>5, <1>7, <1>8, <1>9 DEF IInv, ChildOK

LEMMA MutationConflictsKeeps ==
  ASSUME IInv, NEW c \in Child, NEW s \in {"call", "ghost"}, MutationConflicts(c, s)
  PROVE  IInv'
<1>1. c \in Run /\ ChildOK(c) /\ CallEnds(c, s) /\ epoch \in Nat
  BY ChildFacts DEF MutationConflicts
<1>2. /\ Mutates(c)
      /\ \A p \in Run \ {c} : phase'[p] = phase[p] /\ ghost'[p] = ghost[p]
      /\ \/ /\ phase[c] = "writing" /\ ghost'[c] = ghost[c]
            /\ phase'[c] = IF fate[c] = "live" THEN "running" ELSE "ended"
         \/ /\ ghost[c] = "writing" /\ ghost'[c] = "none"
            /\ phase'[c] = phase[c]
  BY <1>1, CallEndsFacts
<1>3. /\ observed'[c] = epoch /\ reval'[c]
      /\ UNCHANGED <<scope, epoch, from, fate, gaveUp, stale, guarded>>
  BY DEF IInv, TypeOK, MutationConflicts, history
<1>4. TypeOK' /\ OnlyOwn(c)
  BY <1>1, <1>2, <1>3, CallEndsFacts DEF IInv, TypeOK, MutationConflicts, OnlyOwn
<1>5. FateOK(c)' /\ AsksOK(c)' /\ HoldsOK(c)' /\ LooksOK(c)'
  BY <1>1, <1>2, <1>3
     DEF ChildOK, FateOK, AsksOK, HoldsOK, LooksOK, Pending, WriteHeld, Mutates
<1> QED BY <1>3, <1>4, <1>5, QuietStep DEF ChildOK

LEMMA MutationFailsKeeps ==
  ASSUME IInv, NEW c \in Child, NEW s \in {"call", "ghost"}, MutationFails(c, s)
  PROVE  IInv'
<1>1. /\ c \in Run /\ ChildOK(c) /\ CallEnds(c, s)
      /\ UNCHANGED <<scope, epoch, observed, reval, from, fate, gaveUp, stale, guarded>>
  BY DEF IInv, MutationFails, session, history, Run
<1>2. /\ Mutates(c)
      /\ \A p \in Run \ {c} : phase'[p] = phase[p] /\ ghost'[p] = ghost[p]
      /\ \/ /\ phase[c] = "writing" /\ ghost'[c] = ghost[c]
            /\ phase'[c] = IF fate[c] = "live" THEN "running" ELSE "ended"
         \/ /\ ghost[c] = "writing" /\ ghost'[c] = "none"
            /\ phase'[c] = phase[c]
  BY <1>1, CallEndsFacts
<1>3. TypeOK' /\ OnlyOwn(c)
  BY <1>1, <1>2, CallEndsFacts DEF IInv, TypeOK, OnlyOwn
<1>4. FateOK(c)' /\ AsksOK(c)' /\ HoldsOK(c)' /\ LooksOK(c)'
  BY <1>1, <1>2
     DEF ChildOK, FateOK, AsksOK, HoldsOK, LooksOK, Pending, WriteHeld, Mutates
<1> QED BY <1>1, <1>3, <1>4, QuietStep DEF ChildOK

LEMMA GiveUpKeeps ==
  ASSUME IInv, NEW c \in Child, GiveUp(c)
  PROVE  IInv'
<1>1. TypeOK' /\ OnlyOwn(c)
  BY DEF IInv, TypeOK, OnlyOwn, GiveUp, Run, session
<1>2. /\ phase[c] \in {"waiting", "writing"} /\ phase'[c] = "running"
      /\ fate[c] = "live" /\ c \notin gaveUp
      /\ ghost'[c] = phase[c] /\ c \in gaveUp'
      /\ UNCHANGED <<scope, epoch, observed, reval, from, fate, stale, guarded>>
  BY DEF IInv, TypeOK, GiveUp, Run, session
<1>3. ChildOK(c)
  BY DEF IInv
<1>4. FateOK(c)' /\ AsksOK(c)' /\ HoldsOK(c)' /\ LooksOK(c)'
  BY <1>2, <1>3
     DEF ChildOK, FateOK, AsksOK, HoldsOK, LooksOK, Pending, WriteHeld, Mutates
<1> QED BY <1>1, <1>2, <1>4, QuietStep DEF ChildOK

-----------------------------------------------------------------------------
(* The end of a child *)

(* A request stays behind only when a call was given up.                   *)
LEMMA FinishKeeps ==
  ASSUME IInv, NEW c \in Child, Finish(c)
  PROVE  IInv'
<1>1. c \in Run /\ AtRest(scope) /\ ChildOK(c)
  BY ChildFacts
<1>2. /\ phase[c] = "running" /\ phase'[c] = "ended"
      /\ fate[c] = "live" /\ fate'[c] = "finished"
      /\ scope' = IF Pending(c) THEN scope ELSE Freed(c)
      /\ UNCHANGED <<epoch, observed, reval, from, ghost, gaveUp, stale, guarded>>
      /\ OnlyOwn(c)
  BY <1>1 DEF IInv, TypeOK, Finish, OnlyOwn, Run, session, history, ChildOK, FateOK
<1>3. Pending(c)' <=> Pending(c)
  BY <1>2 DEF Pending
<1>4. /\ AtRest(scope')
      /\ \A r \in Request \ {Own(c)} : Keeps(scope, scope', r)
      /\ \/ Absent(scope', Own(c)) /\ ~Pending(c)
         \/ Pending(c) /\ c \in gaveUp /\ Writes(scope', Own(c))
  <2>1. CASE Pending(c)
    BY <1>1, <1>2, <2>1, KeepsSame DEF ChildOK, AsksOK
  <2>2. CASE ~Pending(c)
    <3>1. Asks(scope, Own(c)) = {}
      BY <1>1, <1>2, <2>2 DEF ChildOK, AsksOK
    <3> QED BY <1>1, <1>2, <2>2, <3>1, FreedKeeps
  <2> QED BY <2>1, <2>2
<1>5. TypeOK'
  BY <1>2, <1>4 DEF IInv, TypeOK, Finish, AtRest, Sound
<1>6. FateOK(c)' /\ AsksOK(c)' /\ HoldsOK(c)' /\ LooksOK(c)'
  BY <1>1, <1>2, <1>3, <1>4 DEF ChildOK, FateOK, AsksOK, HoldsOK, LooksOK
<1> QED BY <1>2, <1>4, <1>5, <1>6, ChildStep DEF ChildOK

(* A cancelled child leaves nothing in the scope, whatever it waited for.  *)
LEMMA CancelKeeps ==
  ASSUME IInv, NEW c \in Child, Cancel(c)
  PROVE  IInv'
<1>1. /\ c \in Run /\ AtRest(scope) /\ ChildOK(c)
      /\ Waits(c) <=> Asks(scope, Own(c)) # {}
  BY ChildFacts
<1>2. /\ phase'[c] = Stopped(phase[c], "ended")
      /\ ghost'[c] = Stopped(ghost[c], "none")
      /\ fate[c] = "live" /\ fate'[c] = "cancelled" /\ ~Pending(c)'
      /\ scope' = IF Waits(c) THEN Aborted(scope, c) ELSE Freed(c)
      /\ UNCHANGED <<epoch, observed, reval, gaveUp, stale, guarded>>
      /\ OnlyOwn(c)
  BY <1>1 DEF IInv, TypeOK, Cancel, OnlyOwn, Pending, history
<1>3. /\ AtRest(scope') /\ Absent(scope', Own(c))
      /\ \A r \in Request \ {Own(c)} : Keeps(scope, scope', r)
  BY <1>1, <1>2, ChildAborted, FreedKeeps
<1>4. TypeOK'
  BY <1>2, <1>3 DEF IInv, TypeOK, Cancel, AtRest, Sound, Stopped
<1>5. FateOK(c)' /\ AsksOK(c)' /\ HoldsOK(c)' /\ LooksOK(c)'
  BY <1>1, <1>2, <1>3
     DEF ChildOK, FateOK, AsksOK, HoldsOK, LooksOK, Stopped
<1> QED BY <1>2, <1>3, <1>4, <1>5, ChildStep DEF ChildOK

-----------------------------------------------------------------------------
(* Root runs *)

LEMMA RootStep ==
  ASSUME IInv, TypeOK', NEW w \in Root, Elsewhere(w), AtRest(scope'), RootOK(w)'
  PROVE  IInv'
<1>1. w \in Run /\ w \notin Child
  BY RunAssumption DEF Run
<1>2. /\ \A c \in Child : ChildOK(c)'
      /\ \A v \in Root : v # w => RootOK(v)'
  BY <1>1, OthersKeep
<1> QED BY <1>2 DEF IInv

LEMMA RootFacts ==
  ASSUME IInv, NEW w \in Root
  PROVE  /\ w \in Run /\ w \notin Child /\ AtRest(scope) /\ RootOK(w)
         /\ CallOf(w) = <<w, IF w \in gaveUp THEN 2 ELSE 1>>
         /\ GhostOf(w) = <<w, 1>>
         /\ CallOf(w) \in Request /\ CallOf(w)[1] = w
         /\ GhostOf(w) \in Request /\ GhostOf(w)[1] = w
         /\ <<w, 2>> \in Request
         /\ w \in gaveUp <=> CallOf(w) # GhostOf(w)
         /\ Granting(CallOf(w)) <=> Held(scope, CallOf(w)) # {}
         /\ Granting(GhostOf(w)) <=> Held(scope, GhostOf(w)) # {}
<1>1. w \in Run /\ w \notin Child /\ AtRest(scope) /\ RootOK(w)
  BY RunAssumption DEF IInv, Run
<1>2. /\ CallOf(w) = <<w, IF w \in gaveUp THEN 2 ELSE 1>>
      /\ GhostOf(w) = <<w, 1>>
  BY DEF CallOf, GhostOf
<1>3. <<w, 1>> \in Request /\ <<w, 2>> \in Request
  BY Requests
<1>4. /\ CallOf(w) \in Request /\ CallOf(w)[1] = w
      /\ GhostOf(w) \in Request /\ GhostOf(w)[1] = w
      /\ w \in gaveUp <=> CallOf(w) # GhostOf(w)
  BY <1>2, <1>3
<1>5. /\ Granting(CallOf(w)) <=> Held(scope, CallOf(w)) # {}
      /\ Granting(GhostOf(w)) <=> Held(scope, GhostOf(w)) # {}
  BY <1>1, <1>4, OwnedStand DEF AtRest
<1> QED BY <1>1, <1>2, <1>3, <1>4, <1>5

(* A root run that mutates has a lease.                                     *)
LEMMA RootMutates ==
  ASSUME IInv, NEW w \in Root, Mutates(w)
  PROVE  Owned(w) # {}
<1>1. /\ RootOK(w) /\ AtRest(scope)
      /\ CallOf(w) \in Request /\ CallOf(w)[1] = w
      /\ GhostOf(w) \in Request /\ GhostOf(w)[1] = w
  BY RootFacts
<1>2. \E r \in {CallOf(w), GhostOf(w)} : Held(scope, r) # {}
  BY <1>1 DEF Mutates, RootOK, FateOK, Stands
<1>3. PICK r \in Request : r[1] = w /\ LeasesOf(scope, r) # {}
  BY <1>1, <1>2, EmptyParts
<1> QED BY <1>1, <1>3, OwnedStand DEF AtRest

(* A step of the call that w awaits: the one given up goes on standing.    *)
LEMMA RootCallStep ==
  ASSUME IInv, NEW w \in Root,
         \A r \in Request \ {CallOf(w)} : Keeps(scope, scope', r),
         Stands(scope', CallOf(w), phase'[w]),
         UNCHANGED gaveUp, ghost'[w] = ghost[w], FateOK(w)',
         fate'[w] = fate[w],
         phase'[w] \in {"running", "waiting", "writing", "ended"}
  PROVE  RootOK(w)'
<1>1. /\ RootOK(w) /\ GhostOf(w) \in Request /\ <<w, 2>> \in Request
      /\ GhostOf(w) # CallOf(w) <=> w \in gaveUp
      /\ w \notin gaveUp => <<w, 2>> # CallOf(w)
      /\ CallOf(w)' = CallOf(w) /\ GhostOf(w)' = GhostOf(w)
  <2>1. CallOf(w)' = CallOf(w) /\ GhostOf(w)' = GhostOf(w)
    BY DEF CallOf, GhostOf
  <2> QED BY <2>1, RootFacts
<1>2. CASE w \in gaveUp
  <2>1. Stands(scope', GhostOf(w), ghost[w])
    BY <1>1, <1>2, StandsKept DEF RootOK
  <2> QED BY <1>1, <1>2, <2>1 DEF RootOK
<1>3. CASE w \notin gaveUp
  <2>1. Absent(scope', <<w, 2>>)
    BY <1>1, <1>3 DEF RootOK, Keeps, Same, Gets, Absent
  <2> QED BY <1>1, <1>3, <2>1 DEF RootOK
<1> QED BY <1>2, <1>3

(* A step of the call that w gave up: the one it awaits goes on standing.  *)
LEMMA RootGhostStep ==
  ASSUME IInv, NEW w \in Root, w \in gaveUp,
         \A r \in Request \ {GhostOf(w)} : Keeps(scope, scope', r),
         Stands(scope', GhostOf(w), ghost'[w]),
         UNCHANGED gaveUp, phase'[w] = phase[w], FateOK(w)',
         fate'[w] = fate[w], ghost'[w] # "waiting"
  PROVE  RootOK(w)'
<1>1. /\ RootOK(w) /\ CallOf(w) \in Request
      /\ GhostOf(w) # CallOf(w)
      /\ CallOf(w)' = CallOf(w) /\ GhostOf(w)' = GhostOf(w)
  <2>1. CallOf(w)' = CallOf(w) /\ GhostOf(w)' = GhostOf(w)
    BY DEF CallOf, GhostOf
  <2> QED BY <2>1, RootFacts
<1>2. Stands(scope', CallOf(w), phase[w])
  BY <1>1, StandsKept DEF RootOK
<1> QED BY <1>1, <1>2 DEF RootOK

LEMMA RootJoinsKeeps ==
  ASSUME IInv, NEW w \in Root, RootJoins(w)
  PROVE  IInv'
<1>1. /\ w \in Run /\ w \notin Child /\ AtRest(scope) /\ RootOK(w)
      /\ CallOf(w) \in Request /\ CallOf(w)[1] = w
  BY RootFacts
<1>2. PICK h \in Reentrant(scope, w, "write") :
        scope' = Replaced(scope, h, Joined(h, CallOf(w), 1, TRUE))
  BY DEF RootJoins
<1>3. /\ phase[w] = "running" /\ phase'[w] = "waiting"
      /\ \A p \in Run \ {w} : phase'[p] = phase[p]
      /\ UNCHANGED <<epoch, observed, reval, from, ghost, fate, gaveUp, stale, guarded>>
  BY <1>1 DEF IInv, TypeOK, RootJoins, session, history
<1>4. Absent(scope, CallOf(w))
  BY <1>1, <1>3 DEF RootOK, Stands
<1>5. /\ AtRest(scope')
      /\ \A r \in Request \ {CallOf(w)} : Keeps(scope, scope', r)
      /\ Held(scope', CallOf(w)) = {"write"} /\ Asks(scope', CallOf(w)) = {}
  BY <1>1, <1>2, <1>4, JoinKeeps
<1>6. TypeOK'
  BY <1>3, <1>5 DEF IInv, TypeOK, RootJoins, AtRest, Sound
<1>7. Elsewhere(w)
  BY <1>1, <1>3, <1>5 DEF Elsewhere
<1>8. FateOK(w)' /\ Stands(scope', CallOf(w), phase'[w])
  BY <1>1, <1>3, <1>5 DEF RootOK, FateOK, Stands
<1>9. RootOK(w)'
  BY <1>3, <1>5, <1>8, RootCallStep
<1> QED BY <1>5, <1>6, <1>7, <1>9, RootStep

LEMMA RootAsksKeeps ==
  ASSUME IInv, NEW w \in Root, RootAsks(w)
  PROVE  IInv'
<1>1. /\ w \in Run /\ w \notin Child /\ AtRest(scope) /\ RootOK(w)
      /\ CallOf(w) \in Request /\ CallOf(w)[1] = w
  BY RootFacts
<1>2. /\ phase[w] = "running" /\ phase'[w] = "waiting"
      /\ scope' = Asked(scope, CallOf(w), "write")
      /\ \A p \in Run \ {w} : phase'[p] = phase[p]
      /\ UNCHANGED <<epoch, observed, reval, from, ghost, fate, gaveUp, stale, guarded>>
  BY <1>1 DEF IInv, TypeOK, RootAsks, session, history
<1>3. Absent(scope, CallOf(w))
  BY <1>1, <1>2 DEF RootOK, Stands
<1>4. /\ AtRest(scope')
      /\ \A r \in Request \ {CallOf(w)} : Keeps(scope, scope', r)
      /\ \/ Held(scope', CallOf(w)) = {} /\ Asks(scope', CallOf(w)) = {"write"}
         \/ Held(scope', CallOf(w)) = {"write"} /\ Asks(scope', CallOf(w)) = {}
  BY <1>1, <1>2, <1>3, AskedKeeps DEF Modes, AtRest
<1>5. TypeOK'
  BY <1>2, <1>4 DEF IInv, TypeOK, RootAsks, AtRest, Sound
<1>6. Elsewhere(w)
  BY <1>1, <1>2, <1>4 DEF Elsewhere
<1>7. FateOK(w)' /\ Stands(scope', CallOf(w), phase'[w])
  BY <1>1, <1>2, <1>4 DEF RootOK, FateOK, Stands
<1>8. RootOK(w)'
  BY <1>2, <1>4, <1>7, RootCallStep
<1> QED BY <1>4, <1>5, <1>6, <1>8, RootStep

LEMMA RootWritesKeeps ==
  ASSUME IInv, NEW w \in Root, RootWrites(w)
  PROVE  IInv'
<1>1. /\ w \in Run /\ RootOK(w) /\ AtRest(scope)
      /\ Granting(CallOf(w)) <=> Held(scope, CallOf(w)) # {}
      /\ Granting(GhostOf(w)) <=> Held(scope, GhostOf(w)) # {}
  BY RootFacts
<1>2. /\ UNCHANGED <<scope, epoch, observed, reval, from, fate, gaveUp, stale, guarded>>
      /\ \A p \in Run \ {w} : phase'[p] = phase[p] /\ ghost'[p] = ghost[p]
      /\ \/ /\ phase[w] = "waiting" /\ Granting(CallOf(w))
            /\ phase'[w] = "writing" /\ ghost'[w] = ghost[w]
         \/ /\ ghost[w] = "waiting" /\ Granting(GhostOf(w))
            /\ ghost'[w] = "writing" /\ phase'[w] = phase[w]
  BY <1>1 DEF IInv, TypeOK, RootWrites, session, history
<1>3. TypeOK'
  BY <1>2 DEF IInv, TypeOK, RootWrites
<1>4. Elsewhere(w) /\ AtRest(scope') /\ \A r \in Request : Keeps(scope, scope', r)
  BY <1>1, <1>2, KeepsSame DEF Elsewhere
<1>5. FateOK(w)'
  BY <1>1, <1>2 DEF RootOK, FateOK
<1>6. RootOK(w)'
  <2>1. CASE /\ phase[w] = "waiting" /\ Granting(CallOf(w))
             /\ phase'[w] = "writing" /\ ghost'[w] = ghost[w]
    <3>1. Stands(scope', CallOf(w), phase'[w])
      BY <1>1, <1>2, <2>1 DEF RootOK, Stands
    <3> QED BY <1>2, <1>4, <1>5, <2>1, <3>1, RootCallStep
  <2>2. CASE /\ ghost[w] = "waiting" /\ Granting(GhostOf(w))
             /\ ghost'[w] = "writing" /\ phase'[w] = phase[w]
    <3>1. w \in gaveUp
      BY <1>1, <2>2 DEF RootOK, FateOK
    <3>2. Stands(scope', GhostOf(w), ghost'[w])
      BY <1>1, <1>2, <2>2, <3>1 DEF RootOK, Stands
    <3> QED BY <1>2, <1>4, <1>5, <2>2, <3>1, <3>2, RootGhostStep
  <2> QED BY <1>2, <2>1, <2>2
<1> QED BY <1>3, <1>4, <1>6, RootStep

(* The call that ends lets its own request go, and no other.               *)
LEMMA RootDoneKeeps ==
  ASSUME IInv, NEW w \in Root, NEW s \in {"call", "ghost"}, RootDone(w, s)
  PROVE  IInv'
<1> DEFINE r == IF s = "call" THEN CallOf(w) ELSE GhostOf(w)
<1>1. /\ w \in Run /\ w \notin Child /\ AtRest(scope) /\ RootOK(w)
      /\ r \in Request /\ r[1] = w
  BY RootFacts
<1>2. CallEnds(w, s) /\ scope' = Released(w, r)
  BY DEF RootDone
<1>3. /\ Mutates(w)
      /\ \A p \in Run \ {w} : phase'[p] = phase[p] /\ ghost'[p] = ghost[p]
      /\ \/ /\ s = "call"
            /\ phase[w] = "writing" /\ ghost'[w] = ghost[w]
            /\ phase'[w] = IF fate[w] = "live" THEN "running" ELSE "ended"
         \/ /\ s = "ghost"
            /\ ghost[w] = "writing" /\ ghost'[w] = "none"
            /\ phase'[w] = phase[w]
  BY <1>1, <1>2, CallEndsFacts
<1>4. UNCHANGED <<observed, reval, from, fate, gaveUp, guarded>>
  BY DEF RootDone, session
<1>5. ghost[w] = "writing" => w \in gaveUp
  BY <1>1 DEF RootOK, FateOK
<1>6. Held(scope, r) # {}
  BY <1>1, <1>3, <1>5 DEF RootOK, Stands
<1>7. /\ AtRest(scope') /\ Absent(scope', r)
      /\ \A x \in Request \ {r} : Keeps(scope, scope', x)
  BY <1>1, <1>2, <1>6, ReleasedKeeps
<1>8. /\ epoch' \in 0..MaxEpoch /\ epoch' \in {epoch, epoch + 1}
      /\ stale' \in [Run -> BOOLEAN]
      /\ \A c \in Child : \/ stale'[c] = stale[c]
                          \/ epoch' = epoch + 1 /\ Owned(c) = {}
  <2>1. CASE epoch < MaxEpoch /\ epoch' = epoch + 1 /\ Outdates(w)
    <3>1. \A c \in Child : stale'[c] = stale[c] \/ Owned(c) = {}
      BY <1>1, <1>3, <2>1, OutdatesOthers
    <3>2. epoch' \in 0..MaxEpoch
      BY <2>1, EpochAssumption DEF IInv, TypeOK
    <3>3. stale' \in [Run -> BOOLEAN]
      BY <2>1 DEF IInv, TypeOK, Outdates
    <3> QED BY <2>1, <3>1, <3>2, <3>3
  <2>2. CASE UNCHANGED <<epoch, stale>>
    BY <2>2 DEF IInv, TypeOK
  <2> QED BY <2>1, <2>2 DEF RootDone
<1>9. TypeOK'
  BY <1>1, <1>2, <1>4, <1>7, <1>8, CallEndsFacts DEF IInv, TypeOK, AtRest, Sound
<1>10. Elsewhere(w)
  BY <1>1, <1>3, <1>4, <1>7, <1>8 DEF Elsewhere
<1>11. FateOK(w)'
  BY <1>1, <1>3, <1>4 DEF RootOK, FateOK
<1>12. RootOK(w)'
  <2>1. CASE s = "call"
    <3>1. Stands(scope', CallOf(w), phase'[w])
      BY <1>3, <1>7, <2>1 DEF Stands
    <3> QED BY <1>3, <1>4, <1>7, <1>11, <2>1, <3>1, RootCallStep
  <2>2. CASE s = "ghost"
    <3>1. Stands(scope', GhostOf(w), ghost'[w])
      BY <1>3, <1>7, <2>2 DEF Stands
    <3> QED BY <1>3, <1>4, <1>5, <1>7, <1>11, <2>2, <3>1, RootGhostStep
  <2> QED BY <2>1, <2>2
<1> QED BY <1>7, <1>9, <1>10, <1>12, RootStep

(* The call that is given up stands for itself, and the next for itself.   *)
LEMMA RootGiveUpKeeps ==
  ASSUME IInv, NEW w \in Root, GiveUp(w)
  PROVE  IInv'
<1>1. w \in Run /\ w \notin Child /\ AtRest(scope) /\ RootOK(w)
  BY RootFacts
<1>2. /\ phase[w] \in {"waiting", "writing"} /\ phase'[w] = "running"
      /\ fate[w] = "live" /\ w \notin gaveUp
      /\ ghost'[w] = phase[w] /\ gaveUp' = gaveUp \cup {w}
      /\ \A p \in Run \ {w} : phase'[p] = phase[p] /\ ghost'[p] = ghost[p]
      /\ UNCHANGED <<scope, epoch, observed, reval, from, fate, stale, guarded>>
  BY <1>1 DEF IInv, TypeOK, GiveUp, session
<1>3. TypeOK'
  BY <1>1, <1>2 DEF IInv, TypeOK, GiveUp
<1>4. Elsewhere(w) /\ AtRest(scope')
  BY <1>1, <1>2, KeepsSame DEF Elsewhere
<1>5. /\ CallOf(w) = <<w, 1>>
      /\ CallOf(w)' = <<w, 2>> /\ GhostOf(w)' = <<w, 1>>
  BY <1>2 DEF CallOf, GhostOf
<1>6. Stands(scope', CallOf(w)', phase'[w]) /\ Stands(scope', GhostOf(w)', ghost'[w])
  BY <1>1, <1>2, <1>5 DEF RootOK, Stands
<1>7. FateOK(w)'
  BY <1>1, <1>2 DEF RootOK, FateOK
<1>8. RootOK(w)'
  BY <1>2, <1>6, <1>7 DEF RootOK
<1> QED BY <1>3, <1>4, <1>8, RootStep

(* A cancelled root run keeps the leases of the bodies that write on, and  *)
(* waits for nothing.                                                      *)
LEMMA RootCancelKeeps ==
  ASSUME IInv, NEW w \in Root, RootCancel(w)
  PROVE  IInv'
<1>1. /\ w \in Run /\ w \notin Child /\ AtRest(scope) /\ RootOK(w)
      /\ CallOf(w) = <<w, IF w \in gaveUp THEN 2 ELSE 1>>
      /\ GhostOf(w) = <<w, 1>>
      /\ Granting(CallOf(w)) <=> Held(scope, CallOf(w)) # {}
      /\ Granting(GhostOf(w)) <=> Held(scope, GhostOf(w)) # {}
  BY RootFacts
<1>2. /\ phase[w] \in {"running", "waiting", "writing"}
      /\ fate[w] = "live" /\ fate'[w] = "cancelled" /\ ~Unstarted(w)
      /\ phase'[w] = Stopped(phase[w], "ended")
      /\ ghost'[w] = Stopped(ghost[w], "none")
      /\ scope' = Aborted(Aborted(scope, w), w)
      /\ \A p \in Run \ {w} : /\ phase'[p] = phase[p] /\ ghost'[p] = ghost[p]
                              /\ fate'[p] = fate[p]
      /\ UNCHANGED <<epoch, observed, reval, from, gaveUp, stale, guarded>>
  BY <1>1 DEF IInv, TypeOK, RootCancel, session, history
<1>3. w \notin gaveUp => ghost[w] = "none"
  BY <1>1 DEF RootOK, FateOK
<1>4. /\ Asks(scope, <<w, 1>>) \subseteq {"write"}
      /\ Asks(scope, <<w, 2>>) \subseteq {"write"}
  <2>1. \A r, t : Stands(scope, r, t) => Asks(scope, r) \subseteq {"write"}
    BY DEF Stands, Absent
  <2> QED BY <1>1, <2>1 DEF RootOK, Absent
<1>5. /\ AtRest(scope')
      /\ \A r \in Request : r[1] # w => Keeps(scope, scope', r)
      /\ \A r \in {<<w, 1>>, <<w, 2>>} :
           Held(scope', r) = Held(scope, r) /\ Asks(scope', r) = {}
  BY <1>1, <1>2, <1>4, RootAborted
<1>6. TypeOK'
  BY <1>2, <1>5 DEF IInv, TypeOK, RootCancel, AtRest, Sound, Stopped
<1>7. Elsewhere(w)
  BY <1>1, <1>2, <1>5 DEF Elsewhere
<1>8. FateOK(w)' /\ phase'[w] \in {"writing", "ended"} /\ ghost'[w] # "waiting"
  BY <1>1, <1>2 DEF RootOK, FateOK, Stopped, IInv, TypeOK
<1>9. /\ phase[w] = "waiting" => Held(scope, CallOf(w)) = {}
      /\ ghost[w] = "waiting" => Held(scope, GhostOf(w)) = {}
  BY <1>1, <1>2 DEF Unstarted
<1>10. Stands(scope', CallOf(w), phase'[w])
  <2>1. /\ Held(scope', CallOf(w)) = Held(scope, CallOf(w))
        /\ Asks(scope', CallOf(w)) = {} /\ Stands(scope, CallOf(w), phase[w])
    BY <1>1, <1>5 DEF RootOK
  <2> QED BY <1>2, <1>9, <2>1 DEF Stands, Stopped, Absent
<1>11. ASSUME w \in gaveUp PROVE Stands(scope', GhostOf(w), ghost'[w])
  <2>1. /\ Held(scope', GhostOf(w)) = Held(scope, GhostOf(w))
        /\ Asks(scope', GhostOf(w)) = {} /\ Stands(scope, GhostOf(w), ghost[w])
    BY <1>1, <1>5, <1>11 DEF RootOK
  <2> QED BY <1>2, <1>9, <2>1 DEF Stands, Stopped, Absent, IInv, TypeOK
<1>12. ASSUME w \notin gaveUp PROVE Absent(scope', <<w, 2>>)
  BY <1>1, <1>5, <1>12 DEF RootOK, Absent
<1>13. RootOK(w)'
  <2>1. CallOf(w)' = CallOf(w) /\ GhostOf(w)' = GhostOf(w)
    BY <1>2 DEF CallOf, GhostOf
  <2> QED BY <1>2, <1>8, <1>10, <1>11, <1>12, <2>1 DEF RootOK
<1> QED BY <1>5, <1>6, <1>7, <1>13, RootStep

-----------------------------------------------------------------------------
(* The invariant holds *)

LEMMA InitHolds ==
  ASSUME Init
  PROVE  IInv
<1>1. EmptyScope \in Scope /\ EmptyScope.holders = {} /\ EmptyScope.queue = << >>
      /\ Len(EmptyScope.queue) = 0
  BY EmptySeq DEF EmptyScope, Scope
<1>2. \A r : LeasesOf(scope, r) = {} /\ QueuedOf(scope, r) = {} /\ Absent(scope, r)
  BY <1>1 DEF Init, LeasesOf, QueuedOf, Absent, Held, Asks
<1>3. AtRest(scope)
  BY <1>1, <1>2 DEF Init, AtRest, Sound, Exclusive, Once, Shared
<1>4. TypeOK
  BY <1>1, EpochAssumption DEF Init, TypeOK
<1>5. ASSUME NEW c \in Child PROVE ChildOK(c)
  <2>1. /\ phase[c] = "new" /\ observed[c] = 0 /\ epoch = 0
        /\ from[c] = NoEpoch /\ ghost[c] = "none" /\ ~stale[c]
        /\ fate[c] = "live" /\ c \notin gaveUp
    BY DEF Init, Run
  <2>2. ~Pending(c)
    BY <2>1 DEF Pending
  <2>3. FateOK(c) /\ AsksOK(c)
    BY <1>2, <2>1, <2>2 DEF FateOK, AsksOK, Absent
  <2> QED BY <2>1, <2>2, <2>3 DEF ChildOK, HoldsOK, LooksOK, Mutates
<1>6. ASSUME NEW w \in Root PROVE RootOK(w)
  <2>1. /\ phase[w] = "running" /\ ghost[w] = "none" /\ fate[w] = "live"
        /\ w \notin gaveUp
    BY RunAssumption DEF Init, Run
  <2> QED BY <1>2, <2>1 DEF RootOK, FateOK, Stands
<1> QED BY <1>3, <1>4, <1>5, <1>6 DEF IInv

LEMMA NextKeeps ==
  ASSUME IInv, [Next]_vars
  PROVE  IInv'
<1>1. CASE UNCHANGED vars
  <2>1. TypeOK' /\ AtRest(scope')
    BY <1>1 DEF vars, IInv, TypeOK
  <2>2. ASSUME NEW c \in Child PROVE ChildOK(c)'
    BY <1>1 DEF vars, IInv, ChildOK, FateOK, AsksOK, HoldsOK, LooksOK, Pending,
                WriteHeld, Mutates
  <2>3. ASSUME NEW w \in Root PROVE RootOK(w)'
    BY <1>1 DEF vars, IInv, RootOK, FateOK, CallOf, GhostOf
  <2> QED BY <2>1, <2>2, <2>3 DEF IInv
<1>2. ASSUME NEW c \in Child,
             \/ AdmissionRefused(c) \/ Admit(c) \/ Admitted(c)
             \/ BeginRead(c) \/ FinishRead(c)
             \/ WriteAtOnce(c)
             \/ TransitionRefused(c) \/ Transition(c) \/ JoinTransition(c) \/ Resume(c)
             \/ \E s \in {"call", "ghost"} :
                  Mutate(c, s) \/ MutationConflicts(c, s) \/ MutationFails(c, s)
             \/ GiveUp(c) \/ Finish(c) \/ Cancel(c)
      PROVE  IInv'
  BY <1>2, AdmissionRefusedKeeps, AdmitKeeps, AdmittedKeeps, BeginReadKeeps,
     FinishReadKeeps, WriteAtOnceKeeps, TransitionRefusedKeeps, TransitionKeeps,
     JoinTransitionKeeps, ResumeKeeps, MutateKeeps, MutationConflictsKeeps,
     MutationFailsKeeps, GiveUpKeeps, FinishKeeps, CancelKeeps
<1>3. ASSUME NEW w \in Root,
             \/ RootJoins(w) \/ RootAsks(w) \/ RootWrites(w)
             \/ \E s \in {"call", "ghost"} : RootDone(w, s)
             \/ GiveUp(w) \/ RootCancel(w)
      PROVE  IInv'
  BY <1>3, RootJoinsKeeps, RootAsksKeeps, RootWritesKeeps, RootDoneKeeps,
     RootGiveUpKeeps, RootCancelKeeps
<1> QED BY <1>1, <1>2, <1>3 DEF Next

LEMMA Invariant == Spec => []IInv
<1>1. Init => IInv
  BY InitHolds
<1>2. IInv /\ [Next]_vars => IInv'
  BY NextKeeps
<1> QED BY <1>1, <1>2, PTL DEF Spec

(* Every variable of the session keeps its type, in particular the scope:  *)
(* whatever runs ask, give up and release, drain() finds leases and        *)
(* waiters it can handle.                                                  *)
THEOREM TypeCorrect == Spec => []TypeOK
<1>1. IInv => TypeOK
  BY DEF IInv
<1> QED BY <1>1, Invariant, PTL

(* While a run mutates the workspace, no other does, and none reads under  *)
(* a lease: ensureWrite and withWorkspaceMutationLease let a call through  *)
(* under a write lease only, which is nobody else's, and a call that is    *)
(* given up, or whose root run is cancelled, keeps it until its body ends. *)
(* Only the body of a child that is over (session.release() has freed its  *)
(* lease) is on its own: neither is it alone, nor are others beside it.    *)
THEOREM MutationsAreAlone == Spec => []WriterWorksAlone
<1>1. ASSUME IInv PROVE WriterWorksAlone
  <2> SUFFICES ASSUME NEW a \in Run, NEW b \in Run, a # b, Mutates(a), ~Late(a)
               PROVE  /\ Mutates(b) => Late(b)
                      /\ ~ (phase[b] = "reading" /\ guarded[b])
    BY DEF WriterWorksAlone
  <2>1. Owned(a) # {}
    <3>1. CASE a \in Child
      <4>1. ChildOK(a) /\ (Owned(a) = {} <=> Held(scope, Own(a)) = {})
        BY <1>1, <3>1, ChildFacts
      <4>2. fate[a] = "live" => Owned(a) # {}
        BY <4>1 DEF ChildOK, HoldsOK, WriteHeld
      <4> QED BY <3>1, <4>2 DEF Late
    <3>2. CASE a \in Root
      BY <1>1, <3>2, RootMutates
    <3> QED BY <3>1, <3>2 DEF Run
  <2>2. Owned(b) = {}
    BY <1>1, <2>1, MutatorAlone
  <2>3. CASE b \in Child
    <3>1. ChildOK(b) /\ (Owned(b) = {} <=> Held(scope, Own(b)) = {})
      BY <1>1, <2>3, ChildFacts
    <3> QED BY <2>2, <2>3, <3>1 DEF ChildOK, HoldsOK, WriteHeld, Late
  <2>4. CASE b \in Root
    <3>1. ~Mutates(b)
      BY <1>1, <2>2, <2>4, RootMutates
    <3> QED BY <1>1, <2>4, <3>1 DEF IInv, RootOK
  <2> QED BY <2>3, <2>4 DEF Run
<1> QED BY <1>1, Invariant, PTL

(* What stands in the scope is what the runs have under way: a request     *)
(* stands there once, a lease counts the requests that share it, the       *)
(* requests of a root run are those of its calls that have not ended, and  *)
(* a child that is over has none, but for the write request that a child   *)
(* leaves behind which finished beside a given-up call.                    *)
THEOREM RequestsAreShared == Spec => []RequestsOfCalls
<1>1. ASSUME IInv PROVE RequestsOfCalls
  <2>1. Sound(scope) /\ Once(scope) /\ Shared(scope)
    BY <1>1 DEF IInv, AtRest, Sound
  <2>2. \A r : Waiting(r) = QueuedOf(scope, r) /\ Sharing(r) = LeasesOf(scope, r)
    BY DEF Waiting, QueuedOf, Sharing, LeasesOf
  <2>3. ASSUME NEW r \in Request
        PROVE  Cardinality(Waiting(r)) + Cardinality(Sharing(r)) <= 1
    <3>1. /\ \A g, h \in LeasesOf(scope, r) : g = h
          /\ \A i, j \in QueuedOf(scope, r) : i = j
          /\ LeasesOf(scope, r) = {} \/ QueuedOf(scope, r) = {}
      BY <2>1 DEF Once
    <3>2. ASSUME NEW S, \A x, y \in S : x = y
          PROVE  S = {} \/ \E x : S = {x}
      BY <3>2
    <3>3. ASSUME NEW S, \A x, y \in S : x = y
          PROVE  (Cardinality(S) = 0 /\ S = {}) \/ Cardinality(S) = 1
      BY <3>2, <3>3, FS_EmptySet, FS_Singleton
    <3>4. \/ Cardinality(LeasesOf(scope, r)) = 0
          \/ Cardinality(LeasesOf(scope, r)) = 1 /\ LeasesOf(scope, r) # {}
      BY <3>1, <3>3, FS_EmptySet
    <3>5. \/ Cardinality(QueuedOf(scope, r)) = 0
          \/ Cardinality(QueuedOf(scope, r)) = 1 /\ QueuedOf(scope, r) # {}
      BY <3>1, <3>3, FS_EmptySet
    <3>6. Cardinality(QueuedOf(scope, r)) + Cardinality(LeasesOf(scope, r)) <= 1
      BY <3>1, <3>4, <3>5
    <3> QED BY <2>2, <3>6
  <2>4. \A h \in scope.holders : h.refs = Cardinality(h.handlers)
    BY <2>1 DEF Shared, Counted
  <2>5. \A o : Standing(o) = {r \in {o} \X Calls(o) : ~Absent(scope, r)}
    BY <2>2, EmptyParts DEF Standing, Absent
  <2>6. ASSUME NEW w \in Root PROVE Standing(w) = UnderWay(w)
    <3>1. /\ RootOK(w) /\ GhostOf(w) = <<w, 1>>
          /\ CallOf(w) = <<w, IF w \in gaveUp THEN 2 ELSE 1>>
      BY <1>1, RootFacts
    <3>2. {w} \X Calls(w) = {<<w, 1>>, <<w, 2>>}
      BY RunAssumption DEF Calls
    <3>3. \A r, t : /\ t \in {"waiting", "writing"} /\ Stands(scope, r, t) =>
                         ~Absent(scope, r)
                    /\ t \notin {"waiting", "writing"} /\ Stands(scope, r, t) =>
                         Absent(scope, r)
      BY DEF Stands, Absent
    <3>4. ~Absent(scope, CallOf(w)) <=> phase[w] \in {"waiting", "writing"}
      BY <3>1, <3>3 DEF RootOK
    <3>5. CASE w \in gaveUp
      <4>1. ~Absent(scope, <<w, 1>>) <=> ghost[w] \in {"waiting", "writing"}
        BY <3>1, <3>3, <3>5 DEF RootOK
      <4>2. ghost[w] \in {"waiting", "writing"} <=> ghost[w] # "none"
        BY <1>1 DEF IInv, TypeOK, Run
      <4>3. CallOf(w) = <<w, 2>>
        BY <3>1, <3>5
      <4> QED BY <2>5, <3>1, <3>2, <3>4, <4>1, <4>2, <4>3 DEF UnderWay
    <3>6. CASE w \notin gaveUp
      <4>1. Absent(scope, <<w, 2>>) /\ ghost[w] = "none" /\ CallOf(w) = <<w, 1>>
        BY <3>1, <3>6 DEF RootOK, FateOK
      <4> QED BY <2>5, <3>2, <3>4, <4>1 DEF UnderWay
    <3> QED BY <3>5, <3>6
  <2>7. ASSUME NEW c \in Child, fate[c] # "live"
        PROVE  Standing(c) = {} \/ LeftBehind(c)
    <3>1. {c} \X Calls(c) = {Own(c)}
      BY DEF Calls, Own
    <3>2. \/ Absent(scope, Own(c))
          \/ fate[c] = "finished" /\ c \in gaveUp /\ Writes(scope, Own(c))
      BY <1>1, <2>7 DEF IInv, TypeOK, Run, ChildOK, AsksOK
    <3>3. CASE Absent(scope, Own(c))
      BY <2>5, <3>1, <3>3
    <3>4. CASE fate[c] = "finished" /\ c \in gaveUp /\ Writes(scope, Own(c))
      <4>1. /\ \A h \in Sharing(Own(c)) : h.mode = "write"
            /\ \A i \in Waiting(Own(c)) : scope.queue[i].mode = "write"
        BY <2>2, <3>4 DEF Writes, Held, Asks
      <4> QED BY <3>4, <4>1 DEF LeftBehind, Own
    <3> QED BY <3>2, <3>3, <3>4
  <2> QED BY <2>3, <2>4, <2>6, <2>7 DEF RequestsOfCalls
<1> QED BY <1>1, Invariant, PTL

(* A child that kept a lease when it last looked never writes on a view    *)
(* that another lease holder has changed since, while it runs: the         *)
(* comparison of the epochs around the wait for the write lease is enough. *)
THEOREM LookBeforeWriting == Spec => []FreshWritesUnderLease
<1>1. IInv => FreshWritesUnderLease
  BY DEF IInv, ChildOK, LooksOK, FreshWritesUnderLease
<1> QED BY <1>1, Invariant, PTL

=============================================================================
