--------------------------- MODULE WorkspaceScope ---------------------------
(***************************************************************************)
(* The lease table of one workspace root, as the process-local lease       *)
(* coordinator of packages/host keeps it (class WorkspaceLeaseCoordinator, *)
(* interface ScopeState): the leases that are held and the queue of        *)
(* requests that wait.  This module has no variables: each operator is a   *)
(* synchronous method of the class, as a function from a scope to the      *)
(* scope it leaves.  Leases of different roots never touch each other, so  *)
(* one scope is modelled.                                                  *)
(*                                                                         *)
(* scope.writer and scope.readers are one set here, holders; a holder's    *)
(* mode says in which of the two slots of the code it sits.                *)
(***************************************************************************)
EXTENDS Integers, Sequences, FiniteSets

CONSTANTS
  Owner,    \* run ids that ask for leases
  Request,  \* acquire calls
  Ttl       \* the times to live callers ask for, in ticks

ASSUME TtlAssumption == Ttl \subseteq Nat \ {0}

Modes == {"read", "write"}

Waiter == [id : Request, owner : Owner, ancestors : SUBSET Owner,
           mode : Modes, ttl : Ttl, auto : BOOLEAN]

Lease == [id : Request, owner : Owner, mode : Modes, ttl : Ttl,
          auto : BOOLEAN, refs : Nat, handlers : SUBSET Request,
          left : Nat, beat : Nat, due : Nat]

Scope == [holders : SUBSET Lease, queue : Seq(Waiter)]

EmptyScope == [holders |-> {}, queue |-> << >>]

Writers(sc) == {h \in sc.holders : h.mode = "write"}
Readers(sc) == {h \in sc.holders : h.mode = "read"}

(* A heartbeat fires every third of the lease's time to live, at least one *)
(* tick apart and, when there is room, before the lease would expire.      *)
HeartbeatInterval(ttl) ==
  LET third == IF ttl \div 3 < 1 THEN 1 ELSE ttl \div 3
      cap   == IF ttl - 1 < 1 THEN 1 ELSE ttl - 1
  IN  IF third < cap THEN third ELSE cap

(* The lease record that grant() makes of a waiter: one reference, its     *)
(* expiry timer armed, its heartbeat started when it renews itself.  left  *)
(* and due are the ticks until the expiry and the heartbeat timer fire.    *)
LeaseFor(w) ==
  LET beat == IF w.auto THEN HeartbeatInterval(w.ttl) ELSE 0
  IN  [id |-> w.id, owner |-> w.owner, mode |-> w.mode, ttl |-> w.ttl,
       auto |-> w.auto, refs |-> 1, handlers |-> {w.id},
       left |-> w.ttl, beat |-> beat, due |-> beat]

-----------------------------------------------------------------------------
(* Requests *)

(* The held leases that a request by owner o joins instead of queueing: a  *)
(* write lease of o whatever the mode asked for, else, for a read, a read  *)
(* lease of o.  The code takes the first of them in the order of the map.  *)
Reentrant(sc, o, m) ==
  LET own == {h \in sc.holders : h.owner = o}
  IN  IF \E h \in own : h.mode = "write" THEN own \cap Writers(sc)
      ELSE IF m = "read" THEN own \cap Readers(sc) ELSE {}

(* A reentrant request adds a reference and its loss handler, starts the   *)
(* heartbeat (at the interval of the OLD time to live) if it is the first  *)
(* to ask for renewal, and renews the lease with the NEW time to live.     *)
JoinedUntold(h, r, ttl, auto) ==  \* a mutant: the loss handler is not kept
  [h EXCEPT !.refs = @ + 1, !.ttl = ttl, !.left = ttl]

Joined(h, r, ttl, auto) ==
  LET starts == auto /\ ~h.auto
      beat   == IF starts THEN HeartbeatInterval(h.ttl) ELSE h.beat
  IN  [h EXCEPT !.refs = @ + 1, !.handlers = @ \cup {r}, !.auto = @ \/ auto,
                !.beat = beat, !.due = IF starts THEN beat ELSE @,
                !.ttl = ttl, !.left = ttl]

(* A write request of an owner that holds a read lease is refused.         *)
NeedsUpgrade(sc, o, m) ==
  m = "write" /\ \E h \in Readers(sc) : h.owner = o

(* A request is refused when one of the ancestors it declares holds a      *)
(* lease, of either mode, or waits for one.                                *)
AncestorHolds(sc, ancestors) ==  \* a mutant: the queue is not looked at
  \E h \in sc.holders : h.owner \in ancestors

AncestorBlocks(sc, ancestors) ==
  \/ \E h \in sc.holders : h.owner \in ancestors
  \/ \E i \in 1..Len(sc.queue) : sc.queue[i].owner \in ancestors

PushedReadsFirst(sc, w) ==  \* a mutant: readers pass waiting writers
  [sc EXCEPT !.queue = IF w.mode = "read" THEN <<w>> \o @ ELSE Append(@, w)]

Pushed(sc, w) == [sc EXCEPT !.queue = Append(@, w)]

(* The waiter at position i leaves the queue (its signal aborted).         *)
Withdrawn(sc, i) ==
  [sc EXCEPT !.queue = SubSeq(@, 1, i - 1) \o SubSeq(@, i + 1, Len(@))]

-----------------------------------------------------------------------------
(* Grants *)

(* n is the length of the longest prefix of reads of the queue q.          *)
IsReadPrefix(q, n) ==
  /\ \A i \in 1..n : q[i].mode = "read"
  /\ n < Len(q) => q[n + 1].mode # "read"

WriterIsNext(sc) ==
  sc.holders = {} /\ sc.queue # << >> /\ sc.queue[1].mode = "write"

IsReadPrefixOnly(sc, n) ==  \* a mutant: a writer does not stop readers
  IF WriterIsNext(sc) THEN n = 1 ELSE IsReadPrefix(sc.queue, n)

(* The number of waiters at the head of the queue that drain() grants:     *)
(* none while a writer holds the scope, the leading reads while readers    *)
(* do, and on a free scope one writer or else the leading reads.           *)
IsDrainCount(sc, n) ==
  IF Writers(sc) # {} THEN n = 0
  ELSE IF WriterIsNext(sc) THEN n = 1
  ELSE IsReadPrefix(sc.queue, n)

DrainCount(sc) == CHOOSE n \in 0..Len(sc.queue) : IsDrainCount(sc, n)

(* The waiters that drain() takes off the queue, and the scope it leaves.  *)
Granted(sc) == {sc.queue[i] : i \in 1..DrainCount(sc)}

Drained(sc) ==
  [holders |-> sc.holders \cup {LeaseFor(w) : w \in Granted(sc)},
   queue   |-> SubSeq(sc.queue, DrainCount(sc) + 1, Len(sc.queue))]

-----------------------------------------------------------------------------
(* Held leases *)

Replaced(sc, h, g) == [sc EXCEPT !.holders = (@ \ {h}) \cup {g}]
Removed(sc, h)     == [sc EXCEPT !.holders = @ \ {h}]

(* A handle's release drops one reference and the handle's loss handler.   *)
Dereferenced(h, r) == [h EXCEPT !.refs = @ - 1, !.handlers = @ \ {r}]

(* renewRecord, as the heartbeat calls it.                                 *)
Renewed(h) == [h EXCEPT !.left = h.ttl, !.due = h.beat]

-----------------------------------------------------------------------------
(* What a scope promises *)

(* A writer holds the workspace alone.                                     *)
Exclusive(sc) == \A g, h \in sc.holders : g.mode = "write" => g = h

(* No waiter has a declared ancestor among the holders or ahead of it.     *)
ChainFree(sc) ==
  \A i \in 1..Len(sc.queue) :
    /\ \A h \in sc.holders : h.owner \notin sc.queue[i].ancestors
    /\ \A j \in 1..(i - 1) : sc.queue[j].owner \notin sc.queue[i].ancestors

(* The head of the queue is blocked by a holder.                           *)
HeadBlocked(sc) ==
  sc.queue # << >> =>
    \/ Writers(sc) # {}
    \/ sc.holders # {} /\ sc.queue[1].mode = "write"

=============================================================================
