------------------------ MODULE WorkspaceScopeProofs ------------------------
(***************************************************************************)
(* Lemmas about the scopes of the lease coordinator (module                *)
(* WorkspaceScope): what each of its methods keeps of what a scope         *)
(* promises.  The proofs about the coordinator under arbitrary callers and *)
(* under lease sessions rest on them.                                      *)
(***************************************************************************)
EXTENDS WorkspaceScope, TLAPS, SequenceTheorems, WellFoundedInduction

-----------------------------------------------------------------------------
(* drain() *)

(* Every queue has a longest prefix of reads.                              *)
LEMMA ReadPrefixExists ==
  ASSUME NEW q \in Seq(Waiter)
  PROVE  \E n \in 0..Len(q) : IsReadPrefix(q, n)
<1> DEFINE Stops == {n \in 0..Len(q) : n < Len(q) => q[n + 1].mode # "read"}
<1>1. Len(q) \in Stops
  BY LenProperties
<1>2. Stops \subseteq Nat /\ Stops # {}
  BY <1>1, LenProperties
<1>3. IsWellFoundedOn(OpToRel(<, Nat), Nat)
  BY NatLessThanWellFounded
<1>4. PICK n \in Stops : \A m \in Stops : ~ (m < n)
  <2> DEFINE R == OpToRel(<, Nat)
  <2>1. \E n \in Stops : \A m \in Stops : ~ (<<m, n>> \in R)
    <3> HIDE DEF R, Stops
    <3> QED BY <1>2, <1>3, WFMin DEF R
  <2>2. \A m, n \in Nat : m < n => <<m, n>> \in R
    BY Zenon DEF OpToRel
  <2> QED BY <1>2, <2>1, <2>2
<1>5. \A i \in 1..n : q[i].mode = "read"
  <2> SUFFICES ASSUME NEW i \in 1..n, q[i].mode # "read" PROVE FALSE
    OBVIOUS
  <2>1. i - 1 \in 0..Len(q) /\ i - 1 < n /\ (i - 1) + 1 = i
    BY LenProperties
  <2>2. i - 1 \in Stops
    BY <2>1
  <2> QED BY <1>4, <2>1, <2>2
<1> QED BY <1>5 DEF IsReadPrefix

(* drain() grants a well-defined number of waiters.                        *)
LEMMA DrainCountIsCount ==
  ASSUME NEW sc \in Scope
  PROVE  /\ DrainCount(sc) \in 0..Len(sc.queue)
         /\ IsDrainCount(sc, DrainCount(sc))
<1>1. sc.queue \in Seq(Waiter)
  BY DEF Scope
<1>2. \E n \in 0..Len(sc.queue) : IsDrainCount(sc, n)
  <2>1. CASE Writers(sc) # {}
    BY <1>1, <2>1, LenProperties DEF IsDrainCount
  <2>2. CASE /\ Writers(sc) = {}
             /\ WriterIsNext(sc)
    BY <1>1, <2>2, EmptySeq DEF IsDrainCount, WriterIsNext
  <2>3. CASE /\ Writers(sc) = {}
             /\ ~WriterIsNext(sc)
    BY <1>1, <2>3, ReadPrefixExists DEF IsDrainCount
  <2> QED BY <2>1, <2>2, <2>3
<1> QED BY <1>2 DEF DrainCount

(* Heartbeat intervals are natural numbers.                                *)
LEMMA IntervalType ==
  ASSUME NEW ttl \in Ttl
  PROVE  ttl \in Nat /\ HeartbeatInterval(ttl) \in Nat
<1> DEFINE third == IF ttl \div 3 < 1 THEN 1 ELSE ttl \div 3
           cap   == IF ttl - 1 < 1 THEN 1 ELSE ttl - 1
<1>1. ttl \in Nat
  BY TtlAssumption
<1>2. third \in Nat
  BY <1>1
<1>3. cap \in Nat
  BY <1>1
<1>4. HeartbeatInterval(ttl) = IF third < cap THEN third ELSE cap
  BY Zenon DEF HeartbeatInterval
<1> HIDE DEF third, cap
<1> QED BY <1>1, <1>2, <1>3, <1>4

(* A lease starts out well-typed, with the owner and mode of its waiter.   *)
LEMMA LeaseForType ==
  ASSUME NEW w \in Waiter
  PROVE  /\ LeaseFor(w) \in Lease
         /\ LeaseFor(w).owner = w.owner
         /\ LeaseFor(w).mode = w.mode
<1>1. w.ttl \in Nat /\ HeartbeatInterval(w.ttl) \in Nat
  BY IntervalType DEF Waiter
<1> QED BY <1>1 DEF LeaseFor, Waiter, Lease

(* What the drained scope consists of, in terms of the granted count.      *)
LEMMA DrainedParts ==
  ASSUME NEW sc \in Scope, NEW n, n = DrainCount(sc)
  PROVE  /\ n \in 0..Len(sc.queue)
         /\ Drained(sc) \in Scope
         /\ Len(Drained(sc).queue) = Len(sc.queue) - n
         /\ \A i \in 1..(Len(sc.queue) - n) :
              Drained(sc).queue[i] = sc.queue[i + n]
         /\ \A h \in Drained(sc).holders :
              \/ h \in sc.holders
              \/ \E i \in 1..n : /\ h.owner = sc.queue[i].owner
                                /\ h.mode = sc.queue[i].mode
                                /\ h = LeaseFor(sc.queue[i])
         /\ sc.holders \subseteq Drained(sc).holders
         /\ \A i \in 1..n : LeaseFor(sc.queue[i]) \in Drained(sc).holders
<1>1. n \in 0..Len(sc.queue)
  BY DrainCountIsCount
<1>2. sc.queue \in Seq(Waiter) /\ sc.holders \subseteq Lease
  BY DEF Scope
<1>3. Len(sc.queue) \in Nat /\ \A i \in 1..Len(sc.queue) : sc.queue[i] \in Waiter
  BY <1>2, LenProperties, ElementOfSeq
<1> DEFINE q == SubSeq(sc.queue, n + 1, Len(sc.queue))
<1>4. /\ q \in Seq(Waiter)
      /\ Len(q) = Len(sc.queue) - n
      /\ \A i \in 1..(Len(sc.queue) - n) : q[i] = sc.queue[i + n]
  <2>1. \A i \in (n + 1)..Len(sc.queue) : sc.queue[i] \in Waiter
    BY <1>1, <1>3
  <2>2. /\ q \in Seq(Waiter)
        /\ Len(q) = IF n + 1 <= Len(sc.queue) THEN Len(sc.queue) - (n + 1) + 1 ELSE 0
        /\ \A i \in 1..(Len(sc.queue) - (n + 1) + 1) : q[i] = sc.queue[(n + 1) + i - 1]
    <3>1. n + 1 \in Int /\ Len(sc.queue) \in Int
      BY <1>1, <1>3
    <3> QED BY <2>1, <3>1, SubSeqProperties
  <2>3. Len(q) = Len(sc.queue) - n
    BY <1>1, <1>3, <2>2
  <2>4. \A i \in 1..(Len(sc.queue) - n) : (n + 1) + i - 1 = i + n
    BY <1>1, <1>3
  <2>5. 1..(Len(sc.queue) - (n + 1) + 1) = 1..(Len(sc.queue) - n)
    BY <1>1, <1>3
  <2> HIDE DEF q
  <2> QED BY <2>2, <2>3, <2>4, <2>5
<1>5. \A w \in Granted(sc) : w \in Waiter /\ \E i \in 1..n : w = sc.queue[i]
  BY <1>1, <1>3 DEF Granted
<1>6. Drained(sc).queue = q /\
      Drained(sc).holders = sc.holders \cup {LeaseFor(w) : w \in Granted(sc)}
  BY DEF Drained
<1>7. Drained(sc) \in Scope
  <2>1. {LeaseFor(w) : w \in Granted(sc)} \subseteq Lease
    BY <1>5, LeaseForType
  <2> HIDE DEF q
  <2> QED BY <1>2, <1>4, <1>6, <2>1 DEF Scope, Drained
<1>8. \A h \in Drained(sc).holders :
        \/ h \in sc.holders
        \/ \E i \in 1..n : /\ h.owner = sc.queue[i].owner
                          /\ h.mode = sc.queue[i].mode
                          /\ h = LeaseFor(sc.queue[i])
  BY <1>5, <1>6, LeaseForType
<1>9. /\ sc.holders \subseteq Drained(sc).holders
      /\ \A i \in 1..n : LeaseFor(sc.queue[i]) \in Drained(sc).holders
  BY <1>6 DEF Granted
<1> HIDE DEF q
<1> QED BY <1>1, <1>4, <1>6, <1>7, <1>8, <1>9

(* The three ways drain() can go.                                          *)
LEMMA DrainCases ==
  ASSUME NEW sc \in Scope, NEW n, n = DrainCount(sc)
  PROVE  \/ Writers(sc) # {} /\ n = 0
         \/ Writers(sc) = {} /\ WriterIsNext(sc) /\ n = 1
         \/ Writers(sc) = {} /\ ~WriterIsNext(sc) /\ IsReadPrefix(sc.queue, n)
BY DrainCountIsCount DEF IsDrainCount

(* drain() never lets a second holder in beside a writer.                  *)
LEMMA DrainKeepsExclusive ==
  ASSUME NEW sc \in Scope, Exclusive(sc)
  PROVE  Exclusive(Drained(sc))
<1> DEFINE n == DrainCount(sc)
<1>1. n \in 0..Len(sc.queue) /\ Len(sc.queue) \in Nat
  BY DrainCountIsCount, LenProperties DEF Scope
<1>2. \A h \in Drained(sc).holders :
        \/ h \in sc.holders
        \/ \E i \in 1..n : h.mode = sc.queue[i].mode /\ h = LeaseFor(sc.queue[i])
  BY DrainedParts
<1>3. CASE Writers(sc) # {} /\ n = 0
  BY <1>2, <1>3 DEF Exclusive
<1>4. CASE WriterIsNext(sc) /\ n = 1
  BY <1>2, <1>4 DEF Exclusive, WriterIsNext
<1>5. CASE Writers(sc) = {} /\ IsReadPrefix(sc.queue, n)
  <2>1. \A h \in Drained(sc).holders : h.mode # "write"
    BY <1>2, <1>5 DEF Writers, IsReadPrefix
  <2> QED BY <2>1 DEF Exclusive
<1> HIDE DEF n
<1> QED BY <1>3, <1>4, <1>5, DrainCases DEF n

(* drain() moves waiters from the head of the queue to the holders, so     *)
(* whoever a waiter may not wait on was already ahead of it.               *)
LEMMA DrainKeepsChainFree ==
  ASSUME NEW sc \in Scope, ChainFree(sc)
  PROVE  ChainFree(Drained(sc))
<1> DEFINE n == DrainCount(sc)
           d == Drained(sc)
<1>1. n \in 0..Len(sc.queue) /\ Len(sc.queue) \in Nat
  BY DrainCountIsCount, LenProperties DEF Scope
<1>2. /\ Len(d.queue) = Len(sc.queue) - n
      /\ \A i \in 1..(Len(sc.queue) - n) : d.queue[i] = sc.queue[i + n]
      /\ \A h \in d.holders :
           h \in sc.holders \/ \E i \in 1..n : h.owner = sc.queue[i].owner
  BY DrainedParts
<1> HIDE DEF d, n
<1> SUFFICES ASSUME NEW i \in 1..Len(d.queue)
             PROVE  /\ \A h \in d.holders : h.owner \notin d.queue[i].ancestors
                    /\ \A j \in 1..(i - 1) : d.queue[j].owner \notin d.queue[i].ancestors
  BY DEF ChainFree, d
<1>3. i + n \in 1..Len(sc.queue) /\ d.queue[i] = sc.queue[i + n]
  BY <1>1, <1>2
<1>4. /\ \A h \in sc.holders : h.owner \notin d.queue[i].ancestors
      /\ \A j \in 1..(i + n - 1) : sc.queue[j].owner \notin d.queue[i].ancestors
  <2>1. /\ \A h \in sc.holders : h.owner \notin sc.queue[i + n].ancestors
        /\ \A j \in 1..((i + n) - 1) : sc.queue[j].owner \notin sc.queue[i + n].ancestors
    BY <1>3, Zenon DEF ChainFree
  <2> QED BY <1>1, <1>3, <2>1
<1>5. ASSUME NEW h \in d.holders PROVE h.owner \notin d.queue[i].ancestors
  <2>1. \A j \in 1..n : j \in 1..(i + n - 1)
    BY <1>1, <1>2
  <2> QED BY <1>2, <1>4, <2>1
<1>6. ASSUME NEW j \in 1..(i - 1)
      PROVE  d.queue[j].owner \notin d.queue[i].ancestors
  <2>1. /\ j \in 1..(Len(sc.queue) - n)
        /\ j + n \in 1..(i + n - 1)
    BY <1>1, <1>2
  <2> QED BY <1>2, <1>4, <2>1
<1> QED BY <1>5, <1>6

(* drain() stops only at a waiter that has to wait: no wake-up is lost.    *)
LEMMA DrainBlocksHead ==
  ASSUME NEW sc \in Scope
  PROVE  HeadBlocked(Drained(sc))
<1> DEFINE n == DrainCount(sc)
           d == Drained(sc)
<1>1. n \in 0..Len(sc.queue) /\ Len(sc.queue) \in Nat /\ sc.queue \in Seq(Waiter)
  BY DrainCountIsCount, LenProperties DEF Scope
<1>2. /\ d \in Scope
      /\ Len(d.queue) = Len(sc.queue) - n
      /\ \A i \in 1..(Len(sc.queue) - n) : d.queue[i] = sc.queue[i + n]
      /\ sc.holders \subseteq d.holders
      /\ \A i \in 1..n : LeaseFor(sc.queue[i]) \in d.holders
  BY DrainedParts
<1>3. \A i \in 1..Len(sc.queue) : /\ sc.queue[i] \in Waiter
                                /\ LeaseFor(sc.queue[i]).mode = sc.queue[i].mode
  BY <1>1, ElementOfSeq, LeaseForType
<1> HIDE DEF d, n
<1> SUFFICES ASSUME d.queue # << >>
             PROVE  \/ Writers(d) # {}
                    \/ d.holders # {} /\ d.queue[1].mode = "write"
  BY DEF HeadBlocked, d
<1>4. Len(d.queue) \in Nat \ {0}
  BY <1>2, EmptySeq DEF Scope
<1>5. n < Len(sc.queue) /\ d.queue[1] = sc.queue[n + 1]
  BY <1>1, <1>2, <1>4
<1>6. CASE Writers(sc) # {}
  BY <1>2, <1>6 DEF Writers
<1>7. CASE WriterIsNext(sc) /\ n = 1
  <2>1. LeaseFor(sc.queue[1]) \in d.holders /\ LeaseFor(sc.queue[1]).mode = "write"
    BY <1>1, <1>2, <1>3, <1>5, <1>7 DEF WriterIsNext
  <2> QED BY <2>1 DEF Writers
<1>8. CASE ~WriterIsNext(sc) /\ IsReadPrefix(sc.queue, n)
  <2>1. sc.queue[n + 1].mode # "read" /\ sc.queue[n + 1] \in Waiter
    BY <1>1, <1>3, <1>5, <1>8 DEF IsReadPrefix
  <2>2. d.queue[1].mode = "write"
    BY <1>5, <2>1 DEF Waiter, Modes
  <2>3. d.holders # {}
    <3>1. CASE sc.holders # {}
      BY <1>2, <3>1
    <3>2. CASE sc.holders = {}
      <4>1. sc.queue[1].mode # "write"
        BY <1>1, <1>5, <1>8, <3>2, EmptySeq DEF WriterIsNext
      <4>2. n # 0
        BY <1>5, <2>2, <4>1
      <4> QED BY <1>1, <1>2, <4>2
    <3> QED BY <3>1, <3>2
  <2> QED BY <2>2, <2>3
<1> QED BY <1>6, <1>7, <1>8, DrainCases DEF n

-----------------------------------------------------------------------------
(* The other methods, before they drain *)

(* Only a request none of whose ancestors holds or waits is queued.        *)
LEMMA PushedScope ==
  ASSUME NEW sc \in Scope, NEW w \in Waiter
  PROVE  /\ Pushed(sc, w) \in Scope
         /\ Exclusive(sc) => Exclusive(Pushed(sc, w))
         /\ ChainFree(sc) /\ ~AncestorBlocks(sc, w.ancestors)
              => ChainFree(Pushed(sc, w))
<1> DEFINE p == Pushed(sc, w)
<1>1. sc.queue \in Seq(Waiter) /\ Len(sc.queue) \in Nat
  BY LenProperties DEF Scope
<1>2. p.holders = sc.holders /\ p.queue = Append(sc.queue, w) /\ p \in Scope
  BY <1>1, AppendProperties DEF Pushed, Scope
<1>3. /\ Len(p.queue) = Len(sc.queue) + 1
      /\ \A i \in 1..Len(sc.queue) : p.queue[i] = sc.queue[i]
      /\ p.queue[Len(sc.queue) + 1] = w
  BY <1>1, <1>2, AppendProperties
<1> HIDE DEF p
<1>4. Exclusive(sc) => Exclusive(p)
  BY <1>2 DEF Exclusive
<1>5. ASSUME ChainFree(sc), ~AncestorBlocks(sc, w.ancestors), NEW i \in 1..Len(p.queue)
      PROVE  /\ \A h \in p.holders : h.owner \notin p.queue[i].ancestors
             /\ \A j \in 1..(i - 1) : p.queue[j].owner \notin p.queue[i].ancestors
  <2>1. CASE i \in 1..Len(sc.queue)
    <3>1. \A j \in 1..(i - 1) : j \in 1..Len(sc.queue)
      BY <1>1, <2>1
    <3> QED BY <1>2, <1>3, <1>5, <2>1, <3>1 DEF ChainFree
  <2>2. CASE i = Len(sc.queue) + 1
    <3>1. 1..(i - 1) = 1..Len(sc.queue)
      BY <1>1, <2>2
    <3> QED BY <1>2, <1>3, <1>5, <2>2, <3>1 DEF AncestorBlocks
  <2> QED BY <1>1, <1>3, <2>1, <2>2
<1> QED BY <1>2, <1>4, <1>5 DEF p, ChainFree

(* A waiter that gives up leaves the order of the others as it was.        *)
LEMMA WithdrawnParts ==
  ASSUME NEW sc \in Scope, NEW k \in 1..Len(sc.queue)
  PROVE  /\ Withdrawn(sc, k) \in Scope
         /\ Withdrawn(sc, k).holders = sc.holders
         /\ Len(Withdrawn(sc, k).queue) = Len(sc.queue) - 1
         /\ \A i \in 1..(Len(sc.queue) - 1) :
              Withdrawn(sc, k).queue[i] = sc.queue[IF i < k THEN i ELSE i + 1]
<1> DEFINE d == Withdrawn(sc, k)
           q == sc.queue
           s1 == SubSeq(q, 1, k - 1)
           s2 == SubSeq(q, k + 1, Len(q))
           at(i) == IF i < k THEN i ELSE i + 1
<1>1. q \in Seq(Waiter) /\ Len(q) \in Nat /\ k \in 1..Len(q)
      /\ \A i \in 1..Len(q) : q[i] \in Waiter
  BY LenProperties, ElementOfSeq DEF Scope
<1>2. /\ s1 \in Seq(Waiter) /\ Len(s1) = k - 1
      /\ \A i \in 1..(k - 1) : s1[i] = q[i]
  <2>1. \A i \in 1..(k - 1) : q[i] \in Waiter
    BY <1>1
  <2>2. /\ s1 \in Seq(Waiter)
        /\ Len(s1) = IF 1 <= k - 1 THEN k - 1 - 1 + 1 ELSE 0
        /\ \A i \in 1..(k - 1 - 1 + 1) : s1[i] = q[1 + i - 1]
    <3>1. 1 \in Int /\ k - 1 \in Int
      BY <1>1
    <3> HIDE DEF q
    <3> QED BY <2>1, <3>1, SubSeqProperties
  <2> HIDE DEF s1, q
  <2>3. k \in Int /\ k >= 1
    BY <1>1
  <2>4. k - 1 - 1 + 1 = k - 1 /\ \A i \in 1..(k - 1) : 1 + i - 1 = i
    BY <2>3
  <2>5. Len(s1) = k - 1
    BY <2>2, <2>3
  <2> QED BY <2>2, <2>4, <2>5
<1>3. /\ s2 \in Seq(Waiter) /\ Len(s2) = Len(q) - k
      /\ \A i \in 1..(Len(q) - k) : s2[i] = q[k + i]
  <2>1. \A i \in (k + 1)..Len(q) : q[i] \in Waiter
    BY <1>1
  <2>2. /\ s2 \in Seq(Waiter)
        /\ Len(s2) = IF k + 1 <= Len(q) THEN Len(q) - (k + 1) + 1 ELSE 0
        /\ \A i \in 1..(Len(q) - (k + 1) + 1) : s2[i] = q[(k + 1) + i - 1]
    <3>1. k + 1 \in Int /\ Len(q) \in Int
      BY <1>1
    <3> HIDE DEF q
    <3> QED BY <2>1, <3>1, SubSeqProperties
  <2> HIDE DEF s2, q
  <2>3. k \in Int /\ k <= Len(q) /\ Len(q) \in Int
    BY <1>1
  <2>4. /\ Len(q) - (k + 1) + 1 = Len(q) - k
        /\ \A i \in 1..(Len(q) - k) : (k + 1) + i - 1 = k + i
    BY <2>3
  <2>5. Len(s2) = Len(q) - k
    BY <2>2, <2>3
  <2> QED BY <2>2, <2>4, <2>5
<1>4. d.holders = sc.holders /\ d.queue = s1 \o s2
  BY DEF Withdrawn, Scope
<1>5. d = [sc EXCEPT !.queue = s1 \o s2]
  BY DEF Withdrawn
<1> HIDE DEF s1, s2, d
<1>6. /\ d.queue \in Seq(Waiter)
      /\ Len(d.queue) = Len(q) - 1
      /\ \A i \in 1..(Len(q) - 1) : d.queue[i] = q[at(i)]
  <2>1. /\ s1 \o s2 \in Seq(Waiter)
        /\ Len(s1 \o s2) = Len(s1) + Len(s2)
        /\ \A i \in 1..(Len(s1) + Len(s2)) :
             (s1 \o s2)[i] = IF i <= Len(s1) THEN s1[i] ELSE s2[i - Len(s1)]
    BY <1>2, <1>3, ConcatProperties
  <2> HIDE DEF q
  <2>2. ASSUME NEW i \in 1..(Len(q) - 1) PROVE (s1 \o s2)[i] = q[at(i)]
    <3>1. CASE i < k
      BY <1>1, <1>2, <1>3, <2>1, <3>1
    <3>2. CASE ~ (i < k)
      <4>1. i - (k - 1) \in 1..(Len(q) - k) /\ k + (i - (k - 1)) = i + 1
        BY <1>1, <3>2
      <4>2. (s1 \o s2)[i] = s2[i - (k - 1)]
        BY <1>1, <1>2, <1>3, <2>1, <3>2
      <4> QED BY <1>3, <3>2, <4>1, <4>2
    <3> QED BY <3>1, <3>2
  <2> QED BY <1>1, <1>2, <1>3, <1>4, <2>1, <2>2
<1>7. d \in Scope
  BY <1>4, <1>5, <1>6 DEF Scope
<1> QED BY <1>4, <1>6, <1>7 DEF d

(* So the scope keeps what it promises.                                    *)
LEMMA WithdrawnScope ==
  ASSUME NEW sc \in Scope, NEW k \in 1..Len(sc.queue)
  PROVE  /\ Withdrawn(sc, k) \in Scope
         /\ Exclusive(sc) => Exclusive(Withdrawn(sc, k))
         /\ ChainFree(sc) => ChainFree(Withdrawn(sc, k))
<1> DEFINE d == Withdrawn(sc, k)
           q == sc.queue
           at(i) == IF i < k THEN i ELSE i + 1
<1>1. Len(q) \in Nat /\ k \in 1..Len(q)
  BY LenProperties DEF Scope
<1>2. /\ d \in Scope
      /\ d.holders = sc.holders
      /\ Len(d.queue) = Len(q) - 1
      /\ \A i \in 1..(Len(q) - 1) : d.queue[i] = q[at(i)]
  BY WithdrawnParts
<1> HIDE DEF d
<1>3. Exclusive(sc) => Exclusive(d)
  BY <1>2 DEF Exclusive
<1>4. ASSUME ChainFree(sc), NEW i \in 1..Len(d.queue)
      PROVE  /\ \A h \in d.holders : h.owner \notin d.queue[i].ancestors
             /\ \A j \in 1..(i - 1) : d.queue[j].owner \notin d.queue[i].ancestors
  <2> HIDE DEF q
  <2>1. /\ at(i) \in 1..Len(q)
        /\ \A j \in 1..(i - 1) : at(j) \in 1..(at(i) - 1) /\ j \in 1..(Len(q) - 1)
        /\ i \in 1..(Len(q) - 1)
    BY <1>1, <1>2
  <2>2. /\ \A h \in sc.holders : h.owner \notin q[at(i)].ancestors
        /\ \A j \in 1..(at(i) - 1) : q[j].owner \notin q[at(i)].ancestors
    <3> HIDE DEF at
    <3> QED BY <1>4, <2>1, Zenon DEF ChainFree, q
  <2> HIDE DEF at
  <2> QED BY <1>2, <2>1, <2>2
<1> QED BY <1>2, <1>3, <1>4 DEF d, ChainFree

(* Taking a lease away frees the others of nothing they promised.          *)
LEMMA RemovedScope ==
  ASSUME NEW sc \in Scope, NEW h
  PROVE  /\ Removed(sc, h) \in Scope
         /\ Exclusive(sc) => Exclusive(Removed(sc, h))
         /\ ChainFree(sc) => ChainFree(Removed(sc, h))
<1>1. /\ Removed(sc, h).holders = sc.holders \ {h}
      /\ Removed(sc, h).queue = sc.queue
      /\ Removed(sc, h) \in Scope
  BY DEF Removed, Scope
<1> QED BY <1>1 DEF Exclusive, ChainFree

(* A change of references or timers keeps owner and mode, and with them    *)
(* everything the scope promises.                                          *)
LEMMA ReplacedScope ==
  ASSUME NEW sc \in Scope, NEW h \in sc.holders, NEW g \in Lease,
         g.owner = h.owner, g.mode = h.mode
  PROVE  /\ Replaced(sc, h, g) \in Scope
         /\ Exclusive(sc) => Exclusive(Replaced(sc, h, g))
         /\ ChainFree(sc) => ChainFree(Replaced(sc, h, g))
         /\ HeadBlocked(sc) => HeadBlocked(Replaced(sc, h, g))
<1> DEFINE d == Replaced(sc, h, g)
<1>1. /\ d.holders = (sc.holders \ {h}) \cup {g}
      /\ d.queue = sc.queue
      /\ d \in Scope
  BY DEF Replaced, Scope
<1> HIDE DEF d
<1>2. Exclusive(sc) => Exclusive(d)
  <2> SUFFICES ASSUME Exclusive(sc), NEW a \in d.holders, NEW b \in d.holders,
                      a.mode = "write"
               PROVE  a = b
    BY DEF Exclusive
  <2>1. CASE a = g
    BY <1>1, <2>1 DEF Exclusive
  <2>2. CASE a # g
    BY <1>1, <2>2 DEF Exclusive
  <2> QED BY <2>1, <2>2
<1>3. ChainFree(sc) => ChainFree(d)
  BY <1>1 DEF ChainFree
<1>4. HeadBlocked(sc) => HeadBlocked(d)
  BY <1>1 DEF HeadBlocked, Writers
<1> QED BY <1>1, <1>2, <1>3, <1>4 DEF d

-----------------------------------------------------------------------------
(* Reentrant requests *)

(* A joined lease is well-typed and keeps its owner and mode.              *)
LEMMA JoinedType ==
  ASSUME NEW h \in Lease, NEW r \in Request, NEW ttl \in Ttl, NEW auto \in BOOLEAN
  PROVE  /\ Joined(h, r, ttl, auto) \in Lease
         /\ Joined(h, r, ttl, auto).owner = h.owner
         /\ Joined(h, r, ttl, auto).mode = h.mode
<1> DEFINE starts == auto /\ ~h.auto
           beat   == IF starts THEN HeartbeatInterval(h.ttl) ELSE h.beat
           due    == IF starts THEN beat ELSE h.due
           renews == h.auto \/ auto
<1>1. ttl \in Nat /\ HeartbeatInterval(h.ttl) \in Nat
  BY IntervalType DEF Lease
<1>2. beat \in Nat /\ due \in Nat
  <2>1. h.beat \in Nat /\ h.due \in Nat
    BY DEF Lease
  <2> HIDE DEF starts
  <2>2. beat \in Nat
    BY <1>1, <2>1
  <2> HIDE DEF beat
  <2> QED BY <2>1, <2>2
<1>3. renews \in BOOLEAN
  BY Zenon
<1>4. Joined(h, r, ttl, auto) =
        [h EXCEPT !.refs = @ + 1, !.handlers = @ \cup {r}, !.auto = renews,
                  !.beat = beat, !.due = due, !.ttl = ttl, !.left = ttl]
  BY Zenon DEF Joined
<1> HIDE DEF renews, due, beat, starts
<1>5. /\ h = [id |-> h.id, owner |-> h.owner, mode |-> h.mode, ttl |-> h.ttl,
               auto |-> h.auto, refs |-> h.refs, handlers |-> h.handlers,
               left |-> h.left, beat |-> h.beat, due |-> h.due]
      /\ h.id \in Request /\ h.owner \in Owner /\ h.mode \in Modes
      /\ h.refs + 1 \in Nat /\ h.handlers \cup {r} \in SUBSET Request
  BY DEF Lease
<1>6. Joined(h, r, ttl, auto) =
        [id |-> h.id, owner |-> h.owner, mode |-> h.mode, ttl |-> ttl,
         auto |-> renews, refs |-> h.refs + 1, handlers |-> h.handlers \cup {r},
         left |-> ttl, beat |-> beat, due |-> due]
  BY <1>4, <1>5
<1> QED BY <1>1, <1>2, <1>3, <1>5, <1>6 DEF Lease

(* It is the same lease with one reference and one handler more.           *)
LEMMA JoinedHandles ==
  ASSUME NEW h \in Lease, NEW r \in Request, NEW ttl \in Ttl, NEW auto \in BOOLEAN
  PROVE  /\ Joined(h, r, ttl, auto).id = h.id
         /\ Joined(h, r, ttl, auto).refs = h.refs + 1
         /\ Joined(h, r, ttl, auto).handlers = h.handlers \cup {r}
<1> DEFINE starts == auto /\ ~h.auto
           beat   == IF starts THEN HeartbeatInterval(h.ttl) ELSE h.beat
           due    == IF starts THEN beat ELSE h.due
           renews == h.auto \/ auto
<1>1. Joined(h, r, ttl, auto) =
        [h EXCEPT !.refs = @ + 1, !.handlers = @ \cup {r}, !.auto = renews,
                  !.beat = beat, !.due = due, !.ttl = ttl, !.left = ttl]
  BY Zenon DEF Joined
<1> HIDE DEF renews, due, beat, starts
<1> QED BY <1>1 DEF Lease

=============================================================================
