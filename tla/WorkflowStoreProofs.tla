------------------------- MODULE WorkflowStoreProofs -------------------------
(***************************************************************************)
(* The safety of the workflow store, for any finite number of calls of     *)
(* acquireWriter, any length of the journal and any interleaving, crash,   *)
(* expiry and late refresh: what is reported as done stays, what is        *)
(* refused after it was published was taken over, the journal is the       *)
(* register WorkflowRegister, and the types.                               *)
(*                                                                         *)
(* Every theorem but StoreTypeCorrect assumes Prompt, nobody is held up    *)
(* while others publish beyond it.  It is needed: without it a writer can  *)
(* fill an entry below the head that others have read, which changes what  *)
(* they have read (MCWorkflowStoreLate shows that DoneStays is then        *)
(* violated).                                                              *)
(*                                                                         *)
(* head is Replay(slots), a recurrence over all entries.  Its value is     *)
(* never computed here.  Shape says what every head of a journal is like,  *)
(* by Induction over the entries; AppliedSame, ReplaySame and the lemmas   *)
(* beside them say how the head changes with the journal.  Creating an     *)
(* entry or giving one up leaves the record alone, and filling the last    *)
(* entry is one more Applied.                                              *)
(*                                                                         *)
(* The fencing is in Discipline: an entry belongs to the writer that is    *)
(* about to fill it, a writer claims once, a later claim ends its          *)
(* generation, and what it finds when it reads back is its own.  The       *)
(* lease is not used for any of this.                                      *)
(*                                                                         *)
(* The types need no more than that a writer claims once (ClaimInv), so    *)
(* that there are generations enough, and that it has at most two lease    *)
(* records (LeaseInv); both hold whoever is held up.                       *)
(***************************************************************************)
EXTENDS WorkflowStore, FiniteSetTheorems, SequenceTheorems,
        WellFoundedInduction, TLAPS

-----------------------------------------------------------------------------
(* A set of numbers that is not empty has a least one.                     *)
LEMMA LeastNumber ==
  ASSUME NEW I \in SUBSET Nat, I # {}
  PROVE  \E m \in I : \A n \in I : m <= n
<1> DEFINE R == OpToRel(<, Nat)
<1>1. IsWellFoundedOn(R, Nat)
  BY NatLessThanWellFounded
<1>2. PICK m \in I : \A n \in I : ~ (<<n, m>> \in R)
  <2> HIDE DEF R
  <2> QED BY <1>1, WFMin
<1>3. \A n, q \in Nat : n < q => <<n, q>> \in R
  BY Zenon DEF OpToRel
<1> HIDE DEF R
<1>4. I \subseteq Nat /\ m \in Nat
  OBVIOUS
<1>5. ASSUME NEW n \in I PROVE m <= n
  <2>1. ~ (n < m)
    BY <1>2, <1>3, <1>4, Zenon
  <2>2. QED BY <1>4, <2>1
<1>6. QED BY <1>5

(* Induction, for a property given as a set of numbers.                    *)
LEMMA Induction ==
  ASSUME NEW k \in Nat, NEW S, 0 \in S,
         \A n \in 0..k : n < k /\ n \in S => n + 1 \in S
  PROVE  \A n \in 0..k : n \in S
<1> DEFINE Bad == {n \in 0..k : n \notin S}
<1> SUFFICES ASSUME Bad # {} PROVE FALSE
  OBVIOUS
<1>1. Bad \in SUBSET Nat
  OBVIOUS
<1>2. PICK n \in Bad : \A m \in Bad : n <= m
  <2> HIDE DEF Bad
  <2> QED BY <1>1, LeastNumber
<1>3. n # 0 /\ n - 1 \in 0..k /\ n - 1 < k /\ (n - 1) + 1 = n
  BY <1>2
<1>4. n - 1 \in S
  BY <1>2, <1>3
<1>5. QED BY <1>2, <1>3, <1>4

-----------------------------------------------------------------------------
(* Reading the journal *)

(* f[n] is the head after the first n entries of sl.                       *)
Heads(f, sl, k) ==
  f = [n \in 0..k |-> IF n = 0 THEN EmptyHead
                      ELSE Applied(f[n - 1], sl[n - 1], n - 1)]

(* The recurrence of Replay has a solution, the heads after each entry.    *)
LEMMA HeadsExist ==
  ASSUME NEW sl, NEW k \in Nat
  PROVE  \E f : Heads(f, sl, k)
<1> DEFINE S == {n \in 0..k : \E f : Heads(f, sl, n)}
<1>1. 0 \in S
  <2> DEFINE f == [n \in 0..0 |-> EmptyHead]
  <2>1. f = [n \in 0..0 |-> IF n = 0 THEN EmptyHead
                      ELSE Applied(f[n - 1], sl[n - 1], n - 1)]
    OBVIOUS
  <2>2. Heads(f, sl, 0)
    BY <2>1 DEF Heads
  <2>3. QED BY <2>2
<1>2. ASSUME NEW n \in 0..k, n < k, n \in S PROVE n + 1 \in S
  <2>1. PICK f : Heads(f, sl, n)
    BY <1>2
  <2> DEFINE g == [m \in 0..(n + 1) |-> IF m = n + 1
                     THEN Applied(f[n], sl[n], n) ELSE f[m]]
             h == [m \in 0..(n + 1) |-> IF m = 0 THEN EmptyHead
                      ELSE Applied(g[m - 1], sl[m - 1], m - 1)]
  <2>2. \A m \in 0..n : g[m] = f[m]
    OBVIOUS
  <2>3. ASSUME NEW m \in 0..(n + 1) PROVE g[m] = h[m]
    <3>1. CASE m = n + 1
      BY <3>1, <2>2
    <3>2. CASE m = 0
      BY <3>2, <2>1, <2>2 DEF Heads
    <3>3. CASE m # n + 1 /\ m # 0
      <4>1. m \in 0..n /\ m - 1 \in 0..n
        BY <3>3
      <4>2. f[m] = Applied(f[m - 1], sl[m - 1], m - 1)
        BY <2>1, <3>3, <4>1 DEF Heads
      <4>3. g[m] = f[m] /\ g[m - 1] = f[m - 1]
        BY <2>2, <4>1
      <4> HIDE DEF g
      <4>4. h[m] = Applied(g[m - 1], sl[m - 1], m - 1)
        BY <3>3
      <4>5. QED BY <4>2, <4>3, <4>4
    <3>4. QED BY <3>1, <3>2, <3>3
  <2>4. g = h
    BY <2>3
  <2>5. Heads(g, sl, n + 1)
    BY <2>4 DEF Heads
  <2>6. n + 1 \in 0..k
    BY <1>2
  <2>7. QED BY <2>5, <2>6
<1>3. \A n \in 0..k : n \in S
  <2> HIDE DEF S
  <2> QED BY <1>1, <1>2, Induction
<1>4. k \in S
  BY <1>3
<1>5. QED BY <1>4

(* The head of a journal is where the recurrence ends.                     *)
LEMMA ReplayHeads ==
  ASSUME NEW sl
  PROVE  \E f : Heads(f, sl, MaxSlot + 1) /\ Replay(sl) = f[MaxSlot + 1]
<1> DEFINE f == CHOOSE g : Heads(g, sl, MaxSlot + 1)
<1>1. MaxSlot + 1 \in Nat
  BY StoreAssumption
<1>2. \E g : Heads(g, sl, MaxSlot + 1)
  BY <1>1, HeadsExist
<1>3. Heads(f, sl, MaxSlot + 1)
  BY <1>2, Zenon
<1>4. Replay(sl) = f[MaxSlot + 1]
  BY DEF Replay, Heads
<1>5. QED BY <1>3, <1>4

(* The steps of the recurrence.                                            *)
LEMMA HeadsSteps ==
  ASSUME NEW f, NEW sl, NEW k \in Nat, Heads(f, sl, k)
  PROVE  /\ f[0] = EmptyHead
         /\ \A n \in 0..k : n < k => f[n + 1] = Applied(f[n], sl[n], n)
<1>1. f[0] = EmptyHead
  BY DEF Heads
<1>2. ASSUME NEW n \in 0..k, n < k
      PROVE  f[n + 1] = Applied(f[n], sl[n], n)
  <2>1. n + 1 \in 0..k /\ n + 1 # 0 /\ (n + 1) - 1 = n
    BY <1>2
  <2>2. f[n + 1] = Applied(f[(n + 1) - 1], sl[(n + 1) - 1], (n + 1) - 1)
    BY <2>1 DEF Heads
  <2>3. QED BY <2>1, <2>2
<1>3. QED BY <1>1, <1>2

-----------------------------------------------------------------------------
(* The shape of a head *)

HeadType ==
  [phys : Int, gen : Nat, rev : Nat, owners : Seq(Writer \cup {None}),
   events : Seq((Writer \cup {None}) \X Slot)]

(* What every head says about the first n entries of sl it was read from:  *)
(* nothing follows its last entry, there are no more events than entries,  *)
(* every event is a mutation whose token was the owner's, and no entry     *)
(* makes two events.                                                       *)
Shape(h, sl, n) ==
  /\ h \in HeadType
  /\ h.phys \in -1..(n - 1)
  /\ \A s \in Slot : s < n /\ sl[s] # Absent => s <= h.phys
  /\ h.gen = Len(h.owners)
  /\ h.rev = Len(h.events)
  /\ h.rev <= h.phys + 1
  /\ \A i \in 1..Len(h.events) :
       /\ sl[h.events[i][2]].kind = "mutation"
       /\ h.events[i][1] = sl[h.events[i][2]].token
       /\ h.events[i][1] \in ToSet(h.owners) \cup {None}
       /\ h.events[i][2] <= h.phys

(* Two heads of the same record, whatever entry they end at.               *)
SameRecord(g, h) ==
  g.gen = h.gen /\ g.rev = h.rev /\ g.owners = h.owners /\ g.events = h.events

-----------------------------------------------------------------------------
(* The inductive invariant *)

Types ==
  /\ slots \in [Slot -> Entry]
  /\ exists \in BOOLEAN
  /\ pc \in [Writer -> Stages]
  /\ job \in [Writer -> Job]
  /\ gen \in [Writer -> Generation]
  /\ expect \in [Writer -> Revision]
  /\ acked \subseteq Slot
  /\ refused \subseteq Slot

(* Every claim made the record another writer's, and each writer's once.   *)
OwnersApart ==
  /\ head.owners \in Seq(Writer)
  /\ \A i, j \in 1..Len(head.owners) :
       head.owners[i] = head.owners[j] => i = j

AtEntry(w) == pc[w] \in {"publishing", "filling", "verifying"}

(* A writer's entry carries the writer's name, and is its own to fill.     *)
OwnEntry(w) ==
  LET e == job[w].entry
  IN  AtEntry(w) =>
        /\ e.kind \in {"baseline", "claim", "mutation"}
        /\ e.kind # "baseline" => e.token = w
        /\ e.kind = "mutation" => e.rev >= 1
        /\ pc[w] = "filling" => slots[job[w].slot] = Torn
        /\ pc[w] = "verifying" => slots[job[w].slot] = e

FillersApart ==
  \A v, w \in Writer :
    v # w /\ pc[v] = "filling" /\ pc[w] = "filling" => job[v].slot # job[w].slot

(* Who has owned the record is past the claim.                             *)
ClaimsOnce(w) ==
  w \in ToSet(head.owners) =>
    \/ pc[w] \in {"ready", "checking", "refreshing", "fresh", "leaving", "gone"}
    \/ AtEntry(w) /\ job[w].entry.kind = "mutation"
    \/ pc[w] = "verifying" /\ job[w].entry.kind = "claim"

(* A writer keeps the generation of its own claim.                         *)
KeepsGeneration(w) ==
  (\/ pc[w] \in {"ready", "checking", "refreshing", "fresh"}
   \/ AtEntry(w) /\ job[w].entry.kind = "mutation")
  => gen[w] \in 1..Len(head.owners) /\ head.owners[gen[w]] = w

(* While a writer that made a change looks for it, nobody adds to it but   *)
(* after taking the record over.                                           *)
FindsOwn(w) ==
  /\ pc[w] = "verifying" /\ job[w].entry.kind = "mutation"
  /\ job[w].slot \in Canonical /\ Token(head) = w
  => head.rev = job[w].entry.rev /\ Last(head.events) = <<w, job[w].slot>>

Discipline(w) ==
  OwnEntry(w) /\ ClaimsOnce(w) /\ KeepsGeneration(w) /\ FindsOwn(w)

RefusedKept == \A s \in refused : slots[s].kind = "mutation"

HistoryKept == RefusedKept /\ DoneStays /\ StaleMeansTakeover

StoreInv ==
  /\ Types
  /\ head = Replay(slots)
  /\ OwnersApart
  /\ FillersApart
  /\ \A w \in Writer : Discipline(w)
  /\ HistoryKept

(* The lease records: at most two of each writer.                          *)
Never(s, w) == \A i \in 1..Len(s) : s[i] # w
Once(s, w) == \A i, j \in 1..Len(s) : s[i] = w /\ s[j] = w => i = j
Twice(s, w) ==
  \A i, j, k \in 1..Len(s) :
    s[i] = w /\ s[j] = w /\ s[k] = w => i = j \/ j = k \/ i = k

RecordsOf(w) ==
  /\ Twice(order, w)
  /\ pc[w] = "idle" => Never(order, w)
  /\ pc[w] \notin {"refreshing", "gone"} => Once(order, w)
  /\ pc[w] = "refreshing" /\ w \notin disk => Once(order, w)

LeaseInv ==
  /\ pc \in [Writer -> Stages]
  /\ disk \subseteq Writer
  /\ order \in Seq(Writer)
  /\ \A w \in Writer : RecordsOf(w)

-----------------------------------------------------------------------------
(* What one entry does to a head *)

(* An entry keeps the shape of the head it is applied to.                  *)
LEMMA AppliedShape ==
  ASSUME NEW sl \in [Slot -> Entry], NEW n \in Slot, NEW h, Shape(h, sl, n)
  PROVE  Shape(Applied(h, sl[n], n), sl, n + 1)
<1> DEFINE e == sl[n]
           g == Applied(h, e, n)
<1> SUFFICES Shape(g, sl, n + 1)
  OBVIOUS
<1>1. e \in Entry /\ e.token \in Writer \cup {None} /\ e.gen \in Nat /\ e.rev \in Nat
  BY StoreAssumption DEF Entry, Generation, Revision
<1>2. h \in HeadType /\ n \in Nat /\ h.phys \in Int /\ h.phys < n /\ h.phys >= -1
  BY StoreAssumption DEF Shape, Slot, HeadType
<1>3. \A s \in Slot : s \in Int /\ (s < n + 1 => s < n \/ s = n)
  BY <1>2 DEF Slot
<1>4. CASE e = Absent
  <2>1. g = h
    BY <1>4 DEF Applied
  <2>2. h.phys \in -1..((n + 1) - 1)
    BY <1>2
  <2>3. \A s \in Slot : s < n + 1 /\ sl[s] # Absent => s <= h.phys
    BY <1>3, <1>4 DEF Shape
  <2>4. QED BY <2>1, <2>2, <2>3 DEF Shape
<1>5. ASSUME e # Absent, g \in HeadType, g.phys = n,
             g.gen = Len(g.owners), g.rev = Len(g.events), g.rev <= n + 1,
             \A i \in 1..Len(g.events) :
               /\ sl[g.events[i][2]].kind = "mutation"
               /\ g.events[i][1] = sl[g.events[i][2]].token
               /\ g.events[i][1] \in ToSet(g.owners) \cup {None}
               /\ g.events[i][2] <= n
      PROVE  Shape(g, sl, n + 1)
  <2>1. g.phys \in -1..((n + 1) - 1)
    BY <1>2, <1>5
  <2>2. \A s \in Slot : s < n + 1 => s <= g.phys
    BY <1>2, <1>3, <1>5
  <2> HIDE DEF g
  <2>3. QED BY <1>5, <2>1, <2>2 DEF Shape
<1>6. h.owners \in Seq(Writer \cup {None})
      /\ h.events \in Seq((Writer \cup {None}) \X Slot)
      /\ h.gen = Len(h.owners) /\ h.rev = Len(h.events)
      /\ h.rev <= h.phys + 1 /\ h.rev \in Nat
  BY <1>2 DEF Shape, HeadType
<1>7. \A i \in 1..Len(h.events) :
        /\ h.events[i] \in (Writer \cup {None}) \X Slot
        /\ sl[h.events[i][2]].kind = "mutation"
        /\ h.events[i][1] = sl[h.events[i][2]].token
        /\ h.events[i][1] \in ToSet(h.owners) \cup {None}
        /\ h.events[i][2] <= n
  <2> TAKE i \in 1..Len(h.events)
  <2>1. h.events[i] \in (Writer \cup {None}) \X Slot
    BY <1>6, ElementOfSeq
  <2>2. h.events[i][2] <= h.phys /\ h.events[i][2] \in Int
    BY <1>3, <2>1 DEF Shape
  <2>3. h.events[i][2] <= n
    BY <1>2, <2>2
  <2>4. QED BY <2>1, <2>3 DEF Shape
<1>8. CASE e # Absent /\ ClaimApplies(h, e)
  <2>1. g = [h EXCEPT !.phys = n, !.gen = e.gen, !.owners = Append(@, e.token)]
    BY <1>8 DEF Applied
  <2>2. g \in HeadType
    <3>1. Append(h.owners, e.token) \in Seq(Writer \cup {None})
      BY <1>1, <1>6
    <3>2. n \in Int /\ e.gen \in Nat
      BY <1>1, <1>2
    <3> HIDE DEF e
    <3>3. QED BY <1>2, <2>1, <3>1, <3>2 DEF HeadType
  <2>3. g.phys = n /\ g.gen = h.gen + 1 /\ g.rev = h.rev
        /\ g.owners = Append(h.owners, e.token) /\ g.events = h.events
    BY <1>2, <1>8, <2>1 DEF HeadType, ClaimApplies
  <2>4. Len(g.owners) = Len(h.owners) + 1
    BY <1>1, <1>6, <2>3
  <2>5. \A x \in ToSet(h.owners) : x \in ToSet(g.owners)
    <3>1. \A i \in 1..Len(h.owners) :
             i \in 1..Len(g.owners) /\ g.owners[i] = h.owners[i]
      BY <1>1, <1>6, <2>3
    <3>2. DOMAIN h.owners = 1..Len(h.owners) /\ DOMAIN g.owners = 1..Len(g.owners)
      BY <1>1, <1>6, <2>3
    <3>3. QED BY <3>1, <3>2 DEF ToSet
  <2> HIDE DEF g
  <2>6. \A i \in 1..Len(g.events) :
               /\ sl[g.events[i][2]].kind = "mutation"
               /\ g.events[i][1] = sl[g.events[i][2]].token
               /\ g.events[i][1] \in ToSet(g.owners) \cup {None}
               /\ g.events[i][2] <= n
    BY <1>7, <2>3, <2>5
  <2>7. g.rev <= n + 1
    BY <1>2, <1>6, <2>3
  <2>8. QED BY <1>5, <1>6, <1>8, <2>2, <2>3, <2>4, <2>6, <2>7
<1>9. CASE e # Absent /\ ~ ClaimApplies(h, e) /\ MutationApplies(h, e)
  <2>1. g = [h EXCEPT !.phys = n, !.rev = e.rev, !.events = Append(@, <<e.token, n>>)]
    BY <1>9 DEF Applied
  <2>2. g \in HeadType
    <3>1. Append(h.events, <<e.token, n>>) \in Seq((Writer \cup {None}) \X Slot)
      BY <1>1, <1>6
    <3>2. n \in Int /\ e.rev \in Nat
      BY <1>1, <1>2
    <3> HIDE DEF e
    <3>3. QED BY <1>2, <2>1, <3>1, <3>2 DEF HeadType
  <2>3. g.phys = n /\ g.gen = h.gen /\ g.rev = h.rev + 1
        /\ g.owners = h.owners /\ g.events = Append(h.events, <<e.token, n>>)
        /\ e.kind = "mutation" /\ e.token = Token(h)
    BY <1>2, <1>9, <2>1 DEF HeadType, MutationApplies
  <2>4. Len(g.events) = Len(h.events) + 1
        /\ \A i \in 1..Len(g.events) :
             g.events[i] = IF i = Len(h.events) + 1 THEN <<e.token, n>>
                           ELSE h.events[i]
    BY <1>1, <1>6, <2>3
  <2>5. Token(h) \in ToSet(h.owners) \cup {None}
    <3>1. CASE h.owners = << >>
      BY <3>1 DEF Token
    <3>2. CASE h.owners # << >>
      <4>1. Len(h.owners) \in DOMAIN h.owners
        BY <1>6, <3>2
      <4>2. QED BY <3>2, <4>1 DEF Token, Last, ToSet
    <3>3. QED BY <3>1, <3>2
  <2> HIDE DEF g
  <2>6. ASSUME NEW i \in 1..Len(g.events)
        PROVE  /\ sl[g.events[i][2]].kind = "mutation"
               /\ g.events[i][1] = sl[g.events[i][2]].token
               /\ g.events[i][1] \in ToSet(g.owners) \cup {None}
               /\ g.events[i][2] <= n
    <3>1. CASE i = Len(h.events) + 1
      <4>1. g.events[i] = <<e.token, n>>
        BY <2>4, <3>1
      <4>2. n <= n
        BY <1>2
      <4>3. QED BY <2>3, <2>5, <4>1, <4>2
    <3>2. CASE i # Len(h.events) + 1
      <4>1. i \in 1..Len(h.events)
        BY <1>6, <2>4, <3>2
      <4>2. g.events[i] = h.events[i]
        BY <2>4, <3>2
      <4>3. QED BY <1>7, <2>3, <4>1, <4>2
    <3>3. QED BY <3>1, <3>2
  <2>7. g.rev <= n + 1
    BY <1>2, <1>6, <2>3
  <2>8. QED BY <1>5, <1>6, <1>9, <2>2, <2>3, <2>4, <2>6, <2>7
<1>10. CASE e # Absent /\ ~ ClaimApplies(h, e) /\ ~ MutationApplies(h, e)
  <2>1. g = [h EXCEPT !.phys = n]
    BY <1>10 DEF Applied
  <2>2. g \in HeadType /\ g.phys = n /\ g.gen = h.gen /\ g.rev = h.rev
        /\ g.owners = h.owners /\ g.events = h.events
    BY <1>2, <2>1 DEF HeadType
  <2> HIDE DEF g
  <2>3. g.rev <= n + 1
    BY <1>2, <1>6, <2>2
  <2>4. QED BY <1>5, <1>6, <1>7, <1>10, <2>2, <2>3
<1>11. QED BY <1>4, <1>8, <1>9, <1>10

(* The head before any entry.                                              *)
LEMMA EmptyShape ==
  ASSUME NEW sl
  PROVE  Shape(EmptyHead, sl, 0)
<1>1. EmptyHead \in HeadType
  BY DEF EmptyHead, HeadType
<1>2. Len(EmptyHead.events) = 0 /\ Len(EmptyHead.owners) = 0
      /\ EmptyHead.gen = 0 /\ EmptyHead.rev = 0 /\ EmptyHead.phys = -1
  BY DEF EmptyHead
<1>3. \A s \in Slot : ~ (s < 0)
  BY DEF Slot
<1>4. QED BY <1>1, <1>2, <1>3 DEF Shape

(* The recurrence of a journal, with the shape of its heads.               *)
Reads(f, sl) ==
  /\ Replay(sl) = f[MaxSlot + 1]
  /\ f[0] = EmptyHead
  /\ \A n \in 0..(MaxSlot + 1) : Shape(f[n], sl, n)
  /\ \A n \in Slot : f[n + 1] = Applied(f[n], sl[n], n)

(* What Replay chooses is such a solution.                                 *)
LEMMA ReplayReads ==
  ASSUME NEW sl \in [Slot -> Entry]
  PROVE  \E f : Reads(f, sl)
<1> DEFINE k == MaxSlot + 1
<1>1. k \in Nat
  BY StoreAssumption
<1>2. PICK f : Heads(f, sl, k) /\ Replay(sl) = f[k]
  BY ReplayHeads
<1>3. f[0] = EmptyHead /\ \A n \in 0..k : n < k => f[n + 1] = Applied(f[n], sl[n], n)
  BY <1>1, <1>2, HeadsSteps
<1> DEFINE S == {n \in 0..k : Shape(f[n], sl, n)}
<1>4. 0 \in S
  BY <1>1, <1>3, EmptyShape
<1>5. ASSUME NEW n \in 0..k, n < k, n \in S PROVE n + 1 \in S
  <2>1. n \in Slot /\ n + 1 \in 0..k
    BY <1>5, StoreAssumption DEF Slot
  <2>2. Shape(f[n], sl, n)
    BY <1>5
  <2>3. Shape(Applied(f[n], sl[n], n), sl, n + 1)
    BY <2>1, <2>2, AppliedShape
  <2>4. f[n + 1] = Applied(f[n], sl[n], n)
    BY <1>3, <1>5
  <2>5. QED BY <2>1, <2>3, <2>4
<1>6. \A n \in 0..k : n \in S
  <2> HIDE DEF S, k
  <2> QED BY <1>1, <1>4, <1>5, Induction
<1>7. \A n \in Slot : n \in 0..k /\ n < k
  BY StoreAssumption DEF Slot
<1>8. QED BY <1>2, <1>3, <1>6, <1>7 DEF Reads

(* Every head has that shape.                                              *)
LEMMA ReplayShape ==
  ASSUME NEW sl \in [Slot -> Entry]
  PROVE  Shape(Replay(sl), sl, MaxSlot + 1)
<1>1. PICK f : Reads(f, sl)
  BY ReplayReads
<1>2. MaxSlot + 1 \in 0..(MaxSlot + 1)
  BY StoreAssumption
<1>3. QED BY <1>1, <1>2 DEF Reads

-----------------------------------------------------------------------------
(* What a change of one entry does to the head *)

(* The sets of numbers the types are made of.                              *)
LEMMA Bounds ==
  /\ MaxSlot \in Nat /\ Cardinality(Writer) \in Nat
  /\ Generation \subseteq Nat /\ 0 \in Generation
  /\ Revision \subseteq Nat /\ 0 \in Revision
  /\ Slot \subseteq Nat
<1>1. MaxSlot \in Nat /\ Cardinality(Writer) \in Nat
  BY StoreAssumption, FS_CardinalityType
<1>2. QED BY <1>1 DEF Generation, Revision, Slot

(* Entries without a writer.                                               *)
LEMMA BareEntries ==
  /\ Torn \in Entry /\ Absent \in Entry /\ Bare("baseline") \in Entry
  /\ Torn # Absent /\ Torn.kind = "torn" /\ Absent.kind = "absent"
BY Bounds DEF Torn, Absent, Bare, Entry, Kinds

(* Whether an entry is canonical does not depend on where the head ends.   *)
LEMMA AppliedSame ==
  ASSUME NEW g \in HeadType, NEW h \in HeadType, SameRecord(g, h),
         NEW e \in Entry, NEW s
  PROVE  SameRecord(Applied(g, e, s), Applied(h, e, s))
<1>1. (ClaimApplies(g, e) <=> ClaimApplies(h, e))
      /\ (MutationApplies(g, e) <=> MutationApplies(h, e))
  BY DEF SameRecord, ClaimApplies, MutationApplies, Token
<1>2. CASE e = Absent
  BY <1>2 DEF Applied
<1>3. CASE e # Absent /\ ClaimApplies(g, e)
  BY <1>1, <1>3 DEF Applied, SameRecord, HeadType
<1>4. CASE e # Absent /\ ~ ClaimApplies(g, e) /\ MutationApplies(g, e)
  BY <1>1, <1>4 DEF Applied, SameRecord, HeadType
<1>5. CASE e # Absent /\ ~ ClaimApplies(g, e) /\ ~ MutationApplies(g, e)
  BY <1>1, <1>5 DEF Applied, SameRecord, HeadType
<1>6. QED BY <1>2, <1>3, <1>4, <1>5

(* An entry that does not parse is no claim and no mutation.               *)
LEMMA AppliedTorn ==
  ASSUME NEW h \in HeadType, NEW s
  PROVE  SameRecord(Applied(h, Torn, s), h) /\ SameRecord(Applied(h, Absent, s), h)
<1>1. ~ ClaimApplies(h, Torn) /\ ~ MutationApplies(h, Torn)
  BY BareEntries DEF ClaimApplies, MutationApplies
<1>2. Applied(h, Torn, s) = [h EXCEPT !.phys = s]
  BY <1>1, BareEntries DEF Applied
<1>3. Applied(h, Absent, s) = h
  BY DEF Applied
<1>4. QED BY <1>2, <1>3 DEF SameRecord, HeadType

(* Journals that agree up to an entry have the same head there.            *)
LEMMA SameBelow ==
  ASSUME NEW f, NEW sl, Reads(f, sl), NEW g, NEW tl, Reads(g, tl),
         NEW s \in Slot, \A t \in Slot : t < s => sl[t] = tl[t]
  PROVE  f[s] = g[s]
<1> DEFINE S == {n \in 0..s : f[n] = g[n]}
<1>1. s \in Nat
  BY Bounds
<1>2. 0 \in S
  BY <1>1 DEF Reads
<1>3. ASSUME NEW n \in 0..s, n < s, n \in S PROVE n + 1 \in S
  <2>1. n \in Slot /\ n + 1 \in 0..s
    BY <1>1, <1>3, Bounds DEF Slot
  <2>2. f[n + 1] = g[n + 1]
    BY <1>3, <2>1 DEF Reads
  <2>3. QED BY <2>1, <2>2
<1>4. \A n \in 0..s : n \in S
  <2> HIDE DEF S
  <2> QED BY <1>1, <1>2, <1>3, Induction
<1>5. s \in 0..s
  BY <1>1
<1>6. QED BY <1>4, <1>5

(* Nothing after entry s: the head there is the head.                      *)
LEMMA NothingAbove ==
  ASSUME NEW f, NEW sl, Reads(f, sl), NEW s \in 0..(MaxSlot + 1),
         \A t \in Slot : t >= s => sl[t] = Absent
  PROVE  Replay(sl) = f[s]
<1> DEFINE k == (MaxSlot + 1) - s
           S == {n \in 0..k : f[s + n] = f[s]}
<1>1. k \in Nat /\ s \in Nat /\ s + k = MaxSlot + 1 /\ s + 0 = s
  BY Bounds
<1>2. 0 \in S
  BY <1>1
<1>3. ASSUME NEW n \in 0..k, n < k, n \in S PROVE n + 1 \in S
  <2>1. s + n \in Slot /\ s + n >= s /\ s + (n + 1) = (s + n) + 1 /\ n + 1 \in 0..k
    BY <1>1, <1>3, Bounds DEF Slot
  <2>2. f[(s + n) + 1] = Applied(f[s + n], Absent, s + n)
    BY <2>1 DEF Reads
  <2>3. f[s + (n + 1)] = f[s]
    BY <1>3, <2>1, <2>2 DEF Applied
  <2>4. QED BY <2>1, <2>3
<1>4. \A n \in 0..k : n \in S
  <2> HIDE DEF S, k
  <2> QED BY <1>1, <1>2, <1>3, Induction
<1>5. k \in 0..k
  BY <1>1
<1>6. QED BY <1>1, <1>4, <1>5 DEF Reads

(* An entry that is created, or given up, changes nobody's record, be it   *)
(* the last of the journal or not.                                         *)
LEMMA BlankEntry ==
  ASSUME NEW sl \in [Slot -> Entry], NEW s \in Slot,
         NEW e \in {Torn, Absent}, sl[s] \in {Torn, Absent}
  PROVE  SameRecord(Replay([sl EXCEPT ![s] = e]), Replay(sl))
<1> DEFINE tl == [sl EXCEPT ![s] = e]
           k == MaxSlot + 1
<1>1. k \in Nat /\ tl \in [Slot -> Entry]
  BY Bounds, BareEntries
<1>2. PICK f : Reads(f, sl)
  BY ReplayReads
<1>3. PICK g : Reads(g, tl)
  <2> HIDE DEF tl
  <2> QED BY <1>1, ReplayReads
<1> DEFINE S == {n \in 0..k : SameRecord(g[n], f[n])}
<1>4. 0 \in S
  BY <1>1, <1>2, <1>3 DEF Reads, SameRecord
<1>5. ASSUME NEW n \in 0..k, n < k, n \in S PROVE n + 1 \in S
  <2>1. n \in Slot /\ n + 1 \in 0..k
    BY <1>1, <1>5, Bounds DEF Slot
  <2>2. f[n] \in HeadType /\ g[n] \in HeadType
        /\ f[n + 1] = Applied(f[n], sl[n], n) /\ g[n + 1] = Applied(g[n], tl[n], n)
    BY <1>2, <1>3, <2>1 DEF Reads, Shape
  <2>3. CASE n # s
    <3>1. tl[n] = sl[n] /\ sl[n] \in Entry
      BY <2>1, <2>3
    <3> HIDE DEF tl
    <3>2. SameRecord(g[n + 1], f[n + 1])
      BY <1>5, <2>2, <3>1, AppliedSame
    <3>3. QED BY <2>1, <3>2
  <2>4. CASE n = s
    <3>1. tl[n] \in {Torn, Absent} /\ sl[n] \in {Torn, Absent}
      BY <2>1, <2>4
    <3> HIDE DEF tl
    <3>2. SameRecord(g[n + 1], g[n]) /\ SameRecord(f[n + 1], f[n])
      BY <2>2, <3>1, AppliedTorn
    <3>3. SameRecord(g[n + 1], f[n + 1])
      BY <1>5, <3>2 DEF SameRecord
    <3>4. QED BY <2>1, <3>3
  <2>5. QED BY <2>3, <2>4
<1>6. \A n \in 0..k : n \in S
  <2> HIDE DEF S, k
  <2> QED BY <1>1, <1>4, <1>5, Induction
<1>7. k \in 0..k
  BY <1>1
<1>8. QED BY <1>2, <1>3, <1>6, <1>7 DEF Reads

(* An entry that is filled as the last one of the journal is applied to    *)
(* the head as it was.                                                     *)
LEMMA TopEntry ==
  ASSUME NEW sl \in [Slot -> Entry], NEW s \in Slot, NEW e \in Entry,
         sl[s] = Torn, \A t \in Slot : t > s => sl[t] = Absent
  PROVE  SameRecord(Replay([sl EXCEPT ![s] = e]), Applied(Replay(sl), e, s))
<1> DEFINE tl == [sl EXCEPT ![s] = e]
<1>1. tl \in [Slot -> Entry] /\ tl[s] = e
      /\ (\A t \in Slot : t < s => tl[t] = sl[t])
      /\ (\A t \in Slot : t > s => tl[t] = Absent)
  BY Bounds
<1>2. PICK f : Reads(f, sl)
  BY ReplayReads
<1>3. PICK g : Reads(g, tl)
  <2> HIDE DEF tl
  <2> QED BY <1>1, ReplayReads
<1> HIDE DEF tl
<1>4. f[s] = g[s]
  BY <1>1, <1>2, <1>3, SameBelow
<1>5. s + 1 \in 0..(MaxSlot + 1) /\ s \in 0..(MaxSlot + 1)
      /\ \A t \in Slot : t >= s + 1 => t > s
  BY Bounds DEF Slot
<1>6. Replay(tl) = g[s + 1] /\ Replay(sl) = f[s + 1]
  BY <1>1, <1>2, <1>3, <1>5, NothingAbove
<1>7. f[s] \in HeadType /\ f[s + 1] \in HeadType
      /\ f[s + 1] = Applied(f[s], Torn, s) /\ g[s + 1] = Applied(f[s], e, s)
  BY <1>1, <1>2, <1>3, <1>4, <1>5 DEF Reads, Shape
<1>8. SameRecord(Applied(f[s], e, s), Applied(f[s + 1], e, s))
  <2>1. SameRecord(f[s], f[s + 1])
    BY <1>7, AppliedTorn DEF SameRecord
  <2>2. QED BY <1>7, <2>1, AppliedSame
<1>9. SameRecord(Replay(tl), Applied(Replay(sl), e, s))
  BY <1>6, <1>7, <1>8
<1>10. QED BY <1>9 DEF tl

-----------------------------------------------------------------------------
(* What the invariant says of a state *)

(* The numbers from 1 to n are n.                                          *)
LEMMA Counting ==
  ASSUME NEW n \in Nat
  PROVE  IsFiniteSet(1..n) /\ Cardinality(1..n) = n
BY FS_Interval

(* There are no more owners than writers they are taken from.              *)
LEMMA FewOwners ==
  ASSUME OwnersApart, NEW W \in SUBSET Writer, ToSet(head.owners) \subseteq W
  PROVE  Len(head.owners) <= Cardinality(W)
<1> DEFINE n == Len(head.owners)
<1>1. head.owners \in Seq(Writer) /\ n \in Nat /\ DOMAIN head.owners = 1..n
  BY DEF OwnersApart
<1>2. IsFiniteSet(W)
  BY StoreAssumption, FS_Subset
<1>3. head.owners \in [1..n -> W]
  BY <1>1 DEF ToSet
<1>4. \A i, j \in 1..n : head.owners[i] = head.owners[j] => i = j
  BY DEF OwnersApart
<1>5. head.owners \in Injection(1..n, W)
  <2> DEFINE o == head.owners
  <2>1. o \in [1..n -> W] /\ \A i, j \in 1..n : o[i] = o[j] => i = j
    BY <1>3, <1>4
  <2> HIDE DEF o, n
  <2>2. o \in Injection(1..n, W)
    BY <2>1 DEF Injection, IsInjective
  <2>3. QED BY <2>2 DEF o
<1>6. Cardinality(1..n) <= Cardinality(W)
  BY <1>2, <1>5, FS_Injection
<1>7. Cardinality(1..n) = n
  BY <1>1, Counting
<1>8. QED BY <1>6, <1>7

(* The head, if no writer owned the record twice.                          *)
HeadKnown == Types /\ head = Replay(slots) /\ OwnersApart

LEMMA HeadBounds ==
  ASSUME HeadKnown
  PROVE  /\ Shape(head, slots, MaxSlot + 1)
         /\ head \in HeadType
         /\ head.phys \in Int /\ head.phys >= -1 /\ head.phys <= MaxSlot
         /\ head.rev = Len(head.events) /\ head.rev \in Nat
         /\ head.rev <= head.phys + 1 /\ head.rev \in Revision
         /\ head.gen = Len(head.owners) /\ head.gen \in Generation
<1>1. slots \in [Slot -> Entry] /\ head = Replay(slots)
  BY DEF HeadKnown, Types
<1>2. Shape(head, slots, MaxSlot + 1)
  BY <1>1, ReplayShape
<1>3. head \in HeadType /\ head.phys \in -1..((MaxSlot + 1) - 1)
      /\ head.gen = Len(head.owners) /\ head.rev = Len(head.events)
      /\ head.rev <= head.phys + 1
  BY <1>2 DEF Shape
<1>4. head.rev \in Nat /\ head.gen \in Nat
  BY <1>3 DEF HeadType
<1>5. head.phys \in Int /\ head.phys >= -1 /\ head.phys <= MaxSlot
  BY <1>3, Bounds
<1>6. head.rev \in Revision
  BY <1>3, <1>4, <1>5, Bounds DEF Revision
<1>7. head.gen \in Generation
  <2>1. ToSet(head.owners) \subseteq Writer
    BY DEF HeadKnown, OwnersApart, ToSet
  <2>2. Len(head.owners) <= Cardinality(Writer)
    BY <2>1, FewOwners DEF HeadKnown
  <2>3. QED BY <1>3, <1>4, <2>2, Bounds DEF Generation
<1>8. QED BY <1>2, <1>3, <1>4, <1>5, <1>6, <1>7

(* A writer that has claimed nothing yet finds a generation to claim.      *)
LEMMA RoomToClaim ==
  ASSUME HeadKnown, NEW w \in Writer, w \notin ToSet(head.owners)
  PROVE  head.gen + 1 \in Generation
<1>1. ToSet(head.owners) \subseteq Writer \ {w}
  BY DEF HeadKnown, OwnersApart, ToSet
<1>2. Len(head.owners) <= Cardinality(Writer \ {w})
  BY <1>1, FewOwners DEF HeadKnown
<1>3. Cardinality(Writer \ {w}) = Cardinality(Writer) - 1
  BY StoreAssumption, FS_RemoveElement
<1>4. QED BY <1>2, <1>3, HeadBounds, Bounds DEF Generation

(* What the invariant says of the head.                                    *)
LEMMA HeadFacts ==
  ASSUME StoreInv
  PROVE  /\ Shape(head, slots, MaxSlot + 1)
         /\ head \in HeadType
         /\ head.phys \in Int /\ head.phys >= -1 /\ head.phys <= MaxSlot
         /\ head.rev = Len(head.events) /\ head.rev \in Nat
         /\ head.rev <= head.phys + 1 /\ head.rev \in Revision
         /\ head.gen = Len(head.owners) /\ head.gen \in Generation
<1>1. HeadKnown
  BY DEF StoreInv, HeadKnown
<1>2. QED BY <1>1, HeadBounds

(* A canonical change is a mutation on disk, of an owner.                  *)
LEMMA CanonicalEntry ==
  ASSUME StoreInv, NEW s \in Canonical
  PROVE  /\ s \in Slot
         /\ slots[s].kind = "mutation"
         /\ slots[s].token \in ToSet(head.owners) \cup {None}
<1>1. head.events \in Seq((Writer \cup {None}) \X Slot)
  BY HeadFacts DEF HeadType
<1>2. PICK i \in 1..Len(head.events) : s = head.events[i][2]
  BY <1>1 DEF Canonical, ToSet
<1>3. head.events[i] \in (Writer \cup {None}) \X Slot
  BY <1>1, <1>2, ElementOfSeq
<1>4. QED BY <1>2, <1>3, HeadFacts DEF Shape

(* Who has not yet published its claim owns nothing.                       *)
LEMMA NotYetOwner ==
  ASSUME StoreInv, NEW w \in Writer,
         \/ pc[w] \in {"idle", "entering", "confirming", "held"}
         \/ AtEntry(w) /\ job[w].entry.kind = "baseline"
         \/ pc[w] \in {"publishing", "filling"} /\ job[w].entry.kind = "claim"
  PROVE  w \notin ToSet(head.owners)
BY DEF StoreInv, Discipline, ClaimsOnce, AtEntry

-----------------------------------------------------------------------------
(* Steps that leave the journal alone *)

(* The others are where they were, and so is the journal.                  *)
Apart(w) ==
  /\ UNCHANGED <<slots, head>>
  /\ \A v \in Writer \ {w} :
       pc'[v] = pc[v] /\ job'[v] = job[v] /\ gen'[v] = gen[v]

(* A step that leaves the entries that are published and filled alone keeps *)
(* the writers apart.                                                      *)
LEMMA ApartStep ==
  ASSUME StoreInv, NEW w \in Writer, Apart(w), Types',
         pc'[w] # "filling", Discipline(w)', HistoryKept'
  PROVE  StoreInv'
<1>1. head' = Replay(slots)'
  BY DEF StoreInv, Apart, Replay
<1>2. OwnersApart'
  BY DEF StoreInv, Apart, OwnersApart
<1>3. FillersApart'
  BY DEF StoreInv, Apart, FillersApart
<1>4. ASSUME NEW v \in Writer PROVE Discipline(v)'
  <2>1. CASE v = w
    BY <2>1
  <2>2. CASE v # w
    <3>1. Discipline(v)
      BY DEF StoreInv
    <3>2. slots' = slots /\ head' = head
          /\ pc'[v] = pc[v] /\ job'[v] = job[v] /\ gen'[v] = gen[v]
      BY <2>2 DEF Apart
    <3>3. OwnEntry(v)' /\ ClaimsOnce(v)'
      BY <3>1, <3>2 DEF Discipline, OwnEntry, ClaimsOnce, AtEntry
    <3>4. KeepsGeneration(v)' /\ FindsOwn(v)'
      BY <3>1, <3>2 DEF Discipline, KeepsGeneration, FindsOwn, AtEntry,
                        Canonical, Token
    <3>5. QED BY <3>3, <3>4 DEF Discipline
  <2>3. QED BY <2>1, <2>2
<1>5. QED BY <1>1, <1>2, <1>3, <1>4 DEF StoreInv

(* A step that touches neither journal nor history keeps what the history  *)
(* says.                                                                   *)
LEMMA HistoryUnchanged ==
  ASSUME StoreInv, UNCHANGED <<slots, head, acked, refused>>
  PROVE  HistoryKept'
BY DEF StoreInv, HistoryKept, RefusedKept, DoneStays, StaleMeansTakeover,
       Canonical, Token

(* A step to a stage at which w has no entry.                              *)
LEMMA OffEntry ==
  ASSUME StoreInv, NEW w \in Writer,
         NEW stage \in Stages \ {"publishing", "filling", "verifying"},
         Goes(w, stage), Apart(w), Types', HistoryKept',
         w \in ToSet(head.owners) =>
           stage \in {"ready", "checking", "refreshing", "fresh", "leaving", "gone"},
         stage \in {"ready", "checking", "refreshing", "fresh"} =>
           gen'[w] \in 1..Len(head.owners) /\ head.owners[gen'[w]] = w
  PROVE  StoreInv'
<1>1. pc'[w] = stage /\ head' = head
  BY DEF StoreInv, Types, Goes, Apart
<1>2. OwnEntry(w)' /\ FindsOwn(w)'
  BY <1>1 DEF OwnEntry, FindsOwn, AtEntry
<1>3. ClaimsOnce(w)' /\ KeepsGeneration(w)'
  BY <1>1 DEF ClaimsOnce, KeepsGeneration, AtEntry
<1>4. QED BY <1>1, <1>2, <1>3, ApartStep DEF Discipline

(* The steps of the lease, of a writer that has no claim yet.              *)
LEMMA LeaseSteps ==
  ASSUME StoreInv, NEW w \in Writer,
         \/ LeaseBusy(w) \/ LeaseFree(w) \/ LeaseWrite(w) \/ LeaseConfirm(w)
  PROVE  StoreInv'
<1>1. PICK stage \in {"gone", "entering", "confirming", "held"} : Goes(w, stage)
  BY DEF LeaseBusy, LeaseFree, LeaseWrite, LeaseConfirm
<1>2. pc[w] \in {"idle", "entering", "confirming"}
      /\ UNCHANGED <<journal, job, gen, expect, history>>
  BY DEF LeaseBusy, LeaseFree, LeaseWrite, LeaseConfirm
<1>3. w \notin ToSet(head.owners)
  BY <1>2, NotYetOwner
<1>4. Types'
  BY <1>1, <1>2 DEF StoreInv, Types, Goes, Stages, journal, history
<1>5. Apart(w) /\ HistoryKept'
  BY <1>1, <1>2, HistoryUnchanged DEF Apart, Goes, journal, history, StoreInv, Types
<1>6. stage \in Stages \ {"publishing", "filling", "verifying"}
  BY DEF Stages
<1>7. QED BY <1>1, <1>3, <1>4, <1>5, <1>6, OffEntry

(* A lease expires or is refreshed late: nothing that matters here changes. *)
LEMMA ExpireStep ==
  ASSUME StoreInv, NEW w \in Writer, Expire(w)
  PROVE  StoreInv'
<1>1. UNCHANGED <<slots, exists, head, pc, job, gen, expect, acked, refused>>
  BY DEF Expire, journal, history
<1>2. Types' /\ head' = Replay(slots)'
  BY <1>1 DEF StoreInv, Types, Replay
<1>3. OwnersApart' /\ FillersApart'
  BY <1>1 DEF StoreInv, OwnersApart, FillersApart
<1>4. ASSUME NEW v \in Writer PROVE Discipline(v)'
  BY <1>1 DEF StoreInv, Discipline, OwnEntry, ClaimsOnce, KeepsGeneration,
              FindsOwn, AtEntry, Canonical, Token
<1>5. QED BY <1>1, <1>2, <1>3, <1>4, HistoryUnchanged DEF StoreInv

(* A writer that rests keeps nothing of its entry.                         *)
LEMMA RestTypes ==
  ASSUME Types, NEW w \in Writer, NEW stage \in Stages, Rests(w, stage),
         exists' \in BOOLEAN, gen' \in [Writer -> Generation],
         slots' \in [Slot -> Entry], acked' \subseteq Slot, refused' \subseteq Slot
  PROVE  /\ Types'
         /\ \A v \in Writer \ {w} : pc'[v] = pc[v] /\ job'[v] = job[v]
<1>1. NoJob \in Job /\ 0 \in Revision
  <2>1. Absent \in Entry /\ 0 \in Slot
    BY Bounds, BareEntries DEF Slot
  <2>2. QED BY <2>1, Bounds DEF NoJob, Job
<1>2. pc' \in [Writer -> Stages] /\ job' \in [Writer -> Job]
      /\ expect' \in [Writer -> Revision]
  BY <1>1 DEF Types, Rests, Goes
<1>3. \A v \in Writer \ {w} : pc'[v] = pc[v] /\ job'[v] = job[v]
  BY DEF Types, Rests, Goes
<1>4. QED BY <1>2, <1>3 DEF Types

(* Leaving, crashing, and the steps that give an entry up.                 *)
LEMMA RestSteps ==
  ASSUME StoreInv, NEW w \in Writer, UNCHANGED <<journal, gen, history>>,
         NEW stage \in {"gone", "leaving", "ready", "held"}, Rests(w, stage),
         stage = "ready" => \/ pc[w] \in {"ready", "checking", "refreshing", "fresh"}
                            \/ AtEntry(w) /\ job[w].entry.kind = "mutation",
         stage = "held" => w \notin ToSet(head.owners)
  PROVE  StoreInv'
<1>1. stage \in Stages \ {"publishing", "filling", "verifying"}
  BY DEF Stages
<1>2. Types' /\ Apart(w)
  <2>1. exists' \in BOOLEAN /\ gen' \in [Writer -> Generation]
        /\ slots' \in [Slot -> Entry] /\ acked' \subseteq Slot /\ refused' \subseteq Slot
    BY DEF StoreInv, Types, journal, history
  <2>2. QED BY <1>1, <2>1, RestTypes DEF StoreInv, Apart, journal, history
<1>3. HistoryKept'
  BY HistoryUnchanged DEF journal, history
<1>4. stage = "ready" => gen'[w] \in 1..Len(head.owners) /\ head.owners[gen'[w]] = w
  BY DEF StoreInv, Discipline, KeepsGeneration
<1>5. Goes(w, stage)
  BY DEF Rests
<1>6. QED BY <1>1, <1>2, <1>3, <1>4, <1>5, OffEntry

(* Steps that end a call, or give up an entry that another one has.        *)
LEMMA EndSteps ==
  ASSUME StoreInv, NEW w \in Writer,
         \/ Leave(w) \/ Crash(w) \/ MutationStale(w) \/ VerifyBaseline(w)
         \/ Conflict(w)
  PROVE  StoreInv'
<1>1. CASE Leave(w) \/ Crash(w)
  BY <1>1, RestSteps DEF Leave, Crash
<1>2. CASE MutationStale(w)
  BY <1>2, RestSteps DEF MutationStale
<1>3. CASE VerifyBaseline(w)
  <2>1. w \notin ToSet(head.owners)
    BY <1>3, NotYetOwner DEF VerifyBaseline, AtEntry
  <2>2. QED BY <1>3, <2>1, RestSteps DEF VerifyBaseline
<1>4. CASE Conflict(w)
  <2>1. CASE job[w].entry.kind = "mutation"
    BY <1>4, <2>1, RestSteps DEF Conflict, Fails, AtEntry
  <2>2. CASE job[w].entry.kind # "mutation"
    BY <1>4, <2>2, RestSteps DEF Conflict, Fails
  <2>3. QED BY <2>1, <2>2
<1>5. QED BY <1>1, <1>2, <1>3, <1>4

(* The steps between reading the record and publishing a mutation.         *)
LEMMA RefreshSteps ==
  ASSUME StoreInv, NEW w \in Writer,
         Begin(w) \/ RefreshCheck(w) \/ RefreshWrite(w)
  PROVE  StoreInv'
<1>1. PICK stage \in {"ready", "checking", "refreshing", "fresh"} : Goes(w, stage)
  BY DEF Begin, RefreshCheck, RefreshWrite
<1>2. pc[w] \in {"ready", "checking", "refreshing"}
      /\ UNCHANGED <<journal, job, gen, history>>
  BY DEF Begin, RefreshCheck, RefreshWrite
<1>3. expect' \in [Writer -> Revision]
  BY HeadFacts DEF Begin, RefreshCheck, RefreshWrite, StoreInv, Types
<1>4. Types'
  BY <1>1, <1>2, <1>3 DEF StoreInv, Types, Goes, Stages, journal, history
<1>5. Apart(w) /\ HistoryKept'
  BY <1>1, <1>2, HistoryUnchanged DEF Apart, Goes, journal, history, StoreInv, Types
<1>6. stage \in Stages \ {"publishing", "filling", "verifying"}
  BY DEF Stages
<1>7. gen'[w] \in 1..Len(head.owners) /\ head.owners[gen'[w]] = w
  BY <1>2 DEF StoreInv, Discipline, KeepsGeneration
<1>8. QED BY <1>1, <1>4, <1>5, <1>6, <1>7, OffEntry

(* A claim that is found to be the head's makes its writer ready.          *)
LEMMA VerifyClaimStep ==
  ASSUME StoreInv, NEW w \in Writer, VerifyClaim(w)
  PROVE  StoreInv'
<1> DEFINE mine == Token(head) = w /\ head.gen = job[w].entry.gen
           stage == IF mine THEN "ready" ELSE "leaving"
<1>1. /\ Rests(w, stage) /\ UNCHANGED <<journal, lease, history>>
      /\ gen' = IF mine THEN [gen EXCEPT ![w] = head.gen] ELSE gen
  BY DEF VerifyClaim
<1>2. stage \in Stages \ {"publishing", "filling", "verifying"}
      /\ stage \in {"ready", "leaving"}
  BY DEF Stages
<1>3. gen' \in [Writer -> Generation]
      /\ \A v \in Writer \ {w} : gen'[v] = gen[v]
  BY <1>1, HeadFacts DEF StoreInv, Types
<1>4. stage = "ready" => gen'[w] \in 1..Len(head.owners) /\ head.owners[gen'[w]] = w
  <2> SUFFICES ASSUME mine PROVE gen'[w] \in 1..Len(head.owners) /\ head.owners[gen'[w]] = w
    OBVIOUS
  <2>1. gen'[w] = Len(head.owners)
    BY <1>1, HeadFacts DEF StoreInv, Types
  <2>2. head.owners # << >> /\ Last(head.owners) = w
    BY StoreAssumption DEF Token
  <2>3. head.owners \in Seq(Writer)
    BY DEF StoreInv, OwnersApart
  <2>4. QED BY <2>1, <2>2, <2>3 DEF Last
<1> HIDE DEF stage, mine
<1>5. Types' /\ Apart(w)
  <2>1. exists' \in BOOLEAN /\ slots' \in [Slot -> Entry]
        /\ acked' \subseteq Slot /\ refused' \subseteq Slot
    BY <1>1 DEF StoreInv, Types, journal, history
  <2>2. QED BY <1>1, <1>2, <1>3, <2>1, RestTypes DEF StoreInv, Apart, journal
<1>6. HistoryKept'
  BY <1>1, HistoryUnchanged DEF journal, history
<1>7. Goes(w, stage)
  BY <1>1 DEF Rests
<1>8. QED BY <1>2, <1>4, <1>5, <1>6, <1>7, OffEntry

(* A step that hands w an entry to publish.                                *)
LEMMA PublishStep ==
  ASSUME StoreInv, NEW w \in Writer, NEW s \in Slot, NEW e \in Entry,
         Publishes(w, s, e), UNCHANGED <<slots, head, gen, expect, history>>,
         exists' \in BOOLEAN, e.kind \in {"baseline", "claim", "mutation"},
         e.kind # "baseline" => e.token = w,
         e.kind = "mutation" =>
           e.rev >= 1 /\ gen[w] \in 1..Len(head.owners) /\ head.owners[gen[w]] = w,
         e.kind # "mutation" => w \notin ToSet(head.owners)
  PROVE  StoreInv'
<1>1. pc' = [pc EXCEPT ![w] = "publishing"]
      /\ job' = [job EXCEPT ![w] = [slot |-> s, entry |-> e]]
  BY DEF Publishes, Goes
<1>2. [slot |-> s, entry |-> e] \in Job /\ "publishing" \in Stages
  BY DEF Job, Stages
<1>3. Types'
  BY <1>1, <1>2 DEF StoreInv, Types, history
<1>4. Apart(w) /\ HistoryKept'
  BY <1>1, HistoryUnchanged DEF Apart, history, StoreInv, Types
<1>5. pc'[w] = "publishing" /\ job'[w].entry = e
  BY <1>1 DEF StoreInv, Types
<1>6. OwnEntry(w)' /\ FindsOwn(w)'
  BY <1>5 DEF OwnEntry, FindsOwn, AtEntry
<1>7. ClaimsOnce(w)' /\ KeepsGeneration(w)'
  BY <1>5 DEF ClaimsOnce, KeepsGeneration, AtEntry
<1>8. QED BY <1>3, <1>4, <1>5, <1>6, <1>7, ApartStep DEF Discipline

(* A writer that has decided on an entry, and not created it yet.          *)
LEMMA PublishSteps ==
  ASSUME StoreInv, NEW w \in Writer,
         PublishBaseline(w) \/ PublishClaim(w) \/ PublishMutation(w)
  PROVE  StoreInv'
<1>1. CASE PublishBaseline(w)
  <2>1. 0 \in Slot /\ Bare("baseline") \in Entry /\ Bare("baseline").kind = "baseline"
    BY Bounds, BareEntries DEF Slot, Bare
  <2>2. w \notin ToSet(head.owners)
    BY <1>1, NotYetOwner DEF PublishBaseline
  <2>3. QED BY <1>1, <2>1, <2>2, PublishStep DEF PublishBaseline
<1>2. CASE PublishClaim(w)
  <2> DEFINE e == [kind |-> "claim", token |-> w, gen |-> head.gen + 1,
                   rev |-> head.rev]
  <2>1. w \notin ToSet(head.owners)
    BY <1>2, NotYetOwner DEF PublishClaim
  <2>2. e \in Entry
    BY <2>1, HeadFacts, RoomToClaim DEF Entry, Kinds, HeadKnown, StoreInv
  <2>3. head.phys + 1 \in Slot
    BY <1>2, HeadFacts, Bounds DEF PublishClaim, Publishes, Slot
  <2>4. Publishes(w, head.phys + 1, e)
        /\ UNCHANGED <<journal, lease, gen, expect, history>>
    BY <1>2 DEF PublishClaim
  <2>5. e.kind = "claim" /\ e.token = w
    OBVIOUS
  <2>6. exists' \in BOOLEAN /\ slots' = slots /\ head' = head
    BY <2>4 DEF journal, StoreInv, Types
  <2> HIDE DEF e
  <2>7. QED BY <2>1, <2>2, <2>3, <2>4, <2>5, <2>6, PublishStep
<1>3. CASE PublishMutation(w)
  <2> DEFINE e == [kind |-> "mutation", token |-> w, gen |-> gen[w],
                   rev |-> expect[w] + 1]
  <2>1. expect[w] = head.rev /\ head.phys + 1 <= MaxSlot /\ pc[w] = "fresh"
    BY <1>3 DEF PublishMutation, IsHead, Publishes
  <2>2. expect[w] + 1 \in Revision /\ expect[w] + 1 >= 1
    BY <2>1, HeadFacts, Bounds DEF Revision
  <2>3. e \in Entry
    BY <2>2 DEF Entry, Kinds, StoreInv, Types
  <2>4. head.phys + 1 \in Slot
    BY <2>1, HeadFacts, Bounds DEF Slot
  <2>5. Publishes(w, head.phys + 1, e)
        /\ UNCHANGED <<journal, lease, gen, expect, history>>
    BY <1>3 DEF PublishMutation
  <2>6. e.kind = "mutation" /\ e.token = w /\ e.rev >= 1
    BY <2>2
  <2>7. exists' \in BOOLEAN /\ slots' = slots /\ head' = head
    BY <2>5 DEF journal, StoreInv, Types
  <2>8. gen[w] \in 1..Len(head.owners) /\ head.owners[gen[w]] = w
    BY <2>1 DEF StoreInv, Discipline, KeepsGeneration
  <2> HIDE DEF e
  <2>9. QED BY <2>3, <2>4, <2>5, <2>6, <2>7, <2>8, PublishStep
<1>4. QED BY <1>1, <1>2, <1>3

(* A mutation that the record has, and whose writer still owns it, is the  *)
(* head when its writer looks: only then is it reported as done, and only  *)
(* when the record was taken over is it reported as stale.                 *)
LEMMA VerifyMutationStep ==
  ASSUME StoreInv, NEW w \in Writer, VerifyMutation(w)
  PROVE  StoreInv'
<1> DEFINE s == job[w].slot
           done == /\ Token(head) = w /\ head.gen = gen[w]
                   /\ head.rev = job[w].entry.rev
                   /\ Last(head.events) = <<w, s>>
<1>1. /\ pc[w] = "verifying" /\ job[w].entry.kind = "mutation"
      /\ acked' = IF done THEN acked \cup {s} ELSE acked
      /\ refused' = IF done THEN refused ELSE refused \cup {s}
      /\ Rests(w, "ready") /\ UNCHANGED <<journal, lease, gen>>
  BY DEF VerifyMutation
<1>2. s \in Slot /\ slots[s] = job[w].entry /\ job[w].entry.token = w
      /\ job[w].entry.rev >= 1 /\ job[w].entry.rev \in Nat
  <2>1. job[w] \in Job
    BY DEF StoreInv, Types
  <2>2. OwnEntry(w)
    BY DEF StoreInv, Discipline
  <2>3. QED BY <1>1, <2>1, <2>2, Bounds DEF Job, Entry, OwnEntry, AtEntry
<1>3. gen[w] \in 1..Len(head.owners) /\ head.owners[gen[w]] = w
  BY <1>1 DEF StoreInv, Discipline, KeepsGeneration, AtEntry
<1>4. done => s \in Canonical
  <2> SUFFICES ASSUME done PROVE s \in Canonical
    OBVIOUS
  <2>1. Len(head.events) >= 1 /\ Len(head.events) \in Nat
    BY <1>2, HeadFacts
  <2>2. head.events \in Seq((Writer \cup {None}) \X Slot)
    BY HeadFacts DEF HeadType
  <2>3. Len(head.events) \in DOMAIN head.events
    BY <2>1, <2>2
  <2>4. <<w, s>> \in ToSet(head.events)
    BY <2>3 DEF Last, ToSet
  <2>5. QED BY <2>4 DEF Canonical
<1>5. s \in Canonical /\ Token(head) = w => done
  <2> SUFFICES ASSUME s \in Canonical, Token(head) = w PROVE done
    OBVIOUS
  <2>1. head.rev = job[w].entry.rev /\ Last(head.events) = <<w, s>>
    BY <1>1 DEF StoreInv, Discipline, FindsOwn
  <2>2. head.owners \in Seq(Writer) /\ head.owners # << >> /\ Last(head.owners) = w
    BY StoreAssumption DEF Token, StoreInv, OwnersApart
  <2>3. Len(head.owners) \in 1..Len(head.owners) /\ head.owners[Len(head.owners)] = w
    BY <2>2 DEF Last
  <2>4. gen[w] = Len(head.owners)
    BY <1>3, <2>3 DEF StoreInv, OwnersApart
  <2>5. QED BY <2>1, <2>4, HeadFacts
<1> HIDE DEF s, done
<1>6. slots' = slots /\ head' = head /\ exists' = exists /\ gen' = gen
  BY <1>1 DEF journal
<1>7. acked' \subseteq Slot /\ refused' \subseteq Slot
  BY <1>1, <1>2 DEF StoreInv, Types
<1>8. Types' /\ Apart(w)
  <2>1. "ready" \in Stages
    BY DEF Stages
  <2>2. exists' \in BOOLEAN /\ gen' \in [Writer -> Generation]
        /\ slots' \in [Slot -> Entry]
    BY <1>6 DEF StoreInv, Types
  <2>3. QED BY <1>1, <1>6, <1>7, <2>1, <2>2, RestTypes DEF StoreInv, Apart
<1>9. RefusedKept' /\ DoneStays'
  BY <1>1, <1>2, <1>4, <1>6 DEF StoreInv, HistoryKept, RefusedKept, DoneStays, Canonical
<1>10. StaleMeansTakeover'
  BY <1>1, <1>2, <1>5, <1>6
     DEF StoreInv, HistoryKept, StaleMeansTakeover, Canonical, Token
<1>11. Goes(w, "ready") /\ "ready" \in Stages \ {"publishing", "filling", "verifying"}
  BY <1>1 DEF Rests, Stages
<1>12. QED BY <1>3, <1>6, <1>8, <1>9, <1>10, <1>11, OffEntry DEF HistoryKept

-----------------------------------------------------------------------------
(* Steps that change an entry *)

(* w changes entry s to e; the others are where they were.  An entry that  *)
(* is there in full is not changed, and one that is torn only by the       *)
(* writer that fills it.                                                   *)
Changes(w, s, e) ==
  /\ s = job[w].slot
  /\ slots' = [slots EXCEPT ![s] = e]
  /\ slots[s] \in {Torn, Absent}
  /\ slots[s] = Torn => pc[w] = "filling"
  /\ head' = Replay(slots')
  /\ UNCHANGED <<acked, refused>>
  /\ \A v \in Writer \ {w} :
       pc'[v] = pc[v] /\ job'[v] = job[v] /\ gen'[v] = gen[v]
  /\ pc'[w] = "filling" => job'[w] = job[w] /\ slots[s] = Absent

(* What it does to no other entry, and to nobody else's.                   *)
LEMMA ChangesOneEntry ==
  ASSUME StoreInv, NEW w \in Writer, NEW s \in Slot, NEW e \in Entry,
         Changes(w, s, e)
  PROVE  /\ \A t \in Slot : t # s => slots'[t] = slots[t]
         /\ slots'[s] = e
         /\ slots[s].kind \notin {"baseline", "claim", "mutation"}
         /\ s \notin refused /\ s \notin Canonical
         /\ \A v \in Writer \ {w} : OwnEntry(v)'
         /\ FillersApart'
         /\ RefusedKept'
<1>1. slots \in [Slot -> Entry] /\ slots' = [slots EXCEPT ![s] = e]
      /\ slots[s] \in {Torn, Absent}
  BY DEF StoreInv, Types, Changes
<1>2. (\A t \in Slot : t # s => slots'[t] = slots[t]) /\ slots'[s] = e
  BY <1>1
<1>3. slots[s].kind \notin {"baseline", "claim", "mutation"}
  BY <1>1, BareEntries
<1>4. s \notin refused /\ s \notin Canonical
  BY <1>3, CanonicalEntry DEF StoreInv, HistoryKept, RefusedKept
<1>5. ASSUME NEW v \in Writer \ {w} PROVE OwnEntry(v)'
  <2>1. pc'[v] = pc[v] /\ job'[v] = job[v]
    BY DEF Changes
  <2>2. OwnEntry(v) /\ job[v].slot \in Slot
    BY DEF StoreInv, Discipline, Types, Job
  <2>3. CASE pc[v] = "filling"
    <3>1. job[v].slot # s
      <4>1. CASE slots[s] = Torn
        BY <2>3, <4>1 DEF StoreInv, FillersApart, Changes
      <4>2. CASE slots[s] = Absent
        BY <2>2, <2>3, <4>2, BareEntries DEF OwnEntry, AtEntry
      <4>3. QED BY <1>1, <4>1, <4>2
    <3>2. QED BY <1>2, <2>1, <2>2, <2>3, <3>1 DEF OwnEntry, AtEntry
  <2>4. CASE pc[v] = "verifying"
    <3>1. job[v].slot # s
      BY <1>3, <2>2, <2>4 DEF OwnEntry, AtEntry
    <3>2. QED BY <1>2, <2>1, <2>2, <2>4, <3>1 DEF OwnEntry, AtEntry
  <2>5. CASE pc[v] \notin {"filling", "verifying"}
    BY <2>1, <2>2, <2>5 DEF OwnEntry, AtEntry
  <2>6. QED BY <2>3, <2>4, <2>5
<1>6. FillersApart'
  <2> SUFFICES ASSUME NEW u \in Writer, NEW v \in Writer, u # v,
                      pc'[u] = "filling", pc'[v] = "filling"
               PROVE  job'[u].slot # job'[v].slot
    BY DEF FillersApart
  <2>1. ASSUME NEW x \in Writer, x # w, pc'[x] = "filling", pc'[w] = "filling"
        PROVE  job'[x].slot # job'[w].slot
    <3>1. job'[w].slot = s /\ slots[s] = Absent
      BY <2>1 DEF Changes
    <3>2. pc[x] = "filling" /\ job'[x] = job[x] /\ OwnEntry(x)
      BY <2>1 DEF Changes, StoreInv, Discipline
    <3>3. slots[job[x].slot] = Torn
      BY <3>2 DEF OwnEntry, AtEntry
    <3>4. QED BY <3>1, <3>2, <3>3, BareEntries
  <2>2. CASE u # w /\ v # w
    BY <2>2 DEF StoreInv, FillersApart, Changes
  <2>3. CASE u = w
    BY <2>1, <2>3
  <2>4. CASE v = w
    BY <2>1, <2>4
  <2>5. QED BY <2>2, <2>3, <2>4
<1>7. RefusedKept'
  <2>1. refused' = refused /\ refused \subseteq Slot
    BY DEF Changes, StoreInv, Types
  <2>2. QED BY <1>2, <1>4, <2>1 DEF StoreInv, HistoryKept, RefusedKept
<1>8. QED BY <1>2, <1>3, <1>4, <1>5, <1>6, <1>7

(* A change that leaves everybody the same record.                         *)
LEMMA SameRecordStep ==
  ASSUME StoreInv, NEW w \in Writer, NEW s \in Slot, NEW e \in Entry,
         Changes(w, s, e), SameRecord(head', head), Types', Discipline(w)'
  PROVE  StoreInv'
<1>1. head'.owners = head.owners /\ head'.events = head.events
      /\ head'.gen = head.gen /\ head'.rev = head.rev
  BY DEF SameRecord
<1>2. Canonical' = Canonical /\ Token(head)' = Token(head)
  BY <1>1 DEF Canonical, Token
<1>3. head' = Replay(slots)'
  BY DEF Changes, Replay
<1>4. OwnersApart'
  BY <1>1 DEF StoreInv, OwnersApart
<1>5. ASSUME NEW v \in Writer PROVE Discipline(v)'
  <2>1. CASE v = w
    BY <2>1
  <2>2. CASE v # w
    <3>1. Discipline(v) /\ pc'[v] = pc[v] /\ job'[v] = job[v] /\ gen'[v] = gen[v]
      BY <2>2 DEF StoreInv, Changes
    <3>2. OwnEntry(v)'
      BY <2>2, ChangesOneEntry
    <3>3. ClaimsOnce(v)' /\ KeepsGeneration(v)'
      BY <1>1, <3>1 DEF Discipline, ClaimsOnce, KeepsGeneration, AtEntry
    <3>4. FindsOwn(v)'
      BY <1>1, <1>2, <3>1 DEF Discipline, FindsOwn
    <3>5. QED BY <3>2, <3>3, <3>4 DEF Discipline
  <2>3. QED BY <2>1, <2>2
<1>6. FillersApart' /\ RefusedKept'
  BY ChangesOneEntry
<1>7. DoneStays'
  BY <1>2 DEF StoreInv, HistoryKept, DoneStays, Changes
<1>8. StaleMeansTakeover'
  <2>1. refused' = refused /\ refused \subseteq Slot
    BY DEF Changes, StoreInv, Types
  <2>2. \A t \in refused : slots'[t] = slots[t]
    BY <2>1, ChangesOneEntry
  <2>3. QED BY <1>2, <2>1, <2>2 DEF StoreInv, HistoryKept, StaleMeansTakeover
<1>9. QED BY <1>3, <1>4, <1>5, <1>6, <1>7, <1>8 DEF StoreInv, HistoryKept

(* What creating an entry changes: the journal, not the record.            *)
LEMMA CreateChanges ==
  ASSUME StoreInv, NEW w \in Writer, Create(w)
  PROVE  /\ job[w].slot \in Slot /\ Changes(w, job[w].slot, Torn)
         /\ SameRecord(head', head)
<1> DEFINE s == job[w].slot
<1>1. s \in Slot /\ slots \in [Slot -> Entry] /\ head = Replay(slots)
  BY DEF StoreInv, Types, Job
<1>2. slots' = [slots EXCEPT ![s] = Torn] /\ slots[s] = Absent
      /\ head' = Replay([slots EXCEPT ![s] = Torn])
  BY DEF Create, Puts
<1>3. Changes(w, s, Torn)
  BY <1>1, <1>2, BareEntries DEF Changes, Create, Goes, StoreInv, Types, history
<1>4. SameRecord(head', head)
  BY <1>1, <1>2, BlankEntry
<1>5. QED BY <1>1, <1>3, <1>4

LEMMA CreateStep ==
  ASSUME StoreInv, NEW w \in Writer, Create(w)
  PROVE  StoreInv'
<1> DEFINE s == job[w].slot
<1>1. s \in Slot /\ Changes(w, s, Torn) /\ SameRecord(head', head)
  BY CreateChanges
<1>2. pc[w] = "publishing" /\ pc' = [pc EXCEPT ![w] = "filling"]
      /\ UNCHANGED <<exists, job, gen, expect, acked, refused>>
      /\ slots' = [slots EXCEPT ![s] = Torn]
  BY <1>1 DEF Create, Goes, Changes, history
<1>3. Types'
  BY <1>1, <1>2, BareEntries DEF StoreInv, Types, Stages
<1>4. pc'[w] = "filling" /\ slots'[s] = Torn
  BY <1>1, <1>2 DEF StoreInv, Types
<1>5. OwnEntry(w)' /\ FindsOwn(w)'
  BY <1>2, <1>4 DEF StoreInv, Discipline, OwnEntry, FindsOwn, AtEntry
<1>6. ClaimsOnce(w)' /\ KeepsGeneration(w)'
  BY <1>1, <1>2, <1>4
     DEF StoreInv, Discipline, ClaimsOnce, KeepsGeneration, AtEntry, SameRecord
<1>7. QED BY <1>1, <1>3, <1>5, <1>6, BareEntries, SameRecordStep DEF Discipline

(* An entry whose content could not be written is removed; the record      *)
(* stays.                                                                  *)
LEMMA FillFailsChanges ==
  ASSUME StoreInv, NEW w \in Writer, FillFails(w)
  PROVE  /\ job[w].slot \in Slot /\ Changes(w, job[w].slot, Absent)
         /\ SameRecord(head', head)
<1> DEFINE s == job[w].slot
<1>1. s \in Slot /\ slots \in [Slot -> Entry] /\ head = Replay(slots)
  BY DEF StoreInv, Types, Job
<1>2. slots' = [slots EXCEPT ![s] = Absent] /\ pc[w] = "filling"
      /\ head' = Replay([slots EXCEPT ![s] = Absent])
  BY DEF FillFails, Puts
<1>3. slots[s] = Torn
  BY <1>2 DEF StoreInv, Discipline, OwnEntry, AtEntry
<1>4. pc'[w] # "filling" /\ \A v \in Writer \ {w} :
        pc'[v] = pc[v] /\ job'[v] = job[v] /\ gen'[v] = gen[v]
  BY DEF FillFails, Fails, Rests, Goes, StoreInv, Types
<1>5. Changes(w, s, Absent)
  BY <1>2, <1>3, <1>4 DEF Changes, FillFails, history
<1>6. SameRecord(head', head)
  BY <1>1, <1>2, <1>3, BlankEntry
<1>7. QED BY <1>1, <1>5, <1>6

LEMMA FillFailsStep ==
  ASSUME StoreInv, NEW w \in Writer, FillFails(w)
  PROVE  StoreInv'
<1> DEFINE s == job[w].slot
           stage == IF job[w].entry.kind = "mutation" THEN "ready" ELSE "leaving"
<1>1. s \in Slot /\ Changes(w, s, Absent) /\ SameRecord(head', head)
  BY FillFailsChanges
<1>2. pc[w] = "filling" /\ Rests(w, stage)
      /\ UNCHANGED <<exists, gen, acked, refused>>
      /\ slots' = [slots EXCEPT ![s] = Absent]
  BY <1>1 DEF FillFails, Fails, Changes, history
<1>3. stage \in Stages /\ stage \in {"ready", "leaving"}
  BY DEF Stages
<1>4. Types'
  <2>1. slots' \in [Slot -> Entry]
    BY <1>1, <1>2, BareEntries DEF StoreInv, Types
  <2> HIDE DEF stage
  <2>2. QED BY <1>2, <1>3, <2>1, RestTypes DEF StoreInv, Types
<1>5. pc'[w] = stage
  BY <1>2 DEF Rests, Goes, StoreInv, Types
<1>6. OwnEntry(w)' /\ FindsOwn(w)' /\ ClaimsOnce(w)'
  BY <1>3, <1>5 DEF OwnEntry, FindsOwn, ClaimsOnce, AtEntry
<1>7. KeepsGeneration(w)'
  BY <1>1, <1>2, <1>5
     DEF StoreInv, Discipline, KeepsGeneration, AtEntry, SameRecord
<1>8. QED BY <1>1, <1>4, <1>6, <1>7, BareEntries, SameRecordStep DEF Discipline

-----------------------------------------------------------------------------
(* Filling an entry when nobody is held up *)

(* Filling an entry applies it to the head; here nobody may be held up.    *)
LEMMA FillChanges ==
  ASSUME Prompt, StoreInv, NEW w \in Writer, Fill(w)
  PROVE  /\ job[w].slot \in Slot /\ job[w].entry \in Entry
         /\ Changes(w, job[w].slot, job[w].entry)
         /\ SameRecord(head', Applied(head, job[w].entry, job[w].slot))
         /\ pc[w] = "filling" /\ pc'[w] = "verifying"
         /\ UNCHANGED <<exists, job, gen, acked, refused>>
         /\ Types'
<1> DEFINE s == job[w].slot
           e == job[w].entry
<1>1. s \in Slot /\ e \in Entry /\ slots \in [Slot -> Entry] /\ head = Replay(slots)
  BY DEF StoreInv, Types, Job
<1>2. slots' = [slots EXCEPT ![s] = e] /\ pc[w] = "filling"
      /\ head' = Replay([slots EXCEPT ![s] = e])
      /\ \A t \in Slot : t > s => slots[t] = Absent
  BY DEF Fill, Puts, Timely
<1>3. pc' = [pc EXCEPT ![w] = "verifying"]
      /\ UNCHANGED <<exists, job, gen, expect, acked, refused>>
  BY DEF Fill, Goes, history
<1>4. slots[s] = Torn
  BY <1>2 DEF StoreInv, Discipline, OwnEntry, AtEntry
<1>5. SameRecord(head', Applied(head, e, s))
  BY <1>1, <1>2, <1>4, TopEntry
<1>6. pc'[w] = "verifying" /\ \A v \in Writer \ {w} : pc'[v] = pc[v]
  BY <1>3 DEF StoreInv, Types
<1>7. Changes(w, s, e)
  BY <1>2, <1>3, <1>4, <1>6 DEF Changes
<1>8. Types'
  BY <1>1, <1>2, <1>3 DEF StoreInv, Types, Stages
<1>9. QED BY <1>1, <1>2, <1>3, <1>5, <1>6, <1>7, <1>8

(* What the entry of a writer that is filling can do to the record.        *)
LEMMA FillCases ==
  ASSUME Prompt, StoreInv, NEW w \in Writer, Fill(w)
  PROVE  LET e == job[w].entry
             s == job[w].slot
         IN  \/ /\ e.kind = "claim" /\ w \notin ToSet(head.owners)
                /\ head'.owners = Append(head.owners, w)
                /\ head'.events = head.events
             \/ /\ e.kind = "mutation" /\ Token(head) = w /\ head'.rev = e.rev
                /\ head'.owners = head.owners
                /\ head'.events = Append(head.events, <<w, s>>)
             \/ SameRecord(head', head)
<1> DEFINE e == job[w].entry
           s == job[w].slot
<1>1. SameRecord(head', Applied(head, e, s)) /\ pc[w] = "filling"
  BY FillChanges
<1>2. OwnEntry(w) /\ head \in HeadType
  BY HeadFacts DEF StoreInv, Discipline
<1>3. e.kind \in {"baseline", "claim", "mutation"}
      /\ (e.kind # "baseline" => e.token = w)
  BY <1>1, <1>2 DEF OwnEntry, AtEntry
<1> HIDE DEF e, s
<1>4. e # Absent
  BY <1>3, BareEntries
<1>5. CASE ClaimApplies(head, e)
  <2>1. e.kind = "claim" /\ e.token = w
    BY <1>3, <1>5 DEF ClaimApplies
  <2>2. Applied(head, e, s) =
          [head EXCEPT !.phys = s, !.gen = e.gen, !.owners = Append(@, e.token)]
    BY <1>4, <1>5 DEF Applied
  <2>3. head'.owners = Append(head.owners, w) /\ head'.events = head.events
    BY <1>1, <1>2, <2>1, <2>2 DEF SameRecord, HeadType
  <2>4. w \notin ToSet(head.owners)
    BY <1>1, <2>1, NotYetOwner DEF e
  <2>5. QED BY <2>1, <2>3, <2>4 DEF e
<1>6. CASE ~ ClaimApplies(head, e) /\ MutationApplies(head, e)
  <2>1. e.kind = "mutation" /\ e.token = w /\ e.token = Token(head)
    BY <1>3, <1>6 DEF MutationApplies
  <2>2. Applied(head, e, s) =
          [head EXCEPT !.phys = s, !.rev = e.rev, !.events = Append(@, <<e.token, s>>)]
    BY <1>4, <1>6 DEF Applied
  <2>3. head'.owners = head.owners /\ head'.rev = e.rev
        /\ head'.events = Append(head.events, <<w, s>>)
    BY <1>1, <1>2, <2>1, <2>2 DEF SameRecord, HeadType
  <2>4. QED BY <2>1, <2>3 DEF e, s
<1>7. CASE ~ ClaimApplies(head, e) /\ ~ MutationApplies(head, e)
  <2>1. Applied(head, e, s) = [head EXCEPT !.phys = s]
    BY <1>4, <1>7 DEF Applied
  <2>2. SameRecord(head', head)
    BY <1>1, <1>2, <2>1 DEF SameRecord, HeadType
  <2>3. QED BY <2>2 DEF e, s
<1>8. QED BY <1>5, <1>6, <1>7

(* What is appended is last.                                               *)
LEMMA LastOfAppend ==
  ASSUME NEW S, NEW q \in Seq(S), NEW x \in S
  PROVE  /\ Append(q, x) # << >> /\ Last(Append(q, x)) = x
         /\ Len(Append(q, x)) = Len(q) + 1
         /\ \A i \in 1..Len(q) : Append(q, x)[i] = q[i]
         /\ ToSet(Append(q, x)) = ToSet(q) \cup {x}
<1>1. Append(q, x) \in Seq(S) /\ Len(Append(q, x)) = Len(q) + 1 /\ Len(q) \in Nat
      /\ (\A i \in 1..Len(q) : Append(q, x)[i] = q[i])
      /\ Append(q, x)[Len(q) + 1] = x
  BY AppendProperties, LenProperties
<1>2. DOMAIN q = 1..Len(q) /\ DOMAIN Append(q, x) = 1..(Len(q) + 1)
  BY <1>1, LenProperties
<1>3. ToSet(Append(q, x)) = ToSet(q) \cup {x}
  <2>1. \A i \in 1..(Len(q) + 1) : i \in 1..Len(q) \/ i = Len(q) + 1
    BY <1>1
  <2>2. \A i \in 1..Len(q) : i \in 1..(Len(q) + 1)
    BY <1>1
  <2>3. Len(q) + 1 \in 1..(Len(q) + 1)
    BY <1>1
  <2>4. QED BY <1>1, <1>2, <2>1, <2>2, <2>3 DEF ToSet
<1>4. Append(q, x) # << >> /\ Last(Append(q, x)) = x
  BY <1>1, EmptySeq DEF Last
<1>5. QED BY <1>1, <1>3, <1>4

(* A claim fences everybody else off, whatever they are at.                *)
LEMMA TakeOverStep ==
  ASSUME Prompt, StoreInv, NEW w \in Writer, Fill(w),
         job[w].entry.kind = "claim", w \notin ToSet(head.owners),
         head'.owners = Append(head.owners, w), head'.events = head.events
  PROVE  StoreInv'
<1> DEFINE s == job[w].slot
           e == job[w].entry
<1>1. s \in Slot /\ e \in Entry /\ Changes(w, s, e) /\ Types'
      /\ pc'[w] = "verifying" /\ job' = job /\ gen' = gen /\ pc[w] = "filling"
      /\ acked' = acked /\ refused' = refused
  BY FillChanges
<1>2. head.owners \in Seq(Writer)
  BY DEF StoreInv, OwnersApart
<1>3. /\ head'.owners \in Seq(Writer)
      /\ head'.owners # << >> /\ Last(head'.owners) = w
      /\ Len(head'.owners) = Len(head.owners) + 1 /\ Len(head.owners) \in Nat
      /\ \A i \in 1..Len(head.owners) : head'.owners[i] = head.owners[i]
      /\ ToSet(head'.owners) = ToSet(head.owners) \cup {w}
  BY <1>2, LastOfAppend, AppendProperties, LenProperties
<1>4. Token(head)' = w /\ Canonical' = Canonical
  BY <1>3 DEF Token, Canonical
<1>5. head' = Replay(slots)'
  BY <1>1 DEF Changes, Replay
<1>6. OwnersApart'
  <2>1. \A i \in 1..Len(head.owners) : head.owners[i] # w
    BY <1>2 DEF ToSet
  <2>2. head'.owners[Len(head.owners) + 1] = w
    BY <1>3 DEF Last
  <2>3. ASSUME NEW i \in 1..Len(head'.owners), NEW j \in 1..Len(head'.owners),
               head'.owners[i] = head'.owners[j]
        PROVE  i = j
    <3>1. CASE i \in 1..Len(head.owners) /\ j \in 1..Len(head.owners)
      BY <1>3, <2>3, <3>1 DEF StoreInv, OwnersApart
    <3>2. CASE i \notin 1..Len(head.owners)
      <4>1. i = Len(head.owners) + 1
        BY <1>3, <3>2
      <4>2. j \notin 1..Len(head.owners)
        BY <1>3, <2>1, <2>2, <2>3, <4>1
      <4>3. QED BY <1>3, <4>1, <4>2
    <3>3. CASE j \notin 1..Len(head.owners)
      <4>1. j = Len(head.owners) + 1
        BY <1>3, <3>3
      <4>2. i \notin 1..Len(head.owners)
        BY <1>3, <2>1, <2>2, <2>3, <4>1
      <4>3. QED BY <1>3, <4>1, <4>2
    <3>4. QED BY <3>1, <3>2, <3>3
  <2>4. QED BY <1>3, <2>3 DEF OwnersApart
<1>7. ASSUME NEW v \in Writer PROVE Discipline(v)'
  <2>1. CASE v = w
    <3>1. OwnEntry(w)'
      <4>1. OwnEntry(w) /\ slots'[s] = e
        BY <1>1, ChangesOneEntry DEF StoreInv, Discipline
      <4>2. QED BY <1>1, <4>1 DEF OwnEntry, AtEntry
    <3>2. ClaimsOnce(w)' /\ KeepsGeneration(w)' /\ FindsOwn(w)'
      BY <1>1 DEF ClaimsOnce, KeepsGeneration, FindsOwn, AtEntry
    <3>3. QED BY <2>1, <3>1, <3>2 DEF Discipline
  <2>2. CASE v # w
    <3>1. Discipline(v) /\ pc'[v] = pc[v] /\ job'[v] = job[v] /\ gen'[v] = gen[v]
      BY <1>1, <2>2 DEF StoreInv, Changes
    <3>2. OwnEntry(v)'
      BY <1>1, <2>2, ChangesOneEntry
    <3>3. ClaimsOnce(v)'
      BY <1>3, <2>2, <3>1 DEF Discipline, ClaimsOnce, AtEntry
    <3>4. KeepsGeneration(v)'
      BY <1>3, <3>1 DEF Discipline, KeepsGeneration, AtEntry
    <3>5. FindsOwn(v)'
      BY <1>4, <2>2 DEF FindsOwn
    <3>6. QED BY <3>2, <3>3, <3>4, <3>5 DEF Discipline
  <2>3. QED BY <2>1, <2>2
<1>8. FillersApart' /\ RefusedKept'
  BY <1>1, ChangesOneEntry
<1>9. DoneStays'
  BY <1>1, <1>4 DEF StoreInv, HistoryKept, DoneStays
<1>10. StaleMeansTakeover'
  <2>1. ASSUME NEW t \in refused \cap Canonical PROVE slots'[t].token # w
    <3>1. t \in Slot /\ slots[t].token \in ToSet(head.owners) \cup {None}
      BY CanonicalEntry
    <3>2. slots'[t] = slots[t]
      BY <1>1, <3>1, ChangesOneEntry
    <3>3. QED BY <3>1, <3>2, StoreAssumption
  <2>2. QED BY <1>1, <1>4, <2>1 DEF StaleMeansTakeover
<1>11. QED BY <1>1, <1>5, <1>6, <1>7, <1>8, <1>9, <1>10 DEF StoreInv, HistoryKept

(* A change is the owner's, and nobody has been told yet what became of it. *)
LEMMA WriteStep ==
  ASSUME Prompt, StoreInv, NEW w \in Writer, Fill(w),
         job[w].entry.kind = "mutation", Token(head) = w,
         head'.rev = job[w].entry.rev, head'.owners = head.owners,
         head'.events = Append(head.events, <<w, job[w].slot>>)
  PROVE  StoreInv'
<1> DEFINE s == job[w].slot
           e == job[w].entry
<1>1. s \in Slot /\ e \in Entry /\ Changes(w, s, e) /\ Types'
      /\ pc'[w] = "verifying" /\ job' = job /\ gen' = gen /\ pc[w] = "filling"
      /\ acked' = acked /\ refused' = refused
  BY FillChanges
<1>2. /\ Last(head'.events) = <<w, s>>
      /\ ToSet(head'.events) = ToSet(head.events) \cup {<<w, s>>}
  <2>1. head.events \in Seq((Writer \cup {None}) \X Slot)
    BY HeadFacts DEF HeadType
  <2>2. <<w, s>> \in (Writer \cup {None}) \X Slot
    BY <1>1
  <2>3. QED BY <2>1, <2>2, LastOfAppend
<1>3. Canonical' = Canonical \cup {s}
  BY <1>2 DEF Canonical
<1>4. Token(head)' = w
  BY DEF Token
<1>5. head' = Replay(slots)'
  BY <1>1 DEF Changes, Replay
<1>6. OwnersApart'
  BY DEF StoreInv, OwnersApart
<1>7. ASSUME NEW v \in Writer PROVE Discipline(v)'
  <2>1. CASE v = w
    <3>1. OwnEntry(w)'
      <4>1. OwnEntry(w) /\ slots'[s] = e
        BY <1>1, ChangesOneEntry DEF StoreInv, Discipline
      <4>2. QED BY <1>1, <4>1 DEF OwnEntry, AtEntry
    <3>2. ClaimsOnce(w)'
      BY <1>1 DEF ClaimsOnce, AtEntry
    <3>3. KeepsGeneration(w)'
      BY <1>1 DEF StoreInv, Discipline, KeepsGeneration, AtEntry
    <3>4. FindsOwn(w)'
      BY <1>1, <1>2 DEF FindsOwn
    <3>5. QED BY <2>1, <3>1, <3>2, <3>3, <3>4 DEF Discipline
  <2>2. CASE v # w
    <3>1. Discipline(v) /\ pc'[v] = pc[v] /\ job'[v] = job[v] /\ gen'[v] = gen[v]
      BY <1>1, <2>2 DEF StoreInv, Changes
    <3>2. OwnEntry(v)'
      BY <1>1, <2>2, ChangesOneEntry
    <3>3. ClaimsOnce(v)' /\ KeepsGeneration(v)'
      BY <3>1 DEF Discipline, ClaimsOnce, KeepsGeneration, AtEntry
    <3>4. FindsOwn(v)'
      BY <1>4, <2>2 DEF FindsOwn
    <3>5. QED BY <3>2, <3>3, <3>4 DEF Discipline
  <2>3. QED BY <2>1, <2>2
<1>8. FillersApart' /\ RefusedKept'
  BY <1>1, ChangesOneEntry
<1>9. DoneStays'
  BY <1>1, <1>3 DEF StoreInv, HistoryKept, DoneStays
<1>10. StaleMeansTakeover'
  <2>1. ASSUME NEW t \in refused, t \in Canonical' PROVE w # slots'[t].token
    <3>1. s \notin refused
      BY <1>1, ChangesOneEntry
    <3>2. t \in Canonical /\ t # s
      BY <1>3, <2>1, <3>1
    <3>3. slots'[t] = slots[t]
      BY <1>1, <3>2, CanonicalEntry, ChangesOneEntry
    <3>4. QED BY <2>1, <3>2, <3>3 DEF StoreInv, HistoryKept, StaleMeansTakeover
  <2>2. QED BY <1>1, <1>4, <2>1 DEF StaleMeansTakeover
<1>11. QED BY <1>1, <1>5, <1>6, <1>7, <1>8, <1>9, <1>10 DEF StoreInv, HistoryKept

LEMMA FillStep ==
  ASSUME Prompt, StoreInv, NEW w \in Writer, Fill(w)
  PROVE  StoreInv'
<1> DEFINE s == job[w].slot
           e == job[w].entry
<1>1. s \in Slot /\ e \in Entry /\ Changes(w, s, e) /\ Types'
      /\ pc'[w] = "verifying" /\ job' = job /\ gen' = gen /\ pc[w] = "filling"
  BY FillChanges
<1>2. CASE SameRecord(head', head)
  <2>1. slots'[s] = e /\ s \notin Canonical
    BY <1>1, ChangesOneEntry
  <2>2. OwnEntry(w)'
    BY <1>1, <2>1 DEF StoreInv, Discipline, OwnEntry, AtEntry
  <2>3. ClaimsOnce(w)' /\ KeepsGeneration(w)'
    BY <1>1, <1>2
       DEF StoreInv, Discipline, ClaimsOnce, KeepsGeneration, AtEntry, SameRecord
  <2>4. FindsOwn(w)'
    BY <1>1, <1>2, <2>1 DEF FindsOwn, Canonical, SameRecord
  <2>5. QED BY <1>1, <1>2, <2>2, <2>3, <2>4, SameRecordStep DEF Discipline
<1>3. QED BY <1>2, FillCases, TakeOverStep, WriteStep

-----------------------------------------------------------------------------
(* The invariant of the store *)

LEMMA InitStoreInv == Init => StoreInv
<1> SUFFICES ASSUME Init PROVE StoreInv
  OBVIOUS
<1>1. Types
  <2>1. NoJob \in Job
    <3>1. Absent \in Entry /\ 0 \in Slot
      BY Bounds, BareEntries DEF Slot
    <3>2. QED BY <3>1 DEF NoJob, Job
  <2>2. QED BY <2>1, Bounds, BareEntries DEF Init, Types, Stages
<1>2. head = Replay(slots)
  <2>1. PICK f : Reads(f, slots)
    BY <1>1, ReplayReads DEF Types
  <2>2. \A t \in Slot : slots[t] = Absent
    BY DEF Init
  <2>3. Replay(slots) = f[0]
    <3>1. 0 \in 0..(MaxSlot + 1)
      BY Bounds
    <3>2. QED BY <2>1, <2>2, <3>1, NothingAbove
  <2>4. QED BY <2>1, <2>3 DEF Reads, Init
<1>3. head.owners = << >> /\ head.events = << >>
  BY DEF Init, EmptyHead
<1>4. OwnersApart
  BY <1>3 DEF OwnersApart
<1>5. FillersApart
  BY DEF Init, FillersApart
<1>6. ASSUME NEW w \in Writer PROVE Discipline(w)
  <2>1. pc[w] = "idle" /\ ToSet(head.owners) = {}
    BY <1>3 DEF Init, ToSet
  <2>2. QED BY <2>1 DEF Discipline, OwnEntry, ClaimsOnce, KeepsGeneration,
                        FindsOwn, AtEntry
<1>7. HistoryKept
  BY DEF Init, HistoryKept, RefusedKept, DoneStays, StaleMeansTakeover
<1>8. QED BY <1>1, <1>2, <1>4, <1>5, <1>6, <1>7 DEF StoreInv

(* A step that changes nothing.                                            *)
LEMMA StoreStutter ==
  ASSUME StoreInv, UNCHANGED vars
  PROVE  StoreInv'
<1>1. UNCHANGED <<slots, exists, head, pc, job, gen, expect, acked, refused>>
  BY DEF vars, journal, lease, history
<1>2. Types' /\ head' = Replay(slots)'
  BY <1>1 DEF StoreInv, Types, Replay
<1>3. OwnersApart' /\ FillersApart'
  BY <1>1 DEF StoreInv, OwnersApart, FillersApart
<1>4. ASSUME NEW v \in Writer PROVE Discipline(v)'
  BY <1>1 DEF StoreInv, Discipline, OwnEntry, ClaimsOnce, KeepsGeneration,
              FindsOwn, AtEntry, Canonical, Token
<1>5. QED BY <1>1, <1>2, <1>3, <1>4, HistoryUnchanged DEF StoreInv

(* Each action keeps the invariant.                                        *)
LEMMA NextStoreInv ==
  ASSUME Prompt, StoreInv, [Next]_vars
  PROVE  StoreInv'
<1>1. CASE Next
  <2>1. PICK w \in Writer :
          \/ LeaseBusy(w) \/ LeaseFree(w) \/ LeaseWrite(w) \/ LeaseConfirm(w)
          \/ Expire(w) \/ Leave(w) \/ Crash(w)
          \/ PublishBaseline(w) \/ VerifyBaseline(w)
          \/ PublishClaim(w) \/ VerifyClaim(w)
          \/ Create(w) \/ Conflict(w) \/ Fill(w) \/ FillFails(w)
          \/ Begin(w) \/ RefreshCheck(w) \/ RefreshWrite(w)
          \/ PublishMutation(w) \/ MutationStale(w) \/ VerifyMutation(w)
    BY <1>1 DEF Next
  <2>2. CASE LeaseBusy(w) \/ LeaseFree(w) \/ LeaseWrite(w) \/ LeaseConfirm(w)
    BY <2>2, LeaseSteps
  <2>3. CASE Expire(w)
    BY <2>3, ExpireStep
  <2>4. CASE Leave(w) \/ Crash(w) \/ MutationStale(w) \/ VerifyBaseline(w)
             \/ Conflict(w)
    BY <2>4, EndSteps
  <2>5. CASE PublishBaseline(w) \/ PublishClaim(w) \/ PublishMutation(w)
    BY <2>5, PublishSteps
  <2>6. CASE Begin(w) \/ RefreshCheck(w) \/ RefreshWrite(w)
    BY <2>6, RefreshSteps
  <2>7. CASE VerifyClaim(w)
    BY <2>7, VerifyClaimStep
  <2>8. CASE VerifyMutation(w)
    BY <2>8, VerifyMutationStep
  <2>9. CASE Create(w)
    BY <2>9, CreateStep
  <2>10. CASE Fill(w)
    BY <2>10, FillStep
  <2>11. CASE FillFails(w)
    BY <2>11, FillFailsStep
  <2>12. QED BY <2>1, <2>2, <2>3, <2>4, <2>5, <2>6, <2>7, <2>8, <2>9, <2>10, <2>11
<1>2. CASE UNCHANGED vars
  BY <1>2, StoreStutter
<1>3. QED BY <1>1, <1>2

(* While nobody is held up between two steps of publishing for so long     *)
(* that others publish above it, every head that is read is that of the    *)
(* journal, owned by one writer after the other.                           *)
LEMMA StoreInvariant ==
  ASSUME Prompt
  PROVE  Spec => []StoreInv
<1>1. Init => StoreInv
  BY InitStoreInv
<1>2. StoreInv /\ [Next]_vars => StoreInv'
  BY NextStoreInv
<1>3. QED BY <1>1, <1>2, PTL DEF Spec

(* A mutation that was reported as done stays in the record, whoever takes *)
(* the record over (journal.ts replays it as canonical ever after).        *)
THEOREM DoneChangesStay ==
  ASSUME Prompt
  PROVE  Spec => []DoneStays
<1>1. StoreInv => DoneStays
  BY DEF StoreInv, HistoryKept
<1>2. QED BY <1>1, StoreInvariant, PTL

(* A writer that is told its published mutation is stale, although the     *)
(* record has it, is no longer the owner: a retry cannot apply it twice.   *)
THEOREM StaleChangesTakenOver ==
  ASSUME Prompt
  PROVE  Spec => []StaleMeansTakeover
<1>1. StoreInv => StaleMeansTakeover
  BY DEF StoreInv, HistoryKept
<1>2. QED BY <1>1, StoreInvariant, PTL

-----------------------------------------------------------------------------
(* The register *)

(* The empty journal is the register before any writer.                    *)
LEMMA InitRegister == Init => Register!Init
BY DEF Init, Register!Init, EmptyHead

(* Filling an entry is the only step that changes the record; it is a      *)
(* takeover, a change of the owner's, or nothing.                          *)
LEMMA StepRegister ==
  ASSUME Prompt, StoreInv, [Next]_vars
  PROVE  [Register!Next]_<<head.owners, head.events>>
<1>1. ASSUME NEW w \in Writer, Fill(w)
      PROVE  [Register!Next]_<<head.owners, head.events>>
  <2>1. job[w].slot \in Slot
    BY <1>1, FillChanges
  <2>2. CASE /\ w \notin ToSet(head.owners)
             /\ head'.owners = Append(head.owners, w)
             /\ head'.events = head.events
    <3>1. Register!TakeOver(w)
      BY <2>2 DEF Register!TakeOver, Register!ToSet, ToSet
    <3>2. QED BY <3>1 DEF Register!Next
  <2>3. CASE /\ Token(head) = w
             /\ head'.owners = head.owners
             /\ head'.events = Append(head.events, <<w, job[w].slot>>)
    <3>1. head.owners # << >> /\ w = Last(head.owners)
      BY <2>3, StoreAssumption DEF Token
    <3>2. Register!Write(w, job[w].slot)
      BY <2>3, <3>1 DEF Register!Write, Register!Last, Last
    <3>3. QED BY <2>1, <3>2 DEF Register!Next
  <2>4. CASE SameRecord(head', head)
    BY <2>4 DEF SameRecord
  <2>5. QED BY <1>1, <2>2, <2>3, <2>4, FillCases
<1>2. ASSUME NEW w \in Writer, Create(w) \/ FillFails(w)
      PROVE  UNCHANGED <<head.owners, head.events>>
  BY <1>2, CreateChanges, FillFailsChanges DEF SameRecord
<1>3. ASSUME NEW w \in Writer,
             \/ LeaseBusy(w) \/ LeaseFree(w) \/ LeaseWrite(w) \/ LeaseConfirm(w)
             \/ Expire(w) \/ Leave(w) \/ Crash(w)
             \/ PublishBaseline(w) \/ VerifyBaseline(w)
             \/ PublishClaim(w) \/ VerifyClaim(w) \/ Conflict(w)
             \/ Begin(w) \/ RefreshCheck(w) \/ RefreshWrite(w)
             \/ PublishMutation(w) \/ MutationStale(w) \/ VerifyMutation(w)
      PROVE  UNCHANGED <<head.owners, head.events>>
  BY <1>3 DEF journal, LeaseBusy, LeaseFree, LeaseWrite, LeaseConfirm, Expire,
     Leave, Crash, PublishBaseline, VerifyBaseline, PublishClaim, VerifyClaim,
     Conflict, Begin, RefreshCheck, RefreshWrite, PublishMutation,
     MutationStale, VerifyMutation
<1>4. CASE UNCHANGED vars
  BY <1>4 DEF vars, journal
<1>5. QED BY <1>1, <1>2, <1>3, <1>4 DEF Next

(* The journal is a register that one writer at a time changes: a writer   *)
(* that was fenced off never changes the record again, and nothing that    *)
(* readWorkflowJournal once returned as canonical is taken back.           *)
THEOREM JournalIsRegister ==
  ASSUME Prompt
  PROVE  Spec => OneWriterAtATime
<1>1. Init => Register!Init
  BY InitRegister
<1>2. StoreInv /\ [Next]_vars => [Register!Next]_<<head.owners, head.events>>
  BY StepRegister
<1>3. QED BY <1>1, <1>2, StoreInvariant, PTL DEF Spec, OneWriterAtATime, Register!Spec

-----------------------------------------------------------------------------
(* The lease records *)

(* t is s without its occurrence of e at p, the first one.                 *)
FirstOut(s, e, t, p) ==
  /\ s[p] = e /\ \A j \in 1..Len(s) : s[j] = e => p <= j
  /\ Len(t) = Len(s) - 1
  /\ \A j \in 1..(Len(s) - 1) : t[j] = IF j < p THEN s[j] ELSE s[j + 1]

(* RemoveFirst takes out the first occurrence.                             *)
LEMMA RemovesOne ==
  ASSUME NEW S, NEW s \in Seq(S), NEW e, NEW i \in 1..Len(s), s[i] = e
  PROVE  /\ RemoveFirst(s, e) \in Seq(S)
         /\ \E p \in 1..Len(s) : FirstOut(s, e, RemoveFirst(s, e), p)
<1> DEFINE I == {j \in 1..Len(s) : s[j] = e}
           p == Min(I)
           l == SubSeq(s, 1, p - 1)
           r == SubSeq(s, p + 1, Len(s))
<1>1. Len(s) \in Nat /\ I \in SUBSET Nat /\ I # {}
  OBVIOUS
<1>2. p \in I /\ \A j \in I : p <= j
  <2> HIDE DEF I
  <2>1. \E m \in I : \A n \in I : m <= n
    BY <1>1, LeastNumber
  <2>2. p = CHOOSE m \in I : \A n \in I : m <= n
    BY DEF Min
  <2> HIDE DEF p
  <2>3. QED BY <2>1, <2>2, Zenon
<1>3. RemoveFirst(s, e) = l \o r
  <2>1. SelectInSeq(s, LAMBDA v : v = e) = IF I # {} THEN p ELSE 0
    BY DEF SelectInSeq
  <2>2. SelectInSeq(s, LAMBDA v : v = e) = p
    BY <1>1, <2>1
  <2>3. RemoveFirst(s, e) = RemoveAt(s, SelectInSeq(s, LAMBDA v : v = e))
    BY DEF RemoveFirst
  <2>4. RemoveFirst(s, e) = RemoveAt(s, p)
    BY <2>2, <2>3, Zenon
  <2>5. QED BY <2>4, Zenon DEF RemoveAt
<1>4. p \in 1..Len(s) /\ s[p] = e /\ \A j \in 1..Len(s) : s[j] = e => p <= j
  BY <1>2
<1> HIDE DEF p, I
<1>5. l \in Seq(S) /\ Len(l) = p - 1 /\ \A j \in 1..(p - 1) : l[j] = s[j]
  BY <1>1, <1>4
<1>6. r \in Seq(S) /\ Len(r) = Len(s) - p
      /\ \A j \in 1..(Len(s) - p) : r[j] = s[p + j]
  BY <1>1, <1>4
<1> HIDE DEF l, r
<1>7. /\ l \o r \in Seq(S) /\ Len(l \o r) = Len(s) - 1
      /\ \A j \in 1..(Len(s) - 1) :
           (l \o r)[j] = IF j <= p - 1 THEN l[j] ELSE r[j - (p - 1)]
  <2>1. Len(l) + Len(r) = Len(s) - 1
    BY <1>1, <1>4, <1>5, <1>6
  <2>2. /\ l \o r \in Seq(S) /\ Len(l \o r) = Len(l) + Len(r)
        /\ \A j \in 1..(Len(l) + Len(r)) :
             (l \o r)[j] = IF j <= Len(l) THEN l[j] ELSE r[j - Len(l)]
    BY <1>5, <1>6, ConcatProperties, Zenon
  <2>3. QED BY <1>5, <2>1, <2>2
<1>8. ASSUME NEW j \in 1..(Len(s) - 1)
      PROVE  (l \o r)[j] = IF j < p THEN s[j] ELSE s[j + 1]
  <2>1. CASE j < p
    <3>1. j <= p - 1 /\ j \in 1..(p - 1)
      BY <1>1, <1>4, <2>1
    <3>2. QED BY <1>5, <1>7, <2>1, <3>1
  <2>2. CASE ~ (j < p)
    <3>1. ~ (j <= p - 1) /\ j - (p - 1) \in 1..(Len(s) - p)
          /\ p + (j - (p - 1)) = j + 1
      BY <1>1, <1>4, <2>2
    <3>2. (l \o r)[j] = r[j - (p - 1)]
      BY <1>7, <3>1
    <3>3. r[j - (p - 1)] = s[p + (j - (p - 1))]
      BY <1>6, <3>1
    <3>4. QED BY <2>2, <3>1, <3>2, <3>3
  <2>3. QED BY <2>1, <2>2
<1>9. FirstOut(s, e, l \o r, p)
  BY <1>4, <1>7, <1>8 DEF FirstOut
<1>10. QED BY <1>3, <1>4, <1>7, <1>9

(* It adds nobody's occurrences, and leaves e one fewer.                   *)
LEMMA RemovedRecords ==
  ASSUME NEW s \in Seq(Writer), NEW e \in Writer
  PROVE  /\ RemoveFirst(s, e) \in Seq(Writer)
         /\ \A w \in Writer : Never(s, w) => Never(RemoveFirst(s, e), w)
         /\ \A w \in Writer : Once(s, w) => Once(RemoveFirst(s, e), w)
         /\ \A w \in Writer : Twice(s, w) => Twice(RemoveFirst(s, e), w)
         /\ Twice(s, e) => Once(RemoveFirst(s, e), e)
<1> DEFINE t == RemoveFirst(s, e)
<1>1. CASE \A i \in 1..Len(s) : s[i] # e
  <2>1. t = s
    BY <1>1 DEF RemoveFirst
  <2>2. Once(s, e)
    BY <1>1 DEF Once
  <2>3. QED BY <2>1, <2>2
<1>2. ASSUME NEW i \in 1..Len(s), s[i] = e
      PROVE  /\ t \in Seq(Writer)
             /\ \A w \in Writer : Never(s, w) => Never(t, w)
             /\ \A w \in Writer : Once(s, w) => Once(t, w)
             /\ \A w \in Writer : Twice(s, w) => Twice(t, w)
             /\ Twice(s, e) => Once(t, e)
  <2>1. PICK p \in 1..Len(s) : FirstOut(s, e, t, p)
    BY <1>2, RemovesOne
  <2> HIDE DEF t
  <2> DEFINE at(j) == IF j < p THEN j ELSE j + 1
  <2>2. Len(s) \in Nat /\ p \in Nat /\ t \in Seq(Writer)
    BY <1>2, RemovesOne DEF t
  <2>3. \A j \in 1..Len(t) : at(j) \in 1..Len(s) /\ at(j) # p /\ t[j] = s[at(j)]
    BY <2>1, <2>2 DEF FirstOut
  <2>4. \A j, k \in 1..Len(t) : at(j) = at(k) => j = k
    BY <2>1, <2>2 DEF FirstOut
  <2> HIDE DEF at
  <2>5. \A w \in Writer : Never(s, w) => Never(t, w)
    BY <2>3 DEF Never
  <2>6. \A w \in Writer : Once(s, w) => Once(t, w)
    BY <2>3, <2>4 DEF Once
  <2>7. \A w \in Writer : Twice(s, w) => Twice(t, w)
    BY <2>3, <2>4 DEF Twice
  <2>8. Twice(s, e) => Once(t, e)
    <3> SUFFICES ASSUME Twice(s, e), NEW j \in 1..Len(t), NEW k \in 1..Len(t),
                        t[j] = e, t[k] = e
                 PROVE  j = k
      BY DEF Once
    <3>1. at(j) \in 1..Len(s) /\ at(k) \in 1..Len(s) /\ s[at(j)] = e /\ s[at(k)] = e
          /\ at(j) # p /\ at(k) # p
      BY <2>3
    <3>2. at(j) = at(k)
      BY <2>1, <3>1 DEF Twice, FirstOut
    <3>3. QED BY <2>4, <3>2
  <2>9. QED BY <2>2, <2>5, <2>6, <2>7, <2>8
<1>3. QED BY <1>1, <1>2

(* A new record is one more of its writer's.                               *)
LEMMA AppendedRecords ==
  ASSUME NEW s \in Seq(Writer), NEW e \in Writer
  PROVE  /\ Append(s, e) \in Seq(Writer)
         /\ \A w \in Writer \ {e} : Never(s, w) => Never(Append(s, e), w)
         /\ \A w \in Writer \ {e} : Once(s, w) => Once(Append(s, e), w)
         /\ \A w \in Writer \ {e} : Twice(s, w) => Twice(Append(s, e), w)
         /\ Never(s, e) => Once(Append(s, e), e)
         /\ Once(s, e) => Twice(Append(s, e), e)
<1> DEFINE t == Append(s, e)
           n == Len(s) + 1
<1>1. /\ t \in Seq(Writer) /\ Len(t) = n /\ Len(s) \in Nat
      /\ (\A i \in 1..Len(s) : t[i] = s[i]) /\ t[n] = e
  BY AppendProperties, LenProperties
<1> HIDE DEF t
<1>2. \A i \in 1..n : i \in 1..Len(s) \/ i = n
  BY <1>1
<1> HIDE DEF n
<1>3. \A i \in 1..Len(t) : (i \in 1..Len(s) /\ t[i] = s[i]) \/ (i = n /\ t[i] = e)
  BY <1>1, <1>2
<1>4. ASSUME NEW w \in Writer \ {e}
      PROVE  /\ Never(s, w) => Never(t, w)
             /\ Once(s, w) => Once(t, w)
             /\ Twice(s, w) => Twice(t, w)
  BY <1>3 DEF Never, Once, Twice
<1>5. Never(s, e) => Once(t, e)
  BY <1>3 DEF Never, Once
<1>6. Once(s, e) => Twice(t, e)
  BY <1>3 DEF Once, Twice
<1>7. QED BY <1>1, <1>4, <1>5, <1>6 DEF t

(* A step of w's makes, or takes out, records of w's only.                 *)
LEMMA LeaseStep ==
  ASSUME LeaseInv, NEW w \in Writer, NEW stage \in Stages,
         Goes(w, stage) \/ (stage = pc[w] /\ pc' = pc),
         order' \in {order, Append(order, w), RemoveFirst(order, w)},
         disk' \in {disk, disk \cup {w}, disk \ {w}},
         RecordsOf(w)'
  PROVE  LeaseInv'
<1>1. pc' \in [Writer -> Stages] /\ \A v \in Writer \ {w} : pc'[v] = pc[v]
  BY DEF LeaseInv, Goes
<1>2. order' \in Seq(Writer)
      /\ \A v \in Writer \ {w} :
           /\ Never(order, v) => Never(order', v)
           /\ Once(order, v) => Once(order', v)
           /\ Twice(order, v) => Twice(order', v)
  <2>1. order \in Seq(Writer)
    BY DEF LeaseInv
  <2>2. CASE order' = order
    BY <2>1, <2>2
  <2>3. CASE order' = Append(order, w)
    BY <2>1, <2>3, AppendedRecords
  <2>4. CASE order' = RemoveFirst(order, w)
    BY <2>1, <2>4, RemovedRecords
  <2>5. QED BY <2>2, <2>3, <2>4
<1>3. disk' \subseteq Writer /\ \A v \in Writer \ {w} : v \in disk' <=> v \in disk
  BY DEF LeaseInv
<1>4. ASSUME NEW v \in Writer PROVE RecordsOf(v)'
  <2>1. CASE v = w
    BY <2>1
  <2>2. CASE v # w
    <3>1. RecordsOf(v)
      BY DEF LeaseInv
    <3>2. Never(order, v)' = Never(order', v) /\ Once(order, v)' = Once(order', v)
          /\ Twice(order, v)' = Twice(order', v)
      BY DEF Never, Once, Twice
    <3>3. QED BY <1>1, <1>2, <1>3, <2>2, <3>1, <3>2 DEF RecordsOf
  <2>3. QED BY <2>1, <2>2
<1>5. QED BY <1>1, <1>2, <1>3, <1>4 DEF LeaseInv

(* Dropping w's record on disk leaves one at most.                         *)
LEMMA DroppedRecords ==
  ASSUME LeaseInv, NEW w \in Writer
  PROVE  /\ Dropped(w) \in {order, RemoveFirst(order, w)}
         /\ Twice(Dropped(w), w)
         /\ Once(order, w) => Once(Dropped(w), w)
         /\ pc[w] = "idle" => Never(Dropped(w), w)
         /\ pc[w] # "gone" => Once(Dropped(w), w)
         /\ w \in disk => Once(Dropped(w), w)
<1>1. order \in Seq(Writer) /\ RecordsOf(w)
  BY DEF LeaseInv
<1>2. Dropped(w) = IF w \in disk THEN RemoveFirst(order, w) ELSE order
  BY DEF Dropped
<1>3. CASE w \in disk
  <2>1. Dropped(w) = RemoveFirst(order, w)
    BY <1>2, <1>3
  <2>2. QED BY <1>1, <2>1, RemovedRecords DEF RecordsOf
<1>4. CASE w \notin disk
  <2>1. Dropped(w) = order
    BY <1>2, <1>4
  <2>2. QED BY <1>1, <1>4, <2>1 DEF RecordsOf
<1>5. QED BY <1>3, <1>4

(* The same for the next state: what is to be shown of w's records.        *)
LEMMA OwnRecords ==
  ASSUME NEW w \in Writer, Twice(order', w),
         pc'[w] = "idle" => Never(order', w),
         pc'[w] \notin {"refreshing", "gone"} => Once(order', w),
         pc'[w] = "refreshing" /\ w \notin disk' => Once(order', w)
  PROVE  RecordsOf(w)'
BY DEF RecordsOf, Never, Once, Twice

(* What is there at most once is there at most twice.                      *)
LEMMA OnceIsTwice ==
  ASSUME NEW s, NEW w
  PROVE  /\ Once(s, w) => Twice(s, w)
         /\ Never(s, w) => Once(s, w)
BY DEF Never, Once, Twice

(* A writer that goes on and writes no lease entry keeps its records.      *)
LEMMA LeaseSame ==
  ASSUME LeaseInv, NEW w \in Writer, NEW stage \in Stages \ {"idle", "refreshing"},
         Goes(w, stage), UNCHANGED order, disk' \in {disk, disk \cup {w}},
         pc[w] # "refreshing", pc[w] = "gone" => stage = "gone"
  PROVE  LeaseInv'
<1>1. pc'[w] = stage /\ RecordsOf(w)
  BY DEF LeaseInv, Goes
<1>2. stage # "gone" => Once(order, w)
  BY <1>1 DEF RecordsOf
<1>3. RecordsOf(w)'
  BY <1>1, <1>2, OwnRecords DEF RecordsOf
<1>4. QED BY <1>3, LeaseStep

(* Steps that drop the record on disk.                                     *)
LEMMA LeaseDrops ==
  ASSUME LeaseInv, NEW w \in Writer,
         NEW stage \in Stages \ {"idle", "refreshing"}, Goes(w, stage),
         order' = Dropped(w), pc[w] # "gone",
         disk' \in {disk, disk \cup {w}, disk \ {w}}
  PROVE  LeaseInv'
<1>1. pc'[w] = stage
  BY DEF LeaseInv, Goes
<1>2. RecordsOf(w)'
  BY <1>1, DroppedRecords, OwnRecords
<1>3. order' \in {order, RemoveFirst(order, w)}
  BY DroppedRecords
<1>4. QED BY <1>2, <1>3, LeaseStep

LEMMA InitLeaseInv == Init => LeaseInv
<1> SUFFICES ASSUME Init PROVE LeaseInv
  OBVIOUS
<1>1. Len(order) = 0 /\ order \in Seq(Writer)
  BY DEF Init
<1>2. ASSUME NEW w \in Writer PROVE RecordsOf(w)
  BY <1>1 DEF RecordsOf, Never, Once, Twice
<1>3. QED BY <1>1, <1>2 DEF Init, LeaseInv, Stages

(* Each action keeps the number of lease records.                          *)
LEMMA NextLeaseInv ==
  ASSUME LeaseInv, [Next]_vars
  PROVE  LeaseInv'
<1>1. ASSUME NEW w \in Writer, LeaseFree(w)
      PROVE  LeaseInv'
  <2>1. order' = Append(order, w) /\ pc[w] = "idle" /\ Goes(w, "entering")
        /\ disk' = disk /\ "entering" \in Stages
    BY <1>1 DEF LeaseFree, Stages
  <2>2. Never(order, w) /\ order \in Seq(Writer) /\ pc'[w] = "entering"
    BY <2>1 DEF LeaseInv, RecordsOf, Goes
  <2>3. RecordsOf(w)'
    BY <2>1, <2>2, AppendedRecords, OnceIsTwice, OwnRecords
  <2>4. QED BY <2>1, <2>3, LeaseStep
<1>2. ASSUME NEW w \in Writer, Expire(w)
      PROVE  LeaseInv'
  <2>1. order' = Dropped(w) /\ disk' = disk \ {w} /\ pc' = pc /\ w \in disk
        /\ pc[w] \in Stages
    BY <1>2 DEF Expire, LeaseInv
  <2>2. Dropped(w) \in {order, RemoveFirst(order, w)}
    BY DroppedRecords
  <2>3. RecordsOf(w)'
    BY <2>1, DroppedRecords, OwnRecords
  <2>4. QED BY <2>1, <2>2, <2>3, LeaseStep
<1>3. ASSUME NEW w \in Writer, LeaseConfirm(w)
      PROVE  LeaseInv'
  <2>1. CASE Wins(w)
    BY <1>3, <2>1, LeaseSame DEF LeaseConfirm, lease, Stages
  <2>2. CASE ~ Wins(w)
    BY <1>3, <2>2, LeaseDrops DEF LeaseConfirm, Stages
  <2>3. QED BY <2>1, <2>2
<1>4. ASSUME NEW w \in Writer, Leave(w)
      PROVE  LeaseInv'
  BY <1>4, LeaseDrops DEF Leave, Rests, Stages
<1>5. ASSUME NEW w \in Writer, RefreshWrite(w)
      PROVE  LeaseInv'
  BY <1>5, LeaseDrops DEF RefreshWrite, Stages
<1>6. ASSUME NEW w \in Writer, Crash(w)
      PROVE  LeaseInv'
  <2>1. Goes(w, "gone") /\ order' = order /\ disk' = disk /\ "gone" \in Stages
    BY <1>6 DEF Crash, Rests, lease, Stages
  <2>2. pc'[w] = "gone" /\ RecordsOf(w)
    BY <2>1 DEF LeaseInv, Goes
  <2>3. RecordsOf(w)'
    BY <2>1, <2>2, OwnRecords DEF RecordsOf
  <2>4. QED BY <2>1, <2>3, LeaseStep
<1>7. ASSUME NEW w \in Writer, RefreshCheck(w)
      PROVE  LeaseInv'
  <2>1. CASE Wins(w)
    <3>1. Goes(w, "refreshing") /\ order' = Append(order, w) /\ disk' = disk
          /\ w \in disk /\ "refreshing" \in Stages /\ pc[w] = "checking"
      BY <1>7, <2>1 DEF RefreshCheck, Wins, Stages
    <3>2. Once(order, w) /\ order \in Seq(Writer) /\ pc'[w] = "refreshing"
      BY <3>1 DEF LeaseInv, RecordsOf, Goes
    <3>3. RecordsOf(w)'
      BY <3>1, <3>2, AppendedRecords, OwnRecords
    <3>4. QED BY <3>1, <3>3, LeaseStep
  <2>2. CASE ~ Wins(w)
    BY <1>7, <2>2, LeaseSame DEF RefreshCheck, Stages
  <2>3. QED BY <2>1, <2>2
<1>8. ASSUME NEW w \in Writer, LeaseBusy(w) \/ LeaseWrite(w) \/ Begin(w)
      PROVE  LeaseInv'
  BY <1>8, LeaseSame DEF LeaseBusy, LeaseWrite, Begin, lease, Stages
<1>9. ASSUME NEW w \in Writer,
             \/ PublishBaseline(w) \/ PublishClaim(w) \/ PublishMutation(w)
             \/ Create(w) \/ Fill(w)
      PROVE  LeaseInv'
  BY <1>9, LeaseSame DEF PublishBaseline, PublishClaim, PublishMutation, Publishes,
                         Create, Fill, lease, Stages
<1>10. ASSUME NEW w \in Writer,
              \/ VerifyBaseline(w) \/ VerifyClaim(w) \/ VerifyMutation(w)
              \/ Conflict(w) \/ FillFails(w) \/ MutationStale(w)
       PROVE  LeaseInv'
  BY <1>10, LeaseSame DEF VerifyBaseline, VerifyClaim, VerifyMutation, Conflict,
                          FillFails, MutationStale, Fails, Rests, lease, Stages
<1>11. CASE UNCHANGED vars
  BY <1>11 DEF vars, lease, LeaseInv, RecordsOf, Never, Once, Twice
<1>12. QED BY <1>1, <1>2, <1>3, <1>4, <1>5, <1>6, <1>7, <1>8, <1>9, <1>10, <1>11
       DEF Next

LEMMA LeaseInvariant == Spec => []LeaseInv
<1>1. Init => LeaseInv
  BY InitLeaseInv
<1>2. LeaseInv /\ [Next]_vars => LeaseInv'
  BY NextLeaseInv
<1>3. QED BY <1>1, <1>2, PTL DEF Spec

(* Two records of each writer: the one on disk, and the one it is about to *)
(* write.                                                                  *)
LEMMA FewRecords ==
  ASSUME LeaseInv
  PROVE  Len(order) <= 2 * Cardinality(Writer)
<1> DEFINE n == Len(order)
           again(i) == \E j \in 1..n : j < i /\ order[j] = order[i]
           mark(i) == IF again(i) THEN 2 ELSE 1
           f == [i \in 1..n |-> <<order[i], mark(i)>>]
           T == Writer \X (1..2)
<1>1. n \in Nat /\ \A i \in 1..n : order[i] \in Writer
  BY ElementOfSeq DEF LeaseInv
<1>2. f \in [1..n -> T]
  BY <1>1
<1>3. ASSUME NEW i \in 1..n, NEW j \in 1..n, order[i] = order[j], i < j,
             mark(i) = mark(j)
      PROVE  FALSE
  <2>1. again(i) /\ again(j)
    BY <1>3
  <2>2. PICK k \in 1..n : k < i /\ order[k] = order[i]
    BY <1>3, <2>1
  <2>3. Twice(order, order[i])
    BY <1>1 DEF LeaseInv, RecordsOf
  <2>4. k = i \/ i = j \/ k = j
    BY <1>3, <2>2, <2>3 DEF Twice
  <2>5. QED BY <1>1, <1>3, <2>2, <2>4
<1>4. ASSUME NEW i \in 1..n, NEW j \in 1..n, f[i] = f[j]
      PROVE  i = j
  <2>1. order[i] = order[j] /\ mark(i) = mark(j)
    <3> HIDE DEF mark
    <3>1. f[i] = <<order[i], mark(i)>> /\ f[j] = <<order[j], mark(j)>>
      OBVIOUS
    <3>2. <<order[i], mark(i)>> = <<order[j], mark(j)>>
      <4> HIDE DEF f
      <4> QED BY <1>4, <3>1, Zenon
    <3>3. QED BY <3>2
  <2>2. i < j \/ j < i \/ i = j
    BY <1>1
  <2> HIDE DEF mark
  <2>3. QED BY <1>3, <2>1, <2>2
<1>5. f \in Injection(1..n, T)
  <2> HIDE DEF f, n, T
  <2>1. DOMAIN f = 1..n
    BY <1>2
  <2>2. QED BY <1>2, <1>4, <2>1 DEF Injection, IsInjective
<1>6. IsFiniteSet(T) /\ Cardinality(T) = Cardinality(Writer) * 2
  <2>1. IsFiniteSet(1..2) /\ Cardinality(1..2) = 2
    BY Counting
  <2>2. QED BY <2>1, StoreAssumption, FS_Product
<1>7. Cardinality(1..n) <= Cardinality(T)
  <2> HIDE DEF f, n, T
  <2> QED BY <1>5, <1>6, FS_Injection
<1>8. Cardinality(1..n) = n
  BY <1>1, Counting
<1>9. QED BY <1>1, <1>6, <1>7, <1>8, Bounds

-----------------------------------------------------------------------------
(* Claims, however late they are filled *)

(* The claims of a journal: each writer has at most one.                   *)
ClaimsApart(sl) ==
  /\ \A s \in Slot : sl[s].kind = "claim" => sl[s].token \in Writer
  /\ \A s, t \in Slot :
       sl[s].kind = "claim" /\ sl[t].kind = "claim"
       /\ sl[s].token = sl[t].token => s = t

(* Who has not filled its claim.                                           *)
Unclaimed(w) ==
  \/ pc[w] \in {"idle", "entering", "confirming", "held"}
  \/ AtEntry(w) /\ job[w].entry.kind = "baseline"
  \/ pc[w] \in {"publishing", "filling"} /\ job[w].entry.kind = "claim"

OneClaim(w) ==
  /\ AtEntry(w) /\ job[w].entry.kind = "claim" => job[w].entry.token = w
  /\ Unclaimed(w) =>
       \A s \in Slot : slots[s].kind = "claim" => slots[s].token # w

ClaimInv ==
  /\ Types
  /\ head = Replay(slots)
  /\ ClaimsApart(slots)
  /\ \A w \in Writer : OneClaim(w)

(* Owners o, each of another claim among the first n entries of sl.        *)
OwnersOf(o, sl, n) ==
  /\ o \in Seq(Writer)
  /\ \A i, j \in 1..Len(o) : o[i] = o[j] => i = j
  /\ \A i \in 1..Len(o) :
       \E s \in Slot : s < n /\ sl[s].kind = "claim" /\ sl[s].token = o[i]

(* One more entry adds at most its own claim.                              *)
LEMMA AppliedOwners ==
  ASSUME NEW sl \in [Slot -> Entry], ClaimsApart(sl), NEW n \in Slot,
         NEW h \in HeadType, OwnersOf(h.owners, sl, n)
  PROVE  OwnersOf(Applied(h, sl[n], n).owners, sl, n + 1)
<1> DEFINE e == sl[n]
           o == h.owners
           q == Append(o, e.token)
           g == Applied(h, e, n)
<1>1. n \in Nat /\ \A s \in Slot : s \in Nat
  BY Bounds
<1>2. \A i \in 1..Len(o) :
        \E s \in Slot : s < n /\ sl[s].kind = "claim" /\ sl[s].token = o[i]
  BY DEF OwnersOf
<1>3. OwnersOf(o, sl, n + 1)
  <2>1. \A s \in Slot : s < n => s < n + 1
    BY <1>1
  <2>2. QED BY <1>2, <2>1 DEF OwnersOf
<1>4. ASSUME e.kind = "claim"
      PROVE  OwnersOf(q, sl, n + 1)
  <2>1. e.token \in Writer /\ o \in Seq(Writer)
    BY <1>4 DEF ClaimsApart, OwnersOf
  <2>2. q \in Seq(Writer) /\ Len(q) = Len(o) + 1 /\ Len(o) \in Nat
        /\ q[Len(o) + 1] = e.token /\ \A i \in 1..Len(o) : q[i] = o[i]
    BY <2>1
  <2>3. \A i \in 1..Len(o) : o[i] # e.token
    <3> SUFFICES ASSUME NEW i \in 1..Len(o), o[i] = e.token PROVE FALSE
      OBVIOUS
    <3>1. PICK s \in Slot : s < n /\ sl[s].kind = "claim" /\ sl[s].token = o[i]
      BY <1>2
    <3>2. s = n
      BY <1>4, <3>1 DEF ClaimsApart
    <3>3. QED BY <1>1, <3>1, <3>2
  <2>4. \A i \in 1..Len(q) : i \in 1..Len(o) \/ i = Len(o) + 1
    BY <2>2
  <2> HIDE DEF q
  <2>5. \A i, j \in 1..Len(q) : q[i] = q[j] => i = j
    BY <2>2, <2>3, <2>4 DEF OwnersOf
  <2>6. n < n + 1
    BY <1>1
  <2>7. \A i \in 1..Len(q) :
          \E s \in Slot : s < n + 1 /\ sl[s].kind = "claim" /\ sl[s].token = q[i]
    BY <1>3, <1>4, <2>2, <2>4, <2>6 DEF OwnersOf
  <2>8. QED BY <2>2, <2>5, <2>7 DEF OwnersOf
<1>5. g.owners = o \/ (g.owners = q /\ e.kind = "claim")
  <2>1. CASE e = Absent
    BY <2>1 DEF Applied
  <2>2. CASE e # Absent /\ ClaimApplies(h, e)
    BY <2>2 DEF Applied, HeadType, ClaimApplies
  <2>3. CASE e # Absent /\ ~ ClaimApplies(h, e) /\ MutationApplies(h, e)
    BY <2>3 DEF Applied, HeadType
  <2>4. CASE e # Absent /\ ~ ClaimApplies(h, e) /\ ~ MutationApplies(h, e)
    BY <2>4 DEF Applied, HeadType
  <2>5. QED BY <2>1, <2>2, <2>3, <2>4
<1> HIDE DEF g, q
<1>6. QED BY <1>3, <1>4, <1>5 DEF g

(* The owners of a journal are the writers of its claims, each once.       *)
LEMMA ReplayOwners ==
  ASSUME NEW sl \in [Slot -> Entry], ClaimsApart(sl)
  PROVE  OwnersOf(Replay(sl).owners, sl, MaxSlot + 1)
<1> DEFINE k == MaxSlot + 1
<1>1. PICK f : Reads(f, sl)
  BY ReplayReads
<1> DEFINE S == {n \in 0..k : OwnersOf(f[n].owners, sl, n)}
<1>2. k \in Nat /\ k \in 0..k /\ \A n \in 0..k : n < k => n \in Slot /\ n + 1 \in 0..k
  BY Bounds DEF Slot
<1>3. 0 \in S
  <2>1. f[0].owners = << >>
    BY <1>1 DEF Reads, EmptyHead
  <2>2. Len(<< >>) = 0 /\ << >> \in Seq(Writer)
    OBVIOUS
  <2>3. OwnersOf(f[0].owners, sl, 0)
    BY <2>1, <2>2 DEF OwnersOf
  <2>4. QED BY <1>2, <2>3
<1>4. ASSUME NEW n \in 0..k, n < k, n \in S PROVE n + 1 \in S
  <2>1. n \in Slot /\ n + 1 \in 0..k
    BY <1>2, <1>4
  <2>2. f[n] \in HeadType /\ f[n + 1] = Applied(f[n], sl[n], n)
    BY <1>1, <2>1 DEF Reads, Shape
  <2>3. OwnersOf(f[n].owners, sl, n)
    BY <1>4
  <2>4. QED BY <2>1, <2>2, <2>3, AppliedOwners
<1>5. \A n \in 0..k : n \in S
  <2> HIDE DEF S, k
  <2> QED BY <1>2, <1>3, <1>4, Induction
<1>6. QED BY <1>1, <1>2, <1>5 DEF Reads

(* So the invariant knows the head.                                        *)
LEMMA ClaimsHead ==
  ASSUME ClaimInv
  PROVE  /\ HeadKnown
         /\ \A w \in Writer : Unclaimed(w) => w \notin ToSet(head.owners)
<1>1. OwnersOf(head.owners, slots, MaxSlot + 1)
  BY ReplayOwners DEF ClaimInv, Types
<1>2. OwnersApart
  BY <1>1 DEF OwnersOf, OwnersApart
<1>3. ASSUME NEW w \in Writer, Unclaimed(w), w \in ToSet(head.owners)
      PROVE  FALSE
  <2>1. PICK i \in 1..Len(head.owners) : w = head.owners[i]
    BY <1>1, <1>3 DEF OwnersOf, ToSet
  <2>2. PICK s \in Slot : slots[s].kind = "claim" /\ slots[s].token = w
    BY <1>1, <2>1 DEF OwnersOf
  <2>3. QED BY <1>3, <2>2 DEF ClaimInv, OneClaim
<1>4. QED BY <1>2, <1>3 DEF HeadKnown, ClaimInv

(* A step of w that leaves no claim where there was none, and does not     *)
(* make w unclaimed again.                                                 *)
LEMMA NoNewClaim ==
  ASSUME ClaimInv, NEW w \in Writer, Types', head' = Replay(slots)',
         \A s \in Slot : slots'[s].kind = "claim" => slots'[s] = slots[s],
         \A v \in Writer \ {w} : pc'[v] = pc[v] /\ job'[v] = job[v],
         AtEntry(w)' /\ job'[w].entry.kind = "claim" => job'[w].entry.token = w,
         Unclaimed(w)' => Unclaimed(w)
  PROVE  ClaimInv'
<1>1. ClaimsApart(slots)'
  BY DEF ClaimInv, ClaimsApart
<1>2. ASSUME NEW v \in Writer PROVE OneClaim(v)'
  <2>1. OneClaim(v)
    BY DEF ClaimInv
  <2>2. CASE v = w
    BY <2>1, <2>2 DEF OneClaim
  <2>3. CASE v # w
    BY <2>1, <2>3 DEF OneClaim, Unclaimed, AtEntry
  <2>4. QED BY <2>2, <2>3
<1>3. QED BY <1>1, <1>2 DEF ClaimInv

(* Steps of the lease and of a refresh, and the passing of a lease.        *)
LEMMA ClaimLease ==
  ASSUME ClaimInv, NEW w \in Writer,
         \/ LeaseBusy(w) \/ LeaseFree(w) \/ LeaseWrite(w) \/ LeaseConfirm(w)
         \/ Begin(w) \/ RefreshCheck(w) \/ RefreshWrite(w)
  PROVE  ClaimInv'
<1>1. PICK stage \in {"gone", "entering", "confirming", "held", "ready",
                      "checking", "refreshing", "fresh"} :
        /\ Goes(w, stage)
        /\ stage \in {"entering", "confirming", "held"} =>
             pc[w] \in {"idle", "entering", "confirming"}
  BY DEF LeaseBusy, LeaseFree, LeaseWrite, LeaseConfirm, Begin, RefreshCheck,
         RefreshWrite
<1>2. UNCHANGED <<journal, job, gen, history>>
  BY DEF LeaseBusy, LeaseFree, LeaseWrite, LeaseConfirm, Begin, RefreshCheck,
         RefreshWrite
<1>3. expect' \in [Writer -> Revision]
  BY ClaimsHead, HeadBounds
     DEF LeaseBusy, LeaseFree, LeaseWrite, LeaseConfirm, Begin, RefreshCheck,
         RefreshWrite, ClaimInv, Types
<1>4. pc' = [pc EXCEPT ![w] = stage] /\ pc \in [Writer -> Stages]
  BY <1>1 DEF Goes, ClaimInv, Types
<1>5. Types'
  BY <1>1, <1>2, <1>3, <1>4 DEF ClaimInv, Types, Stages, journal, history
<1>6. head' = Replay(slots)'
  BY <1>2 DEF ClaimInv, Replay, journal
<1>7. ~ AtEntry(w)' /\ (Unclaimed(w)' => Unclaimed(w))
  BY <1>1, <1>4 DEF AtEntry, Unclaimed
<1>8. \A v \in Writer \ {w} : pc'[v] = pc[v] /\ job'[v] = job[v]
  BY <1>2, <1>4
<1>9. slots' = slots
  BY <1>2 DEF journal
<1>10. QED BY <1>5, <1>6, <1>7, <1>8, <1>9, NoNewClaim

(* Steps after which w has no entry.                                       *)
LEMMA ClaimRest ==
  ASSUME ClaimInv, NEW w \in Writer,
         \/ Leave(w) \/ Crash(w) \/ VerifyBaseline(w) \/ VerifyClaim(w)
         \/ Conflict(w) \/ MutationStale(w) \/ VerifyMutation(w)
         \/ FillFails(w)
  PROVE  ClaimInv'
<1>1. PICK stage \in {"gone", "leaving", "ready", "held"} :
        /\ Rests(w, stage)
        /\ stage = "held" => Unclaimed(w)
  BY DEF Leave, Crash, VerifyBaseline, VerifyClaim, Conflict, MutationStale,
         VerifyMutation, FillFails, Fails, Unclaimed, AtEntry
<1>2. stage \in Stages
  BY DEF Stages
<1>3. job[w].slot \in Slot
  BY DEF ClaimInv, Types, Job
<1>4. /\ exists' \in BOOLEAN
      /\ acked' \subseteq Slot /\ refused' \subseteq Slot
  <2>1. CASE VerifyMutation(w)
    BY <1>3, <2>1 DEF VerifyMutation, ClaimInv, Types, journal
  <2>2. CASE ~ VerifyMutation(w)
    BY <2>2 DEF Leave, Crash, VerifyBaseline, VerifyClaim, Conflict,
       MutationStale, FillFails, ClaimInv, Types, journal, history
  <2>3. QED BY <2>1, <2>2
<1>5. gen' \in [Writer -> Generation]
  <2>1. CASE VerifyClaim(w)
    BY <2>1, ClaimsHead, HeadBounds DEF VerifyClaim, ClaimInv, Types
  <2>2. CASE ~ VerifyClaim(w)
    BY <2>2 DEF Leave, Crash, VerifyBaseline, VerifyMutation, Conflict,
       MutationStale, FillFails, ClaimInv, Types
  <2>3. QED BY <2>1, <2>2
<1>6. /\ slots' \in [Slot -> Entry] /\ head' = Replay(slots)'
      /\ \A s \in Slot : slots'[s].kind = "claim" => slots'[s] = slots[s]
  <2>1. CASE FillFails(w)
    <3>1. slots' = [slots EXCEPT ![job[w].slot] = Absent]
          /\ head' = Replay(slots')
      BY <2>1 DEF FillFails, Puts
    <3>2. slots \in [Slot -> Entry] /\ Absent \in Entry
          /\ Absent.kind = "absent"
      BY BareEntries DEF ClaimInv, Types
    <3>3. slots' \in [Slot -> Entry]
      BY <3>1, <3>2
    <3>4. \A s \in Slot : slots'[s] \in {slots[s], Absent}
      BY <3>1, <3>2
    <3>5. QED BY <3>1, <3>2, <3>3, <3>4
  <2>2. CASE ~ FillFails(w)
    <3>1. slots' = slots /\ head' = head
      BY <2>2 DEF Leave, Crash, VerifyBaseline, VerifyClaim, Conflict,
         MutationStale, VerifyMutation, journal
    <3>2. QED BY <3>1 DEF ClaimInv, Types, Replay
  <2>3. QED BY <2>1, <2>2
<1>7. Types' /\ \A v \in Writer \ {w} : pc'[v] = pc[v] /\ job'[v] = job[v]
  BY <1>1, <1>2, <1>4, <1>5, <1>6, RestTypes DEF ClaimInv
<1>8. pc'[w] = stage
  BY <1>1 DEF Rests, Goes, ClaimInv, Types
<1>9. ~ AtEntry(w)' /\ (Unclaimed(w)' => Unclaimed(w))
  BY <1>1, <1>8 DEF AtEntry, Unclaimed
<1>10. QED BY <1>6, <1>7, <1>9, NoNewClaim

(* An entry to publish.                                                    *)
LEMMA ClaimPublish ==
  ASSUME ClaimInv, NEW w \in Writer,
         PublishBaseline(w) \/ PublishClaim(w) \/ PublishMutation(w)
  PROVE  ClaimInv'
<1>1. HeadKnown /\ (Unclaimed(w) => w \notin ToSet(head.owners))
  BY ClaimsHead
<1>2. PICK s \in Slot, e \in Entry :
        /\ Publishes(w, s, e) /\ (e.kind = "claim" => e.token = w)
        /\ e.kind # "mutation" => Unclaimed(w)
  <2>1. CASE PublishBaseline(w)
    <3>1. 0 \in Slot /\ Bare("baseline") \in Entry
          /\ Bare("baseline").kind = "baseline"
      BY Bounds, BareEntries DEF Slot, Bare
    <3>2. QED BY <2>1, <3>1 DEF PublishBaseline, Unclaimed
  <2>2. CASE PublishClaim(w)
    <3> DEFINE e == [kind |-> "claim", token |-> w, gen |-> head.gen + 1,
                     rev |-> head.rev]
    <3>1. Unclaimed(w)
      BY <2>2 DEF PublishClaim, Unclaimed
    <3>2. e \in Entry /\ e.kind = "claim" /\ e.token = w
      BY <1>1, <3>1, HeadBounds, RoomToClaim DEF Entry, Kinds
    <3>3. Publishes(w, head.phys + 1, e) /\ head.phys + 1 <= MaxSlot
      BY <2>2 DEF PublishClaim, Publishes
    <3>4. head.phys + 1 \in Slot
      BY <1>1, <3>3, HeadBounds, Bounds DEF Slot
    <3> HIDE DEF e
    <3>5. QED BY <3>1, <3>2, <3>3, <3>4
  <2>3. CASE PublishMutation(w)
    <3> DEFINE e == [kind |-> "mutation", token |-> w, gen |-> gen[w],
                     rev |-> expect[w] + 1]
    <3>1. expect[w] = head.rev /\ head.phys + 1 <= MaxSlot
          /\ Publishes(w, head.phys + 1, e)
      BY <2>3 DEF PublishMutation, IsHead, Publishes
    <3>2. expect[w] + 1 \in Revision /\ head.phys + 1 \in Slot
      BY <1>1, <3>1, HeadBounds, Bounds DEF Revision, Slot
    <3>3. e \in Entry /\ e.kind = "mutation"
      BY <3>2 DEF Entry, Kinds, ClaimInv, Types
    <3> HIDE DEF e
    <3>4. QED BY <3>1, <3>2, <3>3
  <2>4. QED BY <2>1, <2>2, <2>3
<1>3. slots' = slots /\ head' = head /\ exists' \in BOOLEAN
      /\ UNCHANGED <<gen, expect, history>>
  BY DEF PublishBaseline, PublishClaim, PublishMutation, journal, ClaimInv,
         Types
<1>4. pc' = [pc EXCEPT ![w] = "publishing"]
      /\ job' = [job EXCEPT ![w] = [slot |-> s, entry |-> e]]
  BY <1>2 DEF Publishes, Goes
<1>5. [slot |-> s, entry |-> e] \in Job /\ "publishing" \in Stages
  BY DEF Job, Stages
<1>6. Types'
  BY <1>3, <1>4, <1>5 DEF ClaimInv, Types, history
<1>7. head' = Replay(slots)'
  BY <1>3 DEF ClaimInv, Replay
<1>8. pc'[w] = "publishing" /\ job'[w].entry = e
      /\ \A v \in Writer \ {w} : pc'[v] = pc[v] /\ job'[v] = job[v]
  BY <1>4 DEF ClaimInv, Types
<1>9. Unclaimed(w)' => Unclaimed(w)
  BY <1>2, <1>8 DEF Unclaimed, AtEntry
<1>10. QED BY <1>2, <1>3, <1>6, <1>7, <1>8, <1>9, NoNewClaim

(* An entry that is created is no claim yet.                               *)
LEMMA ClaimCreate ==
  ASSUME ClaimInv, NEW w \in Writer, Create(w)
  PROVE  ClaimInv'
<1> DEFINE s == job[w].slot
<1>1. s \in Slot /\ slots \in [Slot -> Entry]
      /\ Torn \in Entry /\ Torn.kind = "torn"
  BY BareEntries DEF ClaimInv, Types, Job
<1>2. slots' = [slots EXCEPT ![s] = Torn] /\ head' = Replay(slots')
      /\ pc[w] = "publishing" /\ pc' = [pc EXCEPT ![w] = "filling"]
      /\ UNCHANGED <<exists, job, gen, expect, history>>
  BY DEF Create, Puts, Goes
<1>3. Types'
  BY <1>1, <1>2 DEF ClaimInv, Types, Stages, history
<1>4. \A t \in Slot : slots'[t] \in {slots[t], Torn}
  BY <1>1, <1>2
<1>5. pc'[w] = "filling" /\ job' = job
      /\ \A v \in Writer \ {w} : pc'[v] = pc[v]
  BY <1>2 DEF ClaimInv, Types
<1>6. Unclaimed(w)' => Unclaimed(w)
  BY <1>2, <1>5 DEF Unclaimed, AtEntry
<1>7. job'[w].entry.kind = "claim" => job'[w].entry.token = w
  BY <1>2, <1>5 DEF ClaimInv, OneClaim, AtEntry
<1>8. QED BY <1>1, <1>2, <1>3, <1>4, <1>5, <1>6, <1>7, NoNewClaim

(* A claim that is filled is the only one of its writer.                   *)
LEMMA ClaimFill ==
  ASSUME ClaimInv, NEW w \in Writer, Fill(w)
  PROVE  ClaimInv'
<1> DEFINE s == job[w].slot
           e == job[w].entry
<1>1. s \in Slot /\ e \in Entry /\ slots \in [Slot -> Entry]
  BY DEF ClaimInv, Types, Job
<1>2. slots' = [slots EXCEPT ![s] = e] /\ head' = Replay(slots')
      /\ pc[w] = "filling" /\ pc' = [pc EXCEPT ![w] = "verifying"]
      /\ UNCHANGED <<exists, job, gen, expect, history>>
  BY DEF Fill, Puts, Goes
<1>3. Types'
  BY <1>1, <1>2 DEF ClaimInv, Types, Stages, history
<1>4. slots'[s] = e /\ \A t \in Slot : t # s => slots'[t] = slots[t]
  BY <1>1, <1>2
<1>5. pc'[w] = "verifying" /\ job' = job
      /\ \A v \in Writer \ {w} : pc'[v] = pc[v]
  BY <1>2 DEF ClaimInv, Types
<1> HIDE DEF s, e
<1>6. e.kind = "claim" => e.token = w
      /\ \A t \in Slot : slots[t].kind = "claim" => slots[t].token # w
  BY <1>2 DEF ClaimInv, OneClaim, Unclaimed, AtEntry, e
<1>7. ClaimsApart(slots)'
  <2>1. \A t \in Slot : slots'[t].kind = "claim" => slots'[t].token \in Writer
    BY <1>4, <1>6 DEF ClaimInv, ClaimsApart
  <2>2. \A t, u \in Slot :
          slots'[t].kind = "claim" /\ slots'[u].kind = "claim"
          /\ slots'[t].token = slots'[u].token => t = u
    BY <1>4, <1>6 DEF ClaimInv, ClaimsApart
  <2>3. QED BY <2>1, <2>2 DEF ClaimsApart
<1>8. ASSUME NEW v \in Writer PROVE OneClaim(v)'
  <2>1. OneClaim(v)
    BY DEF ClaimInv
  <2>2. AtEntry(v)' <=> AtEntry(v)
    BY <1>2, <1>5 DEF AtEntry
  <2>3. Unclaimed(v)' => Unclaimed(v) /\ ~ (v = w /\ e.kind = "claim")
    BY <1>2, <1>5, <2>2 DEF Unclaimed, AtEntry, e
  <2>4. ASSUME Unclaimed(v)', NEW t \in Slot, slots'[t].kind = "claim"
        PROVE  slots'[t].token # v
    BY <1>4, <1>6, <2>1, <2>3, <2>4 DEF OneClaim
  <2>5. QED BY <1>5, <2>1, <2>2, <2>4 DEF OneClaim
<1>9. QED BY <1>2, <1>3, <1>7, <1>8 DEF ClaimInv

LEMMA InitClaimInv == Init => ClaimInv
<1> SUFFICES ASSUME Init PROVE ClaimInv
  OBVIOUS
<1>1. StoreInv
  BY InitStoreInv
<1>2. \A s \in Slot : slots[s].kind = "absent"
  BY BareEntries DEF Init
<1>3. \A w \in Writer : pc[w] = "idle"
  BY DEF Init
<1>4. QED BY <1>1, <1>2, <1>3
          DEF StoreInv, ClaimInv, ClaimsApart, OneClaim, AtEntry

LEMMA NextClaimInv ==
  ASSUME ClaimInv, [Next]_vars
  PROVE  ClaimInv'
<1>1. ASSUME NEW w \in Writer, Expire(w)
      PROVE  ClaimInv'
  BY <1>1 DEF Expire, journal, history, ClaimInv, Types, Replay, OneClaim,
              Unclaimed, AtEntry
<1>2. ASSUME UNCHANGED vars
      PROVE  ClaimInv'
  BY <1>2 DEF vars, journal, history, ClaimInv, Types, Replay, OneClaim,
              Unclaimed, AtEntry
<1>3. QED BY <1>1, <1>2, ClaimLease, ClaimRest, ClaimPublish, ClaimCreate,
             ClaimFill DEF Next

LEMMA ClaimInvariant == Spec => []ClaimInv
<1>1. Init => ClaimInv
  BY InitClaimInv
<1>2. ClaimInv /\ [Next]_vars => ClaimInv'
  BY NextClaimInv
<1>3. QED BY <1>1, <1>2, PTL DEF Spec

(* Every variable has its type, however long anybody is held up; there are *)
(* never more canonical claims than writers, nor more changes than entries *)
(* (journal.ts counts both on).                                            *)
THEOREM StoreTypeCorrect == Spec => []TypeOK
<1>1. ClaimInv /\ LeaseInv => TypeOK
  <2> SUFFICES ASSUME ClaimInv, LeaseInv PROVE TypeOK
    OBVIOUS
  <2>1. head.gen = Len(head.owners) /\ head.rev = Len(head.events)
    BY ClaimsHead, HeadBounds
  <2>2. Len(order) <= 2 * Cardinality(Writer)
    BY FewRecords
  <2>3. QED BY <2>1, <2>2 DEF TypeOK, ClaimInv, Types, LeaseInv
<1>2. QED BY <1>1, ClaimInvariant, LeaseInvariant, PTL

=============================================================================
