------------------------ MODULE ExecutionLanesProofs ------------------------
(***************************************************************************)
(* The execution lanes implement the queues they promise, for any lanes,   *)
(* commands, keys and limits.                                              *)
(*                                                                         *)
(* The scheduling loop never looks at the lanes that run, only at their    *)
(* number, so the refinement rests on the counter: activeCount is the      *)
(* number of busy lanes (Counted).  That every command has one place, and  *)
(* that the counter of the queues keeps its limit, rests on the places     *)
(* (Placed, WaitersCounted) and on the keys of the lanes (Listed).         *)
(***************************************************************************)
EXTENDS ExecutionLanes, FiniteSetTheorems, SequenceTheorems, TLAPS

(* The types the proofs need.                                              *)
Types ==
  /\ queue \in [Lane -> Seq(Command)]
  /\ active \in [Lane -> Command \cup {None}]
  /\ keys \in Seq(Lane)
  /\ activeCount \in 0..MaxActive
  /\ state \in [Command -> States]
  /\ chosen \in [Lane -> [Key -> Command \cup {None}]]
  /\ aborted \subseteq Command
  /\ cancelled \subseteq Command

(* The counter counts the executions.                                      *)
Counted == IsFiniteSet(Busy) /\ activeCount = Cardinality(Busy)

IInv == Types /\ Counted /\ CancelReachesHandle

(* A lane that becomes busy is counted, and so is one that becomes idle.   *)
LEMMA BusyStart ==
  ASSUME Types, Counted, NEW l \in Lane, NEW c \in Command,
         active[l] = None, active' = [active EXCEPT ![l] = c]
  PROVE  IsFiniteSet(Busy') /\ Cardinality(Busy') = activeCount + 1
<1>1. Busy' = Busy \cup {l} /\ l \notin Busy
  BY ConfigAssumption DEF Types, Busy
<1>2. QED BY <1>1, FS_AddElement DEF Counted

LEMMA BusyEnd ==
  ASSUME Types, Counted, NEW l \in Lane,
         active[l] # None, active' = [active EXCEPT ![l] = None]
  PROVE  IsFiniteSet(Busy') /\ Cardinality(Busy') = activeCount - 1
<1>1. Busy' = Busy \ {l} /\ l \in Busy
  BY DEF Types, Busy
<1>2. QED BY <1>1, FS_RemoveElement DEF Counted

(* A busy lane is counted, so something is.                                *)
LEMMA BusyCounts ==
  ASSUME Types, Counted, NEW l \in Lane, active[l] # None
  PROVE  activeCount > 0
<1>1. l \in Busy
  BY DEF Busy
<1>2. Cardinality(Busy) # 0
  BY <1>1, FS_EmptySet DEF Counted
<1>3. QED BY <1>2 DEF Types, Counted

-----------------------------------------------------------------------------
(* The invariant is kept where no execution starts or ends and no command  *)
(* becomes running.                                                        *)
LEMMA QuietKeeps ==
  ASSUME IInv, UNCHANGED <<active, activeCount>>,
         queue' \in [Lane -> Seq(Command)], keys' \in Seq(Lane),
         state' \in [Command -> States],
         chosen' \in [Lane -> [Key -> Command \cup {None}]],
         aborted' \subseteq Command, cancelled' \subseteq Command,
         cancelled \subseteq cancelled',
         \A c \in aborted' : state'[c] = "running" =>
           state[c] = "running" /\ (c \in aborted \/ c \in cancelled')
  PROVE  IInv'
BY DEF IInv, Types, Counted, Busy, CancelReachesHandle

(* markRunnable appends the lane at most once.                             *)
LEMMA MarkRunnableTyped ==
  ASSUME NEW l \in Lane, NEW q, NEW a, keys \in Seq(Lane),
         MarkRunnable(l, q, a)
  PROVE  keys' \in Seq(Lane)
BY DEF MarkRunnable

LEMMA AnswerKeeps ==
  ASSUME IInv, NEW c \in Command, NEW l \in Lane,
         SubmitAgain(c, l) \/ SubmitFull(c, l)
  PROVE  IInv'
BY QuietKeeps
   DEF IInv, Types, SubmitAgain, SubmitFull, Becomes, lanes, States

LEMMA SubmitKeeps ==
  ASSUME IInv, NEW c \in Command, NEW l \in Lane, Submit(c, l)
  PROVE  IInv'
<1>1. /\ queue' = [queue EXCEPT ![l] = Append(queue[l], c)]
      /\ state' = [state EXCEPT ![c] = "queued"]
      /\ UNCHANGED <<active, activeCount, aborted, cancelled>>
  BY DEF Submit, Becomes
<1>2. queue' \in [Lane -> Seq(Command)]
  BY <1>1 DEF IInv, Types
<1>3. keys' \in Seq(Lane)
  BY MarkRunnableTyped DEF IInv, Types, Submit
<1>4. chosen' \in [Lane -> [Key -> Command \cup {None}]]
  BY DEF IInv, Types, Submit
<1>5. /\ state' \in [Command -> States]
      /\ \A d \in Command : state'[d] = "running" => state[d] = "running"
  BY <1>1 DEF IInv, Types, States
<1>6. aborted' \subseteq Command /\ cancelled' \subseteq Command
  BY <1>1 DEF IInv, Types
<1>7. QED BY <1>1, <1>2, <1>3, <1>4, <1>5, <1>6, QuietKeeps

LEMMA PassKeyKeeps ==
  ASSUME IInv, PassKey \/ EndSchedule
  PROVE  IInv'
<1>1. keys' = keys \/ (keys # << >> /\ keys' = Tail(keys))
  BY DEF PassKey, EndSchedule, MayStart, lanes
<1>2. keys' \in Seq(Lane)
  <2>1. keys \in Seq(Lane)
    BY DEF IInv, Types
  <2>2. keys # << >> => Tail(keys) \in Seq(Lane)
    BY <2>1
  <2>3. QED BY <1>1, <2>1, <2>2
<1>3. UNCHANGED <<queue, active, activeCount, state, chosen, aborted,
                  cancelled>>
  BY DEF PassKey, EndSchedule, lanes
<1>4. QED BY <1>2, <1>3, QuietKeeps DEF IInv, Types

(* What the start of an execution in lane l does.                          *)
Starts(l) ==
  /\ active[l] = None /\ queue[l] # << >>
  /\ Head(queue[l]) \in Command
  /\ Tail(queue[l]) \in Seq(Command)
  /\ queue' = [queue EXCEPT ![l] = Tail(queue[l])]
  /\ active' = [active EXCEPT ![l] = Head(queue[l])]
  /\ state' = [state EXCEPT ![Head(queue[l])] = "starting"]
  /\ activeCount' = activeCount + 1 /\ activeCount < MaxActive
  /\ keys' \in Seq(Lane)
  /\ UNCHANGED <<chosen, aborted, cancelled>>

LEMMA StartHeadStarts ==
  ASSUME Types, StartHead
  PROVE  \E l \in Lane : Starts(l)
<1>1. Head(keys) \in Lane /\ Tail(keys) \in Seq(Lane)
  BY DEF Types, StartHead, MayStart
<1>2. /\ queue[Head(keys)] # << >> /\ active[Head(keys)] = None
  BY DEF StartHead, Waiting
<1>3. queue[Head(keys)] \in Seq(Command)
  BY <1>1 DEF Types
<1>4. /\ Head(queue[Head(keys)]) \in Command
      /\ Tail(queue[Head(keys)]) \in Seq(Command)
  BY <1>2, <1>3
<1>5. Starts(Head(keys))
  BY <1>1, <1>2, <1>4 DEF Starts, StartHead, MayStart, Becomes
<1>6. QED BY <1>1, <1>5

LEMMA StartHeadKeeps ==
  ASSUME IInv, StartHead
  PROVE  IInv'
<1>1. PICK l \in Lane : Starts(l)
  BY StartHeadStarts DEF IInv
<1>2. Types'
  BY <1>1, ConfigAssumption DEF Starts, IInv, Types, States
<1>3. Counted'
  BY <1>1, BusyStart DEF Starts, IInv, Counted
<1>4. CancelReachesHandle'
  BY <1>1 DEF Starts, IInv, Types, CancelReachesHandle
<1>5. QED BY <1>2, <1>3, <1>4 DEF IInv

(* The handle that arrives late is cancelled if the signal has fired.      *)
LEMMA StartedKeeps ==
  ASSUME IInv, NEW l \in Lane, Started(l)
  PROVE  IInv'
<1>1. /\ active[l] \in Command
      /\ state' = [state EXCEPT ![active[l]] = "running"]
      /\ cancelled' = cancelled \cup ({active[l]} \cap aborted)
      /\ UNCHANGED <<queue, active, keys, activeCount, chosen, aborted>>
  BY DEF IInv, Types, Started, Becomes, lanes
<1>2. Types'
  BY <1>1 DEF IInv, Types, States
<1>3. Counted'
  BY <1>1 DEF IInv, Counted, Busy
<1>4. CancelReachesHandle'
  BY <1>1 DEF IInv, Types, CancelReachesHandle
<1>5. QED BY <1>2, <1>3, <1>4 DEF IInv

LEMMA CompleteKeeps ==
  ASSUME IInv, NEW l \in Lane, active[l] # None,
         NEW s \in {"failed", "done"}, CompleteActive(l, s)
  PROVE  IInv'
<1>1. /\ active[l] \in Command
      /\ state' = [state EXCEPT ![active[l]] = s]
      /\ active' = [active EXCEPT ![l] = None]
      /\ activeCount' = activeCount - 1
      /\ UNCHANGED <<queue, chosen, aborted, cancelled>>
  BY DEF IInv, Types, CompleteActive, Becomes
<1>2. keys' \in Seq(Lane)
  BY MarkRunnableTyped DEF IInv, Types, CompleteActive
<1>3. activeCount > 0 /\ activeCount \in 0..MaxActive
  BY BusyCounts DEF IInv, Types
<1>4. activeCount' \in 0..MaxActive
  BY <1>1, <1>3, ConfigAssumption
<1>5. Types'
  BY <1>1, <1>2, <1>4 DEF IInv, Types, States
<1>6. Counted'
  BY <1>1, BusyEnd DEF IInv, Counted
<1>7. CancelReachesHandle'
  BY <1>1 DEF IInv, Types, CancelReachesHandle
<1>8. QED BY <1>5, <1>6, <1>7 DEF IInv

(* A cancelled execution that runs is told.                                *)
LEMMA CancelExecutionKeeps ==
  ASSUME IInv, NEW l \in Lane, CancelExecution(l)
  PROVE  IInv'
<1> DEFINE live == {active[l]} \ {None}
<1>1. /\ live \subseteq Command
      /\ aborted' = aborted \cup live
      /\ cancelled' = cancelled \cup {c \in live : state[c] = "running"}
      /\ UNCHANGED <<queue, active, keys, activeCount, state, chosen>>
  BY DEF IInv, Types, CancelExecution, Abort, lanes
<1>2. QED BY <1>1, QuietKeeps DEF IInv, Types, CancelReachesHandle

LEMMA CancelLaneKeeps ==
  ASSUME IInv, NEW l \in Lane, CancelLane(l)
  PROVE  IInv'
<1> DEFINE live == {active[l]} \ {None}
<1>1. /\ live \subseteq Command /\ Queued(l) \subseteq Command
  BY DEF IInv, Types, Queued
<1>2. /\ aborted' = aborted \cup live \cup Queued(l)
      /\ cancelled' = cancelled \cup {c \in live : state[c] = "running"}
      /\ queue' = [queue EXCEPT ![l] = << >>]
      /\ state' = [c \in Command |->
                     IF c \in Queued(l) THEN "dropped" ELSE state[c]]
      /\ UNCHANGED <<active, keys, activeCount, chosen>>
  BY DEF CancelLane, Abort, Drops
<1>3. queue' \in [Lane -> Seq(Command)] /\ state' \in [Command -> States]
  BY <1>2 DEF IInv, Types, States
<1>4. QED BY <1>1, <1>2, <1>3, QuietKeeps DEF IInv, Types

-----------------------------------------------------------------------------
(* The inductive invariant holds in the initial state and is kept.         *)
LEMMA InitIInv == Init => IInv
<1> SUFFICES ASSUME Init PROVE IInv
  OBVIOUS
<1>1. queue \in [Lane -> Seq(Command)] /\ keys \in Seq(Lane)
  BY DEF Init
<1>2. Types
  BY <1>1, ConfigAssumption DEF Init, Types, States
<1>3. Busy = {}
  BY DEF Init, Busy
<1>4. Counted
  BY <1>3, FS_EmptySet DEF Init, Counted
<1>5. QED BY <1>2, <1>4 DEF Init, IInv, CancelReachesHandle

LEMMA NextIInv == IInv /\ [Next]_vars => IInv'
<1> SUFFICES ASSUME IInv, [Next]_vars PROVE IInv'
  OBVIOUS
<1>1. CASE Schedule
  BY <1>1, PassKeyKeeps, StartHeadKeeps DEF Schedule
<1>2. ASSUME NEW c \in Command, NEW l \in Lane,
             SubmitAgain(c, l) \/ SubmitFull(c, l) \/ Submit(c, l)
      PROVE  IInv'
  BY <1>2, AnswerKeeps, SubmitKeeps
<1>3. ASSUME NEW l \in Lane,
             \/ Started(l) \/ StartFails(l) \/ Completes(l)
             \/ CancelExecution(l) \/ CancelLane(l)
      PROVE  IInv'
  BY <1>3, StartedKeeps, CompleteKeeps, CancelExecutionKeeps, CancelLaneKeeps
     DEF StartFails, Completes
<1>4. CASE UNCHANGED vars
  BY <1>4, QuietKeeps DEF IInv, Types, vars, lanes
<1>5. QED BY <1>1, <1>2, <1>3, <1>4 DEF Next

LEMMA Inductive == Spec => []IInv
<1>1. QED BY InitIInv, NextIInv, PTL DEF Spec

(* No execution misses its cancellation, also one that was starting.       *)
THEOREM CancellationArrives == Spec => []CancelReachesHandle
<1>1. IInv => CancelReachesHandle
  BY DEF IInv
<1>2. QED BY <1>1, Inductive, PTL

-----------------------------------------------------------------------------
(* Each step of the lanes is one of the queues, or none.                   *)
LEMMA SameCount == Queues!Cardinality(Queues!Busy) = Cardinality(Busy)
BY Zenon DEF Queues!Cardinality, Cardinality, Queues!Busy, Busy

LEMMA AnswerTurnsAway ==
  ASSUME IInv, NEW c \in Command, NEW l \in Lane,
         SubmitAgain(c, l) \/ SubmitFull(c, l)
  PROVE  Queues!TurnAway(c, l)
<1>1. /\ state[c] = "idle" /\ state' = [state EXCEPT ![c] = "answered"]
      /\ UNCHANGED <<queue, active, chosen>>
  BY DEF SubmitAgain, SubmitFull, Becomes, lanes
<1>2. CASE SubmitAgain(c, l)
  <2>1. KeyOf[c] \in {k \in Key : chosen[l][k] # None}
    BY <1>2, ConfigAssumption DEF SubmitAgain, Known
  <2>2. QED BY <1>1, <2>1 DEF IInv, Types, Queues!TurnAway, Fate
<1>3. CASE SubmitFull(c, l)
  <2>1. active[l] # None \/ activeCount = MaxActive
    BY <1>3, ConfigAssumption
    DEF IInv, Types, SubmitFull, Full, CanStartAtOnce
  <2>2. active[l] # None \/ Queues!Cardinality(Queues!Busy) = MaxActive
    BY <2>1, SameCount DEF IInv, Counted
  <2>3. QED BY <1>1, <2>2 DEF IInv, Types, Queues!TurnAway, Fate
<1>4. QED BY <1>2, <1>3

LEMMA SubmitEnters ==
  ASSUME IInv, NEW c \in Command, NEW l \in Lane, Submit(c, l)
  PROVE  Queues!Enter(c, l)
<1>1. /\ state[c] = "idle" /\ state' = [state EXCEPT ![c] = "queued"]
      /\ queue' = [queue EXCEPT ![l] = Append(queue[l], c)]
      /\ active' = active
      /\ chosen' = IF KeyOf[c] = None THEN chosen
                   ELSE [chosen EXCEPT ![l][KeyOf[c]] = c]
      /\ ~Known(l, KeyOf[c])
  BY DEF Submit, Becomes
<1>2. KeyOf[c] \notin {k \in Key : chosen[l][k] # None}
  BY <1>1, ConfigAssumption DEF Known
<1>3. [c_1 \in Command |-> Fate(c_1)]'
        = [[c_1 \in Command |-> Fate(c_1)] EXCEPT ![c] = "waiting"]
  BY <1>1 DEF IInv, Types, Fate
<1>4. [m \in Lane |-> {k \in Key : chosen[m][k] # None}]'
        = [[m \in Lane |-> {k \in Key : chosen[m][k] # None}]
             EXCEPT ![l] = @ \union ({KeyOf[c]} \ {None})]
  <2>1. CASE KeyOf[c] = None
    BY <1>1, <2>1
  <2>2. CASE KeyOf[c] # None
    <3>1. KeyOf[c] \in Key /\ c # None
      BY <2>2, ConfigAssumption
    <3>2. \A m \in Lane, k \in Key :
            chosen'[m][k] = IF m = l /\ k = KeyOf[c] THEN c ELSE chosen[m][k]
      BY <1>1, <2>2, <3>1 DEF IInv, Types
    <3>3. \A m \in Lane :
            {k \in Key : chosen'[m][k] # None} =
              IF m = l THEN {k \in Key : chosen[m][k] # None} \union {KeyOf[c]}
              ELSE {k \in Key : chosen[m][k] # None}
      BY <3>1, <3>2
    <3>4. {KeyOf[c]} \ {None} = {KeyOf[c]}
      BY <2>2
    <3>5. QED BY <3>3, <3>4
  <2>3. QED BY <2>1, <2>2
<1>5. Fate(c) = "new"
  BY <1>1 DEF Fate
<1>6. QED BY <1>1, <1>2, <1>3, <1>4, <1>5 DEF Queues!Enter

LEMMA StartHeadBegins ==
  ASSUME IInv, StartHead
  PROVE  \E l \in Lane : Queues!Begin(l)
<1>1. PICK l \in Lane : Starts(l)
  BY StartHeadStarts DEF IInv
<1>2. Queues!Cardinality(Queues!Busy) < MaxActive
  BY <1>1, SameCount DEF Starts, IInv, Counted
<1>3. [c \in Command |-> Fate(c)]'
        = [[c \in Command |-> Fate(c)] EXCEPT ![Head(queue[l])] = "running"]
  BY <1>1 DEF Starts, IInv, Types, Fate
<1>4. Queues!Begin(l)
  BY <1>1, <1>2, <1>3 DEF Starts, Queues!Begin
<1>5. QED BY <1>4

LEMMA CompleteEnds ==
  ASSUME IInv, NEW l \in Lane, active[l] # None,
         NEW s \in {"failed", "done"}, CompleteActive(l, s)
  PROVE  Queues!End(l)
<1>1. /\ active[l] \in Command
      /\ state' = [state EXCEPT ![active[l]] = s]
      /\ active' = [active EXCEPT ![l] = None]
      /\ UNCHANGED <<queue, chosen>>
  BY DEF IInv, Types, CompleteActive, Becomes
<1>2. [c \in Command |-> Fate(c)]'
        = [[c \in Command |-> Fate(c)] EXCEPT ![active[l]] = "over"]
  BY <1>1 DEF IInv, Types, Fate
<1>3. QED BY <1>1, <1>2 DEF Queues!End

LEMMA CancelLaneClears ==
  ASSUME IInv, NEW l \in Lane, CancelLane(l)
  PROVE  Queues!Clear(l)
<1>1. /\ queue' = [queue EXCEPT ![l] = << >>]
      /\ state' = [c \in Command |->
                     IF c \in Queued(l) THEN "dropped" ELSE state[c]]
      /\ UNCHANGED <<active, chosen>>
  BY DEF CancelLane, Drops
<1>2. Queued(l) = Queues!ToSet(queue[l])
  BY DEF IInv, Types, Queued, Queues!ToSet
<1>3. [c \in Command |-> Fate(c)]'
        = [c \in Command |->
             IF c \in Queues!ToSet(queue[l]) THEN "dropped"
             ELSE [d \in Command |-> Fate(d)][c]]
  BY <1>1, <1>2 DEF Fate
<1>4. QED BY <1>1, <1>3 DEF Queues!Clear

(* The loop's own steps, a handle that arrives and a cancelled execution   *)
(* are not seen.                                                           *)
LEMMA Unseen ==
  ASSUME IInv,
         \/ PassKey \/ EndSchedule \/ UNCHANGED vars
         \/ \E l \in Lane : Started(l) \/ CancelExecution(l)
  PROVE  UNCHANGED Queues!vars
<1>1. UNCHANGED <<queue, active, chosen>>
  BY DEF PassKey, EndSchedule, vars, lanes, Started, CancelExecution
<1>2. \A c \in Command : Fate(c)' = Fate(c)
  <2>1. CASE UNCHANGED state
    BY <2>1 DEF Fate
  <2>2. ASSUME NEW l \in Lane, Started(l)
        PROVE  \A c \in Command : Fate(c)' = Fate(c)
    BY <2>2 DEF IInv, Types, Started, Becomes, Fate
  <2>3. QED BY <2>1, <2>2 DEF PassKey, EndSchedule, vars, CancelExecution
<1>3. QED BY <1>1, <1>2 DEF Queues!vars

LEMMA StepOfQueues == IInv /\ [Next]_vars => [Queues!Next]_(Queues!vars)
<1> SUFFICES ASSUME IInv, [Next]_vars PROVE [Queues!Next]_(Queues!vars)
  OBVIOUS
<1>1. CASE Schedule
  BY <1>1, StartHeadBegins, Unseen DEF Schedule, Queues!Next
<1>2. ASSUME NEW c \in Command, NEW l \in Lane,
             SubmitAgain(c, l) \/ SubmitFull(c, l) \/ Submit(c, l)
      PROVE  Queues!Next
  BY <1>2, AnswerTurnsAway, SubmitEnters DEF Queues!Next
<1>3. ASSUME NEW l \in Lane,
             \/ Started(l) \/ StartFails(l) \/ Completes(l)
             \/ CancelExecution(l) \/ CancelLane(l)
      PROVE  [Queues!Next]_(Queues!vars)
  BY <1>3, Unseen, CompleteEnds, CancelLaneClears
  DEF StartFails, Completes, Queues!Next
<1>4. CASE UNCHANGED vars
  BY <1>4, Unseen
<1>5. QED BY <1>1, <1>2, <1>3, <1>4 DEF Next

(* Whatever the lanes do, callers see queues that run one command of a     *)
(* lane at a time, in order, within the limit, and lose none.              *)
THEOREM LanesImplementQueues == Spec => LanesAreQueues
<1>1. Init => Queues!Init
  BY DEF Init, Fate, Queues!Init
<1>2. QED
  BY <1>1, Inductive, StepOfQueues, PTL DEF Spec, LanesAreQueues, Queues!Spec

-----------------------------------------------------------------------------
(* Commands and their places *)

(* A command waits in one place or owns one lane, as its state says, and   *)
(* the counter counts the places.                                          *)
Placed ==
  /\ \A l, m \in Lane : \A i \in 1..Len(queue[l]), j \in 1..Len(queue[m]) :
       queue[l][i] = queue[m][j] => l = m /\ i = j
  /\ \A l, m \in Lane : active[l] # None /\ active[l] = active[m] => l = m
  /\ \A c \in Command : state[c] = "queued" <=> \E l \in Lane : c \in Queued(l)
  /\ \A c \in Command :
       state[c] \in {"starting", "running"} <=> \E l \in Lane : active[l] = c

WaitersCounted == IsFiniteSet(Waiters) /\ queuedCount = Cardinality(Waiters)

(* A lane that can start is in runnableLaneKeys, so the loop of schedule() *)
(* does not end before the one command beyond the limit has started.       *)
Listed ==
  /\ runnable \in [Lane -> BOOLEAN] /\ scheduling \in BOOLEAN
  /\ \A l \in Lane : Waiting(l) => runnable[l]
  /\ \A l \in Lane : runnable[l] => \E i \in 1..Len(keys) : keys[i] = l
  /\ queuedCount \in 0..(MaxQueued + 1)
  /\ queuedCount > MaxQueued =>
       scheduling /\ activeCount < MaxActive /\ \E l \in Lane : Waiting(l)

PInv == IInv /\ Placed /\ WaitersCounted /\ Listed

(* A row of n places has n of them.                                        *)
LEMMA RowSize ==
  ASSUME NEW l, NEW n \in Nat
  PROVE  /\ IsFiniteSet({<<l, i>> : i \in 1..n})
         /\ Cardinality({<<l, i>> : i \in 1..n}) = n
<1> DEFINE row == {<<l, i>> : i \in 1..n}
           f == [i \in 1..n |-> <<l, i>>]
<1>1. f \in Bijection(1..n, row)
  <2>1. f \in [1..n -> row]
    OBVIOUS
  <2>2. \A i, j \in 1..n : f[i] = f[j] => i = j
    OBVIOUS
  <2>3. \A w \in row : \E i \in 1..n : f[i] = w
    OBVIOUS
  <2> HIDE DEF f, row
  <2>4. QED BY <2>1, <2>2, <2>3 DEF Bijection, Injection, IsInjective, Surjection
<1>2. ExistsBijection(1..n, row)
  BY <1>1, Zenon DEF ExistsBijection
<1>3. IsFiniteSet(1..n)
  BY FS_Interval
<1> HIDE DEF row
<1>4. IsFiniteSet(row) /\ Cardinality(row) = n
  BY <1>2, <1>3, FS_Bijection, FS_CountingElements
<1>5. QED BY <1>4 DEF row

(* Queues are sequences of commands, and nothing else waits.               *)
LEMMA QueueTyped ==
  ASSUME Types
  PROVE  \A l \in Lane : /\ queue[l] \in Seq(Command)
                         /\ Len(queue[l]) \in Nat
                         /\ \A i \in 1..Len(queue[l]) : queue[l][i] \in Command
<1>1. \A l \in Lane : queue[l] \in Seq(Command)
  BY DEF Types
<1>2. QED BY <1>1, LenProperties, ElementOfSeq

(* Places and counters that a step does not touch.                         *)
LEMMA StillCounted ==
  ASSUME WaitersCounted, UNCHANGED <<queue, queuedCount>>
  PROVE  WaitersCounted'
BY DEF WaitersCounted, Waiters

LEMMA SubmitCounted ==
  ASSUME Types, WaitersCounted, NEW c \in Command, NEW l \in Lane, Submit(c, l)
  PROVE  WaitersCounted'
<1> DEFINE n == Len(queue[l])
<1>1. /\ n \in Nat
      /\ queue'[l] = Append(queue[l], c) /\ Len(queue'[l]) = n + 1
      /\ \A m \in Lane : m # l => queue'[m] = queue[m]
      /\ queuedCount' = queuedCount + 1
  BY QueueTyped, AppendProperties DEF Types, Submit
<1>2. Waiters' = Waiters \cup {<<l, n + 1>>}
  <2>1. ASSUME NEW w \in Waiters' PROVE w \in Waiters \cup {<<l, n + 1>>}
    <3>1. PICK m \in Lane : \E i \in 1..Len(queue'[m]) : w = <<m, i>>
      BY DEF Waiters
    <3>2. PICK i \in 1..Len(queue'[m]) : w = <<m, i>>
      BY <3>1
    <3>3. i \in 1..Len(queue[m]) \/ (m = l /\ i = n + 1)
      BY <1>1
    <3>4. QED BY <3>2, <3>3 DEF Waiters
  <2>2. ASSUME NEW m \in Lane, NEW i \in 1..Len(queue[m])
        PROVE  i \in 1..Len(queue'[m])
    BY <1>1
  <2>3. n + 1 \in 1..Len(queue'[l])
    BY <1>1
  <2>4. QED BY <2>1, <2>2, <2>3 DEF Waiters
<1>3. <<l, n + 1>> \notin Waiters
  BY <1>1 DEF Waiters
<1>4. QED BY <1>1, <1>2, <1>3, FS_AddElement DEF WaitersCounted

LEMMA StartCounted ==
  ASSUME Types, WaitersCounted, NEW l \in Lane, Starts(l),
         queuedCount' = queuedCount - 1
  PROVE  WaitersCounted'
<1> DEFINE n == Len(queue[l])
<1>1. /\ n \in Nat \ {0}
      /\ queue'[l] = Tail(queue[l]) /\ Len(queue'[l]) = n - 1
      /\ \A m \in Lane : m # l => queue'[m] = queue[m]
  BY QueueTyped, HeadTailProperties, EmptySeq DEF Types, Starts
<1>2. Waiters' = Waiters \ {<<l, n>>}
  <2>1. ASSUME NEW m \in Lane, NEW i \in Nat
        PROVE  i \in 1..Len(queue'[m]) <=> i \in 1..Len(queue[m]) /\ (m # l \/ i # n)
    <3>1. CASE m = l
      <4>1. Len(queue'[m]) = n - 1 /\ Len(queue[m]) = n /\ n \in Nat \ {0}
        BY <1>1, <3>1
      <4> HIDE DEF n
      <4>2. QED BY <3>1, <4>1
    <3>2. CASE m # l
      BY <1>1, <3>2
    <3>3. QED BY <3>1, <3>2
  <2>2. \A m \in Lane, i \in Nat :
          i \in 1..Len(queue'[m]) <=> i \in 1..Len(queue[m]) /\ <<m, i>> # <<l, n>>
    BY <2>1
  <2>3. QED BY <2>2 DEF Waiters
<1>3. <<l, n>> \in Waiters
  <2>1. n \in 1..Len(queue[l])
    BY <1>1
  <2>2. QED BY <2>1 DEF Waiters
<1>4. QED BY <1>2, <1>3, FS_RemoveElement DEF WaitersCounted

LEMMA CancelCounted ==
  ASSUME Types, WaitersCounted, NEW l \in Lane, CancelLane(l)
  PROVE  WaitersCounted'
<1> DEFINE n == Len(queue[l])
           row == {<<l, i>> : i \in 1..n}
<1>1. /\ n \in Nat
      /\ queue'[l] = << >> /\ Len(queue'[l]) = 0
      /\ \A m \in Lane : m # l => queue'[m] = queue[m]
      /\ queuedCount' = queuedCount - n
  BY QueueTyped, EmptySeq DEF Types, CancelLane, Drops
<1>2. Waiters' = Waiters \ row /\ Waiters \cap row = row
  <2>1. row \subseteq Waiters
    BY DEF Waiters
  <2>2. \A m \in Lane : \A i \in 1..Len(queue'[m]) :
          m # l /\ i \in 1..Len(queue[m])
    BY <1>1
  <2>3. Waiters' \subseteq Waiters \ row
    BY <2>2 DEF Waiters
  <2>4. ASSUME NEW w \in Waiters, w \notin row PROVE w \in Waiters'
    <3>1. PICK m \in Lane : \E i \in 1..Len(queue[m]) : w = <<m, i>>
      BY DEF Waiters
    <3>2. m # l
      BY <2>4, <3>1
    <3>3. QED BY <1>1, <3>1, <3>2 DEF Waiters
  <2>5. QED BY <2>1, <2>3, <2>4
<1> HIDE DEF n
<1>3. IsFiniteSet(row) /\ Cardinality(row) = n
  <2>1. n \in Nat
    BY <1>1
  <2>2. QED BY <2>1, RowSize, Zenon
<1> HIDE DEF row
<1>4. /\ IsFiniteSet(Waiters \ row)
      /\ Cardinality(Waiters \ row) = Cardinality(Waiters) - Cardinality(Waiters \cap row)
  BY FS_Difference DEF WaitersCounted
<1>5. QED BY <1>1, <1>2, <1>3, <1>4 DEF WaitersCounted

(* No command waits in two places.                                         *)
LEMMA OnePlace ==
  ASSUME Placed, NEW k \in Lane, NEW m \in Lane,
         NEW i \in 1..Len(queue[k]), NEW j \in 1..Len(queue[m]),
         queue[k][i] = queue[m][j]
  PROVE  k = m /\ i = j
BY DEF Placed

(* Steps that leave every command where it is.                             *)
LEMMA StillPlaced ==
  ASSUME Placed, UNCHANGED <<queue, active>>,
         \A c \in Command :
           /\ state'[c] = "queued" <=> state[c] = "queued"
           /\ state'[c] \in {"starting", "running"} <=>
                state[c] \in {"starting", "running"}
  PROVE  Placed'
BY DEF Placed, Queued

(* A new command takes a place of its own.                                 *)
LEMMA SubmitPlaced ==
  ASSUME Types, Placed, NEW c \in Command, NEW l \in Lane, Submit(c, l)
  PROVE  Placed'
<1> DEFINE n == Len(queue[l])
<1>1. /\ n \in Nat /\ Len(queue'[l]) = n + 1 /\ queue'[l][n + 1] = c
      /\ \A i \in 1..n : queue'[l][i] = queue[l][i]
      /\ \A m \in Lane : m # l => queue'[m] = queue[m]
      /\ active' = active
  BY QueueTyped, AppendProperties DEF Types, Submit
<1>2. state[c] = "idle" /\ \A d \in Command :
        state'[d] = IF d = c THEN "queued" ELSE state[d]
  BY DEF Types, Submit, Becomes
<1>3. \A m \in Lane : \A i \in 1..Len(queue[m]) : queue[m][i] # c
  BY <1>2 DEF Placed, Queued
<1> DEFINE Old(m, i) == i \in 1..Len(queue[m]) /\ queue'[m][i] = queue[m][i]
           New(m, i) == m = l /\ i = n + 1 /\ queue'[m][i] = c
<1>4. \A m \in Lane : \A i \in 1..Len(queue'[m]) : Old(m, i) \/ New(m, i)
  <2> SUFFICES ASSUME NEW m \in Lane, NEW i \in 1..Len(queue'[m])
               PROVE  Old(m, i) \/ New(m, i)
    OBVIOUS
  <2>1. CASE m = l
    BY <1>1, <2>1
  <2>2. CASE m # l
    BY <1>1, <2>2
  <2>3. QED BY <2>1, <2>2
<1>5. ASSUME NEW k \in Lane, NEW m \in Lane, NEW i \in 1..Len(queue'[k]),
             NEW j \in 1..Len(queue'[m]), queue'[k][i] = queue'[m][j]
      PROVE  k = m /\ i = j
  <2>1. CASE Old(k, i) /\ Old(m, j)
    <3>1. /\ i \in 1..Len(queue[k]) /\ j \in 1..Len(queue[m])
          /\ queue[k][i] = queue[m][j]
      BY <1>5, <2>1
    <3>2. QED BY <3>1, OnePlace
  <2>2. CASE Old(k, i) /\ New(m, j)
    BY <1>3, <1>5, <2>2
  <2>3. CASE New(k, i) /\ Old(m, j)
    BY <1>3, <1>5, <2>3
  <2>4. CASE New(k, i) /\ New(m, j)
    BY <2>4
  <2>5. QED BY <1>4, <2>1, <2>2, <2>3, <2>4
<1>6. \A m \in Lane : Queued(m)' = IF m = l THEN Queued(m) \cup {c} ELSE Queued(m)
  <2>1. Queued(l)' = Queued(l) \cup {c}
    <3>1. \A i \in 1..Len(queue'[l]) : i \in 1..n \/ i = n + 1
      BY <1>1
    <3>2. n + 1 \in 1..Len(queue'[l]) /\ \A i \in 1..n : i \in 1..Len(queue'[l])
      BY <1>1
    <3>3. QED BY <1>1, <3>1, <3>2 DEF Queued
  <2>2. \A m \in Lane : m # l => Queued(m)' = Queued(m)
    BY <1>1 DEF Queued
  <2>3. QED BY <2>1, <2>2
<1>7. ASSUME NEW d \in Command
      PROVE  state'[d] = "queued" <=> \E m \in Lane : d \in Queued(m)'
  <2>1. CASE d = c
    BY <1>2, <1>6, <2>1
  <2>2. CASE d # c
    <3>1. \A m \in Lane : d \in Queued(m)' <=> d \in Queued(m)
      BY <1>6, <2>2
    <3>2. QED BY <1>2, <2>2, <3>1 DEF Placed
  <2>3. QED BY <2>1, <2>2
<1>8. \A d \in Command :
        state'[d] \in {"starting", "running"} <=> \E m \in Lane : active'[m] = d
  BY <1>1, <1>2 DEF Placed
<1>9. QED BY <1>1, <1>5, <1>7, <1>8 DEF Placed

(* The head of a queue leaves it as its command becomes the lane's own.    *)
LEMMA StartPlaced ==
  ASSUME Types, Placed, NEW l \in Lane, Starts(l)
  PROVE  Placed'
<1> DEFINE n == Len(queue[l])
           c == Head(queue[l])
           At(m, i) == IF m = l THEN i + 1 ELSE i
<1>1. /\ n \in Nat \ {0} /\ Len(queue'[l]) = n - 1
      /\ c \in Command /\ c = queue[l][1]
      /\ \A i \in 1..(n - 1) : queue'[l][i] = queue[l][i + 1]
      /\ \A m \in Lane : m # l => queue'[m] = queue[m]
  BY QueueTyped, HeadTailProperties, EmptySeq DEF Types, Starts
<1>2. /\ active[l] = None /\ active' = [active EXCEPT ![l] = c]
      /\ \A d \in Command : state'[d] = IF d = c THEN "starting" ELSE state[d]
  BY DEF Types, Starts
<1>3. \A m \in Lane : \A i \in 1..Len(queue'[m]) :
        At(m, i) \in 1..Len(queue[m]) /\ queue'[m][i] = queue[m][At(m, i)]
  <2> SUFFICES ASSUME NEW m \in Lane, NEW i \in 1..Len(queue'[m])
               PROVE  At(m, i) \in 1..Len(queue[m]) /\ queue'[m][i] = queue[m][At(m, i)]
    OBVIOUS
  <2>1. CASE m = l
    <3>1. i \in 1..(n - 1) /\ At(m, i) = i + 1
      BY <1>1, <2>1
    <3>2. i + 1 \in 1..n
      BY <1>1, <3>1
    <3>3. QED BY <1>1, <2>1, <3>1, <3>2
  <2>2. CASE m # l
    BY <1>1, <2>2
  <2>3. QED BY <2>1, <2>2
<1>4. ASSUME NEW k \in Lane, NEW m \in Lane, NEW i \in 1..Len(queue'[k]),
             NEW j \in 1..Len(queue'[m]), queue'[k][i] = queue'[m][j]
      PROVE  k = m /\ i = j
  <2>1. /\ At(k, i) \in 1..Len(queue[k]) /\ At(m, j) \in 1..Len(queue[m])
        /\ queue[k][At(k, i)] = queue[m][At(m, j)]
    BY <1>3, <1>4
  <2>2. k = m /\ At(k, i) = At(m, j)
    <3> HIDE DEF At
    <3>1. QED BY <2>1, OnePlace
  <2>3. QED BY <2>2
<1>5. \A m \in Lane : Queued(m)' = Queued(m) \ {c}
  <2>1. ASSUME NEW m \in Lane, NEW d \in Queued(m)' PROVE d \in Queued(m) \ {c}
    <3>1. PICK i \in 1..Len(queue'[m]) : d = queue'[m][i]
      BY DEF Queued
    <3>2. At(m, i) \in 1..Len(queue[m]) /\ d = queue[m][At(m, i)]
      BY <1>3, <3>1
    <3>3. ~ (m = l /\ At(m, i) = 1)
      BY <1>1, <3>1
    <3>4. 1 \in 1..Len(queue[l])
      BY <1>1
    <3>5. d # c
      <4>1. queue[m][At(m, i)] = queue[l][1] => m = l /\ At(m, i) = 1
        BY <3>2, <3>4 DEF Placed
      <4>2. QED BY <1>1, <3>2, <3>3, <4>1
    <3>6. QED BY <3>2, <3>5 DEF Queued
  <2>2. ASSUME NEW m \in Lane, NEW d \in Queued(m), d # c PROVE d \in Queued(m)'
    <3>1. PICK j \in 1..Len(queue[m]) : d = queue[m][j]
      BY DEF Queued
    <3>2. CASE m = l
      <4>1. j - 1 \in 1..(n - 1) /\ (j - 1) + 1 = j
        BY <1>1, <2>2, <3>1, <3>2
      <4>2. queue'[l][j - 1] = d /\ j - 1 \in 1..Len(queue'[l])
        BY <1>1, <3>1, <3>2, <4>1
      <4>3. QED BY <3>2, <4>2 DEF Queued
    <3>3. CASE m # l
      BY <1>1, <3>1, <3>3 DEF Queued
    <3>4. QED BY <3>2, <3>3
  <2>3. QED BY <2>1, <2>2
<1>6. \E m \in Lane : c \in Queued(m)
  <2>1. 1 \in 1..Len(queue[l])
    BY <1>1
  <2>2. QED BY <1>1, <2>1 DEF Queued
<1>7. state[c] = "queued"
  BY <1>1, <1>6 DEF Placed
<1> HIDE DEF c
<1>8. \A d \in Command : state'[d] = "queued" <=> \E m \in Lane : d \in Queued(m)'
  BY <1>2, <1>5 DEF Placed
<1>9. \A m \in Lane : active[m] # c
  BY <1>1, <1>7 DEF Placed
<1>10. \A k, m \in Lane : active'[k] # None /\ active'[k] = active'[m] => k = m
  BY <1>2, <1>9 DEF Placed, Types
<1>11. ASSUME NEW d \in Command
       PROVE  state'[d] \in {"starting", "running"} <=> \E m \in Lane : active'[m] = d
  <2>1. CASE d = c
    BY <1>2, <2>1 DEF Types
  <2>2. CASE d # c
    <3>1. \A m \in Lane : active'[m] = d <=> active[m] = d
      BY <1>2, <2>2, ConfigAssumption DEF Types
    <3>2. QED BY <1>2, <2>2, <3>1 DEF Placed
  <2>3. QED BY <2>1, <2>2
<1>12. QED BY <1>4, <1>8, <1>10, <1>11 DEF Placed

(* A command whose execution ends is nowhere any more.                     *)
LEMMA CompletePlaced ==
  ASSUME Types, Placed, NEW l \in Lane, active[l] # None,
         NEW s \in {"failed", "done"}, CompleteActive(l, s)
  PROVE  Placed'
<1>1. /\ active[l] \in Command /\ queue' = queue
      /\ active' = [active EXCEPT ![l] = None]
      /\ \A d \in Command : state'[d] = IF d = active[l] THEN s ELSE state[d]
  BY DEF Types, CompleteActive, Becomes
<1>2. state[active[l]] \in {"starting", "running"}
  BY <1>1 DEF Placed
<1>3. \A d \in Command : state'[d] = "queued" <=> state[d] = "queued"
  BY <1>1, <1>2
<1>4. \A m \in Lane : Queued(m)' = Queued(m)
  BY <1>1 DEF Queued
<1>5. \A k, m \in Lane : active'[k] # None /\ active'[k] = active'[m] => k = m
  BY <1>1 DEF Placed, Types
<1>6. ASSUME NEW d \in Command
      PROVE  state'[d] \in {"starting", "running"} <=> \E m \in Lane : active'[m] = d
  <2>1. d # None
    BY ConfigAssumption
  <2>2. CASE d = active[l]
    <3>1. \A m \in Lane : active'[m] # d
      BY <1>1, <2>1, <2>2 DEF Placed, Types
    <3>2. QED BY <1>1, <2>2, <3>1
  <2>3. CASE d # active[l]
    <3>1. \A m \in Lane : active'[m] = d <=> active[m] = d
      BY <1>1, <2>1, <2>3 DEF Types
    <3>2. QED BY <1>1, <2>3, <3>1 DEF Placed
  <2>4. QED BY <2>2, <2>3
<1>7. QED BY <1>1, <1>3, <1>4, <1>5, <1>6 DEF Placed

(* A lane that is cancelled drops all that waits in it.                    *)
LEMMA CancelPlaced ==
  ASSUME Types, Placed, NEW l \in Lane, CancelLane(l)
  PROVE  Placed'
<1>1. /\ active' = active /\ queue'[l] = << >> /\ Len(queue'[l]) = 0
      /\ \A m \in Lane : m # l => queue'[m] = queue[m]
      /\ \A d \in Command : state'[d] = IF d \in Queued(l) THEN "dropped" ELSE state[d]
  BY EmptySeq DEF Types, CancelLane, Drops
<1>2. \A m \in Lane : \A i \in 1..Len(queue'[m]) :
        m # l /\ i \in 1..Len(queue[m]) /\ queue'[m][i] = queue[m][i]
  BY <1>1
<1>3. \A m \in Lane : Queued(m)' = IF m = l THEN {} ELSE Queued(m)
  BY <1>1 DEF Queued
<1>4. \A m \in Lane : m # l => Queued(m) \cap Queued(l) = {}
  BY DEF Placed, Queued
<1>5. \A d \in Command : state'[d] = "queued" <=> \E m \in Lane : d \in Queued(m)'
  BY <1>1, <1>3, <1>4 DEF Placed
<1>6. \A d \in Queued(l) : d \in Command /\ state[d] = "queued"
  BY QueueTyped DEF Placed, Queued
<1>7. \A d \in Command : state'[d] \in {"starting", "running"} <=>
                          state[d] \in {"starting", "running"}
  BY <1>1, <1>6
<1>8. QED BY <1>1, <1>2, <1>5, <1>7 DEF Placed

(* markRunnable puts the key of a lane that can start where the loop finds *)
(* it, unless it is there.                                                 *)
KeysListed == \A l \in Lane : runnable[l] => \E i \in 1..Len(keys) : keys[i] = l

LEMMA MarkListed ==
  ASSUME runnable \in [Lane -> BOOLEAN], keys \in Seq(Lane), KeysListed,
         NEW l \in Lane, NEW q, NEW a, MarkRunnable(l, q, a)
  PROVE  /\ runnable' \in [Lane -> BOOLEAN] /\ KeysListed'
         /\ \A m \in Lane : m # l => runnable'[m] = runnable[m]
         /\ a = None /\ q # << >> => runnable'[l]
<1> DEFINE mark == ~runnable[l] /\ a = None /\ q # << >>
<1>1. /\ runnable' = [runnable EXCEPT ![l] = @ \/ mark]
      /\ keys' = IF mark THEN Append(keys, l) ELSE keys
  BY Zenon DEF MarkRunnable
<1>2. Len(keys) \in Nat
  BY LenProperties
<1>3. CASE mark
  <2>1. /\ keys' = Append(keys, l) /\ Len(keys') = Len(keys) + 1
        /\ keys'[Len(keys) + 1] = l
        /\ \A i \in 1..Len(keys) : keys'[i] = keys[i]
    BY <1>1, <1>3, AppendProperties
  <2>2. \A i \in 1..Len(keys) : i \in 1..Len(keys')
    BY <1>2, <2>1
  <2>3. Len(keys) + 1 \in 1..Len(keys')
    BY <1>2, <2>1
  <2>4. runnable' = [runnable EXCEPT ![l] = TRUE]
    BY <1>1, <1>3
  <2>5. \A m \in Lane : runnable'[m] => \E i \in 1..Len(keys') : keys'[i] = m
    BY <2>1, <2>2, <2>3, <2>4 DEF KeysListed
  <2>6. QED BY <2>4, <2>5 DEF KeysListed
<1>4. CASE ~mark
  <2>1. keys' = keys /\ \A m \in Lane : runnable'[m] = runnable[m]
    BY <1>1, <1>4
  <2>2. runnable' \in [Lane -> BOOLEAN]
    BY <1>1, <1>4
  <2>3. QED BY <1>4, <2>1, <2>2 DEF KeysListed
<1>5. QED BY <1>3, <1>4

(* The lane whose key is taken is no longer marked, the others keep theirs.*)
LEMMA TakeListed ==
  ASSUME runnable \in [Lane -> BOOLEAN], keys \in Seq(Lane), KeysListed,
         keys # << >>, keys' = Tail(keys),
         runnable' = [runnable EXCEPT ![Head(keys)] = FALSE]
  PROVE  runnable' \in [Lane -> BOOLEAN] /\ KeysListed'
<1>1. /\ Len(keys) \in Nat \ {0} /\ Len(keys') = Len(keys) - 1
      /\ Head(keys) = keys[1] /\ Head(keys) \in Lane
      /\ \A i \in 1..Len(keys') : keys'[i] = keys[i + 1]
  BY LenProperties, EmptySeq, HeadTailProperties
<1>2. ASSUME NEW m \in Lane, runnable'[m]
      PROVE  \E i \in 1..Len(keys') : keys'[i] = m
  <2>1. m # Head(keys) /\ runnable[m]
    BY <1>1, <1>2
  <2>2. PICK i \in 1..Len(keys) : keys[i] = m
    BY <2>1 DEF KeysListed
  <2>3. i - 1 \in 1..Len(keys') /\ (i - 1) + 1 = i
    BY <1>1, <2>1, <2>2
  <2>4. QED BY <1>1, <2>2, <2>3
<1>3. QED BY <1>1, <1>2 DEF KeysListed

LEMMA StillListed ==
  ASSUME Listed, UNCHANGED <<lanes, scheduling>>
  PROVE  Listed'
BY DEF Listed, Waiting, lanes

(* A command beyond the limit is let in only where it can start at once.   *)
LEMMA SubmitListed ==
  ASSUME Types, Listed, NEW c \in Command, NEW l \in Lane, Submit(c, l)
  PROVE  Listed'
<1>1. /\ runnable \in [Lane -> BOOLEAN] /\ keys \in Seq(Lane) /\ KeysListed
      /\ queuedCount \in 0..MaxQueued
  BY ConfigAssumption DEF Types, Listed, KeysListed, Submit
<1>2. /\ queue'[l] = Append(queue[l], c) /\ queue'[l] # << >>
      /\ \A m \in Lane : m # l => queue'[m] = queue[m]
  BY QueueTyped, AppendProperties DEF Types, Submit
<1>3. /\ active' = active /\ activeCount' = activeCount
      /\ scheduling' = TRUE /\ queuedCount' = queuedCount + 1
      /\ MarkRunnable(l, queue'[l], active[l])
  BY <1>2 DEF Submit
<1>4. /\ runnable' \in [Lane -> BOOLEAN] /\ KeysListed'
      /\ \A m \in Lane : m # l => runnable'[m] = runnable[m]
      /\ active[l] = None /\ queue'[l] # << >> => runnable'[l]
  BY <1>1, <1>3, MarkListed
<1>5. \A m \in Lane : Waiting(m)' => runnable'[m]
  BY <1>2, <1>3, <1>4 DEF Listed, Waiting
<1>6. queuedCount' \in 0..(MaxQueued + 1)
  BY <1>1, <1>3, ConfigAssumption
<1>7. ASSUME queuedCount' > MaxQueued
      PROVE  activeCount' < MaxActive /\ Waiting(l)'
  <2>1. queuedCount >= MaxQueued
    BY <1>1, <1>3, <1>7, ConfigAssumption
  <2>2. active[l] = None /\ activeCount < MaxActive
    BY <2>1 DEF Submit, Full, CanStartAtOnce
  <2>3. QED BY <1>2, <1>3, <2>2 DEF Waiting
<1>8. QED BY <1>3, <1>4, <1>5, <1>6, <1>7 DEF Listed, KeysListed

LEMMA PassListed ==
  ASSUME Types, Listed, PassKey
  PROVE  Listed'
<1>1. /\ runnable \in [Lane -> BOOLEAN] /\ keys \in Seq(Lane) /\ KeysListed
      /\ keys # << >> /\ keys' = Tail(keys)
      /\ runnable' = [runnable EXCEPT ![Head(keys)] = FALSE]
      /\ ~Waiting(Head(keys))
      /\ UNCHANGED <<queue, active, activeCount, queuedCount, scheduling>>
  BY DEF Types, Listed, KeysListed, PassKey, MayStart, Waiting
<1>2. runnable' \in [Lane -> BOOLEAN] /\ KeysListed'
  BY <1>1, TakeListed
<1>3. \A m \in Lane : Waiting(m)' <=> Waiting(m)
  BY <1>1 DEF Waiting
<1>4. \A m \in Lane : Waiting(m)' => runnable'[m]
  BY <1>1, <1>3 DEF Listed
<1>5. QED BY <1>1, <1>2, <1>3, <1>4 DEF Listed, KeysListed

(* The start that the loop goes on to makes room.                          *)
LEMMA StartListed ==
  ASSUME Types, Listed, StartHead, WaitersCounted'
  PROVE  Listed'
<1>0. PICK l \in Lane : l = Head(keys)
  BY HeadTailProperties DEF Types, StartHead, MayStart
<1>1. /\ runnable \in [Lane -> BOOLEAN] /\ keys \in Seq(Lane) /\ KeysListed
      /\ keys # << >> /\ keys' = Tail(keys)
      /\ runnable' = [runnable EXCEPT ![l] = FALSE]
      /\ queuedCount' = queuedCount - 1 /\ scheduling' = scheduling
  BY <1>0 DEF Types, Listed, KeysListed, StartHead, MayStart
<1>2. runnable' \in [Lane -> BOOLEAN] /\ KeysListed'
  BY <1>0, <1>1, TakeListed
<1>3. /\ Head(queue[l]) # None
      /\ queue' = [queue EXCEPT ![l] = Tail(queue[l])]
      /\ active' = [active EXCEPT ![l] = Head(queue[l])]
  <2>1. queue[l] # << >>
    BY <1>0 DEF StartHead, Waiting
  <2>2. Head(queue[l]) \in Command
    BY <2>1, HeadTailProperties DEF Types
  <2>3. QED BY <1>0, <2>2, ConfigAssumption DEF StartHead
<1>4. ~Waiting(l)' /\ \A m \in Lane : m # l => (Waiting(m)' <=> Waiting(m))
  BY <1>3 DEF Types, Waiting
<1>5. \A m \in Lane : Waiting(m)' => runnable'[m]
  BY <1>1, <1>4 DEF Listed
<1>6. queuedCount' \in Nat
  BY FS_CardinalityType DEF WaitersCounted
<1>7. queuedCount' \in 0..MaxQueued
  BY <1>1, <1>6, ConfigAssumption DEF Listed
<1>8. QED BY <1>1, <1>2, <1>5, <1>7, ConfigAssumption DEF Listed, KeysListed

(* The loop ends with the queues within their limit.                       *)
LEMMA EndListed ==
  ASSUME Types, Listed, EndSchedule
  PROVE  Listed'
<1>1. UNCHANGED lanes /\ scheduling' = FALSE /\ ~MayStart
  BY DEF EndSchedule
<1>2. ~ (queuedCount > MaxQueued)
  <2> SUFFICES ASSUME queuedCount > MaxQueued PROVE FALSE
    OBVIOUS
  <2>1. PICK l \in Lane : Waiting(l)
    BY DEF Listed
  <2>2. PICK i \in 1..Len(keys) : keys[i] = l
    BY <2>1 DEF Listed
  <2>3. keys # << >>
    BY <2>2, EmptySeq
  <2>4. QED BY <1>1, <2>3 DEF Listed, MayStart
<1>3. QED BY <1>1, <1>2 DEF Listed, Waiting, lanes

LEMMA CompleteListed ==
  ASSUME Types, Listed, NEW l \in Lane, NEW s, ~scheduling, CompleteActive(l, s)
  PROVE  Listed'
<1>1. /\ runnable \in [Lane -> BOOLEAN] /\ keys \in Seq(Lane) /\ KeysListed
      /\ ~ (queuedCount > MaxQueued) /\ queuedCount \in 0..(MaxQueued + 1)
  BY DEF Types, Listed, KeysListed
<1>2. /\ active' = [active EXCEPT ![l] = None] /\ MarkRunnable(l, queue[l], None)
      /\ UNCHANGED <<queue, queuedCount>> /\ scheduling' = TRUE
  BY DEF CompleteActive
<1>3. /\ runnable' \in [Lane -> BOOLEAN] /\ KeysListed'
      /\ \A m \in Lane : m # l => runnable'[m] = runnable[m]
      /\ queue[l] # << >> => runnable'[l]
  BY <1>1, <1>2, MarkListed
<1>4. \A m \in Lane : Waiting(m)' => runnable'[m]
  BY <1>2, <1>3 DEF Types, Listed, Waiting
<1>5. QED BY <1>1, <1>2, <1>3, <1>4 DEF Listed, KeysListed

LEMMA CancelListed ==
  ASSUME Types, Listed, WaitersCounted', NEW l \in Lane, CancelLane(l)
  PROVE  Listed'
<1>1. /\ queue' = [queue EXCEPT ![l] = << >>]
      /\ runnable' = [runnable EXCEPT ![l] = FALSE]
      /\ queuedCount' = queuedCount - Len(queue[l])
      /\ UNCHANGED <<active, keys, activeCount, scheduling>> /\ scheduling = FALSE
  BY DEF CancelLane, Drops, Listed
<1>2. queuedCount' \in Nat /\ Len(queue[l]) \in Nat
  BY QueueTyped, FS_CardinalityType DEF WaitersCounted
<1>3. queuedCount' \in 0..MaxQueued
  BY <1>1, <1>2, ConfigAssumption DEF Listed
<1>4. \A m \in Lane : Waiting(m)' => m # l /\ Waiting(m)
  BY <1>1 DEF Types, Waiting
<1>5. \A m \in Lane : Waiting(m)' => runnable'[m]
  BY <1>1, <1>4 DEF Listed
<1>6. runnable' \in [Lane -> BOOLEAN]
  BY <1>1 DEF Listed
<1>7. KeysListed'
  <2>1. \A m \in Lane : runnable'[m] => runnable[m]
    BY <1>1 DEF Listed
  <2>2. QED BY <1>1, <2>1 DEF Listed, KeysListed
<1>8. queuedCount' \in 0..(MaxQueued + 1) /\ ~ (queuedCount' > MaxQueued)
  BY <1>3, ConfigAssumption
<1>9. scheduling' \in BOOLEAN
  BY <1>1 DEF Listed
<1>10. QED BY <1>5, <1>6, <1>7, <1>8, <1>9 DEF Listed, KeysListed

-----------------------------------------------------------------------------
LEMMA InitPInv == Init => PInv
<1> SUFFICES ASSUME Init PROVE PInv
  OBVIOUS
<1>1. \A l \in Lane : queue[l] = << >> /\ Len(queue[l]) = 0
  BY EmptySeq DEF Init
<1>2. \A l \in Lane : Queued(l) = {}
  BY <1>1 DEF Queued
<1>3. Placed
  BY <1>1, <1>2, ConfigAssumption DEF Init, Placed
<1>4. Waiters = {}
  BY <1>1 DEF Waiters
<1>5. WaitersCounted
  BY <1>4, FS_EmptySet DEF Init, WaitersCounted
<1>6. Listed
  <2>1. \A l \in Lane : ~Waiting(l) /\ ~runnable[l]
    BY <1>1 DEF Init, Waiting
  <2>2. queuedCount \in 0..(MaxQueued + 1) /\ ~ (queuedCount > MaxQueued)
    BY ConfigAssumption DEF Init
  <2>3. runnable \in [Lane -> BOOLEAN] /\ scheduling \in BOOLEAN
    BY DEF Init
  <2>4. QED BY <2>1, <2>2, <2>3 DEF Listed
<1>7. QED BY <1>3, <1>5, <1>6, InitIInv DEF PInv

(* Every step of the lanes keeps commands, places and keys together.       *)
LEMMA NextPInv == PInv /\ [Next]_vars => PInv'
<1> SUFFICES ASSUME PInv, [Next]_vars PROVE Placed' /\ WaitersCounted' /\ Listed'
  BY NextIInv DEF PInv
<1>0. Types /\ Placed /\ WaitersCounted /\ Listed
  BY DEF PInv, IInv
<1>1. ASSUME NEW c \in Command, NEW l \in Lane, SubmitAgain(c, l) \/ SubmitFull(c, l)
      PROVE  Placed' /\ WaitersCounted' /\ Listed'
  <2>1. /\ UNCHANGED <<lanes, scheduling>> /\ state[c] = "idle"
        /\ state' = [state EXCEPT ![c] = "answered"]
    BY <1>1 DEF SubmitAgain, SubmitFull, Becomes
  <2>2. Placed'
    BY <1>0, <2>1, StillPlaced DEF Types, lanes
  <2>3. QED BY <1>0, <2>1, <2>2, StillCounted, StillListed DEF lanes
<1>2. ASSUME NEW c \in Command, NEW l \in Lane, Submit(c, l)
      PROVE  Placed' /\ WaitersCounted' /\ Listed'
  BY <1>0, <1>2, SubmitPlaced, SubmitCounted, SubmitListed
<1>3. CASE PassKey
  <2>1. UNCHANGED <<queue, active, queuedCount, state>>
    BY <1>3 DEF PassKey
  <2>2. QED BY <1>0, <1>3, <2>1, StillPlaced, StillCounted, PassListed
<1>4. CASE StartHead
  <2>1. PICK l \in Lane : Starts(l)
    BY <1>0, <1>4, StartHeadStarts
  <2>2. queuedCount' = queuedCount - 1
    BY <1>4 DEF StartHead
  <2>3. QED BY <1>0, <1>4, <2>1, <2>2, StartPlaced, StartCounted, StartListed
<1>5. CASE EndSchedule
  <2>1. UNCHANGED <<queue, active, queuedCount, state>>
    BY <1>5 DEF EndSchedule, lanes
  <2>2. QED BY <1>0, <1>5, <2>1, StillPlaced, StillCounted, EndListed
<1>6. ASSUME NEW l \in Lane, Started(l)
      PROVE  Placed' /\ WaitersCounted' /\ Listed'
  <2>1. /\ UNCHANGED <<lanes, scheduling>>
        /\ active[l] \in Command /\ state[active[l]] = "starting"
        /\ state' = [state EXCEPT ![active[l]] = "running"]
    BY <1>0, <1>6 DEF Types, Started, Becomes
  <2>2. Placed'
    BY <1>0, <2>1, StillPlaced DEF Types, lanes
  <2>3. QED BY <1>0, <2>1, <2>2, StillCounted, StillListed DEF lanes
<1>7. ASSUME NEW l \in Lane, StartFails(l) \/ Completes(l)
      PROVE  Placed' /\ WaitersCounted' /\ Listed'
  <2>1. PICK s \in {"failed", "done"} : CompleteActive(l, s)
    BY <1>7 DEF StartFails, Completes
  <2>2. active[l] # None /\ ~scheduling
    BY <1>7 DEF StartFails, Completes
  <2>3. UNCHANGED <<queue, queuedCount>>
    BY <2>1 DEF CompleteActive
  <2>4. QED BY <1>0, <2>1, <2>2, <2>3, CompletePlaced, StillCounted, CompleteListed
<1>8. ASSUME NEW l \in Lane, CancelExecution(l)
      PROVE  Placed' /\ WaitersCounted' /\ Listed'
  <2>1. UNCHANGED <<lanes, scheduling, state>>
    BY <1>8 DEF CancelExecution
  <2>2. QED BY <1>0, <2>1, StillPlaced, StillCounted, StillListed DEF lanes
<1>9. ASSUME NEW l \in Lane, CancelLane(l)
      PROVE  Placed' /\ WaitersCounted' /\ Listed'
  BY <1>0, <1>9, CancelPlaced, CancelCounted, CancelListed
<1>10. CASE UNCHANGED vars
  BY <1>0, <1>10, StillPlaced, StillCounted, StillListed DEF vars, lanes
<1>11. QED
  BY <1>1, <1>2, <1>3, <1>4, <1>5, <1>6, <1>7, <1>8, <1>9, <1>10 DEF Next, Schedule

LEMMA PlacesKept == Spec => []PInv
<1>1. QED BY InitPInv, NextPInv, PTL DEF Spec

(* In every behaviour the state is well-typed: in particular no more than  *)
(* one command ever stands beyond the limit of the queues, and only until  *)
(* the loop has started it.                                                *)
THEOREM TypeCorrect == Spec => []TypeOK
<1>1. PInv => TypeOK
  BY DEF PInv, IInv, Types, Listed, TypeOK
<1>2. QED BY <1>1, PlacesKept, PTL

(* Whoever submits gets one outcome: a command that is queued stands in    *)
(* one queue and one that runs owns one lane, nothing else does, and the   *)
(* counters behind the limits count just these.                            *)
THEOREM OneOutcome == Spec => []OutcomeMatchesLane
<1>1. PInv => OutcomeMatchesLane
  BY DEF PInv, IInv, Placed, Counted, WaitersCounted, OutcomeMatchesLane
<1>2. QED BY <1>1, PlacesKept, PTL

=============================================================================
