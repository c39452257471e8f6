--------------------------- MODULE ExecutionLanes ---------------------------
(***************************************************************************)
(* The interactive execution lanes of packages/server-runtime              *)
(* (src/execution-lanes.ts, class ExecutionLaneCoordinator) with the host  *)
(* as its driver (packages/host, src/host-service.ts): commands queue per  *)
(* lane, a lane runs one execution at a time, the process runs at most     *)
(* MaxActive, and the lanes whose head may start take turns.               *)
(*                                                                         *)
(* Each element of Command is one call of submit(), used at most once.     *)
(* schedule() runs to completion within the call that invoked it; here it  *)
(* is one step per round of its loop, and nothing else happens while the   *)
(* flag scheduling is set.  The driver is asynchronous: between the start  *)
(* of an execution and the arrival of its handle anything may happen.      *)
(***************************************************************************)
EXTENDS Integers, Sequences, FiniteSets

CONSTANTS
  Lane,
  Command,
  Key,             \* idempotency keys
  KeyOf,           \* KeyOf[c]: the key command c is submitted with, or None
  MaxActive,       \* config.maxActiveExecutions
  MaxPerLane,      \* config.maxQueuedPerLane
  MaxQueued,       \* config.maxQueuedTotal
  None

ASSUME ConfigAssumption ==
  /\ MaxActive \in Nat \ {0}
  /\ MaxPerLane \in Nat \ {0}
  /\ MaxQueued \in Nat \ {0}
  /\ None \notin Command \cup Key
  /\ KeyOf \in [Command -> Key \cup {None}]

VARIABLES
  queue,       \* queue[l]: the commands of lane l that wait, in order
  active,      \* active[l]: the command whose execution owns lane l
  runnable,    \* runnable[l]: the lane's own idea of being in keys
  keys,        \* runnableLaneKeys
  activeCount,
  queuedCount,
  scheduling,  \* schedule() is running
  state,       \* state[c]: what became of command c
  chosen,      \* chosen[l][k]: the command accepted under key k in lane l
  aborted,     \* commands whose signal has fired
  cancelled    \* commands whose handle was told to cancel (history)

lanes  == <<queue, active, runnable, keys, activeCount, queuedCount>>
vars   == <<lanes, scheduling, state, chosen, aborted, cancelled>>

(* An answered command got no place: it repeats an earlier one, conflicts  *)
(* with it, or there is no room.                                           *)
States == {"idle", "answered", "queued", "starting", "running", "done",
           "failed", "dropped"}

TypeOK ==
  /\ queue \in [Lane -> Seq(Command)]
  /\ active \in [Lane -> Command \cup {None}]
  /\ runnable \in [Lane -> BOOLEAN]
  /\ keys \in Seq(Lane)
  /\ activeCount \in 0..MaxActive
  /\ queuedCount \in 0..(MaxQueued + 1)
  /\ scheduling \in BOOLEAN
  /\ state \in [Command -> States]
  /\ chosen \in [Lane -> [Key -> Command \cup {None}]]
  /\ aborted \subseteq Command
  /\ cancelled \subseteq Command

Init ==
  /\ queue = [l \in Lane |-> << >>]
  /\ active = [l \in Lane |-> None]
  /\ runnable = [l \in Lane |-> FALSE]
  /\ keys = << >>
  /\ activeCount = 0
  /\ queuedCount = 0
  /\ scheduling = FALSE
  /\ state = [c \in Command |-> "idle"]
  /\ chosen = [l \in Lane |-> [k \in Key |-> None]]
  /\ aborted = {}
  /\ cancelled = {}

(* Command c is in state s from here on.                                   *)
Becomes(c, s) == state' = [state EXCEPT ![c] = s]

-----------------------------------------------------------------------------
(* submit *)

(* A key that was ever used in the lane answers with the first submission, *)
(* or with a conflict when the command is another one.                     *)
Known(l, k) == k # None /\ chosen[l][k] # None

SubmitAgain(c, l) ==
  /\ ~scheduling
  /\ state[c] = "idle"
  /\ Known(l, KeyOf[c])
  /\ Becomes(c, "answered")
  /\ UNCHANGED <<lanes, scheduling, chosen, aborted, cancelled>>

CanStartAtOnce(l) == active[l] = None /\ activeCount < MaxActive

Full(l) ==
  /\ ~CanStartAtOnce(l)
  /\ Len(queue[l]) >= MaxPerLane \/ queuedCount >= MaxQueued

SubmitFull(c, l) ==
  /\ ~scheduling
  /\ state[c] = "idle"
  /\ ~Known(l, KeyOf[c])
  /\ Full(l)
  /\ Becomes(c, "answered")
  /\ UNCHANGED <<lanes, scheduling, chosen, aborted, cancelled>>

(* markRunnable for lane l, whose queue and active entry are q and a.      *)
MarkRunnable(l, q, a) ==
  LET mark == ~runnable[l] /\ a = None /\ q # << >>
  IN  /\ runnable' = [runnable EXCEPT ![l] = @ \/ mark]
      /\ keys' = IF mark THEN Append(keys, l) ELSE keys

Submit(c, l) ==
  /\ ~scheduling
  /\ state[c] = "idle"
  /\ ~Known(l, KeyOf[c])
  /\ ~Full(l)
  /\ LET q == Append(queue[l], c)
     IN  /\ queue' = [queue EXCEPT ![l] = q]
         /\ MarkRunnable(l, q, active[l])
  /\ queuedCount' = queuedCount + 1
  /\ Becomes(c, "queued")
  /\ chosen' = IF KeyOf[c] = None THEN chosen
               ELSE [chosen EXCEPT ![l][KeyOf[c]] = c]
  /\ scheduling' = TRUE
  /\ UNCHANGED <<active, activeCount, aborted, cancelled>>

-----------------------------------------------------------------------------
(* schedule *)

MayStartOver ==  \* a mutant: one execution too many
  activeCount <= MaxActive /\ keys # << >>

MayStart == activeCount < MaxActive /\ keys # << >>

WaitingAnyway(l) ==  \* a mutant: a lane that runs may start another
  queue[l] # << >>

Waiting(l) == active[l] = None /\ queue[l] # << >>

(* The next key is of a lane that runs, or has nothing to run (any more).  *)
PassKey ==
  /\ scheduling /\ MayStart
  /\ active[Head(keys)] # None \/ queue[Head(keys)] = << >>
  /\ runnable' = [runnable EXCEPT ![Head(keys)] = FALSE]
  /\ keys' = Tail(keys)
  /\ UNCHANGED <<queue, active, activeCount, queuedCount, scheduling, state,
                 chosen, aborted, cancelled>>

(* The next key's lane starts the command at the head of its queue.        *)
StartHead ==
  /\ scheduling /\ MayStart
  /\ LET l == Head(keys)
         c == Head(queue[l])
     IN  /\ Waiting(l)
         /\ runnable' = [runnable EXCEPT ![l] = FALSE]
         /\ queue' = [queue EXCEPT ![l] = Tail(@)]
         /\ active' = [active EXCEPT ![l] = c]
         /\ Becomes(c, "starting")
  /\ keys' = Tail(keys)
  /\ queuedCount' = queuedCount - 1
  /\ activeCount' = activeCount + 1
  /\ UNCHANGED <<scheduling, chosen, aborted, cancelled>>

EndSchedule ==
  /\ scheduling /\ ~MayStart
  /\ scheduling' = FALSE
  /\ UNCHANGED <<lanes, state, chosen, aborted, cancelled>>

-----------------------------------------------------------------------------
(* The driver *)

(* The handle arrives.  The host's driver cancels a handle whose signal    *)
(* fired while the execution was starting; that ends the execution later.  *)
StartedUnchecked(l) ==  \* a mutant: the driver does not look at the signal
  /\ ~scheduling
  /\ active[l] # None /\ state[active[l]] = "starting"
  /\ Becomes(active[l], "running")
  /\ UNCHANGED <<lanes, scheduling, chosen, aborted, cancelled>>

Started(l) ==
  /\ ~scheduling
  /\ active[l] # None /\ state[active[l]] = "starting"
  /\ Becomes(active[l], "running")
  /\ cancelled' = cancelled \cup ({active[l]} \cap aborted)
  /\ UNCHANGED <<lanes, scheduling, chosen, aborted>>

(* completeActive: the execution ended (s), the lane is free again.        *)
CompleteUnmarked(l, s) ==  \* a mutant: the lane is not marked runnable
  /\ Becomes(active[l], s)
  /\ active' = [active EXCEPT ![l] = None]
  /\ activeCount' = activeCount - 1
  /\ scheduling' = TRUE
  /\ UNCHANGED <<queue, queuedCount, runnable, keys, chosen, aborted,
                 cancelled>>

CompleteActive(l, s) ==
  /\ Becomes(active[l], s)
  /\ active' = [active EXCEPT ![l] = None]
  /\ activeCount' = activeCount - 1
  /\ MarkRunnable(l, queue[l], None)
  /\ scheduling' = TRUE
  /\ UNCHANGED <<queue, queuedCount, chosen, aborted, cancelled>>

StartFails(l) ==
  /\ ~scheduling
  /\ active[l] # None /\ state[active[l]] = "starting"
  /\ CompleteActive(l, "failed")

Completes(l) ==
  /\ ~scheduling
  /\ active[l] # None /\ state[active[l]] = "running"
  /\ CompleteActive(l, "done")

-----------------------------------------------------------------------------
(* Cancellation *)

(* The signal of l's execution fires, and its handle, if any, is told;     *)
(* the signals of the commands in waiters fire too.                        *)
Abort(l, waiters) ==
  LET live == {active[l]} \ {None}
  IN  /\ aborted' = aborted \cup live \cup waiters
      /\ cancelled' = cancelled \cup {c \in live : state[c] = "running"}

CancelExecution(l) ==
  /\ ~scheduling
  /\ active[l] # None
  /\ Abort(l, {})
  /\ UNCHANGED <<lanes, scheduling, state, chosen>>

(* cancelLane also drops every command that waits in the lane.  The lane's *)
(* key stays where it is in runnableLaneKeys.                              *)
Queued(l) == {queue[l][i] : i \in 1..Len(queue[l])}

DropsSilently(l) ==  \* a mutant: the dropped commands get no outcome
  /\ queue' = [queue EXCEPT ![l] = << >>]
  /\ queuedCount' = queuedCount - Len(queue[l])
  /\ UNCHANGED state

Drops(l) ==
  /\ queue' = [queue EXCEPT ![l] = << >>]
  /\ state' = [c \in Command |-> IF c \in Queued(l) THEN "dropped" ELSE state[c]]
  /\ queuedCount' = queuedCount - Len(queue[l])

CancelLane(l) ==
  /\ ~scheduling
  /\ Abort(l, Queued(l))
  /\ Drops(l)
  /\ runnable' = [runnable EXCEPT ![l] = FALSE]
  /\ UNCHANGED <<active, keys, activeCount, scheduling, chosen>>

-----------------------------------------------------------------------------
Schedule == PassKey \/ StartHead \/ EndSchedule

Next ==
  \/ Schedule
  \/ \E c \in Command, l \in Lane :
       SubmitAgain(c, l) \/ SubmitFull(c, l) \/ Submit(c, l)
  \/ \E l \in Lane :
       \/ Started(l) \/ StartFails(l) \/ Completes(l)
       \/ CancelExecution(l) \/ CancelLane(l)

Spec == Init /\ [][Next]_vars

(* schedule() runs to its end, the driver settles every start, and every   *)
(* execution ends (its run has a step budget and can be cancelled).        *)
Settles(l) == Started(l) \/ StartFails(l) \/ Completes(l)

Fairness == WF_vars(Schedule) /\ \A l \in Lane : WF_vars(Settles(l))

FairSpec == Spec /\ Fairness

-----------------------------------------------------------------------------
(* Properties *)

(* A command is in its lane exactly as long as its caller has no outcome:  *)
(* queue entries are never silently dropped, never started twice, and an   *)
(* execution that was cancelled does not give up its lane before it ends.  *)
(* The counters that guard the limits count just these commands.           *)
Busy == {l \in Lane : active[l] # None}
Waiters == UNION {{<<l, i>> : i \in 1..Len(queue[l])} : l \in Lane}

OutcomeMatchesLane ==
  /\ \A c \in Command :
       /\ state[c] = "queued" <=> \E l \in Lane : c \in Queued(l)
       /\ state[c] \in {"starting", "running"} <=> \E l \in Lane : active[l] = c
  /\ activeCount = Cardinality(Busy)
  /\ queuedCount = Cardinality(Waiters)

(* A cancellation reaches the execution, also when it comes while the      *)
(* execution is still starting and has no handle.                          *)
CancelReachesHandle ==
  \A c \in aborted : state[c] = "running" => c \in cancelled

(* The lanes implement the queues they promise: keys, stale keys, flags    *)
(* and counters never start a command out of order, twice, beside another  *)
(* one of its lane or beyond the limit, and never lose one.                *)
Fate(c) == CASE state[c] = "idle" -> "new"
             [] state[c] = "queued" -> "waiting"
             [] state[c] \in {"starting", "running"} -> "running"
             [] state[c] \in {"done", "failed"} -> "over"
             [] OTHER -> state[c]

Queues ==
  INSTANCE LaneQueues
    WITH Limit <- MaxActive, waiting <- queue, running <- active,
         used <- [l \in Lane |-> {k \in Key : chosen[l][k] # None}],
         fate <- [c \in Command |-> Fate(c)]

LanesAreQueues == Queues!Spec

(* Every accepted command leaves the queue in the end.                     *)
EveryCommandLeaves ==
  \A c \in Command : (state[c] = "queued") ~> (state[c] # "queued")

=============================================================================
