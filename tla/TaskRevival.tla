---------------------------- MODULE TaskRevival -----------------------------
(***************************************************************************)
(* Background tasks of one run and how their ends reach it:                *)
(*   packages/agent-runtime/src/tasks/manager.ts     TaskManager           *)
(*   .../tasks/file-notifications.ts     FileTaskNotificationOutbox        *)
(*   .../tasks/tools.ts                  task_create and task wait         *)
(*   packages/host/src/runtime/task-runtime-operations.ts   the host's     *)
(*                           join, promote, resume and revival bridge      *)
(*   packages/core/src/run.ts            notification sources and the wait *)
(*                                       for awaited tasks before the end  *)
(*                                                                         *)
(* The end of a task is told to the run either as the result of a tool     *)
(* call that waits for it or as a notification, which the next step of     *)
(* the run injects into its context.  The task records and the             *)
(* notifications are files and survive the process; runners, waiters and   *)
(* the context since the last checkpoint do not.  JavaScript runs to the   *)
(* next await, so a step here is the code between two awaits.              *)
(*                                                                         *)
(* Cancelling a run ends it also in the middle of a task tool: core stops  *)
(* awaiting the call, whose body goes on and answers to nobody.  The host  *)
(* gives task tools no timeout, so nothing else cuts a call off.           *)
(***************************************************************************)
EXTENDS Integers, FiniteSets

CONSTANTS
  Task,
  MaxRevivals,  \* the run's budget of forced continuations for revival
  MaxCrashes,   \* bound on the crashes of the host
  MaxJoins      \* bound on the redeliveries that task.join makes

ASSUME RevivalAssumption ==
  /\ MaxRevivals \in Nat
  /\ MaxCrashes \in Nat
  /\ MaxJoins \in Nat

VARIABLES
  record,   \* the task store: status and the awaited bit of each task
  live,     \* tasks with a runner in this process (TaskManager.runners)
  inbox,    \* inbox[t]: notifications of t in the durable outbox
  retry,    \* TaskManager.notificationOutbox: failed deliveries, in memory
  joining,  \* joining[t]: joins that found no notification of t and deliver
  run,      \* the run that owns the tasks
  context,  \* context[t]: reports of the end of t in the run's context
  saved,    \* the run's checkpoint
  again,    \* again[t]: extra reports of t that a join asked for (history)
  unheard,  \* tasks a report of which a tool call took when its run was
            \* already cancelled (history)
  lost,     \* tasks a report of which a crash destroyed (history)
  crashes   \* crashes so far

store == <<record, live>>
memory == <<context, saved, again, unheard, lost, crashes>>
allButRun == <<store, inbox, retry, joining, memory>>
vars == <<allButRun, run>>

Statuses == {"none", "running", "ended"}
ToolPoints == {"foreground", "promote", "inline", "wait", "collect", "return"}
Points == ToolPoints \union
          {"step", "turn", "answer", "register", "waiting", "woken",
           "done", "cancelled", "down", "resuming"}

TypeOK ==
  /\ record \in [Task -> [status: Statuses, awaited: BOOLEAN]]
  /\ live \subseteq {t \in Task : record[t].status = "running"}
  /\ inbox \in [Task -> Nat]
  /\ retry \subseteq {t \in Task : record[t].status = "ended"}
  /\ joining \in [Task -> 0..MaxJoins]
  /\ run \in [pc: Points, tasks: SUBSET Task, all: BOOLEAN,
              aborted: BOOLEAN, revivals: 0..MaxRevivals]
  /\ (run.tasks # {}) <=> run.pc \in ToolPoints
  /\ context \in [Task -> Nat]
  /\ saved \in [context: [Task -> Nat], revivals: 0..MaxRevivals]
  /\ again \in [Task -> Nat]
  /\ unheard \subseteq Task
  /\ lost \subseteq Task
  /\ crashes \in 0..MaxCrashes

Init ==
  /\ record = [t \in Task |-> [status |-> "none", awaited |-> FALSE]]
  /\ live = {}
  /\ inbox = [t \in Task |-> 0]
  /\ retry = {}
  /\ joining = [t \in Task |-> 0]
  /\ run = [pc |-> "step", tasks |-> {}, all |-> FALSE, aborted |-> FALSE,
            revivals |-> 0]
  /\ context = [t \in Task |-> 0]
  /\ saved = [context |-> [t \in Task |-> 0], revivals |-> 0]
  /\ again = [t \in Task |-> 0]
  /\ unheard = {}
  /\ lost = {}
  /\ crashes = 0

Started(t) == record[t].status # "none"
Ended(t) == record[t].status = "ended"
HostUp == run.pc # "down"

Goes(pc) == run' = [run EXCEPT !.pc = pc, !.tasks = {}]
Takes(pc, S) == run' = [run EXCEPT !.pc = pc, !.tasks = S]

(* The body of a tool call ends: the run takes its next step, unless it    *)
(* was cancelled in the meantime.                                          *)
CallReturns == Goes(IF run.aborted THEN "cancelled" ELSE "step")

(* The results for the tasks S go into the context, or to nobody.          *)
Told(S) ==
  IF run.aborted
  THEN unheard' = unheard \union S /\ UNCHANGED context
  ELSE /\ context' = [t \in Task |-> context[t] + IF t \in S THEN 1 ELSE 0]
       /\ UNCHANGED unheard

-----------------------------------------------------------------------------
(* The notification outbox *)

(* The predicate matchesAwaitedRun: a notification of a task that is still *)
(* awaited.  (Every task of the model belongs to the run.)                 *)
Ready(box, rec) == \E t \in Task : box[t] > 0 /\ rec[t].awaited

(* deliver: the entry is written and every ready waiter whose predicate    *)
(* now holds is resolved.                                                  *)
Delivered(t, rec) ==
  /\ inbox' = [inbox EXCEPT ![t] = @ + 1]
  /\ IF run.pc = "waiting" /\ Ready(inbox', rec) THEN Goes("woken")
                                                 ELSE UNCHANGED run

(* consumeTerminalObservation: the failed deliveries and the notifications *)
(* of the task are dropped, since its end is told by other means.          *)
ConsumedRetries(t) ==  \* a mutant: only failed deliveries are dropped
  /\ retry' = retry \ {t}
  /\ UNCHANGED inbox

Consumed(t) ==
  /\ retry' = retry \ {t}
  /\ inbox' = [inbox EXCEPT ![t] = 0]

-----------------------------------------------------------------------------
(* The task manager *)

(* transitionTerminal, from a runner that returns, throws or is cancelled, *)
(* from the watchdog or from task.stop: the record becomes terminal and    *)
(* the notification is delivered, or kept for a retry when the delivery    *)
(* fails.  Waits on the task's promise see the record.                     *)
EndTaskLive(t) ==  \* a mutant: the runner stays registered
  /\ record' = [record EXCEPT ![t].status = "ended"]
  /\ Delivered(t, record')
  /\ UNCHANGED <<live, retry, joining, memory>>

EndTask(t) ==
  /\ record' = [record EXCEPT ![t].status = "ended"]
  /\ live' = live \ {t}
  /\ \/ Delivered(t, record') /\ UNCHANGED retry
     \/ retry' = retry \union {t} /\ UNCHANGED <<inbox, run>>
  /\ UNCHANGED <<joining, memory>>

End(t) == t \in live /\ EndTask(t)

(* requestPromotion, which only an unfinished task accepts: the task is    *)
(* awaited from now on, and a foreground call that waits for it returns.   *)
RequestPromotion(t) ==
  /\ HostUp
  /\ record[t].status = "running"
  /\ ~ (record[t].awaited /\ run.pc # "foreground")
  /\ record' = [record EXCEPT ![t].awaited = TRUE]
  /\ IF run.pc = "foreground" /\ t \in run.tasks THEN Takes("promote", {t})
                                                 ELSE UNCHANGED run
  /\ UNCHANGED <<live, inbox, retry, joining, memory>>

(* task.join of the host: the task is awaited, and a task that has ended   *)
(* and has no notification gets one more, after an await.                  *)
Join(t) ==
  /\ HostUp
  /\ Started(t)
  /\ again[t] < MaxJoins
  /\ record' = [record EXCEPT ![t].awaited = TRUE]
  /\ IF Ended(t) /\ inbox[t] = 0
     THEN joining' = [joining EXCEPT ![t] = @ + 1] /\
          again' = [again EXCEPT ![t] = @ + 1]
     ELSE ~ record[t].awaited /\ UNCHANGED <<joining, again>>
  /\ UNCHANGED <<live, inbox, retry, run, context, saved, unheard, lost, crashes>>

JoinDeliver(t) ==
  /\ HostUp
  /\ joining[t] > 0
  /\ joining' = [joining EXCEPT ![t] = @ - 1]
  /\ Delivered(t, record)
  /\ UNCHANGED <<store, retry, memory>>

-----------------------------------------------------------------------------
(* The steps of the run and its task tools *)

(* What drainNotificationSources injects: every notification of a task of  *)
(* this run, whether the task is awaited or not.                           *)
InjectedAwaited ==  \* a mutant: what nobody awaits is drained and dropped
  [t \in Task |-> IF record[t].awaited THEN inbox[t] ELSE 0]

Injected == inbox

(* The head of the loop: the embedder may save a checkpoint of the state   *)
(* the step starts from, then the sources are drained into the context.    *)
StartStep ==
  /\ run.pc = "step"
  /\ \/ saved' = [context |-> context, revivals |-> run.revivals]
     \/ UNCHANGED saved
  /\ context' = [t \in Task |-> context[t] + Injected[t]]
  /\ inbox' = [t \in Task |-> 0]
  /\ Goes("turn")
  /\ UNCHANGED <<store, retry, joining, again, unheard, lost, crashes>>

(* task_create in its three modes: only the foreground mode waits.         *)
Create(t, mode) ==
  /\ run.pc = "turn"
  /\ ~ Started(t)
  /\ record' = [record EXCEPT ![t] = [status |-> "running",
                                      awaited |-> mode # "background"]]
  /\ live' = live \union {t}
  /\ IF mode = "foreground" THEN Takes("foreground", {t}) ELSE Goes("step")
  /\ UNCHANGED <<inbox, retry, joining, memory>>

(* waitForForegroundTask: the timeout fires first, or the end of the task  *)
(* settles the race.  (RequestPromotion is the third contender.)           *)
Overrun ==
  /\ run.pc = "foreground"
  /\ \A t \in run.tasks : ~ Ended(t)
  /\ Takes("promote", run.tasks)
  /\ UNCHANGED allButRun

Inline ==
  /\ run.pc = "foreground"
  /\ \A t \in run.tasks : Ended(t)
  /\ Takes("inline", run.tasks)
  /\ UNCHANGED allButRun

(* The call returns a ticket, and the task is awaited in the background.   *)
Promote ==
  /\ run.pc = "promote"
  /\ record' = [t \in Task |-> IF t \in run.tasks
                               THEN [record[t] EXCEPT !.awaited = TRUE]
                               ELSE record[t]]
  /\ CallReturns
  /\ UNCHANGED <<live, inbox, retry, joining, memory>>

(* The result is returned inline: the notification of the same end is      *)
(* consumed before, and the task is not awaited any more.                  *)
InlineConsume ==
  /\ run.pc = "inline"
  /\ \E t \in run.tasks : Consumed(t)
  /\ Takes("return", run.tasks)
  /\ UNCHANGED <<store, joining, memory>>

InlineReturn ==
  /\ run.pc = "return"
  /\ record' = [t \in Task |-> IF t \in run.tasks
                               THEN [record[t] EXCEPT !.awaited = FALSE]
                               ELSE record[t]]
  /\ Told(run.tasks)
  /\ CallReturns
  /\ UNCHANGED <<live, inbox, retry, joining, saved, again, lost, crashes>>

(* task wait on a set of tasks, for all of them or for any.  A model that  *)
(* waits for what it was already told is told again, which is left out.    *)
Wait(S, all) ==
  /\ run.pc = "turn"
  /\ S # {}
  /\ \A t \in S : Started(t) /\ context[t] = 0
  /\ run' = [run EXCEPT !.pc = "wait", !.tasks = S, !.all = all]
  /\ UNCHANGED allButRun

(* waitForAllTasks needs every record, waitForAnyTask takes one.           *)
WaitOver ==
  /\ run.pc = "wait"
  /\ \E S \in SUBSET {t \in run.tasks : Ended(t)} :
       /\ S # {}
       /\ IF run.all THEN S = run.tasks ELSE Cardinality(S) = 1
       /\ Takes("collect", S)
  /\ UNCHANGED allButRun

(* Each record in turn: the awaited bit is cleared, then the notification  *)
(* is consumed; the call returns with all of the results.                  *)
Collect ==
  /\ run.pc = "collect"
  /\ \E t \in run.tasks :
       /\ record' = [record EXCEPT ![t].awaited = FALSE]
       /\ Consumed(t)
       /\ Told({t})
       /\ IF run.tasks = {t} THEN CallReturns
                             ELSE Takes("collect", run.tasks \ {t})
  /\ UNCHANGED <<live, joining, saved, again, lost, crashes>>

-----------------------------------------------------------------------------
(* The end of the run: waitForAwaitedTasksBeforeTerminal *)

Answer ==
  /\ run.pc = "turn"
  /\ Goes("answer")
  /\ UNCHANGED allButRun

(* hasAwaitedPending: an awaited task runs, or its end is in the outbox.   *)
HasAwaitedRunning ==  \* a mutant: only running tasks are looked at
  \E t \in Task : record[t].awaited /\ record[t].status = "running"

HasAwaitedPending ==
  \/ \E t \in Task : record[t].awaited /\ record[t].status = "running"
  \/ Ready(inbox, record)

(* Without a budget for one more turn the answer stands; otherwise the run *)
(* goes to waiting_tasks when there is something to wait for.              *)
CheckAwaited ==
  /\ run.pc = "answer"
  /\ IF run.revivals < MaxRevivals /\ HasAwaitedPending THEN Goes("register")
                                                        ELSE Goes("done")
  /\ UNCHANGED allButRun

(* waitUntilAvailable: what came since the check needs no wait.            *)
WaitForNext ==  \* a mutant: the outbox is not looked at before the wait
  /\ run.pc = "register"
  /\ Goes("waiting")
  /\ UNCHANGED allButRun

WaitUntilAvailable ==
  /\ run.pc = "register"
  /\ IF Ready(inbox, record) THEN Goes("woken") ELSE Goes("waiting")
  /\ UNCHANGED allButRun

(* A command for the run wakes it as well.                                 *)
Command ==
  /\ run.pc = "waiting"
  /\ Goes("woken")
  /\ UNCHANGED allButRun

Revive ==
  /\ run.pc = "woken"
  /\ run' = [run EXCEPT !.pc = "step", !.revivals = @ + 1]
  /\ UNCHANGED allButRun

(* Cancelling the run aborts its wait; its tasks go on, and so does the    *)
(* body of a tool call that is under way.                                  *)
Cancel ==
  /\ ~ run.aborted
  /\ run.pc \in ToolPoints \union
               {"step", "turn", "answer", "register", "waiting", "woken"}
  /\ run' = [run EXCEPT !.pc = IF @ \in ToolPoints THEN @ ELSE "cancelled",
                        !.aborted = TRUE]
  /\ UNCHANGED allButRun

-----------------------------------------------------------------------------
(* Crash and resume *)

(* The process ends, possibly right after the record of one task became    *)
(* terminal and before its notification was written.  Reports that the     *)
(* context has beyond the checkpoint, that a tool call holds, or that wait *)
(* for a retry are gone.  A run that is over or was cancelled is not       *)
(* resumed, whatever becomes of the process.                               *)
Crash(torn) ==
  /\ HostUp /\ run.pc # "done" /\ ~ run.aborted
  /\ crashes < MaxCrashes
  /\ crashes' = crashes + 1
  /\ torn \subseteq live /\ Cardinality(torn) <= 1
  /\ record' = [t \in Task |-> IF t \in torn
                               THEN [record[t] EXCEPT !.status = "ended"]
                               ELSE record[t]]
  /\ lost' = lost \union torn \union retry
                  \union {t \in Task : context[t] > saved.context[t]
                                       \/ joining[t] > 0}
                  \union (IF run.pc = "return" THEN run.tasks ELSE {})
  /\ live' = {}
  /\ retry' = {}
  /\ joining' = [t \in Task |-> 0]
  /\ run' = [run EXCEPT !.pc = "down", !.tasks = {},
                        !.revivals = saved.revivals]
  /\ context' = saved.context
  /\ UNCHANGED <<inbox, saved, again, unheard>>

(* A new host process resumes the run from its checkpoint: first it fails  *)
(* the run's tasks that no process runs any more, then the loop starts.    *)
Restart ==
  /\ run.pc = "down"
  /\ Goes("resuming")
  /\ UNCHANGED allButRun

Orphaned(t) == record[t].status = "running" /\ t \notin live

FailOrphan(t) ==
  /\ run.pc = "resuming"
  /\ Orphaned(t)
  /\ EndTask(t)

Resume ==
  /\ run.pc = "resuming"
  /\ \A t \in Task : ~ Orphaned(t)
  /\ Goes("step")
  /\ UNCHANGED allButRun

-----------------------------------------------------------------------------
Host ==
  \/ \E t \in Task : End(t)
  \/ \E t \in Task : RequestPromotion(t)
  \/ \E t \in Task : Join(t)
  \/ \E t \in Task : JoinDeliver(t)

Tools ==
  \/ \E t \in Task, mode \in {"foreground", "awaited", "background"} :
       Create(t, mode)
  \/ Overrun
  \/ Inline
  \/ Promote
  \/ InlineConsume
  \/ InlineReturn
  \/ \E S \in SUBSET Task, all \in BOOLEAN : Wait(S, all)
  \/ WaitOver
  \/ Collect

Loop ==
  \/ StartStep
  \/ Answer
  \/ CheckAwaited
  \/ WaitUntilAvailable
  \/ Command
  \/ Revive
  \/ Cancel

Failure ==
  \/ \E torn \in SUBSET Task : Crash(torn)
  \/ Restart
  \/ \E t \in Task : FailOrphan(t)
  \/ Resume

Next == Host \/ Tools \/ Loop \/ Failure

Spec == Init /\ [][Next]_vars

(* Runners end sometime, by themselves or through the watchdog.            *)
FairSpec == Spec /\ \A t \in Task : WF_vars(End(t))

-----------------------------------------------------------------------------
(* Properties *)

(* A report of a task's end is told once: what the run was told and what   *)
(* it will be told never exceeds one, plus what joins of the ended task    *)
(* asked for.  Tool results, injected notifications, crashes and the       *)
(* restart all count.                                                      *)
ToldOnce ==
  \A t \in Task : context[t] + inbox[t] + joining[t] <= 1 + again[t]

(* No report gets lost between its holders: the end of a task is in the    *)
(* run's context, in the outbox, in the hands of a tool call, waiting for  *)
(* a retry, or destroyed by a crash.  The exception is a run cancelled in  *)
(* the middle of a task tool: the body of the call takes the notification  *)
(* out of the outbox all the same, and its result reaches nobody.          *)
ReportKept ==
  \A t \in Task : Ended(t) =>
    \/ context[t] + inbox[t] > 0
    \/ run.pc = "return" /\ t \in run.tasks
    \/ t \in retry \union lost
    \/ run.aborted /\ t \in unheard

(* A run with revivals left does not finish before it was told the end of  *)
(* every awaited task, except of those whose delivery failed or was lost.  *)
AnswersAwaited ==
  [][(run.pc = "answer" /\ run'.pc = "done" /\ run.revivals < MaxRevivals)
      => \A t \in Task : record[t].awaited =>
           Ended(t) /\ (context[t] > 0 \/ t \in retry \union lost)]_vars

(* A run that waits for its tasks is woken in the end, before and after a  *)
(* crash, unless the delivery of a notification failed.                    *)
WaitEnds == (run.pc = "waiting" /\ retry = {})
              ~> (run.pc # "waiting" \/ retry # {})

=============================================================================
