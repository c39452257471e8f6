------------------------------ MODULE TaskProofs ------------------------------
(***************************************************************************)
(* The safety of background tasks: of their reports (TaskRevival) and of   *)
(* their output (TaskOutput), for any tasks, readers and bounds.           *)
(*                                                                         *)
(* That a report is told once (ToldOnce) is not inductive: a tool call     *)
(* that is about to return adds a report, so one must know that the run    *)
(* was told nothing yet of the tasks of the call, that they have ended,    *)
(* that their notifications are consumed, and that what joins deliver is   *)
(* accounted for.  The parts of IInv say these things.                     *)
(*                                                                         *)
(* A chunk of output reaches a reader from the buffer, by its queue or     *)
(* while it waits.  From the queue it may come a second time, and the      *)
(* iterator goes back behind it; nothing is skipped because what is queued *)
(* is in the buffer (Queues) and what lies behind the index was received   *)
(* (BehindIndex).                                                          *)
(***************************************************************************)
EXTENDS TaskRevival, TaskOutput, TLAPS

-----------------------------------------------------------------------------
(* The reports of tasks *)

(* Nothing is told of a task that has not ended.                           *)
NothingEarly ==
  \A t \in Task : ~ Ended(t) =>
    context[t] = 0 /\ inbox[t] = 0 /\ joining[t] = 0

(* The checkpoint is behind the context.                                   *)
SavedBehind == \A t \in Task : saved.context[t] <= context[t]

(* What joins deliver was asked for.                                       *)
JoinsAsked == \A t \in Task : joining[t] <= again[t] /\ again[t] <= MaxJoins

(* A task tool holds tasks of whose end the run was told nothing.          *)
ToolsUntold == \A t \in run.tasks : context[t] = 0

(* A result is taken from tasks that have ended.                           *)
ToolsEnded ==
  run.pc \in {"inline", "collect", "return"} =>
    \A t \in run.tasks : Ended(t)

(* task_create holds one task.                                             *)
OneForeground ==
  run.pc \in {"foreground", "promote", "inline", "return"} =>
    \A t, u \in run.tasks : t = u

(* After the consumption only a join brings another report.                *)
Consumes ==
  run.pc = "return" =>
    \A t \in run.tasks : inbox[t] + joining[t] <= again[t]

(* A run that waits has the budget for the turn after the wait; of a run   *)
(* that was cancelled only a tool call goes on.                            *)
RunFits ==
  /\ run.pc \in {"register", "waiting", "woken"} => run.revivals < MaxRevivals
  /\ run.aborted => run.pc \in ToolPoints \union {"cancelled"}

(* Only tasks that exist are awaited and held by a task tool.              *)
TasksExist ==
  /\ \A t \in Task : record[t].awaited => Started(t)
  /\ \A t \in run.tasks : Started(t)

IInv ==
  /\ TypeOK
  /\ NothingEarly
  /\ SavedBehind
  /\ JoinsAsked
  /\ ToolsUntold
  /\ ToolsEnded
  /\ OneForeground
  /\ Consumes
  /\ RunFits
  /\ TasksExist
  /\ ToldOnce
  /\ ReportKept

-----------------------------------------------------------------------------
(* How the run moves: between its own steps it holds no task, in a tool    *)
(* call it holds those the call is about.                                  *)
RunType == [pc: Points, tasks: SUBSET Task, all: BOOLEAN, aborted: BOOLEAN,
            revivals: 0..MaxRevivals]

LEMMA GoesTyped ==
  ASSUME TypeOK, NEW pc \in Points \ ToolPoints, Goes(pc)
  PROVE  /\ run' \in RunType
         /\ run'.pc = pc /\ run'.tasks = {}
         /\ run'.revivals = run.revivals /\ run'.all = run.all
         /\ run'.aborted = run.aborted
BY DEF TypeOK, Goes, RunType

LEMMA TakesTyped ==
  ASSUME TypeOK, NEW pc \in ToolPoints, NEW S \in SUBSET Task, Takes(pc, S)
  PROVE  /\ run' \in RunType
         /\ run'.pc = pc /\ run'.tasks = S
         /\ run'.revivals = run.revivals /\ run'.all = run.all
         /\ run'.aborted = run.aborted
BY DEF TypeOK, Takes, RunType, ToolPoints, Points

(* Where the run is after a tool call, and what it was told by the call.   *)
After == IF run.aborted THEN "cancelled" ELSE "step"

LEMMA AfterTyped ==
  /\ After \in Points \ ToolPoints
  /\ run.aborted => After = "cancelled"
  /\ After \notin {"register", "waiting", "woken"}
BY DEF After, Points, ToolPoints

LEMMA ToldTyped ==
  ASSUME TypeOK, NEW S \in SUBSET Task, Told(S)
  PROVE  /\ context' \in [Task -> Nat] /\ unheard' \subseteq Task
         /\ \A t \in Task \ S : context'[t] = context[t]
         /\ \A t \in S :
              \/ context'[t] = context[t] + 1
              \/ context'[t] = context[t] /\ run.aborted /\ t \in unheard'
         /\ unheard \subseteq unheard'
<1>1. CASE run.aborted
  BY <1>1 DEF TypeOK, Told
<1>2. CASE ~ run.aborted
  BY <1>2 DEF TypeOK, Told
<1>3. QED BY <1>1, <1>2

(* A delivery adds one notification and may wake the run.                  *)
LEMMA DeliveredTyped ==
  ASSUME TypeOK, NEW t \in Task, NEW rec, Delivered(t, rec)
  PROVE  /\ inbox' \in [Task -> Nat]
         /\ inbox'[t] = inbox[t] + 1
         /\ \A u \in Task : u # t => inbox'[u] = inbox[u]
         /\ \/ run' = run
            \/ run.pc = "waiting" /\ Goes("woken")
BY DEF TypeOK, Delivered

(* The consumption of a task's end leaves nothing of it to be delivered.   *)
LEMMA ConsumedTyped ==
  ASSUME TypeOK, NEW t \in Task, Consumed(t)
  PROVE  /\ inbox' \in [Task -> Nat]
         /\ inbox'[t] = 0
         /\ \A u \in Task : u # t => inbox'[u] = inbox[u]
         /\ retry' = retry \ {t}
BY DEF TypeOK, Consumed

(* A running task was told of nowhere: its end is the first report.        *)
LEMMA EndTaskKeeps ==
  ASSUME IInv, NEW t \in Task, record[t].status = "running", EndTask(t)
  PROVE  IInv'
<1>1. /\ record' \in [Task -> [status: Statuses, awaited: BOOLEAN]]
      /\ record'[t].status = "ended" /\ record'[t].awaited = record[t].awaited
      /\ \A u \in Task : u # t => record'[u] = record[u]
  BY DEF IInv, TypeOK, EndTask, Statuses
<1>2. /\ run' \in RunType
      /\ \/ run' = run
         \/ /\ run.pc = "waiting"
            /\ run'.pc = "woken"
            /\ run'.tasks = {}
            /\ run'.revivals = run.revivals
            /\ run'.aborted = run.aborted
  BY DeliveredTyped, GoesTyped
     DEF IInv, TypeOK, EndTask, RunType, Points, ToolPoints
<1>3. /\ inbox' \in [Task -> Nat]
      /\ \A u \in Task : u # t => inbox'[u] = inbox[u]
      /\ \/ inbox'[t] = inbox[t] + 1 /\ retry' = retry
         \/ inbox'[t] = inbox[t] /\ retry' = retry \union {t}
  BY DeliveredTyped DEF IInv, TypeOK, EndTask
<1>4. live' = live \ {t} /\ UNCHANGED <<joining, memory>>
  BY DEF EndTask
<1>5. TypeOK'
  BY <1>1, <1>2, <1>3, <1>4, RevivalAssumption
     DEF IInv, TypeOK, RunType, Statuses, ToolPoints, memory
<1>6. NothingEarly'
  BY <1>1, <1>3, <1>4 DEF IInv, NothingEarly, Ended, memory
<1>7. SavedBehind'
  BY <1>4 DEF IInv, SavedBehind, memory
<1>8. JoinsAsked'
  BY <1>4 DEF IInv, JoinsAsked, memory
<1>9. ToolsUntold'
  BY <1>2, <1>4 DEF IInv, ToolsUntold, memory
<1>10. ToolsEnded'
  BY <1>1, <1>2 DEF IInv, ToolsEnded, TypeOK, Ended, Started, memory
<1>11. OneForeground'
  BY <1>2 DEF IInv, OneForeground
<1>12. Consumes'
  BY <1>2, <1>3, <1>4
     DEF IInv, Consumes, TypeOK, ToolsUntold, JoinsAsked, ToolsEnded, Ended,
       memory
<1>13. RunFits'
  BY <1>2 DEF IInv, RunFits, ToolPoints
<1>14. TasksExist'
  BY SMTT(30), <1>1, <1>2, <1>3, <1>4, RevivalAssumption
     DEF IInv, TasksExist, TypeOK, Ended, Started, memory, store
<1>15. ToldOnce'
  <2> SUFFICES ASSUME NEW u \in Task
             PROVE  context'[u] + inbox'[u] + joining'[u] <= 1 + again'[u]
    BY DEF ToldOnce
  <2>2. /\ context[u] \in Nat /\ inbox[u] \in Nat
        /\ joining[u] \in Nat /\ again[u] \in Nat
        /\ context[u] + inbox[u] + joining[u] <= 1 + again[u]
    BY DEF IInv, TypeOK, ToldOnce
  <2>3. CASE u = t
    BY <1>3, <1>4, <2>2, <2>3 DEF IInv, NothingEarly, Ended, memory
  <2>4. CASE ~ (u = t)
    BY <1>3, <1>4, <2>2, <2>4 DEF memory
  <2>5. QED BY <2>3, <2>4
<1>16. ReportKept'
  BY <1>1, <1>2, <1>3, <1>4 DEF IInv, ReportKept, TypeOK, Ended, memory
<1>17. QED
  BY <1>5, <1>6, <1>7, <1>8, <1>9, <1>10, <1>11, <1>12, <1>13, <1>14, <1>15,
       <1>16 DEF IInv

(* A promotion changes what is awaited, never what was told.               *)
LEMMA RequestPromotionKeeps ==
  ASSUME IInv, NEW t \in Task, RequestPromotion(t)
  PROVE  IInv'
<1>1. /\ record' \in [Task -> [status: Statuses, awaited: BOOLEAN]]
      /\ record'[t].status = record[t].status /\ record'[t].awaited
      /\ \A u \in Task : u # t => record'[u] = record[u]
  BY DEF IInv, TypeOK, RequestPromotion, Statuses
<1>2. /\ run' \in RunType
      /\ run'.revivals = run.revivals
      /\ run'.aborted = run.aborted
      /\ \/ run' = run
         \/ /\ run.pc = "foreground"
            /\ t \in run.tasks
            /\ run'.pc = "promote"
            /\ run'.tasks = {t}
  BY TakesTyped DEF IInv, TypeOK, RequestPromotion, RunType, ToolPoints
<1>3. /\ UNCHANGED <<live, inbox, retry, joining, memory>>
      /\ record[t].status = "running"
  BY DEF RequestPromotion
<1>4. TypeOK'
  <2>1. live' \subseteq {u \in Task : record'[u].status = "running"}
    BY <1>1, <1>3 DEF IInv, TypeOK
  <2>2. retry' \subseteq {u \in Task : record'[u].status = "ended"}
    BY <1>1, <1>3 DEF IInv, TypeOK
  <2>3. (run'.tasks # {}) <=> run'.pc \in ToolPoints
    BY <1>1, <1>2, <1>3 DEF IInv, TypeOK, ToolPoints
  <2>4. QED
    BY <1>1, <1>2, <1>3, <2>1, <2>2, <2>3, RevivalAssumption
       DEF IInv, TypeOK, RunType, memory, store
<1>5. NothingEarly'
  BY <1>1, <1>3 DEF IInv, NothingEarly, Ended, memory
<1>6. SavedBehind'
  BY <1>3 DEF IInv, SavedBehind, memory
<1>7. JoinsAsked'
  BY <1>3 DEF IInv, JoinsAsked, memory
<1>8. ToolsUntold'
  BY <1>2, <1>3 DEF IInv, ToolsUntold, memory
<1>9. ToolsEnded'
  BY <1>1, <1>2 DEF IInv, ToolsEnded, TypeOK, Ended
<1>10. OneForeground'
  BY <1>2 DEF IInv, OneForeground
<1>11. Consumes'
  BY <1>2, <1>3 DEF IInv, Consumes, memory
<1>12. RunFits'
  BY <1>2 DEF IInv, RunFits, ToolPoints
<1>13. TasksExist'
  <2>1. record[t].status # "none"
    BY <1>3
  <2>2. \A u \in Task : record[u].awaited => record[u].status # "none"
    BY DEF IInv, TasksExist, Started
  <2>3. \A u \in Task : record'[u].awaited => record'[u].status # "none"
    BY <1>1, <2>1, <2>2
  <2>4. \A u \in run'.tasks : u \in Task /\ record[u].status # "none"
    BY <1>2, <2>1 DEF IInv, TasksExist, Started, TypeOK
  <2>5. \A u \in run'.tasks : record'[u].status # "none"
    BY <1>1, <2>4
  <2>6. QED BY <2>3, <2>5 DEF TasksExist, Started
<1>14. ToldOnce'
  BY <1>3 DEF IInv, ToldOnce, memory
<1>15. ReportKept'
  BY <1>1, <1>2, <1>3 DEF IInv, ReportKept, Ended, memory
<1>16. QED
  BY <1>4, <1>5, <1>6, <1>7, <1>8, <1>9, <1>10, <1>11, <1>12, <1>13, <1>14,
       <1>15 DEF IInv

(* What a join will deliver was asked for.                                 *)
LEMMA JoinKeeps ==
  ASSUME IInv, NEW t \in Task, Join(t)
  PROVE  IInv'
<1>1. /\ record' \in [Task -> [status: Statuses, awaited: BOOLEAN]]
      /\ record'[t].status = record[t].status /\ record'[t].awaited
      /\ \A u \in Task : u # t => record'[u] = record[u]
  <2>1. record' = [record EXCEPT ![t].awaited = TRUE]
    BY DEF Join
  <2>2. record \in [Task -> [status: Statuses, awaited: BOOLEAN]]
    BY DEF IInv, TypeOK
  <2>3. record' = [record EXCEPT ![t] = [@ EXCEPT !.awaited = TRUE]]
    BY <2>1
  <2>4. record[t] \in [status: Statuses, awaited: BOOLEAN]
    BY <2>2
  <2>5. [record[t] EXCEPT !.awaited = TRUE]
          \in [status: Statuses, awaited: BOOLEAN]
    BY <2>4
  <2>6. QED
    BY <2>2, <2>3, <2>4, <2>5
<1>2. /\ joining' \in [Task -> 0..MaxJoins] /\ again' \in [Task -> Nat]
      /\ \A u \in Task :
           u # t =>
             joining'[u] = joining[u] /\ again'[u] = again[u]
      /\ \/ joining'[t] = joining[t] /\ again'[t] = again[t]
         \/ /\ Ended(t)
            /\ joining'[t] = joining[t] + 1
            /\ again'[t] = again[t] + 1
            /\ again[t] < MaxJoins
  <2>1. /\ joining[t] <= again[t]
        /\ again[t] < MaxJoins
        /\ joining[t] \in 0..MaxJoins
        /\ again[t] \in Nat
    BY DEF IInv, TypeOK, JoinsAsked, Join
  <2>2. CASE Ended(t) /\ inbox[t] = 0
    <3>1. /\ joining' = [joining EXCEPT ![t] = @ + 1]
          /\ again' = [again EXCEPT ![t] = @ + 1]
      BY <2>2 DEF Join
    <3>2. joining[t] + 1 \in 0..MaxJoins /\ again[t] + 1 \in Nat
      BY <2>1, RevivalAssumption
    <3>3. QED BY <2>1, <2>2, <3>1, <3>2 DEF IInv, TypeOK
  <2>3. CASE ~ (Ended(t) /\ inbox[t] = 0)
    BY <2>3 DEF IInv, TypeOK, Join
  <2>4. QED BY <2>2, <2>3
<1>3. /\ UNCHANGED <<live, inbox, retry, run, context, saved, unheard, lost, crashes>>
      /\ Started(t)
  BY DEF Join
<1>4. TypeOK'
  <2>1. live' \subseteq {u \in Task : record'[u].status = "running"}
    BY <1>1, <1>3 DEF IInv, TypeOK
  <2>2. retry' \subseteq {u \in Task : record'[u].status = "ended"}
    BY <1>1, <1>3 DEF IInv, TypeOK
  <2>3. (run'.tasks # {}) <=> run'.pc \in ToolPoints
    BY <1>3 DEF IInv, TypeOK
  <2>4. QED
    BY <1>1, <1>2, <1>3, <2>1, <2>2, <2>3, RevivalAssumption
       DEF IInv, TypeOK, RunType, memory, store
<1>5. NothingEarly'
  BY <1>1, <1>2, <1>3 DEF IInv, NothingEarly, Ended
<1>6. SavedBehind'
  BY <1>3 DEF IInv, SavedBehind
<1>7. JoinsAsked'
  BY <1>2, RevivalAssumption DEF IInv, JoinsAsked, TypeOK
<1>8. ToolsUntold'
  BY <1>3 DEF IInv, ToolsUntold
<1>9. ToolsEnded'
  BY <1>1, <1>3
     DEF IInv, ToolsEnded, TypeOK, RunType, Ended, Started, memory, store
<1>10. OneForeground'
  BY <1>3 DEF IInv, OneForeground
<1>11. Consumes'
  BY <1>2, <1>3 DEF IInv, Consumes, TypeOK
<1>12. RunFits'
  BY <1>3 DEF IInv, RunFits
<1>13. TasksExist'
  <2>1. \A u \in Task : Started(u)' <=> Started(u)
    BY <1>1 DEF Started
  <2>2. QED BY <1>1, <1>3, <2>1 DEF IInv, TypeOK, TasksExist
<1>14. ToldOnce'
  <2> SUFFICES ASSUME NEW u \in Task
             PROVE  context'[u] + inbox'[u] + joining'[u] <= 1 + again'[u]
    BY DEF ToldOnce
  <2>2. /\ context[u] \in Nat /\ inbox[u] \in Nat
        /\ joining[u] \in Nat /\ again[u] \in Nat
        /\ context[u] + inbox[u] + joining[u] <= 1 + again[u]
    BY DEF IInv, TypeOK, ToldOnce
  <2>3. CASE u = t
    BY <1>2, <1>3, <2>2
  <2>4. CASE ~ (u = t)
    BY <1>2, <1>3, <2>2
  <2>5. QED BY <2>3, <2>4
<1>15. ReportKept'
  BY <1>1, <1>3 DEF IInv, ReportKept, Ended
<1>16. QED
  BY <1>4, <1>5, <1>6, <1>7, <1>8, <1>9, <1>10, <1>11, <1>12, <1>13, <1>14,
       <1>15 DEF IInv

(* A join delivers what it announced.                                      *)
LEMMA JoinDeliverKeeps ==
  ASSUME IInv, NEW t \in Task, JoinDeliver(t)
  PROVE  IInv'
<1>1. /\ run' \in RunType
      /\ \/ run' = run
         \/ /\ run.pc = "waiting"
            /\ run'.pc = "woken"
            /\ run'.tasks = {}
            /\ run'.revivals = run.revivals
            /\ run'.aborted = run.aborted
  BY DeliveredTyped, GoesTyped
     DEF IInv, TypeOK, JoinDeliver, RunType, Points, ToolPoints
<1>2. /\ inbox' \in [Task -> Nat]
      /\ \A u \in Task : u # t => inbox'[u] = inbox[u]
      /\ inbox'[t] = inbox[t] + 1
  BY DeliveredTyped DEF IInv, JoinDeliver
<1>3. /\ joining[t] > 0 /\ joining' \in [Task -> 0..MaxJoins]
      /\ \A u \in Task : u # t => joining'[u] = joining[u]
      /\ joining'[t] = joining[t] - 1
  BY RevivalAssumption DEF IInv, TypeOK, JoinDeliver
<1>4. UNCHANGED <<store, retry, memory>>
  BY DEF JoinDeliver
<1>5. TypeOK'
  BY <1>1, <1>2, <1>3, <1>4
     DEF IInv, TypeOK, RunType, ToolPoints, memory, store
<1>6. NothingEarly'
  BY <1>2, <1>3, <1>4 DEF IInv, NothingEarly, Ended, memory, store
<1>7. SavedBehind'
  BY <1>4 DEF IInv, SavedBehind, memory
<1>8. JoinsAsked'
  BY <1>3, <1>4 DEF IInv, JoinsAsked, TypeOK, memory
<1>9. ToolsUntold'
  BY <1>1, <1>4 DEF IInv, ToolsUntold, memory
<1>10. ToolsEnded'
  BY <1>1, <1>4 DEF IInv, ToolsEnded, Ended, store
<1>11. OneForeground'
  BY <1>1 DEF IInv, OneForeground
<1>12. Consumes'
  BY <1>1, <1>2, <1>3, <1>4 DEF IInv, Consumes, TypeOK, OneForeground, memory
<1>13. RunFits'
  BY <1>1 DEF IInv, RunFits, ToolPoints
<1>14. TasksExist'
  BY <1>1, <1>4 DEF IInv, TasksExist, Started, store
<1>15. ToldOnce'
  BY <1>2, <1>3, <1>4 DEF IInv, ToldOnce, TypeOK, memory
<1>16. ReportKept'
  BY <1>1, <1>2, <1>4 DEF IInv, ReportKept, TypeOK, Ended, memory, store
<1>17. QED
  BY <1>5, <1>6, <1>7, <1>8, <1>9, <1>10, <1>11, <1>12, <1>13, <1>14, <1>15,
       <1>16 DEF IInv

(* The drained notifications move into the context.                        *)
LEMMA StartStepKeeps ==
  ASSUME IInv, StartStep
  PROVE  IInv'
<1>1. /\ run' \in RunType
      /\ run.pc = "step"
      /\ run'.pc = "turn"
      /\ run'.tasks = {}
      /\ run'.revivals = run.revivals
      /\ run'.aborted = run.aborted
  BY GoesTyped DEF IInv, StartStep, Points, ToolPoints
<1>2. /\ saved' \in [context: [Task -> Nat], revivals: 0..MaxRevivals]
      /\ \A t \in Task : saved'.context[t] \in {saved.context[t], context[t]}
  BY DEF IInv, TypeOK, StartStep
<1>3. /\ context' \in [Task -> Nat] /\ inbox' \in [Task -> Nat]
      /\ \A t \in Task : context'[t] = context[t] + inbox[t] /\ inbox'[t] = 0
  BY DEF IInv, TypeOK, StartStep, Injected
<1>4. UNCHANGED <<store, retry, joining, again, unheard, lost, crashes>>
  BY DEF StartStep
<1>5. TypeOK'
  BY <1>1, <1>2, <1>3, <1>4 DEF IInv, TypeOK, RunType, ToolPoints, store
<1>6. NothingEarly'
  BY <1>3, <1>4 DEF IInv, NothingEarly, Ended, store
<1>7. SavedBehind'
  BY <1>2, <1>3 DEF IInv, SavedBehind, TypeOK
<1>8. JoinsAsked'
  BY <1>4 DEF IInv, JoinsAsked
<1>9. ToolsUntold'
  BY <1>1 DEF ToolsUntold
<1>10. ToolsEnded'
  BY <1>1 DEF ToolsEnded
<1>11. OneForeground'
  BY <1>1 DEF OneForeground
<1>12. Consumes'
  BY <1>1 DEF Consumes
<1>13. RunFits'
  BY <1>1 DEF IInv, RunFits, ToolPoints
<1>14. TasksExist'
  BY <1>1, <1>4 DEF IInv, TasksExist, Started, store
<1>15. ToldOnce'
  BY <1>3, <1>4 DEF IInv, ToldOnce
<1>16. ReportKept'
  BY <1>1, <1>3, <1>4 DEF IInv, ReportKept, Ended, store
<1>17. QED
  BY <1>5, <1>6, <1>7, <1>8, <1>9, <1>10, <1>11, <1>12, <1>13, <1>14, <1>15,
       <1>16 DEF IInv

(* A new task was told of nowhere.                                         *)
LEMMA CreateKeeps ==
  ASSUME IInv, NEW t \in Task, NEW mode \in {"foreground", "awaited",
         "background"}, Create(t, mode)
  PROVE  IInv'
<1>1. /\ record' \in [Task -> [status: Statuses, awaited: BOOLEAN]]
      /\ record[t].status = "none" /\ record'[t].status = "running"
      /\ \A u \in Task : u # t => record'[u] = record[u]
  BY DEF IInv, TypeOK, Create, Statuses, Started
<1>2. /\ run' \in RunType
      /\ run.pc = "turn" /\ run'.revivals = run.revivals
      /\ run'.aborted = run.aborted
      /\ \/ run'.pc = "step" /\ run'.tasks = {}
         \/ run'.pc = "foreground" /\ run'.tasks = {t}
  BY TakesTyped, GoesTyped DEF IInv, Create, Points, ToolPoints
<1>3. live' = live \union {t} /\ UNCHANGED <<inbox, retry, joining, memory>>
  BY DEF Create
<1>4. TypeOK'
  <2>1. live' \subseteq {u \in Task : record'[u].status = "running"}
    BY <1>1, <1>3 DEF IInv, TypeOK
  <2>2. retry' \subseteq {u \in Task : record'[u].status = "ended"}
    BY <1>1, <1>3 DEF IInv, TypeOK
  <2>3. (run'.tasks # {}) <=> run'.pc \in ToolPoints
    BY <1>2 DEF ToolPoints
  <2>4. QED
    BY <1>1, <1>2, <1>3, <2>1, <2>2, <2>3, RevivalAssumption
       DEF IInv, TypeOK, RunType, memory, store
<1>5. NothingEarly'
  BY <1>1, <1>3 DEF IInv, NothingEarly, Ended, memory
<1>6. SavedBehind'
  BY <1>3 DEF IInv, SavedBehind, memory
<1>7. JoinsAsked'
  BY <1>3 DEF IInv, JoinsAsked, memory
<1>8. ToolsUntold'
  BY <1>1, <1>2, <1>3 DEF IInv, ToolsUntold, NothingEarly, Ended, memory
<1>9. ToolsEnded'
  BY <1>2 DEF ToolsEnded
<1>10. OneForeground'
  BY <1>2 DEF OneForeground
<1>11. Consumes'
  BY <1>2 DEF Consumes
<1>12. RunFits'
  BY <1>2 DEF IInv, RunFits, ToolPoints
<1>13. TasksExist'
  BY <1>1, <1>2 DEF IInv, TasksExist, Started
<1>14. ToldOnce'
  BY <1>3 DEF IInv, ToldOnce, memory
<1>15. ReportKept'
  BY <1>1, <1>2, <1>3 DEF IInv, ReportKept, Ended, memory
<1>16. QED
  BY <1>4, <1>5, <1>6, <1>7, <1>8, <1>9, <1>10, <1>11, <1>12, <1>13, <1>14,
       <1>15 DEF IInv

(* The foreground call keeps its task when it times out.                   *)
LEMMA OverrunKeeps ==
  ASSUME IInv, Overrun
  PROVE  IInv'
<1>1. /\ run' \in RunType
      /\ run.pc = "foreground"
      /\ run'.pc = "promote"
      /\ run'.tasks = run.tasks
      /\ run'.revivals = run.revivals
      /\ run'.aborted = run.aborted
  BY TakesTyped DEF IInv, TypeOK, Overrun, ToolPoints
<1>2. UNCHANGED allButRun
  BY DEF Overrun
<1>3. TypeOK'
  BY <1>1, <1>2
     DEF IInv, TypeOK, RunType, ToolPoints, memory, store, allButRun
<1>4. NothingEarly'
  BY <1>2 DEF IInv, NothingEarly, Ended, memory, store, allButRun
<1>5. SavedBehind'
  BY <1>2 DEF IInv, SavedBehind, memory, allButRun
<1>6. JoinsAsked'
  BY <1>2 DEF IInv, JoinsAsked, memory, allButRun
<1>7. ToolsUntold'
  BY <1>1, <1>2 DEF IInv, ToolsUntold, memory, allButRun
<1>8. ToolsEnded'
  BY <1>1 DEF ToolsEnded
<1>9. OneForeground'
  BY <1>1 DEF IInv, OneForeground
<1>10. Consumes'
  BY <1>1 DEF Consumes
<1>11. RunFits'
  BY <1>1 DEF IInv, RunFits, ToolPoints
<1>12. TasksExist'
  BY <1>1, <1>2 DEF IInv, TasksExist, Started, store, allButRun
<1>13. ToldOnce'
  BY <1>2 DEF IInv, ToldOnce, memory, allButRun
<1>14. ReportKept'
  BY <1>1, <1>2 DEF IInv, ReportKept, Ended, memory, store, allButRun
<1>15. QED
  BY <1>3, <1>4, <1>5, <1>6, <1>7, <1>8, <1>9, <1>10, <1>11, <1>12, <1>13,
       <1>14 DEF IInv

(* The foreground call keeps its task when the task ends.                  *)
LEMMA InlineKeeps ==
  ASSUME IInv, Inline
  PROVE  IInv'
<1>1. /\ run' \in RunType
      /\ run.pc = "foreground"
      /\ run'.pc = "inline"
      /\ run'.tasks = run.tasks
      /\ run'.revivals = run.revivals
      /\ run'.aborted = run.aborted
  BY TakesTyped DEF IInv, TypeOK, Inline, ToolPoints
<1>2. UNCHANGED allButRun /\ \A t \in run.tasks : Ended(t)
  BY DEF Inline
<1>3. TypeOK'
  BY <1>1, <1>2
     DEF IInv, TypeOK, RunType, ToolPoints, memory, store, allButRun
<1>4. NothingEarly'
  BY <1>2 DEF IInv, NothingEarly, Ended, memory, store, allButRun
<1>5. SavedBehind'
  BY <1>2 DEF IInv, SavedBehind, memory, allButRun
<1>6. JoinsAsked'
  BY <1>2 DEF IInv, JoinsAsked, memory, allButRun
<1>7. ToolsUntold'
  BY <1>1, <1>2 DEF IInv, ToolsUntold, memory, allButRun
<1>8. ToolsEnded'
  BY <1>1, <1>2 DEF ToolsEnded, Ended, store, allButRun
<1>9. OneForeground'
  BY <1>1 DEF IInv, OneForeground
<1>10. Consumes'
  BY <1>1 DEF Consumes
<1>11. RunFits'
  BY <1>1 DEF IInv, RunFits, ToolPoints
<1>12. TasksExist'
  BY <1>1, <1>2 DEF IInv, TasksExist, Started, store, allButRun
<1>13. ToldOnce'
  BY <1>2 DEF IInv, ToldOnce, memory, allButRun
<1>14. ReportKept'
  BY <1>1, <1>2 DEF IInv, ReportKept, Ended, memory, store, allButRun
<1>15. QED
  BY <1>3, <1>4, <1>5, <1>6, <1>7, <1>8, <1>9, <1>10, <1>11, <1>12, <1>13,
       <1>14 DEF IInv

(* The ticket ends the call, and the task is awaited.                      *)
LEMMA PromoteKeeps ==
  ASSUME IInv, Promote
  PROVE  IInv'
<1>1. /\ record' \in [Task -> [status: Statuses, awaited: BOOLEAN]]
      /\ \A t \in Task : record'[t].status = record[t].status
      /\ \A t \in Task \ run.tasks : record'[t] = record[t]
  BY ZenonT(60) DEF IInv, TypeOK, Promote, Statuses
<1>2. /\ run' \in RunType
      /\ run.pc = "promote"
      /\ run'.pc = After
      /\ run'.tasks = {}
      /\ run'.revivals = run.revivals
      /\ run'.aborted = run.aborted
  BY GoesTyped, AfterTyped DEF IInv, Promote, CallReturns, After, Points, ToolPoints
<1>3. UNCHANGED <<live, inbox, retry, joining, memory>>
  BY DEF Promote
<1>4. TypeOK'
  BY <1>1, <1>2, <1>3, AfterTyped DEF IInv, TypeOK, RunType, memory
<1>5. NothingEarly'
  BY <1>1, <1>3 DEF IInv, NothingEarly, Ended, memory
<1>6. SavedBehind'
  BY <1>3 DEF IInv, SavedBehind, memory
<1>7. JoinsAsked'
  BY <1>3 DEF IInv, JoinsAsked, memory
<1>8. ToolsUntold'
  BY <1>2 DEF ToolsUntold
<1>9. ToolsEnded'
  BY <1>2, AfterTyped DEF ToolsEnded
<1>10. OneForeground'
  BY <1>2, AfterTyped DEF OneForeground
<1>11. Consumes'
  BY <1>2, AfterTyped DEF Consumes
<1>12. RunFits'
  BY <1>2, AfterTyped DEF RunFits
<1>13. TasksExist'
  BY <1>1, <1>2 DEF IInv, TasksExist, Started
<1>14. ToldOnce'
  BY <1>3 DEF IInv, ToldOnce, memory
<1>15. ReportKept'
  BY <1>1, <1>2, <1>3 DEF IInv, ReportKept, Ended, memory
<1>16. QED
  BY <1>4, <1>5, <1>6, <1>7, <1>8, <1>9, <1>10, <1>11, <1>12, <1>13, <1>14,
       <1>15 DEF IInv

(* Before an inline result the notification is consumed.                   *)
LEMMA InlineConsumeKeeps ==
  ASSUME IInv, InlineConsume
  PROVE  IInv'
<1>1. PICK t \in run.tasks : Consumed(t)
  BY DEF InlineConsume
<1>2. /\ inbox' \in [Task -> Nat]
      /\ inbox'[t] = 0 /\ retry' = retry \ {t}
      /\ \A u \in Task : u # t => inbox'[u] = inbox[u]
  BY <1>1, ConsumedTyped DEF IInv, TypeOK
<1>3. /\ run' \in RunType
      /\ run.pc = "inline"
      /\ run'.pc = "return"
      /\ run'.tasks = run.tasks
      /\ run'.revivals = run.revivals
      /\ run'.aborted = run.aborted
  BY TakesTyped DEF IInv, TypeOK, InlineConsume, ToolPoints
<1>4. UNCHANGED <<store, joining, memory>>
  BY DEF InlineConsume
<1>5. TypeOK'
  BY <1>2, <1>3, <1>4 DEF IInv, TypeOK, RunType, ToolPoints, memory, store
<1>6. NothingEarly'
  BY <1>2, <1>4 DEF IInv, NothingEarly, Ended, memory, store
<1>7. SavedBehind'
  BY <1>4 DEF IInv, SavedBehind, memory
<1>8. JoinsAsked'
  BY <1>4 DEF IInv, JoinsAsked, memory
<1>9. ToolsUntold'
  BY <1>3, <1>4 DEF IInv, ToolsUntold, memory
<1>10. ToolsEnded'
  BY <1>3, <1>4 DEF IInv, ToolsEnded, Ended, store
<1>11. OneForeground'
  BY <1>3 DEF IInv, OneForeground
<1>12. Consumes'
  BY <1>2, <1>3, <1>4
     DEF IInv, Consumes, TypeOK, JoinsAsked, OneForeground, memory
<1>13. RunFits'
  BY <1>3 DEF IInv, RunFits, ToolPoints
<1>14. TasksExist'
  BY <1>3, <1>4 DEF IInv, TasksExist, Started, store
<1>15. ToldOnce'
  <2> SUFFICES ASSUME NEW u \in Task
             PROVE  context'[u] + inbox'[u] + joining'[u] <= 1 + again'[u]
    BY DEF ToldOnce
  <2>2. /\ context[u] \in Nat /\ inbox[u] \in Nat
        /\ joining[u] \in Nat /\ again[u] \in Nat
        /\ context[u] + inbox[u] + joining[u] <= 1 + again[u]
    BY DEF IInv, TypeOK, ToldOnce
  <2>3. CASE u = t
    BY <1>2, <1>4, <2>2 DEF memory
  <2>4. CASE ~ (u = t)
    BY <1>2, <1>4, <2>2 DEF memory
  <2>5. QED BY <2>3, <2>4
<1>16. ReportKept'
  BY <1>2, <1>3, <1>4 DEF IInv, ReportKept, Ended, memory, store
<1>17. QED
  BY <1>5, <1>6, <1>7, <1>8, <1>9, <1>10, <1>11, <1>12, <1>13, <1>14, <1>15,
       <1>16 DEF IInv

(* The inline result takes the place of the notification.                  *)
LEMMA InlineReturnKeeps ==
  ASSUME IInv, InlineReturn
  PROVE  IInv'
<1>1. /\ record' \in [Task -> [status: Statuses, awaited: BOOLEAN]]
      /\ \A t \in Task : /\ record'[t].status = record[t].status
                         /\ record'[t].awaited => record[t].awaited
  BY ZenonT(60) DEF IInv, TypeOK, InlineReturn, Statuses
<1>2. /\ run' \in RunType
      /\ run.pc = "return"
      /\ run'.pc = After
      /\ run'.tasks = {}
      /\ run'.revivals = run.revivals
      /\ run'.aborted = run.aborted
  BY GoesTyped, AfterTyped DEF IInv, InlineReturn, CallReturns, After, Points, ToolPoints
<1>3. /\ context' \in [Task -> Nat] /\ unheard' \subseteq Task
      /\ \A t \in Task \ run.tasks : context'[t] = context[t]
      /\ \A t \in run.tasks :
           \/ context'[t] = context[t] + 1
           \/ context'[t] = context[t] /\ run.aborted /\ t \in unheard'
      /\ unheard \subseteq unheard'
  BY ToldTyped DEF IInv, TypeOK, InlineReturn
<1>4. UNCHANGED <<live, inbox, retry, joining, saved, again, lost, crashes>>
  BY DEF InlineReturn
<1>5. TypeOK'
  BY <1>1, <1>2, <1>3, <1>4, AfterTyped DEF IInv, TypeOK, RunType
<1>6. NothingEarly'
  BY <1>1, <1>2, <1>3, <1>4 DEF IInv, NothingEarly, ToolsEnded, Ended
<1>7. SavedBehind'
  BY <1>3, <1>4 DEF IInv, SavedBehind, TypeOK
<1>8. JoinsAsked'
  BY <1>4 DEF IInv, JoinsAsked
<1>9. ToolsUntold'
  BY <1>2 DEF ToolsUntold
<1>10. ToolsEnded'
  BY <1>2, AfterTyped DEF ToolsEnded
<1>11. OneForeground'
  BY <1>2, AfterTyped DEF OneForeground
<1>12. Consumes'
  BY <1>2, AfterTyped DEF Consumes
<1>13. RunFits'
  BY <1>2, AfterTyped DEF RunFits
<1>14. TasksExist'
  BY <1>1, <1>2 DEF IInv, TasksExist, Started
<1>15. ToldOnce'
  <2> SUFFICES ASSUME NEW u \in Task
             PROVE  context'[u] + inbox'[u] + joining'[u] <= 1 + again'[u]
    BY DEF ToldOnce
  <2>2. /\ context[u] \in Nat /\ inbox[u] \in Nat
        /\ joining[u] \in Nat /\ again[u] \in Nat
        /\ context[u] + inbox[u] + joining[u] <= 1 + again[u]
    BY DEF IInv, TypeOK, ToldOnce
  <2>3. CASE u \in run.tasks
    BY <1>2, <1>3, <1>4, <2>2 DEF IInv, ToolsUntold, Consumes
  <2>4. CASE ~ (u \in run.tasks)
    BY <1>3, <1>4, <2>2, <2>4
  <2>5. QED BY <2>3, <2>4
<1>16. ReportKept'
  BY <1>1, <1>2, <1>3, <1>4 DEF IInv, ReportKept, TypeOK, Ended
<1>17. QED
  BY <1>5, <1>6, <1>7, <1>8, <1>9, <1>10, <1>11, <1>12, <1>13, <1>14, <1>15,
       <1>16 DEF IInv

(* A wait holds tasks the run was not told of.                             *)
LEMMA WaitKeeps ==
  ASSUME IInv, NEW S \in SUBSET Task, NEW all \in BOOLEAN, Wait(S, all)
  PROVE  IInv'
<1>1. /\ run' \in RunType
      /\ run.pc = "turn"
      /\ run'.pc = "wait"
      /\ run'.tasks = S
      /\ run'.revivals = run.revivals
      /\ run'.aborted = run.aborted
  BY DEF IInv, TypeOK, RunType, Wait, Points, ToolPoints
<1>2. /\ UNCHANGED allButRun
      /\ S # {}
      /\ \A t \in S : context[t] = 0 /\ Started(t)
  BY DEF Wait
<1>3. TypeOK'
  BY <1>1, <1>2
     DEF IInv, TypeOK, RunType, ToolPoints, memory, store, allButRun
<1>4. NothingEarly'
  BY <1>2 DEF IInv, NothingEarly, Ended, memory, store, allButRun
<1>5. SavedBehind'
  BY <1>2 DEF IInv, SavedBehind, memory, allButRun
<1>6. JoinsAsked'
  BY <1>2 DEF IInv, JoinsAsked, memory, allButRun
<1>7. ToolsUntold'
  BY <1>1, <1>2 DEF ToolsUntold, memory, allButRun
<1>8. ToolsEnded'
  BY <1>1 DEF ToolsEnded
<1>9. OneForeground'
  BY <1>1 DEF OneForeground
<1>10. Consumes'
  BY <1>1 DEF Consumes
<1>11. RunFits'
  BY <1>1 DEF IInv, RunFits, ToolPoints
<1>12. TasksExist'
  BY <1>1, <1>2 DEF IInv, TasksExist, Started, store, allButRun
<1>13. ToldOnce'
  BY <1>2 DEF IInv, ToldOnce, memory, allButRun
<1>14. ReportKept'
  BY <1>1, <1>2 DEF IInv, ReportKept, Ended, memory, store, allButRun
<1>15. QED
  BY <1>3, <1>4, <1>5, <1>6, <1>7, <1>8, <1>9, <1>10, <1>11, <1>12, <1>13,
       <1>14 DEF IInv

(* A wait collects from tasks that have ended.                             *)
LEMMA WaitOverKeeps ==
  ASSUME IInv, WaitOver
  PROVE  IInv'
<1>1. PICK S \in SUBSET {t \in run.tasks : Ended(t)} :
             S # {} /\ Takes("collect", S)
  BY DEF WaitOver
<1>2. /\ run' \in RunType /\ run.pc = "wait"
      /\ run'.pc = "collect" /\ run'.tasks = S /\ run'.revivals = run.revivals
      /\ run'.aborted = run.aborted
  BY <1>1, TakesTyped DEF IInv, TypeOK, ToolPoints, WaitOver
<1>3. UNCHANGED allButRun
  BY DEF WaitOver
<1>4. TypeOK'
  BY <1>1, <1>2, <1>3
     DEF IInv, TypeOK, RunType, ToolPoints, memory, store, allButRun
<1>5. NothingEarly'
  BY <1>3 DEF IInv, NothingEarly, Ended, memory, store, allButRun
<1>6. SavedBehind'
  BY <1>3 DEF IInv, SavedBehind, memory, allButRun
<1>7. JoinsAsked'
  BY <1>3 DEF IInv, JoinsAsked, memory, allButRun
<1>8. ToolsUntold'
  BY <1>2, <1>3 DEF IInv, ToolsUntold, memory, allButRun
<1>9. ToolsEnded'
  BY <1>2, <1>3 DEF ToolsEnded, Ended, store, allButRun
<1>10. OneForeground'
  BY <1>2 DEF OneForeground
<1>11. Consumes'
  BY <1>2 DEF Consumes
<1>12. RunFits'
  BY <1>2 DEF IInv, RunFits, ToolPoints
<1>13. TasksExist'
  BY <1>2, <1>3 DEF IInv, TasksExist, Started, store, allButRun
<1>14. ToldOnce'
  BY <1>3 DEF IInv, ToldOnce, memory, allButRun
<1>15. ReportKept'
  BY <1>2, <1>3 DEF IInv, ReportKept, Ended, memory, store, allButRun
<1>16. QED
  BY <1>4, <1>5, <1>6, <1>7, <1>8, <1>9, <1>10, <1>11, <1>12, <1>13, <1>14,
       <1>15 DEF IInv

(* Each collected result takes the place of its notification.              *)
LEMMA CollectKeeps ==
  ASSUME IInv, Collect
  PROVE  IInv'
<1>1. PICK t \in run.tasks :
       /\ t \in Task
       /\ record' = [record EXCEPT ![t].awaited = FALSE]
       /\ Consumed(t)
       /\ Told({t})
       /\ IF run.tasks = {t} THEN CallReturns
                             ELSE Takes("collect", run.tasks \ {t})
  BY DEF IInv, TypeOK, Collect
<1>2. /\ record' \in [Task -> [status: Statuses, awaited: BOOLEAN]]
      /\ record'[t].status = record[t].status /\ ~ record'[t].awaited
      /\ \A u \in Task : u # t => record'[u] = record[u]
  <2>1. record[t] \in [status: Statuses, awaited: BOOLEAN]
    BY <1>1 DEF IInv, TypeOK
  <2>2. record' = [record EXCEPT ![t] = [record[t] EXCEPT !.awaited = FALSE]]
    BY <1>1
  <2>3. [record[t] EXCEPT !.awaited = FALSE]
          \in [status: Statuses, awaited: BOOLEAN]
    BY <2>1
  <2>4. QED BY <1>1, <2>1, <2>2, <2>3 DEF IInv, TypeOK
<1>3. /\ inbox' \in [Task -> Nat]
      /\ inbox'[t] = 0 /\ retry' = retry \ {t}
      /\ \A u \in Task : u # t => inbox'[u] = inbox[u]
  BY <1>1, ConsumedTyped DEF IInv
<1>4. /\ context' \in [Task -> Nat] /\ unheard' \subseteq Task
      /\ \A u \in Task : u # t => context'[u] = context[u]
      /\ \/ context'[t] = context[t] + 1
         \/ context'[t] = context[t] /\ run.aborted /\ t \in unheard'
      /\ unheard \subseteq unheard'
  BY <1>1, ToldTyped DEF IInv, TypeOK
<1>5. /\ run' \in RunType
      /\ run'.tasks = run.tasks \ {t} /\ run'.revivals = run.revivals
      /\ run'.aborted = run.aborted
      /\ run'.pc = IF run'.tasks = {} THEN After ELSE "collect"
  <2>1. CASE run.tasks = {t}
    <3>1. Goes(After)
      BY <1>1, <2>1 DEF CallReturns, After
    <3>2. QED BY <2>1, <3>1, AfterTyped, GoesTyped DEF IInv
  <2>2. CASE run.tasks # {t}
    <3>1. run.tasks \ {t} # {} /\ run.tasks \ {t} \in SUBSET Task
      BY <2>2 DEF IInv, TypeOK
    <3>2. Takes("collect", run.tasks \ {t})
      BY <1>1, <2>2
    <3>3. QED BY <3>1, <3>2, TakesTyped DEF IInv, ToolPoints
  <2>3. QED BY <2>1, <2>2
<1>6. /\ run.pc = "collect"
      /\ t \in Task
      /\ UNCHANGED <<live, joining, saved, again, lost, crashes>>
  BY DEF IInv, TypeOK, Collect
<1>7. TypeOK'
  BY <1>1, <1>2, <1>3, <1>4, <1>5, <1>6, AfterTyped
     DEF IInv, TypeOK, RunType, ToolPoints
<1>8. NothingEarly'
  BY <1>1, <1>2, <1>3, <1>4, <1>6 DEF IInv, NothingEarly, ToolsEnded, Ended
<1>9. SavedBehind'
  BY <1>4, <1>6 DEF IInv, SavedBehind, TypeOK
<1>10. JoinsAsked'
  BY <1>6 DEF IInv, JoinsAsked
<1>11. ToolsUntold'
  <2>1. run'.tasks \subseteq run.tasks /\ t \notin run'.tasks
    BY <1>5
  <2>2. run.tasks \subseteq Task
    BY DEF IInv, TypeOK
  <2>3. \A u \in run'.tasks : context'[u] = context[u] /\ context[u] = 0
    BY <1>4, <2>1, <2>2 DEF IInv, ToolsUntold
  <2>4. QED BY <2>3 DEF ToolsUntold
<1>12. ToolsEnded'
  BY <1>1, <1>2, <1>5, <1>6 DEF IInv, ToolsEnded, Ended
<1>13. OneForeground'
  BY <1>5, AfterTyped DEF OneForeground
<1>14. Consumes'
  BY <1>5, AfterTyped DEF Consumes
<1>15. RunFits'
  BY <1>5, AfterTyped DEF RunFits, ToolPoints
<1>16. TasksExist'
  BY <1>1, <1>2, <1>5 DEF IInv, TasksExist, Started
<1>17. ToldOnce'
  BY <1>3, <1>4, <1>6 DEF IInv, ToldOnce, TypeOK, ToolsUntold, JoinsAsked
<1>18. ReportKept'
  BY <1>1, <1>2, <1>3, <1>4, <1>5, <1>6 DEF IInv, ReportKept, TypeOK, Ended
<1>19. QED
  BY <1>7, <1>8, <1>9, <1>10, <1>11, <1>12, <1>13, <1>14, <1>15, <1>16, <1>17,
       <1>18 DEF IInv

(* Between its tool calls the run moves without touching reports.          *)
LEMMA LoopKeeps ==
  ASSUME IInv, Answer \/ CheckAwaited \/ WaitUntilAvailable \/ Command
           \/ Revive
  PROVE  IInv'
<1>1. UNCHANGED allButRun
  BY DEF Answer, CheckAwaited, WaitUntilAvailable, Command, Revive
<1>2. run.tasks = {} /\ ~ run.aborted
  BY DEF IInv, TypeOK, RunFits, Answer, CheckAwaited, WaitUntilAvailable,
       Command, Revive, ToolPoints
<1>3. /\ run' \in RunType
      /\ run'.tasks = {} /\ run'.pc \notin ToolPoints
      /\ run'.aborted = run.aborted
      /\ run'.pc \in {"register", "waiting", "woken"} =>
           run'.revivals < MaxRevivals
  <2>1. CASE Answer
    BY <2>1, GoesTyped DEF IInv, Answer, Points, ToolPoints
  <2>2. CASE CheckAwaited
    BY <2>2, GoesTyped DEF IInv, CheckAwaited, Points, ToolPoints
  <2>3. CASE WaitUntilAvailable
    BY <2>3, GoesTyped
       DEF IInv, RunFits, WaitUntilAvailable, Points, ToolPoints
  <2>4. CASE Command
    BY <2>4, GoesTyped DEF IInv, RunFits, Command, Points, ToolPoints
  <2>5. CASE Revive
    <3>1. run.revivals \in Nat /\ run.revivals < MaxRevivals
      BY <2>5 DEF IInv, TypeOK, RunFits, Revive
    <3>2. run.revivals + 1 \in 0..MaxRevivals
      BY <3>1, RevivalAssumption
    <3>3. QED
      BY <1>2, <2>5, <3>2
         DEF IInv, TypeOK, RunType, Revive, Points, ToolPoints
  <2>6. QED BY <2>1, <2>2, <2>3, <2>4, <2>5
<1>4. TypeOK'
  BY <1>1, <1>3 DEF IInv, TypeOK, RunType, memory, store, allButRun
<1>5. NothingEarly'
  BY <1>1 DEF IInv, NothingEarly, Ended, memory, store, allButRun
<1>6. SavedBehind'
  BY <1>1 DEF IInv, SavedBehind, memory, allButRun
<1>7. JoinsAsked'
  BY <1>1 DEF IInv, JoinsAsked, memory, allButRun
<1>8. ToolsUntold'
  BY <1>3 DEF ToolsUntold
<1>9. ToolsEnded'
  BY <1>3 DEF ToolsEnded, ToolPoints
<1>10. OneForeground'
  BY <1>3 DEF OneForeground, ToolPoints
<1>11. Consumes'
  BY <1>3 DEF Consumes, ToolPoints
<1>12. RunFits'
  BY <1>2, <1>3 DEF RunFits
<1>13. TasksExist'
  BY <1>1, <1>3 DEF IInv, TasksExist, Started, store, allButRun
<1>14. ToldOnce'
  BY <1>1 DEF IInv, ToldOnce, memory, allButRun
<1>15. ReportKept'
  BY <1>1, <1>2, <1>3 DEF IInv, ReportKept, Ended, memory, store, allButRun
<1>16. QED
  BY <1>4, <1>5, <1>6, <1>7, <1>8, <1>9, <1>10, <1>11, <1>12, <1>13, <1>14,
       <1>15 DEF IInv

(* A cancellation leaves a tool call what it holds.                        *)
LEMMA CancelKeeps ==
  ASSUME IInv, Cancel
  PROVE  IInv'
<1>1. UNCHANGED allButRun
  BY DEF Cancel
<1>2. /\ run' \in RunType
      /\ run'.tasks = run.tasks /\ run'.revivals = run.revivals
      /\ run'.aborted /\ ~ run.aborted
      /\ \/ run.pc \in ToolPoints /\ run'.pc = run.pc
         \/ run.pc \notin ToolPoints /\ run'.pc = "cancelled"
  BY DEF IInv, TypeOK, RunType, Cancel, Points, ToolPoints
<1>3. TypeOK'
  BY <1>1, <1>2 DEF IInv, TypeOK, RunType, ToolPoints, memory, store, allButRun
<1>4. NothingEarly'
  BY <1>1 DEF IInv, NothingEarly, Ended, memory, store, allButRun
<1>5. SavedBehind'
  BY <1>1 DEF IInv, SavedBehind, memory, allButRun
<1>6. JoinsAsked'
  BY <1>1 DEF IInv, JoinsAsked, memory, allButRun
<1>7. ToolsUntold'
  BY <1>1, <1>2 DEF IInv, ToolsUntold, memory, allButRun
<1>8. ToolsEnded'
  BY <1>1, <1>2 DEF IInv, ToolsEnded, Ended, store, allButRun
<1>9. OneForeground'
  BY <1>2 DEF IInv, OneForeground
<1>10. Consumes'
  BY <1>1, <1>2 DEF IInv, Consumes, memory, allButRun
<1>11. RunFits'
  BY <1>2 DEF RunFits, ToolPoints
<1>12. TasksExist'
  BY <1>1, <1>2 DEF IInv, TasksExist, Started, store, allButRun
<1>13. ToldOnce'
  BY <1>1 DEF IInv, ToldOnce, memory, allButRun
<1>14. ReportKept'
  BY <1>1, <1>2
     DEF IInv, ReportKept, Ended, ToolPoints, memory, store, allButRun
<1>15. QED
  BY <1>3, <1>4, <1>5, <1>6, <1>7, <1>8, <1>9, <1>10, <1>11, <1>12, <1>13,
       <1>14 DEF IInv

(* What a crash destroys is recorded as lost.                              *)
LEMMA CrashKeeps ==
  ASSUME IInv, NEW torn \in SUBSET Task, Crash(torn)
  PROVE  IInv'
<1>1. /\ record' \in [Task -> [status: Statuses, awaited: BOOLEAN]]
      /\ \A t \in Task :
           IF t \in torn
           THEN /\ record'[t].status = "ended"
                /\ record'[t].awaited = record[t].awaited
           ELSE record'[t] = record[t]
  BY DEF IInv, TypeOK, Crash, Statuses
<1>2. /\ run' \in RunType
      /\ run'.pc = "down" /\ run'.tasks = {}
      /\ ~ run.aborted /\ ~ run'.aborted
  BY DEF IInv, TypeOK, RunType, Crash, Points, ToolPoints
<1>3. /\ live' = {} /\ retry' = {} /\ joining' = [t \in Task |-> 0]
      /\ context' = saved.context /\ UNCHANGED <<inbox, saved, again, unheard>>
      /\ crashes' \in 0..MaxCrashes
  BY RevivalAssumption DEF IInv, TypeOK, Crash
<1>4. /\ torn \subseteq live
      /\ lost' = lost \union torn \union retry
                 \union {t \in Task :
                            context[t] > saved.context[t] \/ joining[t] > 0}
                 \union (IF run.pc = "return" THEN run.tasks ELSE {})
  BY DEF Crash
<1>5. TypeOK'
  BY <1>1, <1>2, <1>3, <1>4, RevivalAssumption
     DEF IInv, TypeOK, RunType, ToolPoints
<1>6. NothingEarly'
  BY <1>1, <1>3 DEF IInv, NothingEarly, TypeOK, SavedBehind, Ended
<1>7. SavedBehind'
  BY <1>3 DEF IInv, SavedBehind, TypeOK
<1>8. JoinsAsked'
  BY <1>3 DEF IInv, JoinsAsked, TypeOK
<1>9. ToolsUntold'
  BY <1>2 DEF ToolsUntold
<1>10. ToolsEnded'
  BY <1>2 DEF ToolsEnded
<1>11. OneForeground'
  BY <1>2 DEF OneForeground
<1>12. Consumes'
  BY <1>2 DEF Consumes
<1>13. RunFits'
  BY <1>2 DEF RunFits
<1>14. TasksExist'
  BY <1>1, <1>2 DEF IInv, TasksExist, Started
<1>15. ToldOnce'
  BY <1>3 DEF IInv, ToldOnce, TypeOK, SavedBehind
<1>16. ReportKept'
  BY <1>1, <1>2, <1>3, <1>4 DEF IInv, ReportKept, TypeOK, Ended
<1>17. QED
  BY <1>5, <1>6, <1>7, <1>8, <1>9, <1>10, <1>11, <1>12, <1>13, <1>14, <1>15,
       <1>16 DEF IInv

(* The restart leaves the stores alone.                                    *)
LEMMA ResumeKeeps ==
  ASSUME IInv, Restart \/ Resume
  PROVE  IInv'
<1>1. UNCHANGED allButRun
  BY DEF Restart, Resume
<1>2. /\ run' \in RunType /\ run.pc # "return"
      /\ run'.tasks = {} /\ run'.pc \in {"resuming", "step"}
      /\ ~ run.aborted /\ ~ run'.aborted
  BY GoesTyped DEF IInv, RunFits, Restart, Resume, Points, ToolPoints
<1>3. TypeOK'
  BY <1>1, <1>2
     DEF IInv, TypeOK, RunType, ToolPoints, memory, store, allButRun
<1>4. NothingEarly'
  BY <1>1 DEF IInv, NothingEarly, Ended, memory, store, allButRun
<1>5. SavedBehind'
  BY <1>1 DEF IInv, SavedBehind, memory, allButRun
<1>6. JoinsAsked'
  BY <1>1 DEF IInv, JoinsAsked, memory, allButRun
<1>7. ToolsUntold'
  BY <1>2 DEF ToolsUntold
<1>8. ToolsEnded'
  BY <1>2 DEF ToolsEnded
<1>9. OneForeground'
  BY <1>2 DEF OneForeground
<1>10. Consumes'
  BY <1>2 DEF Consumes
<1>11. RunFits'
  BY <1>2 DEF RunFits
<1>12. TasksExist'
  BY <1>1, <1>2 DEF IInv, TasksExist, Started, store, allButRun
<1>13. ToldOnce'
  BY <1>1 DEF IInv, ToldOnce, memory, allButRun
<1>14. ReportKept'
  BY <1>1, <1>2 DEF IInv, ReportKept, Ended, memory, store, allButRun
<1>15. QED
  BY <1>3, <1>4, <1>5, <1>6, <1>7, <1>8, <1>9, <1>10, <1>11, <1>12, <1>13,
       <1>14 DEF IInv

(* A step that changes nothing keeps the invariant.                        *)
LEMMA StutterKeeps ==
  ASSUME IInv, UNCHANGED vars
  PROVE  IInv'
<1>1. UNCHANGED <<allButRun, run>>
  BY DEF vars
<1>2. TypeOK'
  BY <1>1 DEF IInv, TypeOK, memory, store, allButRun
<1>3. NothingEarly'
  BY <1>1 DEF IInv, NothingEarly, Ended, memory, store, allButRun
<1>4. SavedBehind'
  BY <1>1 DEF IInv, SavedBehind, memory, allButRun
<1>5. JoinsAsked'
  BY <1>1 DEF IInv, JoinsAsked, memory, allButRun
<1>6. ToolsUntold'
  BY <1>1 DEF IInv, ToolsUntold, memory, allButRun
<1>7. ToolsEnded'
  BY <1>1 DEF IInv, ToolsEnded, Ended, store, allButRun
<1>8. OneForeground'
  BY <1>1 DEF IInv, OneForeground
<1>9. Consumes'
  BY <1>1 DEF IInv, Consumes, memory, allButRun
<1>10. RunFits'
  BY <1>1 DEF IInv, RunFits, ToolPoints
<1>11. TasksExist'
  BY <1>1 DEF IInv, TasksExist, Started, store, allButRun
<1>12. ToldOnce'
  BY <1>1 DEF IInv, ToldOnce, memory, allButRun
<1>13. ReportKept'
  BY <1>1 DEF IInv, ReportKept, Ended, memory, store, allButRun
<1>14. QED
  BY <1>2, <1>3, <1>4, <1>5, <1>6, <1>7, <1>8, <1>9, <1>10, <1>11, <1>12,
       <1>13 DEF IInv

-----------------------------------------------------------------------------
(* The inductive invariant holds in the initial states and is kept.        *)
LEMMA InitIInv == Init => IInv
<1> SUFFICES ASSUME Init PROVE IInv
  OBVIOUS
<1>1. TypeOK
  BY RevivalAssumption DEF Init, TypeOK, Statuses, Points, ToolPoints
<1>2. NothingEarly /\ SavedBehind /\ JoinsAsked /\ ToldOnce
  BY RevivalAssumption
     DEF Init, NothingEarly, SavedBehind, JoinsAsked, ToldOnce
<1>3. ToolsUntold /\ ToolsEnded /\ OneForeground /\ Consumes /\ RunFits
  BY DEF Init, ToolsUntold, ToolsEnded, OneForeground, Consumes, RunFits
<1>4. TasksExist /\ ReportKept
  BY DEF Init, TasksExist, ReportKept, Ended
<1>5. QED BY <1>1, <1>2, <1>3, <1>4 DEF IInv

LEMMA NextIInv == IInv /\ [Next]_vars => IInv'
<1> SUFFICES ASSUME IInv, [Next]_vars PROVE IInv'
  OBVIOUS
<1>1. CASE Host
  <2>1. CASE \E t \in Task : End(t)
    <3>1. PICK t \in Task : End(t)
      BY <2>1
    <3>2. record[t].status = "running" /\ EndTask(t)
      BY <3>1 DEF IInv, TypeOK, End
    <3>3. QED BY <3>2, EndTaskKeeps
  <2>2. QED
    BY <1>1, <2>1, RequestPromotionKeeps, JoinKeeps, JoinDeliverKeeps DEF Host
<1>2. CASE Tools
  BY <1>2, CreateKeeps, OverrunKeeps, InlineKeeps, PromoteKeeps,
       InlineConsumeKeeps, InlineReturnKeeps, WaitKeeps, WaitOverKeeps,
       CollectKeeps DEF Tools
<1>3. CASE Loop
  BY <1>3, StartStepKeeps, LoopKeeps, CancelKeeps DEF Loop
<1>4. CASE Failure
  <2>1. CASE \E t \in Task : FailOrphan(t)
    BY <2>1, EndTaskKeeps DEF FailOrphan, Orphaned
  <2>2. QED BY <1>4, <2>1, CrashKeeps, ResumeKeeps DEF Failure
<1>5. CASE UNCHANGED vars
  BY <1>5, StutterKeeps
<1>6. QED BY <1>1, <1>2, <1>3, <1>4, <1>5 DEF Next

LEMMA Inductive == Spec => []IInv
<1>1. QED BY InitIInv, NextIInv, PTL DEF Spec

(* The task records, the outbox, the run and its checkpoint keep their     *)
(* types for any set of tasks and any bounds: the budget of revivals is    *)
(* never exceeded, only unfinished tasks have a runner and only ended ones *)
(* a delivery to retry.                                                    *)
THEOREM TypeCorrect == Spec => []TypeOK
<1>1. IInv => TypeOK
  BY DEF IInv
<1>2. QED BY <1>1, Inductive, PTL

(* The end of a task is told once, over tool results, notifications,       *)
(* crashes and restarts, unless a join asked for it again.                 *)
THEOREM ReportsToldOnce == Spec => []ToldOnce
<1>1. IInv => ToldOnce
  BY DEF IInv
<1>2. QED BY <1>1, Inductive, PTL

(* The report of an ended task is always somewhere: with the run, in the   *)
(* outbox, in a tool call, waiting for a retry, destroyed by a crash, or   *)
(* taken out by the tool call in the middle of which the run was           *)
(* cancelled.                                                              *)
THEOREM NoReportLost == Spec => []ReportKept
<1>1. IInv => ReportKept
  BY DEF IInv
<1>2. QED BY <1>1, Inductive, PTL

(* Only the check for awaited tasks turns an answer into the end.          *)
LEMMA OnlyCheckFinishes ==
  ASSUME IInv, [Next]_vars, run.pc = "answer", run'.pc = "done"
  PROVE  CheckAwaited
<1>1. ~ UNCHANGED vars
  BY DEF vars
<1>2. ~ Host
  <2>1. ASSUME NEW t \in Task, NEW rec, Delivered(t, rec) PROVE FALSE
    BY <2>1, DeliveredTyped DEF IInv
  <2>2. ASSUME NEW t \in Task, End(t) PROVE FALSE
    BY <2>1, <2>2 DEF End, EndTask
  <2>3. ASSUME NEW t \in Task, RequestPromotion(t) PROVE FALSE
    BY <2>3 DEF RequestPromotion
  <2>4. ASSUME NEW t \in Task, Join(t) PROVE FALSE
    BY <2>4 DEF Join
  <2>5. ASSUME NEW t \in Task, JoinDeliver(t) PROVE FALSE
    BY <2>1, <2>5 DEF JoinDeliver
  <2>6. QED BY <2>2, <2>3, <2>4, <2>5 DEF Host
<1>3. ~ Tools
  BY DEF Tools, Create, Overrun, Inline, Promote, InlineConsume, InlineReturn,
       Wait, WaitOver, Collect
<1>4. ~ Failure
  <2>1. \A torn \in SUBSET Task : ~ Crash(torn)
    BY DEF Crash, IInv, TypeOK
  <2>2. QED BY <2>1 DEF Failure, Restart, FailOrphan, Resume
<1>5. ~ Cancel
  BY DEF IInv, TypeOK, Cancel, ToolPoints
<1>6. QED
  BY <1>1, <1>2, <1>3, <1>4, <1>5
     DEF Next, Loop, StartStep, Answer, WaitUntilAvailable, Command, Revive

(* A run with revivals left ends only after it was told of every awaited   *)
(* task, except of those whose delivery failed or was lost in a crash.     *)
THEOREM AnswersKnowTasks == Spec => AnswersAwaited
<1>1. ASSUME IInv, [Next]_vars, run.pc = "answer", run'.pc = "done",
             run.revivals < MaxRevivals,
             NEW t \in Task, record[t].awaited
      PROVE  Ended(t) /\ (context[t] > 0 \/ t \in retry \union lost)
  <2>1. ~ HasAwaitedPending
    BY <1>1, OnlyCheckFinishes, GoesTyped
       DEF IInv, CheckAwaited, Points, ToolPoints
  <2>2. Ended(t)
    BY <1>1, <2>1
       DEF IInv, TypeOK, Statuses, TasksExist, Started, Ended,
         HasAwaitedPending
  <2>3. inbox[t] = 0
    BY <1>1, <2>1 DEF IInv, TypeOK, HasAwaitedPending, Ready
  <2>4. ~ run.aborted
    BY <1>1 DEF IInv, RunFits, ToolPoints
  <2>5. QED BY <1>1, <2>2, <2>3, <2>4 DEF IInv, TypeOK, ReportKept
<1>2. IInv /\ [Next]_vars =>
        [(run.pc = "answer" /\ run'.pc = "done" /\ run.revivals < MaxRevivals)
          => \A t \in Task : record[t].awaited =>
               Ended(t) /\ (context[t] > 0 \/ t \in retry \union lost)]_vars
  BY <1>1
<1>3. QED BY <1>2, Inductive, PTL DEF Spec, AnswersAwaited

-----------------------------------------------------------------------------
(* The output of tasks *)


(* What a reader received has no gap.                                      *)
NoGap(r) ==
  \A c \in Seen(r) : c >= first[r] /\ first[r]..c \subseteq Seen(r)

BehindIndex(r) ==
  /\ first[r] <= nextIndex[r]
  /\ nextIndex[r] > first[r] => first[r]..(nextIndex[r] - 1) \subseteq Seen(r)

WaitsForMore(r) ==
  phase[r] = "waiting" =>
    ~terminal /\ first[r]..(length - 1) \subseteq Seen(r)

(* The end of the task finds everyone who waits for it.                    *)
Listens(r) == phase[r] \in {"open", "waiting"} /\ ~terminal => r \in listening

(* A queued chunk is one of the buffer that the reader asked for.          *)
Queues(r) ==
  \A c \in ToSet(pending[r]) : first[r] <= c /\ c < length

Fresh(r) == phase[r] = "closed" => got[r] = << >> /\ pending[r] = << >>

ReaderOK(r) ==
  /\ NoGap(r)
  /\ BehindIndex(r)
  /\ WaitsForMore(r)
  /\ Listens(r)
  /\ Queues(r)
  /\ Fresh(r)

OutputInv == OutputTypeOK /\ \A r \in Reader : ReaderOK(r)

-----------------------------------------------------------------------------
(* What one more element, or one less, means for the elements.             *)
LEMMA AppendSet ==
  ASSUME NEW S, NEW s \in Seq(S), NEW e \in S
  PROVE  ToSet(Append(s, e)) = ToSet(s) \union {e}
<1>1. \A i \in 1..Len(s) : Append(s, e)[i] = s[i]
  OBVIOUS
<1>2. Append(s, e)[Len(s) + 1] = e /\ Len(Append(s, e)) = Len(s) + 1
  OBVIOUS
<1>3. DOMAIN Append(s, e) = 1..(Len(s) + 1) /\ DOMAIN s = 1..Len(s)
  OBVIOUS
<1>4. \A i : i \in 1..(Len(s) + 1) <=> i \in 1..Len(s) \/ i = Len(s) + 1
  OBVIOUS
<1> DEFINE t == Append(s, e)
<1> HIDE DEF t
<1>5. ASSUME NEW x PROVE x \in ToSet(t) <=> x \in ToSet(s) \/ x = e
  <2>1. x \in ToSet(t) <=> \E i \in DOMAIN t : x = t[i]
    BY DEF ToSet
  <2>2. x \in ToSet(s) <=> \E i \in DOMAIN s : x = s[i]
    BY DEF ToSet
  <2>3. QED BY <1>1, <1>2, <1>3, <1>4, <2>1, <2>2, Zenon DEF t
<1>6. QED BY <1>5 DEF t

LEMMA TailSet ==
  ASSUME NEW S, NEW s \in Seq(S), s # << >>
  PROVE  /\ Head(s) \in ToSet(s) /\ Head(s) \in S
         /\ Tail(s) \in Seq(S)
         /\ ToSet(Tail(s)) \subseteq ToSet(s)
<1>1. DOMAIN s = 1..Len(s) /\ 1 \in DOMAIN s /\ Head(s) = s[1]
  OBVIOUS
<1>2. Tail(s) \in Seq(S) /\ DOMAIN Tail(s) = 1..(Len(s) - 1)
  OBVIOUS
<1>3. \A i \in DOMAIN Tail(s) : i + 1 \in DOMAIN s /\ Tail(s)[i] = s[i + 1]
  OBVIOUS
<1>4. QED BY <1>1, <1>2, <1>3 DEF ToSet

(* The elements have the sequence's type.                                  *)
LEMMA SetTyped ==
  ASSUME NEW S, NEW s \in Seq(S)
  PROVE  ToSet(s) \subseteq S
BY DEF ToSet

-----------------------------------------------------------------------------
(* The invariant of a reader that a step leaves alone.                     *)
LEMMA AloneKeeps ==
  ASSUME OutputInv, NEW r \in Reader,
         phase'[r] = phase[r], nextIndex'[r] = nextIndex[r],
         pending'[r] = pending[r], first'[r] = first[r], got'[r] = got[r],
         r \in listening => r \in listening',
         UNCHANGED <<terminal, length>>
  PROVE  ReaderOK(r)'
BY DEF OutputInv, ReaderOK, NoGap, BehindIndex, WaitsForMore, Listens, Queues,
       Fresh, Seen

(* A chunk that comes next to what was received leaves no gap.             *)
LEMMA ReceivedKeeps ==
  ASSUME OutputInv, NEW r \in Reader, NEW c \in Chunk,
         first[r] <= c, first[r]..(c - 1) \subseteq Seen(r),
         got'[r] = Append(got[r], c), nextIndex'[r] = c + 1,
         first'[r] = first[r]
  PROVE  /\ NoGap(r)' /\ BehindIndex(r)'
         /\ Seen(r)' = Seen(r) \union {c}
         /\ first[r]..c \subseteq Seen(r)'
<1>1. got[r] \in Seq(Chunk) /\ first[r] \in Nat
  BY ChunkAssumption DEF OutputInv, OutputTypeOK
<1>2. Seen(r)' = Seen(r) \union {c}
  BY <1>1, AppendSet DEF Seen
<1>3. c \in Nat
  BY ChunkAssumption DEF Chunk
<1>4. first[r]..c \subseteq Seen(r)'
  BY <1>1, <1>2, <1>3
<1>5. NoGap(r)'
  BY <1>2, <1>3, <1>4 DEF NoGap, OutputInv, ReaderOK
<1>6. BehindIndex(r)'
  BY <1>1, <1>3, <1>4 DEF BehindIndex
<1>7. QED BY <1>2, <1>4, <1>5, <1>6

LEMMA AppendOutputKeeps ==
  ASSUME OutputInv, AppendOutput
  PROVE  OutputInv'
<1> DEFINE woken == {r \in Reader : Hears(r) /\ phase[r] = "waiting"}
           late == {r \in Reader : Hears(r) /\ phase[r] = "open"}
<1>1. /\ length \in Chunk /\ length \in Nat /\ length + 1 \in 0..MaxChunks
      /\ length' = length + 1
  BY ChunkAssumption DEF OutputInv, OutputTypeOK, AppendOutput, Chunk
<1>2. /\ phase' = [r \in Reader |-> IF r \in woken THEN "open" ELSE phase[r]]
      /\ nextIndex' = [r \in Reader |->
           IF r \in woken THEN length + 1 ELSE nextIndex[r]]
      /\ got' = [r \in Reader |->
           IF r \in woken THEN Append(got[r], length) ELSE got[r]]
      /\ pending' = [r \in Reader |->
           IF r \in late THEN Append(pending[r], length) ELSE pending[r]]
      /\ UNCHANGED <<terminal, listening, first>>
  BY DEF AppendOutput
<1> HIDE DEF woken, late
<1>3. OutputTypeOK'
  <2>1. got' \in [Reader -> Seq(Chunk)] /\ pending' \in [Reader -> Seq(Chunk)]
    BY <1>1, <1>2 DEF OutputInv, OutputTypeOK
  <2>2. QED BY <1>1, <1>2, <2>1 DEF OutputInv, OutputTypeOK
<1>4. ASSUME NEW r \in Reader PROVE ReaderOK(r)'
  <2>1. /\ first[r] \in Nat /\ nextIndex[r] \in Nat
        /\ pending[r] \in Seq(Chunk) /\ got[r] \in Seq(Chunk)
        /\ first[r] <= nextIndex[r]
    BY ChunkAssumption DEF OutputInv, OutputTypeOK, ReaderOK, BehindIndex
  <2>2. ToSet(pending[r]) \subseteq Chunk
    BY <2>1, SetTyped
  <2>3. CASE r \in woken
    <3>1. /\ phase[r] = "waiting" /\ phase'[r] = "open" /\ r \notin late
          /\ nextIndex[r] <= length
      BY <1>2, <2>1, <2>3, <1>1 DEF woken, late, Hears
    <3>2. first[r]..(length - 1) \subseteq Seen(r)
      BY <3>1 DEF OutputInv, ReaderOK, WaitsForMore
    <3>3. NoGap(r)' /\ BehindIndex(r)'
      BY SMTT(30), <1>1, <1>2, <2>1, <2>3, <3>1, <3>2, ReceivedKeeps
    <3>4. WaitsForMore(r)' /\ Listens(r)' /\ Fresh(r)'
      BY <1>2, <3>1 DEF OutputInv, ReaderOK, WaitsForMore, Listens, Fresh
    <3>5. Queues(r)'
      <4>1. pending'[r] = pending[r] /\ first'[r] = first[r]
        BY <1>2, <3>1
      <4>2. QED BY <1>1, <2>2, <4>1, ChunkAssumption
                DEF OutputInv, ReaderOK, Queues, Chunk
    <3>6. QED BY <3>3, <3>4, <3>5 DEF ReaderOK
  <2>4. CASE r \notin woken
    <3>1. /\ phase'[r] = phase[r] /\ nextIndex'[r] = nextIndex[r]
          /\ got'[r] = got[r] /\ first'[r] = first[r]
      BY <1>2, <2>4
    <3>2. NoGap(r)' /\ BehindIndex(r)' /\ Listens(r)'
      BY <1>2, <3>1
      DEF OutputInv, ReaderOK, NoGap, BehindIndex, Listens, Seen
    <3>3. WaitsForMore(r)'
      <4>1. phase[r] = "waiting" => nextIndex[r] > length
        BY <2>4, <2>1, <1>1 DEF woken, Hears
      <4>2. phase[r] = "waiting" => first[r]..length \subseteq Seen(r)
        BY <4>1, <2>1, <1>1 DEF OutputInv, ReaderOK, BehindIndex
      <4>3. QED BY <4>2, <3>1, <1>1, <1>2
                DEF OutputInv, ReaderOK, WaitsForMore, Seen
    <3>4. Queues(r)'
      <4>1. CASE r \in late
        <5>1. ToSet(pending[r])' = ToSet(pending[r]) \union {length}
          BY <1>1, <1>2, <2>1, <4>1, AppendSet
        <5>2. first[r] <= length
          BY <1>1, <2>1, <4>1 DEF late, Hears
        <5>3. QED BY <1>1, <2>2, <3>1, <5>1, <5>2, ChunkAssumption
                  DEF OutputInv, ReaderOK, Queues, Chunk
      <4>2. CASE r \notin late
        <5>1. pending'[r] = pending[r]
          BY <1>2, <4>2
        <5>2. QED BY <1>1, <2>2, <3>1, <5>1, ChunkAssumption
                  DEF OutputInv, ReaderOK, Queues, Chunk
      <4>3. QED BY <4>1, <4>2
    <3>5. Fresh(r)'
      BY <1>2, <3>1 DEF OutputInv, ReaderOK, Fresh, late
    <3>6. QED BY <3>2, <3>3, <3>4, <3>5 DEF ReaderOK
  <2>5. QED BY <2>3, <2>4
<1>5. QED BY <1>3, <1>4 DEF OutputInv

LEMMA TerminateKeeps ==
  ASSUME OutputInv, Terminate
  PROVE  OutputInv'
<1>1. OutputTypeOK'
  BY DEF OutputInv, OutputTypeOK, Terminate
<1>2. ASSUME NEW r \in Reader PROVE ReaderOK(r)'
  <2>1. phase'[r] = IF phase[r] = "waiting" THEN "done" ELSE phase[r]
    BY DEF OutputInv, ReaderOK, Listens, Terminate
  <2>2. terminal' /\ UNCHANGED <<length, nextIndex, pending, first, got>>
    BY DEF Terminate
  <2>3. QED BY <2>1, <2>2
            DEF OutputInv, ReaderOK, NoGap, BehindIndex, WaitsForMore, Listens,
                Queues, Fresh, Seen
<1>3. QED BY <1>1, <1>2 DEF OutputInv

LEMMA OpenKeeps ==
  ASSUME OutputInv, NEW r \in Reader, NEW from \in 0..MaxChunks, Open(r, from)
  PROVE  OutputInv'
<1>1. OutputTypeOK'
  BY DEF OutputInv, OutputTypeOK, Open
<1>2. /\ phase'[r] = "open" /\ nextIndex'[r] = from /\ first'[r] = from
      /\ got'[r] = << >> /\ pending'[r] = << >>
      /\ terminal' = terminal /\ (~terminal => r \in listening')
  BY DEF OutputInv, OutputTypeOK, ReaderOK, Fresh, Open
<1>3. ReaderOK(r)'
  <2>1. ToSet(<< >>) = {}
    BY DEF ToSet
  <2>2. from \in Nat
    BY ChunkAssumption
  <2>3. QED BY <1>2, <2>1, <2>2
            DEF ReaderOK, NoGap, BehindIndex, WaitsForMore, Listens, Queues,
                Fresh, Seen
<1>4. ASSUME NEW s \in Reader, s # r PROVE ReaderOK(s)'
  BY <1>4, AloneKeeps DEF OutputInv, OutputTypeOK, Open
<1>5. QED BY <1>1, <1>3, <1>4 DEF OutputInv

LEMMA NextBufferedKeeps ==
  ASSUME OutputInv, NEW r \in Reader, NextBuffered(r)
  PROVE  OutputInv'
<1> DEFINE c == nextIndex[r]
<1>1. /\ c \in Nat /\ first[r] \in Nat /\ length \in 0..MaxChunks
      /\ c < length /\ first[r] <= c
  BY ChunkAssumption DEF OutputInv, OutputTypeOK, NextBuffered, ReaderOK, BehindIndex
<1>2. c \in Chunk /\ c + 1 \in 0..MaxChunks
  BY <1>1, ChunkAssumption DEF Chunk
<1>3. first[r]..(c - 1) \subseteq Seen(r)
  BY <1>1 DEF OutputInv, ReaderOK, BehindIndex
<1>4. /\ got' = [got EXCEPT ![r] = Append(got[r], c)]
      /\ nextIndex' = [nextIndex EXCEPT ![r] = c + 1]
      /\ UNCHANGED <<terminal, length, phase, pending, listening, first>>
      /\ phase[r] = "open"
  BY DEF NextBuffered, Returns
<1>5. OutputTypeOK'
  BY <1>2, <1>4 DEF OutputInv, OutputTypeOK
<1>6. got'[r] = Append(got[r], c) /\ nextIndex'[r] = c + 1
  BY <1>4 DEF OutputInv, OutputTypeOK
<1>7. NoGap(r)' /\ BehindIndex(r)'
  BY <1>1, <1>2, <1>3, <1>4, <1>6, ReceivedKeeps
<1>8. WaitsForMore(r)' /\ Listens(r)' /\ Queues(r)' /\ Fresh(r)'
  BY <1>4 DEF OutputInv, ReaderOK, WaitsForMore, Listens, Queues, Fresh
<1>9. ASSUME NEW s \in Reader, s # r PROVE ReaderOK(s)'
  BY <1>4, <1>9, AloneKeeps DEF OutputInv, OutputTypeOK
<1>10. QED BY <1>5, <1>7, <1>8, <1>9 DEF OutputInv, ReaderOK

(* A queued chunk was received from the buffer before; the index goes back *)
(* behind it.                                                              *)
LEMMA NextPendingKeeps ==
  ASSUME OutputInv, NEW r \in Reader, NextPending(r)
  PROVE  OutputInv'
<1> DEFINE c == Head(pending[r])
<1>1. /\ pending[r] \in Seq(Chunk) /\ pending[r] # << >>
      /\ nextIndex[r] \in Nat /\ first[r] \in Nat /\ length \in Nat
      /\ nextIndex[r] >= length
  BY ChunkAssumption DEF OutputInv, OutputTypeOK, NextPending
<1>2. /\ c \in ToSet(pending[r]) /\ c \in Chunk
      /\ Tail(pending[r]) \in Seq(Chunk)
      /\ ToSet(Tail(pending[r])) \subseteq ToSet(pending[r])
  BY <1>1, TailSet
<1>3. c \in Nat /\ c + 1 \in 0..MaxChunks
  BY <1>2, ChunkAssumption DEF Chunk
<1>4. first[r] <= c /\ c < length
  BY <1>2 DEF OutputInv, ReaderOK, Queues
<1>5. first[r]..(c - 1) \subseteq Seen(r)
  BY <1>1, <1>3, <1>4 DEF OutputInv, ReaderOK, BehindIndex
<1>6. /\ got' = [got EXCEPT ![r] = Append(got[r], c)]
      /\ nextIndex' = [nextIndex EXCEPT ![r] = c + 1]
      /\ pending' = [pending EXCEPT ![r] = Tail(pending[r])]
      /\ UNCHANGED <<terminal, length, phase, listening, first>>
      /\ phase[r] = "open"
  BY DEF NextPending, Returns
<1> HIDE DEF c
<1>7. OutputTypeOK'
  BY <1>2, <1>3, <1>6 DEF OutputInv, OutputTypeOK
<1>8. /\ got'[r] = Append(got[r], c) /\ nextIndex'[r] = c + 1
      /\ pending'[r] = Tail(pending[r])
  BY <1>6 DEF OutputInv, OutputTypeOK
<1>9. NoGap(r)' /\ BehindIndex(r)'
  BY <1>2, <1>4, <1>5, <1>6, <1>8, ReceivedKeeps
<1>10. Queues(r)'
  BY <1>2, <1>6, <1>8 DEF OutputInv, ReaderOK, Queues
<1>11. WaitsForMore(r)' /\ Listens(r)' /\ Fresh(r)'
  BY <1>6 DEF OutputInv, ReaderOK, WaitsForMore, Listens, Fresh
<1>12. ASSUME NEW s \in Reader, s # r PROVE ReaderOK(s)'
  BY <1>6, <1>12, AloneKeeps DEF OutputInv, OutputTypeOK
<1>13. QED BY <1>7, <1>9, <1>10, <1>11, <1>12 DEF OutputInv, ReaderOK

(* A reader that has everything waits, ends or goes.                       *)
LEMMA NextWaitsKeeps ==
  ASSUME OutputInv, NEW r \in Reader, NextWaits(r)
  PROVE  OutputInv'
<1>1. /\ phase' = [phase EXCEPT ![r] = "waiting"]
      /\ phase[r] = "open" /\ nextIndex[r] >= length /\ ~terminal
      /\ UNCHANGED <<terminal, length, nextIndex, pending, listening, first,
                     got>>
  BY DEF NextWaits, Drained
<1>2. OutputTypeOK'
  BY <1>1 DEF OutputInv, OutputTypeOK
<1>3. first[r]..(length - 1) \subseteq Seen(r)
  <2>1. /\ first[r] \in Nat /\ nextIndex[r] \in Nat /\ length \in Nat
    BY ChunkAssumption DEF OutputInv, OutputTypeOK
  <2>2. QED BY <1>1, <2>1 DEF OutputInv, ReaderOK, BehindIndex
<1>4. ReaderOK(r)'
  BY <1>1, <1>3
  DEF OutputInv, OutputTypeOK, ReaderOK, NoGap, BehindIndex, WaitsForMore, Listens,
      Queues, Fresh, Seen
<1>5. ASSUME NEW s \in Reader, s # r PROVE ReaderOK(s)'
  BY <1>1, <1>5, AloneKeeps DEF OutputInv, OutputTypeOK
<1>6. QED BY <1>2, <1>4, <1>5 DEF OutputInv

LEMMA StopKeeps ==
  ASSUME OutputInv, NEW r \in Reader, NextEnd(r) \/ Close(r)
  PROVE  OutputInv'
<1>1. /\ phase' = [phase EXCEPT ![r] = "done"]
      /\ listening' = listening \ {r}
      /\ UNCHANGED <<terminal, length, nextIndex, pending, first, got>>
  BY DEF NextEnd, Close
<1>2. phase[r] # "closed"
  BY DEF NextEnd, Drained, Close
<1>3. OutputTypeOK'
  BY <1>1 DEF OutputInv, OutputTypeOK
<1>4. ReaderOK(r)'
  BY <1>1, <1>2
  DEF OutputInv, OutputTypeOK, ReaderOK, NoGap, BehindIndex, WaitsForMore, Listens,
      Queues, Fresh, Seen
<1>5. ASSUME NEW s \in Reader, s # r PROVE ReaderOK(s)'
  BY <1>1, <1>5, AloneKeeps DEF OutputInv, OutputTypeOK
<1>6. QED BY <1>3, <1>4, <1>5 DEF OutputInv

-----------------------------------------------------------------------------
(* The inductive invariant holds in the initial state and is kept.         *)
LEMMA InitOutputInv == OutputInit => OutputInv
<1> SUFFICES ASSUME OutputInit PROVE OutputInv
  OBVIOUS
<1>1. OutputTypeOK
  <2>1. << >> \in Seq(Chunk)
    OBVIOUS
  <2>2. pending \in [Reader -> Seq(Chunk)] /\ got \in [Reader -> Seq(Chunk)]
    BY <2>1, Zenon DEF OutputInit
  <2>3. 0 \in 0..MaxChunks
    BY ChunkAssumption
  <2>4. QED BY <2>2, <2>3 DEF OutputInit, OutputTypeOK
<1>2. ToSet(<< >>) = {}
  BY DEF ToSet
<1>3. QED BY <1>1, <1>2
          DEF OutputInit, OutputInv, ReaderOK, NoGap, BehindIndex, WaitsForMore,
              Listens, Queues, Fresh, Seen

LEMMA NextOutputInv == OutputInv /\ [OutputNext]_outputVars => OutputInv'
<1> SUFFICES ASSUME OutputInv, [OutputNext]_outputVars PROVE OutputInv'
  OBVIOUS
<1>1. CASE AppendOutput
  BY <1>1, AppendOutputKeeps
<1>2. CASE Terminate
  BY <1>2, TerminateKeeps
<1>3. ASSUME NEW r \in Reader, NEW from \in 0..MaxChunks, Open(r, from)
      PROVE  OutputInv'
  BY <1>3, OpenKeeps
<1>4. ASSUME NEW r \in Reader, Reads(r) \/ Close(r) PROVE OutputInv'
  BY <1>4, NextBufferedKeeps, NextPendingKeeps, NextWaitsKeeps, StopKeeps
  DEF Reads
<1>5. CASE UNCHANGED outputVars
  <2>1. \A r \in Reader : ReaderOK(r)'
    BY <1>5, AloneKeeps DEF outputVars, iterators
  <2>2. QED BY <1>5, <2>1 DEF OutputInv, OutputTypeOK, outputVars, iterators
<1>6. QED BY <1>1, <1>2, <1>3, <1>4, <1>5 DEF OutputNext, Reads

LEMMA OutputInductive == OutputSpec => []OutputInv
<1>1. QED BY InitOutputInv, NextOutputInv, PTL DEF OutputSpec

(* Iterators keep their types; no index leaves the chunks there can be.    *)
THEOREM OutputTypeCorrect == OutputSpec => []OutputTypeOK
<1>1. OutputInv => OutputTypeOK
  BY DEF OutputInv
<1>2. QED BY <1>1, OutputInductive, PTL

(* Readers get every chunk from their start on, and one that waits has all *)
(* there are, whichever way the chunks came.                               *)
THEOREM NothingIsSkipped == OutputSpec => []NothingSkipped
<1>1. OutputInv => NothingSkipped
  BY DEF OutputInv, ReaderOK, NoGap, BehindIndex, WaitsForMore, NothingSkipped
<1>2. QED BY <1>1, OutputInductive, PTL

=============================================================================
