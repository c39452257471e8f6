---------------------------- MODULE RunLifecycle ----------------------------
(***************************************************************************)
(* One run of the core loop, packages/core/src/run.ts (SparkwrightRun):    *)
(* its states, the commands it accepts, the turns its budgets allow, the   *)
(* tool calls it awaits and the ways it ends.  A tool call passes a gate   *)
(* that may ask for approval and then runs against a timeout and the abort *)
(* signal (packages/core/src/tools.ts, executeWithTimeout); a body that    *)
(* lost that race runs on.  A body may write a file, which may ask for     *)
(* approval too (packages/core/src/workspace.ts, ControlledWorkspace).     *)
(*                                                                         *)
(* JavaScript runs to the next await: a step here is the code between two  *)
(* awaits.  The callers of cancel() and tryEnqueueCommand(), the abort     *)
(* signal of the embedder, approvers, timers and tasks take their steps in *)
(* between.  Which notifications the tasks of a run send is the subject of *)
(* TaskRevival; here a run has an awaited task or not.  Workflow hooks and  *)
(* the resource budgets are left out, except that a turn may fail for      *)
(* them; how often a model may recover is left open.                       *)
(***************************************************************************)
EXTENDS Integers, Sequences, FiniteSets, SequencesExt

CONSTANTS
  Command,      \* the commands callers try to enqueue
  KindOf,       \* KindOf[m]: "user_message" or "cancel"
  Call,         \* the tool calls the model makes
  Shared,       \* those that are safe to run concurrently; they do not write
  MaxSteps,     \* options.maxSteps
  MaxRevivals,  \* forcedContinuationBudgets.revival
  MaxSteers     \* forcedContinuationBudgets.interaction

ASSUME LifecycleAssumption ==
  /\ KindOf \in [Command -> {"user_message", "cancel"}]
  /\ Shared \subseteq Call
  /\ MaxSteps \in Nat \ {0} /\ MaxRevivals \in Nat /\ MaxSteers \in Nat

VARIABLES
  state,      \* record.state
  result,     \* this.result, or "none"
  terminals,  \* how many terminal events were emitted
  accepting,  \* acceptingCommands
  aborted,    \* abortController.signal.aborted
  queue,      \* commandQueue
  status,     \* commandStatuses, "new" for what was never accepted
  loop,       \* where the loop is, and its RunLoopState
  batch,      \* calls of the current batch that the loop still awaits
  call,       \* how far each tool call got
  givenUp,    \* calls whose bodies ran on after a timeout or an abort
  task,       \* the awaited task: none, running, or ended and not yet told
  unseen      \* applied messages that no model call has seen (history)

record == <<state, result, terminals, accepting, aborted>>
commands == <<queue, status, unseen>>
calls == <<batch, call, givenUp>>
vars == <<record, commands, loop, calls, task>>

TerminalStates == {"completed", "failed", "cancelled"}
States == TerminalStates \union {"created", "running", "waiting_approval",
                                 "waiting_credentials", "waiting_tasks"}
Body == {"propose", "write_approval", "write"}
CallPoints == Body \union {"new", "gate", "gate_approval", "over"}
LoopPoints == {"created", "head", "commands", "model", "credentials", "tools",
               "answer", "waiting", "wrap_up", "returned"}

TypeOK ==
  /\ state \in States
  /\ result \in TerminalStates \union {"none"}
  /\ terminals \in 0..2 /\ (terminals = 0 <=> result = "none")
  /\ accepting \in BOOLEAN /\ aborted \in BOOLEAN
  /\ status \in [Command -> {"new", "queued", "applied", "rejected"}]
  /\ ToSet(queue) = {m \in Command : status[m] = "queued"}
  /\ Len(queue) = Cardinality(ToSet(queue))
  /\ loop \in [pc: LoopPoints, step: Nat, forced: BOOLEAN,
               revivals: 0..MaxRevivals, steers: 0..MaxSteers,
               refreshed: BOOLEAN, todo: SUBSET Call, terminal: SUBSET Call,
               over: BOOLEAN, previous: States, woken: BOOLEAN]
  /\ batch \subseteq {c \in Call : call[c] \notin {"new", "over"}}
  /\ batch # {} => loop.pc = "tools"
  /\ call \in [Call -> CallPoints]
  /\ givenUp \subseteq Call \ batch
  /\ task \in {"none", "running", "ended"}
  /\ unseen \subseteq {m \in Command : status[m] = "applied"}

Init ==
  /\ state = "created" /\ result = "none" /\ terminals = 0
  /\ accepting = TRUE /\ aborted = FALSE
  /\ queue = << >> /\ status = [m \in Command |-> "new"] /\ unseen = {}
  /\ loop = [pc |-> "created", step |-> 1, forced |-> FALSE, revivals |-> 0,
             steers |-> 0, refreshed |-> FALSE, todo |-> {}, terminal |-> {},
             over |-> FALSE, previous |-> "running", woken |-> FALSE]
  /\ batch = {} /\ call = [c \in Call |-> "new"] /\ givenUp = {}
  /\ task = "none"

-----------------------------------------------------------------------------
(* The record *)

Terminal == state \in TerminalStates

CanTransition(from, to) ==
  \/ from = to
  \/ from = "created" /\ to \in {"running", "cancelled"}
  \/ from = "running" /\ to # "created"
  \/ /\ from \in {"waiting_approval", "waiting_credentials", "waiting_tasks"}
     /\ to \in {"running", "failed", "cancelled"}

(* setState: a transition that is not allowed leaves the state as it is.   *)
Moved(to) == IF ~ Terminal /\ CanTransition(state, to) THEN to ELSE state

(* rejectPendingCommands.                                                  *)
RejectedPending ==
  /\ queue' = << >>
  /\ status' = [m \in Command |-> IF m \in ToSet(queue) THEN "rejected"
                                                        ELSE status[m]]

SettledNever == FALSE  \* a mutant: a result that exists is overwritten

(* complete, fail and cancel have this in common: the first one to come    *)
(* settles the run, the others return what it settled.                     *)
Settled == Terminal /\ result # "none"

Ends(how) ==
  IF Settled THEN UNCHANGED <<state, result, terminals, accepting, queue,
                              status>>
  ELSE /\ state' = Moved(how)
       /\ result' = how
       /\ terminals' = terminals + 1
       /\ accepting' = FALSE
       /\ RejectedPending

AbortsAtOnce ==  \* a mutant: the batch goes on awaiting the bodies
  /\ aborted' = TRUE
  /\ loop' = [loop EXCEPT !.woken = @ \/ loop.pc = "waiting"]
  /\ givenUp' = givenUp \union {c \in batch : call[c] \in Body}
  /\ batch' = batch

(* The abort signal makes executeWithTimeout give up on running bodies and *)
(* ends a wait for tasks that has begun: a listener that is added to a     *)
(* signal that aborted before hears nothing.                               *)
Aborts ==
  /\ aborted' = TRUE
  /\ loop' = [loop EXCEPT !.woken = @ \/ loop.pc = "waiting"]
  /\ givenUp' = givenUp \union {c \in batch : call[c] \in Body}
  /\ batch' = {c \in batch : call[c] \notin Body}

Cancel ==
  /\ ~ Settled
  /\ Ends("cancelled")
  /\ Aborts
  /\ UNCHANGED <<unseen, call, task>>

(* The embedder's own signal aborts the loop and nothing else.             *)
ExternalAbort ==
  /\ ~ aborted
  /\ Aborts
  /\ UNCHANGED <<state, result, terminals, accepting, commands, call, task>>

(* tryEnqueueCommand.  A run that waits for its tasks hears of a command   *)
(* that is enqueued while it waits.                                        *)
Enqueue(m) ==
  /\ ~ Terminal /\ accepting /\ ~ aborted
  /\ status[m] \notin {"queued", "applied"}
  /\ queue' = Append(queue, m)
  /\ status' = [status EXCEPT ![m] = "queued"]
  /\ loop' = [loop EXCEPT !.woken = @ \/ loop.pc = "waiting"]
  /\ UNCHANGED <<record, unseen, calls, task>>

-----------------------------------------------------------------------------
(* The loop *)

Goes(pc) == loop' = [loop EXCEPT !.pc = pc]

(* The loop ends through complete() or fail() and returns the result.      *)
Returns(how) ==
  /\ Ends(how)
  /\ Goes("returned")
  /\ UNCHANGED <<aborted, unseen, calls, task>>

(* Moves of the loop that change nothing else.                             *)
Passes(pc) == Goes(pc) /\ UNCHANGED <<record, commands, calls, task>>

NewStepFree(forced, revivals, steers) ==  \* a mutant: budgets are not used up
  loop' = [loop EXCEPT !.pc = "head", !.step = @ + 1, !.forced = forced,
                       !.refreshed = FALSE, !.woken = FALSE]

(* A new step: an ordinary one, or a forced one that costs so much of the  *)
(* revival budget and so much of the interaction budget.                   *)
NewStep(forced, revivals, steers) ==
  loop' = [loop EXCEPT !.pc = "head", !.step = @ + 1, !.forced = forced,
                       !.revivals = @ + revivals, !.steers = @ + steers,
                       !.refreshed = FALSE, !.woken = FALSE]

NextStep == NewStep(FALSE, 0, 0)

Start ==
  /\ loop.pc = "created"
  /\ \/ Settled /\ Passes("returned")
     \/ /\ ~ Settled
        /\ state' = Moved("running")
        /\ Goes("head")
        /\ UNCHANGED <<result, terminals, accepting, aborted, commands, calls,
                       task>>

(* canEnterLoopStep; a step that is entered drains the notifications.      *)
CanEnterLoopStep == loop.step <= MaxSteps \/ loop.forced

EnterStep ==
  /\ loop.pc = "head"
  /\ CanEnterLoopStep
  /\ Goes("commands")
  /\ task' = IF task = "ended" THEN "none" ELSE task
  /\ UNCHANGED <<record, commands, calls>>

(* finishWithBudgetWrapUp: one turn without tools, and no more commands.   *)
StartWrapUp ==
  /\ loop.pc = "head"
  /\ ~ CanEnterLoopStep
  /\ accepting' = FALSE
  /\ Goes("wrap_up")
  /\ UNCHANGED <<state, result, terminals, aborted, commands, calls, task>>

WrapUpFails ==
  /\ loop.pc = "wrap_up"
  /\ Returns("failed")

WrapUpAnswers ==
  /\ loop.pc = "wrap_up"
  /\ Ends("completed")
  /\ Goes("returned")
  /\ unseen' = {}
  /\ UNCHANGED <<aborted, calls, task>>

(* consumePendingCommands applies the queue up to the first cancel, which  *)
(* ends the run.                                                           *)
Applied(n) ==
  [m \in Command |-> IF \E i \in 1..n : queue[i] = m THEN "applied"
                                                     ELSE status[m]]

HasCancel == \E m \in ToSet(queue) : KindOf[m] = "cancel"

ApplyCancel ==
  /\ loop.pc = "commands"
  /\ HasCancel
  /\ LET n == CHOOSE i \in 1..Len(queue) :
                /\ KindOf[queue[i]] = "cancel"
                /\ \A j \in 1..i-1 : KindOf[queue[j]] # "cancel"
     IN  /\ status' = [m \in Command |->
                         IF m \in ToSet(SubSeq(queue, n + 1, Len(queue)))
                         THEN "rejected" ELSE Applied(n)[m]]
         /\ unseen' = unseen \union
                        {queue[i] : i \in 1..n-1}
  /\ queue' = << >>
  /\ state' = Moved("cancelled") /\ result' = "cancelled"
  /\ terminals' = terminals + 1
  /\ accepting' = FALSE /\ aborted' = TRUE
  /\ Goes("returned")
  /\ UNCHANGED <<calls, task>>

ApplyAtTheEnd ==  \* a mutant: commands are also applied to an answer
  /\ loop.pc \in {"commands", "answer"}
  /\ ~ HasCancel /\ ~ aborted
  /\ status' = Applied(Len(queue))
  /\ unseen' = unseen \union ToSet(queue)
  /\ queue' = << >>
  /\ Goes(IF loop.pc = "commands" THEN "model" ELSE "answer")
  /\ UNCHANGED <<record, calls, task>>

ApplyMessages ==
  /\ loop.pc = "commands"
  /\ ~ HasCancel /\ ~ aborted
  /\ status' = Applied(Len(queue))
  /\ unseen' = unseen \union ToSet(queue)
  /\ queue' = << >>
  /\ Goes("model")
  /\ UNCHANGED <<record, calls, task>>

(* handleAbortBetweenTurns.  What is queued was applied just before.       *)
AbortBetweenTurns ==
  /\ loop.pc = "commands"
  /\ ~ HasCancel /\ aborted
  /\ IF Settled THEN UNCHANGED <<state, result, terminals, accepting>>
     ELSE /\ state' = Moved("failed") /\ result' = "failed"
          /\ terminals' = terminals + 1 /\ accepting' = FALSE
  /\ status' = Applied(Len(queue))
  /\ unseen' = unseen \union ToSet(queue)
  /\ queue' = << >>
  /\ Goes("returned")
  /\ UNCHANGED <<aborted, calls, task>>

(* A turn fails: the model, its output, a budget, a hook or an abort.      *)
TurnFails ==
  /\ loop.pc = "model"
  /\ Returns("failed")

(* awaitCredentialRefresh, once in a step; the step is then tried again,   *)
(* as an ordinary one.                                                     *)
AskCredentials ==
  /\ loop.pc = "model"
  /\ ~ aborted
  /\ ~ loop.refreshed
  /\ state' = Moved("waiting_credentials")
  /\ loop' = [loop EXCEPT !.pc = "credentials", !.refreshed = TRUE]
  /\ UNCHANGED <<result, terminals, accepting, aborted, commands, calls, task>>

CredentialsRefreshed ==
  /\ loop.pc = "credentials"
  /\ state' = Moved("running")
  /\ loop' = [loop EXCEPT !.pc = "head", !.forced = FALSE]
  /\ UNCHANGED <<result, terminals, accepting, aborted, commands, calls, task>>

CredentialsRefused ==
  /\ loop.pc = "credentials"
  /\ Returns("failed")

(* callModelPhase recovers from output or input that is too long, or falls *)
(* back to another model: the step is tried again, as an ordinary one.     *)
ModelRecovers ==
  /\ loop.pc = "model"
  /\ loop' = [loop EXCEPT !.pc = "head", !.forced = FALSE]
  /\ UNCHANGED <<record, commands, calls, task>>

ModelCalls(S, terminal) ==
  /\ loop.pc = "model"
  /\ S # {} /\ \A c \in S : call[c] = "new"
  /\ terminal => Cardinality(S) = 1
  /\ loop' = [loop EXCEPT !.pc = "tools", !.todo = S,
                       !.terminal = IF terminal THEN S ELSE {}]
  /\ unseen' = {}
  /\ UNCHANGED <<record, queue, status, calls, task>>

ModelAnswers ==
  /\ loop.pc = "model"
  /\ Goes("answer")
  /\ unseen' = {}
  /\ UNCHANGED <<record, queue, status, calls, task>>

(* The batches of a turn: one call, or shared ones that run concurrently.  *)
BatchDone == loop.pc = "tools" /\ batch = {}

StartBatch(S) ==
  /\ BatchDone /\ ~ loop.over
  /\ ~ aborted
  /\ S # {} /\ S \subseteq loop.todo
  /\ S \subseteq Shared \/ \E c \in S : S = {c}
  /\ batch' = S
  /\ call' = [c \in Call |-> IF c \in S THEN "gate" ELSE call[c]]
  /\ loop' = [loop EXCEPT !.todo = @ \ S]
  /\ UNCHANGED <<record, commands, givenUp, task>>

AbortedTools ==
  /\ BatchDone /\ ~ loop.over
  /\ aborted /\ loop.todo # {}
  /\ Returns("failed")

(* A call of the batch ended the run.                                      *)
BatchOver == BatchDone /\ loop.over /\ Passes("returned")

ToolsDone == BatchDone /\ ~ loop.over /\ loop.todo = {}

(* A terminal tool ends the run; one that was given up has no result.      *)
TerminalTool ==
  /\ ToolsDone
  /\ loop.terminal # {}
  /\ \/ loop.terminal \intersect givenUp = {} /\ Returns("completed")
     \/ Returns("failed")

(* continueForPendingCommands: commands that wait at the end of a turn get *)
(* one more, within the steps or paid by the interaction budget; a cancel  *)
(* needs no budget.  It returns nothing (Declines) when there are no       *)
(* commands, or when it rejected them.                                     *)
Continues ==
  /\ queue # << >>
  /\ \/ loop.step + 1 <= MaxSteps /\ NextStep
     \/ loop.step + 1 > MaxSteps /\ HasCancel /\ NewStep(TRUE, 0, 0)
     \/ /\ loop.step + 1 > MaxSteps /\ ~ HasCancel
        /\ loop.steers < MaxSteers
        /\ NewStep(TRUE, 0, 1)
  /\ UNCHANGED <<record, commands, calls, task>>

Declines ==
  queue = << >> \/ (/\ loop.step + 1 > MaxSteps /\ ~ HasCancel
                    /\ loop.steers >= MaxSteers)

NextTurn ==
  /\ ToolsDone
  /\ loop.terminal = {}
  /\ \/ Continues
     \/ /\ Declines
        /\ RejectedPending
        /\ NextStep
        /\ UNCHANGED <<record, unseen, calls, task>>

(* waitForAwaitedTasksBeforeTerminal, while the hooks of an answer and the *)
(* check for tasks are awaited.                                            *)
HasAwaitedPending == task # "none"

MustWait == loop.revivals < MaxRevivals /\ HasAwaitedPending /\ ~ Terminal

StartWaiting ==
  /\ loop.pc = "answer"
  /\ MustWait
  /\ state' = Moved("waiting_tasks")
  /\ loop' = [loop EXCEPT !.pc = "waiting", !.previous = state,
                          !.woken = FALSE]
  /\ UNCHANGED <<result, terminals, accepting, aborted, commands, calls, task>>

(* The race: the end of the task, a command, or the abort signal, the last *)
(* two only when they come during the wait.                                *)
AwaitedTaskOnly ==  \* a mutant: only the task ends the wait
  task = "ended"

WaitIsOver == task = "ended" \/ loop.woken

WaitOver ==
  /\ loop.pc = "waiting"
  /\ WaitIsOver
  /\ state' = IF state = "waiting_tasks" THEN Moved(loop.previous) ELSE state
  /\ IF Terminal THEN Goes("answer") ELSE NewStep(TRUE, 1, 0)
  /\ UNCHANGED <<result, terminals, accepting, aborted, commands, calls, task>>

Answer ==
  /\ loop.pc = "answer"
  /\ ~ MustWait
  /\ Continues \/ (Declines /\ Returns("completed"))

-----------------------------------------------------------------------------
(* Tool calls *)

AtCall(c, from, to) ==
  /\ call[c] = from
  /\ call' = [call EXCEPT ![c] = to]
  /\ batch' = IF to = "over" THEN batch \ {c} ELSE batch
  /\ UNCHANGED <<givenUp, commands, loop, task>>

SetsState(to) ==
  state' = Moved(to) /\ UNCHANGED <<result, terminals, accepting, aborted>>

(* A workflow hook or the doom loop guard makes a call end the run, while  *)
(* the other calls of its batch go on.                                     *)
EndsRun(c) ==
  /\ call[c] = "gate"
  /\ Ends("failed")
  /\ call' = [call EXCEPT ![c] = "over"]
  /\ batch' = batch \ {c}
  /\ loop' = [loop EXCEPT !.over = TRUE]
  /\ UNCHANGED <<aborted, unseen, givenUp, task>>

(* The abort signal is checked once more before the body starts.           *)
ExecuteAnyway(c, from) ==  \* a mutant: the signal is not checked
  AtCall(c, from, "propose")

Execute(c, from) == AtCall(c, from, IF aborted THEN "over" ELSE "propose")

(* checkToolGate: deny, pass, or ask for approval.                         *)
Gate(c) ==
  \/ AtCall(c, "gate", "over") /\ UNCHANGED record
  \/ Execute(c, "gate") /\ UNCHANGED record
  \/ AtCall(c, "gate", "gate_approval") /\ SetsState("waiting_approval")

GateAnswer(c) ==
  /\ Execute(c, "gate_approval") \/ AtCall(c, "gate_approval", "over")
  /\ SetsState("running")

(* mutateFile: the proposal fails, passes, or is put to the approver.      *)
Propose(c) ==
  \/ AtCall(c, "propose", "over") /\ UNCHANGED record
  \/ c \notin Shared /\ AtCall(c, "propose", "write") /\ UNCHANGED record
  \/ c \notin Shared /\ AtCall(c, "propose", "write_approval")
     /\ SetsState("waiting_approval")

WriteAnswer(c) ==
  /\ \/ AtCall(c, "write_approval", "write")
     \/ AtCall(c, "write_approval", "over")
  /\ SetsState("running")

(* The baseline is checked and the file written, or the body fails.        *)
Write(c) == AtCall(c, "write", "over") /\ UNCHANGED record

(* The timeout of the tool fires; its body runs on.                        *)
Timeout(c) ==
  /\ c \in batch /\ call[c] \in Body
  /\ batch' = batch \ {c}
  /\ givenUp' = givenUp \union {c}
  /\ UNCHANGED <<record, commands, loop, call, task>>

-----------------------------------------------------------------------------
(* The awaited task of the run *)

TaskStarts ==
  /\ task = "none"
  /\ loop.pc = "tools" /\ batch # {}
  /\ task' = "running"
  /\ UNCHANGED <<record, commands, loop, calls>>

TaskEnds ==
  /\ task = "running"
  /\ task' = "ended"
  /\ UNCHANGED <<record, commands, loop, calls>>

-----------------------------------------------------------------------------
Turn ==
  \/ Start \/ EnterStep \/ StartWrapUp \/ WrapUpFails \/ WrapUpAnswers
  \/ ApplyCancel \/ ApplyMessages \/ AbortBetweenTurns
  \/ TurnFails \/ ModelRecovers
  \/ AskCredentials \/ CredentialsRefreshed \/ CredentialsRefused
  \/ \E S \in SUBSET Call, terminal \in BOOLEAN : ModelCalls(S, terminal)
  \/ ModelAnswers
  \/ \E S \in SUBSET Call : StartBatch(S)
  \/ AbortedTools \/ BatchOver \/ TerminalTool \/ NextTurn
  \/ StartWaiting \/ WaitOver \/ Answer

Tool(c) ==
  \/ EndsRun(c) \/ Gate(c) \/ GateAnswer(c)
  \/ Propose(c) \/ WriteAnswer(c) \/ Write(c)

Next ==
  \/ Turn
  \/ \E c \in Call : Tool(c)
  \/ \E c \in Call : Timeout(c)
  \/ \E m \in Command : Enqueue(m)
  \/ Cancel
  \/ ExternalAbort
  \/ TaskStarts
  \/ TaskEnds

Spec == Init /\ [][Next]_vars

(* Models, credential resolvers and approvers answer, bodies finish; the   *)
(* awaited task may run for ever.                                          *)
FairSpec == Spec /\ WF_vars(Turn) /\ WF_vars(\E c \in Call : Tool(c))

-----------------------------------------------------------------------------
(* Properties *)

(* Whoever ends the run first ends it for good: one terminal event, a      *)
(* state that agrees with the result, and every accepted command applied   *)
(* or rejected.  The exception are runs that gave up on a tool call.       *)
EndsOnce ==
  givenUp = {} =>
    /\ terminals <= 1
    /\ result # "none" => state = result /\ queue = << >>

(* The same for every run.  The code breaks this: complete() on a run that *)
(* an abandoned write still holds in waiting_approval emits its event, but *)
(* the state stays, and a later cancel() ends the run again.               *)
OneTerminalEvent == terminals <= 1

(* A message that was applied was seen by the model before the run         *)
(* completed: it is never acknowledged and dropped.                        *)
MessagesSeen == result = "completed" => unseen = {}

(* Every turn beyond the step limit is paid for: by the revival budget, by *)
(* the interaction budget, or it only applies a cancel.                    *)
TurnsArePaid ==
  loop.pc \in {"model", "credentials", "tools", "answer", "waiting"} =>
    loop.step <= MaxSteps + loop.revivals + loop.steers

(* No tool that may write starts once the run is over, also when its       *)
(* approval came too late.  (Calls that are safe to run concurrently do    *)
(* start when another call of their batch has failed the run.)             *)
NothingStartsLate ==
  [][\A c \in Call \ Shared : call[c] \notin Body /\ call'[c] \in Body
       => result = "none"]_vars

(* A queued command or an abort is acted on, even when the task of the run *)
(* goes on for ever, unless it came just before the run began to wait for  *)
(* that task: the wait listens for new commands and for the abort event,   *)
(* and does not look at what came before.                                  *)
Deaf == loop.pc = "waiting" /\ ~ loop.woken

Unheard == queue # << >> \/ (aborted /\ loop.pc # "returned")

Heard == Unheard ~> (~ Unheard \/ Deaf)

=============================================================================
