------------------------- MODULE RunLifecycleProofs -------------------------
(***************************************************************************)
(* The end and the turns of a run, for any commands, calls and budgets.    *)
(*                                                                         *)
(* EndsOnce is not inductive: whether a run that ends gets the state it    *)
(* ends with depends on the state it is in, so the parts below tie the     *)
(* waiting states to the place where the loop waits, and a pending         *)
(* approval to a call that the loop awaits or gave up on.  NothingStarts-  *)
(* Late needs to know why a result can exist while a batch is under way,   *)
(* and TurnsArePaid what a step that was forced without pay is for.        *)
(*                                                                         *)
(* SeenBefore and TInv, further down, are what MessagesSeen and TypeOK     *)
(* need besides; both are kept by steps from states with IInv.             *)
(***************************************************************************)
EXTENDS RunLifecycle, FiniteSetTheorems, WellFoundedInduction, TLAPS

Approving == {"gate_approval", "write_approval"}

LoopType == [pc: LoopPoints, step: Nat, forced: BOOLEAN, revivals: Nat,
             steers: Nat, refreshed: BOOLEAN, todo: SUBSET Call,
             terminal: SUBSET Call, over: BOOLEAN, previous: States,
             woken: BOOLEAN]

(* The types the proofs need; TypeOK says more about the queue.            *)
Types ==
  /\ state \in States
  /\ result \in TerminalStates \union {"none"}
  /\ terminals \in Nat
  /\ aborted \in BOOLEAN
  /\ queue \in Seq(Command)
  /\ loop \in LoopType
  /\ batch \subseteq Call
  /\ call \in [Call -> CallPoints]
  /\ givenUp \subseteq Call

(* A state or a result that is final comes with the other, with an event   *)
(* and with a queue that is closed.                                        *)
Closed ==
  /\ Terminal => result # "none"
  /\ result = "none" => terminals = 0
  /\ result # "none" => ~ accepting /\ queue = << >>

(* Only a call that was given up tears state and result apart.             *)
Agrees ==
  givenUp = {} => terminals <= 1 /\ (result # "none" => state = result)

(* Where the loop is when the state says that the run waits.               *)
StateOfLoop ==
  /\ state = "created" => loop.pc = "created"
  /\ state = "waiting_credentials" => loop.pc = "credentials"
  /\ state = "waiting_tasks" =>
       loop.pc = "waiting" /\ loop.previous = "running"

(* A run that waits for an approval has a call that does, or gave up one.  *)
ApprovalHeld ==
  givenUp = {} /\ state = "waiting_approval" =>
    \E c \in batch : call[c] \in Approving

(* The calls under way are awaited by the tool phase or were given up, and *)
(* one that may write is alone in its batch.                               *)
CallsHeld ==
  /\ \A c \in Call : call[c] \in Body => c \in batch \union givenUp
  /\ \A c \in Call : call[c] \in {"gate", "gate_approval"} => c \in batch
  /\ batch # {} => loop.pc = "tools"
  /\ batch \subseteq Shared \/ \E c \in Call : batch \subseteq {c}

(* Why a run that has its result may still be on its way.                  *)
WhyOver ==
  /\ result # "none" => aborted \/ loop.over \/ loop.pc = "returned"
  /\ loop.over => loop.pc \in {"tools", "returned"}

(* A call that may write meets the end of the run as an abort.             *)
WritersHear ==
  result # "none" =>
    \A c \in Call \ Shared : call[c] \in {"gate", "gate_approval"} => aborted

(* A step beyond the limit is paid for, or there is a cancel to apply.     *)
Paid == loop.step <= MaxSteps + loop.revivals + loop.steers

StepsPaid ==
  /\ loop.pc \in {"model", "credentials", "tools", "answer", "waiting"} =>
       Paid
  /\ \/ loop.pc = "commands"
     \/ loop.pc \in {"created", "head"} /\ loop.forced
     => Paid \/ HasCancel \/ aborted

IInv ==
  /\ Types
  /\ Closed
  /\ Agrees
  /\ StateOfLoop
  /\ ApprovalHeld
  /\ CallsHeld
  /\ WhyOver
  /\ WritersHear
  /\ StepsPaid

-----------------------------------------------------------------------------
(* What a queue holds.                                                     *)
LEMMA NoneQueued == queue = << >> => ~ HasCancel
BY DEF HasCancel, ToSet

LEMMA QueuedStays ==
  ASSUME queue \in Seq(Command), NEW m \in Command,
         queue' = Append(queue, m), HasCancel
  PROVE  HasCancel'
<1>1. PICK i \in DOMAIN queue : KindOf[queue[i]] = "cancel"
  BY DEF HasCancel, ToSet
<1>2. i \in DOMAIN queue' /\ queue'[i] = queue[i]
  BY <1>1
<1>3. QED BY <1>1, <1>2 DEF HasCancel, ToSet

(* Where the loop completes a run that gave up no call, the run is running *)
(* unless it has ended.                                                    *)
LEMMA RunningAtEnd ==
  ASSUME IInv, givenUp = {}, batch = {}, result = "none",
         loop.pc \in {"tools", "answer", "wrap_up"}
  PROVE  state = "running"
BY DEF IInv, Types, LoopType, Closed, StateOfLoop, ApprovalHeld, Terminal,
      States, TerminalStates

(* Ends settles a run: with the first result, in its state unless a call   *)
(* was given up, and with nothing left in the queue.                       *)
LEMMA EndsFacts ==
  ASSUME IInv, NEW how \in TerminalStates, Ends(how),
         how = "failed" => loop.pc # "created",
         how = "completed" /\ givenUp = {} /\ result = "none" =>
           state = "running"
  PROVE  /\ state' \in States /\ result' \in TerminalStates
         /\ terminals' \in Nat
         /\ Terminal' \/ state' = state
         /\ ~ accepting' /\ queue' = << >>
         /\ givenUp = {} => terminals' <= 1 /\ state' = result'
<1>1. CASE Settled
  BY <1>1 DEF IInv, Types, Closed, Agrees, Ends, Settled
<1>2. CASE ~ Settled
  BY DEF IInv, Types, Closed, Agrees, StateOfLoop, Ends, Settled, Moved,
       CanTransition, RejectedPending, Terminal, States, TerminalStates
<1>3. QED BY <1>1, <1>2

(* The loop returns after it ended the run, with no call to await.         *)
LEMMA ReturnKeeps ==
  ASSUME IInv, batch = {}, NEW how \in TerminalStates, Ends(how),
         how = "failed" => loop.pc # "created",
         how = "completed" => loop.pc \in {"tools", "answer", "wrap_up"},
         loop' = [loop EXCEPT !.pc = "returned"],
         UNCHANGED <<aborted, calls>>
  PROVE  IInv'
<1>1. /\ state' \in States /\ result' \in TerminalStates
      /\ terminals' \in Nat
      /\ Terminal' \/ state' = state
      /\ ~ accepting' /\ queue' = << >>
      /\ givenUp = {} => terminals' <= 1 /\ state' = result'
  BY EndsFacts, RunningAtEnd
<1>2. /\ loop' \in LoopType
      /\ loop'.pc = "returned"
  BY DEF IInv, Types, LoopType, LoopPoints
<1>3. UNCHANGED <<aborted, batch, call, givenUp>>
  BY DEF calls
<1>4. Types'
  BY <1>1, <1>2, <1>3 DEF IInv, Types
<1>5. Closed' /\ Agrees'
  BY <1>1, <1>3 DEF Closed, Agrees, TerminalStates
<1>6. StateOfLoop'
  <2>1. state' \notin {"created", "waiting_credentials", "waiting_tasks"}
    BY DEF IInv, Ends, Settled, Moved, CanTransition, Terminal,
         TerminalStates, StateOfLoop
  <2>2. QED BY <2>1 DEF StateOfLoop
<1>7. ApprovalHeld'
  BY <1>1, <1>3 DEF ApprovalHeld, TerminalStates
<1>8. CallsHeld' /\ WhyOver' /\ WritersHear'
  BY <1>3 DEF IInv, CallsHeld, WhyOver, WritersHear
<1>9. StepsPaid'
  BY <1>2 DEF StepsPaid
<1>10. QED BY <1>4, <1>5, <1>6, <1>7, <1>8, <1>9 DEF IInv

(* A new step.                                                             *)
LEMMA NewStepFacts ==
  ASSUME Types, NEW forced \in BOOLEAN, NEW revivals \in Nat,
         NEW steers \in Nat, NewStep(forced, revivals, steers)
  PROVE  /\ loop' \in LoopType
         /\ loop'.pc = "head" /\ loop'.over = loop.over
         /\ loop'.forced = forced /\ loop'.step = loop.step + 1
         /\ loop'.revivals = loop.revivals + revivals
         /\ loop'.steers = loop.steers + steers
<1>1. /\ loop.step \in Nat /\ loop.revivals \in Nat /\ loop.steers \in Nat
  BY DEF Types, LoopType
<1>2. /\ loop.step + 1 \in Nat /\ loop.revivals + revivals \in Nat
      /\ loop.steers + steers \in Nat
  BY <1>1
<1>3. QED BY <1>1, <1>2 DEF Types, LoopType, NewStep, LoopPoints

(* One more turn for the commands that wait: paid for, or for a cancel.    *)
LEMMA ContinuesKeeps ==
  ASSUME IInv, Continues, batch = {}, ~ loop.over,
         loop.pc \in {"tools", "answer"}
  PROVE  IInv'
<1>1. /\ loop' \in LoopType
      /\ loop'.pc = "head" /\ ~ loop'.over
      /\ loop'.forced => HasCancel \/ Paid'
  <2>1. CASE NextStep
    BY <2>1, NewStepFacts DEF IInv, NextStep
  <2>2. CASE HasCancel /\ NewStep(TRUE, 0, 0)
    BY <2>2, NewStepFacts DEF IInv
  <2>3. CASE NewStep(TRUE, 0, 1)
    <3>1. Paid /\ loop.step \in Nat /\ loop.revivals \in Nat
          /\ loop.steers \in Nat
      BY DEF IInv, Types, LoopType, StepsPaid
    <3>2. loop'.step = loop.step + 1 /\ loop'.revivals = loop.revivals + 0
          /\ loop'.steers = loop.steers + 1
      BY <2>3, NewStepFacts DEF IInv
    <3>3. Paid'
      BY <3>1, <3>2, LifecycleAssumption DEF Paid
    <3>4. QED BY <2>3, <3>3, NewStepFacts DEF IInv
  <2>4. QED BY <2>1, <2>2, <2>3 DEF Continues
<1>2. UNCHANGED <<record, commands, calls>>
  BY DEF Continues
<1>3. Types' /\ Closed' /\ Agrees'
  BY <1>1, <1>2
     DEF IInv, Types, Closed, Agrees, Terminal, record, commands, calls
<1>4. StateOfLoop' /\ ApprovalHeld'
  BY <1>2 DEF IInv, StateOfLoop, ApprovalHeld, record, calls
<1>5. CallsHeld' /\ WhyOver' /\ WritersHear'
  BY <1>1, <1>2 DEF IInv, CallsHeld, WhyOver, WritersHear, record, calls
<1>6. StepsPaid'
  BY <1>1, <1>2 DEF StepsPaid, HasCancel, commands
<1>7. QED BY <1>3, <1>4, <1>5, <1>6 DEF IInv

(* A started run is running, unless it was ended before.                   *)
LEMMA StartKeeps ==
  ASSUME IInv, Start
  PROVE  IInv'
<1>1. Types'
  BY DEF IInv, Types, LoopType, LoopPoints, States, Start, Passes, Goes,
       Moved, record, commands, calls
<1>2. Closed'
  BY DEF IInv, Closed, Start, Passes, Moved, record, commands, Terminal,
       TerminalStates
<1>3. Agrees'
  BY DEF IInv, Agrees, Types, Start, Passes, Settled, record, calls, Terminal
<1>4. StateOfLoop'
  BY DEF StateOfLoop, Start, Passes, Settled, Moved, CanTransition, record,
       Terminal, TerminalStates
<1>5. ApprovalHeld'
  BY DEF IInv, ApprovalHeld, Start, Passes, Moved, record, calls
<1>6. CallsHeld'
  BY DEF IInv, CallsHeld, Start, Passes, calls
<1>7. WhyOver'
  BY DEF IInv, WhyOver, Types, LoopType, Start, Passes, Goes
<1>8. WritersHear'
  BY DEF IInv, WritersHear, WhyOver, Start, Passes, record
<1>9. StepsPaid'
  BY DEF IInv, StepsPaid, Types, LoopType, Paid, HasCancel, Start, Passes,
       Goes, CanTransition, commands
<1>10. QED BY <1>1, <1>2, <1>3, <1>4, <1>5, <1>6, <1>7, <1>8, <1>9 DEF IInv

(* A step is entered within the limit, or forced.                          *)
LEMMA EnterStepKeeps ==
  ASSUME IInv, EnterStep
  PROVE  IInv'
<1>1. Types'
  BY DEF IInv, Types, LoopType, LoopPoints, CallPoints, Body, TerminalStates,
       EnterStep, CanEnterLoopStep, Goes, record, commands, calls, Terminal
<1>2. Closed'
  BY DEF IInv, Closed, EnterStep, record, commands, Terminal
<1>3. Agrees'
  BY DEF IInv, Agrees, EnterStep, record, calls
<1>4. StateOfLoop'
  BY DEF IInv, StateOfLoop, EnterStep, record
<1>5. ApprovalHeld'
  BY DEF IInv, ApprovalHeld, EnterStep, record, calls
<1>6. CallsHeld'
  BY DEF IInv, CallsHeld, EnterStep, calls
<1>7. WhyOver'
  BY DEF IInv, WhyOver, EnterStep, Goes, record
<1>8. WritersHear'
  BY DEF IInv, WritersHear, WhyOver, EnterStep, record
<1>9. StepsPaid'
  BY LifecycleAssumption
     DEF IInv, StepsPaid, Types, LoopType, Paid, HasCancel, EnterStep,
       CanEnterLoopStep, Goes, record, commands
<1>10. QED BY <1>1, <1>2, <1>3, <1>4, <1>5, <1>6, <1>7, <1>8, <1>9 DEF IInv

(* The wrap-up closes the queue.                                           *)
LEMMA StartWrapUpKeeps ==
  ASSUME IInv, StartWrapUp
  PROVE  IInv'
<1>1. Types'
  BY DEF IInv, Types, LoopType, LoopPoints, CallPoints, StartWrapUp, Goes,
       record, commands, calls, Terminal
<1>2. Closed'
  BY DEF IInv, Closed, StartWrapUp, commands, Terminal
<1>3. Agrees'
  BY DEF IInv, Agrees, StartWrapUp, calls
<1>4. StateOfLoop'
  BY DEF IInv, StateOfLoop, StartWrapUp
<1>5. ApprovalHeld'
  BY DEF IInv, ApprovalHeld, StartWrapUp, calls
<1>6. CallsHeld'
  BY DEF IInv, CallsHeld, StartWrapUp, calls
<1>7. WhyOver'
  BY DEF IInv, WhyOver, StartWrapUp, Goes
<1>8. WritersHear'
  BY DEF IInv, WritersHear, WhyOver, StartWrapUp
<1>9. StepsPaid'
  BY DEF StepsPaid, StartWrapUp, Goes
<1>10. QED BY <1>1, <1>2, <1>3, <1>4, <1>5, <1>6, <1>7, <1>8, <1>9 DEF IInv

(* The wrap-up turn fails.                                                 *)
LEMMA WrapUpFailsKeeps ==
  ASSUME IInv, WrapUpFails
  PROVE  IInv'
<1>1. batch = {}
  BY DEF IInv, CallsHeld, WrapUpFails
<1>2. QED
  BY <1>1, ReturnKeeps DEF WrapUpFails, Returns, Goes, TerminalStates

(* The wrap-up turn answers.                                               *)
LEMMA WrapUpAnswersKeeps ==
  ASSUME IInv, WrapUpAnswers
  PROVE  IInv'
<1>1. batch = {}
  BY DEF IInv, CallsHeld, WrapUpAnswers
<1>2. QED
  BY <1>1, ReturnKeeps DEF WrapUpAnswers, Goes, TerminalStates

(* A queued cancel ends the run, which had no end before.                  *)
LEMMA ApplyCancelKeeps ==
  ASSUME IInv, ApplyCancel
  PROVE  IInv'
<1>1. Types'
  <2>1. loop' \in LoopType
    BY DEF IInv, Types, LoopType, ApplyCancel, Goes, LoopPoints
  <2>2. state' \in States /\ result' \in TerminalStates /\ terminals' \in Nat
    BY DEF IInv, Types, ApplyCancel, Moved, States, TerminalStates
  <2>3. aborted' \in BOOLEAN /\ queue' = << >>
    BY DEF ApplyCancel
  <2>4. QED BY <2>1, <2>2, <2>3 DEF IInv, Types, LoopType, ApplyCancel, calls
<1>2. Closed'
  BY DEF Closed, ApplyCancel
<1>3. Agrees'
  BY NoneQueued
     DEF IInv, Agrees, Types, Closed, ApplyCancel, Moved, CanTransition,
       States, Terminal
<1>4. StateOfLoop'
  BY DEF IInv, StateOfLoop, ApplyCancel, Moved
<1>5. ApprovalHeld'
  BY DEF IInv, ApprovalHeld, ApplyCancel, Moved, calls
<1>6. CallsHeld'
  BY DEF IInv, CallsHeld, ApplyCancel, calls
<1>7. WhyOver'
  BY DEF WhyOver, ApplyCancel, Goes
<1>8. WritersHear'
  BY DEF WritersHear, ApplyCancel
<1>9. StepsPaid'
  BY DEF StepsPaid, ApplyCancel, Goes
<1>10. QED BY <1>1, <1>2, <1>3, <1>4, <1>5, <1>6, <1>7, <1>8, <1>9 DEF IInv

(* Messages are applied when nothing is left to be cancelled.              *)
LEMMA ApplyMessagesKeeps ==
  ASSUME IInv, ApplyMessages
  PROVE  IInv'
<1>1. Types'
  BY DEF IInv, Types, LoopType, LoopPoints, CallPoints, Body, States,
       TerminalStates, ApplyMessages, Goes, record, commands, calls, Terminal
<1>2. Closed'
  BY DEF IInv, Closed, ApplyMessages, record, Terminal
<1>3. Agrees'
  BY DEF IInv, Agrees, ApplyMessages, record, calls
<1>4. StateOfLoop'
  BY DEF IInv, StateOfLoop, ApplyMessages, record
<1>5. ApprovalHeld'
  BY DEF IInv, ApprovalHeld, ApplyMessages, record, calls
<1>6. CallsHeld'
  BY DEF IInv, CallsHeld, ApplyMessages, calls
<1>7. WhyOver'
  BY DEF IInv, WhyOver, ApplyMessages, Goes, record
<1>8. WritersHear'
  BY DEF IInv, WritersHear, WhyOver, ApplyMessages, record
<1>9. StepsPaid'
  BY DEF IInv, StepsPaid, Paid, ApplyMessages, Goes
<1>10. QED BY <1>1, <1>2, <1>3, <1>4, <1>5, <1>6, <1>7, <1>8, <1>9 DEF IInv

(* An abort ends the run unless it has an end.                             *)
LEMMA AbortBetweenTurnsKeeps ==
  ASSUME IInv, AbortBetweenTurns
  PROVE  IInv'
<1>1. Types'
  BY DEF IInv, Types, LoopType, LoopPoints, CallPoints, States,
       TerminalStates, AbortBetweenTurns, Goes, HasCancel, Settled, Moved,
       calls
<1>2. Closed'
  BY DEF IInv, Closed, AbortBetweenTurns, Settled
<1>3. Agrees'
  BY DEF IInv, Agrees, Types, Closed, StateOfLoop, AbortBetweenTurns, Settled,
       Moved, CanTransition, States, calls, Terminal
<1>4. StateOfLoop'
  BY DEF IInv, StateOfLoop, AbortBetweenTurns, Moved
<1>5. ApprovalHeld'
  BY DEF IInv, ApprovalHeld, AbortBetweenTurns, Moved, calls
<1>6. CallsHeld'
  BY DEF IInv, CallsHeld, AbortBetweenTurns, calls
<1>7. WhyOver'
  BY DEF WhyOver, AbortBetweenTurns, Goes
<1>8. WritersHear'
  BY DEF WritersHear, AbortBetweenTurns
<1>9. StepsPaid'
  BY DEF StepsPaid, AbortBetweenTurns, Goes
<1>10. QED BY <1>1, <1>2, <1>3, <1>4, <1>5, <1>6, <1>7, <1>8, <1>9 DEF IInv

(* A failed turn ends the run.                                             *)
LEMMA TurnFailsKeeps ==
  ASSUME IInv, TurnFails
  PROVE  IInv'
<1>1. batch = {}
  BY DEF IInv, CallsHeld, TurnFails
<1>2. QED
  BY <1>1, ReturnKeeps DEF TurnFails, Returns, Goes, TerminalStates

(* A recovered step is an ordinary one.                                    *)
LEMMA ModelRecoversKeeps ==
  ASSUME IInv, ModelRecovers
  PROVE  IInv'
<1>1. Types'
  BY LifecycleAssumption
     DEF IInv, Types, LoopType, LoopPoints, CallPoints, Body, States,
       TerminalStates, ModelRecovers, record, commands, calls, Terminal
<1>2. Closed'
  BY DEF IInv, Closed, ModelRecovers, record, commands, Terminal
<1>3. Agrees'
  BY DEF IInv, Agrees, ModelRecovers, record, calls
<1>4. StateOfLoop'
  BY DEF IInv, StateOfLoop, ModelRecovers, record
<1>5. ApprovalHeld'
  BY DEF IInv, ApprovalHeld, ModelRecovers, record, calls
<1>6. CallsHeld'
  BY DEF IInv, CallsHeld, ModelRecovers, calls
<1>7. WhyOver'
  BY DEF IInv, WhyOver, ModelRecovers, record
<1>8. WritersHear'
  BY DEF IInv, WritersHear, WhyOver, ModelRecovers, record
<1>9. StepsPaid'
  BY DEF StepsPaid, ModelRecovers
<1>10. QED BY <1>1, <1>2, <1>3, <1>4, <1>5, <1>6, <1>7, <1>8, <1>9 DEF IInv

(* The run waits for credentials.                                          *)
LEMMA AskCredentialsKeeps ==
  ASSUME IInv, AskCredentials
  PROVE  IInv'
<1>1. Types'
  BY LifecycleAssumption
     DEF IInv, Types, LoopType, LoopPoints, CallPoints, Body, States,
       TerminalStates, AskCredentials, Moved, CanTransition, record, commands,
       calls, Terminal
<1>2. Closed'
  BY DEF IInv, Closed, AskCredentials, Moved, commands, Terminal,
       TerminalStates
<1>3. Agrees'
  BY DEF IInv, Agrees, Types, AskCredentials, Moved, calls, Terminal
<1>4. StateOfLoop'
  BY DEF IInv, StateOfLoop, AskCredentials, Moved
<1>5. ApprovalHeld'
  BY DEF IInv, ApprovalHeld, AskCredentials, Moved, calls
<1>6. CallsHeld'
  BY DEF IInv, CallsHeld, AskCredentials, calls
<1>7. WhyOver'
  BY DEF IInv, WhyOver, AskCredentials
<1>8. WritersHear'
  BY DEF IInv, WritersHear, WhyOver, AskCredentials
<1>9. StepsPaid'
  BY DEF IInv, StepsPaid, Paid, AskCredentials
<1>10. QED BY <1>1, <1>2, <1>3, <1>4, <1>5, <1>6, <1>7, <1>8, <1>9 DEF IInv

(* The run has its credentials.                                            *)
LEMMA CredentialsRefreshedKeeps ==
  ASSUME IInv, CredentialsRefreshed
  PROVE  IInv'
<1>1. Types'
  BY LifecycleAssumption
     DEF IInv, Types, LoopType, LoopPoints, CallPoints, Body, States,
       TerminalStates, CredentialsRefreshed, Moved, CanTransition, record,
       commands, calls, Terminal
<1>2. Closed'
  BY DEF IInv, Closed, CredentialsRefreshed, Moved, commands, Terminal,
       TerminalStates
<1>3. Agrees'
  BY DEF IInv, Agrees, Types, CredentialsRefreshed, Moved, calls, Terminal
<1>4. StateOfLoop'
  BY DEF StateOfLoop, CredentialsRefreshed, Moved, CanTransition, Terminal,
       TerminalStates
<1>5. ApprovalHeld'
  BY DEF IInv, ApprovalHeld, CredentialsRefreshed, Moved, calls
<1>6. CallsHeld'
  BY DEF IInv, CallsHeld, CredentialsRefreshed, calls
<1>7. WhyOver'
  BY DEF IInv, WhyOver, CredentialsRefreshed
<1>8. WritersHear'
  BY DEF IInv, WritersHear, WhyOver, CredentialsRefreshed
<1>9. StepsPaid'
  BY DEF StepsPaid, CredentialsRefreshed
<1>10. QED BY <1>1, <1>2, <1>3, <1>4, <1>5, <1>6, <1>7, <1>8, <1>9 DEF IInv

(* Refused credentials end the run.                                        *)
LEMMA CredentialsRefusedKeeps ==
  ASSUME IInv, CredentialsRefused
  PROVE  IInv'
<1>1. batch = {}
  BY DEF IInv, CallsHeld, CredentialsRefused
<1>2. QED
  BY <1>1, ReturnKeeps DEF CredentialsRefused, Returns, Goes, TerminalStates

(* The model calls tools.                                                  *)
LEMMA ModelCallsKeeps ==
  ASSUME IInv, NEW S \in SUBSET Call, NEW terminal \in BOOLEAN,
         ModelCalls(S, terminal)
  PROVE  IInv'
<1>1. Types'
  BY LifecycleAssumption
     DEF IInv, Types, LoopType, LoopPoints, CallPoints, Body, States,
       TerminalStates, ModelCalls, record, commands, calls, Terminal
<1>2. Closed'
  BY DEF IInv, Closed, ModelCalls, record, Terminal
<1>3. Agrees'
  BY DEF IInv, Agrees, ModelCalls, record, calls
<1>4. StateOfLoop'
  BY DEF IInv, StateOfLoop, ModelCalls, record
<1>5. ApprovalHeld'
  BY DEF IInv, ApprovalHeld, ModelCalls, record, calls
<1>6. CallsHeld'
  BY DEF IInv, CallsHeld, ModelCalls, calls
<1>7. WhyOver'
  BY DEF IInv, WhyOver, ModelCalls, record
<1>8. WritersHear'
  BY DEF IInv, WritersHear, WhyOver, ModelCalls, record
<1>9. StepsPaid'
  BY DEF IInv, StepsPaid, Paid, ModelCalls
<1>10. QED BY <1>1, <1>2, <1>3, <1>4, <1>5, <1>6, <1>7, <1>8, <1>9 DEF IInv

(* The model answers.                                                      *)
LEMMA ModelAnswersKeeps ==
  ASSUME IInv, ModelAnswers
  PROVE  IInv'
<1>1. Types'
  BY DEF IInv, Types, LoopType, LoopPoints, Body, States, ModelAnswers, Goes,
       record, calls
<1>2. Closed'
  BY DEF IInv, Closed, ModelAnswers, record, Terminal
<1>3. Agrees'
  BY DEF IInv, Agrees, ModelAnswers, record, calls
<1>4. StateOfLoop'
  BY DEF IInv, StateOfLoop, ModelAnswers, record
<1>5. ApprovalHeld'
  BY DEF IInv, ApprovalHeld, ModelAnswers, record, calls
<1>6. CallsHeld'
  BY DEF IInv, CallsHeld, ModelAnswers, calls
<1>7. WhyOver'
  BY DEF IInv, WhyOver, ModelAnswers, Goes, record
<1>8. WritersHear'
  BY DEF IInv, WritersHear, WhyOver, ModelAnswers, record
<1>9. StepsPaid'
  BY DEF IInv, StepsPaid, Paid, ModelAnswers, Goes
<1>10. QED BY <1>1, <1>2, <1>3, <1>4, <1>5, <1>6, <1>7, <1>8, <1>9 DEF IInv

(* A batch starts in a run that has no result.                             *)
LEMMA StartBatchKeeps ==
  ASSUME IInv, NEW S \in SUBSET Call, StartBatch(S)
  PROVE  IInv'
<1>1. Types'
  BY DEF IInv, Types, LoopType, CallPoints, Body, TerminalStates, StartBatch,
       BatchDone, record, commands, calls, Terminal
<1>2. Closed'
  BY DEF IInv, Closed, StartBatch, record, commands, Terminal
<1>3. Agrees'
  BY DEF IInv, Agrees, StartBatch, record
<1>4. StateOfLoop'
  BY DEF IInv, StateOfLoop, StartBatch, record
<1>5. ApprovalHeld'
  BY DEF IInv, ApprovalHeld, StartBatch, BatchDone, record
<1>6. CallsHeld'
  <2>1. batch' = S /\ loop'.pc = "tools" /\ batch = {}
    BY DEF StartBatch, BatchDone
  <2>2. \A c \in Call : call'[c] = IF c \in S THEN "gate" ELSE call[c]
    BY DEF StartBatch
  <2>3. S \subseteq Shared \/ \E c \in Call : S \subseteq {c}
    BY DEF StartBatch
  <2>4. QED BY <2>1, <2>2, <2>3 DEF IInv, CallsHeld, StartBatch, Body
<1>7. WhyOver'
  BY DEF IInv, WhyOver, StartBatch, record
<1>8. WritersHear'
  BY DEF IInv, WritersHear, WhyOver, StartBatch, BatchDone, record
<1>9. StepsPaid'
  BY DEF IInv, StepsPaid, Paid, StartBatch, BatchDone
<1>10. QED BY <1>1, <1>2, <1>3, <1>4, <1>5, <1>6, <1>7, <1>8, <1>9 DEF IInv

(* An abort between two batches ends the run.                              *)
LEMMA AbortedToolsKeeps ==
  ASSUME IInv, AbortedTools
  PROVE  IInv'
BY ReturnKeeps DEF AbortedTools, BatchDone, Returns, Goes, TerminalStates

(* The batch that ended the run is over.                                   *)
LEMMA BatchOverKeeps ==
  ASSUME IInv, BatchOver
  PROVE  IInv'
<1>1. Types'
  BY DEF IInv, Types, LoopType, LoopPoints, Body, TerminalStates, BatchOver,
       BatchDone, Passes, Goes, record, commands, calls, Terminal
<1>2. Closed'
  BY DEF IInv, Closed, BatchOver, Passes, record, commands, Terminal
<1>3. Agrees'
  BY DEF IInv, Agrees, BatchOver, Passes, record, calls
<1>4. StateOfLoop'
  BY DEF IInv, StateOfLoop, BatchOver, BatchDone, Passes, record
<1>5. ApprovalHeld'
  BY DEF IInv, ApprovalHeld, BatchOver, Passes, record, calls
<1>6. CallsHeld'
  BY DEF IInv, CallsHeld, BatchOver, BatchDone, Passes, calls
<1>7. WhyOver'
  BY DEF WhyOver, BatchOver, Passes, Goes
<1>8. WritersHear'
  BY DEF IInv, WritersHear, CallsHeld, BatchOver, BatchDone, Passes, calls
<1>9. StepsPaid'
  BY DEF StepsPaid, BatchOver, Passes, Goes
<1>10. QED BY <1>1, <1>2, <1>3, <1>4, <1>5, <1>6, <1>7, <1>8, <1>9 DEF IInv

(* A terminal tool ends the run.                                           *)
LEMMA TerminalToolKeeps ==
  ASSUME IInv, TerminalTool
  PROVE  IInv'
BY ReturnKeeps
   DEF TerminalTool, ToolsDone, BatchDone, Returns, Goes, TerminalStates

(* After its tools the loop takes another turn.                            *)
LEMMA NextTurnKeeps ==
  ASSUME IInv, NextTurn
  PROVE  IInv'
<1>1. batch = {} /\ ~ loop.over /\ loop.pc = "tools"
  BY DEF NextTurn, ToolsDone, BatchDone
<1>2. CASE Continues
  BY <1>1, <1>2, ContinuesKeeps
<1>3. CASE RejectedPending /\ NextStep /\ UNCHANGED <<record, calls>>
  <2>1. /\ loop' \in LoopType
        /\ loop'.pc = "head" /\ ~ loop'.over /\ ~ loop'.forced
    BY <1>1, <1>3, NewStepFacts DEF IInv, NextStep
  <2>2. queue' = << >> /\ UNCHANGED <<record, calls>>
    BY <1>3 DEF RejectedPending
  <2>3. Types' /\ Closed' /\ Agrees'
    BY <2>1, <2>2 DEF IInv, Types, Closed, Agrees, Terminal, record, calls
  <2>4. StateOfLoop' /\ ApprovalHeld'
    BY <1>1, <2>2 DEF IInv, StateOfLoop, ApprovalHeld, record, calls
  <2>5. CallsHeld' /\ WhyOver' /\ WritersHear'
    BY <1>1, <2>1, <2>2
       DEF IInv, CallsHeld, WhyOver, WritersHear, record, calls
  <2>6. StepsPaid'
    BY <2>1 DEF StepsPaid
  <2>7. QED BY <2>3, <2>4, <2>5, <2>6 DEF IInv
<1>4. QED BY <1>2, <1>3 DEF NextTurn

(* Only a running run begins to wait for its tasks.                        *)
LEMMA StartWaitingKeeps ==
  ASSUME IInv, StartWaiting
  PROVE  IInv'
<1>1. Types'
  BY LifecycleAssumption
     DEF IInv, Types, LoopType, LoopPoints, CallPoints, Body, States,
       TerminalStates, StartWaiting, MustWait, Moved, CanTransition, record,
       commands, calls, Terminal
<1>2. Closed'
  BY DEF IInv, Closed, StartWaiting, Moved, commands, Terminal, TerminalStates
<1>3. Agrees'
  BY DEF IInv, Agrees, Types, StartWaiting, MustWait, calls, Terminal
<1>4. StateOfLoop'
  BY DEF IInv, StateOfLoop, StartWaiting, Moved, CanTransition
<1>5. ApprovalHeld'
  BY DEF IInv, ApprovalHeld, StartWaiting, Moved, calls
<1>6. CallsHeld'
  BY DEF IInv, CallsHeld, StartWaiting, calls
<1>7. WhyOver'
  BY DEF IInv, WhyOver, StartWaiting
<1>8. WritersHear'
  BY DEF IInv, WritersHear, WhyOver, StartWaiting
<1>9. StepsPaid'
  BY DEF IInv, StepsPaid, Paid, StartWaiting
<1>10. QED BY <1>1, <1>2, <1>3, <1>4, <1>5, <1>6, <1>7, <1>8, <1>9 DEF IInv

(* The end of the wait gives the run its state back.                       *)
LEMMA WaitOverKeeps ==
  ASSUME IInv, WaitOver
  PROVE  IInv'
<1>1. /\ state' = IF state = "waiting_tasks" THEN "running" ELSE state
      /\ state' \in States
      /\ loop.pc = "waiting" /\ batch = {} /\ ~ loop.over
      /\ UNCHANGED <<result, terminals, accepting, aborted, commands, calls>>
  BY DEF IInv, Types, LoopType, StateOfLoop, CallsHeld, WhyOver, WaitOver,
       Moved, CanTransition, Terminal, TerminalStates
<1>2. /\ loop' \in LoopType
      /\ loop'.pc \in {"answer", "head"} /\ ~ loop'.over
      /\ Paid'
  <2>1. Paid
    BY <1>1 DEF IInv, StepsPaid
  <2>2. CASE Goes("answer")
    BY <1>1, <2>1, <2>2 DEF IInv, Types, LoopType, Goes, LoopPoints, Paid
  <2>3. CASE NewStep(TRUE, 1, 0)
    <3>1. loop.step \in Nat /\ loop.revivals \in Nat /\ loop.steers \in Nat
      BY DEF IInv, Types, LoopType
    <3>2. loop'.step = loop.step + 1 /\ loop'.revivals = loop.revivals + 1
          /\ loop'.steers = loop.steers + 0
      BY <2>3, NewStepFacts DEF IInv
    <3>3. Paid'
      BY <2>1, <3>1, <3>2, LifecycleAssumption DEF Paid
    <3>4. QED BY <1>1, <2>3, <3>3, NewStepFacts DEF IInv
  <2>4. QED BY <2>2, <2>3 DEF WaitOver
<1>3. Types'
  BY <1>1, <1>2 DEF IInv, Types, commands, calls
<1>4. Closed' /\ Agrees'
  BY <1>1
     DEF IInv, Types, Closed, Agrees, Terminal, TerminalStates, commands,
       calls
<1>5. StateOfLoop' /\ ApprovalHeld'
  BY <1>1 DEF IInv, StateOfLoop, ApprovalHeld, calls
<1>6. CallsHeld' /\ WhyOver' /\ WritersHear'
  BY <1>1, <1>2 DEF IInv, CallsHeld, WhyOver, WritersHear, calls
<1>7. StepsPaid'
  BY <1>2 DEF StepsPaid
<1>8. QED BY <1>3, <1>4, <1>5, <1>6, <1>7 DEF IInv

(* An answer takes another turn or ends the run.                           *)
LEMMA AnswerKeeps ==
  ASSUME IInv, Answer
  PROVE  IInv'
<1>1. batch = {} /\ ~ loop.over /\ loop.pc = "answer"
  BY DEF IInv, CallsHeld, WhyOver, Answer
<1>2. CASE Continues
  BY <1>1, <1>2, ContinuesKeeps
<1>3. CASE Returns("completed")
  BY <1>1, <1>3, ReturnKeeps DEF Returns, Goes, TerminalStates
<1>4. QED BY <1>2, <1>3 DEF Answer

(* A call that ends the run leaves the rest of its batch to be awaited.    *)
LEMMA EndsRunKeeps ==
  ASSUME IInv, NEW c \in Call, EndsRun(c)
  PROVE  IInv'
<1>1. c \in batch /\ loop.pc = "tools" /\ call[c] = "gate"
  BY DEF IInv, CallsHeld, EndsRun
<1>2. /\ state' \in States /\ result' \in TerminalStates
      /\ terminals' \in Nat
      /\ Terminal' \/ state' = state
      /\ ~ accepting' /\ queue' = << >>
      /\ givenUp = {} => terminals' <= 1 /\ state' = result'
  BY <1>1, EndsFacts DEF EndsRun, TerminalStates
<1>3. /\ loop' \in LoopType
      /\ loop'.pc = "tools" /\ loop'.over /\ Paid' = Paid
  BY <1>1 DEF IInv, Types, LoopType, EndsRun, Paid
<1>4. /\ call' \in [Call -> CallPoints] /\ call'[c] = "over"
      /\ \A d \in Call : d # c => call'[d] = call[d]
      /\ batch' = batch \ {c} /\ UNCHANGED <<aborted, givenUp>>
  BY DEF IInv, Types, EndsRun, CallPoints
<1>5. Types'
  BY <1>2, <1>3, <1>4 DEF IInv, Types
<1>6. Closed' /\ Agrees' /\ ApprovalHeld'
  BY <1>2, <1>4 DEF Closed, Agrees, ApprovalHeld, TerminalStates
<1>7. StateOfLoop'
  <2>1. state' \notin {"created", "waiting_credentials", "waiting_tasks"}
    BY <1>1, <1>2 DEF IInv, StateOfLoop, Terminal, TerminalStates
  <2>2. QED BY <2>1 DEF StateOfLoop
<1>8. CallsHeld' /\ WhyOver'
  BY <1>3, <1>4 DEF IInv, CallsHeld, WhyOver, Body
<1>9. WritersHear'
  BY <1>1, <1>4 DEF IInv, CallsHeld, WritersHear
<1>10. StepsPaid'
  BY <1>1, <1>3 DEF IInv, StepsPaid
<1>11. QED BY <1>5, <1>6, <1>7, <1>8, <1>9, <1>10 DEF IInv

(* A call that asks for approval is awaited.                               *)
LEMMA GateKeeps ==
  ASSUME IInv, NEW c \in Call, Gate(c)
  PROVE  IInv'
<1>1. Types'
  BY DEF IInv, Types, CallPoints, Body, States, Gate, Execute, AtCall,
       SetsState, Moved, record, commands
<1>2. Closed'
  BY DEF IInv, Closed, Gate, Execute, AtCall, SetsState, Moved, record,
       commands, Terminal, TerminalStates
<1>3. Agrees'
  BY DEF IInv, Agrees, Types, Gate, Execute, AtCall, SetsState, Moved, record,
       Terminal
<1>4. StateOfLoop'
  BY DEF IInv, StateOfLoop, Gate, Execute, AtCall, SetsState, Moved, record
<1>5. ApprovalHeld'
  BY DEF IInv, ApprovalHeld, Types, Approving, CallsHeld, Gate, Execute,
       AtCall, record
<1>6. CallsHeld'
  BY DEF IInv, CallsHeld, Types, Body, Gate, Execute, AtCall
<1>7. WhyOver'
  BY DEF IInv, WhyOver, Gate, Execute, AtCall, SetsState, record
<1>8. WritersHear'
  BY DEF IInv, WritersHear, Types, CallsHeld, Gate, Execute, AtCall, SetsState
<1>9. StepsPaid'
  BY DEF IInv, StepsPaid, Paid, HasCancel, Gate, Execute, AtCall, SetsState,
       record, commands
<1>10. QED BY <1>1, <1>2, <1>3, <1>4, <1>5, <1>6, <1>7, <1>8, <1>9 DEF IInv

(* An answered approval lets the run go on.                                *)
LEMMA GateAnswerKeeps ==
  ASSUME IInv, NEW c \in Call, GateAnswer(c)
  PROVE  IInv'
<1>1. Types'
  BY DEF IInv, Types, CallPoints, Body, States, GateAnswer, Execute, AtCall,
       SetsState, Moved, commands
<1>2. Closed'
  BY DEF IInv, Closed, GateAnswer, Execute, AtCall, SetsState, Moved,
       commands, Terminal, TerminalStates
<1>3. Agrees'
  BY DEF IInv, Agrees, Types, GateAnswer, Execute, AtCall, SetsState, Moved,
       Terminal
<1>4. StateOfLoop'
  BY DEF IInv, StateOfLoop, GateAnswer, Execute, AtCall, SetsState, Moved
<1>5. ApprovalHeld'
  BY DEF ApprovalHeld, GateAnswer, SetsState, Moved, CanTransition, Terminal,
       TerminalStates
<1>6. CallsHeld'
  BY DEF IInv, CallsHeld, Types, Body, GateAnswer, Execute, AtCall
<1>7. WhyOver'
  BY DEF IInv, WhyOver, GateAnswer, Execute, AtCall, SetsState
<1>8. WritersHear'
  BY DEF IInv, WritersHear, Types, CallsHeld, GateAnswer, Execute, AtCall
<1>9. StepsPaid'
  BY DEF IInv, StepsPaid, Paid, HasCancel, GateAnswer, Execute, AtCall,
       SetsState, commands
<1>10. QED BY <1>1, <1>2, <1>3, <1>4, <1>5, <1>6, <1>7, <1>8, <1>9 DEF IInv

(* A write that asks for approval is awaited or was given up.              *)
LEMMA ProposeKeeps ==
  ASSUME IInv, NEW c \in Call, Propose(c)
  PROVE  IInv'
<1>1. Types'
  BY DEF IInv, Types, CallPoints, Body, States, Propose, AtCall, SetsState,
       Moved, record, commands
<1>2. Closed'
  BY DEF IInv, Closed, Propose, AtCall, SetsState, Moved, record, commands,
       Terminal, TerminalStates
<1>3. Agrees'
  BY DEF IInv, Agrees, Types, Propose, AtCall, SetsState, Moved, record,
       Terminal
<1>4. StateOfLoop'
  BY DEF IInv, StateOfLoop, Propose, AtCall, SetsState, Moved, record
<1>5. ApprovalHeld'
  BY DEF IInv, ApprovalHeld, Types, Approving, CallsHeld, Propose, AtCall,
       CallPoints, record
<1>6. CallsHeld'
  BY DEF IInv, CallsHeld, Types, Body, Propose, AtCall
<1>7. WhyOver'
  BY DEF IInv, WhyOver, Propose, AtCall, SetsState, record
<1>8. WritersHear'
  BY DEF IInv, WritersHear, Types, Propose, AtCall, SetsState, record
<1>9. StepsPaid'
  BY DEF IInv, StepsPaid, Paid, HasCancel, Propose, AtCall, SetsState, record,
       commands
<1>10. QED BY <1>1, <1>2, <1>3, <1>4, <1>5, <1>6, <1>7, <1>8, <1>9 DEF IInv

(* An answered write lets the run go on.                                   *)
LEMMA WriteAnswerKeeps ==
  ASSUME IInv, NEW c \in Call, WriteAnswer(c)
  PROVE  IInv'
<1>1. Types'
  BY DEF IInv, Types, CallPoints, Body, States, WriteAnswer, AtCall,
       SetsState, Moved, commands
<1>2. Closed'
  BY DEF IInv, Closed, WriteAnswer, AtCall, SetsState, Moved, commands,
       Terminal, TerminalStates
<1>3. Agrees'
  BY DEF IInv, Agrees, Types, WriteAnswer, AtCall, SetsState, Moved, Terminal
<1>4. StateOfLoop'
  BY DEF IInv, StateOfLoop, WriteAnswer, AtCall, SetsState, Moved
<1>5. ApprovalHeld'
  BY DEF ApprovalHeld, WriteAnswer, SetsState, Moved, CanTransition, Terminal,
       TerminalStates
<1>6. CallsHeld'
  BY DEF IInv, CallsHeld, Types, Body, WriteAnswer, AtCall
<1>7. WhyOver'
  BY DEF IInv, WhyOver, WriteAnswer, AtCall, SetsState
<1>8. WritersHear'
  BY DEF IInv, WritersHear, Types, WriteAnswer, AtCall, SetsState
<1>9. StepsPaid'
  BY DEF IInv, StepsPaid, Paid, HasCancel, WriteAnswer, AtCall, SetsState,
       commands
<1>10. QED BY <1>1, <1>2, <1>3, <1>4, <1>5, <1>6, <1>7, <1>8, <1>9 DEF IInv

(* The write ends the call.                                                *)
LEMMA WriteKeeps ==
  ASSUME IInv, NEW c \in Call, Write(c)
  PROVE  IInv'
<1>1. Types'
  BY DEF IInv, Types, CallPoints, Write, AtCall, record, commands
<1>2. Closed'
  BY DEF IInv, Closed, Write, AtCall, record, commands, Terminal
<1>3. Agrees'
  BY DEF IInv, Agrees, Write, AtCall, record
<1>4. StateOfLoop'
  BY DEF IInv, StateOfLoop, Write, AtCall, record
<1>5. ApprovalHeld'
  BY DEF IInv, ApprovalHeld, Approving, Write, AtCall, record
<1>6. CallsHeld'
  BY DEF IInv, CallsHeld, Types, Body, Write, AtCall
<1>7. WhyOver'
  BY DEF IInv, WhyOver, Write, AtCall, record
<1>8. WritersHear'
  BY DEF IInv, WritersHear, Write, AtCall, record
<1>9. StepsPaid'
  BY DEF IInv, StepsPaid, Paid, HasCancel, Write, AtCall, record, commands
<1>10. QED BY <1>1, <1>2, <1>3, <1>4, <1>5, <1>6, <1>7, <1>8, <1>9 DEF IInv

(* A call that timed out is given up.                                      *)
LEMMA TimeoutKeeps ==
  ASSUME IInv, NEW c \in Call, Timeout(c)
  PROVE  IInv'
<1>1. Types'
  BY DEF IInv, Types, Timeout, record, commands
<1>2. Closed'
  BY DEF IInv, Closed, Timeout, record, commands, Terminal
<1>3. Agrees'
  BY DEF Agrees, Timeout, record
<1>4. StateOfLoop'
  BY DEF IInv, StateOfLoop, Timeout, record
<1>5. ApprovalHeld'
  BY DEF ApprovalHeld, LoopType, CallsHeld, Timeout
<1>6. CallsHeld'
  BY DEF IInv, CallsHeld, Body, Timeout
<1>7. WhyOver'
  BY DEF IInv, WhyOver, Timeout, record
<1>8. WritersHear'
  BY DEF IInv, WritersHear, CallsHeld, Timeout, Body
<1>9. StepsPaid'
  BY DEF IInv, StepsPaid, Paid, HasCancel, Timeout, record, commands
<1>10. QED BY <1>1, <1>2, <1>3, <1>4, <1>5, <1>6, <1>7, <1>8, <1>9 DEF IInv

(* Only a run without a result takes commands.                             *)
LEMMA EnqueueKeeps ==
  ASSUME IInv, NEW m \in Command, Enqueue(m)
  PROVE  IInv'
<1>1. Types'
  <2>1. loop' \in LoopType
    BY DEF IInv, Types, LoopType, Enqueue
  <2>2. queue' \in Seq(Command)
    BY DEF IInv, Types, Enqueue
  <2>3. QED BY <2>1, <2>2 DEF IInv, Types, LoopType, Enqueue, record, calls
<1>2. Closed'
  BY DEF IInv, Closed, Enqueue, record, Terminal
<1>3. Agrees'
  BY DEF IInv, Agrees, Closed, Enqueue, record
<1>4. StateOfLoop'
  BY DEF IInv, StateOfLoop, Enqueue, record
<1>5. ApprovalHeld'
  BY DEF IInv, ApprovalHeld, Enqueue, record, calls
<1>6. CallsHeld'
  BY DEF IInv, CallsHeld, Enqueue, calls
<1>7. WhyOver'
  BY DEF IInv, WhyOver, Enqueue, record
<1>8. WritersHear'
  BY DEF IInv, WritersHear, Closed, Enqueue, record
<1>9. StepsPaid'
  BY QueuedStays DEF IInv, StepsPaid, Types, Paid, Enqueue
<1>10. QED BY <1>1, <1>2, <1>3, <1>4, <1>5, <1>6, <1>7, <1>8, <1>9 DEF IInv

(* A cancelled run is aborted.                                             *)
LEMMA CancelKeeps ==
  ASSUME IInv, Cancel
  PROVE  IInv'
<1>1. Types'
  <2>1. loop' \in LoopType
    BY DEF IInv, Types, LoopType, Cancel, Aborts
  <2>2. /\ state' \in States /\ result' \in TerminalStates
        /\ terminals' \in Nat /\ queue' = << >>
    BY EndsFacts DEF Cancel, TerminalStates
  <2>3. QED BY <2>1, <2>2 DEF IInv, Types, LoopType, Cancel, Aborts
<1>2. Closed'
  BY EndsFacts DEF Closed, Cancel, TerminalStates
<1>3. Agrees'
  BY EndsFacts DEF Agrees, Cancel, Aborts, TerminalStates
<1>4. StateOfLoop'
  BY EndsFacts DEF IInv, StateOfLoop, Cancel, Aborts, Terminal, TerminalStates
<1>5. ApprovalHeld'
  BY EndsFacts DEF ApprovalHeld, Cancel, Aborts, TerminalStates
<1>6. CallsHeld'
  BY DEF IInv, CallsHeld, Body, Cancel, Aborts
<1>7. WhyOver'
  BY DEF IInv, WhyOver, Cancel, Aborts
<1>8. WritersHear'
  BY DEF WritersHear, Cancel, Aborts
<1>9. StepsPaid'
  BY DEF IInv, StepsPaid, Paid, Cancel, Aborts
<1>10. QED BY <1>1, <1>2, <1>3, <1>4, <1>5, <1>6, <1>7, <1>8, <1>9 DEF IInv

(* An abort from outside changes no state.                                 *)
LEMMA ExternalAbortKeeps ==
  ASSUME IInv, ExternalAbort
  PROVE  IInv'
<1>1. Types'
  BY LifecycleAssumption
     DEF IInv, Types, LoopType, LoopPoints, CallPoints, Body, States,
       TerminalStates, ExternalAbort, Aborts, record, commands, calls,
       Terminal
<1>2. Closed'
  BY DEF IInv, Closed, ExternalAbort, commands, Terminal
<1>3. Agrees'
  BY DEF IInv, Agrees, ExternalAbort, Aborts
<1>4. StateOfLoop'
  BY DEF IInv, StateOfLoop, ExternalAbort, Aborts
<1>5. ApprovalHeld'
  BY DEF IInv, ApprovalHeld, ExternalAbort, Aborts
<1>6. CallsHeld'
  BY DEF IInv, CallsHeld, Body, ExternalAbort, Aborts
<1>7. WhyOver'
  BY DEF IInv, WhyOver, ExternalAbort, Aborts
<1>8. WritersHear'
  BY DEF IInv, WritersHear, ExternalAbort
<1>9. StepsPaid'
  BY DEF IInv, StepsPaid, Paid, ExternalAbort, Aborts
<1>10. QED BY <1>1, <1>2, <1>3, <1>4, <1>5, <1>6, <1>7, <1>8, <1>9 DEF IInv

(* Tasks and stuttering change nothing here.                               *)
LEMMA TaskKeeps ==
  ASSUME IInv, TaskStarts \/ TaskEnds \/ UNCHANGED vars
  PROVE  IInv'
<1>1. Types'
  BY DEF IInv, Types, TaskStarts, TaskEnds, vars, record, commands, calls
<1>2. Closed'
  BY DEF IInv, Closed, TaskStarts, TaskEnds, vars, record, commands, Terminal
<1>3. Agrees'
  BY DEF IInv, Agrees, TaskStarts, TaskEnds, vars, record, calls
<1>4. StateOfLoop'
  BY DEF IInv, StateOfLoop, TaskStarts, TaskEnds, vars, record
<1>5. ApprovalHeld'
  BY DEF IInv, ApprovalHeld, TaskStarts, TaskEnds, vars, record, calls
<1>6. CallsHeld'
  BY DEF IInv, CallsHeld, TaskStarts, TaskEnds, vars, calls
<1>7. WhyOver'
  BY DEF IInv, WhyOver, TaskStarts, TaskEnds, vars, record
<1>8. WritersHear'
  BY DEF IInv, WritersHear, TaskStarts, TaskEnds, vars, record, calls
<1>9. StepsPaid'
  BY DEF IInv, StepsPaid, Paid, HasCancel, TaskStarts, TaskEnds, vars, record,
       commands
<1>10. QED BY <1>1, <1>2, <1>3, <1>4, <1>5, <1>6, <1>7, <1>8, <1>9 DEF IInv

-----------------------------------------------------------------------------
(* The inductive invariant holds in the initial state and is kept.         *)
LEMMA InitIInv == Init => IInv
<1> SUFFICES ASSUME Init PROVE IInv
  OBVIOUS
<1>1. Types
  <2>1. loop \in LoopType
    BY DEF Init, LoopType, LoopPoints, States
  <2>2. queue \in Seq(Command)
    <3>1. queue = << >>
      BY DEF Init
    <3>2. QED BY <3>1
  <2>3. call \in [Call -> CallPoints] /\ batch \subseteq Call
    BY DEF Init, CallPoints
  <2>4. QED
    BY <2>1, <2>2, <2>3 DEF Init, Types, LoopType, States, TerminalStates
<1>2. Closed /\ Agrees /\ StateOfLoop /\ ApprovalHeld
  BY DEF Init, Closed, Agrees, StateOfLoop, ApprovalHeld, Terminal,
       TerminalStates
<1>3. CallsHeld /\ WhyOver /\ WritersHear /\ StepsPaid
  BY DEF Init, CallsHeld, WhyOver, WritersHear, StepsPaid, Body
<1>4. QED BY <1>1, <1>2, <1>3 DEF IInv

LEMMA NextIInv == IInv /\ [Next]_vars => IInv'
<1> SUFFICES ASSUME IInv, [Next]_vars PROVE IInv'
  OBVIOUS
<1>1. CASE Turn
  BY <1>1, StartKeeps, EnterStepKeeps, StartWrapUpKeeps, WrapUpFailsKeeps,
       WrapUpAnswersKeeps, ApplyCancelKeeps, ApplyMessagesKeeps,
       AbortBetweenTurnsKeeps, TurnFailsKeeps, ModelRecoversKeeps,
       AskCredentialsKeeps, CredentialsRefreshedKeeps,
       CredentialsRefusedKeeps, ModelCallsKeeps, ModelAnswersKeeps,
       StartBatchKeeps, AbortedToolsKeeps, BatchOverKeeps, TerminalToolKeeps,
       NextTurnKeeps, StartWaitingKeeps, WaitOverKeeps, AnswerKeeps DEF Turn
<1>2. ASSUME NEW c \in Call, Tool(c) PROVE IInv'
  BY <1>2, EndsRunKeeps, GateKeeps, GateAnswerKeeps, ProposeKeeps,
       WriteAnswerKeeps, WriteKeeps DEF Tool
<1>3. QED
  BY <1>1, <1>2, TimeoutKeeps, EnqueueKeeps, CancelKeeps, ExternalAbortKeeps,
       TaskKeeps DEF Next

LEMMA Inductive == Spec => []IInv
<1>1. QED BY InitIInv, NextIInv, PTL DEF Spec

(* Unless a call was given up, a run ends once: one terminal event, a     *)
(* state that agrees with the result, and an empty queue.                  *)
THEOREM RunEndsOnce == Spec => []EndsOnce
<1>1. IInv => EndsOnce
  BY DEF IInv, Closed, Agrees, EndsOnce
<1>2. QED BY <1>1, Inductive, PTL

(* No turn beyond the step limit is free, for any limit and any budgets.   *)
THEOREM ExtraTurnsPaid == Spec => []TurnsArePaid
<1>1. IInv => TurnsArePaid
  BY DEF IInv, StepsPaid, Paid, TurnsArePaid
<1>2. QED BY <1>1, Inductive, PTL

(* No call that may write starts its body when the run has its result: the *)
(* end reaches it as an abort, or finds it alone in its batch.             *)
THEOREM NoLateWriter == Spec => NothingStartsLate
<1>1. ASSUME IInv, [Next]_vars, NEW c \in Call \ Shared,
             call[c] \notin Body, call'[c] \in Body
      PROVE  result = "none"
  <2>1. ASSUME NEW d \in Call, NEW from, NEW to, AtCall(d, from, to),
               to \in {"over", "gate_approval"}
        PROVE  FALSE
    BY <1>1, <2>1 DEF AtCall, Body
  <2>2. ASSUME NEW d \in Call, NEW from \in {"gate", "gate_approval"},
               Execute(d, from)
        PROVE  d = c /\ call[c] = from /\ ~ aborted
    BY <1>1, <2>2 DEF Execute, AtCall, Body
  <2>3. ~ UNCHANGED call
    BY <1>1
  <2>4. ~ Turn
    <3>1. \A S \in SUBSET Call : ~ StartBatch(S)
      BY <1>1 DEF StartBatch, Body
    <3>2. QED
      BY <2>3, <3>1
         DEF Turn, Start, Passes, EnterStep, StartWrapUp, WrapUpFails,
           Returns, WrapUpAnswers, ApplyCancel, ApplyMessages,
           AbortBetweenTurns, TurnFails, ModelRecovers, AskCredentials,
           CredentialsRefreshed, CredentialsRefused, ModelCalls, ModelAnswers,
           AbortedTools, BatchOver, TerminalTool, NextTurn, Continues,
           StartWaiting, WaitOver, Answer, calls
  <2>5. PICK d \in Call : Tool(d)
    BY <1>1, <2>4
       DEF Next, Timeout, Enqueue, Cancel, ExternalAbort, TaskStarts,
         TaskEnds, vars, calls
  <2>6. ~ EndsRun(d)
    BY <1>1 DEF IInv, Types, EndsRun, Body
  <2>7. ~ (Propose(d) \/ WriteAnswer(d) \/ Write(d))
    BY <1>1 DEF IInv, Types, Propose, WriteAnswer, Write, AtCall, Body
  <2>8. Gate(d) \/ GateAnswer(d)
    BY <2>5, <2>6, <2>7 DEF Tool
  <2>9. call[c] \in {"gate", "gate_approval"} /\ ~ aborted
    BY <2>1, <2>2, <2>8 DEF Gate, GateAnswer
  <2>10. QED BY <1>1, <2>9 DEF IInv, WritersHear
<1>2. IInv /\ [Next]_vars =>
        [\A c \in Call \ Shared : call[c] \notin Body /\ call'[c] \in Body
           => result = "none"]_vars
  BY <1>1
<1>3. QED BY <1>2, Inductive, PTL DEF Spec, NothingStartsLate

-----------------------------------------------------------------------------
(* Messages *)

(* A message waits for a model call only where one comes first, and a run  *)
(* that completed returned with none.                                      *)
SeenBefore ==
  /\ unseen # {} => loop.pc \notin {"tools", "answer", "waiting"}
  /\ result = "completed" => loop.pc = "returned" /\ unseen = {}

(* Ends leaves the result as it is or makes it its own.                    *)
LEMMA EndsResult ==
  ASSUME NEW how, Ends(how)
  PROVE  result' \in {result, how}
BY DEF Ends

(* The loop returns, from where every message is seen, or the run fails.   *)
LEMMA ReturnsSeen ==
  ASSUME IInv, SeenBefore, NEW how, Ends(how), Goes("returned"),
         unseen' \in {unseen, {}},
         how = "completed" => unseen' = {}
  PROVE  SeenBefore'
BY EndsResult DEF IInv, Types, LoopType, SeenBefore, Goes

(* A step of the loop sees messages before it leaves a turn by an answer.  *)
LEMMA TurnSeen ==
  ASSUME IInv, SeenBefore, Turn
  PROVE  SeenBefore'
<1> USE DEF SeenBefore
<1>1. loop \in LoopType
  BY DEF IInv, Types
<1>2. CASE WrapUpFails \/ TurnFails \/ CredentialsRefused \/ AbortedTools
  BY <1>2, ReturnsSeen
     DEF WrapUpFails, TurnFails, CredentialsRefused, AbortedTools, Returns
<1>3. CASE WrapUpAnswers
  BY <1>3, ReturnsSeen DEF WrapUpAnswers
<1>4. CASE TerminalTool
  BY <1>4, ReturnsSeen DEF TerminalTool, ToolsDone, BatchDone, Returns
<1>5. CASE Answer
  <2>1. CASE Continues
    BY <1>1, <1>5, <2>1
       DEF Answer, Continues, NextStep, NewStep, LoopType, record, commands
  <2>2. CASE Returns("completed")
    BY <1>5, <2>2, ReturnsSeen DEF Answer, Returns
  <2>3. QED BY <1>5, <2>1, <2>2 DEF Answer
<1>6. CASE NextTurn
  BY <1>1, <1>6
     DEF NextTurn, ToolsDone, BatchDone, Continues, NextStep, NewStep,
         LoopType, record, commands
<1>7. CASE Start \/ EnterStep \/ StartWrapUp \/ BatchOver
  BY <1>1, <1>7
     DEF Start, EnterStep, StartWrapUp, BatchOver, BatchDone, Passes, Goes,
         LoopType, record, commands
<1>8. CASE ApplyCancel \/ ApplyMessages \/ AbortBetweenTurns
  BY <1>1, <1>8
     DEF ApplyCancel, ApplyMessages, AbortBetweenTurns, Goes, LoopType,
         record
<1>9. CASE ModelRecovers \/ AskCredentials \/ CredentialsRefreshed
  BY <1>1, <1>9
     DEF ModelRecovers, AskCredentials, CredentialsRefreshed, LoopType,
         record, commands
<1>10. CASE ModelAnswers \/ \E S \in SUBSET Call, terminal \in BOOLEAN :
                              ModelCalls(S, terminal)
  BY <1>1, <1>10 DEF ModelAnswers, ModelCalls, Goes, LoopType, record
<1>11. CASE \E S \in SUBSET Call : StartBatch(S)
  BY <1>1, <1>11 DEF StartBatch, BatchDone, LoopType, record, commands
<1>12. CASE StartWaiting \/ WaitOver
  BY <1>1, <1>12
     DEF StartWaiting, WaitOver, NewStep, Goes, LoopType, commands
<1>13. QED
  BY <1>2, <1>3, <1>4, <1>5, <1>6, <1>7, <1>8, <1>9, <1>10, <1>11, <1>12
     DEF Turn

(* So does every step: nothing else moves the loop or applies a message.   *)
LEMMA NextSeen ==
  ASSUME IInv, SeenBefore, [Next]_vars
  PROVE  SeenBefore'
<1>1. CASE Turn
  BY <1>1, TurnSeen
<1>2. ASSUME NEW c \in Call, Tool(c) PROVE SeenBefore'
  <2>1. CASE EndsRun(c)
    BY <2>1, EndsResult
       DEF EndsRun, SeenBefore, IInv, Types, LoopType, CallsHeld
  <2>2. CASE ~ EndsRun(c)
    BY <1>2, <2>2
       DEF Tool, Gate, GateAnswer, Propose, WriteAnswer, Write, Execute,
           AtCall, SetsState, SeenBefore, record, commands
  <2>3. QED BY <2>1, <2>2
<1>3. CASE Cancel
  BY <1>3, EndsResult
     DEF Cancel, Aborts, SeenBefore, IInv, Types, LoopType
<1>4. CASE ExternalAbort
  BY <1>4 DEF ExternalAbort, Aborts, SeenBefore, IInv, Types, LoopType,
              commands
<1>5. ASSUME NEW m \in Command, Enqueue(m) PROVE SeenBefore'
  BY <1>5 DEF Enqueue, SeenBefore, IInv, Types, LoopType, record
<1>6. CASE TaskStarts \/ TaskEnds \/ UNCHANGED vars
           \/ \E c \in Call : Timeout(c)
  BY <1>6
     DEF TaskStarts, TaskEnds, vars, Timeout, SeenBefore, record, commands
<1>7. QED BY <1>1, <1>2, <1>3, <1>4, <1>5, <1>6 DEF Next

(* No applied message is unseen when a run completes: whichever way the    *)
(* loop recovers, retries or wraps up, a model call comes in between.      *)
THEOREM MessagesReachTheModel == Spec => []MessagesSeen
<1>1. Init => SeenBefore
  BY DEF Init, SeenBefore
<1>2. SeenBefore => MessagesSeen
  BY DEF SeenBefore, MessagesSeen
<1>3. QED BY <1>1, <1>2, NextSeen, Inductive, PTL DEF Spec

-----------------------------------------------------------------------------
(* What TypeOK says of the end, the queue, the budgets and the calls       *)

(* Only a run that completed while a call held it in waiting_approval has  *)
(* a result and no final state; it may be ended once more.                 *)
EndsCounted ==
  /\ accepting \in BOOLEAN
  /\ terminals \in 0..2
  /\ terminals = 0 <=> result = "none"
  /\ result # "none" /\ ~ Terminal => terminals = 1 /\ loop.pc = "returned"

(* The queue holds each queued command once; what was applied stays so.    *)
QueueCounted ==
  /\ status \in [Command -> {"new", "queued", "applied", "rejected"}]
  /\ \A m \in Command : m \in ToSet(queue) <=> status[m] = "queued"
  /\ IsFiniteSet(ToSet(queue)) /\ Cardinality(ToSet(queue)) = Len(queue)
  /\ \A i, j \in 1..Len(queue) : queue[i] = queue[j] => i = j
  /\ unseen \subseteq {m \in Command : status[m] = "applied"}

(* Nobody waits for a task without the budget to revive the run.           *)
BudgetsKept ==
  /\ loop.revivals \in 0..MaxRevivals
  /\ loop.steers \in 0..MaxSteers
  /\ loop.pc = "waiting" => loop.revivals < MaxRevivals

(* A call is to be made, awaited or given up, one at a time.               *)
CallsApart ==
  /\ \A c \in batch : call[c] \notin {"new", "over"}
  /\ \A c \in loop.todo : call[c] = "new"
  /\ \A c \in givenUp : call[c] # "new" /\ c \notin batch
  /\ task \in {"none", "running", "ended"}

TInv ==
  /\ EndsCounted
  /\ QueueCounted
  /\ BudgetsKept
  /\ CallsApart

-----------------------------------------------------------------------------
(* The end of a run                                                        *)

(* Ends leaves a run whose result agrees with its state, except where a    *)
(* completion meets waiting_approval.                                      *)
LEMMA EndsOnceMore ==
  ASSUME IInv, EndsCounted, NEW how \in TerminalStates, Ends(how),
         how = "failed" => loop.pc # "created",
         result = "none" \/ how # "completed"
  PROVE  /\ accepting' \in BOOLEAN /\ terminals' \in 0..2
         /\ terminals' # 0 /\ result' # "none"
         /\ ~ Terminal' => terminals' = 1 /\ how = "completed"
<1>1. CASE Settled
  BY <1>1 DEF EndsCounted, Ends, Settled, Terminal
<1>2. CASE ~ Settled
  <2>1. /\ result' = how /\ terminals' = terminals + 1
        /\ accepting' \in BOOLEAN
        /\ state' = Moved(how)
    BY <1>2 DEF Ends
  <2>2. result = "none" <=> terminals = 0
    BY DEF EndsCounted
  <2>3. ~ Terminal /\ terminals <= 1
    BY <1>2, <2>2 DEF EndsCounted, Settled, IInv, Closed
  <2>4. how # "completed" => state' \in TerminalStates
    BY <2>1, <2>3
       DEF Moved, CanTransition, IInv, Types, StateOfLoop, States,
           TerminalStates
  <2>5. QED
    BY <2>1, <2>2, <2>3, <2>4
       DEF EndsCounted, TerminalStates, Terminal
<1>3. QED BY <1>1, <1>2

(* The loop that returns counts one event, or none if the run is settled.  *)
LEMMA ReturnsCounted ==
  ASSUME IInv, EndsCounted, NEW how \in TerminalStates, Ends(how),
         loop.pc \notin {"created", "returned"}, Goes("returned")
  PROVE  EndsCounted'
<1>1. loop'.pc = "returned"
  BY DEF Goes, IInv, Types, LoopType
<1>2. CASE Settled
  BY <1>1, <1>2 DEF EndsCounted, Ends, Settled, Terminal
<1>3. CASE ~ Settled
  <2>1. result = "none"
    BY <1>3 DEF EndsCounted, Settled, Terminal
  <2>2. QED BY <1>1, <2>1, EndsOnceMore DEF EndsCounted
<1>4. QED BY <1>2, <1>3

(* A state that is not final moves to one that is not, where the loop or a *)
(* call moves it.                                                          *)
LEMMA StaysOpen ==
  ASSUME EndsCounted, UNCHANGED <<result, terminals, accepting>>,
         Terminal => Terminal',
         result # "none" /\ ~ Terminal => loop'.pc = loop.pc
  PROVE  EndsCounted'
BY DEF EndsCounted

(* The steps of the loop keep the count.                                   *)
LEMMA TurnCounted ==
  ASSUME IInv, EndsCounted, Turn
  PROVE  EndsCounted'
<1>1. loop \in LoopType
  BY DEF IInv, Types
<1>2. CASE WrapUpFails \/ TurnFails \/ CredentialsRefused \/ AbortedTools
           \/ TerminalTool \/ WrapUpAnswers
           \/ (Answer /\ Returns("completed"))
  BY <1>2, ReturnsCounted
     DEF WrapUpFails, TurnFails, CredentialsRefused, AbortedTools, Returns,
         TerminalTool, ToolsDone, BatchDone, WrapUpAnswers, Answer,
         TerminalStates
<1>3. CASE ApplyCancel
  <2>1. result = "none" /\ terminals = 0
    BY <1>3, NoneQueued DEF ApplyCancel, IInv, Closed
  <2>2. terminals' = 1 /\ result' = "cancelled" /\ state' = Moved("cancelled")
    BY <1>3, <2>1 DEF ApplyCancel
  <2>3. Terminal'
    BY <2>2 DEF Terminal, Moved, CanTransition, IInv, Types, States,
                TerminalStates
  <2>4. accepting' \in BOOLEAN
    BY Zenon, <1>3 DEF ApplyCancel
  <2>5. QED BY <2>2, <2>3, <2>4 DEF EndsCounted
<1>4. CASE AbortBetweenTurns
  <2>1. loop'.pc = "returned" /\ loop.pc = "commands"
    BY <1>1, <1>4 DEF AbortBetweenTurns, Goes, LoopType
  <2>2. CASE Settled
    BY <1>4, <2>1, <2>2 DEF AbortBetweenTurns, EndsCounted, Settled, Terminal
  <2>3. CASE ~ Settled
    <3>1. terminals = 0
      BY <2>1, <2>3 DEF EndsCounted, Settled
    <3>2. terminals' = 1 /\ result' = "failed"
      BY <1>4, <2>3, <3>1 DEF AbortBetweenTurns
    <3>3. accepting' \in BOOLEAN
      BY Zenon, <1>4, <2>3 DEF AbortBetweenTurns
    <3>4. QED BY <2>1, <3>2, <3>3 DEF EndsCounted
  <2>4. QED BY <2>2, <2>3
<1>5. CASE StartWrapUp
  BY <1>1, <1>5 DEF StartWrapUp, Goes, LoopType, EndsCounted, Terminal
<1>6. CASE Start \/ AskCredentials \/ CredentialsRefreshed \/ StartWaiting
           \/ WaitOver
  <2>1. /\ UNCHANGED <<result, terminals, accepting>>
        /\ Terminal => Terminal'
    BY <1>6
       DEF Start, Passes, AskCredentials, CredentialsRefreshed, StartWaiting,
           WaitOver, Moved, Terminal, record
  <2>2. result # "none" => Terminal
    BY <1>6
       DEF Start, AskCredentials, CredentialsRefreshed, StartWaiting,
           WaitOver, EndsCounted
  <2>3. QED BY <2>1, <2>2, StaysOpen
<1>7. CASE EnterStep \/ ApplyMessages \/ ModelRecovers \/ ModelAnswers
           \/ (\E S \in SUBSET Call, terminal \in BOOLEAN :
                 ModelCalls(S, terminal))
           \/ (\E S \in SUBSET Call : StartBatch(S))
           \/ BatchOver \/ NextTurn \/ (Answer /\ Continues)
  <2>1. UNCHANGED record /\ loop.pc # "returned"
    BY <1>7
       DEF EnterStep, ApplyMessages, ModelRecovers, ModelAnswers, ModelCalls,
           StartBatch, BatchOver, BatchDone, Passes, NextTurn, ToolsDone,
           Answer, Continues
  <2>2. QED BY <2>1, StaysOpen DEF record, Terminal, EndsCounted
<1>8. QED
  BY <1>2, <1>3, <1>4, <1>5, <1>6, <1>7 DEF Turn, Answer

(* So do all steps.                                                        *)
LEMMA NextCounted ==
  ASSUME IInv, EndsCounted, [Next]_vars
  PROVE  EndsCounted'
<1>1. CASE Turn
  BY <1>1, TurnCounted
<1>2. ASSUME NEW c \in Call, EndsRun(c) PROVE EndsCounted'
  <2>1. loop.pc = "tools" /\ loop'.pc = loop.pc
    BY <1>2 DEF EndsRun, IInv, CallsHeld, Types, LoopType
  <2>2. QED BY <1>2, <2>1, EndsOnceMore DEF EndsRun, EndsCounted,
                                            TerminalStates
<1>3. ASSUME NEW c \in Call, Tool(c), ~ EndsRun(c) PROVE EndsCounted'
  <2>1. UNCHANGED <<result, terminals, accepting, loop>>
        /\ (Terminal => Terminal')
    BY <1>3
       DEF Tool, Gate, GateAnswer, Propose, WriteAnswer, Write, Execute,
           AtCall, SetsState, Moved, Terminal, record
  <2>2. QED BY <2>1, StaysOpen
<1>4. CASE Cancel
  BY <1>4, EndsOnceMore DEF Cancel, EndsCounted, TerminalStates
<1>5. CASE ExternalAbort
  BY <1>5 DEF ExternalAbort, Aborts, EndsCounted, Terminal, IInv, Types,
              LoopType
<1>6. ASSUME NEW m \in Command, Enqueue(m) PROVE EndsCounted'
  BY <1>6 DEF Enqueue, EndsCounted, Terminal, IInv, Types, LoopType, record
<1>7. CASE TaskStarts \/ TaskEnds \/ UNCHANGED vars
           \/ \E c \in Call : Timeout(c)
  <2>1. UNCHANGED <<record, loop>>
    BY <1>7 DEF TaskStarts, TaskEnds, vars, Timeout
  <2>2. QED BY <2>1 DEF EndsCounted, Terminal, record
<1>8. QED BY <1>1, <1>2, <1>3, <1>4, <1>5, <1>6, <1>7 DEF Next

-----------------------------------------------------------------------------
(* The queue and the statuses                                              *)

Statuses == {"new", "queued", "applied", "rejected"}

(* An empty queue with nothing left in status "queued".                    *)
LEMMA Emptied ==
  ASSUME queue' = << >>, status' \in [Command -> Statuses],
         \A m \in Command : status'[m] # "queued",
         unseen' \subseteq {m \in Command : status'[m] = "applied"}
  PROVE  QueueCounted'
<1>1. ToSet(queue') = {} /\ Len(queue') = 0
  BY DEF ToSet
<1>2. IsFiniteSet(ToSet(queue')) /\ Cardinality(ToSet(queue')) = 0
  BY <1>1, FS_EmptySet
<1>3. \A m \in Command : m \in ToSet(queue') <=> status'[m] = "queued"
  BY <1>1
<1>4. \A i, j \in 1..Len(queue') : queue'[i] = queue'[j] => i = j
  BY <1>1
<1>5. QED BY <1>1, <1>2, <1>3, <1>4 DEF QueueCounted, Statuses

(* What is rejected is no longer queued.                                   *)
LEMMA RejectedCounted ==
  ASSUME QueueCounted, RejectedPending, unseen' \in {unseen, {}}
  PROVE  QueueCounted'
<1>1. /\ queue' = << >> /\ status' \in [Command -> Statuses]
      /\ \A m \in Command : status'[m] # "queued"
  BY DEF RejectedPending, QueueCounted, Statuses
<1>2. unseen' \subseteq {m \in Command : status'[m] = "applied"}
  BY DEF RejectedPending, QueueCounted
<1>3. QED BY <1>1, <1>2, Emptied

(* The end of a run leaves the queue or rejects what is in it.             *)
LEMMA EndsQueue ==
  ASSUME QueueCounted, NEW how, Ends(how), unseen' \in {unseen, {}}
  PROVE  QueueCounted'
<1>1. CASE Settled
  BY <1>1 DEF Ends, QueueCounted
<1>2. CASE ~ Settled
  BY <1>2, RejectedCounted DEF Ends
<1>3. QED BY <1>1, <1>2

(* What is applied is no longer queued, and not yet seen.                  *)
LEMMA AppliedCounted ==
  ASSUME Types, QueueCounted, queue' = << >>,
         status' = Applied(Len(queue)), unseen' = unseen \union ToSet(queue)
  PROVE  QueueCounted'
<1>1. \A m : m \in ToSet(queue) <=> \E i \in 1..Len(queue) : queue[i] = m
  BY DEF Types, ToSet
<1>2. \A m \in Command :
        status'[m] = IF m \in ToSet(queue) THEN "applied" ELSE status[m]
  BY <1>1 DEF Applied
<1>3. status' \in [Command -> Statuses]
  BY DEF Applied, QueueCounted, Statuses
<1>4. ToSet(queue) \subseteq Command
  BY DEF Types, ToSet
<1>5. QED BY <1>2, <1>3, <1>4, Emptied DEF QueueCounted

(* The queue of a run has a first cancel, if it has one.                   *)
FirstCancel(n) ==
  /\ KindOf[queue[n]] = "cancel"
  /\ \A j \in 1..n-1 : KindOf[queue[j]] # "cancel"

LEMMA FirstCancelExists ==
  ASSUME Types, HasCancel
  PROVE  \E n \in 1..Len(queue) : FirstCancel(n)
<1> DEFINE Cancels == {i \in 1..Len(queue) : KindOf[queue[i]] = "cancel"}
<1>1. Cancels \subseteq Nat /\ Cancels # {}
  BY DEF Types, HasCancel, ToSet
<1>2. IsWellFoundedOn(OpToRel(<, Nat), Nat)
  BY NatLessThanWellFounded
<1>3. PICK n \in Cancels : \A m \in Cancels : ~ (m < n)
  <2> DEFINE R == OpToRel(<, Nat)
  <2>1. \E n \in Cancels : \A m \in Cancels : ~ (<<m, n>> \in R)
    <3> HIDE DEF R, Cancels
    <3> QED BY <1>1, <1>2, WFMin DEF R
  <2>2. \A m, n \in Nat : m < n => <<m, n>> \in R
    BY Zenon DEF OpToRel
  <2> QED BY <1>1, <2>1, <2>2
<1>4. QED BY <1>3 DEF FirstCancel

(* A cancel splits the queue: what is before it is applied, the rest       *)
(* rejected.                                                               *)
LEMMA CancelCounted ==
  ASSUME Types, QueueCounted, ApplyCancel
  PROVE  QueueCounted'
<1> DEFINE n == CHOOSE i \in 1..Len(queue) : FirstCancel(i)
           rest == SubSeq(queue, n + 1, Len(queue))
<1>1. n \in 1..Len(queue)
  BY FirstCancelExists DEF ApplyCancel
<1>2. /\ status' = [m \in Command |-> IF m \in ToSet(rest) THEN "rejected"
                                      ELSE Applied(n)[m]]
      /\ unseen' = unseen \union {queue[i] : i \in 1..n-1}
      /\ queue' = << >>
  BY DEF ApplyCancel, FirstCancel
<1> HIDE DEF n
<1>3. /\ Len(rest) = Len(queue) - n
      /\ \A i \in 1..Len(rest) : rest[i] = queue[n + i]
      /\ rest \in Seq(Command)
  BY <1>1 DEF Types
<1>4. \A m : m \in ToSet(rest) <=> \E i \in n+1..Len(queue) : queue[i] = m
  <2>1. ToSet(rest) = {rest[i] : i \in 1..Len(rest)}
    <3> HIDE DEF rest
    <3>1. DOMAIN rest = 1..Len(rest)
      BY <1>3
    <3>2. QED BY Zenon, <3>1 DEF ToSet
  <2>2. \A i \in n+1..Len(queue) :
          i - n \in 1..Len(rest) /\ queue[i] = rest[i - n]
    BY <1>1, <1>3 DEF Types
  <2>3. \A i \in 1..Len(rest) :
          n + i \in n+1..Len(queue) /\ rest[i] = queue[n + i]
    BY <1>1, <1>3 DEF Types
  <2> HIDE DEF rest
  <2>4. QED BY <2>1, <2>2, <2>3
<1> HIDE DEF rest
<1>5. \A m \in Command : status[m] = "queued" =>
        \E i \in 1..Len(queue) : queue[i] = m
  BY DEF Types, QueueCounted, ToSet
<1>6. status' \in [Command -> Statuses]
  BY <1>2 DEF Applied, QueueCounted, Statuses
<1>7. \A m \in Command : status'[m] # "queued"
  <2>1. SUFFICES ASSUME NEW m \in Command, status'[m] = "queued" PROVE FALSE
    OBVIOUS
  <2>2. m \notin ToSet(rest) /\ Applied(n)[m] = "queued"
    BY <1>2, <2>1
  <2>3. status[m] = "queued" /\ ~ \E i \in 1..n : queue[i] = m
    BY <2>2 DEF Applied
  <2>4. PICK i \in 1..Len(queue) : queue[i] = m
    BY <1>5, <2>3
  <2>5. i \in n+1..Len(queue)
    BY <1>1, <2>3, <2>4
  <2>6. QED BY <1>4, <2>2, <2>4, <2>5
<1>8. unseen' \subseteq {m \in Command : status'[m] = "applied"}
  <2>1. ASSUME NEW m \in unseen
        PROVE  m \in Command /\ status'[m] = "applied"
    <3>1. m \in Command /\ status[m] = "applied"
      BY DEF QueueCounted
    <3>2. ~ \E i \in 1..Len(queue) : queue[i] = m
      BY <3>1 DEF Types, QueueCounted, ToSet
    <3>3. m \notin ToSet(rest) /\ Applied(n)[m] = "applied"
      BY <1>1, <1>4, <3>1, <3>2 DEF Applied
    <3>4. QED BY <1>2, <3>1, <3>3
  <2>2. ASSUME NEW i \in 1..n-1
        PROVE  queue[i] \in Command /\ status'[queue[i]] = "applied"
    <3>1. i \in 1..Len(queue) /\ queue[i] \in Command
      BY <1>1 DEF Types
    <3>2. Applied(n)[queue[i]] = "applied"
      BY <1>1, <3>1 DEF Applied
    <3>3. queue[i] \notin ToSet(rest)
      <4>1. SUFFICES ASSUME NEW j \in n+1..Len(queue), queue[j] = queue[i]
                     PROVE  FALSE
        BY <1>4
      <4>2. QED BY <1>1, <4>1 DEF QueueCounted
    <3>4. QED BY <1>2, <3>1, <3>2, <3>3
  <2>3. QED BY <1>2, <2>1, <2>2
<1>9. QED BY <1>2, <1>6, <1>7, <1>8, Emptied

(* A command is queued only where it is not.                               *)
LEMMA EnqueueCounted ==
  ASSUME Types, QueueCounted, NEW m \in Command, Enqueue(m)
  PROVE  QueueCounted'
<1>1. /\ queue' = Append(queue, m) /\ status' = [status EXCEPT ![m] = "queued"]
      /\ status[m] \notin {"queued", "applied"} /\ unseen' = unseen
  BY DEF Enqueue
<1>2. /\ Len(queue') = Len(queue) + 1 /\ queue'[Len(queue) + 1] = m
      /\ \A i \in 1..Len(queue) : queue'[i] = queue[i]
  BY <1>1 DEF Types
<1>3. ToSet(queue') = ToSet(queue) \union {m}
  <2>1. Len(queue) \in Nat /\ DOMAIN queue = 1..Len(queue)
        /\ DOMAIN queue' = 1..Len(queue) + 1
    BY <1>1 DEF Types
  <2>2. \A i : i \in 1..Len(queue) + 1 <=>
                 i \in 1..Len(queue) \/ i = Len(queue) + 1
    BY <2>1
  <2>3. QED BY <1>2, <2>1, <2>2 DEF ToSet
<1>4. m \notin ToSet(queue)
  BY <1>1 DEF QueueCounted
<1>5. IsFiniteSet(ToSet(queue')) /\ Cardinality(ToSet(queue')) = Len(queue')
  <2>1. /\ IsFiniteSet(ToSet(queue) \union {m})
        /\ Cardinality(ToSet(queue) \union {m}) = Cardinality(ToSet(queue)) + 1
    BY <1>4, FS_AddElement DEF QueueCounted
  <2>2. Cardinality(ToSet(queue)) = Len(queue)
    BY DEF QueueCounted
  <2>3. QED BY <1>2, <1>3, <2>1, <2>2
<1>6. \A i, j \in 1..Len(queue') : queue'[i] = queue'[j] => i = j
  <2>1. \A i \in 1..Len(queue) : queue[i] # m
    BY <1>4 DEF Types, ToSet
  <2>2. \A i \in 1..Len(queue') : i \in 1..Len(queue) \/ i = Len(queue) + 1
    BY <1>2 DEF Types
  <2>3. QED BY <1>2, <2>1, <2>2 DEF QueueCounted
<1>7. /\ status' \in [Command -> {"new", "queued", "applied", "rejected"}]
      /\ \A c \in Command : c \in ToSet(queue') <=> status'[c] = "queued"
      /\ unseen' \subseteq {c \in Command : status'[c] = "applied"}
  BY <1>1, <1>3 DEF QueueCounted
<1>8. QED BY <1>5, <1>6, <1>7 DEF QueueCounted

(* Every step keeps queue and statuses together.                           *)
LEMMA NextQueue ==
  ASSUME IInv, QueueCounted, [Next]_vars
  PROVE  QueueCounted'
<1> USE DEF IInv
<1>1. CASE WrapUpFails \/ TurnFails \/ CredentialsRefused \/ AbortedTools
           \/ TerminalTool \/ WrapUpAnswers
           \/ (Answer /\ Returns("completed"))
           \/ (\E c \in Call : EndsRun(c)) \/ Cancel
  BY <1>1, EndsQueue
     DEF WrapUpFails, TurnFails, CredentialsRefused, AbortedTools, Returns,
         TerminalTool, WrapUpAnswers, EndsRun, Cancel
<1>2. CASE ApplyMessages \/ AbortBetweenTurns
  BY <1>2, AppliedCounted DEF ApplyMessages, AbortBetweenTurns
<1>3. CASE NextTurn
  BY <1>3, RejectedCounted DEF NextTurn, Continues, commands, QueueCounted
<1>4. CASE ModelAnswers \/ \E S \in SUBSET Call, terminal \in BOOLEAN :
                             ModelCalls(S, terminal)
  <2>1. UNCHANGED <<queue, status>> /\ unseen' = {}
    BY <1>4 DEF ModelAnswers, ModelCalls
  <2>2. QED BY <2>1 DEF QueueCounted
<1>5. CASE UNCHANGED commands
  BY <1>5 DEF commands, QueueCounted
<1>6. CASE Turn
  BY <1>1, <1>2, <1>3, <1>4, <1>5, <1>6, CancelCounted
     DEF Turn, Start, Passes, EnterStep, StartWrapUp, ModelRecovers,
         AskCredentials, CredentialsRefreshed, StartBatch, BatchOver,
         StartWaiting, WaitOver, Answer, Continues, commands
<1>7. ASSUME NEW c \in Call, Tool(c) PROVE QueueCounted'
  BY <1>1, <1>5, <1>7
     DEF Tool, Gate, GateAnswer, Propose, WriteAnswer, Write, Execute, AtCall
<1>8. QED
  BY <1>1, <1>5, <1>6, <1>7, EnqueueCounted
     DEF Next, ExternalAbort, TaskStarts, TaskEnds, Timeout, vars

-----------------------------------------------------------------------------
(* The budgets                                                             *)

(* A step that costs nothing leaves the budgets.                           *)
LEMMA StepFacts ==
  ASSUME Types, NextStep \/ NewStep(TRUE, 0, 0)
  PROVE  /\ loop'.revivals = loop.revivals /\ loop'.steers = loop.steers
         /\ loop'.pc = "head"
<1>1. PICK forced \in BOOLEAN : NewStep(forced, 0, 0)
  BY DEF NextStep
<1>2. /\ loop'.revivals = loop.revivals + 0
      /\ loop'.steers = loop.steers + 0
      /\ loop'.pc = "head"
  BY <1>1, NewStepFacts
<1>3. QED BY <1>2 DEF Types, LoopType

(* No step overdraws a budget.                                             *)
LEMMA NextBudgets ==
  ASSUME IInv, BudgetsKept, [Next]_vars
  PROVE  BudgetsKept'
<1> USE DEF BudgetsKept
<1>1. loop \in LoopType
  BY DEF IInv, Types
<1>2. ASSUME /\ loop'.revivals = loop.revivals /\ loop'.steers = loop.steers
             /\ loop'.pc = "waiting" => loop.pc = "waiting"
      PROVE  BudgetsKept'
  BY <1>2
<1>3. CASE Continues
  <2>1. CASE NextStep \/ NewStep(TRUE, 0, 0)
    BY <1>2, <2>1, StepFacts DEF IInv
  <2>2. CASE loop.steers < MaxSteers /\ NewStep(TRUE, 0, 1)
    BY <1>1, <2>2, LifecycleAssumption DEF NewStep, LoopType
  <2>3. QED BY <1>3, <2>1, <2>2 DEF Continues
<1>4. CASE NextTurn
  BY <1>2, <1>3, <1>4, StepFacts DEF NextTurn, IInv
<1>5. CASE Answer
  BY <1>1, <1>2, <1>3, <1>5 DEF Answer, Returns, Goes, LoopType
<1>6. CASE StartWaiting
  BY <1>1, <1>6 DEF StartWaiting, MustWait, LoopType
<1>7. CASE WaitOver
  <2>1. CASE Goes("answer")
    BY <1>1, <1>2, <2>1 DEF Goes, LoopType
  <2>2. CASE NewStep(TRUE, 1, 0)
    <3>1. /\ loop'.pc = "head" /\ loop'.revivals = loop.revivals + 1
          /\ loop'.steers = loop.steers + 0
      BY <2>2, NewStepFacts DEF IInv
    <3>2. loop.revivals < MaxRevivals
      BY <1>7 DEF WaitOver
    <3>3. QED BY <3>1, <3>2, LifecycleAssumption
  <2>3. QED BY <1>7, <2>1, <2>2 DEF WaitOver
<1>8. CASE Start \/ EnterStep \/ StartWrapUp \/ WrapUpFails \/ WrapUpAnswers
           \/ ApplyCancel \/ ApplyMessages \/ AbortBetweenTurns \/ TurnFails
           \/ CredentialsRefused \/ AbortedTools \/ BatchOver
           \/ TerminalTool \/ ModelAnswers
  <2>1. \E pc \in LoopPoints \ {"waiting"} : Goes(pc)
    BY <1>8
       DEF Start, EnterStep, StartWrapUp, WrapUpFails, WrapUpAnswers,
           ApplyCancel, ApplyMessages, AbortBetweenTurns, TurnFails,
           CredentialsRefused, AbortedTools, BatchOver, TerminalTool,
           ModelAnswers, Returns, Passes, LoopPoints
  <2>2. QED BY <1>1, <1>2, <2>1 DEF Goes, LoopType
<1>9. CASE ModelRecovers \/ AskCredentials \/ CredentialsRefreshed
           \/ (\E S \in SUBSET Call, terminal \in BOOLEAN :
                 ModelCalls(S, terminal))
           \/ (\E S \in SUBSET Call : StartBatch(S))
           \/ (\E c \in Call : EndsRun(c)) \/ Cancel \/ ExternalAbort
           \/ (\E m \in Command : Enqueue(m))
  BY <1>1, <1>2, <1>9
     DEF ModelRecovers, AskCredentials, CredentialsRefreshed, ModelCalls,
         StartBatch, EndsRun, Cancel, ExternalAbort, Aborts, Enqueue, LoopType
<1>10. CASE UNCHANGED loop
  BY <1>10
<1>11. CASE Turn
  BY <1>4, <1>5, <1>6, <1>7, <1>8, <1>9, <1>11 DEF Turn
<1>12. ASSUME NEW c \in Call, Tool(c) PROVE BudgetsKept'
  BY <1>9, <1>10, <1>12
     DEF Tool, Gate, GateAnswer, Propose, WriteAnswer, Write, Execute, AtCall
<1>13. QED
  BY <1>9, <1>10, <1>11, <1>12
     DEF Next, TaskStarts, TaskEnds, Timeout, vars

-----------------------------------------------------------------------------
(* The calls                                                               *)

(* No step has a call awaited twice, or both awaited and given up.         *)
LEMMA NextCalls ==
  ASSUME IInv, CallsApart, [Next]_vars
  PROVE  CallsApart'
<1> USE DEF CallsApart
<1>1. loop \in LoopType /\ call \in [Call -> CallPoints]
      /\ batch \subseteq Call /\ givenUp \subseteq Call
  BY DEF IInv, Types
<1>2. ASSUME UNCHANGED calls, loop'.todo = loop.todo,
             task' \in {task, "none", "running", "ended"}
      PROVE  CallsApart'
  BY <1>2 DEF calls
<1>3. CASE \E S \in SUBSET Call, terminal \in BOOLEAN : ModelCalls(S, terminal)
  BY <1>1, <1>3 DEF ModelCalls, LoopType, calls
<1>4. ASSUME NEW S \in SUBSET Call, StartBatch(S) PROVE CallsApart'
  <2>1. /\ S \subseteq loop.todo /\ batch' = S
        /\ \A c \in Call : call'[c] = IF c \in S THEN "gate" ELSE call[c]
        /\ loop'.todo = loop.todo \ S
        /\ UNCHANGED <<givenUp, task>>
    BY <1>1, <1>4 DEF StartBatch, LoopType
  <2>2. loop.todo \subseteq Call
    BY <1>1 DEF LoopType
  <2>3. QED BY <1>1, <2>1, <2>2
<1>5. CASE Turn
  <2>1. CASE UNCHANGED calls /\ task' \in {task, "none"}
             /\ loop'.todo = loop.todo
    BY <1>2, <2>1
  <2>2. CASE ~ \E S \in SUBSET Call :
                 StartBatch(S) \/ \E t \in BOOLEAN : ModelCalls(S, t)
    BY <1>1, <1>5, <2>1, <2>2
       DEF Turn, Start, EnterStep, StartWrapUp, WrapUpFails, WrapUpAnswers,
           ApplyCancel, ApplyMessages, AbortBetweenTurns, TurnFails,
           ModelRecovers, AskCredentials, CredentialsRefreshed,
           CredentialsRefused, ModelAnswers, AbortedTools, BatchOver,
           TerminalTool, NextTurn, Continues, StartWaiting, WaitOver, Answer,
           Returns, Passes, Goes, NextStep, NewStep, LoopType
  <2>3. QED BY <1>3, <1>4, <2>2
<1>6. ASSUME NEW c \in Call, Tool(c) PROVE CallsApart'
  <2>1. PICK to \in CallPoints :
          /\ call' = [call EXCEPT ![c] = to]
          /\ to # "new" /\ call[c] # "new"
          /\ batch' = IF to = "over" THEN batch \ {c} ELSE batch
          /\ givenUp' = givenUp /\ loop'.todo = loop.todo /\ task' = task
    BY <1>1, <1>6
       DEF Tool, EndsRun, Gate, GateAnswer, Propose, WriteAnswer, Write,
           Execute, AtCall, CallPoints, Body, LoopType
  <2>2. loop.todo \subseteq Call
    BY <1>1 DEF LoopType
  <2>3. QED BY <1>1, <2>1, <2>2
<1>7. CASE Cancel \/ ExternalAbort
  <2>1. /\ givenUp' = givenUp \union {c \in batch : call[c] \in Body}
        /\ batch' = {c \in batch : call[c] \notin Body}
        /\ call' = call /\ loop'.todo = loop.todo /\ task' = task
    BY <1>1, <1>7 DEF Cancel, ExternalAbort, Aborts, LoopType
  <2>2. QED BY <1>1, <2>1
<1>8. CASE \E c \in Call : Timeout(c)
  BY <1>1, <1>8 DEF Timeout
<1>9. ASSUME NEW m \in Command, Enqueue(m) PROVE CallsApart'
  BY <1>1, <1>2, <1>9 DEF Enqueue, LoopType
<1>10. CASE TaskStarts \/ TaskEnds \/ UNCHANGED vars
  BY <1>2, <1>10 DEF TaskStarts, TaskEnds, vars
<1>11. QED BY <1>5, <1>6, <1>7, <1>8, <1>9, <1>10 DEF Next

-----------------------------------------------------------------------------
(* All of it holds when a run is created.                                  *)
LEMMA InitTInv == Init => TInv
<1> SUFFICES ASSUME Init PROVE TInv
  OBVIOUS
<1>1. EndsCounted
  BY DEF Init, EndsCounted
<1>2. QueueCounted
  <2>1. ToSet(queue) = {} /\ Len(queue) = 0
    BY DEF Init, ToSet
  <2>2. IsFiniteSet(ToSet(queue)) /\ Cardinality(ToSet(queue)) = 0
    BY <2>1, FS_EmptySet
  <2>3. QED BY <2>1, <2>2 DEF Init, QueueCounted
<1>3. BudgetsKept /\ CallsApart
  BY LifecycleAssumption DEF Init, BudgetsKept, CallsApart
<1>4. QED BY <1>1, <1>2, <1>3 DEF TInv

(* The state is well typed: at most two terminal events and none without a *)
(* result, a queue that holds each queued command once, budgets that are   *)
(* not overdrawn, and a call that is awaited or given up, never both.      *)
THEOREM TypeCorrect == Spec => []TypeOK
<1>1. IInv /\ TInv /\ [Next]_vars => TInv'
  BY NextCounted, NextQueue, NextBudgets, NextCalls DEF TInv
<1>2. IInv /\ TInv => TypeOK
  <2> SUFFICES ASSUME IInv, TInv PROVE TypeOK
    OBVIOUS
  <2>1. queue \in Seq(Command)
    BY DEF IInv, Types
  <2>2. ToSet(queue) = {m \in Command : status[m] = "queued"}
    BY <2>1 DEF TInv, QueueCounted, ToSet
  <2>3. QED
    BY <2>2
       DEF IInv, Types, LoopType, CallsHeld, TInv, EndsCounted, QueueCounted,
           BudgetsKept, CallsApart, TypeOK
<1>3. QED BY <1>1, <1>2, InitTInv, Inductive, PTL DEF Spec

=============================================================================
