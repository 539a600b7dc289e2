----------------------------- MODULE Controller -----------------------------
(***************************************************************************)
(* The SCM controller of internal/core/winsvc: Controller.Run, its three   *)
(* phases and the abandon path, around an arbitrary ServeFunc.             *)
(*                                                                         *)
(* The goroutine running Serve shares three things with Run: the context   *)
(* (cancelled), the ready channel and the one-slot result channel. Every   *)
(* select of the code is a set of actions here, one per case, so that any  *)
(* ready case may be taken. Time passes only while Run waits in a select   *)
(* with nothing to receive: what Run does between two selects is instant   *)
(* at the scale of its timers (seconds).                                   *)
(***************************************************************************)
EXTENDS Naturals

CONSTANTS
  DrainBudget,      \* Config.DrainBudget
  DrainMargin,      \* Config.DrainMargin
  CheckpointEvery,  \* Config.CheckpointEvery
  StartHint,        \* Config.StartHint
  ServeErrors       \* the errors Serve may return

\* New panics on a budget that is not positive and gives the other three a
\* positive default.
ASSUME ControllerAssumption ==
  /\ DrainBudget \in Nat \ {0}
  /\ DrainMargin \in Nat \ {0}
  /\ CheckpointEvery \in Nat \ {0}
  /\ StartHint \in Nat \ {0}
  /\ ServeErrors \cap {"nil", "none", "empty", "overran"} = {}

VARIABLES
  phase,      \* where Run is
  last,       \* session.last, the last Report delivered to the SCM
  stopped,    \* session.stopped
  cancelled,  \* the context handed to Serve is cancelled
  requests,   \* what the request channel offers: a command, "none", "closed"
  serving,    \* the Serve goroutine has not returned
  ready,      \* the ready channel is closed
  result,     \* the result channel: "empty", or what Serve returned
  clock,      \* time since the drain's timers were created
  ticked,     \* the ticker's one-slot channel holds a tick
  outcome,    \* what Run returns, NoOutcome before
  returnedAt, \* history: the clock when Serve returned
  diedAlone   \* history: Serve returned while its context was live

scmVars   == <<last, stopped, outcome>>
serveVars == <<serving, ready, result, returnedAt, diedAlone>>
timeVars  == <<clock, ticked>>
vars      == <<phase, scmVars, cancelled, requests, serveVars, timeVars>>

\* Other stands for a Command outside the three the controller knows.
Commands  == {"Interrogate", "Stop", "PreShutdown", "Other"}
Results   == ServeErrors \cup {"nil"}
States    == {"StartPending", "Running", "StopPending", "Stopped"}
Accepts   == {"Stop", "PreShutdown"}

\* Mutant: the backstop fires on the bare budget.
DeadlineWithoutMargin == DrainBudget

\* The longest a stop can take: WaitHint of a stop and the backstop.
DrainDeadline == DrainBudget + DrainMargin

NoReport == [state |-> "None", accepts |-> {}, checkPoint |-> 0, waitHint |-> 0]

NoOutcome == [code |-> 0, err |-> "none"]

\* A steady report carries neither checkpoint nor hint.
Steady(s, acc) == [state |-> s, accepts |-> acc, checkPoint |-> 0, waitHint |-> 0]

Pending(s, hint) == [state |-> s, accepts |-> {}, checkPoint |-> 1, waitHint |-> hint]

Init ==
  /\ phase = "begin" /\ last = NoReport
  /\ stopped = FALSE /\ cancelled = FALSE
  /\ requests = "none"
  /\ serving = TRUE /\ ready = FALSE /\ result = "empty"
  /\ returnedAt = 0 /\ diedAlone = FALSE
  /\ clock = 0 /\ ticked = FALSE
  /\ outcome = NoOutcome

-----------------------------------------------------------------------------
(* The environment: the ServeFunc, whoever sends requests, and time.        *)

\* Serve calls ready. readyOnce absorbs every call but the first.
SignalReady ==
  /\ serving
  /\ ready' = TRUE
  /\ UNCHANGED <<phase, scmVars, cancelled, requests, serving, result, returnedAt, diedAlone, timeVars>>

\* Serve returns into the buffered channel, so it never blocks on Run.
ServeReturn(err) ==
  /\ serving
  /\ serving' = FALSE /\ result' = err
  /\ returnedAt' = clock /\ diedAlone' = ~cancelled
  /\ UNCHANGED <<phase, scmVars, cancelled, requests, ready, timeVars>>

\* The channel is unbuffered: one command is offered until Run takes it.
Offer(cmd) ==
  /\ requests = "none" /\ phase # "returned"
  /\ requests' = cmd
  /\ UNCHANGED <<phase, scmVars, cancelled, serveVars, timeVars>>

CloseRequests ==
  /\ requests = "none"
  /\ requests' = "closed"
  /\ UNCHANGED <<phase, scmVars, cancelled, serveVars, timeVars>>

\* The ticker and the backstop run; a tick nobody takes is dropped.
Elapse ==
  /\ phase \in {"draining", "abandoning"}
  /\ result = "empty" /\ ~ticked
  /\ clock < DrainDeadline
  /\ clock' = clock + 1
  /\ ticked' = (phase = "draining" /\ (clock + 1) % CheckpointEvery = 0)
  /\ UNCHANGED <<phase, scmVars, cancelled, requests, serveVars>>

-----------------------------------------------------------------------------
(* Run.                                                                     *)

\* Run has spawned Serve and reports StartPending.
Begin ==
  /\ phase = "begin"
  /\ phase' = "starting"
  /\ last' = Pending("StartPending", StartHint)
  /\ UNCHANGED <<stopped, outcome, cancelled, requests, serveVars, timeVars>>

\* Mutant: Running is reported as soon as the goroutine starts.
BecomeReadyEarly ==
  /\ phase = "starting"
  /\ phase' = "running"
  /\ last' = Steady("Running", Accepts)
  /\ UNCHANGED <<stopped, outcome, cancelled, requests, serveVars, timeVars>>

\* case <-s.ready of starting. The running phase is entered: a stop that came
\* first has left this phase already.
BecomeReady ==
  /\ phase = "starting" /\ ready
  /\ phase' = "running"
  /\ last' = Steady("Running", Accepts)
  /\ UNCHANGED <<stopped, outcome, cancelled, requests, serveVars, timeVars>>

\* Mutant: every error is a failure, a requested stop notwithstanding.
finishAnyError(err) ==
  /\ phase' = "returned"
  /\ last' = Steady("Stopped", {})
  /\ outcome' = [code |-> IF err # "nil" THEN 1 ELSE 0, err |-> err]
  /\ cancelled' = TRUE
  /\ UNCHANGED <<stopped, requests, serving, ready, returnedAt, diedAlone, timeVars>>

\* Mutant: a stop is recognised by the status reported rather than by stopped.
finishByStatus(err) ==
  /\ phase' = "returned"
  /\ last' = Steady("Stopped", {})
  /\ outcome' = [code |-> IF err # "nil" /\ last.state # "StopPending" THEN 1 ELSE 0,
                 err |-> err]
  /\ cancelled' = TRUE
  /\ UNCHANGED <<stopped, requests, serving, ready, returnedAt, diedAlone, timeVars>>

\* finish reports Stopped and resolves the exit code; Run's deferred cancel runs.
finish(err) ==
  /\ phase' = "returned"
  /\ last' = Steady("Stopped", {})
  /\ outcome' = [code |-> IF err # "nil" /\ ~stopped THEN 1 ELSE 0, err |-> err]
  /\ cancelled' = TRUE
  /\ UNCHANGED <<stopped, requests, serving, ready, returnedAt, diedAlone, timeVars>>

\* case <-s.result, in every phase.
TakeResult ==
  /\ phase \in {"starting", "running", "draining", "abandoning"}
  /\ result # "empty"
  /\ result' = "empty"
  /\ finish(result)

\* case <-backstop.C of draining and of abandon.
Backstop ==
  /\ phase \in {"draining", "abandoning"}
  /\ clock = DrainDeadline
  /\ finish("overran")
  /\ UNCHANGED result

\* Mutant: the tick re-reports the status without moving the checkpoint.
TakeTickFrozen ==
  /\ phase = "draining" /\ ticked
  /\ ticked' = FALSE
  /\ UNCHANGED <<phase, scmVars, cancelled, requests, serveVars, clock>>

\* case <-ticker.C of draining.
TakeTick ==
  /\ phase = "draining" /\ ticked
  /\ ticked' = FALSE
  /\ last' = [last EXCEPT !.checkPoint = @ + 1]
  /\ UNCHANGED <<phase, stopped, outcome, cancelled, requests, serveVars, clock>>

\* Mutant: starting waits for readiness and the result only.
AcknowledgeOnceRunning ==
  /\ requests \in Commands
  /\ requests \in {"Stop", "PreShutdown"} => stopped
  /\ phase \in {"running", "draining"}
  /\ requests' = "none"
  /\ UNCHANGED <<phase, scmVars, cancelled, serveVars, timeVars>>

\* control, for the commands that leave the session as it is: Interrogate
\* re-reports last, a second stop and an unknown command do nothing.
Acknowledge ==
  /\ requests \in Commands
  /\ requests \in {"Stop", "PreShutdown"} => stopped
  /\ phase \in {"starting", "running", "draining"}
  /\ requests' = "none"
  /\ UNCHANGED <<phase, scmVars, cancelled, serveVars, timeVars>>

\* Mutant: only Stop is recognised.
TakeStopOnly ==
  /\ requests = "Stop"
  /\ phase \in {"starting", "running"} /\ ~stopped
  /\ requests' = "none"
  /\ stopped' = TRUE /\ cancelled' = TRUE
  /\ last' = Pending("StopPending", DrainDeadline)
  /\ phase' = "draining"
  /\ UNCHANGED <<outcome, serveVars, timeVars>>

\* control, for the first Stop or PreShutdown. Whichever phase it arrives in, the
\* drain is next: Run skips the running phase of a session already stopped.
TakeStop ==
  /\ requests \in {"Stop", "PreShutdown"}
  /\ phase \in {"starting", "running"} /\ ~stopped
  /\ requests' = "none"
  /\ stopped' = TRUE /\ cancelled' = TRUE
  /\ last' = Pending("StopPending", DrainDeadline)
  /\ phase' = "draining"
  /\ UNCHANGED <<outcome, serveVars, timeVars>>

\* abandon: the request channel was closed. It arms its own backstop.
abandon ==
  /\ requests = "closed"
  /\ phase \in {"starting", "running", "draining"}
  /\ phase' = "abandoning"
  /\ stopped' = TRUE /\ cancelled' = TRUE
  /\ clock' = 0 /\ ticked' = FALSE
  /\ UNCHANGED <<last, outcome, requests, serveVars>>

Select == BecomeReady \/ TakeResult \/ Backstop \/ TakeTick \/ Acknowledge \/ TakeStop \/ abandon

Next ==
  \/ Begin \/ Select
  \/ SignalReady \/ CloseRequests \/ Elapse
  \/ \E err \in Results : ServeReturn(err)
  \/ \E cmd \in Commands : Offer(cmd)

\* Run executes; select picks at random among ready cases, so a case that stays
\* ready is taken; time passes. Nothing is assumed of Serve or of the requests.
Fairness ==
  /\ WF_vars(Begin) /\ WF_vars(BecomeReady) /\ WF_vars(TakeResult)
  /\ WF_vars(Backstop) /\ WF_vars(TakeTick) /\ WF_vars(Acknowledge)
  /\ WF_vars(TakeStop) /\ WF_vars(abandon) /\ WF_vars(Elapse)

Spec == Init /\ [][Next]_vars /\ Fairness
-----------------------------------------------------------------------------
(* Correctness.                                                             *)

Reports ==
  [state : States \cup {"None"}, accepts : SUBSET Accepts,
   checkPoint : 0 .. (1 + DrainDeadline), waitHint : {0, StartHint, DrainDeadline}]

\* Every variable keeps its type; the checkpoint never runs past the number of
\* ticks the drain's deadline leaves room for (draining's ticker).
TypeOK ==
  /\ phase \in {"begin", "starting", "running", "draining", "abandoning", "returned"}
  /\ last \in Reports
  /\ stopped \in BOOLEAN /\ cancelled \in BOOLEAN
  /\ requests \in Commands \cup {"none", "closed"}
  /\ serving \in BOOLEAN /\ ready \in BOOLEAN
  /\ result \in Results \cup {"empty"}
  /\ clock \in 0 .. DrainDeadline /\ returnedAt \in 0 .. DrainDeadline
  /\ ticked \in BOOLEAN
  /\ outcome \in [code : {0, 1}, err : Results \cup {"none", "overran"}]
  /\ diedAlone \in BOOLEAN

\* Running means bound and answering: it is the current status only of a service
\* that has signalled ready, and Run serves under it only while the context is
\* live (starting, running, control).
RunningIsHonest ==
  last.state = "Running" => ready /\ (phase = "running" => ~cancelled)

\* The SCM restarts a service that exits non-zero, so the code is non-zero
\* exactly when Serve failed by itself, its context live, and no stop overtook
\* the failure; a Serve written off by the backstop never counts (finish, and
\* the table above Run).
ExitCodeRule ==
  phase = "returned" =>
    (outcome.code = 1 <=> outcome.err \in ServeErrors /\ diedAlone /\ ~stopped)

\* While a stop drains, the checkpoint is always as far along as the clock: the
\* SCM never watches one value for longer than CheckpointEvery (draining).
CheckpointFollowsClock ==
  phase = "draining" =>
    /\ last.state = "StopPending"
    /\ last.checkPoint + (IF ticked THEN 1 ELSE 0) = 1 + clock \div CheckpointEvery

\* A Serve that returns within its budget is never written off as overrunning,
\* even when it used the budget to the end (DrainMargin, backstop).
BudgetHonoured ==
  phase = "returned" /\ outcome.err = "overran" =>
    serving \/ returnedAt > DrainBudget

\* Whoever sends a command blocks on the SCM's own thread, so no command is left
\* waiting, not even one sent mid-drain (draining stays responsive).
CommandsAnswered == requests \in Commands ~> (requests = "none" \/ phase = "returned")

\* What the SCM sees of the controller, for ScmContract.
Contract == INSTANCE ScmContract WITH
  status     <- last.state,
  checkPoint <- last.checkPoint,
  stopTaken  <- stopped,
  exit       <- IF outcome = NoOutcome THEN "None"
                ELSE IF outcome.code = 1 THEN "Failure" ELSE "Clean"

\* Controller implements the contract the SCM relies on.
ImplementsContract == Contract!Spec
=============================================================================
