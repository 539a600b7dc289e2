--------------------------- MODULE AdapterService ---------------------------
(***************************************************************************)
(* The adapter running as a Windows service: winsvc.Run's pump between the *)
(* SCM and the Controller, runWith as the Controller's ServeFunc, the      *)
(* HTTP server inside it, and main's report of the outcome.                *)
(*                                                                         *)
(* Controller and HttpServer are composed, not rewritten: they share the   *)
(* context (cancelled); ready() and the return of runWith are steps of     *)
(* both at once; and one drain budget is given to both.                    *)
(***************************************************************************)
EXTENDS Controller

CONSTANTS
  MaxInFlight, \* bound: requests in handlers at once
  MaxLag       \* how late the serving goroutine may run while it has work to do

\* The margin is what absorbs a late goroutine.
ASSUME ServiceAssumption ==
  /\ MaxInFlight \in Nat
  /\ MaxLag \in Nat /\ MaxLag < DrainMargin
  /\ ServeErrors = {"startup", "serve", "incomplete"}

VARIABLES
  at, accept, errCh, shutdown, shutdownErr, inFlight, grace, emitted, returned,
  lag,     \* time the serving goroutine has been late
  sys005,  \* SYS-005 was emitted
  proc     \* the process: "running" or "exited"

Http == INSTANCE HttpServer WITH ShutdownGrace <- DrainBudget

httpOwn     == <<at, accept, errCh, shutdown, shutdownErr, inFlight, grace, emitted, returned>>
procVars    == <<lag, sys005, proc>>
serviceVars == <<vars, httpOwn, procVars>>

ServiceInit ==
  /\ Init /\ Http!Init
  /\ lag = 0 /\ sys005 = FALSE /\ proc = "running"

-----------------------------------------------------------------------------
\* Mutant: ready() is called by runWith, before the listener is bound.
ReadyBeforeBind ==
  /\ \/ Http!Wire /\ SignalReady
     \/ Http!Announce /\ UNCHANGED vars
  /\ UNCHANGED procVars

\* The listener is bound and the controller hears of it.
Ready == Http!Announce /\ SignalReady /\ UNCHANGED procVars

\* Mutant: the deferred cancel of a failed runWith drops its error.
ServeOutcomeLost ==
  /\ Http!Return
  /\ ServeReturn("nil")
  /\ UNCHANGED procVars

\* runWith returns, into the controller's result channel.
ServeOutcome ==
  /\ Http!Return
  /\ ServeReturn(returned')
  /\ UNCHANGED procVars

\* Everything the server does that the controller does not see.
ServeInternally ==
  /\ proc = "running"
  /\ Http!Progress \/ Http!Traffic
  /\ UNCHANGED <<vars, procVars>>

\* Everything the controller does that the server sees at most as a cancel.
Control == (Begin \/ Select) /\ UNCHANGED <<httpOwn, procVars>>

\* The SCM interrogates at will and sends only the controls the last status
\* accepts; the pump translates them and drops all others, and it neither
\* buffers nor closes the channel.
ScmSends ==
  /\ \E cmd \in {"Interrogate"} \cup last.accepts : Offer(cmd)
  /\ UNCHANGED <<httpOwn, procVars>>

\* Mutant: Shutdown's deadline starts when the stop is taken.
TimePassesEverywhere ==
  /\ Elapse
  /\ grace < DrainBudget /\ grace' = grace + 1
  /\ UNCHANGED <<at, accept, errCh, shutdown, shutdownErr, inFlight, emitted, returned>>
  /\ UNCHANGED procVars

\* Time while Shutdown waits, on both clocks.
TimePasses == Elapse /\ Http!Elapse /\ UNCHANGED procVars

\* The serving goroutine has a step to take and does not take it yet. It is past
\* its wiring and binding by then: nothing that is starting accepts a stop.
ServeLags ==
  /\ Elapse
  /\ at = "draining" => grace = DrainBudget
  /\ lag < MaxLag /\ lag' = lag + 1
  /\ UNCHANGED <<httpOwn, sys005, proc>>

\* Mutant: only failures before the bind are reported.
ExitQuietOnceBound ==
  /\ phase = "returned" /\ proc = "running"
  /\ proc' = "exited"
  /\ sys005' = (outcome.err = "startup")
  /\ UNCHANGED <<vars, httpOwn, lag>>

\* reportOutcome and the exit: everything but a nil and an overrun grace period
\* is reported as SYS-005.
Exit ==
  /\ phase = "returned" /\ proc = "running"
  /\ proc' = "exited"
  /\ sys005' = (outcome.err \notin {"nil", "incomplete"})
  /\ UNCHANGED <<vars, httpOwn, lag>>

ServiceNext ==
  \/ Ready \/ ServeOutcome \/ ServeInternally
  \/ Control \/ ScmSends
  \/ TimePasses \/ ServeLags \/ Exit

\* Both goroutines run, time passes and a process that is done exits. Wiring and
\* binding end; handlers may hang, and the SCM need never send anything.
ServiceFairness ==
  /\ WF_serviceVars(Ready) /\ WF_serviceVars(ServeOutcome)
  /\ WF_serviceVars(proc = "running" /\ Http!Progress /\ UNCHANGED <<vars, procVars>>)
  /\ WF_serviceVars(Begin /\ UNCHANGED <<httpOwn, procVars>>)
  /\ WF_serviceVars(BecomeReady /\ UNCHANGED <<httpOwn, procVars>>)
  /\ WF_serviceVars(TakeResult /\ UNCHANGED <<httpOwn, procVars>>)
  /\ WF_serviceVars(Backstop /\ UNCHANGED <<httpOwn, procVars>>)
  /\ WF_serviceVars(TakeTick /\ UNCHANGED <<httpOwn, procVars>>)
  /\ WF_serviceVars((Acknowledge \/ TakeStop) /\ UNCHANGED <<httpOwn, procVars>>)
  /\ WF_serviceVars(TimePasses) /\ WF_serviceVars(ServeLags)
  /\ WF_serviceVars(Exit)

ServiceSpec == ServiceInit /\ [][ServiceNext]_serviceVars /\ ServiceFairness
-----------------------------------------------------------------------------
(* Correctness of the whole.                                                *)

\* The SCM is told Running only about a process whose listener is bound, and a
\* stop it sends can therefore only reach a server that can drain (ready, called
\* between the bind and the first Accept).
RunningMeansBound ==
  last.state \in {"Running", "StopPending"} => "SYS-002" \in emitted

\* runUnderSCM reads logClose without a lock because serve has returned by then:
\* a server that drains within the budget is never written off by the backstop.
LogCloserSettled == phase = "returned" => ~serving

\* A service that ends with nothing to report cut nobody off and said so, and its
\* listener did not fail, not even as the stop arrived (<-errCh after Shutdown).
QuietEndIsClean ==
  proc = "exited" /\ outcome.err = "nil" =>
    inFlight = 0 /\ "SYS-004" \in emitted /\ errCh # "failed"

\* A request that the process cuts off had the whole drain budget to finish, unless
\* Serve itself failed (Shutdown runs on a deadline of its own, not on the context
\* the controller cancelled).
CutOffOnlyAfterGrace == Http!CutOffOnlyAfterGrace

\* Whatever is cut off, or asks the SCM for a restart, is on record: SYS-007 for
\* a grace period that ran out, SYS-005 for a failure (Run and reportOutcome).
FailureIsRecorded ==
  proc = "exited" /\ (inFlight > 0 \/ outcome.code = 1) =>
    sys005 \/ "SYS-007" \in emitted

\* A stop the SCM sends ends the process, hung handlers and late goroutines
\* included.
StopEndsProcess == requests \in {"Stop", "PreShutdown"} ~> proc = "exited"

\* What the controller and the server are assumed to face on their own is what
\* they face here, so what is checked and proved of each holds of the whole; and
\* each keeps its types.
ImplementsParts ==
  /\ Init /\ [][Next]_vars
  /\ Http!Init /\ [][Http!Next]_(Http!vars)
  /\ [](TypeOK /\ Http!TypeOK)
=============================================================================
