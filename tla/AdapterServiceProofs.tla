------------------------ MODULE AdapterServiceProofs ------------------------
(***************************************************************************)
(* Theorems about AdapterService.tla, for every drain budget, margin,      *)
(* interval, number of requests and lag below the margin: the service is   *)
(* a Controller and an HttpServer sharing a context, so what is proved of  *)
(* Controller holds of it, and its five safety invariants.                 *)
(*                                                                         *)
(* Three invariants carry them: that of ControllerProofs, the shape of the *)
(* server (ServerShape), and what the two know of each other (Coupling).   *)
(***************************************************************************)
EXTENDS AdapterService, ControllerProofs

\* What the server's place in Run says of its listener, its requests and its drain.
ServerShape ==
  /\ at \in {"wiring", "binding", "bound"} => accept = "none" /\ inFlight = 0
  /\ at \in {"wiring", "binding", "bound", "serving"} => ~shutdown
  /\ at \in {"draining", "drained"} => shutdown
  /\ errCh = "empty" <=> accept # "returned"
  /\ errCh = "closed" => shutdown
  /\ at # "done" => returned = "none"
  /\ at = "drained" =>
       \/ shutdownErr = "nil" /\ inFlight = 0
       \/ shutdownErr = "expired" /\ grace = DrainBudget
  /\ at = "done" =>
       \/ returned = "startup" /\ accept = "none" /\ inFlight = 0
       \/ returned = "serve"
       \/ returned = "nil" /\ shutdown /\ inFlight = 0 /\ errCh = "closed" /\ "SYS-004" \in emitted
       \/ returned = "incomplete" /\ grace = DrainBudget /\ "SYS-007" \in emitted

\* What is on record, and what has been promised to the SCM, once the listener is bound.
Bound ==
  /\ at \in {"bound", "serving", "draining", "drained"} <=> "SYS-002" \in emitted /\ at # "done"
  /\ ready => "SYS-002" \in emitted
  /\ last.accepts # {} => last.state = "Running"
  /\ requests \in {"Stop", "PreShutdown"} => "SYS-002" \in emitted
  /\ last.state \in {"Running", "StopPending"} => "SYS-002" \in emitted

\* The two clocks: every unit of the controller's is either one of the server's
\* grace period or one the serving goroutine was late.
Clocks ==
  /\ lag \in 0 .. MaxLag
  /\ grace + lag = clock
  /\ grace <= DrainBudget

\* What the two goroutines know of each other. The request channel is never closed,
\* a server that is done has its result in the channel or in the outcome, and
\* the controller never gives up on one that is not.
Coupling ==
  /\ requests # "closed" /\ phase # "abandoning"
  /\ serving <=> at # "done"
  /\ result # "empty" => result = returned
  /\ phase = "returned" => ~serving /\ outcome.err = returned
  /\ proc \in {"running", "exited"}
  /\ proc = "exited" => phase = "returned" /\ (outcome.err \notin {"nil", "incomplete"} => sys005)

SInv ==
  /\ IInv
  /\ Http!TypeOK
  /\ ServerShape
  /\ Bound
  /\ Clocks
  /\ Coupling

-----------------------------------------------------------------------------
(* A step of the service is a step of each part, or a stutter of it.        *)

\* What the constants are, and what HttpServer's variables are together.
LEMMA ConstantFacts ==
  /\ DrainBudget \in Nat \ {0} /\ MaxInFlight \in Nat /\ MaxLag \in Nat
  /\ DrainDeadline \in Nat /\ DrainBudget + MaxLag < DrainDeadline
  /\ Results = {"startup", "serve", "incomplete", "nil"}
BY ControllerAssumption, ServiceAssumption DEF DrainDeadline, Results

\* The states the service starts in are initial states of both parts.
LEMMA InitRefinesParts == ServiceInit => Init /\ Http!Init
BY DEF ServiceInit

\* Whatever Run returns is a result the controller knows.
LEMMA ReturnIsAResult ==
  ASSUME Http!Return PROVE returned' \in Results
<1> USE ConstantFacts DEF Http!return
<1>1. CASE Http!WiringFails
  BY <1>1 DEF Http!WiringFails
<1>2. CASE Http!BindFails
  BY <1>2 DEF Http!BindFails
<1>3. CASE Http!ServeEnded
  BY <1>3 DEF Http!ServeEnded
<1>4. CASE Http!FinishDrain
  BY <1>4 DEF Http!FinishDrain
<1> QED
  BY <1>1, <1>2, <1>3, <1>4 DEF Http!Return

\* Every step of the service is one of the controller's.
LEMMA StepRefinesController ==
  ASSUME IInv, [ServiceNext]_serviceVars PROVE [Next]_vars
<1>1. CASE Ready
  BY <1>1 DEF Ready, Next
<1>2. CASE ServeOutcome
  BY <1>2, ReturnIsAResult DEF ServeOutcome, Next
<1>3. CASE ServeInternally
  BY <1>3 DEF ServeInternally
<1>4. CASE Control
  BY <1>4 DEF Control, Next
<1>5. CASE ScmSends
  <2>1. PICK cmd \in {"Interrogate"} \cup last.accepts : Offer(cmd)
    BY <1>5 DEF ScmSends
  <2>2. last.accepts \subseteq Accepts
    BY DEF IInv, TypeOK, Reports
  <2>3. cmd \in Commands
    BY <2>2 DEF Commands, Accepts
  <2> QED
    BY <2>1, <2>3 DEF Next
<1>6. CASE TimePasses
  BY <1>6 DEF TimePasses, Next
<1>7. CASE ServeLags
  BY <1>7 DEF ServeLags, Next
<1>8. CASE Exit
  BY <1>8 DEF Exit
<1>9. CASE UNCHANGED serviceVars
  BY <1>9 DEF serviceVars
<1> QED
  BY <1>1, <1>2, <1>3, <1>4, <1>5, <1>6, <1>7, <1>8, <1>9 DEF ServiceNext

\* What the controller does alone is, to the server, a cancel or nothing.
LEMMA ControlRefinesServer ==
  ASSUME IInv, Control PROVE Http!Cancel \/ UNCHANGED Http!vars
<1>1. cancelled \in BOOLEAN
  BY DEF IInv, TypeOK
<1>2. cancelled' = cancelled \/ cancelled' = TRUE
  BY DEF Control, Select, Begin, BecomeReady, TakeResult, Backstop, finish, TakeTick,
         Acknowledge, TakeStop, abandon
<1>3. UNCHANGED httpOwn
  BY DEF Control
<1> QED
  BY <1>1, <1>2, <1>3 DEF httpOwn, Http!Cancel, Http!acceptVars, Http!vars

\* Every step of the service is one of the server's.
LEMMA StepRefinesServer ==
  ASSUME IInv, [ServiceNext]_serviceVars PROVE [Http!Next]_(Http!vars)
<1> USE DEF httpOwn, Http!acceptVars, Http!vars
<1>1. CASE Ready
  BY <1>1 DEF Ready, Http!Next
<1>2. CASE ServeOutcome
  BY <1>2 DEF ServeOutcome, Http!Next
<1>3. CASE ServeInternally
  BY <1>3 DEF ServeInternally, Http!Next
<1>4. CASE Control
  BY <1>4, ControlRefinesServer DEF Http!Next
<1>5. CASE ScmSends
  BY <1>5 DEF ScmSends, Offer
<1>6. CASE TimePasses
  BY <1>6 DEF TimePasses, Http!Next
<1>7. CASE ServeLags
  BY <1>7 DEF ServeLags, Elapse
<1>8. CASE Exit
  BY <1>8 DEF Exit, vars
<1>9. CASE UNCHANGED serviceVars
  BY <1>9 DEF serviceVars, vars
<1> QED
  BY <1>1, <1>2, <1>3, <1>4, <1>5, <1>6, <1>7, <1>8, <1>9 DEF ServiceNext

-----------------------------------------------------------------------------
(* The server keeps its types and its shape.                                *)

LEMMA InitServer ==
  ASSUME ServiceInit PROVE Http!TypeOK /\ ServerShape
<1> USE ConstantFacts DEF ServiceInit, Http!Init
<1>1. Http!TypeOK
  <2>1. 0 \in 0 .. MaxInFlight /\ 0 \in 0 .. DrainBudget
    OBVIOUS
  <2> QED
    BY <2>1 DEF Http!TypeOK
<1>2. ServerShape
  BY DEF ServerShape
<1> QED
  BY <1>1, <1>2

LEMMA ReturnKeepsServer ==
  ASSUME Http!TypeOK, ServerShape, Http!Return PROVE Http!TypeOK' /\ ServerShape'
<1> USE ConstantFacts DEF Http!TypeOK, ServerShape, Http!return, Http!acceptVars
<1>1. CASE Http!WiringFails
  BY <1>1 DEF Http!WiringFails
<1>2. CASE Http!BindFails
  BY <1>2 DEF Http!BindFails
<1>3. CASE Http!ServeEnded
  BY <1>3 DEF Http!ServeEnded
<1>4. CASE Http!FinishDrain
  BY <1>4 DEF Http!FinishDrain
<1> QED
  BY <1>1, <1>2, <1>3, <1>4 DEF Http!Return

LEMMA ProgressKeepsServer ==
  ASSUME Http!TypeOK, ServerShape, Http!Progress PROVE Http!TypeOK' /\ ServerShape'
<1> USE ConstantFacts DEF Http!TypeOK, ServerShape, Http!acceptVars
<1>1. CASE Http!Wire
  BY <1>1 DEF Http!Wire
<1>2. CASE Http!Bind
  BY <1>2 DEF Http!Bind
<1>3. CASE Http!Accepting
  BY <1>3 DEF Http!Accepting
<1>4. CASE Http!ServeClosed
  BY <1>4 DEF Http!ServeClosed, Http!ServeReturns
<1>5. CASE Http!BeginDrain
  BY <1>5 DEF Http!BeginDrain
<1>6. CASE Http!Drained
  BY <1>6 DEF Http!Drained, Http!ShutdownReturns
<1>7. CASE Http!GraceExpired
  BY <1>7 DEF Http!GraceExpired, Http!ShutdownReturns
<1> QED
  BY <1>1, <1>2, <1>3, <1>4, <1>5, <1>6, <1>7 DEF Http!Progress

LEMMA TrafficKeepsServer ==
  ASSUME Http!TypeOK, ServerShape, Http!Traffic PROVE Http!TypeOK' /\ ServerShape'
<1> USE ConstantFacts DEF Http!TypeOK, ServerShape, Http!acceptVars
<1>1. CASE Http!AcceptFails
  BY <1>1 DEF Http!AcceptFails, Http!ServeReturns
<1>2. CASE Http!Arrive
  BY <1>2 DEF Http!Arrive
<1>3. CASE Http!Complete
  BY <1>3 DEF Http!Complete
<1> QED
  BY <1>1, <1>2, <1>3 DEF Http!Traffic

LEMMA StepKeepsServer ==
  ASSUME Http!TypeOK, ServerShape, [Http!Next]_(Http!vars)
  PROVE  Http!TypeOK' /\ ServerShape'
<1>1. CASE Http!Return
  BY <1>1, ReturnKeepsServer
<1>2. CASE Http!Announce
  BY <1>2 DEF Http!Announce, Http!TypeOK, ServerShape
<1>3. CASE Http!Progress
  BY <1>3, ProgressKeepsServer
<1>4. CASE Http!Traffic
  BY <1>4, TrafficKeepsServer
<1>5. CASE Http!Elapse
  BY <1>5, ConstantFacts DEF Http!Elapse, Http!acceptVars, Http!TypeOK, ServerShape
<1>6. CASE Http!Cancel
  BY <1>6 DEF Http!Cancel, Http!acceptVars, Http!TypeOK, ServerShape
<1>7. CASE UNCHANGED Http!vars
  BY <1>7 DEF Http!vars, Http!acceptVars, Http!TypeOK, ServerShape
<1> QED
  BY <1>1, <1>2, <1>3, <1>4, <1>5, <1>6, <1>7 DEF Http!Next

\* What the SCM is told of a bound listener stays true.
LEMMA StepKeepsBound ==
  ASSUME SInv, [ServiceNext]_serviceVars PROVE Bound'
<1> USE ConstantFacts DEF SInv, Bound,
      vars, scmVars, serveVars, timeVars, httpOwn, procVars, Http!acceptVars
<1>1. CASE Ready
  BY <1>1 DEF Ready, Http!Announce, SignalReady,
         IInv, TypeOK, Reports, PhaseShape, ServerShape, Http!TypeOK, Coupling
<1>2. CASE ServeOutcome
  BY <1>2 DEF ServeOutcome, ServeReturn, Http!Return, Http!WiringFails, Http!BindFails, Http!ServeEnded, Http!FinishDrain, Http!return,
         IInv, TypeOK, Reports, PhaseShape, ServerShape, Http!TypeOK, Coupling
<1>3. CASE ServeInternally
  BY <1>3 DEF ServeInternally, Http!Progress, Http!Wire, Http!Bind, Http!Accepting, Http!ServeClosed,
         Http!ServeReturns, Http!BeginDrain, Http!Drained, Http!GraceExpired, Http!ShutdownReturns,
         Http!Traffic, Http!AcceptFails, Http!Arrive, Http!Complete,
         IInv, TypeOK, Reports, PhaseShape, ServerShape, Http!TypeOK, Coupling
<1>4. CASE Control
  BY <1>4 DEF Control, Select, Begin, BecomeReady, TakeResult, Backstop, finish, TakeTick,
         Acknowledge, TakeStop, abandon,
         Pending, Steady,
         IInv, TypeOK, Reports, PhaseShape, ServerShape, Http!TypeOK, Coupling
<1>5. CASE ScmSends
  BY <1>5 DEF ScmSends, Offer,
         IInv, TypeOK, Reports, PhaseShape, ServerShape, Http!TypeOK, Coupling
<1>6. CASE TimePasses
  BY <1>6 DEF TimePasses, Elapse, Http!Elapse,
         IInv, TypeOK, Reports, PhaseShape, ServerShape, Http!TypeOK, Coupling
<1>7. CASE ServeLags
  BY <1>7 DEF ServeLags, Elapse,
         IInv, TypeOK, Reports, PhaseShape, ServerShape, Http!TypeOK, Coupling
<1>8. CASE Exit
  BY <1>8 DEF Exit,
         IInv, TypeOK, Reports, PhaseShape, ServerShape, Http!TypeOK, Coupling
<1>9. CASE UNCHANGED serviceVars
  BY <1>9 DEF serviceVars
<1> QED
  BY <1>1, <1>2, <1>3, <1>4, <1>5, <1>6, <1>7, <1>8, <1>9 DEF ServiceNext

\* The clocks stay together.
LEMMA StepKeepsClocks ==
  ASSUME SInv, [ServiceNext]_serviceVars PROVE Clocks'
<1> USE ConstantFacts DEF SInv, Clocks,
      vars, scmVars, serveVars, timeVars, httpOwn, procVars, Http!acceptVars
<1>1. CASE Ready
  BY <1>1 DEF Ready, Http!Announce, SignalReady,
         IInv, TypeOK, PhaseShape, ServerShape, Http!TypeOK
<1>2. CASE ServeOutcome
  BY <1>2 DEF ServeOutcome, ServeReturn, Http!Return, Http!WiringFails, Http!BindFails, Http!ServeEnded, Http!FinishDrain, Http!return,
         IInv, TypeOK, PhaseShape, ServerShape, Http!TypeOK
<1>3. CASE ServeInternally
  BY <1>3 DEF ServeInternally, Http!Progress, Http!Wire, Http!Bind, Http!Accepting, Http!ServeClosed,
         Http!ServeReturns, Http!BeginDrain, Http!Drained, Http!GraceExpired, Http!ShutdownReturns,
         Http!Traffic, Http!AcceptFails, Http!Arrive, Http!Complete,
         IInv, TypeOK, PhaseShape, ServerShape, Http!TypeOK
<1>4. CASE Control
  <2>1. ~abandon
    BY DEF abandon, Coupling
  <2>2. clock' = clock
    BY <1>4, <2>1 DEF Control, Select, Begin, BecomeReady, TakeResult, Backstop, finish,
           TakeTick, Acknowledge, TakeStop
  <2> QED
    BY <1>4, <2>2 DEF Control
<1>5. CASE ScmSends
  BY <1>5 DEF ScmSends, Offer,
         IInv, TypeOK, PhaseShape, ServerShape, Http!TypeOK
<1>6. CASE TimePasses
  BY <1>6 DEF TimePasses, Elapse, Http!Elapse,
         IInv, TypeOK, PhaseShape, ServerShape, Http!TypeOK
<1>7. CASE ServeLags
  BY <1>7 DEF ServeLags, Elapse,
         IInv, TypeOK, PhaseShape, ServerShape, Http!TypeOK
<1>8. CASE Exit
  BY <1>8 DEF Exit,
         IInv, TypeOK, PhaseShape, ServerShape, Http!TypeOK
<1>9. CASE UNCHANGED serviceVars
  BY <1>9 DEF serviceVars
<1> QED
  BY <1>1, <1>2, <1>3, <1>4, <1>5, <1>6, <1>7, <1>8, <1>9 DEF ServiceNext

\* The two keep what they know of each other.
LEMMA StepKeepsCoupling ==
  ASSUME SInv, [ServiceNext]_serviceVars PROVE Coupling'
<1> USE ConstantFacts DEF SInv, Coupling,
      vars, scmVars, serveVars, timeVars, httpOwn, procVars, Http!acceptVars
<1>1. CASE Ready
  BY <1>1 DEF Ready, Http!Announce, SignalReady,
         IInv, TypeOK, PhaseShape, ServeShape, ServerShape, Http!TypeOK, Clocks, Accepts, Results
<1>2. CASE ServeOutcome
  BY <1>2 DEF ServeOutcome, ServeReturn, Http!Return, Http!WiringFails, Http!BindFails, Http!ServeEnded, Http!FinishDrain, Http!return,
         IInv, TypeOK, PhaseShape, ServeShape, ServerShape, Http!TypeOK, Clocks, Accepts, Results
<1>3. CASE ServeInternally
  BY <1>3 DEF ServeInternally, Http!Progress, Http!Wire, Http!Bind, Http!Accepting, Http!ServeClosed,
         Http!ServeReturns, Http!BeginDrain, Http!Drained, Http!GraceExpired, Http!ShutdownReturns,
         Http!Traffic, Http!AcceptFails, Http!Arrive, Http!Complete,
         IInv, TypeOK, PhaseShape, ServeShape, ServerShape, Http!TypeOK, Clocks, Accepts, Results
<1>4. CASE Control
  <2>1. UNCHANGED <<httpOwn, procVars>>
    BY <1>4 DEF Control
  <2>2. CASE Begin
    BY <2>1, <2>2 DEF Begin, IInv, TypeOK, PhaseShape, ServeShape, Results
  <2>3. CASE BecomeReady
    BY <2>1, <2>3 DEF BecomeReady, IInv, TypeOK, PhaseShape, ServeShape, Results
  <2>4. CASE TakeResult
    <3>1. ~serving /\ result = returned
      BY <2>4 DEF TakeResult, IInv, TypeOK, PhaseShape, ServeShape, Results
    <3>2. outcome'.err = returned /\ phase' = "returned" /\ result' = "empty"
      BY <2>4, <3>1 DEF TakeResult, finish
    <3>3. UNCHANGED <<requests, serving>> /\ phase # "returned"
      BY <2>4 DEF TakeResult, finish
    <3> QED
      BY <2>1, <3>1, <3>2, <3>3
  <2>5. ~Backstop
    BY DEF Backstop, Clocks, Http!TypeOK, IInv, TypeOK, PhaseShape, ServeShape, Results
  <2>6. CASE TakeTick
    BY <2>1, <2>6 DEF TakeTick, IInv, TypeOK, PhaseShape, ServeShape, Results
  <2>7. CASE Acknowledge
    BY <2>1, <2>7 DEF Acknowledge, IInv, TypeOK, PhaseShape, ServeShape, Results
  <2>8. CASE TakeStop
    BY <2>1, <2>8 DEF TakeStop, IInv, TypeOK, PhaseShape, ServeShape, Results
  <2>9. ~abandon
    BY DEF abandon
  <2> QED
    BY <1>4, <2>2, <2>3, <2>4, <2>5, <2>6, <2>7, <2>8, <2>9 DEF Control, Select
<1>5. CASE ScmSends
  <2>1. PICK cmd \in {"Interrogate"} \cup last.accepts : Offer(cmd)
    BY <1>5 DEF ScmSends
  <2>2. cmd # "closed"
    BY DEF IInv, TypeOK, Reports, Accepts
  <2> QED
    BY <1>5, <2>1, <2>2 DEF ScmSends, Offer
<1>6. CASE TimePasses
  BY <1>6 DEF TimePasses, Elapse, Http!Elapse,
         IInv, TypeOK, PhaseShape, ServeShape, ServerShape, Http!TypeOK, Clocks, Accepts, Results
<1>7. CASE ServeLags
  BY <1>7 DEF ServeLags, Elapse,
         IInv, TypeOK, PhaseShape, ServeShape, ServerShape, Http!TypeOK, Clocks, Accepts, Results
<1>8. CASE Exit
  BY <1>8 DEF Exit,
         IInv, TypeOK, PhaseShape, ServeShape, ServerShape, Http!TypeOK, Clocks, Accepts, Results
<1>9. CASE UNCHANGED serviceVars
  BY <1>9 DEF serviceVars
<1> QED
  BY <1>1, <1>2, <1>3, <1>4, <1>5, <1>6, <1>7, <1>8, <1>9 DEF ServiceNext

-----------------------------------------------------------------------------
(* The theorems.                                                            *)

\* The service starts in a state of the invariant.
LEMMA InitSInv ==
  ASSUME ServiceInit PROVE SInv
<1>1. IInv
  BY InitIInv DEF ServiceInit
<1>2. Http!TypeOK /\ ServerShape
  BY InitServer
<1>3. Bound /\ Clocks /\ Coupling
  BY ConstantFacts DEF ServiceInit, Init, Http!Init, NoReport, NoOutcome, Bound, Clocks, Coupling
<1> QED
  BY <1>1, <1>2, <1>3 DEF SInv

\* Each step of the service keeps it.
LEMMA StepKeepsSInv ==
  ASSUME SInv, [ServiceNext]_serviceVars PROVE SInv'
<1>1. IInv'
  BY StepRefinesController, StepKeepsIInv DEF SInv
<1>2. Http!TypeOK' /\ ServerShape'
  BY StepRefinesServer, StepKeepsServer DEF SInv
<1> QED
  BY <1>1, <1>2, StepKeepsBound, StepKeepsClocks, StepKeepsCoupling DEF SInv

\* The invariant of the whole: it holds of every behaviour of the service.
THEOREM ServiceInvariance == ServiceSpec => []SInv
<1>1. ServiceInit => SInv
  BY InitSInv
<1>2. SInv /\ [ServiceNext]_serviceVars => SInv'
  BY StepKeepsSInv
<1> QED
  BY <1>1, <1>2, PTL DEF ServiceSpec

\* The service is a controller around some Serve and a server under some owner of its
\* context, step by step: what is proved of either holds of it (runWith inside Run).
THEOREM ImplementsPartsSafety ==
  ServiceSpec => /\ Init /\ [][Next]_vars
                 /\ Http!Init /\ [][Http!Next]_(Http!vars)
                 /\ [](TypeOK /\ Http!TypeOK)
<1>1. ServiceInit => Init /\ Http!Init
  BY InitRefinesParts
<1>2. SInv => IInv /\ TypeOK /\ Http!TypeOK
  BY DEF SInv, IInv
<1>3. IInv /\ [ServiceNext]_serviceVars => [Next]_vars
  BY StepRefinesController
<1>4. IInv /\ [ServiceNext]_serviceVars => [Http!Next]_(Http!vars)
  BY StepRefinesServer
<1> QED
  BY <1>1, <1>2, <1>3, <1>4, ServiceInvariance, PTL DEF ServiceSpec

\* Running is only said of a bound listener (ready, called between bind and Accept).
THEOREM RunningAlwaysMeansBound == ServiceSpec => []RunningMeansBound
<1>1. SInv => RunningMeansBound
  BY DEF SInv, Bound, RunningMeansBound
<1> QED
  BY <1>1, ServiceInvariance, PTL

\* Serve has returned whenever Run has: the lag fits in the margin, so the backstop never
\* fires on a server that drains, and logClose is read without a race (runUnderSCM).
THEOREM LogCloserAlwaysSettled == ServiceSpec => []LogCloserSettled
<1>1. SInv => LogCloserSettled
  BY DEF SInv, Coupling, LogCloserSettled
<1> QED
  BY <1>1, ServiceInvariance, PTL

\* A quiet end cut nobody off and lost no failure of the listener (Server.Run's drain).
THEOREM QuietEndAlwaysClean == ServiceSpec => []QuietEndIsClean
<1>1. SInv => QuietEndIsClean
  BY DEF SInv, Coupling, ServerShape, QuietEndIsClean
<1> QED
  BY <1>1, ServiceInvariance, PTL

\* Who is cut off had the whole budget, unless Serve failed (Shutdown's own deadline).
THEOREM CutOffAlwaysAfterGrace == ServiceSpec => []CutOffOnlyAfterGrace
<1>1. SInv => CutOffOnlyAfterGrace
  BY DEF SInv, ServerShape, Http!TypeOK, CutOffOnlyAfterGrace, Http!CutOffOnlyAfterGrace
<1> QED
  BY <1>1, ServiceInvariance, PTL

\* What is cut off or asks for a restart is on record (reportOutcome, SYS-007).
THEOREM FailureAlwaysRecorded == ServiceSpec => []FailureIsRecorded
<1>1. SInv => FailureIsRecorded
  BY ConstantFacts, ServiceAssumption
     DEF SInv, Coupling, ServerShape, Http!TypeOK, IInv, OutcomeShape, FailureIsRecorded
<1> QED
  BY <1>1, ServiceInvariance, PTL
=============================================================================
