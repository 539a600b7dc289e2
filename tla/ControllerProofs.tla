-------------------------- MODULE ControllerProofs --------------------------
(***************************************************************************)
(* Theorems about Controller.tla, for every budget, margin, interval and   *)
(* set of errors: its type invariant and safety invariants, and that every *)
(* step of it is a step of ScmContract or a stutter.                       *)
(*                                                                         *)
(* They all rest on one inductive invariant, IInv: what each phase implies *)
(* about the rest of the state, and how the three things the goroutine     *)
(* running Serve shares with Run stay in step.                             *)
(***************************************************************************)
EXTENDS Controller, TLAPS

\* Each phase has its report; a stop is taken, and the context cancelled, on
\* entering the drain and never before.
PhaseShape ==
  /\ phase = "begin"      => last = NoReport
  /\ phase = "starting"   => last.state = "StartPending"
  /\ phase = "running"    => last.state = "Running" /\ ready
  /\ phase = "draining"   => last.state = "StopPending"
  /\ phase = "abandoning" => last.state \in {"StartPending", "Running", "StopPending"}
  /\ phase = "returned"   => last.state = "Stopped"
  /\ last.state = "Running" => ready
  /\ phase \in {"begin", "starting", "running"} => ~stopped /\ ~cancelled
  /\ phase \in {"draining", "abandoning"} => stopped
  /\ phase = "returned" => cancelled
  /\ phase = "returned" <=> outcome # NoOutcome

\* Until Run returns, the result channel is full exactly when Serve has returned,
\* and time has stood still since. While Serve runs, only a stop cancels it.
ServeShape ==
  /\ phase # "returned" => (serving <=> result = "empty")
  /\ phase # "returned" /\ ~serving => clock <= returnedAt
  /\ serving /\ cancelled => stopped
  /\ ~serving /\ ~stopped => diedAlone

\* Time starts with the drain, and a tick is pending only in it; there is at most one checkpoint for each
\* unit of time.
TickShape ==
  /\ phase \in {"begin", "starting", "running"} => clock = 0
  /\ ticked => phase \in {"draining", "returned"}
  /\ phase = "draining" => last.checkPoint + (IF ticked THEN 1 ELSE 0) <= 1 + clock

\* The backstop fires past the budget and the exit code follows the table.
OutcomeShape ==
  phase = "returned" =>
    /\ outcome.err = "overran" => clock > DrainBudget /\ stopped
    /\ outcome.err # "none"
    /\ outcome.code = 1 <=> outcome.err \in ServeErrors /\ diedAlone /\ ~stopped

IInv ==
  /\ TypeOK
  /\ PhaseShape
  /\ ServeShape
  /\ TickShape
  /\ OutcomeShape
  /\ BudgetHonoured

-----------------------------------------------------------------------------
(* The invariant is inductive.                                              *)

\* What an expanded definition of the invariant needs to know of the constants.
LEMMA DeadlineFacts ==
  /\ DrainDeadline \in Nat /\ DrainBudget < DrainDeadline
  /\ "nil" \notin ServeErrors /\ "none" \notin ServeErrors
  /\ "empty" \notin ServeErrors /\ "overran" \notin ServeErrors
BY ControllerAssumption DEF DrainDeadline

\* Run starts in a state of the invariant.
LEMMA InitIInv == Init => IInv
<1> SUFFICES ASSUME Init PROVE IInv
  OBVIOUS
<1> USE ControllerAssumption, DeadlineFacts DEF Init, NoReport, NoOutcome
<1>1. TypeOK
  <2>1. last \in Reports
    BY DEF Reports, States
  <2>2. outcome \in [code : {0, 1}, err : Results \cup {"none", "overran"}]
    OBVIOUS
  <2>3. 0 \in 0 .. DrainDeadline
    OBVIOUS
  <2> QED
    BY <2>1, <2>2, <2>3 DEF TypeOK
<1>2. PhaseShape /\ ServeShape /\ TickShape /\ OutcomeShape /\ BudgetHonoured
  BY DEF PhaseShape, ServeShape, TickShape, OutcomeShape, BudgetHonoured
<1> QED
  BY <1>1, <1>2 DEF IInv

LEMMA BeginKeepsIInv ==
  ASSUME IInv, Begin PROVE IInv'
<1> USE ControllerAssumption, DeadlineFacts
      DEF IInv, Begin, Pending, scmVars, serveVars, timeVars
<1>1. TypeOK'
  BY DEF TypeOK, Reports, States, Accepts, Results, Commands, PhaseShape, TickShape
<1>2. PhaseShape'
  BY DEF TypeOK, PhaseShape, NoReport, NoOutcome, Reports
<1>3. ServeShape'
  BY DEF TypeOK, PhaseShape, ServeShape, Results
<1>4. TickShape'
  BY DEF TypeOK, PhaseShape, TickShape, Reports
<1>5. OutcomeShape'
  BY DEF TypeOK, PhaseShape, ServeShape, OutcomeShape, Results
<1>6. BudgetHonoured'
  BY DEF TypeOK, PhaseShape, ServeShape, OutcomeShape, BudgetHonoured, Results
<1> QED
  BY <1>1, <1>2, <1>3, <1>4, <1>5, <1>6

LEMMA BecomeReadyKeepsIInv ==
  ASSUME IInv, BecomeReady PROVE IInv'
<1> USE ControllerAssumption, DeadlineFacts
      DEF IInv, BecomeReady, Steady, scmVars, serveVars, timeVars
<1>1. TypeOK'
  BY DEF TypeOK, Reports, States, Accepts, Results, Commands, PhaseShape, TickShape
<1>2. PhaseShape'
  BY DEF TypeOK, PhaseShape, NoReport, NoOutcome, Reports
<1>3. ServeShape'
  BY DEF TypeOK, PhaseShape, ServeShape, Results
<1>4. TickShape'
  BY DEF TypeOK, PhaseShape, TickShape, Reports
<1>5. OutcomeShape'
  BY DEF TypeOK, PhaseShape, ServeShape, OutcomeShape, Results
<1>6. BudgetHonoured'
  BY DEF TypeOK, PhaseShape, ServeShape, OutcomeShape, BudgetHonoured, Results
<1> QED
  BY <1>1, <1>2, <1>3, <1>4, <1>5, <1>6

LEMMA TakeResultKeepsIInv ==
  ASSUME IInv, TakeResult PROVE IInv'
<1> USE ControllerAssumption, DeadlineFacts
      DEF IInv, TakeResult, finish, Steady, scmVars, serveVars, timeVars
<1>1. TypeOK'
  BY DEF TypeOK, Reports, States, Accepts, Results, Commands, PhaseShape, TickShape
<1>2. PhaseShape'
  <2>1. outcome'.err = result /\ result # "none"
    BY DEF TypeOK, Results
  <2> QED
    BY <2>1 DEF TypeOK, PhaseShape, NoOutcome
<1>3. ServeShape'
  BY DEF TypeOK, PhaseShape, ServeShape, Results
<1>4. TickShape'
  BY DEF TypeOK, PhaseShape, TickShape, Reports
<1>5. OutcomeShape'
  BY DEF TypeOK, PhaseShape, ServeShape, OutcomeShape, Results
<1>6. BudgetHonoured'
  BY DEF TypeOK, PhaseShape, ServeShape, OutcomeShape, BudgetHonoured, Results
<1> QED
  BY <1>1, <1>2, <1>3, <1>4, <1>5, <1>6

LEMMA BackstopKeepsIInv ==
  ASSUME IInv, Backstop PROVE IInv'
<1> USE ControllerAssumption, DeadlineFacts
      DEF IInv, Backstop, finish, Steady, scmVars, serveVars, timeVars
<1>1. TypeOK'
  BY DEF TypeOK, Reports, States, Accepts, Results, Commands, PhaseShape, TickShape
<1>2. PhaseShape'
  BY DEF TypeOK, PhaseShape, NoReport, NoOutcome, Reports
<1>3. ServeShape'
  BY DEF TypeOK, PhaseShape, ServeShape, Results
<1>4. TickShape'
  BY DEF TypeOK, PhaseShape, TickShape, Reports
<1>5. OutcomeShape'
  BY DEF TypeOK, PhaseShape, ServeShape, OutcomeShape, Results
<1>6. BudgetHonoured'
  BY DEF TypeOK, PhaseShape, ServeShape, OutcomeShape, BudgetHonoured, Results
<1> QED
  BY <1>1, <1>2, <1>3, <1>4, <1>5, <1>6

LEMMA TakeTickKeepsIInv ==
  ASSUME IInv, TakeTick PROVE IInv'
<1> USE ControllerAssumption, DeadlineFacts
      DEF IInv, TakeTick, scmVars, serveVars, timeVars
<1>1. TypeOK'
  <2>1. last.checkPoint + 1 \in 0 .. (1 + DrainDeadline)
    BY DEF TypeOK, TickShape, Reports
  <2>2. last' \in Reports
    BY <2>1 DEF TypeOK, Reports
  <2> QED
    BY <2>2 DEF TypeOK
<1>2. PhaseShape'
  BY DEF TypeOK, PhaseShape, NoReport, NoOutcome, Reports
<1>3. ServeShape'
  BY DEF TypeOK, PhaseShape, ServeShape, Results
<1>4. TickShape'
  BY DEF TypeOK, PhaseShape, TickShape, Reports
<1>5. OutcomeShape'
  BY DEF TypeOK, PhaseShape, ServeShape, OutcomeShape, Results
<1>6. BudgetHonoured'
  BY DEF TypeOK, PhaseShape, ServeShape, OutcomeShape, BudgetHonoured, Results
<1> QED
  BY <1>1, <1>2, <1>3, <1>4, <1>5, <1>6

LEMMA AcknowledgeKeepsIInv ==
  ASSUME IInv, Acknowledge PROVE IInv'
<1> USE ControllerAssumption, DeadlineFacts
      DEF IInv, Acknowledge, scmVars, serveVars, timeVars
<1>1. TypeOK'
  BY DEF TypeOK, Reports, States, Accepts, Results, Commands, PhaseShape, TickShape
<1>2. PhaseShape'
  BY DEF TypeOK, PhaseShape, NoReport, NoOutcome, Reports
<1>3. ServeShape'
  BY DEF TypeOK, PhaseShape, ServeShape, Results
<1>4. TickShape'
  BY DEF TypeOK, PhaseShape, TickShape, Reports
<1>5. OutcomeShape'
  BY DEF TypeOK, PhaseShape, ServeShape, OutcomeShape, Results
<1>6. BudgetHonoured'
  BY DEF TypeOK, PhaseShape, ServeShape, OutcomeShape, BudgetHonoured, Results
<1> QED
  BY <1>1, <1>2, <1>3, <1>4, <1>5, <1>6

LEMMA TakeStopKeepsIInv ==
  ASSUME IInv, TakeStop PROVE IInv'
<1> USE ControllerAssumption, DeadlineFacts
      DEF IInv, TakeStop, Pending, scmVars, serveVars, timeVars
<1>1. TypeOK'
  BY DEF TypeOK, Reports, States, Accepts, Results, Commands, PhaseShape, TickShape
<1>2. PhaseShape'
  BY DEF TypeOK, PhaseShape, NoReport, NoOutcome, Reports
<1>3. ServeShape'
  BY DEF TypeOK, PhaseShape, ServeShape, Results
<1>4. TickShape'
  BY DEF TypeOK, PhaseShape, TickShape, Reports
<1>5. OutcomeShape'
  BY DEF TypeOK, PhaseShape, ServeShape, OutcomeShape, Results
<1>6. BudgetHonoured'
  BY DEF TypeOK, PhaseShape, ServeShape, OutcomeShape, BudgetHonoured, Results
<1> QED
  BY <1>1, <1>2, <1>3, <1>4, <1>5, <1>6

LEMMA abandonKeepsIInv ==
  ASSUME IInv, abandon PROVE IInv'
<1> USE ControllerAssumption, DeadlineFacts
      DEF IInv, abandon, scmVars, serveVars, timeVars
<1>1. TypeOK'
  <2>1. 0 \in 0 .. DrainDeadline
    OBVIOUS
  <2> QED
    BY <2>1 DEF TypeOK
<1>2. PhaseShape'
  BY DEF TypeOK, PhaseShape, NoReport, NoOutcome, Reports
<1>3. ServeShape'
  BY DEF TypeOK, PhaseShape, ServeShape, Results
<1>4. TickShape'
  BY DEF TypeOK, PhaseShape, TickShape, Reports
<1>5. OutcomeShape'
  BY DEF TypeOK, PhaseShape, ServeShape, OutcomeShape, Results
<1>6. BudgetHonoured'
  BY DEF TypeOK, PhaseShape, ServeShape, OutcomeShape, BudgetHonoured, Results
<1> QED
  BY <1>1, <1>2, <1>3, <1>4, <1>5, <1>6

LEMMA SignalReadyKeepsIInv ==
  ASSUME IInv, SignalReady PROVE IInv'
<1> USE ControllerAssumption, DeadlineFacts
      DEF IInv, SignalReady, scmVars, serveVars, timeVars
<1>1. TypeOK'
  BY DEF TypeOK, Reports, States, Accepts, Results, Commands, PhaseShape, TickShape
<1>2. PhaseShape'
  BY DEF TypeOK, PhaseShape, NoReport, NoOutcome, Reports
<1>3. ServeShape'
  BY DEF TypeOK, PhaseShape, ServeShape, Results
<1>4. TickShape'
  BY DEF TypeOK, PhaseShape, TickShape, Reports
<1>5. OutcomeShape'
  BY DEF TypeOK, PhaseShape, ServeShape, OutcomeShape, Results
<1>6. BudgetHonoured'
  BY DEF TypeOK, PhaseShape, ServeShape, OutcomeShape, BudgetHonoured, Results
<1> QED
  BY <1>1, <1>2, <1>3, <1>4, <1>5, <1>6

LEMMA CloseRequestsKeepsIInv ==
  ASSUME IInv, CloseRequests PROVE IInv'
<1> USE ControllerAssumption, DeadlineFacts
      DEF IInv, CloseRequests, scmVars, serveVars, timeVars
<1>1. TypeOK'
  BY DEF TypeOK, Reports, States, Accepts, Results, Commands, PhaseShape, TickShape
<1>2. PhaseShape'
  BY DEF TypeOK, PhaseShape, NoReport, NoOutcome, Reports
<1>3. ServeShape'
  BY DEF TypeOK, PhaseShape, ServeShape, Results
<1>4. TickShape'
  BY DEF TypeOK, PhaseShape, TickShape, Reports
<1>5. OutcomeShape'
  BY DEF TypeOK, PhaseShape, ServeShape, OutcomeShape, Results
<1>6. BudgetHonoured'
  BY DEF TypeOK, PhaseShape, ServeShape, OutcomeShape, BudgetHonoured, Results
<1> QED
  BY <1>1, <1>2, <1>3, <1>4, <1>5, <1>6

LEMMA ElapseKeepsIInv ==
  ASSUME IInv, Elapse PROVE IInv'
<1> USE ControllerAssumption, DeadlineFacts
      DEF IInv, Elapse, scmVars, serveVars, timeVars
<1>1. TypeOK'
  BY DEF TypeOK, Reports, States, Accepts, Results, Commands, PhaseShape, TickShape
<1>2. PhaseShape'
  BY DEF TypeOK, PhaseShape, NoReport, NoOutcome, Reports
<1>3. ServeShape'
  BY DEF TypeOK, PhaseShape, ServeShape, Results
<1>4. TickShape'
  BY DEF TypeOK, PhaseShape, TickShape, Reports
<1>5. OutcomeShape'
  BY DEF TypeOK, PhaseShape, ServeShape, OutcomeShape, Results
<1>6. BudgetHonoured'
  BY DEF TypeOK, PhaseShape, ServeShape, OutcomeShape, BudgetHonoured, Results
<1> QED
  BY <1>1, <1>2, <1>3, <1>4, <1>5, <1>6

LEMMA ServeReturnKeepsIInv ==
  ASSUME IInv, NEW err \in Results, ServeReturn(err) PROVE IInv'
<1> USE ControllerAssumption, DeadlineFacts
      DEF IInv, ServeReturn, scmVars, serveVars, timeVars
<1>0. err # "empty" /\ diedAlone' = ~cancelled /\ cancelled \in BOOLEAN /\ stopped \in BOOLEAN
  BY DEF TypeOK, Results
<1>1. TypeOK'
  BY <1>0 DEF TypeOK
<1>2. PhaseShape'
  BY DEF TypeOK, PhaseShape, NoReport, NoOutcome, Reports
<1>3. ServeShape'
  <2>1. ~stopped => diedAlone'
    BY <1>0 DEF ServeShape
  <2>2. clock \in Nat
    BY DEF TypeOK
  <2> QED
    BY <1>0, <2>1, <2>2 DEF ServeShape
<1>4. TickShape'
  BY DEF TypeOK, PhaseShape, TickShape, Reports
<1>5. OutcomeShape'
  <2>1. phase = "returned" => stopped
    BY DEF PhaseShape, ServeShape
  <2> QED
    BY <2>1 DEF OutcomeShape
<1>6. BudgetHonoured'
  BY DEF TypeOK, PhaseShape, ServeShape, OutcomeShape, BudgetHonoured, Results
<1> QED
  BY <1>1, <1>2, <1>3, <1>4, <1>5, <1>6

LEMMA OfferKeepsIInv ==
  ASSUME IInv, NEW cmd \in Commands, Offer(cmd) PROVE IInv'
<1> USE ControllerAssumption, DeadlineFacts
      DEF IInv, Offer, scmVars, serveVars, timeVars
<1>1. TypeOK'
  BY DEF TypeOK, Reports, States, Accepts, Results, Commands, PhaseShape, TickShape
<1>2. PhaseShape'
  BY DEF TypeOK, PhaseShape, NoReport, NoOutcome, Reports
<1>3. ServeShape'
  BY DEF TypeOK, PhaseShape, ServeShape, Results
<1>4. TickShape'
  BY DEF TypeOK, PhaseShape, TickShape, Reports
<1>5. OutcomeShape'
  BY DEF TypeOK, PhaseShape, ServeShape, OutcomeShape, Results
<1>6. BudgetHonoured'
  BY DEF TypeOK, PhaseShape, ServeShape, OutcomeShape, BudgetHonoured, Results
<1> QED
  BY <1>1, <1>2, <1>3, <1>4, <1>5, <1>6

LEMMA StutterKeepsIInv ==
  ASSUME IInv, UNCHANGED vars PROVE IInv'
BY DEF IInv, vars, scmVars, serveVars, timeVars, TypeOK, PhaseShape, ServeShape, TickShape,
       OutcomeShape, BudgetHonoured

\* No step of the controller or of its environment leaves the invariant.
LEMMA StepKeepsIInv ==
  ASSUME IInv, [Next]_vars PROVE IInv'
<1>1. CASE Begin
  BY <1>1, BeginKeepsIInv
<1>2. CASE BecomeReady
  BY <1>2, BecomeReadyKeepsIInv
<1>3. CASE TakeResult
  BY <1>3, TakeResultKeepsIInv
<1>4. CASE Backstop
  BY <1>4, BackstopKeepsIInv
<1>5. CASE TakeTick
  BY <1>5, TakeTickKeepsIInv
<1>6. CASE Acknowledge
  BY <1>6, AcknowledgeKeepsIInv
<1>7. CASE TakeStop
  BY <1>7, TakeStopKeepsIInv
<1>8. CASE abandon
  BY <1>8, abandonKeepsIInv
<1>9. CASE SignalReady
  BY <1>9, SignalReadyKeepsIInv
<1>10. CASE CloseRequests
  BY <1>10, CloseRequestsKeepsIInv
<1>11. CASE Elapse
  BY <1>11, ElapseKeepsIInv
<1>12. CASE \E err \in Results : ServeReturn(err)
  BY <1>12, ServeReturnKeepsIInv
<1>13. CASE \E cmd \in Commands : Offer(cmd)
  BY <1>13, OfferKeepsIInv
<1>14. CASE UNCHANGED vars
  BY <1>14, StutterKeepsIInv
<1> QED
  BY <1>1, <1>2, <1>3, <1>4, <1>5, <1>6, <1>7, <1>8, <1>9, <1>10, <1>11, <1>12, <1>13, <1>14 DEF Next, Select

\* IInv holds of every reachable state, whatever the environment does.
THEOREM Invariance == Spec => []IInv
<1>1. Init => IInv
  BY InitIInv
<1>2. IInv /\ [Next]_vars => IInv'
  BY StepKeepsIInv
<1> QED
  BY <1>1, <1>2, PTL DEF Spec

-----------------------------------------------------------------------------
(* What follows from it.                                                    *)

\* The state of the controller is well typed, for every budget and margin; in
\* particular the checkpoint never outruns the deadline (draining's ticker).
THEOREM TypeCorrect == Spec => []TypeOK
<1>1. IInv => TypeOK
  BY DEF IInv
<1> QED
  BY <1>1, Invariance, PTL

\* The SCM is told Running only by a service that has signalled ready, and Run
\* serves under it only while its context is live (starting, running, control).
THEOREM RunningAlwaysHonest == Spec => []RunningIsHonest
<1>1. IInv => RunningIsHonest
  BY DEF IInv, PhaseShape, RunningIsHonest
<1> QED
  BY <1>1, Invariance, PTL

\* The exit code is non-zero exactly when Serve failed by itself and no stop had
\* been taken, in every interleaving of Serve, stops and timers (finish).
THEOREM ExitCodeCorrect == Spec => []ExitCodeRule
<1>1. IInv => ExitCodeRule
  BY DEF IInv, OutcomeShape, ExitCodeRule
<1> QED
  BY <1>1, Invariance, PTL

\* For every positive margin, a Serve that returns within its budget is never
\* written off as overrunning (the backstop of draining and of abandon).
THEOREM BudgetAlwaysHonoured == Spec => []BudgetHonoured
<1>1. IInv => BudgetHonoured
  BY DEF IInv
<1> QED
  BY <1>1, Invariance, PTL

-----------------------------------------------------------------------------
(* The checkpoint.                                                          *)

\* Quotients and remainders by a positive divisor are what they should be.
LEMMA DivMod ==
  ASSUME NEW n \in Nat, NEW e \in Nat \ {0}
  PROVE  /\ n = e * (n \div e) + (n % e)
         /\ n % e \in 0 .. (e - 1) /\ n \div e \in Nat
BY SMTT(30)

\* The quotient of the successor, from the two decompositions.
LEMMA QuotientStep ==
  ASSUME NEW e \in Nat \ {0}, NEW q \in Nat, NEW p \in Nat,
         NEW r \in 0 .. (e - 1), NEW t \in 0 .. (e - 1), e * q + r + 1 = e * p + t
  PROVE  IF t = 0 THEN p = q + 1 ELSE p = q
<1>1. e * (p - q) = r + 1 - t
  BY SMTT(30)
<1>2. p - q <= 1
  BY <1>1, SMTT(30)
<1>3. p - q >= 0
  BY <1>1, SMTT(30)
<1> QED
  BY <1>1, <1>2, <1>3, SMTT(30)

\* The quotient moves exactly when a multiple of the divisor is reached.
LEMMA DivStep ==
  ASSUME NEW n \in Nat, NEW e \in Nat \ {0}
  PROVE  (n + 1) \div e = (n \div e) + (IF (n + 1) % e = 0 THEN 1 ELSE 0)
<1> DEFINE q == n \div e
           p == (n + 1) \div e
           r == n % e
           t == (n + 1) % e
<1>1. /\ q \in Nat /\ p \in Nat /\ r \in 0 .. (e - 1) /\ t \in 0 .. (e - 1)
      /\ n = e * q + r /\ n + 1 = e * p + t
  <2>1. n + 1 \in Nat
    OBVIOUS
  <2> QED
    BY <2>1, DivMod
<1>2. e * q + r + 1 = e * p + t
  BY <1>1
<1> HIDE DEF q, p, r, t
<1>3. IF t = 0 THEN p = q + 1 ELSE p = q
  BY <1>1, <1>2, QuotientStep
<1>4. p = q + (IF t = 0 THEN 1 ELSE 0)
  BY <1>1, <1>3
<1> QED
  BY <1>4 DEF q, p, t

\* CheckpointFollowsClock is inductive on top of IInv: the drain starts with
\* checkpoint 1 at time 0, and time makes a tick due when the quotient moves.
LEMMA CheckpointStep ==
  ASSUME IInv, CheckpointFollowsClock, [Next]_vars PROVE CheckpointFollowsClock'
<1> USE DEF CheckpointFollowsClock
<1>0. last.checkPoint \in Nat /\ clock \in Nat /\ ticked \in BOOLEAN /\ clock \div CheckpointEvery \in Nat
  <2>1. last.checkPoint \in Nat /\ clock \in Nat /\ ticked \in BOOLEAN
    BY DeadlineFacts DEF IInv, TypeOK, Reports
  <2> QED
    BY <2>1, DivMod, ControllerAssumption
<1>1. CASE Elapse
  <2>1. CASE phase = "draining"
    <3>1. /\ ticked' = ((clock + 1) % CheckpointEvery = 0) /\ clock' = clock + 1 /\ last' = last
          /\ ~ticked /\ phase' = phase
      BY <1>1, <2>1 DEF Elapse, scmVars
    <3>2. clock' \div CheckpointEvery
            = (clock \div CheckpointEvery) + (IF (clock + 1) % CheckpointEvery = 0 THEN 1 ELSE 0)
      BY <1>0, <3>1, DivStep, ControllerAssumption
    <3>3. last.state = "StopPending" /\ last.checkPoint = 1 + clock \div CheckpointEvery
      BY <1>0, <2>1, <3>1
    <3>4. CASE (clock + 1) % CheckpointEvery = 0
      <4>1. ticked'
        BY <3>1, <3>4, Zenon
      <4>2. clock' \div CheckpointEvery = (clock \div CheckpointEvery) + 1
        BY <3>2, <3>4
      <4> QED
        BY <1>0, <3>1, <3>3, <4>1, <4>2
    <3>5. CASE (clock + 1) % CheckpointEvery # 0
      <4>1. ~ticked'
        BY <3>1, <3>5, Zenon
      <4>2. clock' \div CheckpointEvery = clock \div CheckpointEvery
        BY <1>0, <3>2, <3>5
      <4> QED
        BY <1>0, <3>1, <3>3, <4>1, <4>2
    <3> QED
      BY <3>4, <3>5
  <2> QED
    BY <1>1, <2>1 DEF Elapse
<1>2. CASE TakeStop
  <2>1. clock = 0 /\ ~ticked
    BY <1>2 DEF IInv, TickShape, TakeStop
  <2>2. 0 \div CheckpointEvery = 0
    BY ControllerAssumption, SMTT(30)
  <2> QED
    BY <1>2, <2>1, <2>2 DEF TakeStop, Pending, timeVars
<1>3. CASE TakeTick
  <2>1. last'.state = last.state /\ last'.checkPoint = last.checkPoint + 1
    BY <1>3 DEF TakeTick, IInv, TypeOK, Reports
  <2>2. ticked /\ ~ticked' /\ clock' = clock /\ phase' = phase
    BY <1>3 DEF TakeTick
  <2> QED
    BY <1>0, <2>1, <2>2
<1>4. CASE Begin \/ BecomeReady \/ TakeResult \/ Backstop \/ abandon
  BY <1>4 DEF Begin, BecomeReady, TakeResult, Backstop, abandon, finish
<1>5. CASE Acknowledge \/ SignalReady \/ CloseRequests
  BY <1>5 DEF Acknowledge, SignalReady, CloseRequests, scmVars, timeVars
<1>6. CASE \E err \in Results : ServeReturn(err)
  BY <1>6 DEF ServeReturn, scmVars, timeVars
<1>7. CASE \E cmd \in Commands : Offer(cmd)
  BY <1>7 DEF Offer, scmVars, timeVars
<1>8. CASE UNCHANGED vars
  BY <1>8 DEF vars, scmVars, timeVars
<1> QED
  BY <1>1, <1>2, <1>3, <1>4, <1>5, <1>6, <1>7, <1>8 DEF Next, Select

\* The SCM never watches one checkpoint for longer than CheckpointEvery, for every
\* interval and every deadline (draining's ticker against its clock).
THEOREM CheckpointAlwaysFollowsClock == Spec => []CheckpointFollowsClock
<1>1. Init => CheckpointFollowsClock
  BY DEF Init, CheckpointFollowsClock
<1>2. IInv /\ CheckpointFollowsClock /\ [Next]_vars => CheckpointFollowsClock'
  BY CheckpointStep
<1> QED
  BY <1>1, <1>2, Invariance, PTL DEF Spec

-----------------------------------------------------------------------------
(* The controller implements the contract.                                  *)

\* It starts where the contract starts.
LEMMA InitRefines == Init => Contract!Init
BY DEF Init, NoReport, Contract!Init

\* Run returns: the contract's last step, with the exit code finish chose.
LEMMA finishRefines ==
  ASSUME IInv, NEW err, err # "none", finish(err),
         phase \in {"starting", "running", "draining", "abandoning"}
  PROVE  Contract!Down
<1>1. last.state \notin {"None", "Stopped"} /\ outcome = NoOutcome
  BY DEF IInv, PhaseShape
<1>2. last'.state = "Stopped" /\ last'.checkPoint = 0 /\ stopped' = stopped
  BY DEF finish, Steady
<1>3. outcome' # NoOutcome /\ (stopped => outcome'.code = 0)
  BY DEF finish, NoOutcome
<1> QED
  BY <1>1, <1>2, <1>3 DEF Contract!Down

\* Every step of the controller is a step of the contract or a stutter.
LEMMA StepRefines ==
  ASSUME IInv, IInv', [Next]_vars PROVE [Contract!Next]_(Contract!vars)
<1> USE DEF Contract!Next, Contract!vars
<1>0. /\ phase # "returned" => outcome = NoOutcome
      /\ stopped \in BOOLEAN
  BY DEF IInv, TypeOK, PhaseShape
<1>1. CASE Begin
  BY <1>0, <1>1 DEF IInv, PhaseShape, NoReport, Begin, Pending, Contract!Announce
<1>2. CASE BecomeReady
  BY <1>0, <1>2 DEF IInv, PhaseShape, BecomeReady, Steady, Contract!Up
<1>3. CASE TakeResult
  <2>1. result # "none"
    BY <1>3, ControllerAssumption DEF IInv, TypeOK, TakeResult, Results
  <2> QED
    BY <1>3, <2>1, finishRefines DEF TakeResult
<1>4. CASE Backstop
  BY <1>4, finishRefines DEF Backstop
<1>5. CASE TakeTick
  BY <1>0, <1>5 DEF IInv, TypeOK, Reports, PhaseShape, TakeTick, Contract!Advance
<1>6. CASE Acknowledge
  BY <1>6 DEF Acknowledge, scmVars
<1>7. CASE TakeStop
  BY <1>0, <1>7 DEF IInv, PhaseShape, TakeStop, Pending, Contract!TakeStop
<1>8. CASE abandon
  BY <1>0, <1>8 DEF IInv, PhaseShape, abandon, Contract!TakeStop
<1>9. CASE SignalReady \/ CloseRequests \/ Elapse
  BY <1>9 DEF SignalReady, CloseRequests, Elapse, scmVars
<1>10. CASE \E err \in Results : ServeReturn(err)
  BY <1>10 DEF ServeReturn, scmVars
<1>11. CASE \E cmd \in Commands : Offer(cmd)
  BY <1>11 DEF Offer, scmVars
<1>12. CASE UNCHANGED vars
  BY <1>12 DEF vars, scmVars
<1> QED
  BY <1>1, <1>2, <1>3, <1>4, <1>5, <1>6, <1>7, <1>8, <1>9, <1>10, <1>11, <1>12 DEF Next, Select

\* The controller never shows the SCM anything the contract does not allow: the
\* safety part of ImplementsContract, for every value of the constants.
THEOREM ImplementsContractSafety == Spec => Contract!Safety
<1>1. Init => Contract!Init
  BY InitRefines
<1>2. IInv /\ IInv' /\ [Next]_vars => [Contract!Next]_(Contract!vars)
  BY StepRefines
<1> QED
  BY <1>1, <1>2, Invariance, PTL DEF Spec, Contract!Safety
=============================================================================
