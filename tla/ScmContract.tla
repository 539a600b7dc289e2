---------------------------- MODULE ScmContract ----------------------------
(***************************************************************************)
(* What a well-behaved service shows the Windows Service Control Manager:  *)
(* a status that only moves forward, a stop that is always honoured, and   *)
(* an exit code that asks for a restart only when nobody asked for a stop. *)
(* It knows nothing of goroutines, channels or timers; Controller.tla is   *)
(* shown to implement it.                                                  *)
(***************************************************************************)
EXTENDS Naturals

VARIABLES
  status,      \* the last status reported, "None" before the first report
  checkPoint,  \* the checkpoint carried by a pending status, 0 otherwise
  stopTaken,   \* the service has committed itself to stopping
  exit         \* "None", then "Clean" or "Failure"

vars == <<status, checkPoint, stopTaken, exit>>

Init ==
  /\ status = "None" /\ checkPoint = 0
  /\ stopTaken = FALSE /\ exit = "None"

\* The first report: starting, please wait.
Announce ==
  /\ status = "None"
  /\ status' = "StartPending" /\ checkPoint' = 1
  /\ UNCHANGED <<stopTaken, exit>>

\* The service is up; impossible once it has committed itself to stopping.
Up ==
  /\ status = "StartPending" /\ ~stopTaken
  /\ status' = "Running" /\ checkPoint' = 0
  /\ UNCHANGED <<stopTaken, exit>>

\* A stop is taken, normally with a StopPending report. A service whose control
\* channel disappeared stops without that report.
TakeStop ==
  /\ status \in {"StartPending", "Running"} /\ ~stopTaken
  /\ stopTaken' = TRUE
  /\ \/ status' = "StopPending" /\ checkPoint' = 1
     \/ UNCHANGED <<status, checkPoint>>
  /\ UNCHANGED exit

\* Proof of life while stopping.
Advance ==
  /\ status = "StopPending"
  /\ checkPoint' = checkPoint + 1
  /\ UNCHANGED <<status, stopTaken, exit>>

\* The last report, and the exit code that goes with it.
Down ==
  /\ status \notin {"None", "Stopped"}
  /\ status' = "Stopped" /\ checkPoint' = 0
  /\ \/ exit' = "Clean"
     \/ ~stopTaken /\ exit' = "Failure"
  /\ UNCHANGED stopTaken

Next == Announce \/ Up \/ TakeStop \/ Advance \/ Down

Safety == Init /\ [][Next]_vars

\* A stop that has been taken is carried through.
Spec == Safety /\ WF_vars(stopTaken /\ Down)
=============================================================================
