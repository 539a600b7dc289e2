---------------------------- MODULE MCController ----------------------------
(* Controller.tla on a drain of a few ticks: a budget of three, a margin of  *)
(* two and a checkpoint every two, so that a tick, the end of the budget and *)
(* the backstop fall on different instants.                                  *)
EXTENDS Controller
=============================================================================
