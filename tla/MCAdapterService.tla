-------------------------- MODULE MCAdapterService --------------------------
(* AdapterService.tla with three requests at once, a drain budget of six     *)
(* ticks, a margin of three, and a serving goroutine at most two ticks late. *)
EXTENDS AdapterService
=============================================================================
