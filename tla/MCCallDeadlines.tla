--------------------------- MODULE MCCallDeadlines ---------------------------
(* CallDeadlines.tla with the proportions of the defaults: a command timeout  *)
(* of ten, a kill grace of two and a margin of five.                          *)
EXTENDS CallDeadlines
=============================================================================
