---------------------------- MODULE CallDeadlines ----------------------------
(***************************************************************************)
(* The time a scope request takes: Client.bounded puts a deadline on each  *)
(* shell, the runner's WaitDelay bounds the reaping of a killed one, and   *)
(* the server stops writing a fixed time after it has read the request's   *)
(* headers. ScopeClient.tla says what the requests do, this module how     *)
(* long they may take about it.                                            *)
(*                                                                         *)
(* Only shells take time: reading a body, encoding and scheduling are what *)
(* the margin of the write bound is for.                                   *)
(***************************************************************************)
EXTENDS Naturals

CONSTANTS
  CommandTimeout,  \* dhcp.commandTimeout
  RunnerKillGrace, \* the runner's WaitDelay
  Margin           \* what runWith adds on top of the two

ASSUME CallDeadlinesAssumption ==
  CommandTimeout \in Nat \ {0} /\ RunnerKillGrace \in Nat /\ Margin \in Nat \ {0}

VARIABLES
  op,       \* the request
  at,       \* "idle", "running" or "killed" (its shell), "answered"
  shells,   \* shells it has spawned
  age,      \* time since its shell was spawned, or killed
  elapsed,  \* time since its headers were read
  answer    \* its response, "none" before

vars == <<op, at, shells, age, elapsed, answer>>

Ops == {"list", "get", "create", "delete", "update"}

\* A delete and an update first list the scopes to resolve their target.
Shells(o) == IF o \in {"delete", "update"} THEN 2 ELSE 1

\* Mutant: the kill grace is forgotten.
WriteTimeoutBare == CommandTimeout

\* The write bound runWith gives the server.
WriteTimeout == CommandTimeout + RunnerKillGrace + Margin

Init ==
  /\ op \in Ops /\ at = "idle"
  /\ shells = 0 /\ age = 0 /\ elapsed = 0
  /\ answer = "none"

-----------------------------------------------------------------------------
\* A shell is spawned under a deadline of its own.
Spawn ==
  /\ at' = "running" /\ shells' = shells + 1 /\ age' = 0
  /\ UNCHANGED <<op, elapsed, answer>>

Respond(status) ==
  /\ at' = "answered" /\ answer' = status
  /\ UNCHANGED <<op, shells, age, elapsed>>

\* A write fails once the bound is reached, and nobody hears of it but the client.
Delivered == elapsed < WriteTimeout

\* The headers are read and the handler runs.
Begin == at = "idle" /\ Spawn

\* The shell exits by itself: the next one is spawned, or the request is over,
\* as it is when the shell failed, or resolved nothing to work on.
ShellExits ==
  /\ at = "running"
  /\ \/ shells < Shells(op) /\ Spawn
     \/ shells = Shells(op) /\ Respond("done")
     \/ Respond("failed")

\* The context kills the shell: its deadline is over, or the caller has left.
Kill(why) ==
  /\ at = "running"
  /\ why = "timeout" => age = CommandTimeout
  /\ at' = "killed" /\ age' = 0 /\ answer' = why
  /\ UNCHANGED <<op, shells, elapsed>>

\* Wait returns, at the latest when the grace is over; a call whose shell was
\* killed spawns no other. Nothing is written to a caller who has left.
Reap ==
  /\ at = "killed"
  /\ Respond(answer)

\* Mutant: the runner sets no WaitDelay.
TickNoWaitDelay ==
  /\ at \in {"running", "killed"}
  /\ at = "running" => age < CommandTimeout
  /\ age' = age + 1 /\ elapsed' = elapsed + 1
  /\ UNCHANGED <<op, at, shells, answer>>

\* Time passes, up to the deadline of the shell and the end of the grace.
Tick ==
  /\ at \in {"running", "killed"}
  /\ age < IF at = "running" THEN CommandTimeout ELSE RunnerKillGrace
  /\ age' = age + 1 /\ elapsed' = elapsed + 1
  /\ UNCHANGED <<op, at, shells, answer>>

Next ==
  \/ Begin \/ ShellExits \/ Reap \/ Tick
  \/ \E why \in {"timeout", "gone"} : Kill(why)

Spec == Init /\ [][Next]_vars
-----------------------------------------------------------------------------
(* Correctness.                                                             *)

\* Every variable keeps its type: in particular no shell outlives its deadline,
\* and no killed one the grace (bounded, WaitDelay).
TypeOK ==
  /\ op \in Ops
  /\ at \in {"idle", "running", "killed", "answered"}
  /\ shells \in 0 .. 2
  /\ age \in Nat
  /\ at = "running" => age <= CommandTimeout
  /\ at = "killed" => age <= RunnerKillGrace
  /\ elapsed \in Nat
  /\ answer \in {"none", "done", "failed", "timeout", "gone"}

\* A request lasts one deadline for each shell it may spawn, and one grace: only
\* its last shell can have been killed (the error returns of the client).
CallIsBounded ==
  elapsed <= Shells(op) * CommandTimeout + RunnerKillGrace

\* A slow but honest answer is not torn: what a single backend call decides,
\* its timeout included, still reaches the caller (WithWriteTimeout).
OneShellIsHeard ==
  at = "answered" /\ answer # "gone" /\ Shells(op) = 1 => Delivered

\* runWith: the write bound clears the slowest honest handler.
SlowestIsHeard == at = "answered" /\ answer # "gone" => Delivered
=============================================================================
