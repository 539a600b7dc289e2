-------------------------------- MODULE Health --------------------------------
(***************************************************************************)
(* GET /api/v1/health: polls that queue on the handler's mutex, the probe  *)
(* that runs under it, the verdict cached for all of them, and HLT-001,    *)
(* which each poll that saw a transition emits after it let the mutex go.  *)
(*                                                                         *)
(* Time is counted in ticks as ages that stop at the bound they are        *)
(* compared with. Taking a free mutex takes no time; a tick is what a      *)
(* shell needs. A verdict's detail and fields are left out.                *)
(***************************************************************************)
EXTENDS Integers, FiniteSets

CONSTANTS Polls,          \* requests that may be under way at once
          TTL,            \* probeCacheTTL
          ProbeTimeout, CommandTimeout,
          KillGrace,      \* what a killed shell may still take
          WriteMargin     \* by which the server's write bound exceeds a command

Nobody == "nobody"

\* What Config.Validate and the constants of the source establish.
ASSUME HealthAssumption ==
  /\ IsFiniteSet(Polls) /\ Nobody \notin Polls /\ {TTL, WriteMargin} \subseteq Nat \ {0} /\ KillGrace \in Nat
  /\ ProbeTimeout \in Nat \ {0} /\ CommandTimeout \in Nat /\ ProbeTimeout < CommandTimeout

VARIABLES backend, \* can scopes be read?
          poll,    \* each request
          holder,  \* of the mutex, while it runs the probe
          shell,   \* the probe's shell
          cache,   \* the verdict and when it was reached
          last,    \* the status last recorded
          first,   \* the status recorded first
          log      \* HLT-001 emitted: those to unavailable less those to healthy

vars == <<backend, poll, holder, shell, cache, last, first, log>>

-----------------------------------------------------------------------------
Statuses == {"healthy", "unhealthy", "unavailable", "none"}

rank(s) == CASE s = "healthy" -> 0 [] s = "unhealthy" -> 1 [] s = "unavailable" -> 2 [] OTHER -> 3

\* The worst of the components; the core's own is always healthy.
overallStatus(components) ==
  CHOOSE s \in components \cup {"healthy"} : \A t \in components \cup {"healthy"} : rank(t) <= rank(s)

httpStatus(s) == IF s \in {"healthy", "unhealthy"} THEN 200 ELSE 503

PollBound == ProbeTimeout + KillGrace
AgeBound == TTL + PollBound
UpTo(n, bound) == IF n < bound THEN n + 1 ELSE n

Steps == {"away", "queued", "probing", "answering"}
Transitions == {"none", "healthy", "unavailable"}  \* what HLT-001 is owed for: its "to"
NoShell == [read |-> "none", age |-> 0, since |-> 0, trouble |-> FALSE]
NoVerdict == [status |-> "none", age |-> 0, readAge |-> 0, trouble |-> FALSE]

TypeOK ==
  /\ backend \in {"up", "down", "hung"} /\ holder \in Polls \cup {Nobody}
  /\ poll \in [Polls -> [at: Steps, left: BOOLEAN, waited: 0..PollBound + 1, owes: Transitions]]
  /\ shell \in [read: {"none", "healthy", "unavailable"}, age: 0..PollBound, since: 0..PollBound, trouble: BOOLEAN]
  /\ cache \in [status: {"none", "healthy", "unavailable"}, age: 0..TTL, readAge: 0..AgeBound, trouble: BOOLEAN]
  /\ last \in {"none", "healthy", "unavailable"} /\ first \in {"none", "healthy", "unavailable"}
  /\ log \in Int

-----------------------------------------------------------------------------
Away == [at |-> "away", left |-> FALSE, waited |-> 0, owes |-> "none"]

Arrive(p) ==
  /\ poll[p].at = "away" /\ poll' = [poll EXCEPT ![p] = [Away EXCEPT !.at = "queued"]]
  /\ UNCHANGED <<backend, holder, shell, cache, last, first, log>>

\* The caller hangs up: its request's context is cancelled.
Leave(p) ==
  /\ poll[p].at \in {"queued", "probing"} /\ ~poll[p].left /\ poll' = [poll EXCEPT ![p].left = TRUE]
  /\ UNCHANGED <<backend, holder, shell, cache, last, first, log>>

\* Mutant: the status is compared under the mutex and recorded after it.
RecordLate(p, components) ==
  LET overall == overallStatus(components) IN
  /\ poll' = [poll EXCEPT ![p] = [Away EXCEPT !.at = "answering", !.owes = IF last # "none" /\ overall # last THEN overall ELSE "none"]]
  /\ last' = IF last = "none" THEN overall ELSE last
  /\ first' = IF first = "none" THEN overall ELSE first

\* What refresh does with the components before it unlocks.
Record(p, components) ==
  LET overall == overallStatus(components) IN
  /\ poll' = [poll EXCEPT ![p] = [Away EXCEPT !.at = "answering", !.owes = IF last # "none" /\ overall # last THEN overall ELSE "none"]]
  /\ last' = overall
  /\ first' = IF first = "none" THEN overall ELSE first

Fresh == cache.status # "none" /\ cache.age < TTL

AnswerFromCache(p) ==
  /\ poll[p].at = "queued" /\ holder = Nobody /\ Fresh
  /\ Record(p, {cache.status})
  /\ UNCHANGED <<backend, holder, shell, cache, log>>

StartProbe(p) ==
  /\ poll[p].at = "queued" /\ holder = Nobody /\ ~Fresh
  /\ holder' = p /\ poll' = [poll EXCEPT ![p].at = "probing"]
  /\ shell' = [NoShell EXCEPT !.trouble = backend # "up"]
  /\ UNCHANGED <<backend, cache, last, first, log>>

\* The shell reads the scopes, or is refused, or prints what cannot be used.
ShellReads ==
  /\ holder # Nobody /\ shell.read = "none" /\ backend # "hung"
  /\ shell' = [shell EXCEPT !.read = IF backend = "up" THEN "healthy" ELSE "unavailable"]
  /\ UNCHANGED <<backend, poll, holder, cache, last, first, log>>

\* Mutant: the probe runs under the context of the poll that happened to start it.
OutcomesAttached(p) ==
  (IF shell.read # "none" /\ shell.age <= ProbeTimeout THEN {shell.read} ELSE {})
    \cup (IF shell.age >= ProbeTimeout \/ poll[p].left THEN {"unavailable"} ELSE {})

\* A shell that ends in time is judged by what it printed, one that reaches its
\* deadline is killed: the deadline is the probe's own, and nobody's leaving counts.
Outcomes(p) ==
  (IF shell.read # "none" /\ shell.age <= ProbeTimeout THEN {shell.read} ELSE {})
    \cup (IF shell.age >= ProbeTimeout THEN {"unavailable"} ELSE {})

\* Mutant: the verdict counts from when its probe was begun.
VerdictFromStart(status) ==
  [status |-> status, age |-> IF shell.age < TTL THEN shell.age ELSE TTL, readAge |-> shell.since,
   trouble |-> shell.trouble \/ shell.age >= ProbeTimeout]

\* It counts from the end of its probe.
Verdict(status) ==
  [status |-> status, age |-> 0, readAge |-> shell.since,
   trouble |-> shell.trouble \/ shell.age >= ProbeTimeout]

EndProbe(p) ==
  /\ holder = p /\ \E status \in Outcomes(p) : cache' = Verdict(status) /\ Record(p, {status})
  /\ holder' = Nobody /\ shell' = NoShell
  /\ UNCHANGED <<backend, log>>

\* Outside the mutex: the event that is owed, then the response.
Answer(p) ==
  /\ poll[p].at = "answering" /\ poll' = [poll EXCEPT ![p] = Away]
  /\ log' = log + (CASE poll[p].owes = "unavailable" -> 1 [] poll[p].owes = "healthy" -> -1 [] OTHER -> 0)
  /\ UNCHANGED <<backend, holder, shell, cache, last, first>>

Change ==
  /\ \E b \in {"up", "down", "hung"} \ {backend} :
       backend' = b /\ shell' = IF holder = Nobody THEN shell ELSE [shell EXCEPT !.trouble = TRUE]
  /\ UNCHANGED <<poll, holder, cache, last, first, log>>

Waits(p) == poll[p].at \in {"queued", "probing"}

\* A free mutex is taken before time passes, and a killed shell is gone after its grace.
Tick ==
  /\ holder = Nobody => \A p \in Polls : poll[p].at # "queued"
  /\ holder # Nobody => shell.age < PollBound
  /\ poll' = [p \in Polls |-> IF Waits(p) THEN [poll[p] EXCEPT !.waited = UpTo(@, PollBound + 1)] ELSE poll[p]]
  /\ shell' = IF holder = Nobody THEN shell
              ELSE [shell EXCEPT !.age = @ + 1, !.since = IF shell.read = "none" THEN 0 ELSE @ + 1]
  /\ cache' = IF cache.status = "none" THEN cache
              ELSE [cache EXCEPT !.age = UpTo(@, TTL), !.readAge = UpTo(@, AgeBound)]
  /\ UNCHANGED <<backend, holder, last, first, log>>

Init ==
  /\ backend = "up" /\ poll = [p \in Polls |-> Away] /\ holder = Nobody /\ shell = NoShell
  /\ cache = NoVerdict /\ last = "none" /\ first = "none" /\ log = 0

Next ==
  \/ \E p \in Polls : Arrive(p) \/ Leave(p) \/ AnswerFromCache(p) \/ StartProbe(p) \/ EndProbe(p) \/ Answer(p)
  \/ ShellReads \/ Change \/ Tick

Spec == Init /\ [][Next]_vars

-----------------------------------------------------------------------------
(* Properties.                                                             *)

\* The cached verdict is only bad if the backend was, or was slow, at some moment of the
\* probe: a caller that hangs up cannot make the next ones be told 503 (Probe.Check).
VerdictIsEarned == cache.status = "unavailable" => cache.trouble

\* However many polls have queued behind a slow probe, each is told something after one
\* probe timeout and one kill grace, within the server's write bound, and what it is told
\* was read from the backend no longer ago than a cached verdict lives and a probe lasts:
\* a verdict reached at the end of a long probe still serves everyone who waited for it
\* (Handler.refresh, defaultProbeTimeout).
PollIsBounded ==
  \A p \in Polls :
    /\ poll[p].waited <= PollBound /\ PollBound < CommandTimeout + KillGrace + WriteMargin
    /\ (poll[p].at = "queued" /\ holder = Nobody /\ Fresh) => cache.readAge < AgeBound

Owing(to) == Cardinality({p \in Polls : poll[p].owes = to})
Bad(status) == IF status # "none" /\ httpStatus(status) = 503 THEN 1 ELSE 0

\* Each transition is announced by exactly one poll: what was emitted and what is still
\* owed lead from the first status recorded to the last, though the events themselves may
\* be written in another order (Handler.evaluate).
TransitionsAddUp == log + Owing("unavailable") - Owing("healthy") = Bad(last) - Bad(first)
=============================================================================
