------------------------- MODULE CallDeadlinesProofs -------------------------
(***************************************************************************)
(* What CallDeadlines.tla promises, for every timeout, grace and margin.   *)
(***************************************************************************)
EXTENDS CallDeadlines, TLAPS

\* What the shells before the n-th can have taken.
Before(n) == IF n = 2 THEN CommandTimeout ELSE 0

\* A request knows how long it has been going by the shells it has spawned.
Accounted ==
  /\ at = "idle" => shells = 0 /\ elapsed = 0
  /\ at # "idle" => shells >= 1 /\ shells <= Shells(op)
  /\ at = "running" => elapsed <= Before(shells) + age
  /\ at = "killed" => elapsed <= Before(shells) + CommandTimeout + age
  /\ at = "answered" => elapsed <= Before(shells) + CommandTimeout + RunnerKillGrace

IInv == TypeOK /\ Accounted /\ OneShellIsHeard

\* Initially no shell has run (a request whose headers were just read).
LEMMA InitIInv == Init => IInv
<1> SUFFICES ASSUME Init PROVE IInv
  OBVIOUS
<1> USE CallDeadlinesAssumption DEF Init
<1>1. TypeOK
  BY DEF TypeOK, Ops
<1>2. Accounted /\ OneShellIsHeard
  BY DEF Accounted, OneShellIsHeard
<1> QED
  BY <1>1, <1>2 DEF IInv

\* The number of shells of a request, as bounded and resolveScope spawn them.
LEMMA ShellsBound == ASSUME NEW o \in Ops PROVE Shells(o) \in {1, 2}
BY DEF Shells

\* Every step keeps the account (one case per action of the request).
LEMMA NextIInv == IInv /\ [Next]_vars => IInv'
<1> SUFFICES ASSUME IInv, [Next]_vars PROVE IInv'
  OBVIOUS
<1> USE CallDeadlinesAssumption DEF IInv, TypeOK, Accounted, OneShellIsHeard, Delivered, Before, Ops, Shells
<1>1. CASE Begin
  BY <1>1 DEF Begin, Spawn
<1>2. CASE ShellExits
  <2>1. CASE shells < Shells(op) /\ Spawn
    BY <2>1, <1>2 DEF ShellExits, Spawn
  <2>2. CASE \E status \in {"done", "failed"} : Respond(status)
    BY <2>2, <1>2 DEF ShellExits, Respond, WriteTimeout
  <2> QED
    BY <1>2, <2>1, <2>2 DEF ShellExits
<1>3. CASE Reap
  BY <1>3 DEF Reap, Respond, WriteTimeout
<1>4. CASE Tick
  BY <1>4 DEF Tick
<1>5. CASE \E why \in {"timeout", "gone"} : Kill(why)
  BY <1>5 DEF Kill
<1>6. CASE UNCHANGED vars
  BY <1>6 DEF vars
<1> QED
  BY <1>1, <1>2, <1>3, <1>4, <1>5, <1>6 DEF Next

\* The account holds throughout.
THEOREM Invariance == Spec => []IInv
BY InitIInv, NextIInv, PTL DEF Spec

\* No shell outlives its deadline, and no killed one its grace (bounded, and the
\* runner's WaitDelay).
THEOREM TypeCorrect == Spec => []TypeOK
BY Invariance, PTL DEF IInv

\* A request lasts one command timeout per shell and one kill grace, whatever
\* the configuration (bounded, and the error returns of the client).
THEOREM CallAlwaysBounded == Spec => []CallIsBounded
<1>1. IInv => CallIsBounded
  <2> SUFFICES ASSUME IInv PROVE CallIsBounded
    OBVIOUS
  <2> USE CallDeadlinesAssumption
  <2>1. Shells(op) = 1 => Shells(op) * CommandTimeout = CommandTimeout
    BY SMT
  <2>2. Shells(op) = 2 => Shells(op) * CommandTimeout = CommandTimeout + CommandTimeout
    BY SMT
  <2>3. CASE Shells(op) = 1
    BY <2>1, <2>3 DEF IInv, TypeOK, Accounted, Before, CallIsBounded
  <2>4. CASE Shells(op) = 2
    BY <2>2, <2>4 DEF IInv, TypeOK, Accounted, Before, CallIsBounded
  <2> QED
    BY <2>3, <2>4, ShellsBound DEF IInv, TypeOK
<1> QED
  BY <1>1, Invariance, PTL

\* With any positive margin, what one backend call decides is written in time,
\* its timeout included (WithWriteTimeout, and the sum runWith gives it).
THEOREM OneShellAlwaysHeard == Spec => []OneShellIsHeard
BY Invariance, PTL DEF IInv
=============================================================================
