----------------------------- MODULE HealthProofs -----------------------------
(***************************************************************************)
(* What Health.tla promises, for any number of polls and every timeout.    *)
(***************************************************************************)
EXTENDS Health, FiniteSetTheorems, TLAPS

\* The mutex is held by the poll that probes, and by nobody else.
Exclusive == \A p \in Polls : poll[p].at = "probing" <=> holder = p

\* What a poll outside the queue still carries.
PollShape ==
  \A p \in Polls :
    /\ ~Waits(p) => poll[p].waited = 0
    /\ poll[p].at # "answering" => poll[p].owes = "none"

\* Trouble with the backend does not pass unnoticed, and what the shell read is no
\* older than the shell.
ShellShape ==
  /\ holder # Nobody /\ (backend # "up" \/ shell.read = "unavailable") => shell.trouble
  /\ shell.since <= shell.age

\* A poll has waited no longer than the probe it waits for; once that has ended, its
\* verdict is there for everyone who waited.
Queue ==
  \A p \in Polls :
    /\ poll[p].waited <= PollBound
    /\ Waits(p) /\ holder # Nobody => poll[p].waited <= shell.age
    /\ Waits(p) /\ holder = Nobody /\ poll[p].waited > 0 => Fresh

\* A verdict was read at most one probe before it was cached.
CacheShape == cache.status # "none" => cache.readAge <= cache.age + PollBound

\* The first status recorded is there as soon as there is a last one.
Recorded == last = "none" <=> first = "none"

Inv1 == TypeOK /\ Exclusive /\ PollShape /\ ShellShape /\ CacheShape /\ VerdictIsEarned /\ Recorded
IInv == Inv1 /\ Queue

-----------------------------------------------------------------------------
(* The operators.                                                          *)

\* The overall status of a verdict is the verdict (overallStatus).
LEMMA OverallOfOne ==
  ASSUME NEW status \in {"healthy", "unavailable"}
  PROVE  overallStatus({status}) = status
<1>1. CASE status = "healthy"
  <2>1. \A s \in {"healthy"} : (\A t \in {"healthy"} : rank(t) <= rank(s)) <=> s = "healthy"
    BY DEF rank
  <2>2. {status} \cup {"healthy"} = {"healthy"}
    BY <1>1
  <2> QED
    BY <2>1, <2>2, <1>1 DEF overallStatus
<1>2. CASE status = "unavailable"
  <2>1. \A s \in {"unavailable", "healthy"} :
          (\A t \in {"unavailable", "healthy"} : rank(t) <= rank(s)) <=> s = "unavailable"
    BY DEF rank
  <2>2. {status} \cup {"healthy"} = {"unavailable", "healthy"}
    BY <1>2
  <2> QED
    BY <2>1, <2>2, <1>2 DEF overallStatus
<1> QED
  BY <1>1, <1>2

\* What the assumption makes of the bounds (defaultProbeTimeout, probeCacheTTL).
LEMMA Bounds == PollBound \in Nat /\ PollBound >= 1 /\ AgeBound \in Nat /\ AgeBound = TTL + PollBound /\ TTL \in Nat /\ TTL >= 1
BY HealthAssumption DEF PollBound, AgeBound

\* The age of a verdict and a wait stop at their bound (what ages are compared with).
LEMMA UpToBound == ASSUME NEW b \in Nat, NEW n \in 0..b PROVE UpTo(n, b) \in 0..b /\ UpTo(n, b) <= n + 1 /\ (n < b => UpTo(n, b) = n + 1) /\ UpTo(n, b) >= n
BY DEF UpTo

-----------------------------------------------------------------------------
(* Initially nobody asks (NewHandler).                                     *)

LEMMA InitIInv == Init => IInv
<1> SUFFICES ASSUME Init PROVE IInv
  OBVIOUS
<1> USE HealthAssumption, Bounds DEF Init, NoShell, NoVerdict, Away
<1>1. TypeOK
  BY DEF TypeOK, Steps, Transitions
<1>2. Exclusive /\ PollShape /\ ShellShape /\ CacheShape /\ VerdictIsEarned /\ Recorded /\ Queue
  BY DEF Exclusive, PollShape, ShellShape, CacheShape, VerdictIsEarned, Recorded, Queue, Waits
<1> QED
  BY <1>1, <1>2 DEF IInv, Inv1

-----------------------------------------------------------------------------
(* One lemma for each action.                                              *)

\* What a request carries that nobody has sent yet (ServeHTTP).
LEMMA AwayShape ==
  /\ Away \in [at: Steps, left: BOOLEAN, waited: 0..PollBound + 1, owes: Transitions]
  /\ Away.at = "away" /\ Away.left = FALSE /\ Away.waited = 0 /\ Away.owes = "none"
BY Bounds DEF Away, Steps, Transitions

\* A poll that arrives has waited for nothing (ServeHTTP).
LEMMA ArriveIInv == ASSUME IInv, NEW p \in Polls, Arrive(p) PROVE IInv'
<1> USE HealthAssumption, Bounds DEF IInv, Inv1, Arrive, Away
<1>1. TypeOK'
  <2>1. [Away EXCEPT !.at = "queued"] \in [at: Steps, left: BOOLEAN, waited: 0..PollBound + 1, owes: Transitions]
    <3> HIDE DEF Away
    <3> QED
      BY AwayShape DEF Steps
  <2>2. poll' = [poll EXCEPT ![p] = [Away EXCEPT !.at = "queued"]] /\ UNCHANGED <<backend, holder, shell, cache, last, first, log>>
    BY DEF Arrive
  <2> HIDE DEF Away, Arrive
  <2> QED
    BY <2>1, <2>2 DEF TypeOK
<1>2. Exclusive' /\ PollShape' /\ ShellShape' /\ CacheShape' /\ VerdictIsEarned' /\ Recorded'
  BY DEF TypeOK, Exclusive, PollShape, ShellShape, CacheShape, VerdictIsEarned, Recorded, Waits
<1>3. Queue'
  BY DEF TypeOK, Queue, Waits, Fresh
<1> QED
  BY <1>1, <1>2, <1>3

\* A caller that hangs up is still counted as waiting (the request's context).
LEMMA LeaveIInv == ASSUME IInv, NEW p \in Polls, Leave(p) PROVE IInv'
<1> USE HealthAssumption, Bounds DEF IInv, Inv1
<1>1. TypeOK'
  <2>1. poll \in [Polls -> [at: Steps, left: BOOLEAN, waited: 0..PollBound + 1, owes: Transitions]]
    BY DEF TypeOK
  <2>2. poll' = [poll EXCEPT ![p].left = TRUE]
    BY DEF Leave
  <2>3. poll' \in [Polls -> [at: Steps, left: BOOLEAN, waited: 0..PollBound + 1, owes: Transitions]]
    <3>1. [poll[p] EXCEPT !.left = TRUE] \in [at: Steps, left: BOOLEAN, waited: 0..PollBound + 1, owes: Transitions]
      BY <2>1
    <3>2. poll' = [poll EXCEPT ![p] = [poll[p] EXCEPT !.left = TRUE]]
      BY <2>2
    <3> QED
      BY <2>1, <3>1, <3>2
  <2> QED
    BY <2>3 DEF Leave, TypeOK
<1>2. \A q \in Polls : poll'[q].at = poll[q].at /\ poll'[q].waited = poll[q].waited /\ poll'[q].owes = poll[q].owes
  BY DEF Leave, TypeOK
<1>3. UNCHANGED <<backend, holder, shell, cache, last, first, log>>
  BY DEF Leave
<1>4. Exclusive' /\ PollShape'
  BY <1>2, <1>3 DEF Exclusive, PollShape, Waits
<1>5. ShellShape' /\ CacheShape' /\ VerdictIsEarned' /\ Recorded'
  BY <1>3 DEF ShellShape, CacheShape, VerdictIsEarned, Recorded
<1>6. Queue'
  BY <1>2, <1>3 DEF Queue, Waits, Fresh
<1> QED
  BY <1>1, <1>4, <1>5, <1>6

\* What a poll owes and what is recorded after a verdict (Handler.refresh).
LEMMA RecordShape ==
  ASSUME IInv, NEW p \in Polls, NEW status \in {"healthy", "unavailable"}, Record(p, {status})
  PROVE  /\ last' = status /\ first' = IF first = "none" THEN status ELSE first
         /\ poll' \in [Polls -> [at: Steps, left: BOOLEAN, waited: 0..PollBound + 1, owes: Transitions]]
         /\ poll'[p].at = "answering" /\ poll'[p].waited = 0
         /\ poll'[p].owes = IF last # "none" /\ status # last THEN status ELSE "none"
         /\ \A q \in Polls \ {p} : poll'[q] = poll[q]
<1> DEFINE owed == IF last # "none" /\ status # last THEN status ELSE "none"
           answering == [Away EXCEPT !.at = "answering", !.owes = owed]
<1>1. overallStatus({status}) = status
  BY OverallOfOne
<1>2. owed \in Transitions
  BY DEF Transitions
<1>3. /\ answering \in [at: Steps, left: BOOLEAN, waited: 0..PollBound + 1, owes: Transitions]
      /\ answering.at = "answering" /\ answering.waited = 0 /\ answering.owes = owed
  <2> HIDE DEF owed
  <2> QED
    BY <1>2, AwayShape DEF Steps
<1>4. poll' = [poll EXCEPT ![p] = answering] /\ last' = status /\ first' = IF first = "none" THEN status ELSE first
  BY <1>1, Zenon DEF Record
<1> HIDE DEF answering
<1> QED
  BY <1>3, <1>4 DEF IInv, Inv1, TypeOK

\* A poll served from the cache leaves the others where they are (Probe.Check).
LEMMA AnswerFromCacheIInv == ASSUME IInv, NEW p \in Polls, AnswerFromCache(p) PROVE IInv'
<1> USE HealthAssumption, Bounds DEF IInv, Inv1
<1>0. cache.status \in {"healthy", "unavailable"} /\ Record(p, {cache.status})
  BY DEF AnswerFromCache, Fresh, TypeOK
<1>1. /\ UNCHANGED <<backend, holder, shell, cache, log>> /\ holder = Nobody /\ Fresh
      /\ poll[p].at = "queued"
  BY DEF AnswerFromCache
<1>2. /\ last' \in {"healthy", "unavailable"} /\ first' \in {"healthy", "unavailable"}
      /\ poll' \in [Polls -> [at: Steps, left: BOOLEAN, waited: 0..PollBound + 1, owes: Transitions]]
      /\ poll'[p].at = "answering" /\ poll'[p].waited = 0 /\ \A q \in Polls \ {p} : poll'[q] = poll[q]
  BY <1>0, RecordShape DEF TypeOK
<1>3. TypeOK'
  BY <1>1, <1>2 DEF TypeOK
<1>4. Exclusive' /\ PollShape' /\ Recorded'
  BY <1>1, <1>2 DEF TypeOK, Exclusive, PollShape, Recorded, Waits
<1>5. ShellShape' /\ CacheShape' /\ VerdictIsEarned'
  BY <1>1 DEF ShellShape, CacheShape, VerdictIsEarned
<1>6. Queue'
  BY <1>1, <1>2 DEF TypeOK, Queue, Waits, Fresh
<1> QED
  BY <1>3, <1>4, <1>5, <1>6

\* A probe starts only if no verdict is fresh, and then nobody has waited (Probe.Check).
LEMMA StartProbeIInv == ASSUME IInv, NEW p \in Polls, StartProbe(p) PROVE IInv'
<1> USE HealthAssumption, Bounds DEF IInv, Inv1
<1>1. /\ poll[p].at = "queued" /\ holder = Nobody /\ ~Fresh /\ holder' = p
      /\ poll' = [poll EXCEPT ![p].at = "probing"] /\ UNCHANGED <<backend, cache, last, first, log>>
  BY DEF StartProbe
<1>2. shell' = [read |-> "none", age |-> 0, since |-> 0, trouble |-> backend # "up"]
  BY DEF StartProbe, NoShell
<1>3. TypeOK'
  <2>1. (backend # "up") \in BOOLEAN
    OBVIOUS
  <2>2. shell' \in [read: {"none", "healthy", "unavailable"}, age: 0..PollBound, since: 0..PollBound, trouble: BOOLEAN]
    BY <1>2, <2>1
  <2> QED
    BY <1>1, <2>2 DEF TypeOK, Steps
<1>4. Exclusive' /\ PollShape' /\ Recorded'
  <2>1. \A q \in Polls : poll[q].at # "probing"
    BY <1>1 DEF Exclusive
  <2> QED
    BY <1>1, <2>1 DEF TypeOK, Exclusive, PollShape, Recorded, Waits
<1>5. ShellShape' /\ CacheShape' /\ VerdictIsEarned'
  <2>1. backend # "up" => shell'.trouble
    BY <1>2
  <2>2. shell'.read = "none" /\ shell'.since = 0 /\ shell'.age = 0
    BY <1>2
  <2> QED
    BY <1>1, <2>1, <2>2 DEF ShellShape, CacheShape, VerdictIsEarned
<1>6. Queue'
  <2>1. \A q \in Polls : Waits(q) => poll[q].waited = 0
    BY <1>1 DEF Queue, TypeOK
  <2> QED
    BY <1>1, <1>2, <2>1 DEF TypeOK, Queue, Waits, PollShape
<1> QED
  BY <1>3, <1>4, <1>5, <1>6

\* Whoever queued finds the verdict, which is fresh however long its probe took.
LEMMA EndProbeIInv == ASSUME IInv, NEW p \in Polls, EndProbe(p) PROVE IInv'
<1> USE HealthAssumption, Bounds DEF IInv, Inv1
<1>1. PICK status \in Outcomes(p) : cache' = Verdict(status) /\ Record(p, {status})
  BY DEF EndProbe
<1>2. /\ status \in {"healthy", "unavailable"}
      /\ status = "unavailable" => shell.read = "unavailable" \/ shell.age >= ProbeTimeout
  BY <1>1 DEF Outcomes, TypeOK
<1>3. /\ holder = p /\ holder' = Nobody /\ shell' = NoShell /\ UNCHANGED <<backend, log>>
      /\ holder # Nobody
  BY DEF EndProbe
<1>4. cache' = [status |-> status, age |-> 0, readAge |-> shell.since, trouble |-> shell.trouble \/ shell.age >= ProbeTimeout]
  BY <1>1 DEF Verdict
<1>5. cache' \in [status: {"none", "healthy", "unavailable"}, age: 0..TTL, readAge: 0..AgeBound, trouble: BOOLEAN]
  <2>1. shell.since \in 0..AgeBound
    BY DEF TypeOK
  <2>2. (shell.trouble \/ shell.age >= ProbeTimeout) \in BOOLEAN
    OBVIOUS
  <2> QED
    BY <1>2, <1>4, <2>1, <2>2
<1>e. /\ last' \in {"healthy", "unavailable"} /\ first' \in {"healthy", "unavailable"}
      /\ poll' \in [Polls -> [at: Steps, left: BOOLEAN, waited: 0..PollBound + 1, owes: Transitions]]
      /\ poll'[p].at = "answering" /\ poll'[p].waited = 0 /\ \A q \in Polls \ {p} : poll'[q] = poll[q]
  BY <1>1, <1>2, RecordShape DEF TypeOK
<1>6. TypeOK'
  <2>1. shell' \in [read: {"none", "healthy", "unavailable"}, age: 0..PollBound, since: 0..PollBound, trouble: BOOLEAN]
    BY <1>3 DEF NoShell
  <2> QED
    BY <1>3, <1>5, <1>e, <2>1 DEF TypeOK
<1>7. Exclusive' /\ PollShape' /\ Recorded'
  BY <1>3, <1>e DEF TypeOK, Exclusive, PollShape, Recorded, Waits
<1>8. ShellShape' /\ CacheShape'
  BY <1>2, <1>3, <1>4 DEF TypeOK, ShellShape, CacheShape, NoShell
<1>9. VerdictIsEarned'
  BY <1>2, <1>3, <1>4 DEF TypeOK, ShellShape, VerdictIsEarned
<1>10. Queue'
  <2>1. Fresh'
    BY <1>2, <1>4 DEF Fresh
  <2> QED
    BY <1>3, <1>e, <2>1 DEF TypeOK, Queue
<1> QED
  BY <1>6, <1>7, <1>8, <1>9, <1>10

\* A response takes its poll away (ServeHTTP).
LEMMA AnswerIInv == ASSUME IInv, NEW p \in Polls, Answer(p) PROVE IInv'
<1> USE HealthAssumption, Bounds DEF IInv, Inv1, Answer, Away
<1>1. TypeOK'
  BY DEF TypeOK, Steps, Transitions
<1>2. Exclusive' /\ PollShape' /\ ShellShape' /\ CacheShape' /\ VerdictIsEarned' /\ Recorded'
  BY DEF TypeOK, Exclusive, PollShape, ShellShape, CacheShape, VerdictIsEarned, Recorded, Waits
<1>3. Queue'
  BY DEF TypeOK, Queue, Waits, Fresh
<1> QED
  BY <1>1, <1>2, <1>3

\* The shell reads what is there, and trouble is on record.
LEMMA ShellReadsIInv == ASSUME IInv, ShellReads PROVE IInv'
<1> USE HealthAssumption, Bounds DEF IInv, Inv1, ShellReads
<1>1. TypeOK'
  BY DEF TypeOK
<1>2. Exclusive' /\ PollShape' /\ ShellShape' /\ CacheShape' /\ VerdictIsEarned' /\ Recorded' /\ Queue'
  BY DEF TypeOK, Exclusive, PollShape, ShellShape, CacheShape, VerdictIsEarned, Recorded, Waits, Queue, Fresh
<1> QED
  BY <1>1, <1>2

\* The backend may change at any moment, and a running probe notes it (the DHCP server).
LEMMA ChangeIInv == ASSUME IInv, Change PROVE IInv'
<1> USE HealthAssumption, Bounds DEF IInv, Inv1, Change
<1>1. TypeOK'
  BY DEF TypeOK
<1>2. Exclusive' /\ PollShape' /\ ShellShape' /\ CacheShape' /\ VerdictIsEarned' /\ Recorded' /\ Queue'
  BY DEF TypeOK, Exclusive, PollShape, ShellShape, CacheShape, VerdictIsEarned, Recorded, Waits, Queue, Fresh
<1> QED
  BY <1>1, <1>2

\* Nobody waits for a free mutex while time passes, so a wait grows with its probe.
LEMMA TickIInv == ASSUME IInv, Tick PROVE IInv'
<1> USE HealthAssumption, Bounds DEF IInv, Inv1
<1>1. holder = Nobody => \A p \in Polls : ~Waits(p)
  BY DEF Tick, Waits, Exclusive, TypeOK, Steps
<1>2. \A p \in Polls :
        /\ poll'[p].at = poll[p].at /\ poll'[p].owes = poll[p].owes
        /\ Waits(p) => poll'[p].waited <= poll[p].waited + 1
        /\ ~Waits(p) => poll'[p].waited = poll[p].waited
  <2> TAKE p \in Polls
  <2>1. CASE Waits(p)
    <3>1. poll'[p] = [poll[p] EXCEPT !.waited = UpTo(@, PollBound + 1)]
      BY <2>1 DEF Tick
    <3> QED
      BY <2>1, <3>1, UpToBound DEF TypeOK
  <2>2. CASE ~Waits(p)
    BY <2>2 DEF Tick, TypeOK
  <2> QED
    BY <2>1, <2>2
<1>3. poll' \in [Polls -> [at: Steps, left: BOOLEAN, waited: 0..PollBound + 1, owes: Transitions]]
  <2>1. \A p \in Polls : UpTo(poll[p].waited, PollBound + 1) \in 0..PollBound + 1
    BY DEF TypeOK, UpTo
  <2> QED
    BY <2>1 DEF Tick, TypeOK
<1>4. /\ holder = Nobody => shell' = shell
      /\ holder # Nobody => /\ shell'.age = shell.age + 1 /\ shell'.read = shell.read /\ shell'.trouble = shell.trouble
                            /\ shell'.since \in 0..shell.since + 1
      /\ shell' \in [read: {"none", "healthy", "unavailable"}, age: 0..PollBound, since: 0..PollBound, trouble: BOOLEAN]
  <2>1. CASE holder = Nobody
    BY <2>1 DEF Tick, TypeOK
  <2>2. CASE holder # Nobody
    <3> DEFINE n == IF shell.read = "none" THEN 0 ELSE shell.since + 1
    <3>1. shell' = [shell EXCEPT !.age = shell.age + 1, !.since = n] /\ n \in 0..shell.since + 1
      BY <2>2 DEF Tick, TypeOK
    <3> HIDE DEF n
    <3>2. shell.age + 1 \in 0..PollBound /\ n \in 0..PollBound
      BY <2>2, <3>1 DEF Tick, TypeOK, ShellShape
    <3> QED
      BY <2>2, <3>1, <3>2 DEF TypeOK
  <2> QED
    BY <2>1, <2>2
<1>5. /\ cache'.status = cache.status /\ cache'.trouble = cache.trouble
      /\ cache.status # "none" => cache'.readAge <= cache'.age + PollBound
      /\ cache' \in [status: {"none", "healthy", "unavailable"}, age: 0..TTL, readAge: 0..AgeBound, trouble: BOOLEAN]
  <2>1. CASE cache.status = "none"
    BY <2>1 DEF Tick, TypeOK
  <2>2. CASE cache.status # "none"
    <3>1. cache' = [cache EXCEPT !.age = UpTo(cache.age, TTL), !.readAge = UpTo(cache.readAge, AgeBound)]
      BY <2>2 DEF Tick
    <3>2. /\ UpTo(cache.age, TTL) \in 0..TTL /\ UpTo(cache.readAge, AgeBound) \in 0..AgeBound
          /\ UpTo(cache.readAge, AgeBound) <= UpTo(cache.age, TTL) + PollBound
      BY <2>2 DEF TypeOK, CacheShape, UpTo
    <3> QED
      BY <3>1, <3>2 DEF TypeOK
  <2> QED
    BY <2>1, <2>2
<1>6. TypeOK'
  BY <1>3, <1>4, <1>5 DEF TypeOK, Tick
<1>7. Exclusive' /\ PollShape' /\ Recorded' /\ CacheShape' /\ VerdictIsEarned'
  BY <1>2, <1>5 DEF Tick, Exclusive, PollShape, Recorded, CacheShape, VerdictIsEarned, Waits
<1>8. ShellShape'
  BY <1>4 DEF Tick, TypeOK, ShellShape
<1>9. Queue'
  BY <1>1, <1>2, <1>3, <1>4 DEF Tick, TypeOK, Queue, Waits
<1> QED
  BY <1>6, <1>7, <1>8, <1>9

\* One case per action.
LEMMA NextIInv == IInv /\ [Next]_vars => IInv'
<1> SUFFICES ASSUME IInv, [Next]_vars PROVE IInv'
  OBVIOUS
<1>1. CASE \E p \in Polls : Arrive(p) \/ Leave(p) \/ AnswerFromCache(p) \/ StartProbe(p) \/ EndProbe(p) \/ Answer(p)
  BY <1>1, ArriveIInv, LeaveIInv, AnswerFromCacheIInv, StartProbeIInv, EndProbeIInv, AnswerIInv
<1>2. CASE ShellReads \/ Change \/ Tick
  BY <1>2, ShellReadsIInv, ChangeIInv, TickIInv
<1>3. CASE UNCHANGED vars
  BY <1>3 DEF vars, IInv, Inv1, TypeOK, Exclusive, PollShape, ShellShape, CacheShape, VerdictIsEarned, Recorded, Queue, Waits, Fresh
<1> QED
  BY <1>1, <1>2, <1>3 DEF Next

\* The invariant holds throughout.
THEOREM Invariance == Spec => []IInv
BY InitIInv, NextIInv, PTL DEF Spec

-----------------------------------------------------------------------------
(* Transitions: the events owed are counted poll by poll.                  *)

\* A step of one poll changes what is owed by what that poll owes.
LEMMA OwingStep ==
  ASSUME NEW p \in Polls, \A q \in Polls \ {p} : poll'[q].owes = poll[q].owes, NEW to
  PROVE  /\ Owing(to) \in Nat /\ Owing(to)' \in Nat
         /\ Owing(to)' = Owing(to) - (IF poll[p].owes = to THEN 1 ELSE 0) + (IF poll'[p].owes = to THEN 1 ELSE 0)
<1> DEFINE rest == {q \in Polls \ {p} : poll[q].owes = to}
           was == {q \in Polls : poll[q].owes = to}
           now == {q \in Polls : poll'[q].owes = to}
<1>1. IsFiniteSet(rest) /\ Cardinality(rest) \in Nat /\ p \notin rest
  <2>1. IsFiniteSet(Polls) /\ rest \subseteq Polls
    BY HealthAssumption
  <2> QED
    BY <2>1, FS_Subset, FS_CardinalityType
<1>2. Cardinality(rest \cup {p}) = Cardinality(rest) + 1
  BY <1>1, FS_AddElement
<1>3. /\ was = IF poll[p].owes = to THEN rest \cup {p} ELSE rest
      /\ now = IF poll'[p].owes = to THEN rest \cup {p} ELSE rest
  OBVIOUS
<1> HIDE DEF rest, was, now
<1>4. /\ Cardinality(was) = Cardinality(rest) + (IF poll[p].owes = to THEN 1 ELSE 0)
      /\ Cardinality(now) = Cardinality(rest) + (IF poll'[p].owes = to THEN 1 ELSE 0)
  BY <1>1, <1>2, <1>3
<1>5. Owing(to) = Cardinality(was) /\ Owing(to)' = Cardinality(now)
  BY DEF Owing, was, now
<1> QED
  BY <1>1, <1>4, <1>5

\* Where nothing is owed and nothing recorded, the account stays as it is.
LEMMA NothingOwed ==
  ASSUME TransitionsAddUp, \A q \in Polls : poll'[q].owes = poll[q].owes, UNCHANGED <<last, first, log>>
  PROVE  TransitionsAddUp'
<1>1. \A to : {q \in Polls : poll'[q].owes = to} = {q \in Polls : poll[q].owes = to}
  OBVIOUS
<1>2. Owing("unavailable")' = Owing("unavailable") /\ Owing("healthy")' = Owing("healthy")
  BY <1>1 DEF Owing
<1> QED
  BY <1>2 DEF TransitionsAddUp, Bad

\* A record leaves the poll owing exactly the transition it made (Handler.refresh).
LEMMA RecordAddsUp ==
  ASSUME IInv, TransitionsAddUp, NEW p \in Polls, NEW status \in {"healthy", "unavailable"},
         poll[p].owes = "none", Record(p, {status}), log' = log
  PROVE  TransitionsAddUp'
<1> DEFINE owed == IF last # "none" /\ status # last THEN status ELSE "none"
<1>1. /\ last' = status /\ first' = IF first = "none" THEN status ELSE first
      /\ poll'[p].owes = owed /\ \A q \in Polls \ {p} : poll'[q].owes = poll[q].owes
  BY RecordShape
<1>2. \A to \in {"healthy", "unavailable"} :
        Owing(to) \in Nat /\ Owing(to)' = Owing(to) + (IF owed = to THEN 1 ELSE 0)
  BY <1>1, OwingStep
<1>3. /\ Bad("healthy") = 0 /\ Bad("unavailable") = 1 /\ Bad("none") = 0
  BY DEF Bad, httpStatus
<1>4. Bad(last)' = Bad(last') /\ Bad(first)' = Bad(first')
  BY DEF Bad
<1>5. /\ last \in {"none", "healthy", "unavailable"} /\ first \in {"none", "healthy", "unavailable"}
      /\ last = "none" <=> first = "none"
      /\ log \in Int
  BY DEF IInv, Inv1, TypeOK, Recorded
<1>6. log + Owing("unavailable") - Owing("healthy") = Bad(last) - Bad(first)
  BY DEF TransitionsAddUp
<1>7. log + Owing("unavailable")' - Owing("healthy")' = Bad(last') - Bad(first')
  <2>1. CASE last = "none"
    BY <2>1, <1>1, <1>2, <1>3, <1>5, <1>6
  <2>2. CASE last # "none" /\ status = last
    BY <2>2, <1>1, <1>2, <1>3, <1>5, <1>6
  <2>3. CASE last # "none" /\ status # last
    BY <2>3, <1>1, <1>2, <1>3, <1>5, <1>6
  <2> QED
    BY <2>1, <2>2, <2>3
<1> QED
  BY <1>4, <1>7 DEF TransitionsAddUp

\* A response emits what its poll owed (Handler.evaluate).
LEMMA AnswerAddsUp == ASSUME IInv, TransitionsAddUp, NEW p \in Polls, Answer(p) PROVE TransitionsAddUp'
<1>1. /\ poll' = [poll EXCEPT ![p] = Away] /\ UNCHANGED <<last, first>>
      /\ log' = log + (CASE poll[p].owes = "unavailable" -> 1 [] poll[p].owes = "healthy" -> -1 [] OTHER -> 0)
  BY DEF Answer
<1>2. poll'[p].owes = "none" /\ \A q \in Polls \ {p} : poll'[q].owes = poll[q].owes
  BY <1>1, AwayShape DEF IInv, Inv1, TypeOK
<1>3. \A to \in {"healthy", "unavailable"} :
        Owing(to) \in Nat /\ Owing(to)' = Owing(to) - (IF poll[p].owes = to THEN 1 ELSE 0)
  BY <1>2, OwingStep
<1>4. Bad(last)' = Bad(last) /\ Bad(first)' = Bad(first)
  BY <1>1 DEF Bad
<1>5. log \in Int /\ Bad(last) \in Int /\ Bad(first) \in Int
  BY DEF IInv, Inv1, TypeOK, Bad
<1>6. CASE poll[p].owes = "unavailable"
  BY <1>1, <1>3, <1>4, <1>5, <1>6 DEF TransitionsAddUp
<1>7. CASE poll[p].owes = "healthy"
  BY <1>1, <1>3, <1>4, <1>5, <1>7 DEF TransitionsAddUp
<1>8. CASE poll[p].owes \notin {"unavailable", "healthy"}
  BY <1>1, <1>3, <1>4, <1>5, <1>8 DEF TransitionsAddUp
<1> QED
  BY <1>6, <1>7, <1>8

\* One case per action: only a record and an answer touch the account.
LEMMA NextAddsUp == IInv /\ TransitionsAddUp /\ [Next]_vars => TransitionsAddUp'
<1> SUFFICES ASSUME IInv, TransitionsAddUp, [Next]_vars PROVE TransitionsAddUp'
  OBVIOUS
<1>1. ASSUME NEW p \in Polls, AnswerFromCache(p) PROVE TransitionsAddUp'
  <2>1. cache.status \in {"healthy", "unavailable"} /\ poll[p].owes = "none" /\ log' = log /\ Record(p, {cache.status})
    BY <1>1 DEF AnswerFromCache, Fresh, IInv, Inv1, TypeOK, PollShape
  <2> QED
    BY <2>1, RecordAddsUp
<1>2. ASSUME NEW p \in Polls, EndProbe(p) PROVE TransitionsAddUp'
  <2>1. PICK status \in Outcomes(p) : Record(p, {status})
    BY <1>2 DEF EndProbe
  <2>2. status \in {"healthy", "unavailable"}
    BY <2>1 DEF Outcomes, IInv, Inv1, TypeOK
  <2>3. poll[p].owes = "none" /\ log' = log
    BY <1>2 DEF EndProbe, IInv, Inv1, TypeOK, Exclusive, PollShape
  <2> QED
    BY <2>1, <2>2, <2>3, RecordAddsUp
<1>3. ASSUME NEW p \in Polls, Answer(p) PROVE TransitionsAddUp'
  BY <1>3, AnswerAddsUp
<1>4. ASSUME NEW p \in Polls, Arrive(p) PROVE TransitionsAddUp'
  <2>1. poll[p].owes = "none" /\ UNCHANGED <<last, first, log>>
    BY <1>4 DEF Arrive, IInv, Inv1, PollShape
  <2>2. [Away EXCEPT !.at = "queued"].owes = "none"
    BY AwayShape
  <2>3. \A q \in Polls : poll'[q].owes = poll[q].owes
    BY <1>4, <2>1, <2>2 DEF Arrive, IInv, Inv1, TypeOK
  <2> QED
    BY <2>1, <2>3, NothingOwed
<1>5. ASSUME NEW p \in Polls, Leave(p) \/ StartProbe(p) PROVE TransitionsAddUp'
  <2>1. UNCHANGED <<last, first, log>> /\ \A q \in Polls : poll'[q].owes = poll[q].owes
    BY <1>5 DEF Leave, StartProbe, IInv, Inv1, TypeOK
  <2> QED
    BY <2>1, NothingOwed
<1>6. CASE ShellReads \/ Change \/ Tick \/ UNCHANGED vars
  <2>1. UNCHANGED <<last, first, log>> /\ \A q \in Polls : poll'[q].owes = poll[q].owes
    BY <1>6 DEF ShellReads, Change, Tick, vars, IInv, Inv1, TypeOK
  <2> QED
    BY <2>1, NothingOwed
<1> QED
  BY <1>1, <1>2, <1>3, <1>4, <1>5, <1>6 DEF Next

\* Initially nothing is owed (NewHandler).
LEMMA InitAddsUp == Init => TransitionsAddUp
<1> SUFFICES ASSUME Init PROVE TransitionsAddUp
  OBVIOUS
<1>1. \A p \in Polls : poll[p].owes = "none"
  BY AwayShape DEF Init
<1>2. {p \in Polls : poll[p].owes = "unavailable"} = {} /\ {p \in Polls : poll[p].owes = "healthy"} = {}
  BY <1>1
<1>3. Owing("unavailable") = 0 /\ Owing("healthy") = 0
  BY <1>2, FS_EmptySet DEF Owing
<1> QED
  BY <1>3 DEF Init, TransitionsAddUp, Bad

\* The variables keep their types, ages their bounds (Handler, Probe).
THEOREM TypeCorrect == Spec => []TypeOK
BY Invariance, PTL DEF IInv, Inv1

\* A cached 503 is due to the backend or to time, however many callers hang up
\* (Probe.Check and its detached context).
THEOREM VerdictAlwaysEarned == Spec => []VerdictIsEarned
BY Invariance, PTL DEF IInv, Inv1

\* However many polls queue, none waits for more than one probe, and none is told
\* anything older than a verdict and a probe (Handler.refresh).
THEOREM PollAlwaysBounded == Spec => []PollIsBounded
<1>1. IInv => PollIsBounded
  BY HealthAssumption, Bounds DEF IInv, Inv1, TypeOK, Queue, CacheShape, PollIsBounded, Fresh, PollBound
<1> QED
  BY <1>1, Invariance, PTL

\* What is emitted and owed always leads from the first status to the last, whatever the
\* number of polls and the order they answer in (Handler.evaluate).
THEOREM TransitionsAlwaysAddUp == Spec => []TransitionsAddUp
BY InitAddsUp, NextAddsUp, Invariance, PTL DEF Spec
=============================================================================
