-------------------------- MODULE ScopeClientProofs --------------------------
(***************************************************************************)
(* What ScopeClient.tla promises to callers and operators, for any number  *)
(* of calls, requests, faults and administrators' edits, and addresses of  *)
(* any width: first what an answer claims, then the arithmetic of          *)
(* Addressing.tla, the alarms that rest on it, and the drift reports.      *)
(***************************************************************************)
EXTENDS ScopeClient, WellFoundedInduction, TLAPS

Typed ==
  /\ at \in [Calls -> Ended \cup Spawned]
  /\ alarms \in [Calls -> Nat]
  /\ did \in [Calls -> BOOLEAN]
  /\ DOMAIN answer = Calls /\ answer = [c \in Calls |-> answer[c]]
  /\ DOMAIN ask = Calls /\ ask = [c \in Calls |-> ask[c]]

\* While a shell runs nothing has been said, and the server has been changed exactly
\* if the shell is past its write; only writes get there.
Working(c) ==
  /\ at[c] \in Spawned => answer[c] = "none" /\ alarms[c] = 0 /\ (did[c] <=> at[c] = "wrote")
  /\ at[c] = "checked" => ask[c].op = "create"
  /\ at[c] = "wrote" => ask[c].op \in {"delete", "create", "update"}

OneAlarm(c) == alarms[c] = IF answer[c] \in {"BadGateway", "GatewayTimeout"} THEN 1 ELSE 0

Claim(c) ==
  /\ answer[c] \in {"Created", "NoContent"} => did[c]
  /\ answer[c] = "OK" => (did[c] <=> ask[c].op = "update")
  /\ answer[c] \in {"Invalid", "NotFound", "Conflict", "Unprocessable"} => ~did[c]

Good(c) == Working(c) /\ OneAlarm(c) /\ Claim(c)

IInv == Typed /\ \A c \in Calls : Good(c)

-----------------------------------------------------------------------------
\* Nothing of a call changes with a step of another (each call has its own shell).
Apart(c) ==
  \A d \in Calls \ {c} :
    /\ at'[d] = at[d] /\ answer'[d] = answer[d] /\ alarms'[d] = alarms[d] /\ did'[d] = did[d] /\ ask'[d] = ask[d]

\* A step that is right about its own call is right about all (the handlers share no answer).
LEMMA OwnCallOnly ==
  ASSUME IInv, NEW c \in Calls, Typed', Apart(c), Good(c)'
  PROVE  IInv'
<1>1. ASSUME NEW d \in Calls \ {c} PROVE Good(d)'
  <2>1. Good(d)
    BY <1>1 DEF IInv
  <2>2. at'[d] = at[d] /\ answer'[d] = answer[d] /\ alarms'[d] = alarms[d] /\ did'[d] = did[d] /\ ask'[d] = ask[d]
    BY <1>1 DEF Apart
  <2> QED
    BY <2>1, <2>2 DEF Good, Working, OneAlarm, Claim
<1> QED
  BY <1>1 DEF IInv

\* The answer of a call that was at work, without an alarm (WriteError).
LEMMA RespondGood ==
  ASSUME IInv, NEW c \in Calls, NEW status, at[c] \in Spawned, Respond(c, status), UNCHANGED <<ask, did, alarms>>,
         status \notin {"BadGateway", "GatewayTimeout"},
         status \in {"Created", "NoContent"} => at[c] = "wrote",
         status = "OK" => (at[c] = "wrote" <=> ask[c].op = "update"),
         status \in {"Invalid", "NotFound", "Conflict", "Unprocessable"} => at[c] # "wrote"
  PROVE  IInv'
<1>1. at' = [at EXCEPT ![c] = "done"] /\ answer' = [answer EXCEPT ![c] = status]
  BY DEF Respond
<1>2. Typed /\ Good(c)
  BY DEF IInv
<1>3. Typed'
  BY <1>1, <1>2 DEF Typed, Ended
<1>4. Apart(c)
  BY <1>1, <1>2 DEF Apart, Typed
<1>5. at'[c] = "done" /\ answer'[c] = status /\ alarms'[c] = alarms[c] /\ did'[c] = did[c] /\ ask'[c] = ask[c]
  BY <1>1, <1>2 DEF Typed
<1>6. alarms[c] = 0 /\ (did[c] <=> at[c] = "wrote")
  BY <1>2 DEF Good, Working
<1>7. Working(c)' /\ OneAlarm(c)' /\ Claim(c)'
  BY <1>5, <1>6 DEF Working, OneAlarm, Claim, Spawned
<1> QED
  BY <1>3, <1>4, <1>7, OwnCallOnly DEF Good

\* The answer of a call the backend failed: one alarm, or none to a caller who has left
\* (backendError).
LEMMA BackendErrorGood ==
  ASSUME IInv, NEW c \in Calls, NEW status \in {"BadGateway", "GatewayTimeout", "gone"},
         at[c] \in Spawned, backendError(c, status), UNCHANGED <<ask, did>>
  PROVE  IInv'
<1>1. /\ at' = [at EXCEPT ![c] = "done"] /\ answer' = [answer EXCEPT ![c] = status]
      /\ alarms' = [alarms EXCEPT ![c] = IF status = "gone" THEN @ ELSE @ + 1]
  BY DEF backendError, Respond
<1>2. Typed /\ Good(c)
  BY DEF IInv
<1>3. Typed'
  <2>1. alarms' \in [Calls -> Nat]
    BY <1>1, <1>2 DEF Typed
  <2> QED
    BY <1>1, <1>2, <2>1 DEF Typed, Ended
<1>4. Apart(c)
  BY <1>1, <1>2 DEF Apart, Typed
<1>5. alarms[c] = 0
  BY <1>2 DEF Good, Working
<1>6. at'[c] = "done" /\ answer'[c] = status /\ alarms'[c] = IF status = "gone" THEN 0 ELSE 1
  BY <1>1, <1>2, <1>5 DEF Typed
<1>7. Working(c)' /\ OneAlarm(c)' /\ Claim(c)'
  BY <1>6 DEF Working, OneAlarm, Claim, Spawned
<1> QED
  BY <1>3, <1>4, <1>7, OwnCallOnly DEF Good

\* A shell that goes on, without a word (runArgs).
LEMMA GoesOnGood ==
  ASSUME IInv, NEW c \in Calls, NEW next \in Spawned, at[c] \in Spawned \ {"wrote"},
         at' = [at EXCEPT ![c] = next], UNCHANGED <<ask, answer, alarms>>,
         did' = IF next = "wrote" THEN [did EXCEPT ![c] = TRUE] ELSE did,
         next = "checked" => ask[c].op = "create",
         next = "wrote" => ask[c].op \in {"delete", "create", "update"}
  PROVE  IInv'
<1>1. Typed /\ Good(c)
  BY DEF IInv
<1>2. Typed'
  BY <1>1 DEF Typed
<1>3. Apart(c)
  BY <1>1 DEF Apart, Typed
<1>4. at'[c] = next /\ answer'[c] = "none" /\ alarms'[c] = 0 /\ ask'[c] = ask[c] /\ (did'[c] <=> next = "wrote")
  BY <1>1 DEF Typed, Good, Working
<1>5. Working(c)' /\ OneAlarm(c)' /\ Claim(c)'
  BY <1>4 DEF Working, OneAlarm, Claim
<1> QED
  BY <1>2, <1>3, <1>5, OwnCallOnly DEF Good

-----------------------------------------------------------------------------
\* Initially no call is answered.
LEMMA InitIInv == Init => IInv
BY DEF Init, IInv, Typed, Good, Working, OneAlarm, Claim, Ended, Spawned

\* A request starts from nothing, or is refused before a shell is spawned (Validate).
LEMMA AskGood == ASSUME IInv, NEW c \in Calls, Ask(c) PROVE IInv'
<1>1. PICK r \in Asks :
        /\ ask' = [ask EXCEPT ![c] = Asked(r)]
        /\ IF ~Validate(r)
           THEN Respond(c, "Invalid")
           ELSE /\ at' = [at EXCEPT ![c] = IF r.op = "create" THEN "writing" ELSE "listing"]
                /\ answer' = [answer EXCEPT ![c] = "none"]
                /\ UNCHANGED saw
  BY DEF Ask
<1>2. PICK place \in {"done", "writing", "listing"}, status \in {"Invalid", "none"} :
        /\ at' = [at EXCEPT ![c] = place] /\ answer' = [answer EXCEPT ![c] = status]
        /\ place # "done" => status = "none"
  BY <1>1, Zenon DEF Respond
<1>3. alarms' = [alarms EXCEPT ![c] = 0] /\ did' = [did EXCEPT ![c] = FALSE]
  BY DEF Ask
<1>4. Typed
  BY DEF IInv
<1>5. Typed'
  BY <1>1, <1>2, <1>3, <1>4 DEF Typed, Ended, Spawned
<1>6. Apart(c)
  BY <1>1, <1>2, <1>3, <1>4 DEF Apart, Typed
<1>7. at'[c] = place /\ answer'[c] = status /\ alarms'[c] = 0 /\ did'[c] = FALSE
  BY <1>2, <1>3, <1>4 DEF Typed
<1>8. Working(c)' /\ OneAlarm(c)' /\ Claim(c)'
  BY <1>2, <1>7 DEF Working, OneAlarm, Claim, Spawned
<1> QED
  BY <1>5, <1>6, <1>8, OwnCallOnly DEF Good

\* A listing answers a read and decides about a write (resolveScope, UpdateScope).
LEMMA ListedGood == ASSUME IInv, NEW c \in Calls, Listed(c) PROVE IInv'
<1>1. at[c] = "looked" /\ UNCHANGED <<ask, alarms, did>>
  BY DEF Listed
<1>2. CASE Respond(c, "OK") /\ ask[c].op \in {"list", "get"}
  BY <1>1, <1>2, RespondGood DEF Spawned
<1>3. CASE Respond(c, "NotFound") \/ Respond(c, "Invalid")
  BY <1>1, <1>3, RespondGood DEF Spawned
<1>4. CASE at' = [at EXCEPT ![c] = "writing"] /\ UNCHANGED <<answer, saw>>
  BY <1>1, <1>4, GoesOnGood DEF Spawned
<1> QED
  BY <1>2, <1>3, <1>4 DEF Listed

\* The shells that change the server (Remove-, Set- and Add-DhcpServerv4Scope).
LEMMA WriteGood == ASSUME IInv, NEW c \in Calls, Remove(c) \/ Update(c) \/ Add(c) PROVE IInv'
<1>1. /\ at[c] \in {"writing", "checked"} /\ at' = [at EXCEPT ![c] = "wrote"] /\ did' = [did EXCEPT ![c] = TRUE]
      /\ UNCHANGED <<ask, answer, alarms>>
      /\ ask[c].op \in {"delete", "create", "update"}
  BY DEF Remove, Update, Add, Write, IInv, Good, Working
<1> QED
  BY <1>1, GoesOnGood DEF Spawned

\* The shells that only look (the listing, and the overlap check of the create script).
LEMMA LookGood == ASSUME IInv, NEW c \in Calls, Look(c) \/ CheckOverlap(c) PROVE IInv'
<1>1. PICK next \in {"looked", "checked", "conflict"} :
        /\ at[c] \in {"listing", "writing"} /\ at' = [at EXCEPT ![c] = next] /\ UNCHANGED <<ask, answer, alarms, did>>
        /\ next = "checked" => ask[c].op = "create"
  BY Zenon DEF Look, CheckOverlap
<1> QED
  BY <1>1, GoesOnGood DEF Spawned

\* What Windows refuses, and what it found taken (runError, scopeExistsError).
LEMMA RefusedGood == ASSUME IInv, NEW c \in Calls, Refused(c) \/ Conflict(c) PROVE IInv'
<1>1. CASE Refused(c)
  BY <1>1, BackendErrorGood DEF Refused, Spawned
<1>2. CASE Conflict(c)
  BY <1>2, RespondGood DEF Conflict, Spawned
<1> QED
  BY <1>1, <1>2

\* The answer to a write (DeleteScope, CreateScope, UpdateScope).
LEMMA WroteGood == ASSUME IInv, NEW c \in Calls, Wrote(c) PROVE IInv'
<1>1. at[c] = "wrote" /\ UNCHANGED <<ask, did>>
  BY DEF Wrote
<1>2. CASE UNCHANGED alarms /\ (Respond(c, "NoContent") \/ Respond(c, "Created") \/ (ask[c].op = "update" /\ Respond(c, "OK")))
  BY <1>1, <1>2, RespondGood DEF Spawned
<1>3. CASE backendError(c, "BadGateway")
  BY <1>1, <1>3, BackendErrorGood DEF Spawned
<1>4. ask[c].op \in {"delete", "create", "update"}
  BY <1>1 DEF IInv, Good, Working
<1>5. CASE ask[c].op = "delete"
  <2>1. Respond(c, "NoContent") /\ UNCHANGED alarms
    BY <1>5, SMT DEF Wrote
  <2> QED
    BY <1>2, <2>1
<1>6. CASE ask[c].op = "create"
  <2>1. IF ask[c].id \in DOMAIN saw[c] THEN Respond(c, "Created") /\ UNCHANGED alarms ELSE backendError(c, "BadGateway")
    BY <1>6, SMT DEF Wrote
  <2> QED
    BY <1>2, <1>3, <2>1
<1>7. CASE ask[c].op = "update"
  BY <1>2, <1>7 DEF Wrote
<1> QED
  BY <1>4, <1>5, <1>6, <1>7

\* A shell that fails is an alarm, unless its caller has left (backendError).
LEMMA FailGood == ASSUME IInv, NEW c \in Calls, NEW fault, Fail(c, fault) PROVE IInv'
<1>1. Status(fault) \in {"BadGateway", "GatewayTimeout", "gone"}
  BY DEF Status
<1> QED
  BY <1>1, BackendErrorGood DEF Fail

\* One case per action; an administrator says nothing to callers.
LEMMA NextIInv == IInv /\ [Next]_vars => IInv'
<1> SUFFICES ASSUME IInv, [Next]_vars PROVE IInv'
  OBVIOUS
<1>1. ASSUME NEW c \in Calls, Step(c) PROVE IInv'
  BY <1>1, AskGood, LookGood, ListedGood, WriteGood, RefusedGood, WroteGood, FailGood DEF Step
<1>2. CASE UNCHANGED callVars
  BY <1>2 DEF callVars, IInv, Typed, Good, Working, OneAlarm, Claim
<1>3. ASSUME NEW id, Edit(id) PROVE IInv'
  BY <1>2, <1>3 DEF Edit
<1> QED
  BY <1>1, <1>2, <1>3 DEF Next, vars

\* The invariant holds throughout.
THEOREM Invariance == Spec => []IInv
BY InitIInv, NextIInv, PTL DEF Spec

\* However many calls collide, the status of each tells what became of its write (the
\* three writes and their errors).
THEOREM ClaimsAlwaysTrue == Spec => []ClaimsAreTrue
<1>1. IInv => ClaimsAreTrue
  BY DEF IInv, Good, Claim, ClaimsAreTrue
<1> QED
  BY <1>1, Invariance, PTL

\* One BACKEND-101 for each call the backend failed and none for any other, whatever
\* fails (backendError as its single owner).
THEOREM AlwaysOneAlarmPerFailure == Spec => []OneAlarmPerFailure
<1>1. IInv => OneAlarmPerFailure
  BY DEF IInv, Good, OneAlarm, OneAlarmPerFailure
<1> QED
  BY <1>1, Invariance, PTL

-----------------------------------------------------------------------------
(* What an update writes.                                                  *)

\* The scope a call works on is as the call saw it, unless somebody came in between.
Sight(c) ==
  at[c] \in {"looked", "writing"} /\ ask[c].op # "create" /\ ~raced[c] =>
    /\ ask[c].id \in DOMAIN server <=> ask[c].id \in DOMAIN saw[c]
    /\ ask[c].id \in DOMAIN server => saw[c][ask[c].id] = server[ask[c].id]

Shaped ==
  /\ saw = [c \in Calls |-> saw[c]]
  /\ raced \in [Calls -> BOOLEAN]

Eyes == Shaped /\ \A c \in Calls : Sight(c)

\* What is written over leaves the rest (the server's scopes).
LEMMA WithOthers ==
  ASSUME NEW f, NEW id, NEW x, NEW other, other # id
  PROVE  /\ other \in DOMAIN With(f, id, x) <=> other \in DOMAIN f
         /\ other \in DOMAIN f => With(f, id, x)[other] = f[other]
BY DEF With

\* And so does what is taken away.
LEMMA WithoutOthers ==
  ASSUME NEW f, NEW id, NEW other, other # id
  PROVE  /\ other \in DOMAIN Without(f, id) <=> other \in DOMAIN f
         /\ other \in DOMAIN f => Without(f, id)[other] = f[other]
BY DEF Without

\* A change of one scope behind a call's back is noted, and leaves the others
\* (nothing of the code: the server has no locks).
LEMMA ElsewhereGood ==
  ASSUME Eyes, Shaped', NEW id, NEW others, NEW c \in others \cap Calls, Disturb(id, others),
         (\E x : server' = With(server, id, x)) \/ server' = Without(server, id),
         at'[c] = at[c], ask'[c] = ask[c], saw'[c] = saw[c]
  PROVE  Sight(c)'
<1> SUFFICES ASSUME at[c] \in {"looked", "writing"}, ask[c].op # "create", ~raced'[c]
             PROVE  /\ ask[c].id \in DOMAIN server' <=> ask[c].id \in DOMAIN saw[c]
                    /\ ask[c].id \in DOMAIN server' => saw[c][ask[c].id] = server'[ask[c].id]
  BY DEF Sight
<1>1. ask[c].id # id /\ ~raced[c]
  BY DEF Disturb
<1>2. Sight(c)
  BY DEF Eyes
<1>3. ASSUME NEW x, server' = With(server, id, x)
      PROVE  /\ ask[c].id \in DOMAIN server' <=> ask[c].id \in DOMAIN server
             /\ ask[c].id \in DOMAIN server => server'[ask[c].id] = server[ask[c].id]
  BY <1>1, <1>3, WithOthers
<1>4. ASSUME server' = Without(server, id)
      PROVE  /\ ask[c].id \in DOMAIN server' <=> ask[c].id \in DOMAIN server
             /\ ask[c].id \in DOMAIN server => server'[ask[c].id] = server[ask[c].id]
  BY <1>1, <1>4, WithoutOthers
<1> QED
  BY <1>1, <1>2, <1>3, <1>4 DEF Sight

\* Where server and races stay, a step that is right about its own call is right about
\* all (each call has its own shell).
LEMMA OwnSightOnly ==
  ASSUME Typed, Eyes, NEW c \in Calls, Shaped', UNCHANGED server, Sight(c)',
         \A d \in Calls \ {c} : /\ at'[d] = at[d] /\ ask'[d] = ask[d] /\ saw'[d] = saw[d] /\ raced'[d] = raced[d]
  PROVE  Eyes'
<1>1. ASSUME NEW d \in Calls \ {c} PROVE Sight(d)'
  BY <1>1 DEF Eyes, Sight
<1> QED
  BY <1>1 DEF Eyes

\* A call that is past its look needs none (the write, its answer, the conflict).
LEMMA PastSight ==
  ASSUME Typed, Eyes, NEW c \in Calls, NEW place \in (Ended \cup Spawned) \ {"looked", "writing"}, NEW seen,
         at' = [at EXCEPT ![c] = place], saw' = [saw EXCEPT ![c] = seen], UNCHANGED <<server, ask, raced>>
  PROVE  Eyes'
<1>1. Shaped'
  BY DEF Eyes, Shaped
<1>2. at'[c] = place
  BY DEF Typed
<1>3. Sight(c)'
  BY <1>2 DEF Sight
<1>4. \A d \in Calls \ {c} : /\ at'[d] = at[d] /\ ask'[d] = ask[d] /\ saw'[d] = saw[d] /\ raced'[d] = raced[d]
  BY DEF Typed, Eyes, Shaped
<1> QED
  BY <1>1, <1>3, <1>4, OwnSightOnly

\* An answer forgets what the call read (WriteError).
LEMMA RespondEyes ==
  ASSUME Typed, Eyes, NEW c \in Calls, NEW status, Respond(c, status), UNCHANGED <<server, ask, raced>>
  PROVE  Eyes'
BY PastSight DEF Respond, Ended

\* A write is seen by none but the call itself (the three scripts).
LEMMA WriteEyes ==
  ASSUME Typed, Eyes, NEW c \in Calls, NEW id, NEW after, NEW seen, Write(c, id, after, seen),
         (\E x : after = With(server, id, x)) \/ after = Without(server, id)
  PROVE  Eyes'
<1>1. /\ server' = after /\ at' = [at EXCEPT ![c] = "wrote"] /\ saw' = [saw EXCEPT ![c] = seen]
      /\ Disturb(id, Calls \ {c}) /\ UNCHANGED ask
  BY DEF Write
<1>2. Shaped'
  BY <1>1 DEF Eyes, Shaped, Disturb
<1>3. at'[c] = "wrote"
  BY <1>1 DEF Typed
<1>4. Sight(c)'
  BY <1>3 DEF Sight
<1>5. ASSUME NEW d \in Calls \ {c} PROVE Sight(d)'
  <2>1. at'[d] = at[d] /\ ask'[d] = ask[d] /\ saw'[d] = saw[d]
    BY <1>1, <1>5 DEF Typed, Eyes, Shaped
  <2> QED
    BY <1>1, <1>2, <1>5, <2>1, ElsewhereGood
<1> QED
  BY <1>2, <1>4, <1>5 DEF Eyes

\* Initially nobody has seen anything.
LEMMA InitEyes == Init => Eyes
BY DEF Init, Eyes, Shaped, Sight

\* A new request is no race's victim yet, and a create is judged by nothing it saw (create).
LEMMA AskEyes == ASSUME Typed, Eyes, NEW c \in Calls, Ask(c) PROVE Eyes'
<1>1. PICK r \in Asks :
        /\ ask' = [ask EXCEPT ![c] = Asked(r)]
        /\ IF ~Validate(r)
           THEN Respond(c, "Invalid")
           ELSE /\ at' = [at EXCEPT ![c] = IF r.op = "create" THEN "writing" ELSE "listing"]
                /\ answer' = [answer EXCEPT ![c] = "none"]
                /\ UNCHANGED saw
  BY DEF Ask
<1>2. raced' = [raced EXCEPT ![c] = FALSE] /\ UNCHANGED server
  BY DEF Ask
<1>3. PICK place \in {"done", "writing", "listing"} :
        at' = [at EXCEPT ![c] = place] /\ (place = "writing" => r.op = "create")
  BY <1>1, Zenon DEF Respond
<1>4. saw' = saw \/ saw' = [saw EXCEPT ![c] = Nothing]
  BY <1>1 DEF Respond
<1>5. r.op = "create" => Asked(r).op = "create"
  <2>1. r \in Requests
    BY ScopeClientAssumption
  <2>2. r.op = "create" => "op" \in DOMAIN r
    BY <2>1 DEF Requests
  <2> QED
    BY <2>2 DEF Asked, With
<1>6. Shaped'
  BY <1>2, <1>4 DEF Eyes, Shaped
<1>7. at'[c] = place /\ ask'[c] = Asked(r)
  BY <1>1, <1>3 DEF Typed
<1>8. Sight(c)'
  BY <1>3, <1>5, <1>7 DEF Sight
<1>9. \A d \in Calls \ {c} : /\ at'[d] = at[d] /\ ask'[d] = ask[d] /\ saw'[d] = saw[d] /\ raced'[d] = raced[d]
  BY <1>1, <1>2, <1>3, <1>4 DEF Typed, Eyes, Shaped
<1> QED
  BY <1>2, <1>6, <1>8, <1>9, OwnSightOnly

\* A listing shows the server as it is (listScopesScript).
LEMMA LookEyes == ASSUME Typed, Eyes, NEW c \in Calls, Look(c) PROVE Eyes'
<1>1. at' = [at EXCEPT ![c] = "looked"] /\ saw' = [saw EXCEPT ![c] = server] /\ UNCHANGED <<server, ask, raced>>
  BY DEF Look, historyVars
<1>2. Shaped'
  BY <1>1 DEF Eyes, Shaped
<1>3. saw'[c] = server'
  BY <1>1 DEF Eyes, Shaped
<1>4. Sight(c)'
  BY <1>3 DEF Sight
<1>5. \A d \in Calls \ {c} : /\ at'[d] = at[d] /\ ask'[d] = ask[d] /\ saw'[d] = saw[d] /\ raced'[d] = raced[d]
  BY <1>1 DEF Typed, Eyes, Shaped
<1> QED
  BY <1>1, <1>2, <1>4, <1>5, OwnSightOnly

\* From a listing to the write it resolved, nothing else is read (resolveScope).
LEMMA ListedEyes == ASSUME Typed, Eyes, NEW c \in Calls, Listed(c) PROVE Eyes'
<1>1. at[c] = "looked" /\ UNCHANGED <<server, ask, raced>>
  BY DEF Listed
<1>2. ASSUME NEW status, Respond(c, status) PROVE Eyes'
  BY <1>1, <1>2, RespondEyes
<1>3. CASE at' = [at EXCEPT ![c] = "writing"] /\ UNCHANGED <<answer, saw>>
  <2>1. Shaped'
    BY <1>1, <1>3 DEF Eyes, Shaped
  <2>2. Sight(c) /\ at'[c] = "writing"
    BY <1>3 DEF Eyes, Typed
  <2>3. Sight(c)'
    BY <1>1, <1>3, <2>2 DEF Sight
  <2>4. \A d \in Calls \ {c} : /\ at'[d] = at[d] /\ ask'[d] = ask[d] /\ saw'[d] = saw[d] /\ raced'[d] = raced[d]
    BY <1>1, <1>3 DEF Typed
  <2> QED
    BY <1>1, <2>1, <2>3, <2>4, OwnSightOnly
<1> QED
  BY <1>2, <1>3 DEF Listed

\* The overlap check sees at most the scope in the way (createScopeScript).
LEMMA CheckOverlapEyes == ASSUME Typed, Eyes, NEW c \in Calls, CheckOverlap(c) PROVE Eyes'
<1>1. UNCHANGED <<server, ask, raced>>
  BY DEF CheckOverlap, historyVars
<1>2. CASE at' = [at EXCEPT ![c] = "checked"] /\ UNCHANGED saw
  <2>1. saw' = [saw EXCEPT ![c] = saw[c]]
    BY <1>2 DEF Eyes, Shaped
  <2> QED
    BY <1>1, <1>2, <2>1, PastSight DEF Spawned
<1>3. ASSUME NEW seen, at' = [at EXCEPT ![c] = "conflict"], saw' = [saw EXCEPT ![c] = seen] PROVE Eyes'
  BY <1>1, <1>3, PastSight DEF Spawned
<1> QED
  BY <1>2, <1>3 DEF CheckOverlap

\* One case per action.
LEMMA NextEyes == IInv /\ Eyes /\ [Next]_vars => Eyes'
<1> SUFFICES ASSUME IInv, Typed, Eyes, [Next]_vars PROVE Eyes'
  BY DEF IInv
<1>1. ASSUME NEW c \in Calls, Remove(c) \/ Update(c) \/ Add(c) PROVE Eyes'
  <2>1. CASE Remove(c)
    BY <2>1, WriteEyes DEF Remove
  <2>2. CASE Update(c)
    BY <2>2, WriteEyes DEF Update
  <2>3. CASE Add(c)
    BY <2>3, WriteEyes DEF Add
  <2> QED
    BY <1>1, <2>1, <2>2, <2>3
<1>2. ASSUME NEW c \in Calls, NEW status, Respond(c, status), UNCHANGED <<server, ask, raced>> PROVE Eyes'
  BY <1>2, RespondEyes
<1>3. ASSUME NEW c \in Calls, Refused(c) \/ Conflict(c) \/ Wrote(c) \/ (\E fault \in Faults : Fail(c, fault)) PROVE Eyes'
  <2>1. UNCHANGED <<server, ask, raced>>
    BY <1>3 DEF Refused, Conflict, Wrote, Fail, historyVars
  <2>2. CASE Refused(c) \/ Conflict(c) \/ (\E fault \in Faults : Fail(c, fault))
    BY <1>2, <2>1, <2>2 DEF Refused, Conflict, Fail, backendError
  <2>3. CASE Wrote(c)
    <3>1. ask[c].op \in {"delete", "create", "update"}
      BY <2>3 DEF Wrote, IInv, Good, Working
    <3>2. \E status : Respond(c, status)
      BY <2>3, <3>1 DEF Wrote, backendError
    <3> QED
      BY <1>2, <2>1, <3>2
  <2> QED
    BY <1>3, <2>2, <2>3
<1>4. ASSUME NEW c \in Calls, Step(c) PROVE Eyes'
  BY <1>1, <1>3, <1>4, AskEyes, LookEyes, ListedEyes, CheckOverlapEyes DEF Step
<1>5. ASSUME NEW id, Edit(id) PROVE Eyes'
  <2>1. (\E x : server' = With(server, id, x)) \/ server' = Without(server, id)
    BY <1>5 DEF Edit
  <2>2. Disturb(id, Calls) /\ UNCHANGED <<at, ask, saw>>
    BY <1>5 DEF Edit, callVars
  <2>3. Shaped'
    BY <2>2 DEF Eyes, Shaped, Disturb
  <2>4. ASSUME NEW c \in Calls PROVE Sight(c)'
    BY <2>1, <2>2, <2>3, ElsewhereGood
  <2> QED
    BY <2>3, <2>4 DEF Eyes
<1>6. CASE UNCHANGED vars
  BY <1>6 DEF vars, callVars, historyVars, Eyes, Shaped, Sight
<1> QED
  BY <1>4, <1>5, <1>6 DEF Next

\* The end of a range that an update leaves out stays what the server has, because it is
\* what the listing read (env).
LEMMA UpdateWritesWhatItSaw ==
  ASSUME Eyes, NEW c \in Calls, Update(c), ~raced[c], NEW f \in {"name", "lo", "hi"}, ask[c][f] = Omit
  PROVE  server'[ask[c].id][f] = server[ask[c].id][f]
<1> DEFINE id == ask[c].id
           was == server[id]
           r == ask[c]
<1>1. at[c] = "writing" /\ ask[c].op = "update" /\ id \in DOMAIN server
  BY DEF Update, Settable
<1>2. saw[c][id] = was
  BY <1>1 DEF Eyes, Sight
<1>3. server'[id] = Set(r, was, was)
  BY <1>2 DEF Update, Write, With
<1>4. env(r, was) # <<>> => env(r, was)[1] = effective(r.lo, was.lo) /\ env(r, was)[2] = effective(r.hi, was.hi)
  BY DEF env
<1>5. CASE f = "name"
  BY <1>3, <1>5 DEF Set, effective
<1>6. CASE f = "lo"
  BY <1>3, <1>4, <1>6 DEF Set, effective
<1>7. CASE f = "hi"
  BY <1>3, <1>4, <1>7 DEF Set, effective
<1> QED
  BY <1>5, <1>6, <1>7

\* However many calls run, an update that nobody interfered with changes only what it was
\* asked to (env, updateScopeScript).
THEOREM UpdateAlwaysKeepsTheRest == Spec => UpdateKeepsTheRest
<1> DEFINE Kept == \A c \in Calls : Update(c) /\ ~raced[c] =>
       LET was == server[ask[c].id]
           now == server'[ask[c].id]
       IN  \A f \in {"name", "lo", "hi"} : ask[c][f] = Omit => now[f] = was[f]
<1>1. Eyes => Kept
  BY UpdateWritesWhatItSaw
<1>2. Spec => []Eyes
  BY InitEyes, NextEyes, Invariance, PTL DEF Spec
<1>3. Eyes => [Kept]_vars
  BY <1>1
<1> QED
  BY <1>2, <1>3, PTL DEF UpdateKeepsTheRest

-----------------------------------------------------------------------------
(* The powers of two, and the bits of a number.                            *)

\* Induction, for a set of numbers (nothing of the code).
LEMMA Induction ==
  ASSUME NEW S, 0 \in S, \A n \in Nat : n \in S => n + 1 \in S
  PROVE  \A n \in Nat : n \in S
<1> SUFFICES ASSUME NEW m \in Nat, m \notin S PROVE FALSE
  OBVIOUS
<1> DEFINE T == {n \in Nat : n \notin S}
           R == OpToRel(<, Nat)
<1>1. IsWellFoundedOn(R, Nat)
  BY NatLessThanWellFounded
<1>2. T \subseteq Nat /\ T # {}
  OBVIOUS
<1> HIDE DEF R, T
<1>3. PICK x \in T : \A y \in T : <<y, x>> \notin R
  BY <1>1, <1>2, WFMin
<1>4. x \in Nat /\ x \notin S
  BY <1>3 DEF T
<1>5. x # 0 /\ x - 1 \in Nat /\ x - 1 \in T
  BY <1>4 DEF T
<1>6. <<x - 1, x>> \in R
  BY <1>4, <1>5 DEF R, OpToRel
<1> QED
  BY <1>3, <1>5, <1>6

\* What the powers up to some number are.
PowersTo(n, f) == f \in [0..n -> Nat] /\ f[0] = 1 /\ \A i \in 0..n : i > 0 => f[i] = 2 * f[i - 1]

\* There are powers up to any number (nothing of the code).
LEMMA PowersExist == \A n \in Nat : \E f : PowersTo(n, f)
<1> DEFINE S == {n \in Nat : \E f : PowersTo(n, f)}
<1>1. 0 \in S
  <2>1. PowersTo(0, [i \in 0..0 |-> 1])
    BY DEF PowersTo
  <2> QED
    BY <2>1
<1>2. ASSUME NEW n \in Nat, n \in S PROVE n + 1 \in S
  <2>1. PICK f : PowersTo(n, f)
    BY <1>2
  <2> DEFINE g == [i \in 0..(n + 1) |-> IF i = n + 1 THEN 2 * f[n] ELSE f[i]]
  <2>2. PowersTo(n + 1, g)
    BY <2>1 DEF PowersTo
  <2> QED
    BY <2>2
<1> HIDE DEF S
<1>3. \A n \in Nat : n \in S
  BY <1>1, <1>2, Induction
<1> QED
  BY <1>3 DEF S

\* And only one such function, as far as two of them go (nothing of the code).
LEMMA PowersAgree ==
  ASSUME NEW m \in Nat, NEW n \in Nat, NEW f, NEW g, PowersTo(m, f), PowersTo(n, g)
  PROVE  \A i \in Nat : i <= m /\ i <= n => f[i] = g[i]
<1> DEFINE S == {i \in Nat : i <= m /\ i <= n => f[i] = g[i]}
<1>1. 0 \in S
  BY DEF PowersTo
<1>2. ASSUME NEW i \in Nat, i \in S PROVE i + 1 \in S
  <2> SUFFICES ASSUME i + 1 <= m, i + 1 <= n PROVE f[i + 1] = g[i + 1]
    OBVIOUS
  <2>1. f[i] = g[i]
    BY <1>2
  <2>2. i + 1 \in 0..m /\ i + 1 \in 0..n /\ i + 1 > 0 /\ (i + 1) - 1 = i
    OBVIOUS
  <2> QED
    BY <2>1, <2>2 DEF PowersTo
<1> HIDE DEF S
<1>3. \A i \in Nat : i \in S
  BY <1>1, <1>2, Induction
<1> QED
  BY <1>3 DEF S

\* The powers of two are what their definition says (nothing of the code).
LEMMA Powers ==
  /\ Power[0] = 1
  /\ \A n \in Nat : Power[n] \in Nat /\ Power[n + 1] = 2 * Power[n]
<1> DEFINE F(n) == CHOOSE f : PowersTo(n, f)
           h == [n \in Nat |-> F(n)[n]]
<1>1. ASSUME NEW n \in Nat PROVE PowersTo(n, F(n))
  BY PowersExist
<1> HIDE DEF F
<1>2. h[0] = 1
  BY <1>1 DEF PowersTo
<1>3. ASSUME NEW n \in Nat PROVE h[n] \in Nat /\ h[n + 1] = 2 * h[n]
  <2>1. PowersTo(n, F(n)) /\ PowersTo(n + 1, F(n + 1))
    BY <1>1
  <2>2. F(n + 1)[n] = F(n)[n]
    BY <2>1, PowersAgree
  <2>3. F(n + 1)[n + 1] = 2 * F(n + 1)[n]
    <3>1. n + 1 \in 0..(n + 1) /\ n + 1 > 0 /\ (n + 1) - 1 = n
      OBVIOUS
    <3> QED
      BY <2>1, <3>1 DEF PowersTo
  <2> QED
    BY <2>1, <2>2, <2>3 DEF PowersTo
<1> HIDE DEF h
<1>4. h = [k \in Nat |-> IF k = 0 THEN 1 ELSE 2 * h[k - 1]]
  <2>1. ASSUME NEW k \in Nat PROVE h[k] = IF k = 0 THEN 1 ELSE 2 * h[k - 1]
    <3>1. CASE k = 0
      BY <1>2, <3>1
    <3>2. CASE k # 0
      <4>1. k - 1 \in Nat /\ (k - 1) + 1 = k
        BY <3>2
      <4>2. h[(k - 1) + 1] = 2 * h[k - 1]
        BY <1>3, <4>1
      <4> QED
        BY <3>2, <4>1, <4>2
    <3> QED
      BY <3>1, <3>2
  <2>2. h = [k \in Nat |-> h[k]]
    BY DEF h
  <2> QED
    BY <2>1, <2>2
<1>5. Power = [k \in Nat |-> IF k = 0 THEN 1 ELSE 2 * Power[k - 1]]
  <2>1. Power = CHOOSE f : f = [k \in Nat |-> IF k = 0 THEN 1 ELSE 2 * f[k - 1]]
    BY DEF Power
  <2>2. \E f : f = [k \in Nat |-> IF k = 0 THEN 1 ELSE 2 * f[k - 1]]
    BY <1>4
  <2> QED
    BY <2>1, <2>2
<1>6. \A n \in Nat : Power[n] = IF n = 0 THEN 1 ELSE 2 * Power[n - 1]
  <2> DEFINE G == [k \in Nat |-> IF k = 0 THEN 1 ELSE 2 * Power[k - 1]]
  <2>1. \A n \in Nat : G[n] = IF n = 0 THEN 1 ELSE 2 * Power[n - 1]
    OBVIOUS
  <2>2. Power = G
    BY <1>5
  <2> HIDE DEF G
  <2> QED
    BY <2>1, <2>2
<1>7. \A n \in Nat : Power[n + 1] = 2 * Power[n]
  <2> TAKE n \in Nat
  <2>1. n + 1 \in Nat /\ n + 1 # 0 /\ (n + 1) - 1 = n
    OBVIOUS
  <2>2. Power[n + 1] = 2 * Power[(n + 1) - 1]
    BY <1>6, <2>1
  <2> QED
    BY <2>1, <2>2
<1>8. \A n \in Nat : Power[n] \in Nat
  <2> DEFINE S == {n \in Nat : Power[n] \in Nat}
  <2>1. 0 \in S
    BY <1>6
  <2>2. ASSUME NEW n \in Nat, n \in S PROVE n + 1 \in S
    BY <1>7, <2>2
  <2> HIDE DEF S
  <2>3. \A n \in Nat : n \in S
    BY <2>1, <2>2, Induction
  <2> QED
    BY <2>3 DEF S
<1> QED
  BY <1>6, <1>7, <1>8

\* Division with a remainder (nothing of the code).
LEMMA Division ==
  ASSUME NEW a \in Nat, NEW m \in Nat, m > 0
  PROVE  a \div m \in Nat /\ a % m \in 0..(m - 1) /\ a = (a \div m) * m + (a % m)
OBVIOUS

\* There is one quotient and one remainder (nothing of the code).
LEMMA OneQuotient ==
  ASSUME NEW m \in Nat, NEW s \in Nat, NEW u \in 0..(m - 1), NEW t \in Nat, NEW v \in 0..(m - 1),
         s * m + u = t * m + v
  PROVE  s = t /\ u = v
<1>1. ASSUME NEW x \in Nat, NEW y \in Nat, x < y PROVE x * m + m <= y * m
  <2>1. PICK d \in Nat : y = x + 1 + d
    BY <1>1
  <2>2. y * m = x * m + m + d * m /\ d * m \in Nat
    BY <2>1
  <2>3. x * m \in Nat
    OBVIOUS
  <2> QED
    BY <2>2, <2>3
<1>2. s * m \in Nat /\ t * m \in Nat
  OBVIOUS
<1>3. ~(s < t)
  <2> SUFFICES ASSUME s < t PROVE FALSE
    OBVIOUS
  <2>1. s * m + m <= t * m
    BY <1>1
  <2> QED
    BY <1>2, <2>1
<1>4. ~(t < s)
  <2> SUFFICES ASSUME t < s PROVE FALSE
    OBVIOUS
  <2>1. t * m + m <= s * m
    BY <1>1
  <2> QED
    BY <1>2, <2>1
<1> QED
  BY <1>2, <1>3, <1>4

\* A multiple and what is left of it (nothing of the code).
LEMMA Divided ==
  ASSUME NEW m \in Nat, NEW s \in Nat, NEW u \in 0..(m - 1)
  PROVE  (s * m + u) \div m = s /\ (s * m + u) % m = u
<1> DEFINE a == s * m + u
<1>1. a \in Nat /\ m > 0
  OBVIOUS
<1>2. a = s * m + u
  OBVIOUS
<1> HIDE DEF a
<1>3. a \div m \in Nat /\ a % m \in 0..(m - 1) /\ a = (a \div m) * m + (a % m)
  BY <1>1, Division
<1>4. a \div m = s /\ a % m = u
  BY <1>2, <1>3, OneQuotient
<1> QED
  BY <1>4 DEF a

\* The powers are positive (nothing of the code).
LEMMA Positive == \A n \in Nat : Power[n] \in Nat /\ Power[n] > 0
<1> DEFINE S == {n \in Nat : Power[n] > 0}
<1>1. 0 \in S
  BY Powers
<1>2. ASSUME NEW n \in Nat, n \in S PROVE n + 1 \in S
  BY <1>2, Powers
<1> HIDE DEF S
<1>3. \A n \in Nat : n \in S
  BY <1>1, <1>2, Induction
<1> QED
  BY <1>3, Powers DEF S

\* The power of a sum is the product of the powers (nothing of the code).
LEMMA Sums ==
  ASSUME NEW m \in Nat
  PROVE  \A n \in Nat : Power[m + n] = Power[n] * Power[m]
<1> DEFINE S == {n \in Nat : Power[m + n] = Power[n] * Power[m]}
<1>1. 0 \in S
  BY Powers
<1>2. ASSUME NEW n \in Nat, n \in S PROVE n + 1 \in S
  <2> DEFINE p == Power[m]
             q == Power[n]
             r == Power[m + n]
  <2>1. p \in Nat /\ q \in Nat /\ r \in Nat /\ r = q * p
    BY <1>2, Positive
  <2>2. Power[m + n + 1] = 2 * r /\ Power[n + 1] = 2 * q
    BY Powers
  <2>3. m + (n + 1) = m + n + 1
    OBVIOUS
  <2> HIDE DEF p, q, r
  <2>4. 2 * r = (2 * q) * p
    BY <2>1
  <2>5. Power[m + (n + 1)] = Power[n + 1] * Power[m]
    BY <2>2, <2>3, <2>4 DEF p
  <2> QED
    BY <2>5
<1> HIDE DEF S
<1>3. \A n \in Nat : n \in S
  BY <1>1, <1>2, Induction
<1> QED
  BY <1>3 DEF S

\* A greater power is a multiple of a smaller one (nothing of the code).
LEMMA Multiple ==
  ASSUME NEW i \in Nat, NEW k \in Nat, i <= k
  PROVE  /\ \E m \in Nat : m > 0 /\ Power[k] = m * Power[i]
         /\ Power[i] <= Power[k]
<1>1. PICK n \in Nat : k = i + n
  <2>1. k - i \in Nat /\ k = i + (k - i)
    OBVIOUS
  <2> QED
    BY <2>1
<1>2. Power[k] = Power[n] * Power[i] /\ Power[n] \in Nat /\ Power[n] > 0 /\ Power[i] \in Nat
  BY <1>1, Sums, Positive
<1>3. Power[i] <= Power[k]
  <2>1. \A p, q \in Nat : q > 0 => p <= q * p
    <3> SUFFICES ASSUME NEW p \in Nat, NEW q \in Nat, q > 0 PROVE p <= q * p
      OBVIOUS
    <3>1. q * p = p + (q - 1) * p /\ (q - 1) * p \in Nat
      OBVIOUS
    <3> QED
      BY <3>1
  <2> QED
    BY <1>2, <2>1
<1> QED
  BY <1>2, <1>3

\* An even one, where the two are not the same (nothing of the code).
LEMMA EvenMultiple ==
  ASSUME NEW i \in Nat, NEW k \in Nat, i < k
  PROVE  \E m \in Nat : m > 0 /\ Power[k] = (2 * m) * Power[i]
<1>1. i + 1 \in Nat /\ i + 1 <= k
  OBVIOUS
<1>2. PICK m \in Nat : m > 0 /\ Power[k] = m * Power[i + 1]
  BY <1>1, Multiple
<1>3. Power[i + 1] = 2 * Power[i] /\ Power[i] \in Nat
  BY Powers
<1>4. Power[k] = (2 * m) * Power[i]
  BY <1>2, <1>3
<1> QED
  BY <1>2, <1>4

\* The bit of a number at a place.
Bit(a, i) == (a \div Power[i]) % 2 = 1

\* One more bit makes one more remainder (nothing of the code).
LEMMA OneMoreBit ==
  ASSUME NEW a \in Nat, NEW n \in Nat
  PROVE  a % Power[n + 1] = IF Bit(a, n) THEN (a % Power[n]) + Power[n] ELSE a % Power[n]
<1> DEFINE p == Power[n]
           q == a \div p
           r == a % p
           s == q \div 2
           t == q % 2
<1>1. p \in Nat /\ p > 0 /\ Power[n + 1] = 2 * p
  BY Positive, Powers
<1>2. q \in Nat /\ r \in 0..(p - 1) /\ a = q * p + r
  BY <1>1, Division
<1> HIDE DEF p
<1>9. Bit(a, n) <=> t = 1
  BY DEF Bit, p
<1> HIDE DEF q, r
<1>3. s \in Nat /\ t \in 0..1 /\ q = s * 2 + t
  BY <1>2, Division
<1> HIDE DEF s, t
<1>4. a = s * (2 * p) + (t * p + r)
  BY <1>1, <1>2, <1>3
<1>5. t * p + r \in 0..(2 * p - 1) /\ 2 * p \in Nat
  <2>1. CASE t = 0
    BY <1>1, <1>2, <2>1
  <2>2. CASE t = 1
    BY <1>1, <1>2, <2>2
  <2> QED
    BY <1>3, <2>1, <2>2
<1> DEFINE d == 2 * p
           e == t * p + r
<1>6. d \in Nat /\ e \in 0..(d - 1) /\ a = s * d + e
  BY <1>4, <1>5
<1> HIDE DEF d, e
<1>7. a % d = e
  BY <1>3, <1>6, Divided
<1>8. t = 0 \/ t = 1
  BY <1>3
<1>10. CASE t = 1
  BY <1>1, <1>2, <1>7, <1>9, <1>10 DEF d, e, r, p
<1>11. CASE t = 0
  BY <1>1, <1>2, <1>7, <1>9, <1>11 DEF d, e, r, p
<1> QED
  BY <1>8, <1>10, <1>11

\* Numbers with the same bits have the same remainders (nothing of the code).
LEMMA SameBits ==
  ASSUME NEW a \in Nat, NEW b \in Nat
  PROVE  \A n \in Nat : (\A i \in 0..(n - 1) : Bit(a, i) <=> Bit(b, i)) => a % Power[n] = b % Power[n]
<1> DEFINE Same(n) == \A i \in 0..(n - 1) : Bit(a, i) <=> Bit(b, i)
           S == {n \in Nat : Same(n) => a % Power[n] = b % Power[n]}
<1>1. 0 \in S
  <2>1. a % 1 = 0 /\ b % 1 = 0
    OBVIOUS
  <2> QED
    BY <2>1, Powers
<1>2. ASSUME NEW n \in Nat, n \in S PROVE n + 1 \in S
  <2> SUFFICES ASSUME Same(n + 1) PROVE a % Power[n + 1] = b % Power[n + 1]
    OBVIOUS
  <2>1. Same(n) /\ (Bit(a, n) <=> Bit(b, n))
    OBVIOUS
  <2>2. a % Power[n] = b % Power[n]
    BY <1>2, <2>1
  <2> QED
    BY <2>1, <2>2, OneMoreBit
<1> HIDE DEF S
<1>3. \A n \in Nat : n \in S
  BY <1>1, <1>2, Induction
<1> QED
  BY <1>3 DEF S

\* The bits from place k on do not depend on the remainder below (networkAddr).
LEMMA HighBits ==
  ASSUME NEW q \in Nat, NEW k \in Nat, NEW i \in Nat, k <= i, NEW u \in 0..(Power[k] - 1), NEW v \in 0..(Power[k] - 1)
  PROVE  Bit(q * Power[k] + u, i) <=> Bit(q * Power[k] + v, i)
<1> DEFINE p == Power[k]
<1>1. p \in Nat /\ p > 0
  BY Positive
<1>2. PICK m \in Nat : m > 0 /\ Power[i] = m * p
  BY Multiple
<1> DEFINE s == q \div m
           t == q % m
<1>3. s \in Nat /\ t \in 0..(m - 1) /\ q = s * m + t
  BY <1>2, Division
<1> HIDE DEF p, s, t
<1>4. ASSUME NEW x \in 0..(p - 1) PROVE (q * p + x) \div (m * p) = s
  <2>1. q * p + x = s * (m * p) + (t * p + x)
    BY <1>1, <1>2, <1>3
  <2>2. t * p + x \in Nat /\ t * p + x < m * p
    <3>1. t * p \in Nat /\ (m - 1) * p = m * p - p /\ m * p \in Nat
      BY <1>1, <1>2, <1>3
    <3>2. t * p <= (m - 1) * p
      <4>1. PICK d \in Nat : m - 1 = t + d
        BY <1>2, <1>3
      <4>2. (m - 1) * p = t * p + d * p /\ d * p \in Nat
        BY <1>1, <1>3, <4>1
      <4> QED
        BY <3>1, <4>2
    <3> QED
      BY <1>1, <3>1, <3>2
  <2> DEFINE n == m * p
             e == t * p + x
  <2>3. n \in Nat /\ e \in 0..(n - 1) /\ q * p + x = s * n + e
    BY <1>1, <1>2, <2>1, <2>2
  <2> HIDE DEF n, e
  <2>4. (s * n + e) \div n = s
    BY <1>3, <2>3, Divided
  <2> QED
    BY <2>3, <2>4 DEF n
<1>5. u \in 0..(p - 1) /\ v \in 0..(p - 1)
  BY DEF p
<1>6. (q * p + u) \div Power[i] = (q * p + v) \div Power[i]
  BY <1>2, <1>4, <1>5
<1> QED
  BY <1>6 DEF Bit, p

\* And those below are those of the remainder (broadcastAddr).
LEMMA LowBits ==
  ASSUME NEW q \in Nat, NEW k \in Nat, NEW i \in Nat, i < k, NEW u \in Nat
  PROVE  Bit(q * Power[k] + u, i) <=> Bit(u, i)
<1> DEFINE p == Power[i]
           s == u \div p
           x == u % p
<1>1. p \in Nat /\ p > 0
  BY Positive
<1>2. PICK m \in Nat : m > 0 /\ Power[k] = (2 * m) * p
  BY EvenMultiple
<1> HIDE DEF p
<1>3. s \in Nat /\ x \in 0..(p - 1) /\ u = s * p + x
  BY <1>1, Division
<1> HIDE DEF s, x
<1> DEFINE h == q * m
           r == 2 * h + s
<1>4. h \in Nat /\ r \in Nat
  BY <1>2, <1>3
<1>5. q * Power[k] + u = r * p + x
  BY <1>1, <1>2, <1>3
<1> HIDE DEF h
<1>6. (r * p + x) \div p = r
  BY <1>1, <1>3, <1>4, Divided
<1>7. r % 2 = s % 2
  BY <1>3, <1>4
<1> QED
  BY <1>5, <1>6, <1>7 DEF Bit, p, s

\* Zero has no bits (nothing of the code).
LEMMA NoBits == ASSUME NEW i \in Nat PROVE ~Bit(0, i)
<1> DEFINE p == Power[i]
<1>1. p \in Nat /\ p > 0
  BY Positive
<1> HIDE DEF p
<1>2. 0 \div p = 0
  <2>1. 0 * p + 0 = 0 /\ 0 \in 0..(p - 1)
    BY <1>1
  <2> QED
    BY <1>1, <2>1, Divided
<1> QED
  BY <1>2 DEF Bit, p

\* One less than a power has all the bits below it (nothing of the code).
LEMMA AllBits == ASSUME NEW k \in Nat, NEW i \in Nat PROVE Bit(Power[k] - 1, i) <=> i < k
<1>1. Power[k] \in Nat /\ Power[k] > 0 /\ Power[i] \in Nat /\ Power[i] > 0
  BY Positive
<1>2. CASE i < k
  <2> DEFINE p == Power[i]
  <2>1. PICK m \in Nat : m > 0 /\ Power[k] = (2 * m) * p
    BY <1>2, EvenMultiple
  <2>2. p \in Nat /\ p > 0
    BY <1>1
  <2> HIDE DEF p
  <2>3. Power[k] - 1 = (2 * m - 1) * p + (p - 1)
    BY <2>1, <2>2
  <2>4. ((2 * m - 1) * p + (p - 1)) \div p = 2 * m - 1
    <3>1. 2 * m - 1 \in Nat /\ p - 1 \in 0..(p - 1)
      BY <2>1, <2>2
    <3> QED
      BY <2>2, <3>1, Divided
  <2>5. (2 * m - 1) % 2 = 1
    BY <2>1
  <2> QED
    BY <1>2, <2>3, <2>4, <2>5 DEF Bit, p
<1>3. CASE ~(i < k)
  <2>1. Power[k] <= Power[i]
    BY <1>3, Multiple
  <2> DEFINE p == Power[i]
             w == Power[k] - 1
  <2>2. p \in Nat /\ w \in 0..(p - 1) /\ 0 * p + w = w
    BY <1>1, <2>1
  <2> HIDE DEF p, w
  <2>3. w \div p = 0
    BY <2>2, Divided
  <2> QED
    BY <1>3, <2>3 DEF Bit, p, w
<1> QED
  BY <1>2, <1>3

-----------------------------------------------------------------------------
(* The words of Addressing.tla, of any width.                              *)

\* The addresses are the numbers below a power that all the others of a word divide (uint32).
LEMMA Words ==
  /\ Width \in Nat /\ Top \in Nat /\ Top >= 4
  /\ Addresses = 0..(Top - 1)
  /\ \A k \in 0..Width : Power[k] \in Nat /\ Power[k] > 0 /\ Power[k] <= Top
<1>1. Width \in Nat /\ Width >= 2
  BY WidthAssumption
<1>2. Power[2] = 4
  <2>1. Power[0 + 1] = 2 * Power[0] /\ Power[1 + 1] = 2 * Power[1]
    BY Powers
  <2> QED
    BY <2>1, Powers
<1>3. Top \in Nat /\ Top >= 4
  <2>1. Power[2] <= Power[Width] /\ Power[Width] \in Nat
    BY <1>1, Multiple, Positive
  <2> QED
    BY <1>2, <2>1 DEF Top
<1>4. \A k \in 0..Width : Power[k] \in Nat /\ Power[k] > 0 /\ Power[k] <= Top
  <2> TAKE k \in 0..Width
  <2>1. k \in Nat /\ k <= Width
    BY <1>1
  <2>2. Power[k] <= Power[Width]
    BY <1>1, <2>1, Multiple
  <2> QED
    BY <2>1, <2>2, Positive DEF Top
<1> QED
  BY <1>1, <1>3, <1>4 DEF Addresses

\* The bits of an address are at the places of a word (uint32).
LEMMA BitsOf ==
  ASSUME NEW a \in Addresses
  PROVE  Bits[a] \subseteq 0..(Width - 1) /\ \A i \in 0..(Width - 1) : i \in Bits[a] <=> Bit(a, i)
BY DEF Bits, Bit

\* A word is known by its bits (uint32).
LEMMA WordOf ==
  ASSUME NEW a \in Addresses, NEW bits, \A i \in 0..(Width - 1) : i \in bits <=> Bit(a, i), bits \subseteq 0..(Width - 1)
  PROVE  Word[bits] = a
<1>1. Bits[a] = bits
  BY DEF Bits, Bit
<1>2. ASSUME NEW b \in Addresses, Bits[b] = bits PROVE b = a
  <2>1. \A i \in 0..(Width - 1) : Bit(a, i) <=> Bit(b, i)
    BY <1>2 DEF Bits, Bit
  <2>2. a \in Nat /\ b \in Nat /\ Width \in Nat
    BY Words
  <2>3. a % Top = b % Top
    BY <2>1, <2>2, SameBits DEF Top
  <2>4. \A c \in Addresses : c % Top = c
    <3> TAKE c \in Addresses
    <3>1. Top \in Nat /\ c \in 0..(Top - 1) /\ 0 * Top + c = c
      BY Words
    <3> QED
      BY <3>1, Divided
  <2> QED
    BY <2>3, <2>4
<1> QED
  BY <1>1, <1>2 DEF Word

\* The complement has the other bits (^mask).
LEMMA InvertedBits ==
  ASSUME NEW a \in Addresses, NEW i \in 0..(Width - 1)
  PROVE  /\ Inverted(a) \in Addresses
         /\ Bit(Inverted(a), i) <=> ~Bit(a, i)
<1>1. Width \in Nat /\ Top \in Nat /\ a \in 0..(Top - 1) /\ i \in Nat /\ i < Width
  BY Words
<1>2. Inverted(a) \in Addresses
  BY <1>1 DEF Inverted, Addresses
<1> DEFINE p == Power[i]
           s == a \div p
           u == a % p
<1>3. p \in Nat /\ p > 0
  BY <1>1, Positive
<1>4. PICK m \in Nat : m > 0 /\ Top = (2 * m) * p
  BY <1>1, EvenMultiple DEF Top
<1> HIDE DEF p
<1>5. s \in Nat /\ u \in 0..(p - 1) /\ a = s * p + u
  BY <1>1, <1>3, Division
<1> HIDE DEF s, u
<1>6. s < 2 * m
  <2> SUFFICES ASSUME s >= 2 * m PROVE FALSE
    BY <1>4, <1>5
  <2>1. PICK d \in Nat : s = 2 * m + d
    BY <1>4, <1>5
  <2>2. s * p = (2 * m) * p + d * p /\ d * p \in Nat /\ (2 * m) * p \in Nat
    BY <1>3, <1>4, <2>1
  <2> QED
    BY <1>1, <1>4, <1>5, <2>2
<1> DEFINE r == 2 * m - 1 - s
           v == p - 1 - u
<1>7. r \in Nat /\ v \in 0..(p - 1)
  BY <1>3, <1>4, <1>5, <1>6
<1>8. Inverted(a) = r * p + v
  BY <1>3, <1>4, <1>5 DEF Inverted
<1>9. (r % 2 = 1) <=> ~(s % 2 = 1)
  BY <1>4, <1>5, <1>6
<1> HIDE DEF r, v
<1>10. (r * p + v) \div p = r
  BY <1>3, <1>7, Divided
<1> QED
  BY <1>2, <1>8, <1>9, <1>10 DEF Bit, p, s

\* A subnet mask: ones, and then k zeros.
MaskOf(k) == Top - Power[k]

\* A subnet mask is an address, its complement is the greatest number of a host, and its ones
\* are those above its hosts (ip4ToUint32 of a mask).
LEMMA Masks ==
  ASSUME NEW k \in 0..Width
  PROVE  /\ MaskOf(k) \in Addresses /\ Inverted(MaskOf(k)) = Power[k] - 1 /\ Size(MaskOf(k)) = Power[k]
         /\ \A i \in 0..(Width - 1) : Bit(MaskOf(k), i) <=> i >= k
<1>1. k \in Nat /\ Width \in Nat /\ Top \in Nat /\ Power[k] \in Nat /\ Power[k] > 0 /\ Power[k] <= Top
  BY Words
<1>2. Power[k] - 1 \in Addresses
  BY <1>1 DEF Addresses
<1>3. Inverted(Power[k] - 1) = MaskOf(k) /\ Inverted(MaskOf(k)) = Power[k] - 1 /\ Size(MaskOf(k)) = Power[k]
  BY <1>1 DEF Inverted, MaskOf, Size
<1>4. MaskOf(k) \in Addresses
  BY <1>1 DEF MaskOf, Addresses
<1>5. ASSUME NEW i \in 0..(Width - 1) PROVE Bit(MaskOf(k), i) <=> i >= k
  <2>1. Bit(MaskOf(k), i) <=> ~Bit(Power[k] - 1, i)
    BY <1>2, <1>3, InvertedBits
  <2>2. i \in Nat /\ (Bit(Power[k] - 1, i) <=> i < k)
    BY <1>1, AllBits
  <2> QED
    BY <1>1, <2>1, <2>2
<1> QED
  BY <1>3, <1>4, <1>5

\* What a subnet mask leaves of an address, and what its complement fills in (networkAddr,
\* broadcastAddr).
LEMMA Cleared ==
  ASSUME NEW a \in Addresses, NEW k \in 0..Width
  PROVE  /\ networkAddr(a, MaskOf(k)) = a - (a % Power[k])
         /\ broadcastAddr(a, MaskOf(k)) = a - (a % Power[k]) + (Power[k] - 1)
         /\ a - (a % Power[k]) \in Addresses
         /\ a - (a % Power[k]) + (Power[k] - 1) \in Addresses
<1> DEFINE p == Power[k]
           q == a \div p
           u == a % p
<1>1. /\ k \in Nat /\ Width \in Nat /\ Top \in Nat /\ p \in Nat /\ p > 0 /\ p <= Top
      /\ a \in 0..(Top - 1) /\ k <= Width
  BY Words
<1>2. PICK m \in Nat : m > 0 /\ Top = m * p
  BY <1>1, Multiple DEF Top
<1> HIDE DEF p
<1>3. q \in Nat /\ u \in 0..(p - 1) /\ a = q * p + u
  BY <1>1, Division
<1> HIDE DEF q, u
<1>4. q * p + (p - 1) < Top /\ q * p \in Nat
  <2>1. q < m
    <3> SUFFICES ASSUME q >= m PROVE FALSE
      BY <1>2, <1>3
    <3>1. PICK d \in Nat : q = m + d
      BY <1>2, <1>3
    <3>2. q * p = m * p + d * p /\ d * p \in Nat /\ m * p \in Nat
      BY <1>1, <1>2, <3>1
    <3> QED
      BY <1>1, <1>2, <1>3, <3>2
  <2>2. PICK d \in Nat : m = q + 1 + d
    BY <1>2, <1>3, <2>1
  <2>3. m * p = q * p + p + d * p /\ d * p \in Nat /\ q * p \in Nat
    BY <1>1, <1>3, <2>2
  <2> QED
    BY <1>1, <1>2, <2>3
<1>5. q * p = a - u /\ q * p \in Addresses /\ q * p + (p - 1) \in Addresses
  BY <1>1, <1>3, <1>4 DEF Addresses
<1>6. ASSUME NEW i \in 0..(Width - 1)
      PROVE  /\ Bit(q * p, i) <=> Bit(a, i) /\ i >= k
             /\ Bit(q * p + (p - 1), i) <=> Bit(a, i) \/ i < k
  <2>1. i \in Nat
    BY <1>1
  <2>2. CASE i >= k
    <3>1. 0 \in 0..(p - 1) /\ p - 1 \in 0..(p - 1) /\ q * p + 0 = q * p
      BY <1>1, <1>4
    <3>2. /\ Bit(q * p + 0, i) <=> Bit(q * p + u, i)
          /\ Bit(q * p + (p - 1), i) <=> Bit(q * p + u, i)
      BY <1>1, <1>3, <2>1, <2>2, <3>1, HighBits DEF p
    <3> QED
      BY <1>1, <1>3, <2>1, <2>2, <3>1, <3>2
  <2>3. CASE i < k
    <3>1. 0 \in Nat /\ p - 1 \in Nat /\ q * p + 0 = q * p
      BY <1>1, <1>4
    <3>2. (Bit(q * p + 0, i) <=> Bit(0, i)) /\ (Bit(q * p + (p - 1), i) <=> Bit(p - 1, i))
      BY <1>1, <1>3, <2>1, <2>3, <3>1, LowBits DEF p
    <3>3. ~Bit(0, i) /\ Bit(p - 1, i)
      BY <1>1, <2>1, <2>3, NoBits, AllBits DEF p
    <3> QED
      BY <1>1, <2>1, <2>3, <3>1, <3>2, <3>3
  <2> QED
    BY <1>1, <2>1, <2>2, <2>3
<1>7. /\ MaskOf(k) \in Addresses /\ Inverted(MaskOf(k)) = p - 1
      /\ \A i \in 0..(Width - 1) : Bit(MaskOf(k), i) <=> i >= k
  BY Masks DEF p
<1>8. ASSUME NEW i \in 0..(Width - 1) PROVE Bit(p - 1, i) <=> i < k
  BY <1>1, AllBits DEF p
<1>9. p - 1 \in Addresses
  BY <1>1 DEF Addresses
<1>10. Word[Bits[a] \cap Bits[MaskOf(k)]] = q * p
  <2> DEFINE bits == Bits[a] \cap Bits[MaskOf(k)]
  <2>1. bits \subseteq 0..(Width - 1)
    BY BitsOf
  <2>2. ASSUME NEW i \in 0..(Width - 1) PROVE i \in bits <=> Bit(q * p, i)
    <3>1. (i \in Bits[a] <=> Bit(a, i)) /\ (i \in Bits[MaskOf(k)] <=> Bit(MaskOf(k), i))
      BY <1>7, BitsOf
    <3> QED
      BY <1>6, <1>7, <3>1
  <2> HIDE DEF bits
  <2>3. Word[bits] = q * p
    BY <1>5, <2>1, <2>2, WordOf
  <2> QED
    BY <2>3 DEF bits
<1>11. Word[Bits[a] \cup Bits[p - 1]] = q * p + (p - 1)
  <2> DEFINE bits == Bits[a] \cup Bits[p - 1]
  <2>1. bits \subseteq 0..(Width - 1)
    BY <1>9, BitsOf
  <2>2. ASSUME NEW i \in 0..(Width - 1) PROVE i \in bits <=> Bit(q * p + (p - 1), i)
    <3>1. (i \in Bits[a] <=> Bit(a, i)) /\ (i \in Bits[p - 1] <=> Bit(p - 1, i))
      BY <1>9, BitsOf
    <3> QED
      BY <1>6, <1>8, <3>1
  <2> HIDE DEF bits
  <2>3. Word[bits] = q * p + (p - 1)
    BY <1>5, <2>1, <2>2, WordOf
  <2> QED
    BY <2>3 DEF bits
<1>12. networkAddr(a, MaskOf(k)) = q * p
  BY <1>10 DEF networkAddr
<1>13. broadcastAddr(a, MaskOf(k)) = q * p + (p - 1)
  BY <1>7, <1>11 DEF broadcastAddr
<1> QED
  BY <1>5, <1>12, <1>13 DEF p, u

\* A number that shares no bit with its successor is one less than a power (isContiguousMask).
LEMMA NoCarryNoGap ==
  \A n \in Nat : \A h \in 0..(Power[n] - 1) :
    (\A i \in 0..(n - 1) : ~(Bit(h, i) /\ Bit(h + 1, i))) => \E k \in 0..n : h + 1 = Power[k]
<1> DEFINE Gapless(n, h) == \A i \in 0..(n - 1) : ~(Bit(h, i) /\ Bit(h + 1, i))
           S == {n \in Nat : \A h \in 0..(Power[n] - 1) : Gapless(n, h) => \E k \in 0..n : h + 1 = Power[k]}
<1>1. 0 \in S
  BY Powers
<1>2. ASSUME NEW n \in Nat, n \in S PROVE n + 1 \in S
  <2> SUFFICES ASSUME NEW h \in 0..(Power[n + 1] - 1), Gapless(n + 1, h) PROVE \E k \in 0..(n + 1) : h + 1 = Power[k]
    OBVIOUS
  <2> DEFINE p == Power[n]
  <2>1. p \in Nat /\ p > 0 /\ Power[n + 1] = 2 * p
    BY Positive, Powers
  <2>2. Gapless(n, h) /\ ~(Bit(h, n) /\ Bit(h + 1, n))
    OBVIOUS
  <2>3. CASE h < p
    <3>1. h \in 0..(Power[n] - 1)
      BY <2>1, <2>3
    <3>2. PICK k \in 0..n : h + 1 = Power[k]
      BY <1>2, <2>2, <3>1
    <3> QED
      BY <3>2
  <2>4. CASE h >= p
    <3> HIDE DEF p
    <3>1. ASSUME NEW x \in Nat, x >= p, x < 2 * p PROVE x \div p = 1
      <4>1. x - p \in 0..(p - 1) /\ x = 1 * p + (x - p)
        BY <2>1, <3>1
      <4> DEFINE v == x - p
      <4> HIDE DEF v
      <4>2. (1 * p + v) \div p = 1
        BY <2>1, <4>1, Divided DEF v
      <4> QED
        BY <4>1, <4>2 DEF v
    <3>2. h \in Nat /\ h < 2 * p
      BY <2>1
    <3>3. Bit(h, n)
      BY <2>4, <3>1, <3>2 DEF Bit, p
    <3>4. ~(h + 1 < 2 * p)
      <4> SUFFICES ASSUME h + 1 < 2 * p PROVE FALSE
        OBVIOUS
      <4>1. h + 1 \in Nat /\ h + 1 >= p
        BY <2>1, <2>4, <3>2
      <4>2. Bit(h + 1, n)
        BY <3>1, <4>1 DEF Bit, p
      <4> QED
        BY <2>2, <3>3, <4>2
    <3>5. h + 1 = Power[n + 1]
      BY <2>1, <3>2, <3>4
    <3> QED
      BY <3>5
  <2> QED
    BY <2>1, <2>3, <2>4
<1> HIDE DEF S
<1>3. \A n \in Nat : n \in S
  BY <1>1, <1>2, Induction
<1> QED
  BY <1>3 DEF S

\* In words of any width, the test for a contiguous mask lets through the masks that are ones
\* and then zeros, and no other (isContiguousMask).
THEOREM ContiguousMasks ==
  ASSUME NEW mask \in Addresses
  PROVE  isContiguousMask(mask) <=> \E k \in 0..(Width - 1) : mask = MaskOf(k)
<1> DEFINE h == Inverted(mask)
<1>1. Top \in Nat /\ Top >= 4 /\ Width \in Nat /\ mask \in 0..(Top - 1) /\ Top = Power[Width]
  BY Words DEF Top
<1>2. h \in 0..(Top - 1) /\ h + 1 = Top - mask /\ (mask # 0 <=> h + 1 < Top)
  BY <1>1 DEF Inverted
<1>3. ASSUME mask # 0 PROVE (h + 1) % Top = h + 1
  <2>1. h + 1 \in 0..(Top - 1) /\ 0 * Top + (h + 1) = h + 1
    BY <1>1, <1>2, <1>3
  <2> DEFINE g == h + 1
  <2> HIDE DEF g
  <2>2. (0 * Top + g) % Top = g
    BY <1>1, <2>1, Divided DEF g
  <2> QED
    BY <2>1, <2>2 DEF g
<1>4. h \in Addresses
  BY <1>2 DEF Addresses
<1> HIDE DEF h
<1>5. ASSUME isContiguousMask(mask) PROVE \E k \in 0..(Width - 1) : mask = MaskOf(k)
  <2>1. mask # 0 /\ Bits[h] \cap Bits[h + 1] = {}
    BY <1>3, <1>5 DEF isContiguousMask, h
  <2>2. \A i \in 0..(Width - 1) : ~(Bit(h, i) /\ Bit(h + 1, i))
    <3>1. h + 1 \in Addresses
      BY <1>1, <1>2, <2>1 DEF Addresses
    <3> QED
      BY <1>4, <2>1, <3>1, BitsOf
  <2>3. PICK k \in 0..Width : h + 1 = Power[k]
    BY <1>1, <1>2, <2>2, NoCarryNoGap
  <2>4. k # Width
    BY <1>1, <1>2, <2>1, <2>3
  <2>5. mask = MaskOf(k)
    BY <1>1, <1>2, <2>3 DEF MaskOf
  <2> QED
    BY <1>1, <2>4, <2>5
<1>6. ASSUME NEW k \in 0..(Width - 1), mask = MaskOf(k) PROVE isContiguousMask(mask)
  <2>1. k \in 0..Width /\ k \in Nat /\ k < Width
    BY <1>1
  <2>2. Power[k] \in Nat /\ Power[k] > 0 /\ h + 1 = Power[k]
    BY <1>1, <1>2, <1>6, <2>1, Words DEF MaskOf
  <2>3. mask # 0
    <3>1. PICK m \in Nat : m > 0 /\ Top = (2 * m) * Power[k]
      BY <1>1, <2>1, EvenMultiple
    <3>2. (2 * m) * Power[k] = 2 * (m * Power[k]) /\ m * Power[k] = Power[k] + (m - 1) * Power[k] /\ (m - 1) * Power[k] \in Nat
      BY <2>2, <3>1
    <3>3. Power[k] < Top
      BY <2>2, <3>1, <3>2
    <3> QED
      BY <1>1, <1>6, <2>2, <3>3 DEF MaskOf
  <2>4. ASSUME NEW i \in 0..(Width - 1) PROVE ~(Bit(h, i) /\ Bit(h + 1, i))
    <3>1. i \in Nat /\ h = Power[k] - 1
      BY <1>1, <1>2, <2>2
    <3>2. Bit(h, i) <=> i < k
      BY <2>1, <3>1, AllBits
    <3>3. ASSUME i < k PROVE ~Bit(h + 1, i)
      <4>1. Bit(1 * Power[k] + 0, i) <=> Bit(0, i)
        BY <2>1, <3>1, <3>3, LowBits
      <4>2. 1 * Power[k] + 0 = h + 1
        BY <2>2
      <4> QED
        BY <3>1, <4>1, <4>2, NoBits
    <3> QED
      BY <3>2, <3>3
  <2>5. Bits[h] \cap Bits[h + 1] = {}
    <3>1. h + 1 \in Addresses
      BY <1>1, <1>2, <2>3 DEF Addresses
    <3> QED
      BY <1>4, <2>4, <3>1, BitsOf
  <2> QED
    BY <1>3, <2>3, <2>5 DEF isContiguousMask, h
<1> QED
  BY <1>5, <1>6

\* The network address of the block of 2^k addresses that an address is in.
Base(a, k) == a - (a % Power[k])

\* The addresses of a block are those that have its network address (networkAddr).
LEMMA Blocks ==
  ASSUME NEW a \in Addresses, NEW k \in 0..Width
  PROVE  /\ Base(a, k) \in Nat /\ Base(a, k) + (Power[k] - 1) < Top /\ Power[k] \in Nat /\ Power[k] > 0 /\ Top \in Nat
         /\ a \in Nat /\ Base(a, k) <= a /\ a <= Base(a, k) + (Power[k] - 1)
         /\ \A x \in Nat : Base(a, k) <= x /\ x <= Base(a, k) + (Power[k] - 1) => x \in Addresses /\ Base(x, k) = Base(a, k)
<1> DEFINE p == Power[k]
           q == a \div p
           u == a % p
           base == a - u
<1>1. Top \in Nat /\ p \in Nat /\ p > 0 /\ a \in 0..(Top - 1) /\ Addresses = 0..(Top - 1)
  BY Words
<1>2. base \in Addresses /\ base + (p - 1) \in Addresses
  BY Cleared
<1> HIDE DEF p
<1>3. q \in Nat /\ u \in 0..(p - 1) /\ a = q * p + u
  BY <1>1, Division
<1> HIDE DEF q, u
<1>4. base = q * p
  BY <1>1, <1>3
<1>5. ASSUME NEW x \in Nat, base <= x, x <= base + (p - 1) PROVE x \in Addresses /\ x - (x % p) = base
  <2> DEFINE v == x - base
  <2>1. v \in 0..(p - 1) /\ x = q * p + v
    BY <1>1, <1>2, <1>4, <1>5
  <2>2. x \in Addresses
    BY <1>1, <1>2, <1>5
  <2> HIDE DEF v
  <2>3. (q * p + v) % p = v
    BY <1>1, <1>3, <2>1, Divided
  <2>4. x - (x % p) = x - v
    BY <2>1, <2>3
  <2> QED
    BY <1>1, <1>2, <2>2, <2>4 DEF v
<1>6. base \in Nat /\ base + (p - 1) < Top /\ a \in Nat /\ base <= a /\ a <= base + (p - 1)
  BY <1>1, <1>2, <1>3
<1>7. Base(a, k) = base /\ \A x : Base(x, k) = x - (x % p)
  BY DEF Base, p, u
<1> HIDE DEF base
<1> QED
  BY <1>1, <1>5, <1>6, <1>7 DEF p

\* A subnet that the DHCP server takes is the block of some address (Leasable).
LEMMA SubnetShape ==
  ASSUME NEW net, NEW scope, Leasable(net, scope)
  PROVE  \E k \in 2..(Width - 1), a \in Addresses :
           /\ scope.mask = MaskOf(k) /\ net = Base(a, k) /\ Size(scope.mask) = Power[k] /\ k \in 0..Width
<1>1. PICK a \in Addresses, k \in 2..(Width - 1) :
        [net |-> net, mask |-> scope.mask] = [net |-> a - (a % Power[k]), mask |-> Top - Power[k]]
  BY DEF Leasable, Subnets
<1>2. net = Base(a, k) /\ scope.mask = MaskOf(k)
  BY <1>1 DEF Base, MaskOf
<1>3. k \in 0..Width
  BY Words
<1> QED
  BY <1>2, <1>3, Masks

\* What a subnet of the DHCP server leases is what the code asks of the ends of a range
\* (checkLeasableEnds).
LEMMA EndsOfBlock ==
  ASSUME NEW a \in Addresses, NEW k \in 2..(Width - 1), NEW scope, scope.mask = MaskOf(k),
         scope.lo \in Addresses, scope.hi \in Addresses
  PROVE  Leasable(Base(a, k), scope)
           <=> /\ networkAddr(scope.lo, scope.mask) = Base(a, k) /\ networkAddr(scope.hi, scope.mask) = Base(a, k)
               /\ checkLeasableEnds(scope.lo, scope.hi, scope.mask)
               /\ scope.lo <= scope.hi
<1> DEFINE p == Power[k]
           net == Base(a, k)
           lo == scope.lo
           hi == scope.hi
<1>1. k \in 0..Width /\ Size(scope.mask) = p
  BY Words, Masks
<1>2. /\ net \in Nat /\ net + (p - 1) < Top /\ p \in Nat /\ p > 0 /\ Top \in Nat
      /\ \A x \in Nat : net <= x /\ x <= net + (p - 1) => x \in Addresses /\ Base(x, k) = net
  BY <1>1, Blocks
<1>3. /\ networkAddr(lo, scope.mask) = Base(lo, k) /\ networkAddr(hi, scope.mask) = Base(hi, k)
      /\ broadcastAddr(hi, scope.mask) = Base(hi, k) + (p - 1)
  BY <1>1, Cleared DEF Base
<1>4. /\ lo \in Nat /\ Base(lo, k) \in Nat /\ Base(lo, k) <= lo /\ lo <= Base(lo, k) + (p - 1)
      /\ hi \in Nat /\ Base(hi, k) \in Nat /\ Base(hi, k) <= hi /\ hi <= Base(hi, k) + (p - 1)
  BY <1>1, Blocks
<1>5. [net |-> net, mask |-> scope.mask] \in Subnets
  BY DEF Subnets, MaskOf, Base
<1>6. Leasable(net, scope) <=> net < lo /\ lo <= hi /\ hi < net + p - 1
  BY <1>1, <1>5 DEF Leasable
<1>7. checkLeasableEnds(lo, hi, scope.mask) <=> lo # Base(lo, k) /\ hi # Base(hi, k) + (p - 1)
  BY <1>3 DEF checkLeasableEnds
<1> HIDE DEF p, net, lo, hi
<1>8. ASSUME net < lo, lo <= hi, hi < net + p - 1
      PROVE  Base(lo, k) = net /\ Base(hi, k) = net /\ lo # net /\ hi # net + (p - 1)
  BY <1>2, <1>4, <1>8
<1>9. ASSUME Base(lo, k) = net, Base(hi, k) = net, lo # net, hi # net + (p - 1), lo <= hi
      PROVE  net < lo /\ hi < net + p - 1
  BY <1>2, <1>4, <1>9
<1>10. Leasable(net, scope) <=> /\ Base(lo, k) = net /\ Base(hi, k) = net
                                /\ lo # Base(lo, k) /\ hi # Base(hi, k) + (p - 1) /\ lo <= hi
  BY <1>6, <1>8, <1>9
<1> QED
  BY <1>3, <1>7, <1>10 DEF net, lo, hi

\* In words of any width, a create is let through exactly when Windows has a subnet and a range
\* for it, and the scopeId computed for it is the one Windows derives (validateAddressing,
\* ScopeInput.ScopeID).
THEOREM CreateJudged ==
  ASSUME NEW in, in.lo \in Addresses \cup {NotAnAddress}, in.hi \in Addresses \cup {NotAnAddress}, in.mask \in Addresses
  PROVE  /\ validateAddressing(in) <=> Leasable(SubnetOf(in.lo, in.mask), in)
         /\ validateAddressing(in) => ScopeID(in) = SubnetOf(in.lo, in.mask)
<1> DEFINE net == SubnetOf(in.lo, in.mask)
<1>1. Top \in Nat /\ Addresses = 0..(Top - 1) /\ Width \in Nat
  BY Words
<1>2. ASSUME Leasable(net, in) PROVE in.lo \in Addresses /\ in.hi \in Addresses
  <2>1. PICK k \in 2..(Width - 1), a \in Addresses :
          net = Base(a, k) /\ Size(in.mask) = Power[k] /\ k \in 0..Width
    BY <1>2, SubnetShape
  <2>2. net \in Nat /\ net + (Power[k] - 1) < Top /\ Power[k] \in Nat
    BY <2>1, Blocks
  <2>3. net < in.lo /\ in.lo <= in.hi /\ in.hi < net + Power[k] - 1
    BY <1>2, <2>1 DEF Leasable
  <2>4. in.lo \in Nat /\ in.hi \in Nat
    BY <1>1 DEF NotAnAddress
  <2> HIDE DEF net
  <2> QED
    BY <1>1, <2>2, <2>3, <2>4
<1>3. ASSUME in.lo \in Addresses, in.hi \in Addresses,
             NEW k \in 2..(Width - 1), in.mask = MaskOf(k)
      PROVE  /\ validateAddressing(in) <=> Leasable(net, in)
             /\ ScopeID(in) = net
  <2>1. k \in 0..Width /\ k \in 0..(Width - 1)
    BY <1>1
  <2>2. net = Base(in.lo, k) /\ networkAddr(in.lo, in.mask) = Base(in.lo, k)
    BY <1>3, <2>1, Masks, Cleared DEF SubnetOf, Base
  <2>3. isContiguousMask(in.mask)
    BY <1>3, <2>1, ContiguousMasks
  <2>4. hasHostAddresses(in.mask)
    <3>1. Power[2] = 4 /\ Power[2] <= Power[k]
      <4>1. Power[2] = 4
        <5>1. Power[0 + 1] = 2 * Power[0] /\ Power[1 + 1] = 2 * Power[1]
          BY Powers
        <5> QED
          BY <5>1, Powers
      <4>2. 2 \in Nat /\ k \in Nat /\ 2 <= k
        BY <1>1
      <4>3. Power[2] <= Power[k]
        BY <4>2, Multiple
      <4> QED
        BY <4>1, <4>3
    <3>2. Inverted(in.mask) = Power[k] - 1 /\ Power[k] \in Nat
      BY <1>3, <2>1, Masks, Words
    <3> QED
      BY <3>1, <3>2 DEF hasHostAddresses
  <2>5. Leasable(net, in) <=> /\ networkAddr(in.lo, in.mask) = net /\ networkAddr(in.hi, in.mask) = net
                              /\ checkLeasableEnds(in.lo, in.hi, in.mask)
                              /\ in.lo <= in.hi
    BY <1>3, <2>2, EndsOfBlock
  <2> QED
    BY <1>3, <2>2, <2>3, <2>4, <2>5 DEF validateAddressing, ScopeID, parseIPv4
<1>4. ASSUME validateAddressing(in)
      PROVE  in.lo \in Addresses /\ in.hi \in Addresses /\ \E k \in 2..(Width - 1) : in.mask = MaskOf(k)
  <2>1. PICK k \in 0..(Width - 1) : in.mask = MaskOf(k)
    BY <1>4, ContiguousMasks DEF validateAddressing
  <2>2. k \in 0..Width /\ k \in Nat
    BY <1>1
  <2>3. Power[k] - 1 >= 3
    BY <1>4, <2>1, <2>2, Masks DEF validateAddressing, hasHostAddresses
  <2>4. k # 0 /\ k # 1
    <3>1. Power[0] = 1 /\ Power[0 + 1] = 2 * Power[0]
      BY Powers
    <3> QED
      BY <2>3, <3>1
  <2> QED
    BY <1>1, <1>4, <2>1, <2>2, <2>4 DEF validateAddressing, parseIPv4
<1>5. ASSUME Leasable(net, in) PROVE \E k \in 2..(Width - 1) : in.mask = MaskOf(k)
  BY <1>5, SubnetShape
<1> QED
  BY <1>2, <1>3, <1>4, <1>5

\* In words of any width, two subnets overlap, by the test of the script, exactly when some
\* address is in both (createScopeScript).
THEOREM OverlapMeets ==
  ASSUME NEW net \in Nat, NEW mask \in Addresses, NEW other \in Nat, NEW otherMask \in Addresses
  PROVE  Overlap(net, mask, other, otherMask) <=> Block(net, mask) \cap Block(other, otherMask) # {}
<1>1. Top \in Nat /\ mask \in 0..(Top - 1) /\ otherMask \in 0..(Top - 1)
  BY Words
<1> DEFINE s == Size(mask)
           t == Size(otherMask)
<1>2. s \in Nat /\ s > 0 /\ t \in Nat /\ t > 0 /\ Inverted(mask) = s - 1 /\ Inverted(otherMask) = t - 1
  BY <1>1 DEF Size, Inverted
<1>3. Overlap(net, mask, other, otherMask) <=> net <= other + (t - 1) /\ other <= net + (s - 1)
  BY <1>2 DEF Overlap
<1>4. Block(net, mask) = net..(net + s - 1) /\ Block(other, otherMask) = other..(other + t - 1)
  BY DEF Block
<1> HIDE DEF s, t
<1>5. ASSUME net <= other + (t - 1), other <= net + (s - 1)
      PROVE  \E x : x \in net..(net + s - 1) /\ x \in other..(other + t - 1)
  <2>1. CASE net <= other
    <3>1. other \in net..(net + s - 1) /\ other \in other..(other + t - 1)
      BY <1>2, <1>5, <2>1
    <3> QED
      BY <3>1
  <2>2. CASE other <= net
    <3>1. net \in net..(net + s - 1) /\ net \in other..(other + t - 1)
      BY <1>2, <1>5, <2>2
    <3> QED
      BY <3>1
  <2> QED
    BY <2>1, <2>2
<1>6. ASSUME NEW x, x \in net..(net + s - 1), x \in other..(other + t - 1)
      PROVE  net <= other + (t - 1) /\ other <= net + (s - 1)
  BY <1>2, <1>6
<1> QED
  BY <1>3, <1>4, <1>5, <1>6

\* What the server keeps: a scope in a subnet it has, with ends that are numbers.
Fit(id, scope) == Leasable(id, scope) /\ scope.lo \in Nat /\ scope.hi \in Nat

\* What the server keeps is made of addresses (parseScopes).
LEMMA FitShape ==
  ASSUME NEW id, NEW scope, Fit(id, scope)
  PROVE  /\ id \in Nat /\ scope.mask \in Addresses /\ scope.lo \in Addresses /\ scope.hi \in Addresses
         /\ \E k \in 2..(Width - 1), a \in Addresses : scope.mask = MaskOf(k) /\ id = Base(a, k)
<1>1. PICK k \in 2..(Width - 1), a \in Addresses :
        scope.mask = MaskOf(k) /\ id = Base(a, k) /\ Size(scope.mask) = Power[k] /\ k \in 0..Width
  BY SubnetShape DEF Fit
<1>2. id \in Nat /\ id + (Power[k] - 1) < Top /\ Power[k] \in Nat /\ Top \in Nat /\ Addresses = 0..(Top - 1)
  BY <1>1, Blocks, Words
<1>3. id < scope.lo /\ scope.lo <= scope.hi /\ scope.hi < id + Power[k] - 1
  BY <1>1 DEF Fit, Leasable
<1>4. scope.lo \in Nat /\ scope.hi \in Nat
  BY DEF Fit
<1>5. scope.lo \in Addresses /\ scope.hi \in Addresses
  BY <1>2, <1>3, <1>4
<1> QED
  BY <1>1, <1>2, <1>5, Masks

\* Only the addressing of a scope decides whether the server takes it (Leasable).
LEMMA SameAddressing ==
  ASSUME NEW id, NEW s, NEW t, s.mask = t.mask, s.lo = t.lo, s.hi = t.hi
  PROVE  Leasable(id, s) <=> Leasable(id, t)
BY DEF Leasable

\* Whatever text was asked for, an end that was let through is an address (validateRange).
LEMMA EndGiven ==
  ASSUME NEW provided \in Given \cup {Omit}, Provided(provided) => parseIPv4(provided), NEW existing \in Addresses
  PROVE  effective(provided, existing) \in Addresses
BY DEF effective, Provided, parseIPv4

\* In words of any width, an update that is let through leaves a scope that Windows leases from,
\* if the scope is still what the update was judged by (validateEffectiveRange, env).
THEOREM UpdateJudged ==
  ASSUME NEW u, u.lo \in Given \cup {Omit}, u.hi \in Given \cup {Omit}, validateRange(u),
         NEW was, Fit(u.id, was), validateEffectiveRange(u, was)
  PROVE  Leasable(u.id, Set(u, was, was))
<1> DEFINE range == env(u, was)
           now == Set(u, was, was)
<1>1. was.lo \in Addresses /\ was.hi \in Addresses
  BY FitShape
<1>2. PICK k \in 2..(Width - 1), a \in Addresses : was.mask = MaskOf(k) /\ u.id = Base(a, k)
  BY FitShape
<1>3. CASE range = <<>>
  <2>1. now.mask = was.mask /\ now.lo = was.lo /\ now.hi = was.hi
    BY <1>3 DEF Set
  <2> HIDE DEF now
  <2>2. Leasable(u.id, was)
    BY DEF Fit
  <2> QED
    BY <2>1, <2>2, SameAddressing DEF now
<1>4. CASE range # <<>>
  <2> DEFINE lo == effective(u.lo, was.lo)
             hi == effective(u.hi, was.hi)
  <2>1. range = <<lo, hi>>
    BY <1>4 DEF env
  <2>2. lo \in Addresses /\ hi \in Addresses
    BY <1>1, EndGiven DEF validateRange
  <2>3. now.mask = was.mask /\ now.lo = lo /\ now.hi = hi
    BY <1>4, <2>1 DEF Set
  <2>4. /\ networkAddr(lo, was.mask) = u.id /\ networkAddr(hi, was.mask) = u.id
        /\ checkLeasableEnds(lo, hi, was.mask) /\ lo <= hi
    <3>1. /\ \A i \in 1 .. 2 : networkAddr(range[i], was.mask) = u.id
          /\ checkLeasableEnds(range[1], range[2], was.mask) /\ range[1] <= range[2]
      BY <1>4 DEF validateEffectiveRange
    <3>2. range[1] = lo /\ range[2] = hi /\ 1 \in 1..2 /\ 2 \in 1..2
      BY <2>1
    <3> QED
      BY <3>1, <3>2
  <2> HIDE DEF lo, hi, now
  <2> QED
    BY <1>2, <2>2, <2>3, <2>4, EndsOfBlock DEF now
<1> QED
  BY <1>3, <1>4

-----------------------------------------------------------------------------
(* The alarms. A request is valid where it is at work, the server keeps    *)
(* only what Windows leases from, and a write that Windows refuses was     *)
(* raced.                                                                  *)

\* A request is carried along as it was asked.
Carries(c, r) ==
  /\ ask[c] = Asked(r)
  /\ at[c] \in Spawned => Validate(r)
  /\ answer[c] = "Invalid" /\ r.op = "create" => ~Validate(r)

\* Where a request came from: none did, or a caller asked for it.
Known(c) == (ask[c] = Idle /\ at[c] = "idle" /\ answer[c] = "none") \/ \E r \in Asks : Carries(c, r)

\* What is remembered of a request is what was asked, and of a create that is let through
\* the scopeId computed for it (CreateScope).
LEMMA AskedShape ==
  ASSUME NEW r \in Asks
  PROVE  /\ Asked(r).op = r.op /\ r.op \in {"list", "get", "delete", "create", "update"}
         /\ r.op # "create" => Asked(r) = r
         /\ r.op = "create" =>
              /\ r.mask \in Given /\ r.lo \in Given /\ r.hi \in Given
              /\ Asked(r).name = r.name /\ Asked(r).mask = r.mask /\ Asked(r).lo = r.lo /\ Asked(r).hi = r.hi
              /\ Validate(r) => Asked(r).id = ScopeID(r)
         /\ r.op = "update" => r.lo \in Given \cup {Omit} /\ r.hi \in Given \cup {Omit}
<1>1. r \in Requests
  BY ScopeClientAssumption
<1>2. CASE r \in [op : {"create"}, name : Names \cup {Omit, Unfit}, mask : Given, lo : Given, hi : Given]
  <2>1. /\ r.op = "create" /\ DOMAIN r = {"op", "name", "mask", "lo", "hi"}
        /\ r.mask \in Given /\ r.lo \in Given /\ r.hi \in Given
    BY <1>2
  <2>2. Asked(r) = With(r, "id", IF Validate(r) THEN ScopeID(r) ELSE 0)
    BY <2>1 DEF Asked
  <2> DEFINE v == IF Validate(r) THEN ScopeID(r) ELSE 0
  <2>3. v = IF Validate(r) THEN ScopeID(r) ELSE 0
    OBVIOUS
  <2> HIDE DEF v
  <2>4. Asked(r) = [k \in DOMAIN r \cup {"id"} |-> IF k = "id" THEN v ELSE r[k]]
    BY <2>2 DEF With, v
  <2>5. /\ Asked(r).op = r.op /\ Asked(r).name = r.name /\ Asked(r).mask = r.mask
        /\ Asked(r).lo = r.lo /\ Asked(r).hi = r.hi /\ Asked(r).id = v
    BY <2>1, <2>4
  <2> QED
    BY <2>1, <2>3, <2>5
<1>3. CASE r \in [op : {"update"}, id : Addresses, name : Names \cup {Omit, Unfit},
                 lo : Given \cup {Omit}, hi : Given \cup {Omit}]
  BY <1>3 DEF Asked
<1>4. CASE r \in [op : {"list", "get", "delete"}, id : Addresses]
  BY <1>4 DEF Asked
<1> QED
  BY <1>1, <1>2, <1>3, <1>4 DEF Requests

\* What a create at work asks for is what Windows takes, under the scopeId it was told
\* (CreateScope).
LEMMA CreateAtWork ==
  ASSUME NEW c, Known(c), at[c] \in Spawned, ask[c].op = "create"
  PROVE  LET r == ask[c] IN
         /\ r.mask \in Addresses /\ r.lo \in Nat /\ r.hi \in Nat
         /\ r.id = SubnetOf(r.lo, r.mask)
         /\ Leasable(r.id, Asking(r)) /\ Fit(r.id, Asking(r))
<1>1. ask[c] # Idle
  BY DEF Idle
<1>2. PICK q \in Asks : Carries(c, q)
  BY <1>1 DEF Known
<1>3. ask[c] = Asked(q) /\ Validate(q) /\ q.op = "create"
  BY <1>2, AskedShape DEF Carries
<1>4. validateAddressing(q)
  BY <1>3 DEF Validate
<1>5. /\ q.mask \in Addresses /\ q.lo \in Given /\ q.hi \in Given
      /\ ask[c].mask = q.mask /\ ask[c].lo = q.lo /\ ask[c].hi = q.hi /\ ask[c].id = ScopeID(q)
  BY <1>3, <1>4, AskedShape DEF validateAddressing, parseIPv4
<1>6. Leasable(SubnetOf(q.lo, q.mask), q) /\ ScopeID(q) = SubnetOf(q.lo, q.mask)
  BY <1>4, <1>5, CreateJudged DEF Given
<1>7. q.lo \in Nat /\ q.hi \in Nat
  BY <1>5, Words DEF Given, NotAnAddress
<1> DEFINE r == ask[c]
           new == Asking(r)
<1>8. new.mask = q.mask /\ new.lo = q.lo /\ new.hi = q.hi
  BY <1>5 DEF Asking
<1> HIDE DEF new
<1>9. Leasable(r.id, new) /\ Fit(r.id, new)
  BY <1>5, <1>6, <1>7, <1>8, SameAddressing DEF Fit
<1> QED
  BY <1>5, <1>6, <1>7, <1>9 DEF new

\* An alarm has its reason.
Deserved(c) == alarms[c] > 0 => faulted[c] \/ raced[c]

\* A write that is under way was resolved against its listing, and judged by it.
Resolved(c) ==
  at[c] = "writing" /\ ask[c].op # "create" =>
    /\ ask[c].op \in {"delete", "update"} /\ ask[c].id \in DOMAIN saw[c]
    /\ ask[c].op = "update" => validateEffectiveRange(ask[c], saw[c][ask[c].id])

\* What a listing showed are scopes, with ends that are numbers.
Legible(c) ==
  at[c] \in {"looked", "writing"} /\ ask[c].op # "create" =>
    \A s \in DOMAIN saw[c] : saw[c][s].lo \in Nat /\ saw[c][s].hi \in Nat

\* A create that passed its overlap check has its subnet for itself, unless someone raced it.
Free(c) ==
  at[c] = "checked" /\ ~raced[c] => Clashing(ask[c].id, ask[c].mask) = {}

\* A create that was done decodes to the scope that was asked for.
Made(c) == at[c] = "wrote" /\ ask[c].op = "create" => ask[c].id \in DOMAIN saw[c]

\* What is so of each call.
Blameless(c) == Known(c) /\ Deserved(c) /\ Resolved(c) /\ Legible(c) /\ Free(c) /\ Made(c)

\* And of the server, whoever writes to it.
ServerFit == \A s \in DOMAIN server : Fit(s, server[s])

\* The inductive invariant, relative to IInv and Eyes.
AlarmInv == faulted \in [Calls -> BOOLEAN] /\ ServerFit /\ \A c \in Calls : Blameless(c)

\* A step of one call leaves the others blameless.
Others(c) ==
  \A d \in Calls \ {c} :
    /\ at'[d] = at[d] /\ ask'[d] = ask[d] /\ saw'[d] = saw[d] /\ answer'[d] = answer[d]
    /\ alarms'[d] = alarms[d] /\ faulted'[d] = faulted[d] /\ (raced[d] => raced'[d])

\* A step that is right about its own call, and leaves the others their subnets, is right
\* about all (the handlers share nothing but the ledger and the server).
LEMMA OwnBlameOnly ==
  ASSUME AlarmInv, NEW c, faulted' \in [Calls -> BOOLEAN], ServerFit', Others(c),
         c \in Calls => Blameless(c)',
         \A d \in Calls \ {c} : Free(d)'
  PROVE  AlarmInv'
<1>1. ASSUME NEW d \in Calls \ {c} PROVE Blameless(d)'
  <2>1. /\ at'[d] = at[d] /\ ask'[d] = ask[d] /\ saw'[d] = saw[d] /\ answer'[d] = answer[d]
        /\ alarms'[d] = alarms[d] /\ faulted'[d] = faulted[d] /\ (raced[d] => raced'[d])
    BY <1>1 DEF Others
  <2>2. Blameless(d)
    BY <1>1 DEF AlarmInv
  <2>3. Known(d)'
    BY <2>1, <2>2 DEF Blameless, Known, Carries
  <2>4. Deserved(d)' /\ Resolved(d)' /\ Legible(d)' /\ Made(d)'
    BY <2>1, <2>2 DEF Blameless, Deserved, Resolved, Legible, Made
  <2>5. Free(d)'
    BY <1>1
  <2> QED
    BY <2>3, <2>4, <2>5 DEF Blameless
<1> QED
  BY <1>1 DEF AlarmInv

\* Where the server stays, what was free is free (createScopeScript).
LEMMA StillFree ==
  ASSUME NEW d, Free(d), at'[d] = at[d], ask'[d] = ask[d], raced'[d] = raced[d], UNCHANGED server
  PROVE  Free(d)'
BY DEF Free, Clashing

\* Where it changes at one scope, a call whose space that takes was raced (createScopeScript).
LEMMA FreeOrRaced ==
  ASSUME NEW d \in Calls, Free(d), at'[d] = at[d], ask'[d] = ask[d], at[d] = "checked" => ask[d].op = "create",
         NEW id, NEW others, d \in others, Disturb(id, others),
         (\E x : server' = With(server, id, x)) \/ server' = Without(server, id)
  PROVE  Free(d)' /\ (raced[d] => raced'[d])
<1>1. raced'[d] <=> \/ raced[d]
                    \/ /\ at[d] \in {"looked", "writing", "checked"}
                       /\ \/ ask[d].id = id
                          \/ /\ ask[d].op = "create"
                             /\ \E s \in {server, server'} :
                                  id \in DOMAIN s /\ Block(ask[d].id, ask[d].mask) \cap Block(id, s[id].mask) # {}
  BY DEF Disturb
<1> SUFFICES ASSUME at[d] = "checked", ~raced'[d] PROVE Clashing(ask[d].id, ask[d].mask)' = {}
  BY <1>1 DEF Free
<1>2. /\ ~raced[d] /\ ask[d].op = "create"
      /\ id \in DOMAIN server' => Block(ask[d].id, ask[d].mask) \cap Block(id, server'[id].mask) = {}
  BY <1>1
<1>3. \A s \in DOMAIN server : Block(ask[d].id, ask[d].mask) \cap Block(s, server[s].mask) = {}
  BY <1>2 DEF Free, Clashing
<1>4. ASSUME NEW s \in DOMAIN server' PROVE Block(ask[d].id, ask[d].mask) \cap Block(s, server'[s].mask) = {}
  <2>1. CASE s = id
    BY <1>2, <1>4, <2>1
  <2>2. CASE s # id
    <3>1. s \in DOMAIN server /\ server'[s] = server[s]
      BY <1>4, <2>2, WithOthers, WithoutOthers
    <3> QED
      BY <1>3, <3>1
  <2> QED
    BY <2>1, <2>2
<1>5. Clashing(ask[d].id, ask[d].mask)' =
        {s \in DOMAIN server' : Block(ask[d].id, ask[d].mask) \cap Block(s, server'[s].mask) # {}}
  BY DEF Clashing
<1> QED
  BY <1>4, <1>5

\* What is put on the server is fit, and the rest stays (the three writes).
LEMMA ServerStaysFit ==
  ASSUME ServerFit, NEW id, (\E x : server' = With(server, id, x) /\ Fit(id, x)) \/ server' = Without(server, id)
  PROVE  ServerFit'
<1>1. ASSUME NEW x, server' = With(server, id, x), Fit(id, x) PROVE ServerFit'
  <2>1. ASSUME NEW s \in DOMAIN server' PROVE Fit(s, server'[s])
    <3>1. CASE s = id
      <4>1. server'[id] = x
        BY <1>1, <2>1, <3>1 DEF With
      <4> QED
        BY <1>1, <3>1, <4>1
    <3>2. CASE s # id
      BY <1>1, <2>1, <3>2, WithOthers DEF ServerFit
    <3> QED
      BY <3>1, <3>2
  <2> QED
    BY <2>1 DEF ServerFit, Fit, Leasable
<1>2. ASSUME server' = Without(server, id) PROVE ServerFit'
  BY <1>2 DEF ServerFit, Without, Fit, Leasable
<1> QED
  BY <1>1, <1>2

\* A call that has its answer: an alarm has to have its reason (backendError).
LEMMA AnsweredBlameless ==
  ASSUME IInv, Eyes, AlarmInv, NEW c \in Calls, NEW status, Respond(c, status), UNCHANGED <<server, ask, raced>>,
         at[c] \in Spawned,
         alarms' = [alarms EXCEPT ![c] = alarms'[c]], faulted' = [faulted EXCEPT ![c] = faulted'[c]],
         faulted'[c] \in BOOLEAN,
         alarms'[c] > 0 => faulted'[c] \/ raced[c],
         status = "Invalid" => ask[c].op # "create"
  PROVE  AlarmInv'
<1>1. /\ at' = [at EXCEPT ![c] = "done"] /\ answer' = [answer EXCEPT ![c] = status] /\ saw' = [saw EXCEPT ![c] = Nothing]
  BY DEF Respond
<1>2. /\ DOMAIN at = Calls /\ DOMAIN saw = Calls /\ DOMAIN answer = Calls /\ DOMAIN alarms = Calls
      /\ faulted \in [Calls -> BOOLEAN]
  BY DEF IInv, Typed, Eyes, Shaped, AlarmInv
<1>3. Others(c)
  BY <1>1, <1>2 DEF Others
<1>4. at'[c] = "done" /\ answer'[c] = status /\ ask'[c] = ask[c] /\ raced'[c] = raced[c]
  BY <1>1, <1>2
<1>5. Blameless(c)
  BY DEF AlarmInv
<1>6. Known(c)'
  <2>1. PICK r \in Asks : Carries(c, r)
    BY <1>5 DEF Blameless, Known, Spawned
  <2>2. Carries(c, r)'
    BY <1>4, <2>1, AskedShape DEF Carries, Spawned
  <2> QED
    BY <2>2 DEF Known
<1>7. Blameless(c)'
  BY <1>4, <1>6 DEF Blameless, Deserved, Resolved, Legible, Free, Made
<1>8. faulted' \in [Calls -> BOOLEAN]
  BY <1>2
<1>9. ServerFit'
  BY DEF ServerFit, AlarmInv, Fit, Leasable
<1>10. ASSUME NEW d \in Calls \ {c} PROVE Free(d)'
  BY <1>3, <1>10, StillFree DEF AlarmInv, Blameless, Others
<1> QED
  BY <1>3, <1>7, <1>8, <1>9, <1>10, OwnBlameOnly

\* An answer without an alarm (WriteError).
LEMMA QuietAnswer ==
  ASSUME IInv, Eyes, AlarmInv, NEW c \in Calls, NEW status, Respond(c, status),
         UNCHANGED <<server, ask, raced, alarms, faulted>>,
         at[c] \in Spawned, status = "Invalid" => ask[c].op # "create"
  PROVE  AlarmInv'
<1>1. alarms[c] = 0
  BY DEF IInv, Good, Working
<1>2. alarms' = [alarms EXCEPT ![c] = alarms'[c]] /\ faulted' = [faulted EXCEPT ![c] = faulted'[c]] /\ faulted'[c] \in BOOLEAN
  BY DEF IInv, Typed, AlarmInv
<1> QED
  BY <1>1, <1>2, AnsweredBlameless

\* An alarm whose reason is known (backendError).
LEMMA AlarmAnswer ==
  ASSUME IInv, Eyes, AlarmInv, NEW c \in Calls, NEW status, backendError(c, status), UNCHANGED <<server, ask, raced>>,
         at[c] \in Spawned, status # "Invalid",
         \/ UNCHANGED faulted /\ raced[c]
         \/ faulted' = [faulted EXCEPT ![c] = TRUE]
  PROVE  AlarmInv'
<1>1. /\ alarms' = [alarms EXCEPT ![c] = IF status = "gone" THEN @ ELSE @ + 1] /\ Respond(c, status)
  BY DEF backendError
<1>2. alarms' = [alarms EXCEPT ![c] = alarms'[c]]
  BY <1>1 DEF IInv, Typed
<1>3. /\ faulted' = [faulted EXCEPT ![c] = faulted'[c]] /\ faulted'[c] \in BOOLEAN
      /\ faulted'[c] \/ raced[c]
  BY DEF AlarmInv
<1> QED
  BY <1>1, <1>2, <1>3, AnsweredBlameless

\* A shell that goes on while the server stays (runArgs).
LEMMA LooksBlameless ==
  ASSUME IInv, Eyes, AlarmInv, NEW c \in Calls, NEW place \in Spawned, NEW seen, at[c] \in Spawned,
         at' = [at EXCEPT ![c] = place], saw' = [saw EXCEPT ![c] = seen],
         UNCHANGED <<server, ask, answer, alarms, faulted, raced>>,
         Resolved(c)', Legible(c)', Free(c)', Made(c)'
  PROVE  AlarmInv'
<1>1. DOMAIN at = Calls /\ DOMAIN saw = Calls
  BY DEF IInv, Typed, Eyes, Shaped
<1>2. Others(c)
  BY <1>1 DEF Others
<1>3. Blameless(c)
  BY DEF AlarmInv
<1>4. Known(c)'
  <2>1. PICK r \in Asks : Carries(c, r)
    BY <1>3 DEF Blameless, Known, Spawned
  <2>2. Carries(c, r)'
    BY <1>1, <2>1 DEF Carries
  <2> QED
    BY <2>2 DEF Known
<1>5. Deserved(c)'
  BY <1>3 DEF Blameless, Deserved
<1>6. faulted' \in [Calls -> BOOLEAN] /\ ServerFit'
  BY DEF ServerFit, AlarmInv, Fit, Leasable
<1>7. ASSUME NEW d \in Calls \ {c} PROVE Free(d)'
  BY <1>2, <1>7, StillFree DEF AlarmInv, Blameless, Others
<1> QED
  BY <1>2, <1>4, <1>5, <1>6, <1>7, OwnBlameOnly DEF Blameless

-----------------------------------------------------------------------------
\* Initially no call was asked anything, and the server is empty.
LEMMA InitAlarm == Init => AlarmInv
<1> SUFFICES ASSUME Init PROVE AlarmInv
  OBVIOUS
<1>1. ServerFit
  BY DEF Init, Nothing, ServerFit
<1>2. faulted \in [Calls -> BOOLEAN]
  BY DEF Init
<1>3. ASSUME NEW c \in Calls PROVE Blameless(c)
  BY <1>3 DEF Init, Blameless, Known, Deserved, Resolved, Legible, Free, Made
<1> QED
  BY <1>1, <1>2, <1>3 DEF AlarmInv

\* A refused request raises no alarm, one that is let through is remembered as valid (Validate).
LEMMA AskBlameless == ASSUME IInv, Eyes, AlarmInv, NEW c \in Calls, Ask(c) PROVE AlarmInv'
<1>1. PICK r \in Asks :
        /\ ask' = [ask EXCEPT ![c] = Asked(r)]
        /\ IF ~Validate(r)
           THEN Respond(c, "Invalid")
           ELSE /\ at' = [at EXCEPT ![c] = IF r.op = "create" THEN "writing" ELSE "listing"]
                /\ answer' = [answer EXCEPT ![c] = "none"]
                /\ UNCHANGED saw
  BY DEF Ask
<1>2. /\ alarms' = [alarms EXCEPT ![c] = 0] /\ faulted' = [faulted EXCEPT ![c] = FALSE]
      /\ raced' = [raced EXCEPT ![c] = FALSE] /\ UNCHANGED server
  BY DEF Ask
<1>3. /\ DOMAIN at = Calls /\ DOMAIN saw = Calls /\ DOMAIN answer = Calls /\ DOMAIN alarms = Calls /\ DOMAIN ask = Calls
      /\ faulted \in [Calls -> BOOLEAN] /\ raced \in [Calls -> BOOLEAN]
  BY DEF IInv, Typed, Eyes, Shaped, AlarmInv
<1>4. /\ ask'[c] = Asked(r) /\ alarms'[c] = 0
      /\ \A d \in Calls \ {c} :
           ask'[d] = ask[d] /\ alarms'[d] = alarms[d] /\ faulted'[d] = faulted[d] /\ raced'[d] = raced[d]
  BY <1>1, <1>2, <1>3
<1>5. CASE ~Validate(r)
  <2>1. at' = [at EXCEPT ![c] = "done"] /\ answer' = [answer EXCEPT ![c] = "Invalid"] /\ saw' = [saw EXCEPT ![c] = Nothing]
    BY <1>1, <1>5 DEF Respond
  <2>2. Others(c) /\ at'[c] = "done"
    BY <1>3, <1>4, <2>1 DEF Others
  <2>3. Blameless(c)'
    <3>1. Carries(c, r)'
      BY <1>4, <1>5, <2>2 DEF Carries, Spawned
    <3> QED
      BY <1>4, <2>2, <3>1 DEF Blameless, Known, Deserved, Resolved, Legible, Free, Made
  <2> QED
    BY <1>2, <1>3, <1>4, <2>2, <2>3, StillFree, OwnBlameOnly DEF AlarmInv, Blameless, Others, ServerFit, Fit, Leasable
<1>6. CASE Validate(r)
  <2> DEFINE place == IF r.op = "create" THEN "writing" ELSE "listing"
  <2>1. at' = [at EXCEPT ![c] = place] /\ answer' = [answer EXCEPT ![c] = "none"] /\ UNCHANGED saw
    BY <1>1, <1>6
  <2>2. place \in {"writing", "listing"} /\ (place = "writing" => r.op = "create")
    OBVIOUS
  <2> HIDE DEF place
  <2>3. Others(c) /\ at'[c] = place /\ answer'[c] = "none"
    BY <1>3, <1>4, <2>1 DEF Others
  <2>4. Blameless(c)'
    <3>1. Carries(c, r)'
      BY <1>4, <1>6, <2>2, <2>3 DEF Carries, Spawned
    <3>2. ask'[c].op = r.op
      BY <1>4, AskedShape
    <3> QED
      BY <1>4, <2>2, <2>3, <3>1, <3>2 DEF Blameless, Known, Deserved, Resolved, Legible, Free, Made
  <2> QED
    BY <1>2, <1>3, <1>4, <2>3, <2>4, StillFree, OwnBlameOnly DEF AlarmInv, Blameless, Others, ServerFit, Fit, Leasable
<1> QED
  BY <1>5, <1>6

\* A listing shows what the server keeps (listScopesScript).
LEMMA LookBlameless == ASSUME IInv, Eyes, AlarmInv, NEW c \in Calls, Look(c) PROVE AlarmInv'
<1>1. /\ at[c] = "listing" /\ at' = [at EXCEPT ![c] = "looked"] /\ saw' = [saw EXCEPT ![c] = server]
      /\ UNCHANGED <<server, ask, answer, alarms, faulted, raced>>
  BY DEF Look, historyVars
<1>2. at'[c] = "looked" /\ saw'[c] = server
  BY <1>1 DEF IInv, Typed, Eyes, Shaped
<1>3. \A s \in DOMAIN server : server[s].lo \in Nat /\ server[s].hi \in Nat
  BY DEF AlarmInv, ServerFit, Fit
<1>4. Resolved(c)' /\ Legible(c)' /\ Free(c)' /\ Made(c)'
  BY <1>2, <1>3 DEF Resolved, Legible, Free, Made
<1>5. at[c] \in Spawned /\ "looked" \in Spawned
  BY <1>1 DEF Spawned
<1> QED
  BY <1>1, <1>4, <1>5, LooksBlameless

\* From the listing to an answer, or to a write of a scope that is in it (resolveScope).
LEMMA ListedBlameless == ASSUME IInv, Eyes, AlarmInv, NEW c \in Calls, Listed(c) PROVE AlarmInv'
<1>1. at[c] = "looked" /\ UNCHANGED <<server, ask, alarms, faulted, raced>>
  BY DEF Listed
<1>2. CASE Respond(c, "OK") \/ Respond(c, "NotFound")
  BY <1>1, <1>2, QuietAnswer DEF Spawned
<1>3. CASE Respond(c, "Invalid") /\ ask[c].op = "update"
  BY <1>1, <1>3, QuietAnswer DEF Spawned
<1>4. CASE /\ at' = [at EXCEPT ![c] = "writing"] /\ UNCHANGED <<answer, saw>>
           /\ ask[c].op \notin {"list", "get"} /\ ask[c].id \in DOMAIN saw[c]
           /\ ask[c].op = "update" => validateEffectiveRange(ask[c], saw[c][ask[c].id])
  <2>1. Blameless(c) /\ at'[c] = "writing" /\ saw' = [saw EXCEPT ![c] = saw[c]]
    BY <1>4 DEF AlarmInv, IInv, Typed, Eyes, Shaped
  <2>2. ask[c].op \in {"create", "delete", "update"}
    <3>1. ask[c] # Idle
      BY <1>4 DEF Idle
    <3>2. PICK r \in Asks : ask[c] = Asked(r)
      BY <2>1, <3>1 DEF Blameless, Known, Carries
    <3> QED
      BY <1>4, <3>2, AskedShape
  <2>3. Resolved(c)'
    BY <1>1, <1>4, <2>2 DEF Resolved
  <2>4. Legible(c)' /\ Free(c)' /\ Made(c)'
    BY <1>1, <1>4, <2>1 DEF Blameless, Legible, Free, Made
  <2>5. at[c] \in Spawned /\ "writing" \in Spawned
    BY <1>1 DEF Spawned
  <2> QED
    BY <1>1, <1>4, <2>1, <2>3, <2>4, <2>5, LooksBlameless
<1> QED
  BY <1>2, <1>3, <1>4 DEF Listed

\* A create that finds no overlap has a free subnet, as Windows sees it (createScopeScript).
LEMMA CheckOverlapBlameless == ASSUME IInv, Eyes, AlarmInv, NEW c \in Calls, CheckOverlap(c) PROVE AlarmInv'
<1>1. /\ at[c] = "writing" /\ ask[c].op = "create"
      /\ UNCHANGED <<server, ask, answer, alarms, faulted, raced>>
  BY DEF CheckOverlap, historyVars
<1>2. CASE Overlapping(ask[c]) = {} /\ at' = [at EXCEPT ![c] = "checked"] /\ UNCHANGED saw
  <2>1. at'[c] = "checked" /\ saw' = [saw EXCEPT ![c] = saw[c]]
    BY <1>2 DEF IInv, Typed, Eyes, Shaped
  <2>2. ask[c].mask \in Addresses /\ Fit(ask[c].id, Asking(ask[c]))
    BY <1>1, CreateAtWork DEF AlarmInv, Blameless, Spawned
  <2>3. ask[c].id \in Nat
    BY <2>2, FitShape
  <2>4. ASSUME NEW s \in DOMAIN server PROVE Block(ask[c].id, ask[c].mask) \cap Block(s, server[s].mask) = {}
    <3>1. s \in Nat /\ server[s].mask \in Addresses
      BY FitShape DEF AlarmInv, ServerFit
    <3>2. ~Overlap(ask[c].id, ask[c].mask, s, server[s].mask)
      BY <1>2, <2>4 DEF Overlapping
    <3> QED
      BY <2>2, <2>3, <3>1, <3>2, OverlapMeets
  <2>5. Clashing(ask[c].id, ask[c].mask) = {}
    BY <2>4 DEF Clashing
  <2>6. Clashing(ask[c].id, ask[c].mask)' = {}
    BY <1>1, <2>5 DEF Clashing
  <2>7. Resolved(c)' /\ Legible(c)' /\ Free(c)' /\ Made(c)'
    BY <1>1, <2>1, <2>6 DEF Resolved, Legible, Free, Made
  <2>8. at[c] \in Spawned /\ "checked" \in Spawned
    BY <1>1 DEF Spawned
  <2> QED
    BY <1>1, <1>2, <2>1, <2>7, <2>8, LooksBlameless
<1>3. ASSUME NEW seen, at' = [at EXCEPT ![c] = "conflict"], saw' = [saw EXCEPT ![c] = seen] PROVE AlarmInv'
  <2>1. at'[c] = "conflict"
    BY <1>3 DEF IInv, Typed
  <2>2. Resolved(c)' /\ Legible(c)' /\ Free(c)' /\ Made(c)'
    BY <2>1 DEF Resolved, Legible, Free, Made
  <2>3. at[c] \in Spawned /\ "conflict" \in Spawned
    BY <1>1 DEF Spawned
  <2> QED
    BY <1>1, <1>3, <2>2, <2>3, LooksBlameless
<1> QED
  BY <1>2, <1>3 DEF CheckOverlap

\* A write that is fit for the server, and that races the others (the three writes).
LEMMA WriteBlameless ==
  ASSUME IInv, Eyes, AlarmInv, NEW c \in Calls, NEW id, NEW after, NEW seen, Write(c, id, after, seen), at[c] \in Spawned,
         (\E x : after = With(server, id, x) /\ Fit(id, x)) \/ after = Without(server, id),
         ask[c].op = "create" => ask[c].id \in DOMAIN seen
  PROVE  AlarmInv'
<1>1. /\ server' = after /\ at' = [at EXCEPT ![c] = "wrote"] /\ saw' = [saw EXCEPT ![c] = seen]
      /\ Disturb(id, Calls \ {c}) /\ UNCHANGED <<ask, answer, alarms, faulted>>
  BY DEF Write
<1>2. DOMAIN at = Calls /\ DOMAIN saw = Calls /\ raced \in [Calls -> BOOLEAN]
  BY DEF IInv, Typed, Eyes, Shaped
<1>3. /\ at'[c] = "wrote" /\ saw'[c] = seen
      /\ \A d \in Calls \ {c} : at'[d] = at[d] /\ saw'[d] = saw[d]
  BY <1>1, <1>2
<1>4. \A d \in Calls : Blameless(d) /\ (at[d] = "checked" => ask[d].op = "create") /\ alarms[c] = 0
  BY DEF AlarmInv, IInv, Good, Working
<1>5. \A d \in Calls \ {c} : Free(d)' /\ (raced[d] => raced'[d])
  <2> TAKE d \in Calls \ {c}
  <2>1. Free(d) /\ at'[d] = at[d] /\ ask'[d] = ask[d]
    BY <1>1, <1>3, <1>4 DEF Blameless
  <2>2. (\E x : server' = With(server, id, x)) \/ server' = Without(server, id)
    BY <1>1
  <2> QED
    BY <1>1, <1>4, <2>1, <2>2, FreeOrRaced
<1>6. Others(c)
  BY <1>1, <1>3, <1>5 DEF Others
<1>7. Known(c)'
  <2>1. PICK r \in Asks : Carries(c, r)
    BY <1>4 DEF Blameless, Known, Spawned
  <2>2. Carries(c, r)'
    BY <1>1, <1>3, <2>1 DEF Carries
  <2> QED
    BY <2>2 DEF Known
<1>8. Blameless(c)'
  BY <1>1, <1>3, <1>4, <1>7 DEF Blameless, Deserved, Resolved, Legible, Free, Made
<1>9. ServerFit'
  BY <1>1, ServerStaysFit DEF AlarmInv
<1> QED
  BY <1>1, <1>5, <1>6, <1>8, <1>9, OwnBlameOnly DEF AlarmInv

\* A delete puts nothing on the server (deleteScopeScript).
LEMMA RemoveBlameless == ASSUME IInv, Eyes, AlarmInv, NEW c \in Calls, Remove(c) PROVE AlarmInv'
<1>1. Write(c, ask[c].id, Without(server, ask[c].id), Nothing) /\ at[c] \in Spawned /\ ask[c].op # "create"
  BY DEF Remove, Spawned
<1> QED
  BY <1>1, WriteBlameless

\* An update leaves a scope that Windows set (updateScopeScript).
LEMMA UpdateBlameless == ASSUME IInv, Eyes, AlarmInv, NEW c \in Calls, Update(c) PROVE AlarmInv'
<1> DEFINE id == ask[c].id
           was == saw[c][id]
           now == Set(ask[c], was, server[id])
<1>1. /\ at[c] = "writing" /\ ask[c].op = "update" /\ id \in DOMAIN server /\ Leasable(id, now)
      /\ Write(c, id, With(server, id, now), With(Nothing, id, now))
  BY DEF Update, Settable
<1>2. Blameless(c)
  BY DEF AlarmInv
<1>3. was.lo \in Nat /\ was.hi \in Nat
  BY <1>1, <1>2 DEF Blameless, Legible, Resolved
<1>4. server[id].lo \in Nat /\ server[id].hi \in Nat
  BY <1>1 DEF AlarmInv, ServerFit, Fit
<1>5. ask[c].lo \in Nat \cup {Omit} /\ ask[c].hi \in Nat \cup {Omit}
  <2>1. ask[c] # Idle
    BY <1>1 DEF Idle
  <2>2. PICK r \in Asks : ask[c] = Asked(r)
    BY <1>2, <2>1 DEF Blameless, Known, Carries
  <2>3. ask[c].lo \in Given \cup {Omit} /\ ask[c].hi \in Given \cup {Omit}
    BY <1>1, <2>2, AskedShape
  <2>4. Given \subseteq Nat
    BY Words DEF Given, NotAnAddress
  <2> QED
    BY <2>3, <2>4
<1>6. now.lo \in Nat /\ now.hi \in Nat
  <2> DEFINE range == env(ask[c], was)
  <2>1. CASE range = <<>>
    BY <1>4, <2>1 DEF Set
  <2>2. CASE range # <<>>
    <3>1. range[1] \in Nat /\ range[2] \in Nat
      BY <1>3, <1>5, <2>2 DEF env, effective
    <3>2. now.lo = range[1] /\ now.hi = range[2]
      BY <2>2 DEF Set
    <3> QED
      BY <3>1, <3>2
  <2> QED
    BY <2>1, <2>2
<1> HIDE DEF now
<1>7. Fit(id, now)
  BY <1>1, <1>6 DEF Fit
<1> QED
  BY <1>1, <1>7, WriteBlameless DEF Spawned

\* A create adds the scope it was asked for, under the scopeId it was told (createScopeScript).
LEMMA AddBlameless == ASSUME IInv, Eyes, AlarmInv, NEW c \in Calls, Add(c) PROVE AlarmInv'
<1> DEFINE r == ask[c]
           id == SubnetOf(r.lo, r.mask)
<1>1. at[c] = "checked" /\ Write(c, id, With(server, id, Asking(r)), With(Nothing, id, Asking(r)))
  BY DEF Add
<1>2. Blameless(c) /\ r.op = "create"
  BY <1>1 DEF AlarmInv, IInv, Good, Working
<1>3. r.id = id /\ Fit(id, Asking(r))
  BY <1>1, <1>2, CreateAtWork DEF Blameless, Spawned
<1> DEFINE new == Asking(r)
<1>4. r.id \in DOMAIN With(Nothing, id, new)
  BY <1>3 DEF With
<1> QED
  BY <1>1, <1>3, <1>4, WriteBlameless DEF Spawned

\* What Windows refuses has changed since it was looked at (validateEffectiveRange, the overlap
\* check).
LEMMA RefusedRaced ==
  ASSUME IInv, Eyes, AlarmInv, NEW c \in Calls, Refused(c)
  PROVE  raced[c]
<1> SUFFICES ASSUME ~raced[c] PROVE FALSE
  BY DEF Eyes, Shaped
<1> DEFINE r == ask[c]
<1>1. Blameless(c) /\ Sight(c)
  BY DEF AlarmInv, Eyes
<1>2. CASE at[c] = "writing" /\ r.op # "create" /\ ~Settable(c)
  <2>1. r.op \in {"delete", "update"} /\ r.id \in DOMAIN saw[c]
    BY <1>1, <1>2 DEF Blameless, Resolved
  <2>2. r.id \in DOMAIN server /\ saw[c][r.id] = server[r.id]
    BY <1>1, <1>2, <2>1 DEF Sight
  <2>3. r.op = "update" /\ ~Leasable(r.id, Set(r, server[r.id], server[r.id]))
    BY <1>2, <2>1, <2>2 DEF Settable
  <2>4. PICK q \in Asks : Carries(c, q)
    <3>1. r # Idle
      BY <2>3 DEF Idle
    <3> QED
      BY <1>1, <3>1 DEF Blameless, Known
  <2>5. r = Asked(q) /\ Validate(q)
    BY <1>2, <2>4 DEF Carries, Spawned
  <2>6. q.op = "update" /\ r = q /\ r.lo \in Given \cup {Omit} /\ r.hi \in Given \cup {Omit}
    BY <2>3, <2>5, AskedShape
  <2>7. validateRange(r)
    BY <2>5, <2>6 DEF Validate
  <2>8. validateEffectiveRange(r, server[r.id])
    BY <1>1, <1>2, <2>2, <2>3 DEF Blameless, Resolved
  <2>9. Fit(r.id, server[r.id])
    BY <2>2 DEF AlarmInv, ServerFit
  <2> QED
    BY <2>3, <2>6, <2>7, <2>8, <2>9, UpdateJudged
<1>3. CASE at[c] = "checked" /\ ~Addable(r)
  <2>1. r.op = "create"
    BY <1>3 DEF IInv, Good, Working
  <2>2. r.id = SubnetOf(r.lo, r.mask) /\ Leasable(r.id, Asking(r))
    BY <1>1, <1>3, <2>1, CreateAtWork DEF Blameless, Spawned
  <2>3. Clashing(r.id, r.mask) = {}
    BY <1>1, <1>3 DEF Blameless, Free
  <2> QED
    BY <1>3, <2>2, <2>3 DEF Addable
<1> QED
  BY <1>2, <1>3 DEF Refused

\* So the alarm of a refusal has its reason (backendError).
LEMMA RefusedBlameless == ASSUME IInv, Eyes, AlarmInv, NEW c \in Calls, Refused(c) PROVE AlarmInv'
<1>1. backendError(c, "BadGateway") /\ at[c] \in Spawned /\ UNCHANGED <<server, ask, raced, faulted>>
  BY DEF Refused, Spawned, historyVars
<1>2. raced[c]
  BY RefusedRaced
<1> QED
  BY <1>1, <1>2, AlarmAnswer

\* A conflict raises no alarm (CreateScope).
LEMMA ConflictBlameless == ASSUME IInv, Eyes, AlarmInv, NEW c \in Calls, Conflict(c) PROVE AlarmInv'
<1>1. at[c] \in Spawned /\ UNCHANGED <<server, ask, raced, alarms, faulted>>
  BY DEF Conflict, Spawned, historyVars
<1>2. PICK status \in {"Conflict", "Unprocessable"} : Respond(c, status)
  BY DEF Conflict
<1> QED
  BY <1>1, <1>2, QuietAnswer

\* Nor does a write that succeeded: a create is what was asked for (CreateScope, UpdateScope, DeleteScope).
LEMMA WroteBlameless == ASSUME IInv, Eyes, AlarmInv, NEW c \in Calls, Wrote(c) PROVE AlarmInv'
<1>1. at[c] = "wrote" /\ at[c] \in Spawned /\ UNCHANGED <<server, ask, raced, faulted>>
  BY DEF Wrote, Spawned
<1>2. ask[c].op \in {"delete", "create", "update"} /\ Blameless(c)
  BY <1>1 DEF IInv, Good, Working, AlarmInv
<1>3. CASE ask[c].op = "delete"
  <2>1. Respond(c, "NoContent") /\ UNCHANGED alarms
    BY <1>3, SMT DEF Wrote
  <2> QED
    BY <1>1, <2>1, QuietAnswer
<1>4. CASE ask[c].op = "create"
  <2>1. IF ask[c].id \in DOMAIN saw[c] THEN Respond(c, "Created") /\ UNCHANGED alarms ELSE backendError(c, "BadGateway")
    BY <1>4, SMT DEF Wrote
  <2>2. ask[c].id \in DOMAIN saw[c]
    BY <1>1, <1>2, <1>4 DEF Blameless, Made
  <2> QED
    BY <1>1, <2>1, <2>2, QuietAnswer
<1>5. CASE ask[c].op = "update"
  <2>1. Respond(c, "OK") /\ UNCHANGED alarms
    BY <1>5, SMT DEF Wrote
  <2> QED
    BY <1>1, <2>1, QuietAnswer
<1> QED
  BY <1>2, <1>3, <1>4, <1>5

\* A shell that failed is the reason of its alarm (backendError).
LEMMA FailBlameless == ASSUME IInv, Eyes, AlarmInv, NEW c \in Calls, NEW fault, Fail(c, fault) PROVE AlarmInv'
<1>1. /\ backendError(c, Status(fault)) /\ at[c] \in Spawned /\ UNCHANGED <<server, ask, raced>>
      /\ faulted' = [faulted EXCEPT ![c] = TRUE]
  BY DEF Fail
<1>2. Status(fault) # "Invalid"
  BY DEF Status
<1> QED
  BY <1>1, <1>2, AlarmAnswer

\* An administrator's scope is fit too, and those it is in the way of are raced.
LEMMA EditBlameless == ASSUME IInv, Eyes, AlarmInv, NEW id, Edit(id) PROVE AlarmInv'
<1>1. (\E x : server' = With(server, id, x) /\ Fit(id, x)) \/ server' = Without(server, id)
  <2>1. \A e \in Edits : Fit(e.id, e.scope)
    <3> TAKE e \in Edits
    <3>1. e.scope \in Scopes /\ Leasable(e.id, e.scope)
      BY ScopeClientAssumption
    <3>2. Addresses \subseteq Nat
      BY Words
    <3> QED
      BY <3>1, <3>2 DEF Fit, Scopes
  <2> QED
    BY <2>1 DEF Edit
<1>2. Disturb(id, Calls) /\ UNCHANGED <<at, ask, saw, answer, alarms, faulted>>
  BY DEF Edit, callVars
<1>3. \A d \in Calls : Blameless(d) /\ (at[d] = "checked" => ask[d].op = "create")
  BY DEF AlarmInv, IInv, Good, Working
<1>4. \A d \in Calls : Free(d)' /\ (raced[d] => raced'[d])
  <2> TAKE d \in Calls
  <2>1. Free(d) /\ at'[d] = at[d] /\ ask'[d] = ask[d]
    BY <1>2, <1>3 DEF Blameless
  <2> QED
    BY <1>1, <1>2, <1>3, <2>1, FreeOrRaced
<1>5. ASSUME NEW d \in Calls PROVE Blameless(d)'
  <2>1. Known(d)'
    BY <1>2, <1>3 DEF Blameless, Known, Carries
  <2> QED
    BY <1>2, <1>3, <1>4, <2>1 DEF Blameless, Deserved, Resolved, Legible, Made
<1>6. ServerFit'
  BY <1>1, ServerStaysFit DEF AlarmInv
<1> QED
  BY <1>2, <1>5, <1>6 DEF AlarmInv

\* One case per action.
LEMMA NextAlarm == IInv /\ Eyes /\ AlarmInv /\ [Next]_vars => AlarmInv'
<1> SUFFICES ASSUME IInv, Eyes, AlarmInv, [Next]_vars PROVE AlarmInv'
  OBVIOUS
<1>1. ASSUME NEW c \in Calls, Step(c) PROVE AlarmInv'
  BY <1>1, AskBlameless, LookBlameless, ListedBlameless, CheckOverlapBlameless, RemoveBlameless, UpdateBlameless,
     AddBlameless, RefusedBlameless, ConflictBlameless, WroteBlameless, FailBlameless DEF Step
<1>2. ASSUME NEW id, Edit(id) PROVE AlarmInv'
  BY <1>2, EditBlameless
<1>3. CASE UNCHANGED vars
  BY <1>3 DEF vars, callVars, historyVars, AlarmInv, ServerFit, Fit, Leasable, Blameless, Known, Carries,
              Deserved, Resolved, Legible, Free, Made, Clashing
<1> QED
  BY <1>1, <1>2, <1>3 DEF Next

\* A create that was refused as a mistake is not one that Windows would have taken (Validate).
LEMMA AlarmsDeserved == AlarmInv => AlarmIsDeserved
<1> SUFFICES ASSUME AlarmInv, NEW c \in Calls
             PROVE  /\ alarms[c] > 0 => faulted[c] \/ raced[c]
                    /\ answer[c] = "Invalid" /\ ask[c].op = "create" /\ ask[c].name \in Names /\ parseIPv4(ask[c].mask) =>
                         ~Leasable(SubnetOf(ask[c].lo, ask[c].mask), Asking(ask[c]))
  BY DEF AlarmIsDeserved
<1>1. Blameless(c)
  BY DEF AlarmInv
<1>2. ASSUME answer[c] = "Invalid", ask[c].op = "create", ask[c].name \in Names, parseIPv4(ask[c].mask)
      PROVE  ~Leasable(SubnetOf(ask[c].lo, ask[c].mask), Asking(ask[c]))
  <2>1. PICK r \in Asks : Carries(c, r)
    BY <1>1, <1>2 DEF Blameless, Known
  <2>2. /\ ask[c] = Asked(r) /\ r.op = "create" /\ ~Validate(r)
    BY <1>2, <2>1, AskedShape DEF Carries
  <2>3. /\ r.mask \in Addresses /\ r.lo \in Given /\ r.hi \in Given /\ r.name \in Names
        /\ ask[c].mask = r.mask /\ ask[c].lo = r.lo /\ ask[c].hi = r.hi
    BY <1>2, <2>2, AskedShape DEF parseIPv4
  <2>4. ~validateAddressing(r)
    BY <2>2, <2>3 DEF Validate
  <2>5. ~Leasable(SubnetOf(r.lo, r.mask), r)
    BY <2>3, <2>4, CreateJudged DEF Given
  <2> DEFINE new == Asking(ask[c])
  <2>6. new.mask = r.mask /\ new.lo = r.lo /\ new.hi = r.hi
    BY <2>3 DEF Asking
  <2> HIDE DEF new
  <2>7. ~Leasable(SubnetOf(r.lo, r.mask), new)
    BY <2>5, <2>6, SameAddressing
  <2> QED
    BY <2>3, <2>7 DEF new
<1> QED
  BY <1>1, <1>2 DEF Blameless, Deserved

\* However many calls run, and however wide addresses are, no caller's mistake raises an alarm,
\* and none of what Windows would take is refused as one (ScopeInput.Validate,
\* validateEffectiveRange, createScopeScript, backendError).
THEOREM AlarmAlwaysDeserved == Spec => []AlarmIsDeserved
BY InitIInv, NextIInv, InitEyes, NextEyes, InitAlarm, NextAlarm, AlarmsDeserved, PTL DEF Spec

-----------------------------------------------------------------------------
(* The drift reports, with one call at a time.                             *)

\* An update whose answer is still to come has not told the ledger yet.
Unsettled(s) == \E c \in Calls : at[c] = "wrote" /\ ask[c].op = "update" /\ ask[c].id = s

\* What the ledger holds is what the server has, unless a change is known or in the making.
Settled == \A s \in DOMAIN ledger \ stale : ~Unsettled(s) => s \in DOMAIN server /\ server[s] = ledger[s]

\* And so is what a call is about to report; an update reports the scope it changed.
Fresh(c) ==
  /\ at[c] \in {"looked", "wrote"} =>
       \A s \in DOMAIN saw[c] \ stale : s \in DOMAIN server /\ server[s] = saw[c][s]
  /\ at[c] = "wrote" /\ ask[c].op = "update" => ask[c].id \in DOMAIN saw[c]

\* The inductive invariant, relative to IInv and Eyes.
DriftInv == spurious = {} /\ Settled /\ \A c \in Calls : Fresh(c)

\* One call at a time.
Alone == \A c, d \in Calls : c = d

\* What is observed is what the ledger holds from then on; an update that is settled by it
\* is one that was observed (driftLedger.observe).
LEMMA ObserveSettles ==
  ASSUME DriftInv, NEW c \in Calls, at[c] \in {"looked", "wrote"}, observe(saw[c]), UNCHANGED <<server, ask>>,
         \A d \in Calls : at'[d] # "wrote", Alone
  PROVE  Settled'
<1>1. /\ ledger' = [s \in DOMAIN saw[c] \cup DOMAIN ledger |-> IF s \in DOMAIN saw[c] THEN saw[c][s] ELSE ledger[s]]
      /\ stale' = stale \ {s \in DOMAIN saw[c] \cap DOMAIN server : saw[c][s] = server[s]}
  BY DEF observe
<1> SUFFICES ASSUME NEW s \in DOMAIN ledger' \ stale'
             PROVE  s \in DOMAIN server' /\ server'[s] = ledger'[s]
  BY DEF Settled
<1>2. CASE s \in DOMAIN saw[c]
  <2>1. ledger'[s] = saw[c][s]
    BY <1>1, <1>2
  <2>2. s \in DOMAIN server /\ server[s] = saw[c][s]
    BY <1>1, <1>2 DEF DriftInv, Fresh
  <2> QED
    BY <2>1, <2>2
<1>3. CASE s \notin DOMAIN saw[c]
  <2>1. s \in DOMAIN ledger \ stale /\ ledger'[s] = ledger[s]
    BY <1>1, <1>3
  <2>2. ~Unsettled(s)
    BY <1>3 DEF Alone, Unsettled, DriftInv, Fresh
  <2> QED
    BY <2>1, <2>2 DEF DriftInv, Settled
<1> QED
  BY <1>2, <1>3

\* What is reported is what the ledger knew, or a change that is known (reportDrift).
LEMMA ReportsNoFalseDrift ==
  ASSUME DriftInv, NEW c \in Calls, at[c] \in {"looked", "wrote"}, ask[c].op # "update" \/ at[c] = "looked",
         reportDrift(saw[c]), Alone
  PROVE  spurious' = {}
<1>1. ASSUME NEW s \in Drifted(saw[c]) \ stale PROVE FALSE
  <2>1. s \in DOMAIN saw[c] /\ s \in DOMAIN ledger /\ saw[c][s] # ledger[s] /\ s \notin stale
    BY <1>1 DEF Drifted
  <2>2. server[s] = saw[c][s]
    BY <2>1 DEF DriftInv, Fresh
  <2>3. ~Unsettled(s)
    BY DEF Alone, Unsettled
  <2> QED
    BY <2>1, <2>2, <2>3 DEF DriftInv, Settled
<1> QED
  BY <1>1 DEF reportDrift, DriftInv

\* An answer leaves nothing to report; a change in doubt is known to be one (DeleteScope,
\* backendError).
LEMMA AnsweredSettled ==
  ASSUME IInv, Eyes, DriftInv, Alone, NEW c \in Calls, NEW status, Respond(c, status),
         UNCHANGED <<server, ledger, ask, spurious>>,
         stale \subseteq stale', Unsettled(ask[c].id) => ask[c].id \in stale'
  PROVE  DriftInv'
<1>1. at'[c] = "done" /\ \A d \in Calls : d = c
  BY DEF Respond, IInv, Typed, Alone
<1>2. Settled'
  BY <1>1 DEF DriftInv, Settled, Unsettled
<1> QED
  BY <1>1, <1>2 DEF DriftInv, Fresh

\* Where neither server nor ledger changes, a shell that goes on has nothing to report (runArgs).
LEMMA GoesOnSettled ==
  ASSUME IInv, Eyes, DriftInv, Alone, NEW c \in Calls, at[c] # "wrote",
         NEW place \in {"done", "writing", "listing", "checked", "conflict"},
         at' = [at EXCEPT ![c] = place], UNCHANGED <<server, ledger, stale, spurious>>
  PROVE  DriftInv'
<1>1. at'[c] = place /\ \A d \in Calls : d = c
  BY DEF IInv, Typed, Alone
<1>2. Settled'
  BY <1>1 DEF DriftInv, Settled, Unsettled
<1> QED
  BY <1>1, <1>2 DEF DriftInv, Fresh

\* A write is known to be a change, or waits to be observed (the three writes).
LEMMA WriteSettled ==
  ASSUME IInv, Eyes, DriftInv, Alone, NEW c \in Calls, NEW id, NEW after, NEW seen, Write(c, id, after, seen),
         at[c] # "wrote",
         \/ (\E x : after = With(server, id, x) /\ seen = With(Nothing, id, x))
         \/ (after = Without(server, id) /\ seen = Nothing),
         \/ stale' = stale \cup {id} /\ ask[c].op # "update"
         \/ stale' = stale /\ ask[c].op = "update" /\ ask[c].id = id /\ id \in DOMAIN seen
  PROVE  DriftInv'
<1>1. /\ server' = after /\ at'[c] = "wrote" /\ saw'[c] = seen /\ UNCHANGED <<ledger, ask, spurious>>
      /\ \A d \in Calls : d = c
  BY DEF Write, IInv, Typed, Eyes, Shaped, Alone
<1>2. ASSUME NEW s \in DOMAIN ledger' \ stale', ~Unsettled(s)' PROVE s \in DOMAIN server' /\ server'[s] = ledger'[s]
  <2>1. s # id
    BY <1>1, <1>2 DEF Unsettled
  <2>2. s \in DOMAIN ledger \ stale /\ ~Unsettled(s)
    BY <1>1, <1>2 DEF Unsettled
  <2>3. s \in DOMAIN server /\ server[s] = ledger[s]
    BY <2>2 DEF DriftInv, Settled
  <2> QED
    BY <1>1, <2>1, <2>3, WithOthers, WithoutOthers
<1>3. ASSUME NEW s \in DOMAIN seen PROVE s \in DOMAIN server' /\ server'[s] = seen[s]
  BY <1>1, <1>3 DEF With, Nothing
<1>4. Fresh(c)'
  BY <1>1, <1>3 DEF Fresh
<1> QED
  BY <1>1, <1>2, <1>4 DEF DriftInv, Settled

-----------------------------------------------------------------------------
\* Initially nothing was ever observed.
LEMMA InitDrift == Init => DriftInv
BY DEF Init, DriftInv, Settled, Fresh, Nothing

\* A listing shows the server as it is (listScopesScript).
LEMMA LookSettled == ASSUME IInv, Eyes, DriftInv, Alone, NEW c \in Calls, Look(c) PROVE DriftInv'
<1>1. /\ at[c] = "listing" /\ at'[c] = "looked" /\ saw'[c] = server /\ UNCHANGED <<server, ledger, ask, spurious, stale>>
      /\ \A d \in Calls : d = c
  BY DEF Look, historyVars, IInv, Typed, Eyes, Shaped, Alone
<1>2. Settled'
  BY <1>1 DEF DriftInv, Settled, Unsettled
<1>3. Fresh(c)'
  BY <1>1 DEF Fresh
<1> QED
  BY <1>1, <1>2, <1>3 DEF DriftInv

\* A listing is reported, and then it is what the ledger holds (ListScopes).
LEMMA ListedSettled == ASSUME IInv, Eyes, DriftInv, Alone, NEW c \in Calls, Listed(c) PROVE DriftInv'
<1>1. at[c] = "looked" /\ reportDrift(saw[c]) /\ observe(saw[c]) /\ UNCHANGED <<server, ask>>
  BY DEF Listed, reportDrift
<1>2. PICK place \in {"done", "writing"} : at' = [at EXCEPT ![c] = place]
  BY Zenon DEF Listed, Respond
<1>3. at'[c] = place /\ \A d \in Calls : d = c
  BY <1>2 DEF IInv, Typed, Alone
<1>4. spurious' = {}
  BY <1>1, ReportsNoFalseDrift
<1>5. Settled'
  BY <1>1, <1>3, ObserveSettles
<1>6. Fresh(c)'
  BY <1>3 DEF Fresh
<1> QED
  BY <1>3, <1>4, <1>5, <1>6 DEF DriftInv

\* A create is reported, an update observed in silence, a delete known to be a change
\* (CreateScope, UpdateScope, DeleteScope).
LEMMA WroteSettled == ASSUME IInv, Eyes, DriftInv, Alone, NEW c \in Calls, Wrote(c) PROVE DriftInv'
<1>1. at[c] = "wrote" /\ UNCHANGED <<server, ask>>
  BY DEF Wrote
<1>2. ask[c].op \in {"delete", "create", "update"}
  BY <1>1 DEF IInv, Good, Working
<1>3. CASE ask[c].op = "delete"
  <2>1. Respond(c, "NoContent") /\ UNCHANGED <<ledger, stale, spurious>>
    BY <1>3, SMT DEF Wrote
  <2>2. ~Unsettled(ask[c].id)
    BY <1>3 DEF Unsettled, Alone
  <2> QED
    BY <1>1, <2>1, <2>2, AnsweredSettled
<1>4. CASE ask[c].op = "create" \/ ask[c].op = "update"
  <2>1. observe(saw[c]) /\ \E status : Respond(c, status)
    <3>1. CASE ask[c].op = "create"
      <4>1. /\ reportDrift(saw[c])
            /\ IF ask[c].id \in DOMAIN saw[c] THEN Respond(c, "Created") ELSE backendError(c, "BadGateway")
        BY <3>1, SMT DEF Wrote
      <4> QED
        BY <4>1 DEF reportDrift, backendError
    <3>2. CASE ask[c].op = "update"
      <4>1. Respond(c, "OK") /\ observe(saw[c])
        BY <3>2, SMT DEF Wrote
      <4> QED
        BY <4>1
    <3> QED
      BY <1>4, <3>1, <3>2
  <2>2. at'[c] = "done" /\ \A d \in Calls : d = c
    BY <2>1 DEF Respond, IInv, Typed, Alone
  <2>3. Settled'
    BY <1>1, <2>1, <2>2, ObserveSettles
  <2>4. spurious' = {}
    <3>1. CASE ask[c].op = "create"
      <4>1. reportDrift(saw[c])
        BY <3>1, SMT DEF Wrote
      <4> QED
        BY <1>1, <3>1, <4>1, ReportsNoFalseDrift
    <3>2. CASE ask[c].op = "update"
      BY <3>2, SMT DEF Wrote, DriftInv
    <3> QED
      BY <1>4, <3>1, <3>2
  <2>5. Fresh(c)'
    BY <2>2 DEF Fresh
  <2> QED
    BY <2>2, <2>3, <2>4, <2>5 DEF DriftInv
<1> QED
  BY <1>2, <1>3, <1>4

\* A shell that failed after its write leaves a change in doubt (UpdateScope, CreateScope).
LEMMA FailSettled == ASSUME IInv, Eyes, DriftInv, Alone, NEW c \in Calls, NEW fault, Fail(c, fault) PROVE DriftInv'
<1>1. /\ Respond(c, Status(fault)) /\ UNCHANGED <<server, ledger, ask, spurious>> /\ at[c] \in Spawned
      /\ stale' = IF did[c] THEN stale \cup {ask[c].id} ELSE stale
  BY DEF Fail, backendError
<1>2. did[c] <=> at[c] = "wrote"
  BY <1>1 DEF IInv, Good, Working
<1>3. Unsettled(ask[c].id) => ask[c].id \in stale'
  BY <1>1, <1>2 DEF Unsettled, Alone
<1> QED
  BY <1>1, <1>3, AnsweredSettled

\* An administrator's change is known to be one.
LEMMA EditSettled == ASSUME DriftInv, NEW id, Edit(id) PROVE DriftInv'
<1>1. /\ (\E x : server' = With(server, id, x)) \/ server' = Without(server, id)
      /\ stale' = stale \cup {id} /\ UNCHANGED <<ledger, at, ask, saw, spurious>>
  BY DEF Edit, callVars
<1>2. \A s \in DOMAIN server \ stale' : s \in DOMAIN server' /\ server'[s] = server[s]
  BY <1>1, WithOthers, WithoutOthers
<1> QED
  BY <1>1, <1>2 DEF DriftInv, Settled, Unsettled, Fresh

\* One case per action.
LEMMA NextDrift == Alone /\ IInv /\ Eyes /\ DriftInv /\ [Next]_vars => DriftInv'
<1> SUFFICES ASSUME Alone, IInv, Eyes, DriftInv, [Next]_vars PROVE DriftInv'
  OBVIOUS
<1>1. ASSUME NEW c \in Calls, Ask(c) PROVE DriftInv'
  <2>1. PICK place \in {"done", "writing", "listing"} : at' = [at EXCEPT ![c] = place]
    BY <1>1, Zenon DEF Ask, Respond
  <2> QED
    BY <1>1, <2>1, GoesOnSettled DEF Ask, Ended
<1>2. ASSUME NEW c \in Calls, CheckOverlap(c) PROVE DriftInv'
  <2>1. PICK place \in {"checked", "conflict"} : at' = [at EXCEPT ![c] = place]
    BY <1>2 DEF CheckOverlap
  <2> QED
    BY <1>2, <2>1, GoesOnSettled DEF CheckOverlap, historyVars
<1>3. ASSUME NEW c \in Calls, Remove(c) \/ Update(c) \/ Add(c) PROVE DriftInv'
  <2>1. CASE Remove(c)
    BY <2>1, WriteSettled DEF Remove
  <2>2. CASE Update(c)
    <3> DEFINE id == ask[c].id
               now == Set(ask[c], saw[c][id], server[id])
    <3>1. /\ at[c] = "writing" /\ ask[c].op = "update" /\ stale' = stale
          /\ Write(c, id, With(server, id, now), With(Nothing, id, now))
      BY <2>2 DEF Update
    <3> HIDE DEF now
    <3>2. id \in DOMAIN With(Nothing, id, now)
      BY DEF With
    <3> QED
      BY <3>1, <3>2, WriteSettled
  <2>3. CASE Add(c)
    <3>1. ask[c].op = "create"
      BY <2>3 DEF Add, IInv, Good, Working
    <3> DEFINE id == SubnetOf(ask[c].lo, ask[c].mask)
               new == Asking(ask[c])
    <3>2. /\ at[c] = "checked" /\ stale' = stale \cup {id}
          /\ Write(c, id, With(server, id, new), With(Nothing, id, new))
      BY <2>3 DEF Add
    <3> HIDE DEF id, new
    <3> QED
      BY <3>1, <3>2, WriteSettled
  <2> QED
    BY <1>3, <2>1, <2>2, <2>3
<1>4. ASSUME NEW c \in Calls, Refused(c) \/ Conflict(c) PROVE DriftInv'
  <2>1. at[c] # "wrote" /\ UNCHANGED <<server, ledger, ask, spurious, stale>> /\ \E status : Respond(c, status)
    BY <1>4 DEF Refused, Conflict, backendError, historyVars
  <2>2. ~Unsettled(ask[c].id)
    BY <2>1 DEF Unsettled, Alone
  <2> QED
    BY <2>1, <2>2, AnsweredSettled
<1>5. ASSUME NEW c \in Calls, Step(c) PROVE DriftInv'
  BY <1>1, <1>2, <1>3, <1>4, <1>5, LookSettled, ListedSettled, WroteSettled, FailSettled DEF Step
<1>6. ASSUME NEW id, Edit(id) PROVE DriftInv'
  BY <1>6, EditSettled
<1>7. CASE UNCHANGED vars
  BY <1>7 DEF vars, callVars, historyVars, DriftInv, Settled, Unsettled, Fresh
<1> QED
  BY <1>5, <1>6, <1>7 DEF Next

\* As long as calls come one at a time, a drift that is reported is a change by someone else,
\* or by a write that was left in doubt (reportDrift, UpdateScope's closing comment).
THEOREM DriftAlwaysReal == ASSUME Alone PROVE Spec => []DriftIsReal
<1>1. DriftInv => DriftIsReal
  BY DEF DriftInv, DriftIsReal
<1>2. Alone /\ IInv /\ Eyes /\ DriftInv /\ [Next]_vars => DriftInv'
  BY NextDrift
<1> QED
  BY <1>1, <1>2, InitIInv, NextIInv, InitEyes, NextEyes, InitDrift, PTL DEF Spec
=============================================================================
