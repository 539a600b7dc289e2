---------------------------- MODULE ScopeClient -----------------------------
(***************************************************************************)
(* The DHCP scope API of internal/adapters/dhcpwindows: the handlers, the  *)
(* Client that spawns one shell per backend call, and the drift ledger,    *)
(* against a Windows DHCP server (external) that administrators also edit. *)
(*                                                                         *)
(* Calls run concurrently and share only the ledger and the server. A      *)
(* spawned shell is killed when its context ends, at any point of its run: *)
(* what it had asked of the server by then has happened, the rest has not. *)
(*                                                                         *)
(* A scope is kept under its scopeId, the network address of its subnet,   *)
(* which also stands for the wadaptID derived from it (the derivation is   *)
(* injective: a collision of the 64-bit HMAC is left out).                 *)
(***************************************************************************)
EXTENDS Addressing, FiniteSets

CONSTANTS
  Calls,     \* the requests in progress at once
  Names,     \* stands for the attributes of the fingerprint that are no range
  Unfit,     \* and this for one that validateText or validateOptions refuses
  Omit,      \* an attribute the caller left out
  Asks,      \* the requests callers make
  Faults,    \* what can go wrong with a shell
  Edits,     \* the scopes administrators make, each with its scopeId
  MaxEdits   \* bound: edits by administrators

Scopes == [name : Names, mask : Addresses, lo : Addresses, hi : Addresses]
Given == Addresses \cup {NotAnAddress}

Requests ==
  [op : {"list", "get", "delete"}, id : Addresses]
    \cup [op : {"create"}, name : Names \cup {Omit, Unfit}, mask : Given, lo : Given, hi : Given]
    \cup [op : {"update"}, id : Addresses, name : Names \cup {Omit, Unfit}, lo : Given \cup {Omit}, hi : Given \cup {Omit}]

ASSUME ScopeClientAssumption ==
  /\ MaxEdits \in Nat /\ {Omit, Unfit} \cap (Names \cup Given) = {} /\ Omit # Unfit
  /\ Asks \subseteq Requests
  /\ \A e \in Edits : e.scope \in Scopes /\ Leasable(e.id, e.scope)
  /\ Faults \subseteq {"timeout", "unavailable", "malformed", "canceled"}

VARIABLES
  server,   \* the DHCP server: a function from the scopeIds that have a scope
  ledger,   \* driftLedger.seen: a function from the subnets ever observed
  at,       \* where each call is
  ask,      \* what it was asked
  saw,      \* what its last shell read or returned: a part of server, as it was
  answer,   \* its response, "none" before, "gone" when the caller has left
  alarms,   \* BACKEND-101 lines it emitted
  edits,    \* edits by administrators
  did,      \* history: it changed the server
  faulted,  \* history: a shell of it failed, timed out or was cancelled
  raced,    \* history: its subnet changed between its look and its write
  stale,    \* history: subnets changed since last observed, not by a settled update
  spurious  \* history: subnets DHCP-002 was emitted for while not stale

callVars    == <<at, ask, saw, answer, alarms, did, faulted>>
historyVars == <<raced, stale, spurious>>
vars        == <<server, ledger, callVars, edits, historyVars>>

Nothing == [s \in {} |-> {}]
Idle    == [op |-> "list", id |-> 0]

With(f, key, value) == [k \in DOMAIN f \cup {key} |-> IF k = key THEN value ELSE f[k]]
Without(f, key)     == [k \in DOMAIN f \ {key} |-> f[k]]

Init ==
  /\ server = Nothing /\ ledger = Nothing /\ edits = 0
  /\ at = [c \in Calls |-> "idle"]
  /\ ask = [c \in Calls |-> Idle]
  /\ saw = [c \in Calls |-> Nothing]
  /\ answer = [c \in Calls |-> "none"]
  /\ alarms = [c \in Calls |-> 0]
  /\ did = [c \in Calls |-> FALSE]
  /\ faulted = [c \in Calls |-> FALSE]
  /\ raced = [c \in Calls |-> FALSE]
  /\ stale = {} /\ spurious = {}

-----------------------------------------------------------------------------
(* What is judged before a shell is spawned for it, and the range of an    *)
(* update, judged against the scope its listing read.                      *)

Provided(value) == value # Omit

\* Where both ends are given they are compared; one alone waits for the listing.
validateRange(u) ==
  /\ \A end \in {u.lo, u.hi} : Provided(end) => parseIPv4(end)
  /\ Provided(u.lo) /\ Provided(u.hi) => u.lo <= u.hi

\* A create has to have a name, an update must not have an unfit one.
Validate(r) ==
  CASE r.op = "create" -> r.name \in Names /\ validateAddressing(r)
    [] r.op = "update" -> r.name # Unfit /\ validateRange(r)
    [] OTHER -> TRUE

effective(provided, existing) == IF provided = Omit THEN existing ELSE provided

\* Mutant: the end left out is taken from the one provided.
envCollapsed(u, existing) ==
  IF u.lo = Omit /\ u.hi = Omit THEN <<>>
  ELSE <<effective(u.lo, u.hi), effective(u.hi, u.lo)>>

env(u, existing) ==
  IF u.lo = Omit /\ u.hi = Omit THEN <<>>
  ELSE <<effective(u.lo, existing.lo), effective(u.hi, existing.hi)>>

\* Mutant: an inverted one-sided range goes through to the server.
validateLeasableOnly(u, existing) ==
  LET range == env(u, existing)
  IN  range # <<>> =>
        /\ \A i \in 1 .. 2 : networkAddr(range[i], existing.mask) = u.id
        /\ checkLeasableEnds(range[1], range[2], existing.mask)

\* Both ends leasable addresses of the subnet, and in order.
validateEffectiveRange(u, existing) ==
  LET range == env(u, existing)
  IN  range # <<>> =>
        /\ \A i \in 1 .. 2 : networkAddr(range[i], existing.mask) = u.id
        /\ checkLeasableEnds(range[1], range[2], existing.mask)
        /\ range[1] <= range[2]

\* What Set-DhcpServerv4Scope makes of a scope: it takes the range as a pair.
Set(u, existing, current) ==
  LET range == env(u, existing)
  IN  [name |-> effective(u.name, current.name), mask |-> current.mask,
       lo   |-> IF range = <<>> THEN current.lo ELSE range[1],
       hi   |-> IF range = <<>> THEN current.hi ELSE range[2]]

-----------------------------------------------------------------------------
(* The ledger.                                                              *)

Drifted(seen) == {s \in DOMAIN seen \cap DOMAIN ledger : seen[s] # ledger[s]}

\* observe, of a whole listing or of one scope. Entries are never evicted. A
\* subnet seen as it is by now is no longer stale.
observe(seen) ==
  /\ ledger' = [s \in DOMAIN seen \cup DOMAIN ledger |-> IF s \in DOMAIN seen THEN seen[s] ELSE ledger[s]]
  /\ stale' = stale \ {s \in DOMAIN seen \cap DOMAIN server : seen[s] = server[s]}

\* observe, and DHCP-002 for every identity that drifted.
reportDrift(seen) ==
  /\ observe(seen)
  /\ spurious' = spurious \cup (Drifted(seen) \ stale)

-----------------------------------------------------------------------------
(* The server.                                                              *)

\* Mutant: the script looks for a scope with the same address only.
OverlappingExact(r) == {s \in DOMAIN server : s = r.id}

\* What the create script finds: any scope whose subnet intersects the new one.
Overlapping(r) == {s \in DOMAIN server : Overlap(r.id, r.mask, s, server[s].mask)}

\* What the server finds.
Clashing(net, mask) == {s \in DOMAIN server : Block(net, mask) \cap Block(s, server[s].mask) # {}}

\* Whoever changes a scope does it behind the back of the others working on it.
Disturb(id, others) ==
  raced' = [c \in Calls |->
    \/ raced[c]
    \/ /\ c \in others /\ at[c] \in {"looked", "writing", "checked"}
       /\ \/ ask[c].id = id
          \/ /\ ask[c].op = "create"
             /\ \E s \in {server, server'} :
                  id \in DOMAIN s /\ Block(ask[c].id, ask[c].mask) \cap Block(id, s[id].mask) # {}]

\* An administrator creates, edits, recreates or removes a scope.
Edit(id) ==
  /\ edits < MaxEdits /\ edits' = edits + 1
  /\ \/ \E e \in Edits :
          /\ e.id = id /\ Clashing(id, e.scope.mask) \subseteq {id}
          /\ server' = With(server, id, e.scope)
     \/ /\ id \in DOMAIN server
        /\ server' = Without(server, id)
  /\ server' # server
  /\ stale' = stale \cup {id}
  /\ Disturb(id, Calls)
  /\ UNCHANGED <<ledger, callVars, spurious>>

-----------------------------------------------------------------------------
(* A request and its answer.                                                *)

Ended == {"idle", "done"}
Spawned == {"listing", "looked", "writing", "checked", "conflict", "wrote"}

\* What the call read is forgotten with its answer.
Respond(c, status) ==
  /\ at' = [at EXCEPT ![c] = "done"]
  /\ answer' = [answer EXCEPT ![c] = status]
  /\ saw' = [saw EXCEPT ![c] = Nothing]

\* The scopeId of a create is computed from what was asked.
Asked(r) == IF r.op # "create" THEN r ELSE With(r, "id", IF Validate(r) THEN ScopeID(r) ELSE 0)

\* The handler: a mistake that shows without the scope is refused before anything is
\* spawned; a create goes straight to its own shell, the others list first.
Ask(c) ==
  /\ at[c] \in Ended
  /\ \E r \in Asks :
       /\ ask' = [ask EXCEPT ![c] = Asked(r)]
       /\ IF ~Validate(r)
          THEN Respond(c, "Invalid")
          ELSE /\ at' = [at EXCEPT ![c] = IF r.op = "create" THEN "writing" ELSE "listing"]
               /\ answer' = [answer EXCEPT ![c] = "none"]
               /\ UNCHANGED saw
  /\ alarms' = [alarms EXCEPT ![c] = 0]
  /\ did' = [did EXCEPT ![c] = FALSE]
  /\ faulted' = [faulted EXCEPT ![c] = FALSE]
  /\ raced' = [raced EXCEPT ![c] = FALSE]
  /\ UNCHANGED <<server, ledger, edits, stale, spurious>>

\* Mutant: a cancelled call is reported like any other failure.
backendErrorAlways(c, status) ==
  /\ alarms' = [alarms EXCEPT ![c] = @ + 1]
  /\ Respond(c, status)

\* backendError: BACKEND-101, unless the caller has left.
backendError(c, status) ==
  /\ alarms' = [alarms EXCEPT ![c] = IF status = "gone" THEN @ ELSE @ + 1]
  /\ Respond(c, status)

Status(fault) ==
  CASE fault = "timeout"  -> "GatewayTimeout"
    [] fault = "canceled" -> "gone"
    [] OTHER              -> "BadGateway"

-----------------------------------------------------------------------------
(* The shells.                                                              *)

\* The shell reads the whole server.
Look(c) ==
  /\ at[c] = "listing"
  /\ at' = [at EXCEPT ![c] = "looked"]
  /\ saw' = [saw EXCEPT ![c] = server]
  /\ UNCHANGED <<server, ledger, ask, answer, alarms, did, faulted, edits, historyVars>>

\* ListScopes returns; a read is answered, a write resolved against the listing.
Listed(c) ==
  LET r == ask[c] IN
  /\ at[c] = "looked"
  /\ reportDrift(saw[c])
  /\ IF r.op = "list" THEN Respond(c, "OK")
     ELSE IF r.id \notin DOMAIN saw[c] THEN Respond(c, "NotFound")
     ELSE IF r.op = "get" THEN Respond(c, "OK")
     ELSE IF r.op = "update" /\ ~validateEffectiveRange(r, saw[c][r.id])
          THEN Respond(c, "Invalid")
     ELSE at' = [at EXCEPT ![c] = "writing"] /\ UNCHANGED <<answer, saw>>
  /\ UNCHANGED <<server, ask, alarms, did, faulted, edits, raced>>

\* A shell changes the server.
Write(c, id, after, seen) ==
  /\ server' = after
  /\ at' = [at EXCEPT ![c] = "wrote"]
  /\ saw' = [saw EXCEPT ![c] = seen]
  /\ did' = [did EXCEPT ![c] = TRUE]
  /\ Disturb(id, Calls \ {c})
  /\ UNCHANGED <<ledger, ask, answer, alarms, faulted, edits, spurious>>

\* What Windows asks of a delete and of an update: the scope is there, and the
\* range is leasable and in order.
Settable(c) ==
  LET id == ask[c].id IN
  /\ id \in DOMAIN server
  /\ ask[c].op = "update" => Leasable(id, Set(ask[c], saw[c][id], server[id]))

Remove(c) ==
  LET id == ask[c].id IN
  /\ at[c] = "writing" /\ ask[c].op = "delete" /\ Settable(c)
  /\ Write(c, id, Without(server, id), Nothing)
  /\ stale' = stale \cup {id}

Update(c) ==
  LET id == ask[c].id IN
  /\ at[c] = "writing" /\ ask[c].op = "update" /\ Settable(c)
  /\ LET now == Set(ask[c], saw[c][id], server[id])
     IN  Write(c, id, With(server, id, now), With(Nothing, id, now))
  /\ UNCHANGED stale

\* The create script looks for a scope that intersects the new one.
CheckOverlap(c) ==
  LET taken == Overlapping(ask[c]) IN
  /\ at[c] = "writing" /\ ask[c].op = "create"
  /\ IF taken = {}
     THEN at' = [at EXCEPT ![c] = "checked"] /\ UNCHANGED saw
     ELSE \E s \in taken :
            /\ at' = [at EXCEPT ![c] = "conflict"]
            /\ saw' = [saw EXCEPT ![c] = With(Nothing, s, server[s])]
  /\ UNCHANGED <<server, ledger, ask, answer, alarms, did, faulted, edits, historyVars>>

\* What Windows asks of a create: a subnet that is free, and a range it leases.
Asking(r) == [name |-> r.name, mask |-> r.mask, lo |-> r.lo, hi |-> r.hi]
Addable(r) ==
  /\ Leasable(SubnetOf(r.lo, r.mask), Asking(r))
  /\ Clashing(SubnetOf(r.lo, r.mask), r.mask) = {}

\* And then, not atomically, adds it. Windows derives the scopeId for itself.
Add(c) ==
  LET r == ask[c]
      id == SubnetOf(r.lo, r.mask)
  IN
  /\ at[c] = "checked" /\ Addable(r)
  /\ Write(c, id, With(server, id, Asking(r)), With(Nothing, id, Asking(r)))
  /\ stale' = stale \cup {id}

\* Mutant: a delete Windows refuses counts as done.
RefusedAsDone(c) ==
  /\ \/ at[c] = "writing" /\ ask[c].op # "create" /\ ~Settable(c)
     \/ at[c] = "checked" /\ ~Addable(ask[c])
  /\ IF ask[c].op = "delete"
     THEN Respond(c, "NoContent") /\ UNCHANGED alarms
     ELSE backendError(c, "BadGateway")
  /\ UNCHANGED <<server, ledger, ask, did, faulted, edits, historyVars>>

\* Windows refuses the write: the target is gone, the space was taken, or the
\* range is not one it will set.
Refused(c) ==
  /\ \/ at[c] = "writing" /\ ask[c].op # "create" /\ ~Settable(c)
     \/ at[c] = "checked" /\ ~Addable(ask[c])
  /\ backendError(c, "BadGateway")
  /\ UNCHANGED <<server, ledger, ask, did, faulted, edits, historyVars>>

\* A create that found the space taken: 409 for the very same subnet, 422 for
\* another one. No backend failure, so no alarm.
Conflict(c) ==
  /\ at[c] = "conflict"
  /\ Respond(c, IF ask[c].id \in DOMAIN saw[c] THEN "Conflict" ELSE "Unprocessable")
  /\ UNCHANGED <<server, ledger, ask, alarms, did, faulted, edits, historyVars>>

\* Mutant: an update does not touch the ledger.
WroteUnobserved(c) ==
  /\ at[c] = "wrote"
  /\ CASE ask[c].op = "delete" -> Respond(c, "NoContent") /\ UNCHANGED <<ledger, stale, spurious>>
       [] ask[c].op = "create" -> Respond(c, "Created") /\ reportDrift(saw[c])
       [] ask[c].op = "update" -> Respond(c, "OK") /\ UNCHANGED <<ledger, stale, spurious>>
  /\ UNCHANGED <<server, ask, alarms, did, faulted, edits, raced>>

\* The write succeeded and its payload decodes to the one scope asked for, or a create
\* made another one. An update re-baselines the ledger in silence; a delete leaves its
\* entry there.
Wrote(c) ==
  /\ at[c] = "wrote"
  /\ CASE ask[c].op = "delete" -> Respond(c, "NoContent") /\ UNCHANGED <<ledger, stale, spurious, alarms>>
       [] ask[c].op = "create" ->
            /\ reportDrift(saw[c])
            /\ IF ask[c].id \in DOMAIN saw[c] THEN Respond(c, "Created") /\ UNCHANGED alarms
               ELSE backendError(c, "BadGateway")
       [] ask[c].op = "update" -> Respond(c, "OK") /\ observe(saw[c]) /\ UNCHANGED <<spurious, alarms>>
  /\ UNCHANGED <<server, ask, did, faulted, edits, raced>>

\* Mutant: the listing is spawned without the command timeout.
FailUnbounded(c, fault) ==
  /\ at[c] \in Spawned \ {"listing"}
  /\ fault = "malformed" => at[c] # "wrote" \/ ask[c].op # "delete"
  /\ backendError(c, Status(fault))
  /\ faulted' = [faulted EXCEPT ![c] = TRUE]
  /\ stale' = IF did[c] THEN stale \cup {ask[c].id} ELSE stale
  /\ UNCHANGED <<server, ledger, ask, did, edits, raced, spurious>>

\* The shell fails, is killed by the deadline or the caller's departure, or
\* prints nonsense; nobody decodes what a delete prints.
Fail(c, fault) ==
  /\ at[c] \in Spawned
  /\ fault = "malformed" => at[c] # "wrote" \/ ask[c].op # "delete"
  /\ backendError(c, Status(fault))
  /\ faulted' = [faulted EXCEPT ![c] = TRUE]
  /\ stale' = IF did[c] THEN stale \cup {ask[c].id} ELSE stale
  /\ UNCHANGED <<server, ledger, ask, did, edits, raced, spurious>>

Step(c) ==
  \/ Ask(c) \/ Look(c) \/ Listed(c)
  \/ Remove(c) \/ Update(c) \/ CheckOverlap(c) \/ Add(c)
  \/ Refused(c) \/ Conflict(c) \/ Wrote(c)
  \/ \E fault \in Faults : Fail(c, fault)

Next ==
  \/ \E c \in Calls : Step(c)
  \/ \E id \in {e.id : e \in Edits} : Edit(id)

\* The command timeout fires: a shell may hang wherever it is, and the deadline
\* is all that is sure to end it.
Fairness == \A c \in Calls : WF_vars(\E fault \in Faults \cap {"timeout"} : Fail(c, fault))

Spec == Init /\ [][Next]_vars /\ Fairness
-----------------------------------------------------------------------------
(* Correctness.                                                             *)

\* The client is the single owner of BACKEND-101: one line for each call the
\* backend failed, none for a call that succeeded, was the caller's mistake,
\* found the space taken or was abandoned (backendError, and the conflict path
\* of CreateScope that avoids it).
OneAlarmPerFailure ==
  \A c \in Calls :
    alarms[c] = IF answer[c] \in {"BadGateway", "GatewayTimeout"} THEN 1 ELSE 0

\* A client mistake cannot manufacture an outage signal: whatever raises an
\* alarm is a shell that failed, or a subnet that changed while the call was
\* working on it; and no create that Windows would take is refused as a mistake
\* (ScopeInput.Validate, validateEffectiveRange, and the overlap check).
AlarmIsDeserved ==
  \A c \in Calls :
    /\ alarms[c] > 0 => faulted[c] \/ raced[c]
    /\ answer[c] = "Invalid" /\ ask[c].op = "create" /\ ask[c].name \in Names /\ parseIPv4(ask[c].mask) =>
         ~Leasable(SubnetOf(ask[c].lo, ask[c].mask), Asking(ask[c]))

\* The status tells what happened to the server: a success means that this very
\* call changed it, a refusal that it did not (the three writes).
ClaimsAreTrue ==
  \A c \in Calls :
    /\ answer[c] \in {"Created", "NoContent"} => did[c]
    /\ answer[c] = "OK" => (did[c] <=> ask[c].op = "update")
    /\ answer[c] \in {"Invalid", "NotFound", "Conflict", "Unprocessable"} => ~did[c]

\* An update changes what it was asked to change and nothing else, as long as
\* nobody works on the same subnet (env fills in the end it was not given).
UpdateKeepsTheRest ==
  [][\A c \in Calls : Update(c) /\ ~raced[c] =>
       LET was == server[ask[c].id]
           now == server'[ask[c].id]
       IN  \A f \in {"name", "lo", "hi"} : ask[c][f] = Omit => now[f] = was[f]]_vars

\* DHCP-002 is emitted only about a subnet that someone else changed, or that a
\* write left in doubt, since it was last observed: an intentional change causes
\* none (UpdateScope's closing comment). True of one call at a time; a listing
\* that overlaps an update breaks it.
DriftIsReal == spurious = {}

\* The command timeout bounds every call.
CallsEnd == \A c \in Calls : at[c] \in Spawned ~> at[c] = "done"
=============================================================================
