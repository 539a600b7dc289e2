# TLA+ verification of weave-adapter-dhcp-windows

`weave-adapter-dhcp-windows` is a Windows service, in Go, that puts an HTTP API in
front of a Windows DHCP server, and the command that installs it. Each API call spawns
one or two PowerShell processes; nothing is stored besides a token file, a log and a
configuration. What is hard in it is not the data but the order of things: a service
that must stop when the SCM says so while requests are in flight, calls that are
killed halfway through a change, several callers and administrators working on one
server, a budget of seconds that five components have to share, and a setup of seven
steps that may stop after any of them and is then run again.

The specifications here are translated from the source under `src/internal` and
`src/cmd`. `PROJECT.json` names, for each definition, the lines it stands for.

## 1. The system

### Parts, state, operations

| Part | Source | State it keeps | Operations | Correct means |
|---|---|---|---|---|
| SCM controller | `core/winsvc/controller.go` | last report, `stopped`, phase of `Run`, two timers, result and ready channels | `Run`: starting, running, draining, abandon; `control`, `finish` | `Running` means serving; a stop is always carried through; the exit code asks for a restart only when nobody asked for a stop; the checkpoint keeps moving; a correct drain is never written off |
| SCM bridge, process | `core/winsvc/winsvc_windows.go`, `cmd/.../main.go` | one command in transit, `logClose`, the error of Serve | pump, `translate`, `runWith`, `reportOutcome` | what the two halves promise each other fits; every failure leaves a record |
| HTTP server | `core/httpserver/server.go` | listener, error channel, connections | bind, ready, serve, drain | nobody is cut off before the grace period is over; a listener that failed is not reported as a clean end |
| Scope client | `adapters/dhcpwindows/{client,mutate,create,update,drift,scope}.go` | drift ledger | list, create, delete, update, and their validation | a status says what happened to the server; an alarm means an outage; a drift warning means a drift |
| Runner | `adapters/dhcpwindows/runner.go` | one child process | run, kill, reap | every call ends, in a bounded time |
| Scope handlers | `adapters/dhcpwindows/{scopes,scope_item}.go` | none | GET, POST, PATCH, DELETE, paging, filter | one answer for each outcome, none to a caller who left |
| Health | `core/health`, `adapters/dhcpwindows/probe.go` | cached verdict, last status, a mutex | poll, refresh, probe | a bad verdict is the backend's doing; every poll ends in time; each transition is announced once |
| Token store, CLI | `core/auth/{store,mint,token}.go`, `cmd/.../token.go` | the token file | gen, list, revoke: load, change, save | a save is all or nothing; a revoked token stays revoked |
| Bearer authentication | `core/auth/{bearer,verifier}.go` | the tokens as they were at startup | verify | only an unexpired token of the store passes |
| Pagination, ETag | `core/pagination`, `core/etag` | the resume key in a page token; a response buffer | slice, page token, conditional response | a scope that is there throughout a walk appears once; a 304 stands for the same body |
| Setup | `core/setup`, `cmd/.../setup*.go` | the host: files, tokens, service | check all, plan, apply in order, verify | nothing is changed unless everything may be; what was minted is shown; what is reported as done is done |
| Service manager | `core/winsvc/service_windows.go`, `eventlog_windows.go` | the registration, its event source | install, uninstall, start, stop, wait | a registration is whole or taken back |
| File security | `core/winsvc/secure*.go` | owners and access lists of what the service depends on | read back, judge, lock down | what passes is out of an outsider's reach; what is shared is never locked down |
| Middleware, errors, events, config, request bodies | `core/middleware`, `core/apierror`, `core/events`, `core/observability`, `core/config`, `core/requestbody` | none to speak of | per request or per start | wrappers, tables and parsing |

### How they interact

    SCM --commands--> pump --unbuffered channel--> Controller.Run
     ^                                               | ctx, ready()     ^ result (1 slot)
     |                                               v                  |
     | start, stop,                                runWith -> httpserver.Run <-> net/http
     | create, delete                                handlers -> Client -> one shell per call -> DHCP server
     |                                                             |                               ^
    Manager <--- setup, service subcommand                       ledger (mutex)            administrators
                    |
                 files and their access lists, token store

The controller and the goroutine that serves share a context, a `ready` channel and
a result channel with one slot. Inside the server, `Run` and `http.Server.Serve`
share a channel with one slot. Calls of the client run concurrently and share the
ledger, which is locked, and the DHCP server, which is not. Health polls share a
mutex that is held across a probe. One drain budget is given to the server, to the
controller and to the SCM; a command timeout and a kill grace are given to the client
and, summed, to the server's write bound. Setup and the `service` and `token`
subcommands share the host with each other and with the running service, without a lock.

### What is hard

Every hazard we know of is listed under `hazards` in `PROJECT.json`, at its line.
They fall into: a `select` that may take any of several ready cases; deadlines that
fall together (drain budget, margin, SCM hint; command timeout, grace, write
bound); a shell killed between two effects; a check and a use with other callers
in between (overlap and add, list and set, check and apply); observations applied in
another order than they were made; a verdict cached for callers who had no part in it;
a token file that is loaded, changed and saved without a lock, on a system that may
lose the rename; a collection that changes between its pages; a command that fails or
is killed between two steps; and arithmetic at the edges of a subnet.

## 2. The modules

| Module | Models | Checked by | Proved in |
|---|---|---|---|
| `ScmContract` | what the SCM may rely on: status order, stop, exit code | refined by `Controller` | |
| `Controller` | `Controller.Run` around any ServeFunc and any sender | `MCController` | `ControllerProofs` |
| `HttpServer` | `runWith` up to the server, `Server.Run`, net/http as an environment | in `MCAdapterService` | `AdapterServiceProofs` |
| `AdapterService` | `Controller` and `HttpServer` composed in one process under the SCM | `MCAdapterService` | `AdapterServiceProofs` |
| `Addressing` | words, masks, ranges and overlap, beside what the DHCP server makes of a subnet | in `MCScopeClient` | in `ScopeClientProofs` |
| `ScopeClient` | handlers, client, ledger, shells, DHCP server, administrators | `MCScopeClient` | `ScopeClientProofs` |
| `CallDeadlines` | the time such a request takes | `MCCallDeadlines` | `CallDeadlinesProofs` |
| `Health` | polls, the mutex, the probe and its shell, the cached verdict, HLT-001 | `MCHealth` | `HealthProofs` |
| `ScopeWalk` | a client walking `GET /api/v1/scopes`; pages, tokens, tags, the response buffer | `MCScopeWalk` | `ScopeWalkProofs` |
| `TokenStore` | token commands, the token file, the verifier of a running service | `MCTokenStore` | `TokenStoreProofs` |
| `FileSecurity` | access lists, the two policies, the lockdown and where it may be aimed | in `MCSetup` | in `SetupProofs` |
| `ServiceManager` | `Manager`'s calls against the SCM, for several callers | in `MCSetup` | in `SetupProofs` |
| `Setup` | the seven steps on a host with the SCM, an administrator and accidents | `MCSetup` | `SetupProofs` |

### Controller

`phase` is where `Run` is: before its first report, in one of the three phase
functions, in `abandon`, or returned. `last`, `stopped` and `cancelled` are the
session's fields and the state of its context. `ready` is the closed channel,
`result` the one-slot channel, `requests` what the sender offers on the unbuffered
one. `clock` is the age of the drain's timers and `ticked` the ticker's own slot.

One action per case of each `select`: `BecomeReady`, `TakeResult`, `TakeTick`,
`Backstop`, and `Acknowledge`, `TakeStop` or `abandon` for what arrives on
`requests`. Several can be enabled at once, and any of them may be taken, which is
what Go's `select` does. `TakeStop` covers `control` and what follows it in `Run`:
whichever phase it interrupts, the drain is next. `finish` covers `finish` and the
deferred `cancel`.

The environment is as free as it can be: Serve may signal ready any number of times
or never, may return at any point with any result, may ignore its context; any
command, known or not, may be offered at any time, and the channel may be closed.

Time advances only while `Run` waits in a `select` with neither a result nor a tick
to take. That is the one idealisation of the scheduler: between two selects `Run`
does no I/O except the status report, and its timers count seconds. Commands do not
stop time, so a result may still arrive together with the backstop.

`returnedAt` and `diedAlone` are history variables, read by properties only.

### ScmContract

Four variables, five actions, no channels, no time. `Controller!Contract` maps the
last status, the checkpoint, `stopped` and the outcome to it, and `ImplementsContract`
is the claim that every behaviour of the controller, its fairness included, is one of
the contract's: a status only moves forward, `Running` is impossible after a stop was
taken, `Failure` is impossible after it, and a stop that was taken ends in `Stopped`.

### HttpServer

`at` follows the goroutine that runs `runWith` and `Server.Run`; `accept` and `errCh`
the one that runs `http.Server.Serve`. net/http is external and is modelled by what
this code relies on: no request is accepted after `Shutdown` began, `Serve` then
returns `ErrServerClosed`, and `Shutdown` returns when the server is idle or its
context is over, noticing idleness late because it polls. A listener may fail at any
moment before the shutdown, kept-alive connections outlive it, handlers may hang.

A panic in a handler is recovered by the middleware, and so is not a way to end.

### AdapterService

Extends `Controller` and instantiates `HttpServer` with the same `cancelled`: the
context the controller cancels is the one the server waits on. `ready()` is a step of
both (`Ready`), and so is the return of `runWith` (`ServeOutcome`). The rest are steps
of one with the other's variables unchanged. `ScmSends` is the SCM behind the pump: it
sends Interrogate at will and otherwise only what the last status accepts.

`grace` and `clock` run together while `Shutdown` waits (`TimePasses`). `ServeLags`
is the time the serving goroutine spends before it gets to the next step, and `MaxLag`
the assumption about it: less than the margin. Wiring and binding are I/O and take as
long as they take, but a service that is starting accepts no stop, so no clock runs.

`ImplementsParts` is what makes the composition worth more than its own run: each
step of the service is a step of `Controller!Next` and of `HttpServer!Next`, so what is
checked and proved of the parts holds of the whole.

### Addressing

Addresses, masks and the test of a create as operators on words of `Width` bits (32 in
the code), and below them what the DHCP server itself makes of a subnet: a block of a
power of two, with a range inside it and free of both ends. The second half is written
with sets and division, the first with the code's masks: `Bits` is the set of places where
an address has a one, `Word` the address that has a given set of them, so that `&`, `|`
and `^` are intersection, union and the difference from the greatest address. No definition
of the code uses the second half; `AlarmIsDeserved` and the edits of administrators do. One
more number, `NotAnAddress`, stands for every text that `parseIPv4` refuses. `Power` is
`2 ^ k` by its recursion, which is what the proofs need of it.

### ScopeClient

A call (`Calls`) is one request being handled. `at` is where its handler or its shell
is, `saw` what its last shell read or printed, and one action is one effect on the
server or one return into the handler: `Look` and `Listed` are the two ends of a
listing, `CheckOverlap` and `Add` the two commands of the create script. Between any
two of them other calls and administrators (`Edit`) act. `Fail` is everything that ends
a shell early, the deadline and the caller's departure included, at any point of its
run, before or after its effect. A command in flight in a shell that is killed is
taken to have had its effect or not to have it by then.

A create is validated before a shell is spawned (`Validate`, `validateAddressing`); the
one end an update leaves out is completed from the listing, and the range judged then
(`env`, `validateEffectiveRange`). `Omit` is an attribute the caller left out, `Unfit`
a text or option that its own check refuses.

`ledger` is `driftLedger.seen`. `observe` and `reportDrift` are the functions of that
name. The fingerprint is a name (for every attribute that is not a range) and a range.

`did`, `faulted`, `raced`, `stale` and `spurious` are history variables.

Abstracted: a scope is kept under its scopeId, and its wadaptID is that number: the HMAC
is injective (the code detects a collision and answers 500). A listing that does not
decode, a mask that does not parse and a shell that prints several scopes are one fault,
`malformed`. A backend that changes another scope than it was asked to is not modelled.

### CallDeadlines

One request and the time since its headers were read. Each shell has a deadline of its
own (`Client.bounded`), a killed shell is reaped within `RunnerKillGrace`, and a
response is delivered if it is written before `WriteTimeout`. Only shells take time.

### Health

`holder` is the poll that holds the handler's mutex while it probes; a verdict served
from the cache is one step, because nothing in it blocks. `shell` is the probe's shell:
what it has read, its age, how long ago it read. `Outcomes` says how it can end: with
what it printed, in time, or killed at its deadline and reaped within `KillGrace`. The
deadline is that of a context detached from the poll (`context.WithoutCancel`), which is
why `Leave` appears nowhere in it.

`Record` is the part of `refresh` under the mutex. HLT-001 is owed by the poll that saw
the transition and emitted in `Answer`, after the mutex was released, so that another
poll may emit the next transition first.

Time is a tick; ages stop counting at the bound they are compared with, which keeps the
state space finite without a bound on the behaviour. The mutex is fair enough that a poll
does not wait once it is free; Go's mutexes hand over to a waiter that starves. `log`
counts events up and down; `trouble`, `readAge` and `first` are history variables.

### ScopeWalk

A client walks the collection and asks page after page, keeping the last response to each
URL and presenting its tag. `List` is the handler on one read of the backend, `Slice` the
cut by key, `Write` one call of the handler on the buffering writer, in pieces of any
size, `Conditional` what the wrapper does when the handler has returned. Between any two
steps a scope appears, disappears or changes (`Change`), the backend fails or the client
hangs up (`HangUp`) and asks again.

Keys are numbers in the order of the wadaptIDs. A token is the key it carries and a tag
is what it hashes: both encodings are injective, SHA-256 by assumption. A response has as
many units as its page has scopes, and one more for the envelope.

### TokenStore

`file` is the token file and `cmd` the command each administrator runs: `Gen` and
`Revoke` are a command from its load to the temporary file, `Flush`, `Rename` and
`Report` the rest of it, and `Abort` every way to end early, from a full disk to a
closed terminal. `LoadOrEmpty` and `Add` return the set of possible results, empty
when the code returns an error; all errors come before the file is touched.

`durable` is the file whose name is on the disk. On Windows, which is where the
service runs, `syncDir` does nothing, so the two may differ for a while (`Settle`) and
a power loss takes either. `flushed` says whether the bytes are on the disk: a
file without them comes back empty.

`served` is the verifier, read by `buildAuth` when the service starts and never again.
`weave` is the token the client presents. `Switch` and the guard on `weave` in `Revoke`
are the procedure of `docs/token-management.md`, the rest of which is free.

`hurt` names the tokens the program does not answer for: those an overlapping save
brought back or dropped, because it was computed from a file that had changed since,
and those a lost rename did. `shown`, `doomed` and `dead` are history variables too.

A missing file is an empty one, a token is its hash, and nobody guesses one.
Authentication that is switched off, the parsing of the header and the command that
lists are left out. `Edit` breaks the file's syntax or mends it; an edit that changes
its entries is the operator's own responsibility.

### FileSecurity

No state: a descriptor is an owner and an access list, which may be missing or null;
`readGrants`, the two policies, the lockdown and `Born` (what an object inherits when it
is created) are operators on it. A path is the sequence of its pieces, so that drive
roots, shares, long forms (`\\?\C:\`) and trailing separators can be told apart without
text. The last part is what Windows makes of the same: `MayChange` gives the principals
that may change an object, denials and ownership included, and `Spellings` the ways to
write one place. `GateIsSound` and `LockdownIsAimed` compare the two.

### ServiceManager

`reg` is the registration with the pieces `Install` has configured so far (recovery
actions, the flag that makes them fire on a code, the drain budget), `source` its event
source. A Manager call (`calls`) holds a handle from its first step to its last, and a
service that was marked for deletion goes when its process has and the last handle is
closed (`Left`). Each piece may fail, upon which the service is taken back (`RollBack`),
which may fail too (`DeleteFails`). `due` is the SCM's own restart of a process that died
or refused to start, and happens only where the configured pieces ask for it.

### Setup

Extends the two above. A host is what earlier runs, tokens minted by hand, upgrades and
strangers leave: files and what guards them, the token store, the registration, the
process. `Check` judges one step after the other and changes nothing; `Decide` refuses if
one is blocked; then each step is applied by its own actions, on the verdict it was given
then. `run.at` is where an Apply is, and each Manager call is the steps of
`ServiceManager` in between.

Around the run, and between any two of its steps: the SCM and the process (`ProcessUp`
has the start gate of `main.go`, `WouldStart`, as its guard), an administrator who uses
the `service` and `token` subcommands, somebody who puts a configuration there (`Edit`),
a call of the file system that fails (`Fault`), and a kill of the command (`Crash`). A
second run with the same flags may follow.

`loaded` is the verifier of the running process. `shown`, `served` (the keys a process
ever ran under) and `hurt` (what went wrong; `undeleted` is a Delete that failed) are
history variables. A configuration is kept as far as a step tells it apart: absent,
partial, good, without authentication, or in disagreement with a flag. Rendering it, the
report and its wording are left out.

## 3. What is checked

| Run | Question | States | Result |
|---|---|---|---|
| `controller` | Are status, checkpoint, exit code and backstop right in every interleaving, is every command taken, does it implement the contract? | 898 | holds |
| `service` | Do controller and server fit together under the SCM, with one budget? | 2,152 | holds |
| `scope_serial` | With one caller, every operation, range and mask and every fault: do alarms and warnings mean what they say? | 368,541 | holds |
| `scope_racing` | With two callers on nested subnets: is each told the truth? | 338,443 | holds |
| `deadlines` | How long does a request take, and is its answer still written? | 1,618 | holds |
| `health` | Polls that queue, hang up and share a verdict: is it deserved, recent and announced once? | 244,448 | holds |
| `scope_walk` | A walk over a changing collection: is it complete, whole, and is a 304 true? | 281,043 | holds |
| `tokens` | With two administrators, restarts and power losses: what becomes of a token that was shown, revoked or is in use? | 2,603,544 | holds |
| `setup` | On any of sixteen hosts, run twice with accidents: what does a run leave behind, and what may it claim? | 308,092 | holds |
| `slowest_handler` | The write bound clears the slowest handler | | violated |
| `setup_rerun` | A second run finishes what a killed one left | | violated |
| `setup_reinstall` | Setup starts what it registers | | violated |

The properties, by what they guard:

* **Honest status.** `RunningIsHonest`, `RunningMeansBound`, `CheckpointFollowsClock`:
  the last one equates the checkpoint with the ticks the drain has lasted.
* **Exit.** `ExitCodeRule` is the table above `Run` stated by what happened (Serve died
  with its context live; no stop overtook it) rather than by the code's own test.
  `QuietEndIsClean` and `FailureIsRecorded` say that whatever is cut off or fails is on
  record.
* **Budgets.** `BudgetHonoured` (a Serve that keeps its budget is never written off),
  `LogCloserSettled` (so `runUnderSCM` may read `logClose` without a lock),
  `CutOffOnlyAfterGrace`, `CallIsBounded`, `OneShellIsHeard`, `PollIsBounded`.
* **Truth to callers and operators.** `ClaimsAreTrue`, `UpdateKeepsTheRest`,
  `OneAlarmPerFailure`, `AlarmIsDeserved`, `DriftIsReal`, `VerdictIsEarned`,
  `TransitionsAddUp`.
* **A collection in pages.** `WalkIsComplete`, `ResponseIsWhole`, `NotModifiedIsTrue`.
* **Credentials.** `OneTokenPerLabel`, `ShownTokenIsStored`, `NoRevival`,
  `RotationHasNoGap`: the program keeps its word about every token that is not `hurt`,
  and even then never publishes a file it would refuse to load. `TokenIsShown`: setup
  does not put a token into the store that nobody gets to see.
* **The host.** `RegistrationIsWhole`, `OneKeyPerHost`, `NothingUnasked`,
  `SuccessIsComplete`: what a run that was or was not disturbed may leave behind, may
  touch and may claim.
* **Files.** `BornLocked`, `GateIsSound`, `LockdownIsAimed`.
* **Progress.** `CommandsAnswered`, `StopEndsProcess`, `CallsEnd`, and the liveness of
  `ImplementsContract`.
* **Composition.** `ImplementsContract`, `ImplementsParts`.

Each property of a passing run has a mutant in `PROJECT.json`: a plausible bug (a
ticker that does not move the checkpoint, a probe on its poll's context, a search that
always steps over an item, a rename before the flush, a configuration written before its
directory is locked) under which TLC finds it violated. The mutated operators stand next
to the definitions they replace and are marked `Mutant`; nothing uses them.

### Bounds

* `controller`: `DrainBudget` 3, `DrainMargin` 2, `CheckpointEvery` 2: a tick, the end of
  the budget and the backstop fall on different instants, and the drain has several
  ticks. These properties are also proved for all values.
* `service`: `DrainBudget` 6, `DrainMargin` 3, `MaxInFlight` 3, `MaxLag` 2: requests that
  finish while others hang; a goroutine that is late by as much as the margin allows.
* `deadlines`: 10, 2 and 5 for `CommandTimeout`, `RunnerKillGrace` and `Margin`, the
  proportions of the defaults.
* Scopes: `Width` 4, with a subnet of four addresses inside one of eight: ranges that are
  widened, narrowed, inverted, touch the ends or leave; masks that are empty, have a gap
  or leave no hosts. `scope_serial` has one caller and two edits (`MaxEdits`: a change
  and its reversal, a removal and a recreation); `scope_racing` two callers, since every
  race in the code is between two, with timeouts and departures.
* `health`: `TTL` 2, `ProbeTimeout` 3, `CommandTimeout` 4, the rest 1: a verdict that
  expires while a probe runs, a deadline that falls together with an answer. Three polls,
  symmetric: one that probes, one that waits, one that comes later.
* `scope_walk`: three keys, pages of one and two (and sizes refused or clamped), a buffer
  of two units that a full page overflows, two changes, a second walk over kept copies,
  one failure.
* `tokens`: two administrators, two labels, two tokens (`MaxTokens`), one day (`Horizon`):
  a mint and a revoke that overlap, a label used again, a token that expires. Labels and
  administrators are symmetric. The properties are also proved for all values.
* `setup`: sixteen hosts and seven command lines, in every combination that fits, two
  runs (`MaxRuns`), two things that go wrong (`MaxFaults`). Rolling back an install and
  failing at it takes both; what `RegistrationIsWhole` excuses is a kill and a Delete that
  failed (`crash` and `undeleted` in `hurt`), whenever they happened.
* `GateIsSound` ranges over every descriptor with up to two entries out of three
  principals and three sets of rights, `LockdownIsAimed` over nine places in up to three
  spellings.

A stop may never be sent, a walk may be over, and a controller or setup that returned does
nothing more, so the runs that can come to rest say `CHECK_DEADLOCK FALSE`; those of the
scope client and of the health handler do not, and find no deadlock.

### Fairness

* `Controller`: weak fairness for each case of a `select`, because the runtime picks
  among ready cases at random and a case that stays ready is taken, and for time.
  Nothing for Serve and nothing for the sender.
* `AdapterService`: each goroutine takes its next step; startup's I/O ends; time passes.
  Handlers may hang and the SCM need never send anything.
* `ScopeClient`: only that the command timeout fires. A shell may hang anywhere.
* `TokenStore`, `Setup`: none. A command may stop at any step.
* `Health`, `ScopeWalk`: none. That a poll ends is stated as a bound on what it waited,
  which is stronger.

## 4. What disagrees with the documentation

* **`slowest_handler`.** `main.go:437`: the write bound must clear the slowest honest
  handler. It allows for one backend call; a delete and an update make two, each under
  its own deadline, and can take 22 seconds where the defaults allow 17. The change is made and
  the caller's connection is cut.
* **`setup_rerun`.** `setup.go:34`: a re-run finishes the job. `tokenStep.Apply` saves the
  token, and only the start step after it restarts the service. A run killed in between
  leaves a token in the store that the process does not know. The next run finds a usable
  token, wants no restart, has nothing to present, and reports success.
* **`setup_reinstall`.** `setup.go:31`: setup registers the service, starts it, and checks
  that it came up. The start step is judged before anything is applied, so a running
  service is satisfied; the install step of a `--reinstall` then stops and removes it, and
  nothing starts the one that replaces it unless a token was minted or a binary replaced.

Seen while modelling, and neither proved nor refuted by a run here:

* SYS-005, *the process did not start* (`docs/events.md:548,556`), is also emitted for a
  listener that fails after days of serving, hence after SYS-002 (`main.go:269`).
* An update of one end of a range sends the other as it was when the scope was listed,
  and so undoes a change that came in between (`update.go:174`), though an omitted field
  is left as it was (`openapi.yaml:298`). `UpdateKeepsTheRest` is what does hold.
* A listing that reads after an update's write and is observed before its re-baseline
  reports a drift nobody caused (`mutate.go:188`). With one call at a time `DriftIsReal`
  holds.
* The binary step stops a service that came up after the check, without `--restart`. A
  stop sent to a service that is still starting is refused, taken for a stop under way,
  and waited for until the time is up. `NothingUnasked` is about one that was up before.
* A registered command line that cannot be read back blocks setup even with `--reinstall`
  (`reconcile.go:29`). A failure between the registration and the lockdown that follows
  it is not repaired by a second run, whose install step is satisfied; the start gate
  then refuses the service. `--dry-run` says nothing about files that are not secured.
* An uninstall that overlaps another command's install removes that one's event source.
* `normalizeLocation` collapses no doubled separators and no `..`, and leaves
  `\\?\UNC\...` as it is; paths that need it are outside `Spellings`.
* HLT-001 lines may be written in the opposite order of their transitions.

And what the source says of itself: a create that loses a race is told 502 rather than
409 (`scope.go:265`), and so is a delete (`mutate.go:96`). Overlapping token commands lose
updates and Windows may lose a rename (`store.go:243`); `hurt` says how far the damage goes.

## 5. What is proved

The theorems hold for every value of the constants that satisfies the named assumptions:
positive timings (`New` panics on a budget that is not positive and replaces the others),
errors distinct from the tokens of the model, what `Config.Validate` establishes of the
timeouts, finite sets of polls and callers, hosts that are described in full.

**Controller.** None of the properties is inductive. Read alone, `BudgetHonoured` is
broken by a state with time beyond the budget and a result still in the channel whose
`returnedAt` is unrelated to the clock. The inductive invariant `IInv` therefore adds to
`TypeOK` and `BudgetHonoured`:

* `PhaseShape`: which report, flags and outcome go with each phase; in particular
  `stopped` and `cancelled` turn true on entering the drain and not before;
* `ServeShape`: until `Run` returns, the result channel is full exactly when Serve has
  returned, and no time has passed since; while Serve runs only a stop cancels it;
* `TickShape`: time starts with the drain, and each unit of it has at most one checkpoint,
  which bounds the checkpoint in `TypeOK`;
* `OutcomeShape`: the exit code's table, and that the backstop is later than the budget.

There is one lemma per action and under it one step per conjunct. From `IInv` follow
`TypeCorrect`, `RunningAlwaysHonest`, `ExitCodeCorrect` and `BudgetAlwaysHonoured`.
`CheckpointAlwaysFollowsClock` is a second invariant on top of it, with the arithmetic of
`\div` by any interval in lemmas of its own. `ImplementsContractSafety` shows that initial
states map to the contract's and each step to a step or a stutter.

**AdapterService.** `ImplementsPartsSafety` shows that each step of the service is a step
or a stutter of both parts, which carries `IInv` of the controller over to the composition.
Added to it: `ServerShape` (what goes with each step of the server), `Bound` (a phase in
which the service may run has a listener), `Clocks` and `Coupling`. `Clocks` is the heart:
the controller's clock is the server's grace plus what the goroutine was late by, which is
less than the margin, so the backstop cannot fire on a server that is draining. All five
invariants of the run follow.

**CallDeadlines.** `Accounted` relates the time elapsed to the shells spawned and the age
of the current one; with it the bound on a call and the delivery of what one shell
decides follow for every configuration.

**Health.** `Exclusive` says that the poll that probes is the one that holds the mutex,
`ShellShape` that trouble during a probe is noticed. `Queue` relates what each poll has waited to the age of
the shell it waits for, which is what bounds the wait for any number of polls;
`CacheShape` does the same for the age of the verdict. `TransitionsAddUp` counts the polls
that owe an event, so that each step is a lemma on the cardinality of that set.

**ScopeClient.** For any number of callers, requests, faults and edits, along four
invariants, each relative to those before it.

* `IInv`: for each call `Working` (one that is at work has raised no alarm, has no answer,
  and has changed the server exactly if its shell is past the write), the alarm and the
  claim. From it `ClaimsAreTrue` and `OneAlarmPerFailure`.
* `Eyes`: what a call has read is still what the server has, unless its `raced` says
  otherwise (`Sight`). From it `UpdateKeepsTheRest`.
* `AlarmInv`: the server holds only scopes that Windows leases from (`ServerFit`); a call
  at work is valid (`Known`, `Carries`) and was judged against its listing (`Resolved`,
  `Legible`); a create that passed its overlap check has its subnet for itself, or was raced
  (`Free`). So whatever Windows refuses was raced (`RefusedRaced`), and `AlarmIsDeserved`.
* `DriftInv`, for one call at a time, which is an assumption of the theorem because the
  property is false of two: what the ledger holds is what the server has, unless the
  subnet is `stale` or an update of it waits to be observed (`Settled`), and so is what is
  about to be reported (`Fresh`). From it `DriftIsReal`.

`AlarmIsDeserved` compares two notions of arithmetic, the code's masks and the server's
blocks, and the model checker does so in words of four bits. The theorem is for words of
any width, 32 included. It rests on lemmas about the powers of two and the bits of a number,
by induction (`Induction` restates for a set of numbers what the library proves of
well-founded relations): `Cleared` (a mask keeps the high bits, which is subtracting a
remainder), `ContiguousMasks` (the code's `inverted&(inverted+1)` test passes exactly the
masks that are ones and then zeros), `EndsOfBlock`, and from them `CreateJudged` (a create is
let through exactly when Windows takes it, under the scopeId that Windows gives it),
`UpdateJudged` (an update that is let through is one that Windows takes, if nobody changed
the scope) and `OverlapMeets` (the script's comparison finds exactly the subnets that share
an address).

**TokenStore.** That a shown token is stored says nothing of a save in flight, which may
replace the file by one without it. `IInv` adds what each command holds in relation to
what it loaded (`StoreShape`), so that whatever a save undoes is either being revoked or
was changed since the load, and then `hurt`; that a token being minted is nowhere else
(`Fresh`), so no save of another command revives a dead one; that labels and hashes are
unique (`Unique`), so a revoke removes one token and all of it; and that nothing is renamed
before its bytes are on the disk (`Flushed`). All five properties of the run follow.

**ScopeWalk.** For any set of keys and page sizes, any number of changes and any buffer.
A listing is built with cardinalities (`Ascending`); `AscendingIsSorted` is what the proof
uses of it: sorted, each element once, and every element. The invariant says that what a
client has met is behind its cursor and holds whatever was there throughout (`WalkInv`),
that a page of what was read follows the cursor, that what was sent, is held back and is
still to be written make up one response (`Streaming`, `Answered`), and that each kept copy
is what its tag was made of (`CopyInv`). From it follow `WalkIsComplete`, `ResponseIsWhole`
and `NotModifiedIsTrue`.

**Setup.** For every set of hosts and command lines, any number of runs, callers and
accidents. `SetupInv` says how far a run has come (`RunShape`), where its token is
(`TokenKept`: in the hands of its run, shown, or lost in a crash) and that the directory is
closed to outsiders from the moment it was found so or was locked (`DirLocked`). The last
needs that nobody opens it again: whoever else locks anything locks it down. From it follow
`TokenIsShown` and `BornLocked`.

`SetupFacts` adds what is known of the service, in parts, one per question:

* `TypeInv`, `CallsInv`: every variable's type, and who is in which call of the Manager.
* `RegInv`: a registration that is not whole is being built by someone, or a kill or a
  Delete that failed took that one away. From it `RegistrationIsWhole`.
* `RunInv`, `WriteInv`: a run applies nothing unless all seven verdicts let it, works only
  at a step that is pending, and writes only the file it created.
* `SourceInv`, `KeyInv`: a host serves under the key its configuration has, or has never
  served, or was left the key it served under. A run can generate a key only in the second
  case. From it `OneKeyPerHost`.
* `UnaskedInv`, `UpInv`: a service that is up when a run begins, and that no flag lets it
  stop, is in nobody's call and stays up. From it `NothingUnasked`.
* `SuccessInv`: what a run knows of the registration, the process and its token as long as
  nothing has gone wrong. From it `SuccessIsComplete`.

`HostsAssumption` restricts the hosts to those earlier runs leave: an earlier install was
finished or taken back, and a host that has served kept its registration or one of its
files. Without the second, a host that was emptied by hand would be given a new key.
`NothingUnasked` is proved where no administrator uninstalls beside the run, and TLC checks
it there: one who does makes the service absent after the run has judged it.
`AnyJudgedAsItIs` proves what `GateIsSound` checks of a few descriptors for all of them, of
any owner and with access lists of any length. `AnyLogIsAimed` does the same for
`LockdownIsAimed`: paths of any length with any names in them, provided that a directory's
path does not end in a separator and that no server is called like the mark of a long form
(`?`, `.`), which is what Windows takes for a name. It rests on what `TrimmedRight` leaves
of a path (`OnlyBlanksGo`) and on each spelling being brought to one form (`ShortDrive`,
`LongDrive`, `NormalShare`).

Only model-checked: all liveness, which needs `ENABLED`, and the three runs that find a
violation. `DriftIsReal` is claimed, checked and proved for one call at a time only.

## 6. Not modelled

* The runtime of PowerShell, of net/http, of Windows and its SCM: external, modelled by
  what the code and its scripts ask of it.
* A panic in Serve or in the controller. A crash of the process loses nothing but what is
  in memory; setup and the token commands, whose effects last, are modelled with crashes.
* Console mode: `Server.Run` under a signal instead of the SCM, which is `HttpServer`.
* The middleware chain, request bodies and problem documents: sequential wrappers and
  decoding of one request, without state. What they decide is an input of the models: a
  request is one that came through them.
* Events, logging and the configuration's precedence and parsing: formatting and I/O.
  Where a property needs an event, the model counts it.
* The HMAC behind a wadaptID and the digest behind a tag and a token: injective.
* Parsing of the Authorization header; the documents served and generated from the API.

## 7. What is left

In this order, the most important first.

1. Proofs: what does hold of `DriftIsReal` with several callers, which needs a ledger that
   remembers when it was told what.
2. The middleware chain as one module: recovery, body limits and authentication in their
   order, with the writers they wrap around `ScopeWalk`'s.
