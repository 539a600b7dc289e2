------------------------------- MODULE Setup -------------------------------
(***************************************************************************)
(* The setup command: seven steps that are all checked, and then, unless   *)
(* one of them is blocked, applied in order to a host on which the Service *)
(* Control Manager, an administrator and accidents are at work meanwhile.  *)
(*                                                                         *)
(* A run works on one data directory with a config file and a token store  *)
(* in it (the log is written there too), one binary directory and one      *)
(* service. Contents are kept as far as a step tells them apart; a second  *)
(* run may follow the first with the same flags.                           *)
(***************************************************************************)
EXTENDS ServiceManager, FileSecurity

CONSTANTS Hosts,    \* the hosts a run may be started on
          FlagSets, \* the command lines it may be started with
          Verbs,    \* the Manager calls an administrator may make beside it
          MaxRuns   \* how many runs follow one another

VARIABLES flags,   \* of the command line
          host,    \* files and what guards them
          store,   \* the tokens in the token store
          loaded,  \* the tokens the running process read at its start
          run,     \* the command in progress
          shown,   \* has the minted token been shown?
          served,  \* the namespace keys under which a process ever ran
          hurt     \* what has gone wrong so far

setupVars == <<flags, host, store, loaded, run, shown, served, hurt>>
vars == <<mgrVars, setupVars>>

-----------------------------------------------------------------------------
Tokens == {"usable", "expired", "taken", "minted"}
Labelled == {"expired", "taken", "minted"}  \* these carry the label the run asks for
Keys == {"old", "new"}  \* "old" also stands for the key an operator supplies in a file
\* "partial" does not load; "noAuth" turns authentication off; "other" differs from a flag.
Contents == {"absent", "partial", "good", "noAuth", "other"}
Loads(content) == content \in {"good", "noAuth", "other"}
Guarded == {"dir", "config", "store"}

\* The elevated process is the owner of what it creates, or its group is.
ByRun == host.creator
ProgramData == Directory([owner |-> "SYSTEM", grants |-> {[sid |-> g, canWrite |-> TRUE] : g \in LockdownGrantees \cup {"Users"}}])

\* Mutant: the configuration is written before its directory is locked.
stepsConfigFirst == <<"config", "directory", "token", "binary", "install", "start", "verify">>

steps == <<"directory", "config", "token", "binary", "install", "start", "verify">>

Name == steps[run.step]

Conditions == {"satisfied", "pending", "blocked", "error"}
NotRun == [n |-> 0, phase |-> "none", step |-> 1, at |-> "none", verdicts |-> <<>>, wants |-> FALSE,
           auth |-> TRUE, key |-> "old", up |-> FALSE, minted |-> FALSE, code |-> 0]

\* The command line a run registers, as the parts of it that may differ.
Wanted == [copy |-> flags.copy, own |-> flags.own]

\* Setup and an administrator's command are two of the callers, and every command line
\* that either may register can be registered.
ASSUME CommandAssumption ==
  /\ {"setup", "admin"} \subseteq Callers /\ Verbs \subseteq Ops /\ MaxRuns \in Nat
  /\ FlagSets \subseteq [dry: BOOLEAN, restart: BOOLEAN, reinstall: BOOLEAN, copy: BOOLEAN, own: BOOLEAN,
                         key: {"none", "supplied", "generate"}, out: BOOLEAN]
  /\ \A f \in FlagSets : {[copy |-> f.copy, own |-> f.own], [copy |-> ~f.copy, own |-> f.own]} \subseteq Commands

\* A host is described in full, and no token on it is one that a run of this behaviour is
\* yet to mint. An earlier install was finished or taken back, and a host that has served
\* has kept the registration or one of the files.
ASSUME HostsAssumption ==
  \A h \in Hosts :
    /\ DOMAIN h.host = {"acl", "content", "key", "binary", "bindir", "creator"}
    /\ DOMAIN h.host.acl = Guarded /\ \A o \in Guarded : DOMAIN h.host.acl[o] = {"kind", "sec"}
    /\ h.host.content \in Contents /\ h.host.key = "old" /\ h.host.binary \in {"absent", "old", "new"}
    /\ h.store \subseteq Tokens \ {"minted"} /\ Cardinality(h.store \cap Labelled) <= 1
    /\ h.loaded \subseteq Tokens /\ h.served \subseteq {"old"} /\ h.state \in States
    /\ \/ h.reg = Unregistered /\ h.state = "stopped"
       \/ \E command \in Commands \cup {Garbled} : h.reg = Registered(command, Whole)
    /\ h.served # {} => h.reg.there \/ h.host.content # "absent" \/ \E o \in {"config", "store"} : h.host.acl[o].kind # "absent"

TypeOK ==
  /\ ManagerTypeOK /\ flags \in FlagSets
  /\ host.content \in Contents /\ host.key \in Keys /\ host.binary \in {"absent", "old", "new"}
  /\ store \subseteq Tokens /\ loaded \subseteq Tokens /\ served \subseteq Keys
  /\ Cardinality(store \cap Labelled) <= 1
  /\ run.phase \in {"none", "check", "apply", "ended"} /\ run.step \in 1..7
  /\ \A i \in DOMAIN run.verdicts : run.verdicts[i] \in Conditions
  /\ run.phase = "check" => Len(run.verdicts) = run.step - 1 \/ Len(run.verdicts) = 7
  /\ run.code \in 0..4 /\ shown \in BOOLEAN

-----------------------------------------------------------------------------
(* The service process, from launch to the end of its start.               *)

Usable(tokens) == tokens \ {"expired"}

\* A registration made for another configuration runs on files not followed here.
Ours == reg.command # Garbled /\ reg.command.own = flags.own

checkFileSecurity ==
  /\ \A target \in Guarded : checkSecurable(host.acl[target], "PolicyOwned")
  /\ checkSecurable(host.bindir, "PolicyNoForeignWrite")

buildAuth == host.content = "noAuth" \/ Usable(store) # {}
WouldStart ==
  Ours =>
    checkFileSecurity /\ Loads(host.content) /\ buildAuth /\ (reg.command.copy => host.binary # "absent")

ProcessUp ==
  /\ ComesUp /\ WouldStart
  /\ loaded' = IF Ours THEN Usable(store) ELSE {"usable"}
  /\ served' = served \cup {IF Ours THEN host.key ELSE "old"}
  /\ UNCHANGED <<flags, host, store, run, shown, hurt>>

ProcessRefuses == GoesDown /\ ~WouldStart /\ UNCHANGED setupVars
ProcessEnds == Drained /\ UNCHANGED setupVars
ProcessDies == Dies /\ hurt' = hurt \cup {"death"} /\ UNCHANGED <<flags, host, store, loaded, run, shown, served>>
ScmRestarts == Restart /\ UNCHANGED setupVars

-----------------------------------------------------------------------------
(* What each step makes of the host, without touching it.                  *)

\* own: the configuration is the layout's, not one the operator brought.
owns == flags.own

directoryCheck ==
  CASE ~owns -> "satisfied"
    [] owns /\ ~CheckNotReparsePoint(host.acl["dir"]) -> "error"
    [] owns /\ host.acl["dir"].kind = "absent" -> "pending"
    [] OTHER -> IF checkDirectoryGrants(host.acl["dir"], "PolicyOwned") THEN "satisfied" ELSE "pending"

\* One that is there is judged as it is; one that is not is rendered and judged in
\* memory, where all it can lack is a key.
configCheck ==
  IF host.content # "absent" THEN IF host.content \in {"good", "noAuth"} THEN "satisfied" ELSE "error"
  ELSE IF flags.key = "none" \/ ~owns THEN "error" ELSE "pending"

tokenCheck ==
  CASE ~run.auth -> "satisfied"
    [] run.auth /\ Usable(store) # {} -> "satisfied"
    [] OTHER -> IF "expired" \in store THEN "error" ELSE "pending"

Running == reg.there /\ state = "running"

binaryCheck ==
  IF ~flags.copy \/ host.binary = "new" THEN "satisfied"
  ELSE IF host.binary = "absent" \/ ~Running \/ flags.restart THEN "pending" ELSE "blocked"

installCheck ==
  CASE ~reg.there -> "pending"
    [] reg.there /\ reg.command = Garbled -> "blocked"
    [] reg.there /\ reg.command = Wanted -> "satisfied"
    [] OTHER -> IF flags.reinstall THEN "pending" ELSE "blocked"

startCheck ==
  IF ~Running THEN "pending"
  ELSE IF ~run.wants THEN "satisfied" ELSE IF flags.restart THEN "pending" ELSE "blocked"

Verdict(step) ==
  CASE step = "directory" -> directoryCheck [] step = "config" -> configCheck
    [] step = "token" -> tokenCheck [] step = "binary" -> binaryCheck
    [] step = "install" -> installCheck [] step = "start" -> startCheck
    [] step = "verify" -> "pending"

\* Which checks leave word that the service has to be restarted.
wantsRestart(step) ==
  \/ step = "token" /\ tokenCheck = "pending"
  \/ step = "binary" /\ flags.copy /\ host.binary = "old" /\ Running /\ flags.restart

-----------------------------------------------------------------------------
(* The command line.                                                       *)

\* Mutant: only the directory is asked whether the host has held a key.
guardRekeyByDirectory ==
  /\ owns /\ CheckNotReparsePoint(host.acl["dir"])
  /\ host.content = "absent" /\ host.acl["config"].kind = "absent" /\ host.acl["store"].kind = "absent"

\* A key is only generated where nothing is left of an earlier one.
guardRekey ==
  /\ owns /\ CheckNotReparsePoint(host.acl["dir"])
  /\ host.content = "absent" /\ host.acl["config"].kind = "absent" /\ host.acl["store"].kind = "absent"
  /\ ~reg.there

\* Mutant: only a run that succeeds reports its token.
FinishQuiet(code) ==
  /\ run' = [run EXCEPT !.phase = "ended", !.at = "none", !.code = code]
  /\ shown' = (shown \/ (run.minted /\ code \in {0, 4}))

\* fill and the report: whatever the run came to, a token that was minted is shown.
\* An unwritable --token-out only turns a success into a failure.
Finish(code) ==
  /\ \E outFails \in IF run.minted /\ flags.out THEN BOOLEAN ELSE {FALSE} :
       run' = [run EXCEPT !.phase = "ended", !.at = "none",
                          !.code = IF outFails /\ code \in {0, 4} THEN 1 ELSE code]
  /\ shown' = (shown \/ run.minted)

Begun == [NotRun EXCEPT !.n = run.n + 1, !.phase = "check",
                        !.key = IF flags.key = "generate" THEN "new" ELSE "old",
                        !.up = reg.there /\ state = "running"]

runSetup ==
  /\ run.phase \in {"none", "ended"} /\ run.n < MaxRuns
  /\ run' = IF flags.key = "generate" /\ ~guardRekey
            THEN [Begun EXCEPT !.phase = "ended", !.code = 2] ELSE Begun
  /\ UNCHANGED <<mgrVars, flags, host, store, loaded, shown, served, hurt>>

-----------------------------------------------------------------------------
(* Checking, then applying.                                                *)

Check ==
  /\ run.phase = "check" /\ Len(run.verdicts) < 7
  /\ LET verdict == Verdict(Name) IN
     IF verdict = "error" THEN Finish(1)
     ELSE /\ run' = [run EXCEPT !.verdicts = Append(@, verdict), !.step = IF @ = 7 THEN 7 ELSE @ + 1,
                                !.wants = @ \/ wantsRestart(Name),
                                !.auth = IF Name = "config" THEN host.content # "noAuth" ELSE @]
          /\ UNCHANGED shown
  /\ UNCHANGED <<mgrVars, flags, host, store, loaded, served, hurt>>

\* Nothing is touched by a dry run or around a step that is blocked.
Decide ==
  /\ run.phase = "check" /\ Len(run.verdicts) = 7
  /\ LET blocked == \E i \in 1..7 : run.verdicts[i] = "blocked" IN
     IF flags.dry \/ blocked THEN Finish(IF blocked THEN 3 ELSE 0)
     ELSE run' = [run EXCEPT !.phase = "apply", !.step = 1, !.at = "start"] /\ UNCHANGED shown
  /\ UNCHANGED <<mgrVars, flags, host, store, loaded, served, hurt>>

Applying(step, at) == run.phase = "apply" /\ Name = step /\ run.at = at
Enter(step) == Applying(step, "start") /\ run.verdicts[run.step] = "pending"

\* How a piece of an Apply ends: by going on, by ending the step, or by failing.
To(at) == run' = [run EXCEPT !.at = at] /\ UNCHANGED shown
NextStep == run' = [run EXCEPT !.step = @ + 1, !.at = "start"] /\ UNCHANGED shown
Failed == Finish(1)
Accident(kind) == faults > 0 /\ faults' = faults - 1 /\ hurt' = hurt \cup {kind} /\ Failed

Skip ==
  /\ run.phase = "apply" /\ run.at = "start" /\ run.verdicts[run.step] # "pending"
  /\ NextStep /\ UNCHANGED <<mgrVars, flags, host, store, loaded, served, hurt>>

-----------------------------------------------------------------------------
(* directory                                                               *)

Locked(acl, targets) ==
  [o \in Guarded |-> IF o \in targets /\ acl[o].kind # "absent" THEN [acl[o] EXCEPT !.sec = Lockdown] ELSE acl[o]]

MakeDirectory ==
  /\ Enter("directory") /\ To("lock")
  /\ host' = IF host.acl["dir"].kind # "absent" THEN host
             ELSE [host EXCEPT !.acl["dir"] = Directory(Born(ByRun, ProgramData))]
  /\ UNCHANGED <<mgrVars, flags, store, loaded, served, hurt>>

LockDirectory ==
  /\ Applying("directory", "lock") /\ CheckNotReparsePoint(host.acl["dir"])
  /\ host' = [host EXCEPT !.acl = Locked(@, {"dir"})] /\ NextStep
  /\ UNCHANGED <<mgrVars, flags, store, loaded, served, hurt>>

(* config                                                                  *)

\* O_EXCL: one that has appeared is an error, and is not touched. What a failed
\* write leaves behind stays there.
CreateConfig ==
  /\ Enter("config")
  /\ IF host.content # "absent" THEN Failed /\ UNCHANGED host
     ELSE /\ host' = [host EXCEPT !.content = "partial", !.acl["config"] = File(Born(ByRun, host.acl["dir"]))]
          /\ To("write")
  /\ UNCHANGED <<mgrVars, flags, store, loaded, served, hurt>>

WriteConfig ==
  /\ Applying("config", "write")
  /\ host' = [host EXCEPT !.content = "good", !.key = run.key] /\ NextStep
  /\ UNCHANGED <<mgrVars, flags, store, loaded, served, hurt>>

(* token                                                                   *)

\* The host once a token store has been saved to it.
WithStore == IF host.acl["store"].kind # "absent" THEN host
             ELSE [host EXCEPT !.acl["store"] = File(Born(ByRun, host.acl["dir"]))]

\* Mutant: the store is not asked again whether the label is free.
SaveTokenUnchecked ==
  /\ Enter("token")
  /\ store' = store \cup {"minted"} /\ host' = WithStore
  /\ run' = [run EXCEPT !.at = "lock", !.minted = TRUE] /\ UNCHANGED shown
  /\ UNCHANGED <<mgrVars, flags, loaded, served, hurt>>

\* Loaded again; a label taken meanwhile fails the mint, with the file untouched.
SaveToken ==
  /\ Enter("token")
  /\ IF store \cap Labelled # {} THEN Failed /\ UNCHANGED <<host, store>>
     ELSE /\ store' = store \cup {"minted"}
          /\ host' = WithStore
          /\ run' = [run EXCEPT !.at = "lock", !.minted = TRUE] /\ UNCHANGED shown
  /\ UNCHANGED <<mgrVars, flags, loaded, served, hurt>>

LockStore ==
  /\ Applying("token", "lock")
  /\ host' = [host EXCEPT !.acl = Locked(@, {"store"})] /\ NextStep
  /\ UNCHANGED <<mgrVars, flags, store, loaded, served, hurt>>

-----------------------------------------------------------------------------
(* binary                                                                  *)

Call(op) == Begin("setup", op, Wanted)
Answered(errs) == Returned("setup") /\ calls["setup"].err \in errs
SetupOnly == UNCHANGED <<reg, source, state, due>>

StopForReplace ==
  /\ Enter("binary")
  /\ IF host.binary = "absent" THEN To("copy") /\ UNCHANGED calls ELSE Call("stop") /\ To("stop")
  /\ SetupOnly /\ UNCHANGED <<faults, flags, host, store, loaded, served, hurt>>

Replace ==
  /\ Applying("binary", "stop") /\ Returned("setup") /\ Leave("setup")
  /\ IF Answered({"none", "absent"}) THEN To("copy") ELSE Failed
  /\ SetupOnly /\ UNCHANGED <<faults, flags, host, store, loaded, served, hurt>>

\* A process started meanwhile holds its image open again, and the rename fails.
HeldOpen == host.binary # "absent" /\ reg.command # Garbled /\ reg.command.copy /\ state # "stopped"

CopyFile ==
  /\ Applying("binary", "copy")
  /\ IF HeldOpen THEN Failed /\ UNCHANGED host ELSE host' = [host EXCEPT !.binary = "new"] /\ NextStep
  /\ UNCHANGED <<mgrVars, flags, store, loaded, served, hurt>>

-----------------------------------------------------------------------------
(* install                                                                 *)

\* Mutant: an existing registration is replaced without --reinstall.
RemoveExistingAlways ==
  /\ Enter("install")
  /\ IF reg.there THEN Call("uninstall") /\ To("remove") ELSE To("check") /\ UNCHANGED calls
  /\ SetupOnly /\ UNCHANGED <<faults, flags, host, store, loaded, served, hurt>>

RemoveExisting ==
  /\ Enter("install")
  /\ IF flags.reinstall /\ reg.there THEN Call("uninstall") /\ To("remove") ELSE To("check") /\ UNCHANGED calls
  /\ SetupOnly /\ UNCHANGED <<faults, flags, host, store, loaded, served, hurt>>

Removed ==
  /\ Applying("install", "remove") /\ Returned("setup") /\ Leave("setup")
  /\ IF Answered({"none"}) THEN To("check") ELSE Failed
  /\ SetupOnly /\ UNCHANGED <<faults, flags, host, store, loaded, served, hurt>>

\* Install looks at the file on disk and the binary's directory before registering.
Install ==
  /\ Applying("install", "check")
  /\ IF Loads(host.content) /\ checkDirectoryGrants(host.bindir, "PolicyNoForeignWrite")
     THEN Call("install") /\ To("register")
     ELSE Failed /\ UNCHANGED calls
  /\ SetupOnly /\ UNCHANGED <<faults, flags, host, store, loaded, served, hurt>>

Registers ==
  /\ Applying("install", "register") /\ Returned("setup") /\ Leave("setup")
  /\ IF Answered({"none"}) THEN To("secure") ELSE Failed
  /\ SetupOnly /\ UNCHANGED <<faults, flags, host, store, loaded, served, hurt>>

\* The config, the store when there is one, and the log's directory.
SecurePaths ==
  /\ Applying("install", "secure")
  /\ IF \A o \in Guarded : CheckNotReparsePoint(host.acl[o])
     THEN host' = [host EXCEPT !.acl = Locked(@, Guarded)] /\ NextStep
     ELSE Failed /\ UNCHANGED host
  /\ UNCHANGED <<mgrVars, flags, store, loaded, served, hurt>>

-----------------------------------------------------------------------------
(* start and verify                                                        *)

StartService ==
  /\ Enter("start")
  /\ IF run.wants THEN Call("stop") /\ To("stop") ELSE Call("start") /\ To("wait")
  /\ SetupOnly /\ UNCHANGED <<faults, flags, host, store, loaded, served, hurt>>

Stopped ==
  /\ Applying("start", "stop") /\ Returned("setup")
  /\ IF Answered({"none", "absent"}) THEN Call("start") /\ To("wait") ELSE Leave("setup") /\ Failed
  /\ SetupOnly /\ UNCHANGED <<faults, flags, host, store, loaded, served, hurt>>

Started ==
  /\ Applying("start", "wait") /\ Returned("setup") /\ Leave("setup")
  /\ IF Answered({"none"}) THEN NextStep ELSE Failed
  /\ SetupOnly /\ UNCHANGED <<faults, flags, host, store, loaded, served, hurt>>

\* Mutant: a service that never answered is reported like an unhealthy one.
VerifyQuietly ==
  /\ Enter("verify")
  /\ \/ state = "running" /\ To("prove")
     \/ state # "running" /\ Finish(4)
  /\ UNCHANGED <<mgrVars, flags, host, store, loaded, served, hurt>>

\* Polled until it answers or the deadline passes.
Verify ==
  /\ Enter("verify")
  /\ \/ state = "running" /\ To("prove")
     \/ state # "running" /\ Failed
  /\ UNCHANGED <<mgrVars, flags, host, store, loaded, served, hurt>>

\* With no token to present, or nobody there to take it, the proof is skipped; only a
\* 401 fails the run. The health found decides between the two successes.
ProveAuth ==
  /\ Applying("verify", "prove")
  /\ IF run.minted /\ run.auth /\ state = "running" /\ "minted" \notin loaded THEN Failed
     ELSE \E code \in {0, 4} : Finish(code)
  /\ UNCHANGED <<mgrVars, flags, host, store, loaded, served, hurt>>

-----------------------------------------------------------------------------
(* Around the run.                                                         *)

\* A call of the file system fails in the middle of a step.
Fault ==
  /\ run.phase = "apply" /\ <<Name, run.at>> \in
       {<<"directory", "lock">>, <<"config", "write">>, <<"token", "start">>, <<"token", "lock">>,
        <<"binary", "copy">>, <<"install", "secure">>}
  /\ run.verdicts[run.step] = "pending" /\ Accident("fault")
  /\ UNCHANGED <<reg, source, state, due, calls, flags, host, store, loaded, served>>

\* The command is killed; its handles close with it.
Crash ==
  /\ run.phase = "apply" /\ faults > 0 /\ faults' = faults - 1 /\ hurt' = hurt \cup {"crash"}
  /\ run' = [run EXCEPT !.phase = "ended", !.at = "none", !.code = 1]
  /\ Leave("setup") /\ reg' = Left(reg, calls', state)
  /\ UNCHANGED <<source, state, due, flags, host, store, loaded, shown, served>>

\* An administrator uses the service subcommand beside the run: start, stop, or an
\* install from another binary, which ends with the lockdown like the run's own.
AdminBegins ==
  /\ run.phase \in {"check", "apply"} /\ faults > 0 /\ faults' = faults - 1
  /\ calls["admin"].op = "none" /\ hurt' = hurt \cup {"admin"}
  /\ \E verb \in Verbs :
       /\ verb = "install" => Loads(host.content) /\ checkDirectoryGrants(host.bindir, "PolicyNoForeignWrite")
       /\ Begin("admin", verb, [Wanted EXCEPT !.copy = ~@])
  /\ SetupOnly /\ UNCHANGED <<flags, host, store, loaded, run, shown, served>>

AdminEnds ==
  /\ Returned("admin") /\ Leave("admin") /\ SetupOnly
  /\ host' = IF calls["admin"].op # "install" \/ calls["admin"].err # "none" THEN host
             ELSE [host EXCEPT !.acl = Locked(@, Guarded)]
  /\ UNCHANGED <<faults, flags, store, loaded, run, shown, served, hurt>>

\* `service secure`: the lockdown alone, on a configuration that loads.
AdminSecures ==
  /\ run.phase \in {"check", "apply"} /\ faults > 0 /\ faults' = faults - 1 /\ hurt' = hurt \cup {"admin"}
  /\ Loads(host.content) /\ \A o \in Guarded : CheckNotReparsePoint(host.acl[o])
  /\ host' = [host EXCEPT !.acl = Locked(@, Guarded)]
  /\ UNCHANGED <<reg, source, state, due, calls, flags, store, loaded, run, shown, served>>

\* `token gen` with the label this run is about to use.
AdminMints ==
  /\ run.phase \in {"check", "apply"} /\ faults > 0 /\ faults' = faults - 1 /\ hurt' = hurt \cup {"admin"}
  /\ host.acl["dir"].kind = "directory" /\ store \cap Labelled = {} /\ store' = store \cup {"taken"}
  /\ host' = WithStore
  /\ UNCHANGED <<reg, source, state, due, calls, flags, loaded, run, shown, served>>

\* Somebody puts a configuration of their own there while the run is under way.
Edit ==
  /\ run.phase \in {"check", "apply"} /\ faults > 0 /\ faults' = faults - 1 /\ hurt' = hurt \cup {"edit"}
  /\ host.content = "absent" /\ host.acl["dir"].kind = "directory"
  /\ host' = [host EXCEPT !.content = "good", !.key = "old", !.acl["config"] = File(Born(ByRun, host.acl["dir"]))]
  /\ UNCHANGED <<reg, source, state, due, calls, flags, store, loaded, run, shown, served>>

ManagerSteps ==
  /\ \E c \in Callers :
       \/ ManagerStep(c) /\ hurt' = (IF faults' < faults THEN hurt \cup {"scm"} ELSE hurt)
       \/ DeleteFails(c) /\ hurt' = hurt \cup {"scm", "undeleted"}
  /\ UNCHANGED <<flags, host, store, loaded, run, shown, served>>

ApplyStep ==
  \/ Skip \/ MakeDirectory \/ LockDirectory \/ CreateConfig \/ WriteConfig \/ SaveToken \/ LockStore
  \/ StopForReplace \/ Replace \/ CopyFile \/ RemoveExisting \/ Removed \/ Install \/ Registers \/ SecurePaths
  \/ StartService \/ Stopped \/ Started \/ Verify \/ ProveAuth

Next ==
  \/ runSetup \/ Check \/ Decide \/ ApplyStep \/ ManagerSteps
  \/ ProcessUp \/ ProcessRefuses \/ ProcessEnds \/ ProcessDies \/ ScmRestarts
  \/ Fault \/ Crash \/ AdminBegins \/ AdminEnds \/ AdminSecures \/ AdminMints \/ Edit

Init ==
  /\ flags \in FlagSets
  /\ \E h \in Hosts :
       /\ h.own = flags.own
       /\ host = h.host /\ store = h.store /\ loaded = h.loaded /\ served = h.served
       /\ reg = h.reg /\ state = h.state /\ source = h.reg.there
  /\ due = FALSE /\ faults = MaxFaults /\ calls = [c \in Callers |-> Idle]
  /\ run = NotRun /\ shown = FALSE /\ hurt = {}

Spec == Init /\ [][Next]_vars

-----------------------------------------------------------------------------
(* Properties.                                                             *)

Undisturbed == hurt = {}

\* A registration is either complete, with the recovery schedule, the flag that makes it
\* fire, the drain budget and the Event Log source, or an Install is still working on
\* it; a failed Install has taken it back. Only a killed command, or a Delete that also
\* fails, leaves a part of one (Manager.Install). The source is shared by name, so an
\* uninstall that overlaps another command's install may take that one's.
RegistrationIsWhole ==
  reg.there /\ ~reg.marked /\ (reg.has # Whole \/ (~source /\ "admin" \notin hurt)) =>
    (\E c \in Callers : calls[c].op \in {"install", "uninstall"}) \/ hurt \cap {"crash", "undeleted"} # {}

\* A token that a run put into the store is shown by that run, however it ends, unless
\* it is killed: the store keeps a hash, so nobody could show it later (Plan.fill, runSetup).
TokenIsShown == run.phase = "ended" /\ "minted" \in store /\ "crash" \notin hurt => shown

\* Whatever a run creates in its own layout grants nothing to an outsider from its first
\* moment: the directory is locked before anything is written into it (Plan.steps).
BornLocked ==
  [][\A o \in {"config", "store"} :
       flags.own /\ run.phase = "apply" /\ host.acl[o].kind = "absent" /\ host'.acl[o].kind # "absent" /\ faults' = faults
         => checkGrants(host'.acl[o].sec.grants)]_vars

\* What has to be asked for is not done unasked: no registration is replaced without
\* --reinstall, no configuration is ever rewritten, and a service that was up when the
\* command began is not stopped without --restart or --reinstall (Options.Restart,
\* Options.Reinstall, configStep.Apply).
NothingUnasked ==
  [][/\ reg.there /\ reg'.there => reg'.command = reg.command
     /\ reg.there /\ ~reg'.there /\ reg.has = Whole /\ source => flags.reinstall
     /\ host.content # "absent" /\ host'.content # host.content => run.at = "write" /\ host.content = "partial"
     /\ Undisturbed /\ run.up /\ state = "running" /\ state' = "stopping" => flags.restart \/ flags.reinstall]_vars

\* No host ever serves under two namespace keys: a key is only generated where nothing,
\* neither a file nor a registration, is left of an earlier one (guardRekey).
OneKeyPerHost == Cardinality(served) <= 1

\* A run that nothing disturbed and that reports success leaves the service running, as
\* this run would register it, completely registered, and serving the token it minted; and
\* no such run finds its own token rejected, because the need for a restart is known
\* before the start step is checked (verifyStep.Apply, tokenStep.Check).
SuccessIsComplete ==
  Undisturbed /\ ~flags.dry =>
    /\ run.phase = "ended" /\ run.code \in {0, 4} =>
         /\ Running /\ reg.command = Wanted /\ reg.has = Whole
         /\ run.minted /\ run.auth => "minted" \in loaded
    /\ Applying("verify", "prove") /\ state = "running" /\ run.minted /\ run.auth => "minted" \in loaded

\* For every descriptor an object may have: what passes the gate of the starting service
\* is out of every outsider's reach, and what is out of reach passes (CheckSecurity,
\* readGrants). Nothing in it changes, so it is evaluated where a behaviour begins.
GateIsSound == run = NotRun => \A sd \in Descriptors : JudgedAsItIs(sd)

\* However its path is spelled, a log file at the root of a volume or a share, or straight
\* in a directory of the system, is refused, and one in a directory of its own is not
\* (CheckSecurables, logDirOf, normalizeLocation).
LockdownIsAimed ==
  run = NotRun => \A place \in Places : \A file \in Spellings(place, "log") : AimedAt(place, file)

\* What the usage of setup promises of a second run: one that ends well has finished the
\* job, so that the service knows every usable token in the store and is completely
\* registered, also when the first run was killed.
RerunFinishes ==
  run.phase = "ended" /\ run.n = 2 /\ run.code \in {0, 4} /\ hurt = {"crash"} =>
    reg.has = Whole /\ Usable(store) \subseteq loaded

\* What the usage of setup promises of one run: it registers the service, starts it and
\* checks that it came up. With --reinstall given and nothing else wrong, a run that has
\* registered the service does not come to its verification with nobody to answer.
RegisteredIsStarted ==
  Undisturbed /\ Enter("verify") /\ WouldStart => state # "stopped"
=============================================================================
