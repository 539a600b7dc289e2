----------------------------- MODULE SetupProofs -----------------------------
(***************************************************************************)
(* Theorems about Setup.tla, for every set of hosts and command lines, any *)
(* number of runs, callers and accidents.                                  *)
(*                                                                         *)
(* What concerns the files and the token rests on SetupInv: how far a run  *)
(* has come, what has become of its token, and when its directory is       *)
(* locked. What concerns the service rests on SetupFacts, which adds who   *)
(* is inside which call of the Manager, who is building the registration,  *)
(* under which key the host may serve, and what a run that nothing has     *)
(* disturbed knows. Where the lockdown is aimed is a fact about paths, and *)
(* needs neither.                                                          *)
(***************************************************************************)
EXTENDS Setup, FiniteSetTheorems, SequenceTheorems, TLAPS

Fields == {"n", "phase", "step", "at", "verdicts", "wants", "auth", "key", "up", "minted", "code"}

\* A run checks step after step and applies on seven verdicts: the directory's is never
\* a refusal, and the verification is always due.
RunShape ==
  /\ DOMAIN run = Fields
  /\ run.phase \in {"none", "check", "apply", "ended"} /\ run.step \in 1..7
  /\ run.minted \in BOOLEAN /\ shown \in BOOLEAN
  /\ run.verdicts \in Seq(Conditions)
  /\ run.phase = "check" =>
       /\ Len(run.verdicts) <= 7
       /\ run.step = IF Len(run.verdicts) < 7 THEN Len(run.verdicts) + 1 ELSE 7
  /\ run.phase = "apply" => Len(run.verdicts) = 7
  /\ Len(run.verdicts) > 0 => run.verdicts[1] \in {"satisfied", "pending"}
  /\ Len(run.verdicts) = 7 => run.verdicts[7] = "pending"

\* Every file that can be guarded is described in full.
HostShape ==
  /\ DOMAIN host = {"acl", "content", "key", "binary", "bindir", "creator"}
  /\ DOMAIN host.acl = Guarded
  /\ \A o \in Guarded : DOMAIN host.acl[o] = {"kind", "sec"}

\* A minted token is in the hands of its run, shown, or lost in a crash.
TokenKept ==
  /\ run.phase = "none" => ~run.minted
  /\ run.phase = "ended" /\ run.minted => shown \/ "crash" \in hurt
  /\ "minted" \in store => run.minted \/ shown \/ "crash" \in hurt

DirGrants == host.acl["dir"].sec.grants

\* The directory of a run's own layout is closed to outsiders from the moment it was
\* found so, or was locked, to the end of the run.
DirLocked ==
  /\ run.phase = "apply" /\ run.step = 1 /\ run.at = "lock" => host.acl["dir"].kind # "absent"
  /\ flags.own /\ run.phase \in {"check", "apply"} /\ Len(run.verdicts) > 0
       /\ (run.verdicts[1] = "satisfied" \/ (run.phase = "apply" /\ run.step > 1))
     => checkGrants(DirGrants)

SetupInv == RunShape /\ HostShape /\ TokenKept /\ DirLocked

-----------------------------------------------------------------------------
(* What the operators of the model return.                                  *)

\* The lockdown grants nothing to an outsider.
LEMMA LockdownIsTight == checkGrants(Lockdown.grants)
<1>1. Lockdown.grants = {[sid |-> ace.sid, canWrite |-> confersWrite(ace.rights)] :
                          ace \in {x \in lockdownDACL.aces : x.allow}}
  BY DEF Lockdown, ReadSecurity, readGrants, lockdownDACL
<1>2. \A ace \in lockdownDACL.aces : ace.sid \in LockdownGrantees
  BY DEF lockdownDACL
<1> QED
  BY <1>1, <1>2 DEF checkGrants

\* Locking neither makes nor removes an object, and opens none.
LEMMA LockedKeeps ==
  ASSUME HostShape, NEW targets
  PROVE  LET acl == Locked(host.acl, targets) IN
         /\ DOMAIN acl = Guarded
         /\ \A o \in Guarded : DOMAIN acl[o] = {"kind", "sec"} /\ acl[o].kind = host.acl[o].kind
         /\ checkGrants(DirGrants) => checkGrants(acl["dir"].sec.grants)
         /\ "dir" \in targets /\ host.acl["dir"].kind # "absent" => checkGrants(acl["dir"].sec.grants)
<1> DEFINE acl == Locked(host.acl, targets)
<1>1. DOMAIN acl = Guarded
  BY DEF Locked
<1>2. \A o \in Guarded : acl[o] = IF o \in targets /\ host.acl[o].kind # "absent"
                                  THEN [host.acl[o] EXCEPT !.sec = Lockdown] ELSE host.acl[o]
  BY DEF Locked
<1>3. \A o \in Guarded : DOMAIN acl[o] = {"kind", "sec"} /\ acl[o].kind = host.acl[o].kind
  BY <1>2 DEF HostShape
<1>4. acl["dir"].sec = IF "dir" \in targets /\ host.acl["dir"].kind # "absent"
                       THEN Lockdown ELSE host.acl["dir"].sec
  BY <1>2 DEF HostShape, Guarded
<1> HIDE DEF acl
<1>5. /\ checkGrants(DirGrants) => checkGrants(acl["dir"].sec.grants)
      /\ "dir" \in targets /\ host.acl["dir"].kind # "absent" => checkGrants(acl["dir"].sec.grants)
  BY <1>4, LockdownIsTight DEF DirGrants
<1> QED
  BY <1>1, <1>3, <1>5 DEF acl

\* The first step is the directory's and the last one the verification.
LEMMA StepNames ==
  ASSUME RunShape
  PROVE  /\ Name = "directory" <=> run.step = 1
         /\ Name = "verify" <=> run.step = 7
BY DEF RunShape, Name, steps

\* A directory that satisfies its check grants nothing to an outsider.
LEMMA DirectoryVerdict ==
  /\ directoryCheck \in {"satisfied", "pending", "error"}
  /\ flags.own /\ directoryCheck = "satisfied" => checkGrants(DirGrants)
BY DEF directoryCheck, owns, checkDirectoryGrants, CheckSecurity, DirGrants

-----------------------------------------------------------------------------
(* The steps that leave a directory once locked as it is, and that only     *)
(* move a run along.                                                        *)

\* The guarded files are still described in full, and the directory is no more open.
HostKept ==
  /\ HostShape'
  /\ host.acl["dir"].kind = host'.acl["dir"].kind
  /\ checkGrants(DirGrants) => checkGrants(DirGrants')

\* A run stays where it is, ends, or goes on past its directory step.
RunMoves ==
  \/ UNCHANGED <<run, shown>>
  \/ \E code : Finish(code)
  \/ run.phase = "apply" /\ run.step > 1 /\ \E at : To(at)
  \/ run.phase = "apply" /\ run.step \in 2..6 /\ NextStep

LEMMA Frame ==
  ASSUME SetupInv, HostKept, RunMoves, UNCHANGED flags,
         "minted" \in store' => "minted" \in store, hurt \subseteq hurt'
  PROVE  SetupInv'
<1> USE DEF SetupInv, HostKept
<1>1. CASE UNCHANGED <<run, shown>>
  BY <1>1 DEF RunShape, TokenKept, DirLocked
<1>2. CASE \E code : Finish(code)
  BY <1>2 DEF Finish, Fields, RunShape, TokenKept, DirLocked
<1>3. CASE run.phase = "apply" /\ run.step > 1 /\ \E at : To(at)
  BY <1>3 DEF To, Fields, RunShape, TokenKept, DirLocked
<1>4. CASE run.phase = "apply" /\ run.step \in 2..6 /\ NextStep
  BY <1>4 DEF NextStep, Fields, RunShape, TokenKept, DirLocked
<1> QED
  BY <1>1, <1>2, <1>3, <1>4 DEF RunMoves

\* An unchanged host is one that is kept, and so is one that was locked.
LEMMA SameHost == ASSUME HostShape, UNCHANGED host PROVE HostKept
BY DEF HostShape, HostKept, DirGrants

LEMMA LockedHost ==
  ASSUME HostShape, NEW targets, host' = [host EXCEPT !.acl = Locked(@, targets)]
  PROVE  HostKept
<1>1. host'.acl = Locked(host.acl, targets) /\ DOMAIN host' = DOMAIN host
  BY DEF HostShape
<1> QED
  BY <1>1, LockedKeeps DEF HostShape, HostKept, DirGrants, Guarded

LEMMA NewFile ==
  ASSUME HostShape, NEW o \in {"config", "store"}, NEW sec, DOMAIN host' = DOMAIN host,
         host'.acl = [host.acl EXCEPT ![o] = File(sec)] \/ host'.acl = host.acl
  PROVE  HostKept
<1>1. DOMAIN host'.acl = Guarded /\ host'.acl["dir"] = host.acl["dir"]
  BY DEF HostShape, Guarded
<1>2. \A x \in Guarded : DOMAIN host'.acl[x] = {"kind", "sec"}
  BY DEF HostShape, Guarded, File
<1> QED
  BY <1>1, <1>2 DEF HostShape, HostKept, DirGrants

\* A step of the run past the directory's is one in which the run moves along.
LEMMA LaterStep ==
  ASSUME RunShape, run.phase = "apply", Name \notin {"directory", "verify"}
  PROVE  run.step \in 2..6
BY StepNames DEF RunShape

-----------------------------------------------------------------------------
(* Every step of the model.                                                 *)

LEMMA BeginsKeeps == ASSUME SetupInv, runSetup PROVE SetupInv'
<1> USE DEF SetupInv, runSetup, Begun, NotRun
<1>1. HostShape'
  BY DEF HostShape
<1>2. RunShape'
  BY DEF RunShape, Fields
<1>3. TokenKept'
  BY DEF RunShape, Fields, TokenKept
<1>4. DirLocked'
  BY DEF RunShape, Fields, DirLocked
<1> QED
  BY <1>1, <1>2, <1>3, <1>4

\* A verdict is appended, unless it is an error.
LEMMA CheckKeeps == ASSUME SetupInv, Check PROVE SetupInv'
<1> USE DEF SetupInv
<1>1. CASE Verdict(Name) = "error"
  <2>1. Finish(1) /\ UNCHANGED <<mgrVars, flags, host, store, loaded, served, hurt>>
    BY <1>1 DEF Check
  <2> QED
    BY <2>1, SameHost, Frame DEF RunMoves
<1>2. CASE Verdict(Name) # "error"
  <2> DEFINE v == Verdict(Name)
  <2>1. /\ run.phase = "check" /\ Len(run.verdicts) < 7 /\ run.step = Len(run.verdicts) + 1
        /\ UNCHANGED <<shown, flags, host, store, hurt>>
    BY <1>2 DEF Check, RunShape
  <2>2. run' = [run EXCEPT !.verdicts = Append(@, v), !.step = IF @ = 7 THEN 7 ELSE @ + 1,
                           !.wants = @ \/ wantsRestart(Name),
                           !.auth = IF Name = "config" THEN host.content # "noAuth" ELSE @]
    BY <1>2 DEF Check
  <2>3. v \in Conditions
    BY DEF Verdict, Conditions, directoryCheck, configCheck, tokenCheck, binaryCheck,
           installCheck, startCheck, RunShape, Name, steps
  <2>4. run.step = 1 => v = directoryCheck
    BY StepNames DEF Verdict
  <2>5. run.step = 7 => v = "pending"
    BY StepNames DEF Verdict
  <2> HIDE DEF v
  <2>6. /\ DOMAIN run' = Fields /\ run'.phase = "check" /\ run'.minted = run.minted
        /\ run'.verdicts = Append(run.verdicts, v)
        /\ run'.step = IF run.step = 7 THEN 7 ELSE run.step + 1
    BY <2>1, <2>2 DEF RunShape, Fields
  <2>7. /\ Len(run'.verdicts) = Len(run.verdicts) + 1 /\ run'.verdicts \in Seq(Conditions)
        /\ run'.verdicts[Len(run.verdicts) + 1] = v
        /\ Len(run.verdicts) > 0 => run'.verdicts[1] = run.verdicts[1]
    BY <2>3, <2>6 DEF RunShape
  <2>8. Len(run.verdicts) = 0 => v \in {"satisfied", "pending"}
    BY <1>2, <2>1, <2>4, DirectoryVerdict DEF v
  <2>9. RunShape'
    BY <2>1, <2>3, <2>5, <2>6, <2>7, <2>8 DEF RunShape
  <2>10. TokenKept'
    BY <2>1, <2>6 DEF TokenKept
  <2>11. HostShape'
    BY <2>1 DEF HostShape
  <2>12. DirLocked'
    <3>1. DirGrants' = DirGrants
      BY <2>1 DEF DirGrants
    <3>2. CASE Len(run.verdicts) = 0
      BY <2>1, <2>4, <2>6, <2>7, <3>1, <3>2, DirectoryVerdict DEF DirLocked
    <3>3. CASE Len(run.verdicts) > 0
      BY <2>1, <2>6, <2>7, <3>1, <3>3 DEF DirLocked
    <3> QED
      BY <3>2, <3>3 DEF RunShape
  <2> QED
    BY <2>9, <2>10, <2>11, <2>12
<1> QED
  BY <1>1, <1>2

LEMMA DecideKeeps == ASSUME SetupInv, Decide PROVE SetupInv'
<1> USE DEF SetupInv
<1>1. CASE \E code : Finish(code)
  BY <1>1, SameHost, Frame DEF Decide, RunMoves
<1>2. CASE ~\E code : Finish(code)
  <2>1. /\ run' = [run EXCEPT !.phase = "apply", !.step = 1, !.at = "start"]
        /\ run.phase = "check" /\ Len(run.verdicts) = 7
        /\ UNCHANGED <<shown, flags, host, store, hurt>>
    BY <1>2 DEF Decide
  <2>2. RunShape'
    BY <2>1 DEF RunShape, Fields
  <2>3. TokenKept' /\ HostShape'
    BY <2>1 DEF RunShape, Fields, TokenKept, HostShape
  <2>4. DirLocked'
    BY <2>1 DEF RunShape, Fields, DirLocked, DirGrants
  <2> QED
    BY <2>2, <2>3, <2>4
<1> QED
  BY <1>1, <1>2

\* A step that was satisfied is passed by; the verification never is.
LEMMA SkipKeeps == ASSUME SetupInv, Skip PROVE SetupInv'
<1> USE DEF SetupInv
<1>1. /\ run.phase = "apply" /\ run.step # 7 /\ NextStep
      /\ run.step = 1 => run.verdicts[1] = "satisfied"
      /\ UNCHANGED <<flags, host, store, hurt>>
  BY DEF Skip, RunShape
<1>2. RunShape'
  BY <1>1 DEF NextStep, RunShape, Fields
<1>3. TokenKept' /\ HostShape'
  BY <1>1 DEF NextStep, RunShape, Fields, TokenKept, HostShape
<1>4. DirLocked'
  BY <1>1 DEF NextStep, RunShape, Fields, DirLocked, DirGrants
<1> QED
  BY <1>2, <1>3, <1>4

\* The directory is made, open as its parent is; nothing rests on it yet.
LEMMA MakeDirectoryKeeps == ASSUME SetupInv, MakeDirectory PROVE SetupInv'
<1> USE DEF SetupInv
<1>1. /\ run.phase = "apply" /\ run.step = 1 /\ run.verdicts[1] = "pending" /\ To("lock")
      /\ UNCHANGED <<flags, store, hurt>>
  BY StepNames DEF MakeDirectory, Enter, Applying
<1>2. RunShape'
  BY <1>1 DEF To, RunShape, Fields
<1>3. TokenKept'
  BY <1>1 DEF To, RunShape, Fields, TokenKept
<1>4. HostShape' /\ host'.acl["dir"].kind # "absent"
  BY DEF MakeDirectory, HostShape, Guarded, Directory
<1>5. DirLocked'
  BY <1>1, <1>4 DEF To, RunShape, Fields, DirLocked
<1> QED
  BY <1>2, <1>3, <1>4, <1>5

\* It is locked, whatever it was before.
LEMMA LockDirectoryKeeps == ASSUME SetupInv, LockDirectory PROVE SetupInv'
<1> USE DEF SetupInv
<1>1. /\ run.phase = "apply" /\ run.step = 1 /\ run.at = "lock" /\ NextStep
      /\ host' = [host EXCEPT !.acl = Locked(@, {"dir"})]
      /\ UNCHANGED <<flags, store, hurt>>
  BY StepNames DEF LockDirectory, Applying
<1>2. RunShape'
  BY <1>1 DEF NextStep, RunShape, Fields
<1>3. TokenKept'
  BY <1>1 DEF NextStep, RunShape, Fields, TokenKept
<1>4. HostShape'
  BY <1>1, LockedHost DEF HostKept
<1>5. checkGrants(DirGrants')
  <2>1. host'.acl = Locked(host.acl, {"dir"})
    BY <1>1 DEF HostShape
  <2>2. checkGrants(Locked(host.acl, {"dir"})["dir"].sec.grants)
    BY <1>1, LockedKeeps DEF DirLocked
  <2> QED
    BY <2>1, <2>2 DEF DirGrants
<1>6. DirLocked'
  BY <1>1, <1>5 DEF NextStep, RunShape, Fields, DirLocked
<1> QED
  BY <1>2, <1>3, <1>4, <1>6

\* A mint hands its token to the run.
LEMMA SaveTokenKeeps == ASSUME SetupInv, SaveToken PROVE SetupInv'
<1> USE DEF SetupInv
<1>1. run.phase = "apply" /\ Name = "token" /\ run.step \in 2..6
  BY LaterStep DEF SaveToken, Enter, Applying
<1>2. CASE store \cap Labelled # {}
  <2>1. Failed /\ UNCHANGED <<flags, host, store, hurt>>
    BY <1>2 DEF SaveToken
  <2> QED
    BY <2>1, SameHost, Frame DEF Failed, RunMoves
<1>3. CASE store \cap Labelled = {}
  <2>1. /\ run' = [run EXCEPT !.at = "lock", !.minted = TRUE]
        /\ host' = WithStore /\ UNCHANGED <<shown, flags, hurt>>
    BY <1>3 DEF SaveToken
  <2>2. HostKept
    <3>1. /\ DOMAIN host' = DOMAIN host
          /\ \/ host'.acl = [host.acl EXCEPT !["store"] = File(Born(ByRun, host.acl["dir"]))]
             \/ host'.acl = host.acl
      BY <2>1 DEF WithStore, HostShape
    <3> QED
      BY <3>1, NewFile
  <2>3. RunShape' /\ TokenKept'
    BY <1>1, <2>1 DEF RunShape, Fields, TokenKept
  <2>4. DirLocked'
    BY <1>1, <2>1, <2>2 DEF RunShape, Fields, DirLocked, HostKept
  <2> QED
    BY <2>2, <2>3, <2>4 DEF HostKept
<1> QED
  BY <1>2, <1>3

\* The steps of an Apply that only call the Manager.
LEMMA ManagerCallKeeps ==
  ASSUME SetupInv, StopForReplace \/ Replace \/ RemoveExisting \/ Removed \/ Install \/ Registers
                     \/ StartService \/ Stopped \/ Started
  PROVE  SetupInv'
<1> USE DEF SetupInv, SetupOnly, Failed, RunMoves
<1>1. UNCHANGED <<flags, host, store, hurt>>
  BY DEF StopForReplace, Replace, RemoveExisting, Removed, Install, Registers, StartService, Stopped, Started
<1>2. run.phase = "apply" /\ run.step \in 2..6
  BY LaterStep DEF StopForReplace, Replace, RemoveExisting, Removed, Install, Registers,
                   StartService, Stopped, Started, Enter, Applying
<1>3. StopForReplace => RunMoves
  BY <1>2 DEF StopForReplace
<1>4. Replace => RunMoves
  BY <1>2 DEF Replace
<1>5. RemoveExisting => RunMoves
  BY <1>2 DEF RemoveExisting
<1>6. Removed => RunMoves
  BY <1>2 DEF Removed
<1>7. Install => RunMoves
  BY <1>2 DEF Install
<1>8. Registers => RunMoves
  BY <1>2 DEF Registers
<1>9. StartService => RunMoves
  BY <1>2 DEF StartService
<1>10. Stopped => RunMoves
  BY <1>2 DEF Stopped
<1>11. Started => RunMoves
  BY <1>2 DEF Started
<1> QED
  BY <1>1, <1>3, <1>4, <1>5, <1>6, <1>7, <1>8, <1>9, <1>10, <1>11, SameHost, Frame

\* The steps of an Apply that change files.
LEMMA FileStepKeeps ==
  ASSUME SetupInv, CreateConfig \/ WriteConfig \/ LockStore \/ CopyFile \/ SecurePaths
  PROVE  SetupInv'
<1> USE DEF SetupInv, Failed, RunMoves
<1>1. UNCHANGED <<flags, store, hurt>>
  BY DEF CreateConfig, WriteConfig, LockStore, CopyFile, SecurePaths
<1>2. run.phase = "apply" /\ run.step \in 2..6
  BY LaterStep DEF CreateConfig, WriteConfig, LockStore, CopyFile, SecurePaths, Enter, Applying
<1>3. CreateConfig => RunMoves /\ HostKept
  <2> SUFFICES ASSUME CreateConfig PROVE RunMoves /\ HostKept
    OBVIOUS
  <2>1. RunMoves
    BY <1>2 DEF CreateConfig
  <2>2. /\ DOMAIN host' = DOMAIN host
        /\ \/ host'.acl = [host.acl EXCEPT !["config"] = File(Born(ByRun, host.acl["dir"]))]
           \/ host'.acl = host.acl
    BY DEF CreateConfig, HostShape
  <2> QED
    BY <2>1, <2>2, NewFile
<1>4. WriteConfig => RunMoves /\ HostKept
  <2> SUFFICES ASSUME WriteConfig PROVE RunMoves /\ HostKept
    OBVIOUS
  <2>1. RunMoves
    BY <1>2 DEF WriteConfig
  <2>2. DOMAIN host' = DOMAIN host /\ host'.acl = host.acl
    BY DEF WriteConfig, HostShape
  <2> QED
    BY <2>1, <2>2, NewFile
<1>5. LockStore => RunMoves /\ HostKept
  BY <1>2, LockedHost DEF LockStore
<1>6. CopyFile => RunMoves /\ HostKept
  <2> SUFFICES ASSUME CopyFile PROVE RunMoves /\ HostKept
    OBVIOUS
  <2>1. RunMoves
    BY <1>2 DEF CopyFile
  <2>2. DOMAIN host' = DOMAIN host /\ host'.acl = host.acl
    BY DEF CopyFile, HostShape
  <2> QED
    BY <2>1, <2>2, NewFile
<1>7. SecurePaths => RunMoves /\ HostKept
  <2>1. SecurePaths => RunMoves
    BY <1>2 DEF SecurePaths
  <2>2. SecurePaths => HostKept
    BY SameHost, LockedHost DEF SecurePaths
  <2> QED
    BY <2>1, <2>2
<1> QED
  BY <1>1, <1>3, <1>4, <1>5, <1>6, <1>7, Frame

\* The verification ends the run or goes on to its proof.
LEMMA VerifyKeeps == ASSUME SetupInv, Verify \/ ProveAuth PROVE SetupInv'
<1> USE DEF SetupInv
<1>1. UNCHANGED <<flags, host, store, hurt>>
  BY DEF Verify, ProveAuth
<1>2. run.phase = "apply" /\ run.step > 1
  BY StepNames DEF Verify, ProveAuth, Enter, Applying
<1>3. RunMoves
  BY <1>2 DEF Verify, ProveAuth, Failed, RunMoves
<1> QED
  BY <1>1, <1>3, SameHost, Frame

LEMMA ApplyKeeps == ASSUME SetupInv, ApplyStep PROVE SetupInv'
BY SkipKeeps, MakeDirectoryKeeps, LockDirectoryKeeps, SaveTokenKeeps, ManagerCallKeeps,
   FileStepKeeps, VerifyKeeps DEF ApplyStep

\* What the SCM, the service and an administrator's command do to neither the files nor
\* the run.
LEMMA ElsewhereKeeps ==
  ASSUME SetupInv, ManagerSteps \/ ProcessUp \/ ProcessRefuses \/ ProcessEnds \/ ProcessDies
                     \/ ScmRestarts \/ AdminBegins
  PROVE  SetupInv'
<1>1. UNCHANGED <<flags, host, store, run, shown>>
  BY DEF ManagerSteps, ProcessUp, ProcessRefuses, ProcessEnds, ProcessDies, ScmRestarts, AdminBegins,
         setupVars
<1>2. hurt \subseteq hurt'
  BY DEF ManagerSteps, ProcessUp, ProcessRefuses, ProcessEnds, ProcessDies, ScmRestarts, AdminBegins,
         setupVars
<1> QED
  BY <1>1, <1>2, SameHost, Frame DEF SetupInv, RunMoves

\* An administrator at the files.
LEMMA AdminKeeps ==
  ASSUME SetupInv, AdminEnds \/ AdminSecures \/ AdminMints \/ Edit
  PROVE  SetupInv'
<1> USE DEF SetupInv
<1>1. UNCHANGED <<flags, run, shown>> /\ hurt \subseteq hurt' /\ ("minted" \in store' => "minted" \in store)
  BY DEF AdminEnds, AdminSecures, AdminMints, Edit
<1>2. AdminEnds => HostKept
  BY SameHost, LockedHost DEF AdminEnds
<1>3. AdminSecures => HostKept
  BY LockedHost DEF AdminSecures
<1>4. AdminMints => HostKept
  <2> SUFFICES ASSUME AdminMints PROVE HostKept
    OBVIOUS
  <2>1. /\ DOMAIN host' = DOMAIN host
        /\ \/ host'.acl = [host.acl EXCEPT !["store"] = File(Born(ByRun, host.acl["dir"]))]
           \/ host'.acl = host.acl
    BY DEF AdminMints, WithStore, HostShape
  <2> QED
    BY <2>1, NewFile
<1>5. Edit => HostKept
  <2> SUFFICES ASSUME Edit PROVE HostKept
    OBVIOUS
  <2>1. /\ DOMAIN host' = DOMAIN host
        /\ host'.acl = [host.acl EXCEPT !["config"] = File(Born(ByRun, host.acl["dir"]))]
    BY DEF Edit, HostShape
  <2> QED
    BY <2>1, NewFile
<1> QED
  BY <1>1, <1>2, <1>3, <1>4, <1>5, Frame DEF RunMoves

\* A call that fails ends the run like any other failure; a kill loses what the run held.
LEMMA AccidentKeeps == ASSUME SetupInv, Fault \/ Crash PROVE SetupInv'
<1> USE DEF SetupInv
<1>1. CASE Fault
  <2>1. Finish(1) /\ UNCHANGED <<flags, host, store>> /\ hurt \subseteq hurt'
    BY <1>1 DEF Fault, Accident, Failed
  <2> QED
    BY <2>1, SameHost, Frame DEF RunMoves
<1>2. CASE Crash
  <2>1. /\ run' = [run EXCEPT !.phase = "ended", !.at = "none", !.code = 1]
        /\ "crash" \in hurt' /\ UNCHANGED <<flags, host, store, shown>>
    BY <1>2 DEF Crash
  <2> QED
    BY <2>1 DEF RunShape, Fields, HostShape, TokenKept, DirLocked
<1> QED
  BY <1>1, <1>2

\* Hosts are described in full, and no run has minted anything yet.
LEMMA InitSetupInv == ASSUME Init PROVE SetupInv
<1>1. HostShape /\ "minted" \notin store
  BY HostsAssumption DEF Init, HostShape, Guarded
<1>2. RunShape
  <2>1. /\ DOMAIN run = Fields /\ run.phase = "none" /\ run.step = 1
        /\ run.minted \in BOOLEAN /\ shown \in BOOLEAN /\ run.verdicts = <<>>
    BY DEF Init, NotRun, Fields
  <2>2. run.verdicts \in Seq(Conditions) /\ Len(run.verdicts) = 0
    BY <2>1
  <2> QED
    BY <2>1, <2>2 DEF RunShape, Conditions
<1> QED
  BY <1>1, <1>2 DEF Init, NotRun, SetupInv, TokenKept, DirLocked

LEMMA StepKeepsSetupInv == ASSUME SetupInv, [Next]_vars PROVE SetupInv'
<1>1. CASE UNCHANGED vars
  BY <1>1, SameHost, Frame DEF vars, setupVars, SetupInv, RunMoves
<1> QED
  BY <1>1, BeginsKeeps, CheckKeeps, DecideKeeps, ApplyKeeps, ElsewhereKeeps, AdminKeeps, AccidentKeeps
     DEF Next

\* The inductive invariant of setup.
THEOREM Invariance == Spec => []SetupInv
<1>1. Init => SetupInv
  BY InitSetupInv
<1>2. SetupInv /\ [Next]_vars => SetupInv'
  BY StepKeepsSetupInv
<1> QED
  BY <1>1, <1>2, PTL DEF Spec

-----------------------------------------------------------------------------
(* The theorems.                                                            *)

\* Whatever a run came to, short of being killed, the token it minted was shown, by every
\* path that leads to its end (Plan.fill, runSetup).
THEOREM TokenAlwaysShown == Spec => []TokenIsShown
<1>1. SetupInv => TokenIsShown
  BY DEF SetupInv, TokenKept, TokenIsShown
<1> QED
  BY <1>1, Invariance, PTL

\* What may still go wrong is a number; whatever does go wrong takes from it.
LEMMA StepKeepsFaults == ASSUME faults \in Nat, [Next]_vars PROVE faults' \in Nat
<1> USE DEF mgrVars, SetupOnly
<1>1. CASE UNCHANGED vars \/ runSetup \/ Check \/ Decide
  BY <1>1 DEF vars, runSetup, Check, Decide
<1>2. CASE ApplyStep
  BY <1>2 DEF ApplyStep, Skip, MakeDirectory, LockDirectory, CreateConfig, WriteConfig, SaveToken, LockStore,
       StopForReplace, Replace, CopyFile, RemoveExisting, Removed, Install, Registers, SecurePaths,
       StartService, Stopped, Started, Verify, ProveAuth
<1>3. CASE ManagerSteps
  <2>1. PICK c \in Callers : ManagerStep(c) \/ DeleteFails(c)
    BY <1>3 DEF ManagerSteps
  <2>2. CASE OpenToInstall(c) \/ Create(c) \/ Configure(c) \/ InstallSource(c)
    BY <2>2 DEF OpenToInstall, Create, Configure, InstallSource
  <2>3. CASE RollBack(c) \/ DeleteFails(c)
    BY <2>3 DEF RollBack, DeleteFails
  <2>4. CASE OpenToStop(c) \/ SendStop(c) \/ WaitStopped(c) \/ StopTimesOut(c) \/ Delete(c) \/ RemoveSource(c)
    BY <2>4 DEF OpenToStop, SendStop, WaitStopped, StopTimesOut, Delete, RemoveSource
  <2>5. CASE OpenToStart(c) \/ SendStart(c) \/ WaitRunning(c)
    BY <2>5 DEF OpenToStart, SendStart, WaitRunning
  <2> QED
    BY <2>1, <2>2, <2>3, <2>4, <2>5 DEF ManagerStep
<1>4. CASE ProcessUp \/ ProcessRefuses \/ ProcessEnds \/ ProcessDies \/ ScmRestarts
  BY <1>4 DEF ProcessUp, ProcessRefuses, ProcessEnds, ProcessDies, ScmRestarts,
       ComesUp, GoesDown, Drained, Dies, Restart
<1>5. CASE Fault \/ Crash \/ AdminBegins \/ AdminEnds \/ AdminSecures \/ AdminMints \/ Edit
  BY <1>5 DEF Fault, Accident, Crash, AdminBegins, AdminEnds, AdminSecures, AdminMints, Edit
<1> QED
  BY <1>1, <1>2, <1>3, <1>4, <1>5 DEF Next

\* What a step that creates nothing does to the two files.
SameKinds == \A o \in {"config", "store"} : host'.acl[o].kind = host.acl[o].kind

LEMMA LockedKinds ==
  ASSUME HostShape, NEW targets, host' = [host EXCEPT !.acl = Locked(@, targets)]
  PROVE  SameKinds
<1>1. host'.acl = Locked(host.acl, targets)
  BY DEF HostShape
<1> QED
  BY <1>1, LockedKeeps DEF SameKinds, Guarded

\* A run creates the configuration and the token store when its directory is locked, and
\* they inherit what that grants.
LEMMA CreatedClosed ==
  ASSUME SetupInv, CreateConfig \/ SaveToken, NEW o \in {"config", "store"}, flags.own,
         host.acl[o].kind = "absent", host'.acl[o].kind # "absent"
  PROVE  checkGrants(host'.acl[o].sec.grants)
<1> USE DEF SetupInv
<1>1. run.phase = "apply" /\ run.step > 1 /\ Len(run.verdicts) > 0
  BY LaterStep DEF CreateConfig, SaveToken, Enter, Applying, RunShape
<1>2. checkGrants(DirGrants)
  BY <1>1 DEF DirLocked
<1>3. \/ host'.acl = host.acl
      \/ \E x \in {"config", "store"} : host'.acl = [host.acl EXCEPT ![x] = File(Born(ByRun, host.acl["dir"]))]
  BY DEF CreateConfig, SaveToken, WithStore, HostShape
<1>4. host'.acl[o] = File(Born(ByRun, host.acl["dir"]))
  BY <1>3 DEF HostShape, Guarded
<1> QED
  BY <1>2, <1>4 DEF File, Born, DirGrants

LEMMA StepBornLocked ==
  ASSUME SetupInv, faults \in Nat, [Next]_vars, NEW o \in {"config", "store"}, flags.own, run.phase = "apply",
         host.acl[o].kind = "absent", host'.acl[o].kind # "absent", faults' = faults
  PROVE  checkGrants(host'.acl[o].sec.grants)
<1> USE DEF SetupInv
<1>1. ~SameKinds
  BY DEF SameKinds
<1>2. host' # host
  BY <1>1 DEF SameKinds
<1>3. ~(UNCHANGED vars \/ runSetup \/ Check \/ Decide \/ Fault \/ Crash)
  BY <1>2 DEF vars, setupVars, runSetup, Check, Decide, Fault, Crash
<1>4. ~(ManagerSteps \/ ProcessUp \/ ProcessRefuses \/ ProcessEnds \/ ProcessDies \/ ScmRestarts \/ AdminBegins)
  BY <1>2 DEF ManagerSteps, ProcessUp, ProcessRefuses, ProcessEnds, ProcessDies, ScmRestarts,
              AdminBegins, setupVars
<1>5. ~(Skip \/ StopForReplace \/ Replace \/ RemoveExisting \/ Removed \/ Install \/ Registers
        \/ StartService \/ Stopped \/ Started \/ Verify \/ ProveAuth)
  BY <1>2 DEF Skip, StopForReplace, Replace, RemoveExisting, Removed, Install, Registers,
              StartService, Stopped, Started, Verify, ProveAuth
<1>6. ~(AdminMints \/ Edit \/ AdminSecures)
  <2>1. AdminMints \/ Edit \/ AdminSecures => faults' = faults - 1 /\ faults > 0
    BY DEF AdminMints, Edit, AdminSecures
  <2>2. AdminSecures => SameKinds
    BY LockedKinds DEF AdminSecures
  <2> QED
    BY <2>1, <2>2, <1>1
<1>7. ~(AdminEnds \/ LockDirectory \/ LockStore \/ SecurePaths)
  <2>1. LockDirectory \/ LockStore => SameKinds
    BY LockedKinds DEF LockDirectory, LockStore
  <2>2. AdminEnds \/ SecurePaths => host' = host \/ SameKinds
    BY LockedKinds DEF AdminEnds, SecurePaths
  <2> QED
    BY <2>1, <2>2, <1>1, <1>2
<1>8. ~(MakeDirectory \/ WriteConfig \/ CopyFile)
  <2>1. MakeDirectory => SameKinds
    BY DEF MakeDirectory, SameKinds, HostShape, Guarded
  <2>2. WriteConfig \/ CopyFile => SameKinds
    BY DEF WriteConfig, CopyFile, SameKinds, HostShape, Failed
  <2> QED
    BY <2>1, <2>2, <1>1
<1> QED
  BY <1>3, <1>4, <1>5, <1>6, <1>7, <1>8, CreatedClosed DEF Next, ApplyStep

\* Whatever the host and whatever happens beside it, a run that creates its configuration
\* or its token store in its own layout does so in a directory that is closed (Plan.steps).
THEOREM AlwaysBornLocked == Spec => BornLocked
<1>1. SetupInv /\ faults \in Nat /\ [Next]_vars =>
        [\A o \in {"config", "store"} :
           flags.own /\ run.phase = "apply" /\ host.acl[o].kind = "absent"
             /\ host'.acl[o].kind # "absent" /\ faults' = faults
           => checkGrants(host'.acl[o].sec.grants)]_vars
  BY StepBornLocked
<1>2. Init => faults \in Nat
  BY ManagerAssumption DEF Init
<1>3. faults \in Nat /\ [Next]_vars => (faults \in Nat)'
  BY StepKeepsFaults
<1> QED
  BY <1>1, <1>2, <1>3, Invariance, PTL DEF Spec, BornLocked

-----------------------------------------------------------------------------
(* Types.                                                                   *)

CallRecords == [op: Ops \cup {"none"}, at: Stages, command: Commands \cup {Garbled}, err: Errs]
Registrations == [there: BOOLEAN, command: Commands \cup {Garbled}, has: SUBSET Whole, marked: BOOLEAN]

\* A call moves on, and no other one does.
LEMMA Moved ==
  ASSUME ManagerTypeOK, NEW c \in Callers, NEW at \in Stages, NEW err \in Errs, Move(c, at, err)
  PROVE  /\ calls' \in [Callers -> CallRecords]
         /\ calls'[c].op = calls[c].op /\ calls'[c].at = at /\ calls'[c].command = calls[c].command /\ calls'[c].err = err
         /\ \A d \in Callers : d # c => calls'[d] = calls[d]
<1>1. calls \in [Callers -> CallRecords] /\ calls' = [calls EXCEPT ![c] = [@ EXCEPT !.at = at, !.err = err]]
  BY DEF ManagerTypeOK, CallRecords, Move
<1>2. calls[c] \in CallRecords
  BY <1>1
<1>3. [calls[c] EXCEPT !.at = at, !.err = err] \in CallRecords
  BY <1>2 DEF CallRecords
<1>4. calls'[c] = [calls[c] EXCEPT !.at = at, !.err = err]
  BY <1>1
<1>5. calls' \in [Callers -> CallRecords] /\ \A d \in Callers : d # c => calls'[d] = calls[d]
  BY <1>1, <1>3
<1> QED
  BY <1>2, <1>4, <1>5 DEF CallRecords

\* A call begins, and no other one moves.
LEMMA CallBegins ==
  ASSUME ManagerTypeOK, NEW c \in Callers, NEW op \in Ops, NEW command \in Commands, Begin(c, op, command)
  PROVE  /\ calls' \in [Callers -> CallRecords]
         /\ calls'[c].op = op /\ calls'[c].at = "open" /\ calls'[c].command = command /\ calls'[c].err = "none"
         /\ \A d \in Callers : d # c => calls'[d] = calls[d]
<1>1. calls \in [Callers -> CallRecords] /\ calls' = [calls EXCEPT ![c] = [op |-> op, at |-> "open", command |-> command, err |-> "none"]]
  BY DEF ManagerTypeOK, CallRecords, Begin
<1>2. [op |-> op, at |-> "open", command |-> command, err |-> "none"] \in CallRecords
  BY DEF CallRecords, Stages, Errs
<1> QED
  BY <1>1, <1>2

\* A call is left, and no other one moves.
LEMMA CallLeft ==
  ASSUME ManagerTypeOK, NEW c \in Callers, Leave(c)
  PROVE  /\ calls' \in [Callers -> CallRecords]
         /\ calls'[c].op = "none" /\ calls'[c].at = "done"
         /\ \A d \in Callers : d # c => calls'[d] = calls[d]
<1>1. calls \in [Callers -> CallRecords] /\ calls' = [calls EXCEPT ![c] = Idle]
  BY DEF ManagerTypeOK, CallRecords, Leave
<1>2. Idle \in CallRecords
  BY DEF CallRecords, Stages, Errs, Idle
<1> QED
  BY <1>1, <1>2 DEF Idle

\* A registration stays one, also when its last handle takes it away.
LEMMA UnregisteredTyped == Unregistered \in Registrations
BY DEF Unregistered, Registrations, Whole

LEMMA LeftTyped ==
  ASSUME NEW r \in Registrations, NEW cs, NEW s
  PROVE  Left(r, cs, s) \in Registrations
BY UnregisteredTyped DEF Left

\* What the SCM and the calls are stays of their types.
LEMMA ManagerStepTypes ==
  ASSUME ManagerTypeOK, NEW c \in Callers, ManagerStep(c) \/ DeleteFails(c)
  PROVE  ManagerTypeOK'
<1> DEFINE Regs == reg' \in Registrations /\ source' \in BOOLEAN /\ state' \in States /\ due' \in BOOLEAN /\ faults' \in 0..MaxFaults
           Calls == calls' \in [Callers -> CallRecords]
<1>1. /\ reg \in Registrations /\ source \in BOOLEAN /\ state \in States /\ due \in BOOLEAN /\ faults \in 0..MaxFaults
      /\ calls \in [Callers -> CallRecords] /\ calls[c] \in CallRecords
  BY DEF ManagerTypeOK, CallRecords, Registrations
<1>2. faults > 0 => faults - 1 \in 0..MaxFaults
  BY <1>1, ManagerAssumption
<1>3. faults > 1 => faults - 2 \in 0..MaxFaults
  BY <1>1, ManagerAssumption
<1>4. [reg EXCEPT !.marked = TRUE] \in Registrations
  BY <1>1 DEF Registrations
<1>5. ASSUME NEW at \in Stages, NEW err \in Errs, Move(c, at, err) PROVE Calls
  BY <1>5, Moved
<1> SUFFICES Regs /\ Calls
  BY DEF ManagerTypeOK, CallRecords, Registrations
<1> USE DEF Stages, Errs, End
<1>6. CASE OpenToInstall(c)
  <2>1. Calls
    BY <1>5, <1>6 DEF OpenToInstall
  <2> QED
    BY <1>1, <1>6, <2>1 DEF OpenToInstall
<1>7. CASE Create(c)
  <2>1. Calls
    BY <1>5, <1>7 DEF Create
  <2>2. Registered(calls[c].command, {}) \in Registrations
    BY <1>1 DEF Registered, Registrations, CallRecords
  <2> QED
    BY <1>1, <1>7, <2>1, <2>2 DEF Create
<1>8. CASE Configure(c)
  <2>1. Calls
    BY <1>5, <1>8 DEF Configure, NextPiece, Whole
  <2>2. [reg EXCEPT !.has = @ \cup {calls[c].at}] \in Registrations
    BY <1>1, <1>8 DEF Configure, Registrations
  <2> QED
    BY <1>1, <1>8, <2>1, <2>2 DEF Configure
<1>9. CASE InstallSource(c)
  <2>1. Calls
    BY <1>5, <1>9 DEF InstallSource
  <2> QED
    BY <1>1, <1>9, <2>1, LeftTyped DEF InstallSource
<1>10. CASE RollBack(c)
  <2>1. Calls
    BY <1>5, <1>10 DEF RollBack
  <2> QED
    BY <1>1, <1>2, <1>4, <1>10, <2>1, LeftTyped DEF RollBack
<1>11. CASE DeleteFails(c)
  <2>1. Calls
    BY <1>5, <1>11 DEF DeleteFails
  <2> QED
    BY <1>1, <1>3, <1>11, <2>1 DEF DeleteFails
<1>12. CASE OpenToStop(c)
  <2>1. Calls
    BY <1>5, <1>12 DEF OpenToStop, AfterStop
  <2> QED
    BY <1>1, <1>12, <2>1 DEF OpenToStop
<1>13. CASE SendStop(c)
  <2>1. Calls
    BY <1>5, <1>13 DEF SendStop
  <2> QED
    BY <1>1, <1>13, <2>1 DEF SendStop, States
<1>14. CASE WaitStopped(c)
  <2>1. Calls
    BY <1>5, <1>14 DEF WaitStopped, AfterStop
  <2> QED
    BY <1>1, <1>14, <2>1, LeftTyped DEF WaitStopped
<1>15. CASE StopTimesOut(c)
  <2>1. Calls
    BY <1>5, <1>15 DEF StopTimesOut
  <2> QED
    BY <1>1, <1>15, <2>1, LeftTyped DEF StopTimesOut
<1>16. CASE Delete(c)
  <2>1. Calls
    BY <1>5, <1>16 DEF Delete
  <2> QED
    BY <1>1, <1>4, <1>16, <2>1, LeftTyped DEF Delete
<1>17. CASE RemoveSource(c)
  <2>1. Calls
    BY <1>5, <1>17 DEF RemoveSource
  <2> QED
    BY <1>1, <1>17, <2>1 DEF RemoveSource
<1>18. CASE OpenToStart(c)
  <2>1. Calls
    BY <1>5, <1>18 DEF OpenToStart
  <2> QED
    BY <1>1, <1>18, <2>1 DEF OpenToStart
<1>19. CASE SendStart(c)
  <2>1. Calls
    BY <1>5, <1>19 DEF SendStart
  <2> QED
    BY <1>1, <1>19, <2>1, LeftTyped DEF SendStart, States
<1>20. CASE WaitRunning(c)
  <2>1. Calls
    BY <1>5, <1>20 DEF WaitRunning
  <2> QED
    BY <1>1, <1>20, <2>1, LeftTyped DEF WaitRunning
<1> QED
  BY <1>6, <1>7, <1>8, <1>9, <1>10, <1>11, <1>12, <1>13, <1>14, <1>15, <1>16, <1>17, <1>18, <1>19, <1>20
     DEF ManagerStep

-----------------------------------------------------------------------------
(* Who is at the registration.                                              *)

\* The call of c stands at a stage of its operation; the others stand where they were.
MovedTo(c, at, err) ==
  /\ calls'[c].op = calls[c].op /\ calls'[c].at = at /\ calls'[c].command = calls[c].command /\ calls'[c].err = err
  /\ \A d \in Callers : d # c => calls'[d] = calls[d]

\* Where each action of the Manager takes its call.
LEMMA MoveMoves ==
  ASSUME ManagerTypeOK, NEW c \in Callers, NEW at \in Stages, NEW err \in Errs, Move(c, at, err)
  PROVE  MovedTo(c, at, err)
BY Moved DEF MovedTo

LEMMA ManagerMoves ==
  ASSUME ManagerTypeOK, NEW c \in Callers
  PROVE  /\ OpenToInstall(c) => IF reg.there THEN MovedTo(c, "done", "exists") ELSE MovedTo(c, "create", "none")
         /\ Create(c) => IF reg.there THEN MovedTo(c, "done", "failed") ELSE MovedTo(c, "actions", "none")
         /\ Configure(c) => MovedTo(c, NextPiece(calls[c].at), "none")
         /\ InstallSource(c) => MovedTo(c, "done", "none")
         /\ RollBack(c) \/ DeleteFails(c) => MovedTo(c, "done", "failed")
         /\ OpenToStop(c) =>
              CASE reg.there -> MovedTo(c, IF state = "stopped" THEN AfterStop(c) ELSE "send", "none")
                [] ~reg.there -> IF calls[c].op = "uninstall" THEN MovedTo(c, "source", "none") ELSE MovedTo(c, "done", "absent")
         /\ SendStop(c) => MovedTo(c, "wait", "none")
         /\ WaitStopped(c) => MovedTo(c, AfterStop(c), "none")
         /\ StopTimesOut(c) => MovedTo(c, "done", "timeout")
         /\ Delete(c) => IF reg.marked THEN MovedTo(c, "done", "failed") ELSE MovedTo(c, "source", "none")
         /\ RemoveSource(c) => MovedTo(c, "done", "none")
         /\ OpenToStart(c) =>
              IF ~reg.there THEN MovedTo(c, "done", "absent")
              ELSE IF state = "running" THEN MovedTo(c, "done", "none") ELSE MovedTo(c, "send", "none")
         /\ SendStart(c) => IF reg.marked /\ state = "stopped" THEN MovedTo(c, "done", "failed") ELSE MovedTo(c, "wait", "none")
         /\ WaitRunning(c) => MovedTo(c, "done", IF state = "running" THEN "none" ELSE "failed")
<1>1. /\ OpenToInstall(c) => IF reg.there THEN MovedTo(c, "done", "exists") ELSE MovedTo(c, "create", "none")
      /\ Create(c) => IF reg.there THEN MovedTo(c, "done", "failed") ELSE MovedTo(c, "actions", "none")
      /\ InstallSource(c) => MovedTo(c, "done", "none")
      /\ RollBack(c) \/ DeleteFails(c) => MovedTo(c, "done", "failed")
  BY MoveMoves DEF OpenToInstall, Create, InstallSource, RollBack, DeleteFails, Stages, Errs, End
<1>2. Configure(c) => MovedTo(c, NextPiece(calls[c].at), "none")
  BY MoveMoves DEF Configure, NextPiece, Whole, Stages, Errs
<1>3. OpenToStop(c) =>
        CASE reg.there -> MovedTo(c, IF state = "stopped" THEN AfterStop(c) ELSE "send", "none")
          [] ~reg.there -> IF calls[c].op = "uninstall" THEN MovedTo(c, "source", "none") ELSE MovedTo(c, "done", "absent")
  BY MoveMoves DEF OpenToStop, AfterStop, Stages, Errs, End
<1>4. /\ SendStop(c) => MovedTo(c, "wait", "none")
      /\ WaitStopped(c) => MovedTo(c, AfterStop(c), "none")
      /\ StopTimesOut(c) => MovedTo(c, "done", "timeout")
  BY MoveMoves DEF SendStop, WaitStopped, StopTimesOut, AfterStop, Stages, Errs, End
<1>5. /\ Delete(c) => IF reg.marked THEN MovedTo(c, "done", "failed") ELSE MovedTo(c, "source", "none")
      /\ RemoveSource(c) => MovedTo(c, "done", "none")
  BY MoveMoves DEF Delete, RemoveSource, Stages, Errs, End
<1>6. OpenToStart(c) =>
        IF ~reg.there THEN MovedTo(c, "done", "absent")
        ELSE IF state = "running" THEN MovedTo(c, "done", "none") ELSE MovedTo(c, "send", "none")
  BY MoveMoves DEF OpenToStart, Stages, Errs, End
<1>7. /\ SendStart(c) => IF reg.marked /\ state = "stopped" THEN MovedTo(c, "done", "failed") ELSE MovedTo(c, "wait", "none")
      /\ WaitRunning(c) => MovedTo(c, "done", IF state = "running" THEN "none" ELSE "failed")
  BY MoveMoves DEF SendStart, WaitRunning, Stages, Errs, End
<1> QED
  BY <1>1, <1>2, <1>3, <1>4, <1>5, <1>6, <1>7

\* A call that has created the service and is still to finish it.
Builder(c) == calls[c].op = "install" /\ calls[c].at \in Whole \cup {"log"}

\* What has been configured before a stage.
Before(at) ==
  CASE at = "actions" -> {} [] at = "flag" -> {"actions"} [] at = "budget" -> {"actions", "flag"} [] OTHER -> Whole

\* What is not registered has no process and nobody at it. One caller at a time builds a
\* registration, piece by piece; one that is in parts has a builder, unless an accident took
\* it away.
RegInv ==
  /\ ~reg.there => reg = Unregistered /\ state = "stopped"
  /\ \A c \in Callers : Holds(calls, c) => reg.there
  /\ \A c, d \in Callers : Builder(c) /\ Builder(d) => c = d
  /\ \A c \in Callers : Builder(c) => reg.has = Before(calls[c].at) /\ reg.command = calls[c].command
  /\ reg.there /\ ~reg.marked /\ reg.has # Whole => (\E c \in Callers : Builder(c)) \/ hurt \cap {"crash", "undeleted"} # {}

\* Building is done through a handle.
LEMMA BuilderHolds == ASSUME NEW c \in Callers, Builder(c) PROVE Holds(calls, c)
BY DEF Builder, Holds, Whole

\* A step that builds nothing: what is registered stays, or goes with its last handle.
Looks(c) ==
  /\ UNCHANGED source
  /\ \/ reg' = reg
     \/ reg.marked /\ reg' = Unregistered /\ state' = "stopped" /\ \A d \in Callers : ~Holds(calls', d)
  /\ ~Builder(c) /\ ~Builder(c)' /\ (Holds(calls', c) => reg.there) /\ (state' = state \/ reg.there)
  /\ \A d \in Callers : d # c => calls'[d] = calls[d]

\* The steps of the Manager that only look, wait, stop and start.
LEMMA LookingSteps ==
  ASSUME ManagerTypeOK, RegInv, NEW c \in Callers,
         \/ OpenToInstall(c) \/ (Create(c) /\ reg.there)
         \/ OpenToStop(c) \/ SendStop(c) \/ WaitStopped(c) \/ StopTimesOut(c)
         \/ OpenToStart(c) \/ SendStart(c) \/ WaitRunning(c)
  PROVE  Looks(c)
<1> USE DEF Looks, Builder, Holds, Whole, MovedTo
<1>1. CASE OpenToInstall(c) \/ (Create(c) /\ reg.there)
  BY <1>1, ManagerMoves DEF OpenToInstall, Create
<1>2. CASE OpenToStop(c)
  BY <1>2, ManagerMoves DEF OpenToStop, Stopping, AfterStop
<1>3. CASE SendStop(c)
  BY <1>3, ManagerMoves DEF SendStop, Stopping, RegInv
<1>4. CASE WaitStopped(c)
  BY <1>4, ManagerMoves DEF WaitStopped, Stopping, AfterStop, Left, RegInv
<1>5. CASE StopTimesOut(c)
  BY <1>5, ManagerMoves DEF StopTimesOut, Stopping, Left
<1>6. CASE OpenToStart(c)
  BY <1>6, ManagerMoves DEF OpenToStart
<1>7. CASE SendStart(c)
  BY <1>7, ManagerMoves DEF SendStart, Left, RegInv
<1>8. CASE WaitRunning(c)
  BY <1>8, ManagerMoves DEF WaitRunning, Left
<1> QED
  BY <1>1, <1>2, <1>3, <1>4, <1>5, <1>6, <1>7, <1>8

\* They change nothing about who is at the registration.
LEMMA LooksKeepsReg ==
  ASSUME RegInv, NEW c \in Callers, Looks(c), hurt \subseteq hurt'
  PROVE  RegInv'
<1> USE DEF Looks, RegInv
<1>1. \A d \in Callers : Builder(d)' => Builder(d) /\ calls'[d] = calls[d] /\ Holds(calls', d)
  BY DEF Builder, Holds, Whole
<1>2. CASE reg' = reg
  <2>1. \A d \in Callers : Holds(calls', d) => reg'.there
    BY <1>2 DEF Holds
  <2>2. \A d \in Callers : Builder(d) => Builder(d)'
    BY DEF Builder
  <2> QED
    BY <1>1, <1>2, <2>1, <2>2
<1>3. CASE reg' # reg
  BY <1>1, <1>3 DEF Unregistered
<1> QED
  BY <1>2, <1>3

\* The steps that make a registration, complete it, or give it up.
LEMMA ManagerKeepsReg ==
  ASSUME ManagerTypeOK, RegInv, NEW c \in Callers, hurt \subseteq hurt',
         ManagerStep(c) \/ (DeleteFails(c) /\ "undeleted" \in hurt')
  PROVE  RegInv'
<1> USE DEF RegInv
<1>0. reg \in Registrations
  BY DEF ManagerTypeOK, Registrations
<1>1. CASE \/ OpenToInstall(c) \/ (Create(c) /\ reg.there)
           \/ OpenToStop(c) \/ SendStop(c) \/ WaitStopped(c) \/ StopTimesOut(c)
           \/ OpenToStart(c) \/ SendStart(c) \/ WaitRunning(c)
  BY <1>1, LookingSteps, LooksKeepsReg
<1>2. CASE Create(c) /\ ~reg.there
  <2>1. MovedTo(c, "actions", "none") /\ reg' = Registered(calls[c].command, {}) /\ UNCHANGED state /\ calls[c].op = "install"
    BY <1>2, ManagerMoves DEF Create
  <2>2. \A d \in Callers : Builder(d)' <=> d = c
    BY <1>2, <2>1, BuilderHolds DEF MovedTo, Builder, Whole
  <2>3. reg'.there /\ reg'.has = {} /\ reg'.command = calls'[c].command /\ calls'[c].at = "actions"
    BY <2>1 DEF MovedTo, Registered
  <2> QED
    BY <2>2, <2>3 DEF Before
<1>3. CASE Configure(c)
  <2>1. /\ MovedTo(c, NextPiece(calls[c].at), "none") /\ reg' = [reg EXCEPT !.has = @ \cup {calls[c].at}] /\ UNCHANGED state
        /\ calls[c].op = "install" /\ calls[c].at \in Whole
    BY <1>3, ManagerMoves DEF Configure
  <2>2. Builder(c) /\ Builder(c)'
    BY <2>1 DEF MovedTo, Builder, Whole, NextPiece
  <2>3. /\ reg'.has = reg.has \cup {calls[c].at} /\ reg'.there = reg.there /\ reg'.command = reg.command /\ reg.there
    BY <1>0, <2>1, <2>2, BuilderHolds DEF Registrations
  <2>4. \A d \in Callers : Builder(d)' <=> d = c
    BY <2>1, <2>2 DEF MovedTo, Builder
  <2>5. reg'.has = Before(calls'[c].at)
    BY <2>1, <2>2, <2>3 DEF MovedTo, Before, NextPiece, Whole
  <2> QED
    BY <2>1, <2>2, <2>3, <2>4, <2>5 DEF MovedTo
<1>4. CASE InstallSource(c) \/ RollBack(c) \/ (DeleteFails(c) /\ "undeleted" \in hurt')
  <2>1. /\ calls'[c].at = "done" /\ \A d \in Callers : d # c => calls'[d] = calls[d]
        /\ UNCHANGED state
    BY <1>4, ManagerMoves DEF MovedTo, InstallSource, RollBack, DeleteFails
  <2>2. Builder(c)
    BY <1>4 DEF Builder, Whole, InstallSource, RollBack, DeleteFails
  <2>3. \A d \in Callers : ~Builder(d)'
    BY <2>1, <2>2 DEF Builder, Whole
  <2>4. reg.there /\ reg.has = Before(calls[c].at)
    BY <2>2, BuilderHolds
  <2>5. \/ reg'.there /\ (reg'.marked \/ reg' = reg)
        \/ reg' = Unregistered /\ state = "stopped" /\ \A d \in Callers : ~Holds(calls', d)
    BY <1>0, <1>4, <2>4 DEF InstallSource, RollBack, DeleteFails, Left, Registrations
  <2>6. reg'.there /\ ~reg'.marked => reg'.has = Whole \/ hurt' \cap {"crash", "undeleted"} # {}
    <3>1. CASE InstallSource(c)
      BY <2>4, <2>5, <3>1 DEF InstallSource, Before, Left, Unregistered
    <3>2. CASE RollBack(c)
      BY <1>0, <3>2 DEF RollBack, Left, Registrations, Unregistered
    <3>3. CASE DeleteFails(c) /\ "undeleted" \in hurt'
      BY <3>3
    <3> QED
      BY <1>4, <3>1, <3>2, <3>3
  <2> QED
    BY <2>1, <2>3, <2>5, <2>6 DEF Unregistered
<1>5. CASE Delete(c)
  <2>1. /\ calls'[c].op = "uninstall" /\ calls'[c].at \in {"done", "source"} /\ \A d \in Callers : d # c => calls'[d] = calls[d]
        /\ UNCHANGED state /\ calls[c].op = "uninstall" /\ calls[c].at = "delete"
    BY <1>5, ManagerMoves DEF MovedTo, Delete
  <2>2. \A d \in Callers : Builder(d)' => Builder(d) /\ calls'[d] = calls[d]
    BY <2>1 DEF Builder
  <2>3. reg.there
    BY <2>1 DEF Holds
  <2>4. \/ reg'.there /\ reg'.marked /\ reg'.has = reg.has /\ reg'.command = reg.command
        \/ reg' = Unregistered /\ state = "stopped" /\ \A d \in Callers : ~Holds(calls', d)
    BY <1>0, <1>5, <2>3 DEF Delete, Left, Registrations
  <2>5. \A d \in Callers : Builder(d)' => Holds(calls', d)
    BY DEF Builder, Holds, Whole
  <2> QED
    BY <2>1, <2>2, <2>4, <2>5 DEF Unregistered
<1>6. CASE RemoveSource(c)
  <2>1. /\ calls'[c].op = "uninstall" /\ calls'[c].at = "done" /\ \A d \in Callers : d # c => calls'[d] = calls[d]
        /\ UNCHANGED <<reg, state>> /\ calls[c].op = "uninstall"
    BY <1>6, ManagerMoves DEF MovedTo, RemoveSource
  <2>2. \A d \in Callers : Builder(d)' => Builder(d) /\ calls'[d] = calls[d]
    BY <2>1 DEF Builder
  <2>3. \A d \in Callers : Builder(d) => Builder(d)'
    BY <2>1 DEF Builder
  <2>4. \A d \in Callers : Holds(calls', d) => Holds(calls, d)
    BY <2>1 DEF Holds
  <2> QED
    BY <2>1, <2>2, <2>3, <2>4
<1> QED
  BY <1>1, <1>2, <1>3, <1>4, <1>5, <1>6 DEF ManagerStep

\* The types of what the run, the host and the token store hold.
RunTypes == run.code \in 0..4 /\ run.wants \in BOOLEAN /\ run.auth \in BOOLEAN /\ run.up \in BOOLEAN /\ run.key \in Keys
HostTypes == host.content \in Contents /\ host.key \in Keys /\ host.binary \in {"absent", "old", "new"}
StoreTypes == /\ store \in SUBSET Tokens /\ loaded \in SUBSET Tokens /\ served \in SUBSET Keys
              /\ Cardinality(store \cap Labelled) <= 1

\* A run that ends goes nowhere, and reports success only if it came to one.
LEMMA FinishEnds ==
  ASSUME NEW code \in 0..4, Finish(code)
  PROVE  \E c \in 0..4 : /\ run' = [run EXCEPT !.phase = "ended", !.at = "none", !.code = c]
                         /\ c \in {0, 4} => c = code
<1>1. PICK outFails \in BOOLEAN :
        run' = [run EXCEPT !.phase = "ended", !.at = "none", !.code = IF outFails /\ code \in {0, 4} THEN 1 ELSE code]
  BY DEF Finish
<1> DEFINE said == IF outFails /\ code \in {0, 4} THEN 1 ELSE code
<1>2. said \in 0..4 /\ (said \in {0, 4} => said = code)
  OBVIOUS
<1>3. run' = [run EXCEPT !.phase = "ended", !.at = "none", !.code = said]
  BY <1>1
<1> HIDE DEF said
<1> QED
  BY <1>2, <1>3

\* A run that moves along, or ends, keeps what it has found out.
LEMMA MovesTyped ==
  ASSUME RunShape, RunTypes, NEW at, NEW code \in 0..4, To(at) \/ NextStep \/ Finish(code)
  PROVE  RunTypes'
<1> USE DEF RunShape, RunTypes, Fields
<1>1. CASE To(at)
  BY <1>1 DEF To
<1>2. CASE NextStep
  BY <1>2 DEF NextStep
<1>3. CASE Finish(code)
  BY <1>3, FinishEnds
<1> QED
  BY <1>1, <1>2, <1>3

\* Every step keeps the types.
LEMMA RunTyped ==
  ASSUME SetupInv, RunTypes, ManagerTypeOK, flags \in FlagSets, [Next]_vars
  PROVE  RunTypes'
<1> USE DEF SetupInv
<1>1. /\ \A at : To(at) => RunTypes'
      /\ NextStep => RunTypes'
      /\ \A code \in 0..4 : Finish(code) => RunTypes'
      /\ Failed => RunTypes'
  BY MovesTyped DEF Failed
<1>2. UNCHANGED run => RunTypes'
  BY DEF RunTypes
<1>3. CASE runSetup
  <2>1. Running \in BOOLEAN /\ NotRun.wants = FALSE /\ NotRun.auth = TRUE /\ NotRun.code = 0
    BY DEF Running, ManagerTypeOK, NotRun
  <2>2. (reg.there /\ state = "running") \in BOOLEAN
    OBVIOUS
  <2> QED
    BY <1>3, <2>1, <2>2 DEF runSetup, Begun, NotRun, RunTypes, Keys
<1>4. CASE Check
  <2>1. CASE Verdict(Name) = "error"
    BY <1>1, <1>4, <2>1 DEF Check
  <2>2. CASE Verdict(Name) # "error"
    <3> DEFINE wanted == run.wants \/ wantsRestart(Name)
               asked == IF Name = "config" THEN host.content # "noAuth" ELSE run.auth
               v == Append(run.verdicts, Verdict(Name))
    <3>1. run' = [run EXCEPT !.verdicts = v, !.step = IF @ = 7 THEN 7 ELSE @ + 1, !.wants = wanted, !.auth = asked]
      BY <1>4, <2>2 DEF Check
    <3>2. wanted \in BOOLEAN /\ asked \in BOOLEAN
      BY DEF RunTypes
    <3> HIDE DEF wanted, asked, v
    <3> QED
      BY <3>1, <3>2 DEF RunTypes, RunShape, Fields
  <2> QED
    BY <2>1, <2>2
<1>5. CASE Decide
  <2>1. CASE \E code \in 0..4 : Finish(code)
    BY <1>1, <2>1
  <2>2. CASE run' = [run EXCEPT !.phase = "apply", !.step = 1, !.at = "start"]
    BY <2>2 DEF RunTypes, RunShape, Fields
  <2> QED
    BY <1>5, <2>1, <2>2 DEF Decide
<1>6. CASE ApplyStep
  <2>1. CASE Skip \/ MakeDirectory \/ LockDirectory \/ CreateConfig \/ WriteConfig \/ LockStore \/ CopyFile \/ SecurePaths
    BY <1>1, <2>1 DEF Skip, MakeDirectory, LockDirectory, CreateConfig, WriteConfig, LockStore, CopyFile, SecurePaths
  <2>2. CASE SaveToken
    <3>1. CASE run' = [run EXCEPT !.at = "lock", !.minted = TRUE]
      BY <3>1 DEF RunTypes, RunShape, Fields
    <3> QED
      BY <1>1, <2>2, <3>1 DEF SaveToken
  <2>3. CASE StopForReplace \/ Replace \/ RemoveExisting \/ Removed \/ Install \/ Registers \/ StartService \/ Stopped \/ Started
    BY <1>1, <2>3 DEF StopForReplace, Replace, RemoveExisting, Removed, Install, Registers, StartService, Stopped, Started
  <2>4. CASE Verify \/ ProveAuth
    BY <1>1, <2>4 DEF Verify, ProveAuth
  <2> QED
    BY <1>6, <2>1, <2>2, <2>3, <2>4 DEF ApplyStep
<1>7. CASE Fault \/ Crash
  <2>1. CASE run' = [run EXCEPT !.phase = "ended", !.at = "none", !.code = 1]
    BY <2>1 DEF RunTypes, RunShape, Fields
  <2> QED
    BY <1>1, <1>7, <2>1 DEF Fault, Accident, Crash
<1>8. CASE \/ UNCHANGED vars \/ ManagerSteps \/ ProcessUp \/ ProcessRefuses \/ ProcessEnds \/ ProcessDies \/ ScmRestarts
           \/ AdminBegins \/ AdminEnds \/ AdminSecures \/ AdminMints \/ Edit
  BY <1>2, <1>8 DEF vars, setupVars, ManagerSteps, ProcessUp, ProcessRefuses, ProcessEnds, ProcessDies, ScmRestarts,
         AdminBegins, AdminEnds, AdminSecures, AdminMints, Edit
<1> QED
  BY <1>3, <1>4, <1>5, <1>6, <1>7, <1>8 DEF Next

\* The files stay what files can be.
LEMMA HostTyped ==
  ASSUME SetupInv, RunTypes, HostTypes, [Next]_vars
  PROVE  HostTypes'
<1> USE DEF SetupInv, HostShape, Guarded
<1>1. \A acl : host' = [host EXCEPT !.acl = acl] => HostTypes'
  BY DEF HostTypes
<1>2. UNCHANGED host => HostTypes'
  BY DEF HostTypes
<1>3. CASE MakeDirectory \/ LockDirectory \/ LockStore \/ SecurePaths \/ AdminEnds \/ AdminSecures
  BY <1>1, <1>2, <1>3 DEF MakeDirectory, LockDirectory, LockStore, SecurePaths, AdminEnds, AdminSecures
<1>4. CASE SaveToken \/ AdminMints
  BY <1>1, <1>2, <1>4 DEF SaveToken, AdminMints, WithStore
<1>5. CASE CreateConfig \/ WriteConfig \/ CopyFile \/ Edit
  <2>1. CASE CreateConfig
    BY <1>2, <2>1 DEF CreateConfig, HostTypes, Contents
  <2>2. CASE WriteConfig
    BY <2>2 DEF WriteConfig, HostTypes, RunTypes, Contents
  <2>3. CASE CopyFile
    BY <1>2, <2>3 DEF CopyFile, HostTypes
  <2>4. CASE Edit
    BY <2>4 DEF Edit, HostTypes, Contents, Keys
  <2> QED
    BY <1>5, <2>1, <2>2, <2>3, <2>4
<1>6. CASE \/ UNCHANGED vars \/ runSetup \/ Check \/ Decide \/ ManagerSteps \/ ProcessUp \/ ProcessRefuses \/ ProcessEnds
           \/ ProcessDies \/ ScmRestarts \/ Fault \/ Crash \/ AdminBegins
  BY <1>2, <1>6 DEF vars, setupVars, runSetup, Check, Decide, ManagerSteps, ProcessUp, ProcessRefuses, ProcessEnds,
         ProcessDies, ScmRestarts, Fault, Crash, AdminBegins
<1>7. CASE \/ Skip \/ StopForReplace \/ Replace \/ RemoveExisting \/ Removed \/ Install \/ Registers
           \/ StartService \/ Stopped \/ Started \/ Verify \/ ProveAuth
  BY <1>2, <1>7 DEF Skip, StopForReplace, Replace, RemoveExisting, Removed, Install, Registers, StartService,
         Stopped, Started, Verify, ProveAuth
<1> QED
  BY <1>3, <1>4, <1>5, <1>6, <1>7 DEF Next, ApplyStep

\* One token carries the label, whoever minted it.
LEMMA OneLabelled ==
  ASSUME NEW token \in Labelled, store \in SUBSET Tokens, store \cap Labelled = {}, store' = store \cup {token}
  PROVE  store' \in SUBSET Tokens /\ Cardinality(store' \cap Labelled) <= 1
<1>1. store' \cap Labelled = {token} /\ store' \in SUBSET Tokens
  BY DEF Labelled, Tokens
<1> QED
  BY <1>1, FS_Singleton

\* Tokens are added one at a time, and only where the label is free.
LEMMA StoreTyped ==
  ASSUME StoreTypes, HostTypes, [Next]_vars
  PROVE  StoreTypes'
<1>1. UNCHANGED store \/ (\E token \in Labelled : store \cap Labelled = {} /\ store' = store \cup {token})
  <2>1. CASE \/ UNCHANGED vars \/ runSetup \/ Check \/ Decide \/ ManagerSteps \/ ProcessUp \/ ProcessRefuses \/ ProcessEnds
             \/ ProcessDies \/ ScmRestarts \/ Fault \/ Crash \/ AdminBegins \/ AdminEnds \/ AdminSecures \/ Edit
    BY <2>1 DEF vars, setupVars, runSetup, Check, Decide, ManagerSteps, ProcessUp, ProcessRefuses, ProcessEnds,
         ProcessDies, ScmRestarts, Fault, Crash, AdminBegins, AdminEnds, AdminSecures, Edit
  <2>2. CASE \/ Skip \/ MakeDirectory \/ LockDirectory \/ CreateConfig \/ WriteConfig \/ LockStore \/ StopForReplace \/ Replace
             \/ CopyFile \/ RemoveExisting \/ Removed \/ Install \/ Registers \/ SecurePaths
             \/ StartService \/ Stopped \/ Started \/ Verify \/ ProveAuth
    BY <2>2 DEF Skip, MakeDirectory, LockDirectory, CreateConfig, WriteConfig, LockStore, StopForReplace, Replace, CopyFile,
         RemoveExisting, Removed, Install, Registers, SecurePaths, StartService, Stopped, Started, Verify, ProveAuth
  <2>3. CASE SaveToken \/ AdminMints
    BY <2>3 DEF SaveToken, AdminMints, Labelled
  <2> QED
    BY <2>1, <2>2, <2>3 DEF Next, ApplyStep
<1>2. store' \in SUBSET Tokens /\ Cardinality(store' \cap Labelled) <= 1
  BY <1>1, OneLabelled DEF StoreTypes
<1>3. UNCHANGED <<loaded, served>> \/ ProcessUp
  BY DEF Next, ApplyStep, vars, setupVars, runSetup, Check, Decide, ManagerSteps, ProcessRefuses, ProcessEnds,
         ProcessDies, ScmRestarts, Fault, Crash, AdminBegins, AdminEnds, AdminSecures, AdminMints, Edit,
         Skip, MakeDirectory, LockDirectory, CreateConfig, WriteConfig, SaveToken, LockStore, StopForReplace, Replace, CopyFile,
         RemoveExisting, Removed, Install, Registers, SecurePaths, StartService, Stopped, Started, Verify, ProveAuth
<1>4. loaded' \in SUBSET Tokens /\ served' \in SUBSET Keys
  <2>1. CASE UNCHANGED <<loaded, served>>
    BY <2>1 DEF StoreTypes
  <2>2. CASE ProcessUp
    <3>1. loaded' \in {Usable(store), {"usable"}} /\ served' \in {served \cup {host.key}, served \cup {"old"}}
      BY <2>2 DEF ProcessUp
    <3>2. Usable(store) \in SUBSET Tokens /\ {"usable"} \in SUBSET Tokens /\ "old" \in Keys
      BY DEF StoreTypes, Usable, Tokens, Keys
    <3> QED
      BY <3>1, <3>2 DEF StoreTypes, HostTypes
  <2> QED
    BY <1>3, <2>1, <2>2
<1> QED
  BY <1>2, <1>4 DEF StoreTypes

-----------------------------------------------------------------------------
(* Who is inside which call.                                                *)

\* The steps by their place in the order.
LEMMA StepNumbers ==
  \A i \in 1..7 : /\ steps[i] = "directory" <=> i = 1
                  /\ steps[i] = "config" <=> i = 2
                  /\ steps[i] = "token" <=> i = 3
                  /\ steps[i] = "binary" <=> i = 4
                  /\ steps[i] = "install" <=> i = 5
                  /\ steps[i] = "start" <=> i = 6
                  /\ steps[i] = "verify" <=> i = 7
BY DEF steps

\* Which step of the run is inside which call.
SetupCalls ==
  \/ Applying("binary", "stop") /\ calls["setup"].op = "stop"
  \/ Applying("install", "remove") /\ calls["setup"].op = "uninstall" /\ flags.reinstall
  \/ Applying("install", "register") /\ calls["setup"].op = "install"
  \/ Applying("start", "stop") /\ calls["setup"].op = "stop"
  \/ Applying("start", "wait") /\ calls["setup"].op = "start"

\* What an administrator registers beside a run.
AdminCommand == [Wanted EXCEPT !.copy = ~@]

\* Setup makes its calls from the step it is at, an administrator makes theirs beside a
\* run, and nobody else makes any.
CallsInv ==
  /\ \A c \in Callers : c \notin {"setup", "admin"} => calls[c].op = "none"
  /\ calls["setup"].op # "none" => SetupCalls /\ calls["setup"].command = Wanted
  /\ calls["admin"].op # "none" => calls["admin"].op \in Verbs /\ calls["admin"].command = AdminCommand
  /\ "admin" \notin hurt => calls["admin"].op = "none"

\* A run that applies has seven verdicts that let it, and works only where one is pending.
RunInv ==
  /\ \A i \in DOMAIN run.verdicts : run.verdicts[i] # "error"
  /\ run.phase = "apply" =>
       /\ \A i \in 1..7 : run.verdicts[i] # "blocked"
       /\ run.at # "start" => run.verdicts[run.step] = "pending"

\* A file being written is the one that was created for it, and a key is generated only
\* for a configuration of the layout's own.
WriteInv ==
  /\ Applying("config", "write") => host.content = "partial"
  /\ run.phase \in {"check", "apply"} =>
       run.key = IF flags.key = "generate" THEN "new" ELSE "old"
  /\ run.phase \in {"check", "apply"} /\ flags.key = "generate" => flags.own

\* All of TypeOK that is not in RunShape.
TypeInv == ManagerTypeOK /\ flags \in FlagSets /\ RunTypes /\ HostTypes /\ StoreTypes

\* The flags a run was given, and what it registers for them.
LEMMA FlagsTyped ==
  ASSUME flags \in FlagSets
  PROVE  /\ Wanted \in Commands /\ AdminCommand \in Commands /\ Wanted # AdminCommand
         /\ Wanted.own = flags.own /\ AdminCommand.own = flags.own
         /\ Wanted # Garbled /\ AdminCommand # Garbled
         /\ flags.dry \in BOOLEAN /\ flags.restart \in BOOLEAN /\ flags.reinstall \in BOOLEAN /\ flags.own \in BOOLEAN
<1>1. flags.copy \in BOOLEAN /\ flags.dry \in BOOLEAN /\ flags.restart \in BOOLEAN /\ flags.reinstall \in BOOLEAN /\ flags.own \in BOOLEAN
  BY CommandAssumption
<1>2. AdminCommand = [copy |-> ~flags.copy, own |-> flags.own]
  BY DEF AdminCommand, Wanted
<1>3. Wanted \in Commands /\ AdminCommand \in Commands
  BY <1>2, CommandAssumption DEF Wanted
<1>4. Wanted.copy = flags.copy /\ AdminCommand.copy = ~flags.copy /\ Wanted.own = flags.own /\ AdminCommand.own = flags.own
  BY <1>2 DEF Wanted
<1> QED
  BY <1>1, <1>3, <1>4, ManagerAssumption

\* The two callers are callers.
LEMMA Parties == "setup" \in Callers /\ "admin" \in Callers /\ Verbs \subseteq Ops
BY CommandAssumption

\* A call of c begins or is left where c was inside none.
Turned(c) ==
  /\ UNCHANGED <<reg, source, state, due>> /\ ~Inside(c)
  /\ calls' \in [Callers -> CallRecords] /\ \A d \in Callers : d # c => calls'[d] = calls[d]
  /\ \/ calls'[c].op = "none" /\ calls'[c].at = "done"
     \/ calls'[c].op \in Ops /\ calls'[c].at = "open" /\ calls'[c].command \in {Wanted, AdminCommand}

\* Beginning a call is such a turn, and leaving one is.
LEMMA BeginTurns ==
  ASSUME ManagerTypeOK, NEW c \in Callers, NEW op \in Ops, NEW command \in Commands, Begin(c, op, command),
         command \in {Wanted, AdminCommand}, ~Inside(c), UNCHANGED <<reg, source, state, due>>
  PROVE  Turned(c) /\ calls'[c].op = op /\ calls'[c].command = command
BY CallBegins DEF Turned

\* A call that is left is none.
LEMMA LeaveTurns ==
  ASSUME ManagerTypeOK, NEW c \in Callers, Leave(c), ~Inside(c), UNCHANGED <<reg, source, state, due>>
  PROVE  Turned(c) /\ calls'[c].op = "none"
BY CallLeft DEF Turned

\* Where setup is not at a step that makes a call, it is inside none.
LEMMA SetupIdle ==
  ASSUME CallsInv, RunShape, run.phase # "apply" \/ run.at \notin {"stop", "remove", "register", "wait"}
  PROVE  calls["setup"].op = "none" /\ ~Inside("setup")
BY DEF CallsInv, SetupCalls, Applying, Inside

\* What the calling steps of setup make of its call.
LEMMA SetupTurns ==
  ASSUME SetupInv, TypeInv, CallsInv,
         StopForReplace \/ Replace \/ RemoveExisting \/ Removed \/ Install \/ Registers \/ StartService \/ Stopped \/ Started
  PROVE  /\ UNCHANGED <<faults, flags, host, store, loaded, served, hurt>>
         /\ \/ UNCHANGED <<calls, reg, source, state, due>> /\ calls["setup"].op = "none"
            \/ Turned("setup") /\ calls'["setup"].op = "none"
            \/ /\ Turned("setup") /\ calls'["setup"].command = Wanted /\ SetupCalls'
               /\ calls'["setup"].op = "install" => Loads(host.content)
<1> USE DEF SetupInv, SetupOnly
<1>1. ManagerTypeOK /\ flags \in FlagSets
  BY DEF TypeInv
<1>2. ASSUME NEW op \in Ops, Call(op), ~Inside("setup"), UNCHANGED <<reg, source, state, due, flags>>
      PROVE  Turned("setup") /\ calls'["setup"].op = op /\ calls'["setup"].command = Wanted
  BY <1>1, <1>2, BeginTurns, FlagsTyped, Parties DEF Call
<1>3. ASSUME Leave("setup"), ~Inside("setup"), UNCHANGED <<reg, source, state, due>>
      PROVE  Turned("setup") /\ calls'["setup"].op = "none"
  BY <1>1, <1>3, LeaveTurns, Parties
<1>4. Returned("setup") => ~Inside("setup")
  BY DEF Returned, Inside
<1>5. ASSUME NEW at, To(at) PROVE run'.phase = run.phase /\ run'.at = at /\ Name' = Name
  BY <1>5 DEF To, RunShape, Fields, Name
<1>6. UNCHANGED <<faults, flags, host, store, loaded, served, hurt>>
  BY DEF StopForReplace, Replace, RemoveExisting, Removed, Install, Registers, StartService, Stopped, Started
<1>7. CASE StopForReplace
  <2>1. CASE UNCHANGED calls
    BY <1>6, <1>7, <2>1, SetupIdle DEF StopForReplace, Enter, Applying
  <2>2. CASE Call("stop") /\ To("stop")
    <3>1. Turned("setup") /\ calls'["setup"].op = "stop" /\ calls'["setup"].command = Wanted
      BY <1>2, <1>7, <2>2, SetupIdle DEF StopForReplace, Enter, Applying, Ops
    <3>2. SetupCalls'
      BY <1>5, <1>7, <2>2, <3>1 DEF StopForReplace, Enter, Applying, SetupCalls
    <3> QED
      BY <1>6, <3>1, <3>2
  <2> QED
    BY <1>7, <2>1, <2>2 DEF StopForReplace
<1>8. CASE RemoveExisting
  <2>1. CASE UNCHANGED calls
    BY <1>6, <1>8, <2>1, SetupIdle DEF RemoveExisting, Enter, Applying
  <2>2. CASE flags.reinstall /\ Call("uninstall") /\ To("remove")
    <3>1. Turned("setup") /\ calls'["setup"].op = "uninstall" /\ calls'["setup"].command = Wanted
      BY <1>2, <1>8, <2>2, SetupIdle DEF RemoveExisting, Enter, Applying, Ops
    <3>2. SetupCalls'
      BY <1>5, <1>6, <1>8, <2>2, <3>1 DEF RemoveExisting, Enter, Applying, SetupCalls
    <3> QED
      BY <1>6, <3>1, <3>2
  <2> QED
    BY <1>8, <2>1, <2>2 DEF RemoveExisting
<1>9. CASE Install
  <2>1. CASE UNCHANGED calls
    BY <1>6, <1>9, <2>1, SetupIdle DEF Install, Applying
  <2>2. CASE Loads(host.content) /\ Call("install") /\ To("register")
    <3>1. Turned("setup") /\ calls'["setup"].op = "install" /\ calls'["setup"].command = Wanted
      BY <1>2, <1>9, <2>2, SetupIdle DEF Install, Applying, Ops
    <3>2. SetupCalls'
      BY <1>5, <1>9, <2>2, <3>1 DEF Install, Applying, SetupCalls
    <3> QED
      BY <1>6, <2>2, <3>1, <3>2
  <2> QED
    BY <1>9, <2>1, <2>2 DEF Install
<1>10. CASE StartService
  <2>1. CASE Call("stop") /\ To("stop")
    <3>1. Turned("setup") /\ calls'["setup"].op = "stop" /\ calls'["setup"].command = Wanted
      BY <1>2, <1>10, <2>1, SetupIdle DEF StartService, Enter, Applying, Ops
    <3>2. SetupCalls'
      BY <1>5, <1>10, <2>1, <3>1 DEF StartService, Enter, Applying, SetupCalls
    <3> QED
      BY <1>6, <3>1, <3>2
  <2>2. CASE Call("start") /\ To("wait")
    <3>1. Turned("setup") /\ calls'["setup"].op = "start" /\ calls'["setup"].command = Wanted
      BY <1>2, <1>10, <2>2, SetupIdle DEF StartService, Enter, Applying, Ops
    <3>2. SetupCalls'
      BY <1>5, <1>10, <2>2, <3>1 DEF StartService, Enter, Applying, SetupCalls
    <3> QED
      BY <1>6, <3>1, <3>2
  <2> QED
    BY <1>10, <2>1, <2>2 DEF StartService
<1>11. CASE Stopped
  <2>1. CASE Leave("setup")
    BY <1>3, <1>4, <1>6, <1>11, <2>1 DEF Stopped
  <2>2. CASE Call("start") /\ To("wait")
    <3>1. Turned("setup") /\ calls'["setup"].op = "start" /\ calls'["setup"].command = Wanted
      BY <1>2, <1>4, <1>11, <2>2 DEF Stopped, Ops
    <3>2. SetupCalls'
      BY <1>5, <1>11, <2>2, <3>1 DEF Stopped, Applying, SetupCalls
    <3> QED
      BY <1>6, <3>1, <3>2
  <2> QED
    BY <1>11, <2>1, <2>2 DEF Stopped
<1>12. CASE Replace \/ Removed \/ Registers \/ Started
  BY <1>3, <1>4, <1>6, <1>12 DEF Replace, Removed, Registers, Started
<1> QED
  BY <1>7, <1>8, <1>9, <1>10, <1>11, <1>12

\* The steps in which nothing happens to the service or at the SCM.
Quiet ==
  \/ UNCHANGED vars \/ runSetup \/ Check \/ Decide \/ Fault \/ AdminSecures \/ AdminMints \/ Edit
  \/ Skip \/ MakeDirectory \/ LockDirectory \/ CreateConfig \/ WriteConfig \/ SaveToken \/ LockStore
  \/ CopyFile \/ SecurePaths \/ Verify \/ ProveAuth

\* Those that begin or end a call of setup, and those of the process.
CallingSteps ==
  StopForReplace \/ Replace \/ RemoveExisting \/ Removed \/ Install \/ Registers \/ StartService \/ Stopped \/ Started

ProcessSteps == ProcessUp \/ ProcessRefuses \/ ProcessEnds \/ ProcessDies \/ ScmRestarts

\* Every step is of one of these kinds.
LEMMA NextKinds ==
  ASSUME [Next]_vars
  PROVE  Quiet \/ CallingSteps \/ ProcessSteps \/ ManagerSteps \/ Crash \/ AdminBegins \/ AdminEnds
BY DEF Next, ApplyStep, Quiet, CallingSteps, ProcessSteps

\* What the quiet steps leave alone.
LEMMA QuietIsQuiet ==
  ASSUME Quiet
  PROVE  UNCHANGED <<reg, source, state, due, calls, flags, served, loaded>> /\ hurt \subseteq hurt'
         /\ (faults' = faults \/ (faults > 0 /\ faults' = faults - 1))
BY DEF Quiet, vars, mgrVars, setupVars, runSetup, Check, Decide, Fault, Accident, AdminSecures, AdminMints, Edit,
       Skip, MakeDirectory, LockDirectory, CreateConfig, WriteConfig, SaveToken, LockStore, CopyFile, SecurePaths, Verify, ProveAuth

\* An administrator's call begins and ends.
LEMMA AdminTurns ==
  ASSUME TypeInv, CallsInv, AdminBegins \/ AdminEnds
  PROVE  /\ Turned("admin") /\ UNCHANGED <<flags, run, store, loaded, served>> /\ hurt \subseteq hurt' /\ "admin" \in hurt'
         /\ faults' = faults \/ (faults > 0 /\ faults' = faults - 1)
         /\ calls'["admin"].op # "none" =>
              /\ calls'["admin"].op \in Verbs /\ calls'["admin"].command = AdminCommand
              /\ run.phase \in {"check", "apply"} /\ (calls'["admin"].op = "install" => Loads(host.content))
<1> USE DEF TypeInv, SetupOnly
<1>1. CASE AdminBegins
  <2>1. PICK verb \in Verbs : Begin("admin", verb, AdminCommand) /\ (verb = "install" => Loads(host.content))
    BY <1>1 DEF AdminBegins, AdminCommand
  <2>2. Turned("admin") /\ calls'["admin"].op = verb /\ calls'["admin"].command = AdminCommand
    BY <1>1, <2>1, BeginTurns, FlagsTyped, Parties DEF AdminBegins, Inside
  <2> QED
    BY <1>1, <2>1, <2>2 DEF AdminBegins
<1>2. CASE AdminEnds
  <2>1. ~Inside("admin")
    BY <1>2 DEF AdminEnds, Returned, Inside
  <2> QED
    BY <1>2, <2>1, LeaveTurns, Parties DEF AdminEnds, CallsInv, Returned
<1> QED
  BY <1>1, <1>2

\* A killed command leaves its call, and the registration that its handle kept.
LEMMA CrashLeaves ==
  ASSUME TypeInv, Crash
  PROVE  /\ calls' \in [Callers -> CallRecords] /\ calls'["setup"].op = "none" /\ calls'["setup"].at = "done"
         /\ \A d \in Callers : d # "setup" => calls'[d] = calls[d]
         /\ reg' = Left(reg, calls', state) /\ UNCHANGED <<source, state, due, flags, host, store, loaded, served>>
         /\ "crash" \in hurt' /\ hurt \subseteq hurt' /\ run'= [run EXCEPT !.phase = "ended", !.at = "none", !.code = 1]
         /\ faults > 0 /\ faults' = faults - 1
BY CallLeft, Parties DEF Crash, TypeInv

\* What the SCM knows stays of its type.
LEMMA MgrTyped ==
  ASSUME SetupInv, TypeInv, CallsInv, [Next]_vars
  PROVE  ManagerTypeOK'
<1> DEFINE Regs == reg' \in Registrations /\ source' \in BOOLEAN /\ state' \in States /\ due' \in BOOLEAN /\ faults' \in 0..MaxFaults
           Calls == calls' \in [Callers -> CallRecords]
<1>1. /\ reg \in Registrations /\ source \in BOOLEAN /\ state \in States /\ due \in BOOLEAN /\ faults \in 0..MaxFaults
      /\ calls \in [Callers -> CallRecords]
  BY DEF TypeInv, ManagerTypeOK, CallRecords, Registrations
<1>2. faults > 0 => faults - 1 \in 0..MaxFaults
  BY <1>1, ManagerAssumption
<1>3. SUFFICES Regs /\ Calls
  BY DEF ManagerTypeOK, CallRecords, Registrations
<1>4. CASE Quiet
  BY <1>1, <1>2, <1>4, QuietIsQuiet
<1>5. CASE CallingSteps
  BY <1>1, <1>5, SetupTurns DEF CallingSteps, Turned
<1>6. CASE ProcessSteps
  <2>1. calls' = calls /\ source' = source
    BY <1>6 DEF ProcessSteps, ProcessUp, ProcessRefuses, ProcessEnds, ProcessDies, ScmRestarts,
            ComesUp, GoesDown, Drained, Dies, Restart
  <2>2. reg' = reg \/ \E s : reg' = Left(reg, calls, s)
    BY <1>6 DEF ProcessSteps, ProcessUp, ProcessRefuses, ProcessEnds, ProcessDies, ScmRestarts,
            ComesUp, GoesDown, Drained, Dies, Restart
  <2>3. reg' \in Registrations
    BY <1>1, <2>2, LeftTyped
  <2>4. state' \in States /\ due' \in BOOLEAN
    BY <1>1, <1>6 DEF ProcessSteps, ProcessUp, ProcessRefuses, ProcessEnds, ProcessDies, ScmRestarts,
            ComesUp, GoesDown, Drained, Dies, Restart, States
  <2>5. faults' \in 0..MaxFaults
    BY <1>1, <1>2, <1>6 DEF ProcessSteps, ProcessUp, ProcessRefuses, ProcessEnds, ProcessDies, ScmRestarts,
            ComesUp, GoesDown, Drained, Dies, Restart
  <2> QED
    BY <1>1, <2>1, <2>3, <2>4, <2>5
<1>7. CASE ManagerSteps
  BY <1>7, ManagerStepTypes DEF ManagerSteps, TypeInv, ManagerTypeOK, CallRecords, Registrations
<1>8. CASE Crash
  BY <1>1, <1>2, <1>8, CrashLeaves, LeftTyped
<1>9. CASE AdminBegins \/ AdminEnds
  BY <1>1, <1>2, <1>9, AdminTurns DEF Turned
<1> QED
  BY <1>4, <1>5, <1>6, <1>7, <1>8, <1>9, NextKinds

\* Whoever makes a step at the SCM is inside a call, and the calls stay what they are.
LEMMA CallsStay ==
  ASSUME ManagerTypeOK, NEW c \in Callers, ManagerStep(c) \/ DeleteFails(c)
  PROVE  /\ Inside(c) /\ calls[c].op \in Ops /\ calls[c].at # "done"
         /\ \A d \in Callers : calls'[d].op = calls[d].op /\ calls'[d].command = calls[d].command
         /\ \A d \in Callers : d # c => calls'[d] = calls[d]
<1>1. \A at, err : MovedTo(c, at, err) => /\ \A d \in Callers : calls'[d].op = calls[d].op /\ calls'[d].command = calls[d].command
                                          /\ \A d \in Callers : d # c => calls'[d] = calls[d]
  BY DEF MovedTo
<1>2. CASE OpenToInstall(c) \/ Create(c) \/ Configure(c) \/ InstallSource(c) \/ RollBack(c) \/ DeleteFails(c)
  <2>1. calls[c].op = "install" /\ calls[c].at # "done"
    BY <1>2 DEF OpenToInstall, Create, Configure, InstallSource, RollBack, DeleteFails, Whole
  <2> QED
    BY <1>1, <1>2, <2>1, ManagerMoves DEF Inside, Ops
<1>3. CASE OpenToStop(c)
  BY <1>1, <1>3, ManagerMoves DEF OpenToStop, Stopping, Inside, Ops
<1>4. CASE SendStop(c) \/ WaitStopped(c) \/ StopTimesOut(c)
  BY <1>1, <1>4, ManagerMoves DEF SendStop, WaitStopped, StopTimesOut, Stopping, Inside, Ops
<1>5. CASE Delete(c) \/ RemoveSource(c)
  BY <1>1, <1>5, ManagerMoves DEF Delete, RemoveSource, Inside, Ops
<1>6. CASE OpenToStart(c) \/ SendStart(c) \/ WaitRunning(c)
  BY <1>1, <1>6, ManagerMoves DEF OpenToStart, SendStart, WaitRunning, Inside, Ops
<1> QED
  BY <1>2, <1>3, <1>4, <1>5, <1>6 DEF ManagerStep

\* A quiet step of the run is taken outside of any call.
LEMMA QuietOutside ==
  ASSUME SetupInv, CallsInv, Quiet
  PROVE  UNCHANGED run \/ calls["setup"].op = "none"
<1> USE DEF SetupInv
<1>1. CASE UNCHANGED vars \/ AdminSecures \/ AdminMints \/ Edit
  BY <1>1 DEF vars, setupVars, AdminSecures, AdminMints, Edit
<1>2. CASE runSetup \/ Check \/ Decide
  BY <1>2, SetupIdle DEF runSetup, Check, Decide
<1>3. CASE Fault
  BY <1>3, SetupIdle DEF Fault
<1>4. CASE \/ Skip \/ MakeDirectory \/ LockDirectory \/ CreateConfig \/ WriteConfig \/ SaveToken \/ LockStore
           \/ CopyFile \/ SecurePaths \/ Verify \/ ProveAuth
  BY <1>4, SetupIdle DEF Skip, MakeDirectory, LockDirectory, CreateConfig, WriteConfig, SaveToken, LockStore,
         CopyFile, SecurePaths, Verify, ProveAuth, Enter, Applying
<1> QED
  BY <1>1, <1>2, <1>3, <1>4 DEF Quiet

\* Every step keeps setup's calls at its steps and everybody else out.
LEMMA CallsKept ==
  ASSUME SetupInv, TypeInv, CallsInv, [Next]_vars
  PROVE  CallsInv'
<1> USE DEF TypeInv
<1>0. UNCHANGED flags => Wanted' = Wanted /\ AdminCommand' = AdminCommand
  BY DEF Wanted, AdminCommand
<1>1. UNCHANGED <<flags, run>> /\ calls'["setup"].op = calls["setup"].op /\ SetupCalls => SetupCalls'
  BY DEF SetupCalls, Applying, Name
<1>2. CASE Quiet
  BY <1>0, <1>1, <1>2, QuietIsQuiet, QuietOutside DEF CallsInv
<1>3. CASE CallingSteps
  BY <1>0, <1>3, SetupTurns, Parties DEF CallingSteps, CallsInv, Turned
<1>4. CASE ProcessSteps
  <2>1. UNCHANGED <<calls, flags, run>> /\ hurt \subseteq hurt'
    BY <1>4 DEF ProcessSteps, ProcessUp, ProcessRefuses, ProcessEnds, ProcessDies, ScmRestarts,
            ComesUp, GoesDown, Drained, Dies, Restart, setupVars
  <2> QED
    BY <1>0, <1>1, <2>1 DEF CallsInv
<1>5. CASE ManagerSteps
  <2>1. UNCHANGED <<flags, run>> /\ hurt \subseteq hurt'
    BY <1>5 DEF ManagerSteps
  <2>2. \A d \in Callers : calls'[d].op = calls[d].op /\ calls'[d].command = calls[d].command
    BY <1>5, CallsStay DEF ManagerSteps
  <2> QED
    BY <1>0, <1>1, <2>1, <2>2, Parties DEF CallsInv
<1>6. CASE Crash
  BY <1>0, <1>6, CrashLeaves, Parties DEF CallsInv
<1>7. CASE AdminBegins \/ AdminEnds
  <2>1. calls'["setup"] = calls["setup"] /\ \A d \in Callers : d # "admin" => calls'[d] = calls[d]
    BY <1>7, AdminTurns, Parties DEF Turned
  <2> QED
    BY <1>0, <1>1, <1>7, <2>1, AdminTurns DEF CallsInv
<1> QED
  BY <1>2, <1>3, <1>4, <1>5, <1>6, <1>7, NextKinds

\* Beginning and leaving a call is not being at the registration.
LEMMA RegFrame ==
  ASSUME RegInv, UNCHANGED <<reg, state>>, hurt \subseteq hurt',
         \A d \in Callers : calls'[d] = calls[d] \/ (~Holds(calls, d) /\ ~Holds(calls', d))
  PROVE  RegInv'
<1> USE DEF RegInv
<1>1. \A d \in Callers : Builder(d)' <=> Builder(d)
  BY DEF Builder, Holds, Whole
<1>2. \A d \in Callers : Holds(calls', d) <=> Holds(calls, d)
  BY DEF Holds
<1>3. \A d \in Callers : Builder(d) => calls'[d] = calls[d]
  BY BuilderHolds
<1> QED
  BY <1>1, <1>2, <1>3

\* Whoever begins or leaves a call holds nothing.
LEMMA TurnedHolds ==
  ASSUME NEW c \in Callers, Turned(c)
  PROVE  \A d \in Callers : calls'[d] = calls[d] \/ (~Holds(calls, d) /\ ~Holds(calls', d))
BY DEF Turned, Holds, Inside

\* What the SCM and the process do to a registration: a marked one goes with its process.
LEMMA ProcessLooks ==
  ASSUME RegInv, ProcessSteps
  PROVE  /\ UNCHANGED <<source, calls, flags, run, host, store, shown>> /\ hurt \subseteq hurt'
         /\ \/ reg' = reg
            \/ reg.marked /\ reg' = Unregistered /\ state' = "stopped" /\ \A d \in Callers : ~Holds(calls', d)
         /\ state' = state \/ reg.there
<1>1. UNCHANGED <<source, calls, flags, run, host, store, shown>> /\ hurt \subseteq hurt'
  BY DEF ProcessSteps, ProcessUp, ProcessRefuses, ProcessEnds, ProcessDies, ScmRestarts,
         ComesUp, GoesDown, Drained, Dies, Restart, setupVars
<1>2. \/ reg' = reg
      \/ reg.marked /\ reg' = Unregistered /\ state' = "stopped" /\ \A d \in Callers : ~Holds(calls', d)
  BY <1>1 DEF ProcessSteps, ProcessUp, ProcessRefuses, ProcessEnds, ProcessDies, ScmRestarts,
         ComesUp, GoesDown, Drained, Dies, Restart, Left
<1>3. state' = state \/ reg.there
  BY DEF ProcessSteps, ProcessUp, ProcessRefuses, ProcessEnds, ProcessDies, ScmRestarts,
         ComesUp, GoesDown, Drained, Dies, Restart, RegInv
<1> QED
  BY <1>1, <1>2, <1>3

\* Every step keeps a registration with its one builder.
LEMMA RegKept ==
  ASSUME SetupInv, TypeInv, CallsInv, RegInv, [Next]_vars
  PROVE  RegInv'
<1>1. CASE Quiet
  BY <1>1, QuietIsQuiet, RegFrame
<1>2. CASE CallingSteps
  <2>1. UNCHANGED <<reg, state>> /\ hurt \subseteq hurt'
    BY <1>2, SetupTurns DEF CallingSteps, Turned
  <2>2. UNCHANGED calls \/ Turned("setup")
    BY <1>2, SetupTurns DEF CallingSteps
  <2> QED
    BY <2>1, <2>2, TurnedHolds, Parties, RegFrame
<1>3. CASE ProcessSteps
  <2>1. \A d \in Callers : (Builder(d)' <=> Builder(d)) /\ (Holds(calls', d) <=> Holds(calls, d))
    BY <1>3, ProcessLooks DEF Builder, Holds
  <2>2. CASE reg' = reg
    BY <1>3, <2>1, <2>2, ProcessLooks DEF RegInv
  <2>3. CASE reg' # reg
    BY <1>3, <2>1, <2>3, ProcessLooks, BuilderHolds DEF RegInv, Unregistered
  <2> QED
    BY <2>2, <2>3
<1>4. CASE ManagerSteps
  <2>1. hurt \subseteq hurt'
    BY <1>4 DEF ManagerSteps
  <2>2. PICK c \in Callers : ManagerStep(c) \/ (DeleteFails(c) /\ "undeleted" \in hurt')
    BY <1>4 DEF ManagerSteps
  <2> QED
    BY <2>1, <2>2, ManagerKeepsReg DEF TypeInv
<1>5. CASE Crash
  <2>1. /\ calls'["setup"].op = "none" /\ \A d \in Callers : d # "setup" => calls'[d] = calls[d]
        /\ reg' = Left(reg, calls', state) /\ UNCHANGED state /\ "crash" \in hurt'
    BY <1>5, CrashLeaves
  <2>2. \A d \in Callers : (Builder(d)' => Builder(d) /\ calls'[d] = calls[d]) /\ (Holds(calls', d) => Holds(calls, d))
    BY <2>1 DEF Builder, Holds
  <2>3. reg' = reg \/ (reg' = Unregistered /\ state = "stopped" /\ \A d \in Callers : ~Holds(calls', d))
    BY <2>1 DEF Left
  <2>4. \A d \in Callers : Builder(d)' => Holds(calls', d)
    BY DEF Builder, Holds, Whole
  <2> QED
    BY <2>1, <2>2, <2>3, <2>4 DEF RegInv, Unregistered
<1>6. CASE AdminBegins \/ AdminEnds
  BY <1>6, AdminTurns, TurnedHolds, Parties, RegFrame DEF Turned
<1> QED
  BY <1>1, <1>2, <1>3, <1>4, <1>5, <1>6, NextKinds

\* Every step of a run that applies is one it may take.
LEMMA RunKept ==
  ASSUME SetupInv, RunInv, [Next]_vars
  PROVE  RunInv'
<1> USE DEF SetupInv
<1>1. ASSUME NEW at, To(at), run.phase = "apply", run.verdicts[run.step] = "pending" PROVE RunInv'
  BY <1>1 DEF To, RunInv, RunShape, Fields
<1>2. ASSUME NextStep PROVE RunInv'
  BY <1>2 DEF NextStep, RunInv, RunShape, Fields
<1>3. ASSUME NEW code \in 0..4, Finish(code) PROVE RunInv'
  BY <1>3, FinishEnds DEF RunInv, RunShape, Fields
<1>4. Failed => RunInv'
  BY <1>3 DEF Failed
<1>5. UNCHANGED run => RunInv'
  BY DEF RunInv
<1>6. CASE runSetup
  BY <1>6 DEF runSetup, Begun, NotRun, RunInv
<1>7. CASE Check
  <2>1. CASE Verdict(Name) = "error"
    BY <1>3, <1>7, <2>1 DEF Check
  <2>2. CASE Verdict(Name) # "error"
    <3> DEFINE v == Verdict(Name)
               w == run.wants \/ wantsRestart(Name)
               a == IF Name = "config" THEN host.content # "noAuth" ELSE run.auth
    <3>1. run' = [run EXCEPT !.verdicts = Append(@, v), !.step = IF @ = 7 THEN 7 ELSE @ + 1, !.wants = w, !.auth = a]
      BY <1>7, <2>2 DEF Check
    <3>2. v # "error" /\ run.phase = "check"
      BY <1>7, <2>2 DEF Check
    <3> HIDE DEF v, w, a
    <3>3. run'.verdicts = Append(run.verdicts, v) /\ run'.phase = "check"
      BY <3>1, <3>2 DEF RunShape, Fields
    <3>4. \A i \in DOMAIN run'.verdicts : run'.verdicts[i] = v \/ (i \in DOMAIN run.verdicts /\ run'.verdicts[i] = run.verdicts[i])
      BY <3>3 DEF RunShape
    <3> QED
      BY <3>2, <3>3, <3>4 DEF RunInv
  <2> QED
    BY <2>1, <2>2
<1>8. CASE Decide
  <2>1. CASE \E code \in 0..4 : Finish(code)
    BY <1>3, <2>1
  <2>2. CASE /\ run' = [run EXCEPT !.phase = "apply", !.step = 1, !.at = "start"]
             /\ \A i \in 1..7 : run.verdicts[i] # "blocked"
    BY <2>2 DEF RunInv, RunShape, Fields
  <2> QED
    BY <1>8, <2>1, <2>2 DEF Decide
<1>9. CASE ApplyStep
  <2>1. run.phase = "apply" /\ run.at # "start" => run.verdicts[run.step] = "pending"
    BY DEF RunInv
  <2>2. CASE Skip \/ MakeDirectory \/ LockDirectory \/ CreateConfig \/ WriteConfig \/ LockStore \/ CopyFile \/ SecurePaths
    BY <1>1, <1>2, <1>4, <2>1, <2>2 DEF Skip, MakeDirectory, LockDirectory, CreateConfig, WriteConfig, LockStore,
         CopyFile, SecurePaths, Enter, Applying
  <2>3. CASE SaveToken
    <3>1. run.phase = "apply" /\ run.verdicts[run.step] = "pending"
      BY <2>3 DEF SaveToken, Enter, Applying
    <3>2. CASE run' = [run EXCEPT !.at = "lock", !.minted = TRUE]
      BY <3>1, <3>2 DEF RunInv, RunShape, Fields
    <3> QED
      BY <1>4, <2>3, <3>2 DEF SaveToken
  <2>4. CASE StopForReplace \/ Replace \/ RemoveExisting \/ Removed \/ Install \/ Registers
    BY <1>1, <1>2, <1>4, <2>1, <2>4 DEF StopForReplace, Replace, RemoveExisting, Removed, Install, Registers, Enter, Applying
  <2>5. CASE StartService \/ Stopped \/ Started \/ Verify \/ ProveAuth
    BY <1>1, <1>2, <1>3, <1>4, <2>1, <2>5 DEF StartService, Stopped, Started, Verify, ProveAuth, Enter, Applying
  <2> QED
    BY <1>9, <2>2, <2>3, <2>4, <2>5 DEF ApplyStep
<1>10. CASE Fault \/ Crash
  <2>1. CASE run' = [run EXCEPT !.phase = "ended", !.at = "none", !.code = 1]
    BY <2>1 DEF RunInv, RunShape, Fields
  <2> QED
    BY <1>4, <1>10, <2>1 DEF Fault, Accident, Crash
<1>11. CASE \/ UNCHANGED vars \/ ManagerSteps \/ ProcessUp \/ ProcessRefuses \/ ProcessEnds \/ ProcessDies \/ ScmRestarts
           \/ AdminBegins \/ AdminEnds \/ AdminSecures \/ AdminMints \/ Edit
  BY <1>5, <1>11 DEF vars, setupVars, ManagerSteps, ProcessUp, ProcessRefuses, ProcessEnds, ProcessDies, ScmRestarts,
         AdminBegins, AdminEnds, AdminSecures, AdminMints, Edit
<1> QED
  BY <1>6, <1>7, <1>8, <1>9, <1>10, <1>11 DEF Next

\* Nobody touches a configuration between its creation and its writing.
LEMMA WriteKept ==
  ASSUME SetupInv, WriteInv, [Next]_vars
  PROVE  WriteInv'
<1> USE DEF SetupInv
<1> DEFINE Writing == Applying("config", "write")
           Keyed == /\ run.phase \in {"check", "apply"} => run.key = IF flags.key = "generate" THEN "new" ELSE "old"
                    /\ run.phase \in {"check", "apply"} /\ flags.key = "generate" => flags.own
<1>1. UNCHANGED flags
  BY DEF Next, ApplyStep, vars, setupVars, runSetup, Check, Decide, ManagerSteps, ProcessUp, ProcessRefuses, ProcessEnds,
         ProcessDies, ScmRestarts, Fault, Crash, AdminBegins, AdminEnds, AdminSecures, AdminMints, Edit,
         Skip, MakeDirectory, LockDirectory, CreateConfig, WriteConfig, SaveToken, LockStore, StopForReplace, Replace, CopyFile,
         RemoveExisting, Removed, Install, Registers, SecurePaths, StartService, Stopped, Started, Verify, ProveAuth
<1>2. ASSUME NEW at, To(at) PROVE Keyed' /\ run'.at = at
  BY <1>1, <1>2 DEF To, WriteInv, RunShape, Fields
<1>3. NextStep => Keyed' /\ ~Writing'
  BY <1>1 DEF NextStep, WriteInv, RunShape, Fields, Applying
<1>4. ASSUME NEW code \in 0..4, Finish(code) PROVE Keyed' /\ ~Writing'
  BY <1>4, FinishEnds DEF RunShape, Fields, Applying
<1>5. Failed => Keyed' /\ ~Writing'
  BY <1>4 DEF Failed
<1>6. UNCHANGED run /\ (host'.content = host.content \/ host.content = "absent") => WriteInv'
  BY <1>1 DEF WriteInv, Applying, Name
<1>7. CASE runSetup
  BY <1>1, <1>7 DEF runSetup, Begun, NotRun, WriteInv, guardRekey, owns, Applying
<1>8. CASE Check
  <2>1. CASE Verdict(Name) = "error"
    BY <1>4, <1>8, <2>1 DEF Check, WriteInv
  <2>2. CASE Verdict(Name) # "error"
    <3>1. run'.phase = "check" /\ run'.key = run.key /\ run.phase = "check"
      BY <1>8, <2>2 DEF Check, RunShape, Fields
    <3> QED
      BY <1>1, <3>1 DEF WriteInv, Applying
  <2> QED
    BY <2>1, <2>2
<1>9. CASE Decide
  <2>1. CASE \E code \in 0..4 : Finish(code)
    BY <1>4, <2>1 DEF WriteInv
  <2>2. CASE run' = [run EXCEPT !.phase = "apply", !.step = 1, !.at = "start"] /\ run.phase = "check"
    BY <1>1, <2>2 DEF WriteInv, RunShape, Fields, Applying
  <2> QED
    BY <1>9, <2>1, <2>2 DEF Decide
<1>10. CASE ApplyStep
  <2>1. CASE CreateConfig
    <3>1. CASE host.content # "absent"
      BY <1>5, <2>1, <3>1 DEF CreateConfig, WriteInv
    <3>2. CASE host.content = "absent"
      BY <1>2, <2>1, <3>2 DEF CreateConfig, WriteInv, HostShape
    <3> QED
      BY <3>1, <3>2
  <2>2. CASE SaveToken
    <3>1. CASE run' = [run EXCEPT !.at = "lock", !.minted = TRUE]
      BY <1>1, <3>1 DEF WriteInv, RunShape, Fields, Applying
    <3> QED
      BY <1>5, <2>2, <3>1 DEF SaveToken, WriteInv
  <2>3. CASE Skip \/ MakeDirectory \/ LockDirectory \/ WriteConfig \/ LockStore \/ CopyFile \/ SecurePaths
    BY <1>2, <1>3, <1>5, <2>3 DEF Skip, MakeDirectory, LockDirectory, WriteConfig, LockStore, CopyFile, SecurePaths,
         WriteInv, Applying
  <2>4. CASE StopForReplace \/ Replace \/ RemoveExisting \/ Removed \/ Install \/ Registers
    BY <1>2, <1>5, <2>4 DEF StopForReplace, Replace, RemoveExisting, Removed, Install, Registers, WriteInv, Applying
  <2>5. CASE StartService \/ Stopped \/ Started \/ Verify \/ ProveAuth
    BY <1>2, <1>3, <1>4, <1>5, <2>5 DEF StartService, Stopped, Started, Verify, ProveAuth, WriteInv, Applying
  <2> QED
    BY <1>10, <2>1, <2>2, <2>3, <2>4, <2>5 DEF ApplyStep
<1>11. CASE Fault \/ Crash
  <2>1. CASE run' = [run EXCEPT !.phase = "ended", !.at = "none", !.code = 1]
    BY <2>1 DEF WriteInv, RunShape, Fields, Applying
  <2> QED
    BY <1>5, <1>11, <2>1 DEF Fault, Accident, Crash, WriteInv
<1>12. CASE \/ UNCHANGED vars \/ ManagerSteps \/ ProcessUp \/ ProcessRefuses \/ ProcessEnds \/ ProcessDies \/ ScmRestarts
            \/ AdminBegins \/ AdminEnds \/ AdminSecures \/ AdminMints \/ Edit
  <2>1. UNCHANGED run
    BY <1>12 DEF vars, setupVars, ManagerSteps, ProcessUp, ProcessRefuses, ProcessEnds, ProcessDies, ScmRestarts,
         AdminBegins, AdminEnds, AdminSecures, AdminMints, Edit
  <2>2. host'.content = host.content \/ host.content = "absent"
    BY <1>12 DEF vars, setupVars, ManagerSteps, ProcessUp, ProcessRefuses, ProcessEnds, ProcessDies, ScmRestarts,
         AdminBegins, AdminEnds, AdminSecures, AdminMints, WithStore, Edit, HostShape
  <2> QED
    BY <1>6, <2>1, <2>2
<1> QED
  BY <1>7, <1>8, <1>9, <1>10, <1>11, <1>12 DEF Next

\* Nobody but setup is at the SCM while no administrator is.
LEMMA OnlySetup ==
  ASSUME TypeInv, CallsInv, "admin" \notin hurt, NEW c \in Callers, ManagerStep(c) \/ DeleteFails(c)
  PROVE  c = "setup"
BY CallsStay DEF CallsInv, TypeInv, Inside

\* Without an administrator and without an accident at the registration, one that has no
\* event source yet is still being built by setup, and setup removes the source only with
\* the registration.
SourceInv ==
  hurt \cap {"admin", "crash", "undeleted"} = {} =>
    /\ reg.there /\ ~reg.marked /\ ~source => Builder("setup")
    /\ calls["setup"].op = "uninstall" /\ calls["setup"].at = "source" => ~reg.there \/ reg.marked

\* Every step keeps the event source with the registration.
LEMMA SourceKept ==
  ASSUME SetupInv, TypeInv, CallsInv, RegInv, SourceInv, [Next]_vars
  PROVE  SourceInv'
<1> USE DEF SourceInv, TypeInv
<1>1. CASE Quiet
  BY <1>1, QuietIsQuiet DEF Builder
<1>2. CASE CallingSteps
  <2>1. UNCHANGED <<reg, source, calls, hurt>> \/ (Turned("setup") /\ UNCHANGED hurt)
    BY <1>2, SetupTurns DEF CallingSteps
  <2>2. CASE UNCHANGED <<reg, source, calls, hurt>>
    BY <2>2 DEF Builder
  <2>3. CASE Turned("setup") /\ UNCHANGED hurt
    <3>1. ~Builder("setup")
      BY <2>3 DEF Turned, Builder, Inside, Whole
    <3>2. calls'["setup"].at \in {"open", "done"}
      BY <2>3 DEF Turned
    <3> QED
      BY <2>3, <3>1, <3>2 DEF Turned
  <2> QED
    BY <2>1, <2>2, <2>3
<1>3. CASE ProcessSteps
  BY <1>3, ProcessLooks DEF Builder, Unregistered
<1>4. CASE ManagerSteps
  <2> SUFFICES ASSUME hurt' \cap {"admin", "crash", "undeleted"} = {}
               PROVE  /\ reg'.there /\ ~reg'.marked /\ ~source' => Builder("setup")'
                      /\ calls'["setup"].op = "uninstall" /\ calls'["setup"].at = "source" => ~reg'.there \/ reg'.marked
    OBVIOUS
  <2>1. hurt \subseteq hurt'
    BY <1>4 DEF ManagerSteps
  <2>2. PICK c \in Callers : ManagerStep(c)
    BY <1>4 DEF ManagerSteps
  <2>3. c = "setup" /\ hurt \cap {"admin", "crash", "undeleted"} = {}
    BY <2>1, <2>2, OnlySetup
  <2>4. reg \in Registrations
    BY DEF ManagerTypeOK, Registrations
  <2>5. CASE OpenToStop(c)
    BY <2>3, <2>5, ManagerMoves DEF OpenToStop, Stopping, AfterStop, MovedTo, Builder, Whole
  <2>6. CASE \/ OpenToInstall(c) \/ (Create(c) /\ reg.there)
             \/ SendStop(c) \/ WaitStopped(c) \/ StopTimesOut(c)
             \/ OpenToStart(c) \/ SendStart(c) \/ WaitRunning(c)
    <3>1. Looks(c)
      BY <2>6, LookingSteps
    <3>2. calls'[c].op = "uninstall" => calls'[c].at # "source"
      BY <2>6, ManagerMoves DEF MovedTo, OpenToInstall, Create, SendStop, WaitStopped, StopTimesOut, AfterStop,
           OpenToStart, SendStart, WaitRunning
    <3> QED
      BY <2>3, <3>1, <3>2 DEF Looks, Unregistered
  <2>7. CASE Create(c) /\ ~reg.there
    BY <2>3, <2>7, ManagerMoves DEF MovedTo, Create, Builder, Whole
  <2>8. CASE Configure(c)
    BY <2>3, <2>8, ManagerMoves DEF MovedTo, Configure, NextPiece, Builder, Whole
  <2>9. CASE InstallSource(c)
    BY <2>3, <2>9, ManagerMoves DEF MovedTo, InstallSource
  <2>10. CASE RollBack(c)
    BY <2>3, <2>4, <2>10, ManagerMoves DEF MovedTo, RollBack, Left, Registrations, Unregistered
  <2>11. CASE Delete(c)
    BY <2>3, <2>4, <2>11, ManagerMoves DEF MovedTo, Delete, Left, Registrations, Unregistered
  <2>12. CASE RemoveSource(c)
    BY <2>3, <2>12, ManagerMoves DEF MovedTo, RemoveSource
  <2> QED
    BY <2>2, <2>5, <2>6, <2>7, <2>8, <2>9, <2>10, <2>11, <2>12 DEF ManagerStep
<1>5. CASE Crash
  BY <1>5, CrashLeaves
<1>6. CASE AdminBegins \/ AdminEnds
  BY <1>6, AdminTurns
<1> QED
  BY <1>1, <1>2, <1>3, <1>4, <1>5, <1>6, NextKinds

-----------------------------------------------------------------------------
(* The key.                                                                 *)

\* What guardRekey finds left of an earlier install in the layout.
Remnant == host.content # "absent" \/ \E o \in {"config", "store"} : host.acl[o].kind # "absent"

\* Before a host that is told to generate its key has a configuration that loads, either
\* something is left of an earlier key, and no run goes ahead, or it has never served.
KeyLeft ==
  /\ run.phase \in {"none", "ended"} /\ \A c \in Callers : calls[c].op = "none"
  /\ served \subseteq {"old"} /\ (Remnant \/ (reg.there /\ ~reg.marked))
NeverServed == served = {} /\ ~reg.there /\ \A c \in Callers : calls[c].op # "install"

\* A host serves under the key its configuration has, or, without one, has never served or
\* served under a key that is left on it. A generated key is only read by a registration of
\* the configuration it was generated for.
KeyInv ==
  /\ flags.key # "generate" \/ ~flags.own => host.key = "old" /\ served \subseteq {"old"}
  /\ flags.key = "generate" =>
       IF Loads(host.content)
       THEN served \subseteq {host.key} /\ (host.key = "new" /\ reg.there => Ours)
       ELSE host.key = "old" /\ (KeyLeft \/ NeverServed)

\* What the quiet steps do to the configuration.
LEMMA QuietFiles ==
  ASSUME SetupInv, WriteInv, Quiet
  PROVE  \/ host'.content = host.content /\ host'.key = host.key /\ (run.phase \in {"check", "apply"} \/ runSetup \/ UNCHANGED <<run, host>>)
         \/ /\ run.phase \in {"check", "apply"} /\ host.content = "absent" /\ host'.content = "partial" /\ host'.key = host.key
            /\ run'.at = "write"
         \/ /\ run.phase \in {"check", "apply"} /\ host.content = "absent" /\ host'.content = "good" /\ host'.key = "old"
         \/ /\ Applying("config", "write") /\ host.content = "partial" /\ host'.content = "good" /\ host'.key = run.key
<1> USE DEF SetupInv, HostShape
<1>1. CASE UNCHANGED vars \/ runSetup
  BY <1>1 DEF vars, setupVars, runSetup
<1>2. CASE Check \/ Decide \/ Fault \/ AdminSecures
  BY <1>2 DEF Check, Decide, Fault, AdminSecures
<1>3. CASE AdminMints \/ SaveToken
  BY <1>3 DEF AdminMints, SaveToken, WithStore, Enter, Applying
<1>4. CASE Edit
  BY <1>4 DEF Edit
<1>5. CASE Skip \/ Verify \/ ProveAuth
  BY <1>5 DEF Skip, Verify, ProveAuth, Enter, Applying
<1>6. CASE MakeDirectory \/ LockDirectory \/ LockStore \/ SecurePaths \/ CopyFile
  BY <1>6 DEF MakeDirectory, LockDirectory, LockStore, SecurePaths, CopyFile, Enter, Applying
<1>7. CASE CreateConfig
  BY <1>7 DEF CreateConfig, Enter, Applying, To, RunShape, Fields
<1>8. CASE WriteConfig
  <2>1. Applying("config", "write") /\ host.content = "partial"
    BY <1>8 DEF WriteConfig, WriteInv
  <2> QED
    BY <1>8, <2>1 DEF WriteConfig
<1> QED
  BY <1>1, <1>2, <1>3, <1>4, <1>5, <1>6, <1>7, <1>8 DEF Quiet

\* A registration keeps its command; a new one has that of its Install.
LEMMA CommandKept ==
  ASSUME TypeInv, NEW c \in Callers, ManagerStep(c) \/ DeleteFails(c), reg'.there
  PROVE  \/ reg.there /\ reg'.command = reg.command
         \/ ~reg.there /\ calls[c].op = "install" /\ reg'.command = calls[c].command
<1>1. reg \in Registrations
  BY DEF TypeInv, ManagerTypeOK, Registrations
<1>2. CASE OpenToInstall(c) \/ Configure(c) \/ InstallSource(c) \/ RollBack(c) \/ DeleteFails(c)
  BY <1>1, <1>2 DEF Left, Unregistered, OpenToInstall, Configure, InstallSource, RollBack, DeleteFails, Registrations
<1>3. CASE Create(c)
  BY <1>3 DEF Create, Registered
<1>4. CASE OpenToStop(c) \/ SendStop(c) \/ WaitStopped(c) \/ StopTimesOut(c) \/ Delete(c) \/ RemoveSource(c)
  <2>1. reg' = reg \/ reg' = Left(reg, calls', state) \/ reg' = Left([reg EXCEPT !.marked = TRUE], calls', state)
    BY <1>4 DEF OpenToStop, SendStop, WaitStopped, StopTimesOut, Delete, RemoveSource
  <2> QED
    BY <1>1, <2>1 DEF Registrations, Left, Unregistered
<1>5. CASE OpenToStart(c) \/ SendStart(c) \/ WaitRunning(c)
  <2>1. reg' = reg \/ reg' = Left(reg, calls', state) \/ reg' = Left(reg, calls', state')
    BY <1>5 DEF OpenToStart, SendStart, WaitRunning
  <2> QED
    BY <1>1, <2>1 DEF Registrations, Left, Unregistered
<1> QED
  BY <1>2, <1>3, <1>4, <1>5 DEF ManagerStep

\* Whoever registers, registers for this configuration.
LEMMA RegisteredOurs ==
  ASSUME TypeInv, CallsInv, NEW c \in Callers, calls[c].op # "none"
  PROVE  calls[c].command # Garbled /\ calls[c].command.own = flags.own
BY FlagsTyped DEF TypeInv, CallsInv

\* Every step keeps the key: a run with something left in its way does not begin.
LEMMA KeyKept ==
  ASSUME SetupInv, TypeInv, CallsInv, RegInv, WriteInv, KeyInv, [Next]_vars
  PROVE  KeyInv'
<1> USE DEF TypeInv, HostTypes, SetupInv
<1>1. CASE Quiet
  <2>0. UNCHANGED <<reg, calls, flags, served>>
    BY <1>1, QuietIsQuiet
  <2>1. CASE host'.content = host.content /\ host'.key = host.key /\ run.phase \in {"check", "apply"}
    BY <2>0, <2>1 DEF KeyInv, KeyLeft, NeverServed, Ours, Loads
  <2>2. CASE UNCHANGED <<run, host>>
    BY <2>0, <2>2 DEF KeyInv, KeyLeft, NeverServed, Ours, Loads, Remnant
  <2>3. CASE runSetup
    <3>1. UNCHANGED host
      BY <2>3 DEF runSetup
    <3>2. flags.key = "generate" /\ ~guardRekey => run'.phase = "ended"
      BY <2>3 DEF runSetup, Begun, NotRun
    <3>3. KeyLeft => ~guardRekey
      BY DEF KeyLeft, Remnant, guardRekey
    <3> QED
      BY <2>0, <3>1, <3>2, <3>3 DEF KeyInv, KeyLeft, NeverServed, Ours, Loads, Remnant
  <2>4. CASE /\ run.phase \in {"check", "apply"} /\ host.content = "absent"
             /\ host'.content = "partial" /\ host'.key = host.key
    BY <2>0, <2>4 DEF KeyInv, KeyLeft, NeverServed, Ours, Loads
  <2>5. CASE /\ run.phase \in {"check", "apply"} /\ host.content = "absent"
             /\ host'.content = "good" /\ host'.key = "old"
    BY <2>0, <2>5 DEF KeyInv, KeyLeft, NeverServed, Ours, Loads
  <2>6. CASE /\ Applying("config", "write") /\ host.content = "partial"
             /\ host'.content = "good" /\ host'.key = run.key
    BY <2>0, <2>6 DEF KeyInv, KeyLeft, NeverServed, Ours, Loads, WriteInv, Applying
  <2> QED
    BY <1>1, <2>1, <2>2, <2>3, <2>4, <2>5, <2>6, QuietFiles
<1>2. CASE CallingSteps
  <2>1. UNCHANGED <<host, served, flags, reg>>
    BY <1>2, SetupTurns DEF CallingSteps, Turned
  <2>2. run.phase = "apply"
    BY <1>2 DEF CallingSteps, StopForReplace, Replace, RemoveExisting, Removed, Install, Registers, StartService, Stopped, Started,
         Enter, Applying
  <2>3. \A c \in Callers : calls'[c].op = "install" => calls[c].op = "install" \/ Loads(host.content)
    BY <1>2, SetupTurns DEF CallingSteps, Turned
  <2> QED
    BY <2>1, <2>2, <2>3 DEF KeyInv, KeyLeft, NeverServed, Ours, Loads
<1>3. CASE ProcessSteps
  <2>1. UNCHANGED <<calls, flags, run, host>>
    BY <1>3, ProcessLooks
  <2>2. reg' = reg \/ (reg.marked /\ ~reg'.there)
    BY <1>3, ProcessLooks DEF Unregistered
  <2>3. CASE ProcessUp
    <3>1. served' = served \cup {IF Ours THEN host.key ELSE "old"} /\ reg.there /\ reg' = reg
      BY <2>3 DEF ProcessUp, ComesUp, RegInv
    <3> QED
      BY <2>1, <3>1 DEF KeyInv, KeyLeft, NeverServed, Ours, Loads, Remnant, Keys
  <2>4. CASE UNCHANGED served
    BY <2>1, <2>2, <2>4 DEF KeyInv, KeyLeft, NeverServed, Ours, Loads, Remnant, RegInv, Unregistered
  <2> QED
    BY <1>3, <2>3, <2>4 DEF ProcessSteps, ProcessRefuses, ProcessEnds, ProcessDies, ScmRestarts, setupVars
<1>4. CASE ManagerSteps
  <2>1. UNCHANGED <<flags, host, run, served>>
    BY <1>4 DEF ManagerSteps
  <2>2. PICK c \in Callers : ManagerStep(c) \/ DeleteFails(c)
    BY <1>4 DEF ManagerSteps
  <2>3. calls[c].op # "none" /\ \A d \in Callers : calls'[d].op = calls[d].op
    BY <2>2, CallsStay DEF Ops
  <2>4. reg'.there => \/ reg.there /\ reg'.command = reg.command
                      \/ /\ ~reg.there /\ calls[c].op = "install"
                         /\ reg'.command # Garbled /\ reg'.command.own = flags.own
    BY <2>2, <2>3, CommandKept, RegisteredOurs
  <2> QED
    BY <2>1, <2>3, <2>4 DEF KeyInv, KeyLeft, NeverServed, Ours, Loads
<1>5. CASE Crash
  <2>1. /\ UNCHANGED <<flags, host, served>> /\ run.phase = "apply"
        /\ (reg' = reg \/ ~reg'.there)
        /\ \A d \in Callers : calls'[d].op = "install" => calls[d].op = "install"
    BY <1>5, CrashLeaves DEF Crash, Left, Unregistered
  <2> QED
    BY <2>1 DEF KeyInv, KeyLeft, NeverServed, Ours, Loads
<1>6. CASE AdminBegins \/ AdminEnds
  <2>1. UNCHANGED <<flags, reg, run, served>> /\ Turned("admin")
    BY <1>6, AdminTurns DEF Turned
  <2>2. host'.content = host.content /\ host'.key = host.key
    BY <1>6 DEF AdminBegins, AdminEnds, HostShape
  <2>3. run.phase \in {"check", "apply"} \/ calls["admin"].op # "none"
    BY <1>6 DEF AdminBegins, AdminEnds, Returned
  <2>4. \A c \in Callers : calls'[c].op = "install" => calls[c].op = "install" \/ Loads(host.content)
    BY <1>6, AdminTurns DEF Turned
  <2> QED
    BY <2>1, <2>2, <2>3, <2>4, Parties DEF KeyInv, KeyLeft, NeverServed, Ours, Loads
<1> QED
  BY <1>1, <1>2, <1>3, <1>4, <1>5, <1>6, NextKinds

\* One key or none.
LEMMA KeyIsOne == ASSUME TypeInv, KeyInv PROVE OneKeyPerHost
<1>1. \E key : served \subseteq {key}
  BY DEF KeyInv, KeyLeft, NeverServed
<1>2. PICK key : served \subseteq {key}
  BY <1>1
<1>3. IsFiniteSet({key}) /\ Cardinality({key}) = 1
  BY FS_Singleton
<1>4. Cardinality(served) <= 1
  BY <1>2, <1>3, FS_Subset
<1> QED
  BY <1>4 DEF OneKeyPerHost

-----------------------------------------------------------------------------
(* What is not done unasked.                                                *)

\* A check that is not an error adds its verdict, and what it found out.
Checked ==
  /\ run.phase = "check" /\ run'.phase = "check" /\ run.step = Len(run.verdicts) + 1 /\ Len(run.verdicts) < 7
  /\ Len(run'.verdicts) = Len(run.verdicts) + 1
  /\ run'.verdicts[run.step] = Verdict(Name) /\ Verdict(Name) # "error"
  /\ \A i \in 1..7 : i <= Len(run.verdicts) => run'.verdicts[i] = run.verdicts[i]
  /\ (run'.wants <=> (run.wants \/ wantsRestart(Name))) /\ run'.up = run.up /\ run'.minted = run.minted
  /\ run'.auth = IF Name = "config" THEN host.content # "noAuth" ELSE run.auth

LEMMA CheckAdds ==
  ASSUME SetupInv, Check
  PROVE  /\ Checked \/ Finish(1)
         /\ UNCHANGED <<mgrVars, flags, host, store, loaded, served, hurt>>
<1> USE DEF SetupInv
<1>1. CASE Verdict(Name) = "error"
  BY <1>1 DEF Check
<1>2. CASE Verdict(Name) # "error"
  <2> DEFINE v == Verdict(Name)
             w == run.wants \/ wantsRestart(Name)
             a == IF Name = "config" THEN host.content # "noAuth" ELSE run.auth
  <2>1. run' = [run EXCEPT !.verdicts = Append(@, v), !.step = IF @ = 7 THEN 7 ELSE @ + 1, !.wants = w, !.auth = a]
    BY <1>2 DEF Check
  <2>2. /\ run.phase = "check" /\ Len(run.verdicts) < 7 /\ v # "error"
        /\ UNCHANGED <<mgrVars, flags, host, store, loaded, served, hurt>>
    BY <1>2 DEF Check
  <2> HIDE DEF v, w, a
  <2>3. /\ run'.phase = "check" /\ run'.verdicts = Append(run.verdicts, v) /\ (run'.wants <=> w) /\ run'.auth = a
        /\ run'.up = run.up /\ run'.minted = run.minted
    BY <2>1, <2>2 DEF RunShape, Fields
  <2>4. run.verdicts \in Seq(Conditions) /\ run.step = Len(run.verdicts) + 1
    BY <2>2 DEF RunShape
  <2>5. Len(run'.verdicts) = Len(run.verdicts) + 1 /\ run'.verdicts[run.step] = v
        /\ \A i \in 1..7 : i <= Len(run.verdicts) => run'.verdicts[i] = run.verdicts[i]
    BY <2>3, <2>4
  <2> QED
    BY <2>2, <2>3, <2>4, <2>5 DEF Checked, v, w, a
<1> QED
  BY <1>1, <1>2

\* Nobody takes a service away but an administrator who may, or a run that was asked to.
LEMMA NoUninstall ==
  ASSUME CallsInv, ~flags.reinstall, "uninstall" \notin Verbs, NEW c \in Callers
  PROVE  calls[c].op # "uninstall"
BY DEF CallsInv, SetupCalls

\* A service that is taken away by nobody is marked by nobody but the Install that takes
\* its own back, and has its event source from the moment its Install is done.
UnaskedInv ==
  ~flags.reinstall /\ "uninstall" \notin Verbs =>
    /\ \A c \in Callers : Builder(c) => ~reg.marked
    /\ source => reg.there /\ ~reg.marked /\ \A c \in Callers : ~Builder(c)

\* Every step keeps it.
LEMMA UnaskedKept ==
  ASSUME SetupInv, TypeInv, CallsInv, RegInv, UnaskedInv, [Next]_vars
  PROVE  UnaskedInv'
<1> SUFFICES ASSUME ~flags'.reinstall, "uninstall" \notin Verbs
             PROVE  /\ \A c \in Callers : Builder(c)' => ~reg'.marked
                    /\ source' => reg'.there /\ ~reg'.marked /\ \A c \in Callers : ~Builder(c)'
  BY DEF UnaskedInv
<1> USE DEF TypeInv
<1>1. CASE Quiet
  BY <1>1, QuietIsQuiet DEF Builder, UnaskedInv
<1>2. CASE CallingSteps
  <2>1. UNCHANGED <<reg, source, flags>> /\ (UNCHANGED calls \/ Turned("setup"))
    BY <1>2, SetupTurns DEF CallingSteps, Turned
  <2>2. \A c \in Callers : Builder(c)' => Builder(c)
    BY <2>1 DEF Turned, Builder, Whole
  <2> QED
    BY <2>1, <2>2 DEF UnaskedInv
<1>3. CASE ProcessSteps
  BY <1>3, ProcessLooks DEF Builder, UnaskedInv, Unregistered
<1>4. CASE ManagerSteps
  <2>1. UNCHANGED flags
    BY <1>4 DEF ManagerSteps
  <2>2. PICK c \in Callers : ManagerStep(c) \/ DeleteFails(c)
    BY <1>4 DEF ManagerSteps
  <2>3. \A d \in Callers : calls[d].op # "uninstall"
    BY <2>1, NoUninstall
  <2>4. reg \in Registrations /\ UnaskedInv /\ ~flags.reinstall
    BY <2>1 DEF ManagerTypeOK, Registrations
  <2>5. CASE \/ OpenToInstall(c) \/ (Create(c) /\ reg.there)
             \/ OpenToStop(c) \/ SendStop(c) \/ WaitStopped(c) \/ StopTimesOut(c)
             \/ OpenToStart(c) \/ SendStart(c) \/ WaitRunning(c)
    <3>1. Looks(c)
      BY <2>5, LookingSteps
    <3>2. \A d \in Callers : Builder(d)' => Builder(d)
      BY <3>1 DEF Looks, Builder
    <3> QED
      BY <2>4, <3>1, <3>2 DEF Looks, UnaskedInv, Unregistered
  <2>6. CASE Create(c) /\ ~reg.there
    <3>1. reg' = Registered(calls[c].command, {}) /\ UNCHANGED source
      BY <2>6 DEF Create
    <3> QED
      BY <2>4, <2>6, <3>1 DEF UnaskedInv, Registered
  <2>7. CASE Configure(c)
    <3>1. /\ reg'.marked = reg.marked /\ ~reg.marked /\ UNCHANGED source /\ Builder(c)
      BY <2>4, <2>7 DEF Configure, Registrations, Builder
    <3> QED
      BY <2>4, <3>1 DEF UnaskedInv
  <2>8. CASE InstallSource(c)
    <3>1. Builder(c) /\ MovedTo(c, "done", "none")
      BY <2>8, ManagerMoves DEF InstallSource, Builder
    <3>2. reg.there /\ ~reg.marked /\ reg' = reg
      BY <2>4, <2>8, <3>1, BuilderHolds DEF InstallSource, RegInv, UnaskedInv, Left
    <3>3. \A d \in Callers : ~Builder(d)'
      BY <3>1 DEF RegInv, MovedTo, Builder, Whole
    <3> QED
      BY <3>2, <3>3
  <2>9. CASE RollBack(c) \/ DeleteFails(c)
    <3>1. Builder(c) /\ MovedTo(c, "done", "failed") /\ UNCHANGED source
      BY <2>9, ManagerMoves DEF RollBack, DeleteFails, Builder
    <3>2. \A d \in Callers : ~Builder(d)'
      BY <3>1 DEF RegInv, MovedTo, Builder, Whole
    <3> QED
      BY <2>4, <3>1, <3>2 DEF UnaskedInv
  <2>10. ~(Delete(c) \/ RemoveSource(c))
    BY <2>3 DEF Delete, RemoveSource
  <2> QED
    BY <2>2, <2>5, <2>6, <2>7, <2>8, <2>9, <2>10 DEF ManagerStep
<1>5. CASE Crash
  <2>1. /\ UNCHANGED <<flags, source>> /\ (reg' = reg \/ (reg.marked /\ reg' = Unregistered))
        /\ \A c \in Callers : Builder(c)' => Builder(c)
    BY <1>5, CrashLeaves DEF Left, Builder
  <2> QED
    BY <2>1 DEF UnaskedInv, Unregistered
<1>6. CASE AdminBegins \/ AdminEnds
  <2>1. UNCHANGED <<reg, source, flags>> /\ Turned("admin")
    BY <1>6, AdminTurns DEF Turned
  <2>2. \A c \in Callers : Builder(c)' => Builder(c)
    BY <2>1 DEF Turned, Builder, Whole
  <2> QED
    BY <2>1, <2>2 DEF UnaskedInv
<1> QED
  BY <1>1, <1>2, <1>3, <1>4, <1>5, <1>6, NextKinds

\* A run that found the service up, and was not told that it may stop it.
LeavesUp == hurt = {} /\ run.up /\ ~flags.restart /\ ~flags.reinstall /\ run.phase \in {"check", "apply"}

\* Such a run makes no call: the binary is due only where there is none, and neither the
\* registration nor the start is.
UpInv ==
  LeavesUp =>
    /\ Running /\ calls["setup"].op = "none"
    /\ Len(run.verdicts) >= 4 /\ run.verdicts[4] = "pending"
         /\ (run.phase = "check" \/ run.step < 4 \/ (run.step = 4 /\ run.at = "start")) => host.binary = "absent"
    /\ Len(run.verdicts) >= 5 => run.verdicts[5] # "pending"
    /\ Len(run.verdicts) >= 6 => run.verdicts[6] # "pending"

\* What each check in turn returns.
LEMMA VerdictAt ==
  ASSUME run.step \in 1..7
  PROVE  /\ run.step = 1 => Verdict(Name) = directoryCheck
         /\ run.step = 2 => Verdict(Name) = configCheck
         /\ run.step = 3 => Verdict(Name) = tokenCheck
         /\ run.step = 4 => Verdict(Name) = binaryCheck
         /\ run.step = 5 => Verdict(Name) = installCheck
         /\ run.step = 6 => Verdict(Name) = startCheck
         /\ run.step = 7 => Verdict(Name) = "pending"
         /\ wantsRestart(Name) => run.step \in {3, 4}
BY StepNumbers DEF Verdict, Name, wantsRestart

\* A run that moves along within a step, or to the next.
LEMMA Moving ==
  ASSUME RunShape
  PROVE  /\ \A at : To(at) => /\ run'.phase = run.phase /\ run'.step = run.step /\ run'.at = at
                              /\ run'.verdicts = run.verdicts /\ run'.up = run.up /\ run'.wants = run.wants
                              /\ run'.minted = run.minted /\ run'.auth = run.auth /\ run'.code = run.code
         /\ NextStep => /\ run'.phase = run.phase /\ run'.step = run.step + 1 /\ run'.at = "start"
                        /\ run'.verdicts = run.verdicts /\ run'.up = run.up /\ run'.wants = run.wants
                        /\ run'.minted = run.minted /\ run'.auth = run.auth /\ run'.code = run.code
         /\ \A code \in 0..4 : Finish(code) =>
              /\ run'.phase = "ended" /\ run'.at = "none" /\ run'.minted = run.minted /\ run'.auth = run.auth
              /\ run'.code \in {0, 4} => run'.code = code
         /\ Failed => run'.phase = "ended" /\ run'.at = "none" /\ run'.code \notin {0, 4}
         /\ run' = [run EXCEPT !.at = "lock", !.minted = TRUE] =>
              /\ run'.phase = run.phase /\ run'.step = run.step /\ run'.at = "lock" /\ run'.minted
              /\ run'.verdicts = run.verdicts /\ run'.up = run.up /\ run'.wants = run.wants
              /\ run'.auth = run.auth /\ run'.code = run.code
         /\ run' = [run EXCEPT !.phase = "apply", !.step = 1, !.at = "start"] =>
              /\ run'.phase = "apply" /\ run'.step = 1 /\ run'.at = "start" /\ run'.minted = run.minted
              /\ run'.verdicts = run.verdicts /\ run'.up = run.up /\ run'.wants = run.wants
              /\ run'.auth = run.auth /\ run'.code = run.code
<1> USE DEF RunShape, Fields
<1>1. \A code \in 0..4 : Finish(code) =>
        /\ run'.phase = "ended" /\ run'.at = "none" /\ run'.minted = run.minted /\ run'.auth = run.auth
        /\ run'.code \in {0, 4} => run'.code = code
  BY FinishEnds
<1>2. Failed => run'.phase = "ended" /\ run'.at = "none" /\ run'.code \notin {0, 4}
  BY <1>1 DEF Failed
<1> QED
  BY <1>1, <1>2 DEF To, NextStep

\* Every step of such a run leaves the service up.
LEMMA UpKept ==
  ASSUME SetupInv, TypeInv, CallsInv, RegInv, RunInv, UpInv, [Next]_vars
  PROVE  UpInv'
<1> DEFINE Rest == /\ Running /\ calls["setup"].op = "none"
                   /\ Len(run.verdicts) >= 4 /\ run.verdicts[4] = "pending"
                        /\ (run.phase = "check" \/ run.step < 4 \/ (run.step = 4 /\ run.at = "start")) => host.binary = "absent"
                   /\ Len(run.verdicts) >= 5 => run.verdicts[5] # "pending"
                   /\ Len(run.verdicts) >= 6 => run.verdicts[6] # "pending"
<1> SUFFICES ASSUME LeavesUp' PROVE Rest'
  BY DEF UpInv
<1> USE DEF TypeInv, SetupInv
<1>1. ASSUME UNCHANGED <<calls, reg, state, flags, hurt>>, run.up, run.phase \in {"check", "apply"},
             run'.verdicts = run.verdicts,
             \/ run.phase = "check"
             \/ /\ run'.phase = run.phase /\ run'.step = run.step /\ run'.at # "start"
             \/ /\ run'.phase = run.phase /\ run'.step = run.step + 1 /\ (run.step < 4 => run'.at = "start"),
             host'.binary = host.binary \/ ~(run.phase = "check" \/ run.step < 4 \/ (run.step = 4 /\ run.at = "start"))
      PROVE  Rest'
  <2>1. LeavesUp /\ run.step \in 1..7
    BY <1>1 DEF LeavesUp, RunShape
  <2>2. Rest
    BY <2>1 DEF UpInv
  <2>3. Running'
    BY <1>1, <2>2 DEF Running
  <2> QED
    BY <1>1, <2>1, <2>2, <2>3
<1>2. hurt \subseteq hurt' => hurt = {}
  BY DEF LeavesUp
<1>3. CASE UNCHANGED vars
  <2>1. Rest
    BY <1>3 DEF vars, mgrVars, setupVars, LeavesUp, UpInv
  <2> QED
    BY <1>3, <2>1 DEF vars, mgrVars, setupVars, Running
<1>4. CASE runSetup
  <2>1. UNCHANGED <<mgrVars, host, flags>> /\ run'.verdicts = <<>> /\ run'.up = Running
    BY <1>4 DEF runSetup, Begun, NotRun, Running
  <2>2. calls["setup"].op = "none"
    BY <1>4, SetupIdle DEF runSetup
  <2>3. Len(run'.verdicts) = 0 /\ Running'
    BY <2>1 DEF LeavesUp, Running, mgrVars
  <2> QED
    BY <2>1, <2>2, <2>3 DEF mgrVars
<1>5. CASE Check
  <2>1. Checked /\ UNCHANGED <<mgrVars, flags, host, hurt>>
    BY <1>5, CheckAdds, Moving DEF LeavesUp
  <2>2. LeavesUp
    BY <2>1 DEF LeavesUp, Checked
  <2>3. Rest /\ Running' /\ calls'["setup"].op = "none" /\ UNCHANGED host
    BY <2>1, <2>2 DEF UpInv, Running, mgrVars
  <2>4. run.step \in 1..7 /\ run.step = Len(run.verdicts) + 1
    BY <2>1 DEF Checked, RunShape
  <2>5. Len(run.verdicts) \in Nat
    BY DEF RunShape
  <2>6. run.step = 4 /\ run'.verdicts[4] = "pending" => host.binary = "absent"
    BY <2>1, <2>2, <2>3, <2>4, VerdictAt DEF Checked, binaryCheck, LeavesUp
  <2>7. run.step = 5 => run'.verdicts[5] # "pending"
    BY <2>1, <2>2, <2>3, <2>4, VerdictAt DEF Checked, installCheck, LeavesUp, Running
  <2>8. run.step = 6 => run'.verdicts[6] # "pending"
    BY <2>1, <2>2, <2>3, <2>4, VerdictAt DEF Checked, startCheck, LeavesUp
  <2> QED
    BY <2>1, <2>3, <2>4, <2>5, <2>6, <2>7, <2>8 DEF Checked
<1>6. CASE Decide
  <2>1. /\ run' = [run EXCEPT !.phase = "apply", !.step = 1, !.at = "start"] /\ run.phase = "check"
        /\ UNCHANGED <<mgrVars, flags, host, hurt>>
    BY <1>6, Moving DEF Decide, LeavesUp
  <2>2. run'.verdicts = run.verdicts /\ run'.up = run.up
    BY <2>1, Moving
  <2> QED
    BY <1>1, <2>1, <2>2 DEF LeavesUp, mgrVars
<1>7. CASE \/ Skip \/ MakeDirectory \/ LockDirectory \/ CreateConfig \/ WriteConfig \/ LockStore \/ SecurePaths
           \/ SaveToken \/ CopyFile \/ Verify \/ ProveAuth
  <2>1. run.phase = "apply" /\ UNCHANGED <<calls, reg, state, flags, hurt>> /\ run'.phase # "ended"
    BY <1>7 DEF Skip, MakeDirectory, LockDirectory, CreateConfig, WriteConfig, LockStore, SecurePaths, SaveToken, CopyFile,
         Verify, ProveAuth, Enter, Applying, mgrVars, LeavesUp
  <2>2. \/ To("lock") \/ To("write") \/ To("prove") \/ NextStep
        \/ run' = [run EXCEPT !.at = "lock", !.minted = TRUE]
    BY <1>7, <2>1, Moving DEF Skip, MakeDirectory, LockDirectory, CreateConfig, WriteConfig, LockStore, SecurePaths, SaveToken, CopyFile,
         Verify, ProveAuth
  <2>3. host'.binary = host.binary \/ (run.step = 4 /\ run.at # "start")
    <3>1. CASE CopyFile
      BY <3>1, StepNumbers DEF CopyFile, Applying, Name, RunShape
    <3>2. CASE SaveToken
      BY <3>2 DEF SaveToken, WithStore, HostShape
    <3>3. CASE Skip \/ MakeDirectory \/ LockDirectory \/ CreateConfig \/ WriteConfig \/ LockStore \/ SecurePaths \/ Verify \/ ProveAuth
      BY <3>3 DEF Skip, MakeDirectory, LockDirectory, CreateConfig, WriteConfig, LockStore, SecurePaths, Verify, ProveAuth, HostShape
    <3> QED
      BY <1>7, <3>1, <3>2, <3>3
  <2>4. /\ run'.verdicts = run.verdicts /\ run'.up = run.up
        /\ \/ run'.step = run.step /\ run'.at # "start"
           \/ run'.step = run.step + 1 /\ run'.at = "start"
    <3>1. CASE To("lock") \/ To("write") \/ To("prove")
      BY <3>1, Moving
    <3>2. CASE NextStep \/ run' = [run EXCEPT !.at = "lock", !.minted = TRUE]
      BY <3>2, Moving
    <3> QED
      BY <2>2, <3>1, <3>2
  <2>5. run'.phase = run.phase
    BY <2>2, Moving
  <2> QED
    BY <1>1, <2>1, <2>3, <2>4, <2>5 DEF LeavesUp
<1>8. CASE CallingSteps
  <2>1. run.phase = "apply" /\ UNCHANGED <<host, flags, hurt>>
    BY <1>8, SetupTurns DEF CallingSteps, StopForReplace, Replace, RemoveExisting, Removed, Install, Registers,
         StartService, Stopped, Started, Enter, Applying
  <2>2. run'.up = run.up
    <3>1. \/ \E at : To(at)
          \/ NextStep \/ Failed
      BY <1>8 DEF CallingSteps, StopForReplace, Replace, RemoveExisting, Removed, Install, Registers,
         StartService, Stopped, Started
    <3> QED
      BY <3>1, Moving DEF LeavesUp
  <2>3. LeavesUp
    BY <2>1, <2>2 DEF LeavesUp
  <2>4. Rest /\ Len(run.verdicts) = 7
    BY <2>1, <2>3 DEF UpInv, RunShape
  <2>5. ~(Replace \/ Removed \/ Registers \/ Stopped \/ Started)
    BY <2>4 DEF Replace, Removed, Registers, Stopped, Started, Returned
  <2>6. ~(RemoveExisting \/ Install \/ StartService)
    <3>1. run.step \in 1..7 /\ (run.at # "start" => run.verdicts[run.step] = "pending")
      BY <2>1 DEF RunInv, RunShape
    <3>2. ~RemoveExisting /\ ~Install
      BY <2>4, <3>1, StepNumbers DEF RemoveExisting, Install, Enter, Applying, Name
    <3>3. ~StartService
      BY <2>4, <3>1, StepNumbers DEF StartService, Enter, Applying, Name
    <3> QED
      BY <3>2, <3>3
  <2>7. StopForReplace
    BY <1>8, <2>5, <2>6 DEF CallingSteps
  <2>8. run.step = 4 /\ run.at = "start" /\ run.verdicts[4] = "pending"
    BY <2>7, StepNumbers DEF StopForReplace, Enter, Applying, Name, RunShape
  <2>9. To("copy") /\ UNCHANGED <<calls, reg, state>>
    BY <2>4, <2>7, <2>8 DEF StopForReplace, SetupOnly
  <2>10. run'.verdicts = run.verdicts /\ run.up /\ run'.step = run.step /\ run'.phase = run.phase /\ run'.at = "copy"
    BY <2>3, <2>9, Moving DEF LeavesUp
  <2> QED
    BY <1>1, <2>1, <2>9, <2>10
<1>9. CASE ProcessSteps
  <2>1. UNCHANGED <<calls, flags, run, host>> /\ hurt \subseteq hurt'
    BY <1>9, ProcessLooks
  <2>2. LeavesUp
    BY <1>2, <2>1 DEF LeavesUp
  <2>3. Rest
    BY <2>2 DEF UpInv
  <2>4. ~ProcessDies
    BY DEF ProcessDies, LeavesUp
  <2>5. UNCHANGED <<reg, state>>
    BY <1>9, <2>3, <2>4 DEF ProcessSteps, ProcessUp, ProcessRefuses, ProcessEnds, ScmRestarts,
         ComesUp, GoesDown, Drained, Restart, Running
  <2> QED
    BY <2>1, <2>3, <2>5 DEF Running
<1>10. CASE ManagerSteps
  <2>1. UNCHANGED <<flags, run, host>> /\ hurt = {}
    BY <1>2, <1>10 DEF ManagerSteps
  <2>2. calls["setup"].op = "none"
    BY <2>1 DEF LeavesUp, UpInv
  <2>3. PICK c \in Callers : ManagerStep(c) \/ DeleteFails(c)
    BY <1>10 DEF ManagerSteps
  <2>4. c = "setup"
    BY <2>1, <2>3, OnlySetup
  <2> QED
    BY <2>2, <2>3, <2>4, CallsStay DEF Ops
<1>11. ~(Fault \/ Crash \/ AdminBegins \/ AdminSecures \/ AdminMints \/ Edit)
  BY DEF Fault, Accident, Crash, AdminBegins, AdminSecures, AdminMints, Edit, LeavesUp
<1>12. ~AdminEnds
  BY <1>2 DEF AdminEnds, Returned, CallsInv
<1> QED
  BY <1>3, <1>4, <1>5, <1>6, <1>7, <1>8, <1>9, <1>10, <1>11, <1>12 DEF Next, ApplyStep, CallingSteps, ProcessSteps

\* No step puts another command into a registration that stays.
LEMMA StepKeepsCommand ==
  ASSUME SetupInv, TypeInv, CallsInv, RegInv, [Next]_vars, reg.there, reg'.there
  PROVE  reg'.command = reg.command
<1>1. CASE Quiet
  BY <1>1, QuietIsQuiet
<1>2. CASE CallingSteps
  BY <1>2, SetupTurns DEF CallingSteps, Turned
<1>3. CASE ProcessSteps
  BY <1>3, ProcessLooks DEF Unregistered
<1>4. CASE ManagerSteps
  BY <1>4, CommandKept DEF ManagerSteps
<1>5. CASE Crash
  BY <1>5, CrashLeaves DEF Left, Unregistered
<1>6. CASE AdminBegins \/ AdminEnds
  BY <1>6, AdminTurns DEF Turned
<1> QED
  BY <1>1, <1>2, <1>3, <1>4, <1>5, <1>6, NextKinds

\* No step takes a registration that is in use away, unless the run was told to.
LEMMA StepKeepsWhole ==
  ASSUME SetupInv, TypeInv, CallsInv, RegInv, UnaskedInv, "uninstall" \notin Verbs, [Next]_vars,
         reg.there, ~reg'.there, source
  PROVE  flags.reinstall
<1> SUFFICES ASSUME ~flags.reinstall PROVE FALSE
  OBVIOUS
<1>1. ~reg.marked /\ \A c \in Callers : ~Builder(c)
  BY DEF UnaskedInv
<1>2. ~Quiet
  BY QuietIsQuiet
<1>3. ~CallingSteps
  BY SetupTurns DEF CallingSteps, Turned
<1>4. ~ProcessSteps
  BY <1>1, ProcessLooks
<1>5. ~ManagerSteps
  <2> SUFFICES ASSUME NEW c \in Callers, ManagerStep(c) \/ DeleteFails(c) PROVE FALSE
    BY DEF ManagerSteps
  <2>1. ~(InstallSource(c) \/ RollBack(c) \/ DeleteFails(c) \/ Configure(c) \/ (Create(c) /\ ~reg.there))
    BY <1>1 DEF InstallSource, RollBack, DeleteFails, Configure, Builder
  <2>2. ~(Delete(c) \/ RemoveSource(c))
    BY NoUninstall DEF Delete, RemoveSource
  <2>3. \/ OpenToInstall(c) \/ (Create(c) /\ reg.there)
        \/ OpenToStop(c) \/ SendStop(c) \/ WaitStopped(c) \/ StopTimesOut(c)
        \/ OpenToStart(c) \/ SendStart(c) \/ WaitRunning(c)
    BY <2>1, <2>2 DEF ManagerStep
  <2>4. Looks(c)
    BY <2>3, LookingSteps DEF TypeInv
  <2> QED
    BY <1>1, <2>4 DEF Looks
<1>6. ~Crash
  BY <1>1, CrashLeaves DEF Left
<1>7. ~(AdminBegins \/ AdminEnds)
  BY AdminTurns DEF Turned
<1> QED
  BY <1>2, <1>3, <1>4, <1>5, <1>6, <1>7, NextKinds

\* Only the file that the run has just created is written.
LEMMA StepKeepsContent ==
  ASSUME SetupInv, TypeInv, CallsInv, RegInv, WriteInv, [Next]_vars, host.content # "absent", host'.content # host.content
  PROVE  run.at = "write" /\ host.content = "partial"
<1>1. CASE Quiet
  BY <1>1, QuietFiles DEF Applying
<1>2. ~CallingSteps
  BY SetupTurns DEF CallingSteps
<1>3. ~ProcessSteps
  BY ProcessLooks
<1>4. ~(ManagerSteps \/ Crash \/ AdminBegins \/ AdminEnds)
  BY DEF ManagerSteps, Crash, AdminBegins, AdminEnds, SetupInv, HostShape
<1> QED
  BY <1>1, <1>2, <1>3, <1>4, NextKinds

\* No step stops a service that was up, unless the run was told to.
LEMMA StepKeepsUp ==
  ASSUME SetupInv, TypeInv, CallsInv, RegInv, UpInv, [Next]_vars, hurt = {}, run.up, state = "running", state' = "stopping"
  PROVE  flags.restart \/ flags.reinstall
<1>1. ~(Quiet \/ Crash)
  BY QuietIsQuiet, CrashLeaves
<1>2. ~(CallingSteps \/ AdminBegins \/ AdminEnds)
  BY SetupTurns, AdminTurns DEF CallingSteps, Turned
<1>3. ~ProcessSteps
  BY DEF ProcessSteps, ProcessUp, ProcessRefuses, ProcessEnds, ProcessDies, ScmRestarts,
         ComesUp, GoesDown, Drained, Dies, Restart
<1>4. PICK c \in Callers : ManagerStep(c) \/ DeleteFails(c)
  BY <1>1, <1>2, <1>3, NextKinds DEF ManagerSteps
<1>5. c = "setup" /\ calls[c].op # "none"
  BY <1>4, OnlySetup, CallsStay DEF TypeInv, Ops
<1>6. run.phase = "apply"
  BY <1>5 DEF CallsInv, SetupCalls, Applying
<1>7. ~LeavesUp
  BY <1>5 DEF UpInv
<1> QED
  BY <1>6, <1>7 DEF LeavesUp

\* The four together.
LEMMA StepNothingUnasked ==
  ASSUME SetupInv, TypeInv, CallsInv, RegInv, WriteInv, UnaskedInv, UpInv, "uninstall" \notin Verbs, [Next]_vars
  PROVE  /\ reg.there /\ reg'.there => reg'.command = reg.command
         /\ reg.there /\ ~reg'.there /\ reg.has = Whole /\ source => flags.reinstall
         /\ host.content # "absent" /\ host'.content # host.content => run.at = "write" /\ host.content = "partial"
         /\ Undisturbed /\ run.up /\ state = "running" /\ state' = "stopping" => flags.restart \/ flags.reinstall
BY StepKeepsCommand, StepKeepsWhole, StepKeepsContent, StepKeepsUp DEF Undisturbed

-----------------------------------------------------------------------------
(* What a success says.                                                     *)

\* How a run moves when nothing happens at the SCM.
LEMMA QuietRuns ==
  ASSUME SetupInv, Quiet
  PROVE  \/ UNCHANGED run
         \/ runSetup
         \/ Checked
         \/ run.phase = "check" /\ run' = [run EXCEPT !.phase = "apply", !.step = 1, !.at = "start"]
         \/ run.phase = "apply" /\ run.step \in 1..5 /\ NextStep /\ (run.step = 5 => run.at = "secure")
         \/ Skip
         \/ run.phase = "apply" /\ run.step \in 1..3 /\ (To("lock") \/ To("write"))
         \/ run.step = 3 /\ SaveToken /\ store' = store \cup {"minted"} /\ run' = [run EXCEPT !.at = "lock", !.minted = TRUE]
         \/ run.phase = "apply" /\ run.step = 7 /\ state = "running" /\ To("prove")
         \/ run'.phase = "ended" /\ (run'.code \in {0, 4} => flags.dry \/ (ProveAuth /\ Applying("verify", "prove")))
<1> USE DEF SetupInv
<1>0. run.step \in 1..7
  BY DEF RunShape
<1>1. CASE UNCHANGED vars \/ AdminSecures \/ AdminMints \/ Edit
  BY <1>1 DEF vars, setupVars, AdminSecures, AdminMints, Edit
<1>2. CASE runSetup \/ Skip
  BY <1>2
<1>3. CASE Check
  BY <1>3, CheckAdds, Moving
<1>4. CASE Decide
  BY <1>4, Moving DEF Decide
<1>5. CASE Fault
  BY <1>5, Moving DEF Fault, Accident
<1>6. CASE MakeDirectory \/ LockDirectory \/ CreateConfig \/ WriteConfig
  BY <1>0, <1>6, Moving, StepNumbers DEF MakeDirectory, LockDirectory, CreateConfig, WriteConfig, Enter, Applying, Name
<1>7. CASE SaveToken
  BY <1>0, <1>7, Moving, StepNumbers DEF SaveToken, Enter, Applying, Name
<1>8. CASE LockStore \/ CopyFile \/ SecurePaths
  BY <1>0, <1>8, Moving, StepNumbers DEF LockStore, CopyFile, SecurePaths, Applying, Name
<1>9. CASE Verify
  BY <1>0, <1>9, Moving, StepNumbers DEF Verify, Enter, Applying, Name
<1>10. CASE ProveAuth
  BY <1>10, Moving DEF ProveAuth, Applying
<1> QED
  BY <1>1, <1>2, <1>3, <1>4, <1>5, <1>6, <1>7, <1>8, <1>9, <1>10 DEF Quiet

\* How it moves around its calls.
LEMMA CallingRuns ==
  ASSUME SetupInv, CallingSteps
  PROVE  /\ run.phase = "apply"
         /\ \/ run.step = 4 /\ (To("copy") \/ To("stop"))
            \/ run.step = 5 /\ (To("remove") \/ To("check") \/ To("register"))
            \/ run.step = 5 /\ run.at = "register" /\ Answered({"none"}) /\ To("secure")
            \/ run.step = 6 /\ run.at = "start" /\ (IF run.wants THEN To("stop") ELSE To("wait"))
            \/ run.step = 6 /\ run.at = "stop" /\ Answered({"none", "absent"}) /\ To("wait")
            \/ run.step = 6 /\ run.at = "wait" /\ NextStep
            \/ Failed
<1>0. run.step \in 1..7
  BY DEF SetupInv, RunShape
<1>1. CASE StopForReplace \/ Replace
  BY <1>0, <1>1, StepNumbers DEF StopForReplace, Replace, Enter, Applying, Name
<1>2. CASE RemoveExisting \/ Removed \/ Install
  BY <1>0, <1>2, StepNumbers DEF RemoveExisting, Removed, Install, Enter, Applying, Name
<1>3. CASE Registers
  BY <1>0, <1>3, StepNumbers DEF Registers, Applying, Name
<1>4. CASE StartService
  BY <1>0, <1>4, StepNumbers DEF StartService, Enter, Applying, Name
<1>5. CASE Stopped \/ Started
  BY <1>0, <1>5, StepNumbers DEF Stopped, Started, Applying, Name
<1> QED
  BY <1>1, <1>2, <1>3, <1>4, <1>5 DEF CallingSteps

\* Nothing has gone wrong, and the run is for real.
Sure == hurt = {} /\ ~flags.dry

\* A run under way.
Going == run.phase \in {"check", "apply"}

\* What is registered is whole, or setup is at it.
WholeInv ==
  /\ reg.there /\ reg.has # Whole => Builder("setup")
  /\ Builder("setup") => ~reg.marked

\* Where the install step has nothing to do, or is done, the command registered is the run's.
Past == run.step > 5 \/ (run.step = 5 /\ run.at = "secure")
CommandInv ==
  /\ Going /\ Len(run.verdicts) >= 5 /\ run.verdicts[5] = "satisfied" /\ reg.there => reg.command = Wanted
  /\ run.phase = "apply" /\ Past /\ reg.there => reg.command = Wanted
  /\ run.phase = "apply" /\ run.step = 5 /\ run.at = "register" /\ Answered({"none"}) /\ reg.there => reg.command = Wanted

\* A run that is to mint knows before its start step is checked that it has to restart.
WantsInv ==
  /\ Going /\ Len(run.verdicts) >= 3 /\ run.verdicts[3] = "pending" => run.wants
  /\ run.phase = "apply" /\ run.minted => run.verdicts[3] = "pending" /\ "minted" \in store
  /\ run.phase = "check" => ~run.minted
  /\ Going /\ Len(run.verdicts) >= 6 /\ run.verdicts[6] = "satisfied" => ~run.wants

\* From the stop of the start step on, a process that runs has read the token.
Late == \/ run.step = 7
        \/ run.step = 6 /\ run.at = "wait"
        \/ run.step = 6 /\ run.at = "stop" /\ Answered({"none", "absent"})
LoadedInv ==
  /\ run.phase = "apply" /\ run.minted /\ Late /\ state \in {"running", "stopping"} => "minted" \in loaded
  /\ run.phase = "apply" /\ run.step = 7 /\ run.at = "prove" => state = "running"

\* What a success has left behind.
EndInv ==
  run.phase = "ended" /\ run.code \in {0, 4} =>
    Running /\ reg.command = Wanted /\ reg.has = Whole /\ (run.minted => "minted" \in loaded)

\* All of it holds as long as nothing has gone wrong.
SuccessInv == Sure => WholeInv /\ CommandInv /\ WantsInv /\ LoadedInv /\ EndInv

\* What can still happen where nothing has gone wrong.
LEMMA SureSteps ==
  ASSUME TypeInv, CallsInv, [Next]_vars, Sure'
  PROVE  /\ Sure /\ UNCHANGED flags
         /\ Quiet \/ CallingSteps \/ (ProcessSteps /\ ~ProcessDies) \/ ManagerSteps
         /\ ~(Fault \/ AdminSecures \/ AdminMints \/ Edit)
<1>1. ~Crash /\ ~(AdminBegins \/ AdminEnds)
  BY CrashLeaves, AdminTurns DEF Sure
<1>2. ~(Fault \/ AdminSecures \/ AdminMints \/ Edit \/ ProcessDies)
  BY DEF Fault, Accident, AdminSecures, AdminMints, Edit, ProcessDies, Sure
<1>3. UNCHANGED flags /\ hurt \subseteq hurt'
  <2>1. CASE Quiet
    BY <2>1, QuietIsQuiet
  <2>2. CASE CallingSteps \/ ProcessSteps \/ ManagerSteps
    BY <2>2 DEF CallingSteps, StopForReplace, Replace, RemoveExisting, Removed, Install, Registers, StartService, Stopped, Started,
         ProcessSteps, ProcessUp, ProcessRefuses, ProcessEnds, ProcessDies, ScmRestarts, setupVars, ManagerSteps
  <2> QED
    BY <1>1, <2>1, <2>2, NextKinds
<1> QED
  BY <1>1, <1>2, <1>3, NextKinds DEF Sure

\* A step of the SCM is setup's where no administrator is; a call is answered in its last.
LEMMA SureManager ==
  ASSUME TypeInv, CallsInv, Sure', ManagerSteps
  PROVE  ManagerStep("setup") /\ UNCHANGED <<faults, flags, run, loaded, store>>
<1>1. UNCHANGED <<flags, run, loaded, store>> /\ hurt \subseteq hurt'
  BY DEF ManagerSteps
<1>2. PICK c \in Callers : ManagerStep(c) /\ ~(faults' < faults)
  BY DEF ManagerSteps, Sure
<1>3. c = "setup"
  BY <1>1, <1>2, OnlySetup DEF Sure
<1>4. faults \in Nat
  BY ManagerAssumption DEF TypeInv, ManagerTypeOK
<1>5. faults' = faults
  <2>1. faults' = faults \/ (faults > 0 /\ faults' = faults - 1)
    BY <1>2 DEF ManagerStep, OpenToInstall, Create, Configure, InstallSource, RollBack, OpenToStop, SendStop, WaitStopped,
         StopTimesOut, Delete, RemoveSource, OpenToStart, SendStart, WaitRunning
  <2> QED
    BY <1>2, <1>4, <2>1
<1> QED
  BY <1>1, <1>2, <1>3, <1>5

\* Every step of an undisturbed run keeps what is registered whole or in the making.
LEMMA WholeKept ==
  ASSUME SetupInv, TypeInv, CallsInv, RegInv, WholeInv, [Next]_vars, Sure'
  PROVE  WholeInv'
<1> USE DEF TypeInv
<1>0. reg \in Registrations /\ faults \in Nat
  BY ManagerAssumption DEF ManagerTypeOK, Registrations
<1>1. CASE Quiet
  BY <1>1, QuietIsQuiet DEF WholeInv, Builder
<1>2. CASE CallingSteps
  <2>1. UNCHANGED reg /\ (UNCHANGED calls \/ Turned("setup"))
    BY <1>2, SetupTurns DEF CallingSteps, Turned
  <2>2. CASE UNCHANGED calls
    BY <2>1, <2>2 DEF WholeInv, Builder
  <2>3. CASE Turned("setup")
    BY <2>1, <2>3 DEF Turned, Builder, WholeInv, Whole, Inside
  <2> QED
    BY <2>1, <2>2, <2>3
<1>3. CASE ProcessSteps
  BY <1>3, ProcessLooks DEF WholeInv, Builder, Unregistered
<1>4. CASE ManagerSteps
  <2> DEFINE c == "setup"
  <2>1. ManagerStep(c) /\ UNCHANGED faults /\ c \in Callers
    BY <1>4, SureManager, Parties
  <2>2. CASE \/ OpenToInstall(c) \/ (Create(c) /\ reg.there)
             \/ OpenToStop(c) \/ SendStop(c) \/ WaitStopped(c) \/ StopTimesOut(c)
             \/ OpenToStart(c) \/ SendStart(c) \/ WaitRunning(c)
    <3>1. Looks(c)
      BY <2>1, <2>2, LookingSteps
    <3> QED
      BY <3>1 DEF Looks, WholeInv, Unregistered
  <2>3. CASE Create(c) /\ ~reg.there
    <3>1. MovedTo(c, "actions", "none") /\ calls[c].op = "install" /\ reg' = Registered(calls[c].command, {})
      BY <2>1, <2>3, ManagerMoves DEF Create
    <3>2. Builder(c)' /\ ~reg'.marked
      BY <3>1 DEF MovedTo, Builder, Whole, Registered
    <3> QED
      BY <3>2 DEF WholeInv
  <2>4. CASE Configure(c)
    <3>1. MovedTo(c, NextPiece(calls[c].at), "none") /\ calls[c].op = "install" /\ calls[c].at \in Whole
          /\ reg'.marked = reg.marked /\ ~reg.marked
      BY <1>0, <2>1, <2>4, ManagerMoves DEF Configure, Registrations
    <3>2. Builder(c)'
      BY <3>1 DEF MovedTo, Builder, NextPiece, Whole
    <3> QED
      BY <3>1, <3>2 DEF WholeInv
  <2>5. CASE InstallSource(c)
    <3>1. Builder(c) /\ MovedTo(c, "done", "none") /\ calls[c].at = "log"
      BY <2>1, <2>5, ManagerMoves DEF InstallSource, Builder
    <3>2. ~reg.marked /\ reg' = reg /\ reg.has = Whole
      BY <2>1, <2>5, <3>1 DEF InstallSource, Left, WholeInv, RegInv, Before
    <3> QED
      BY <3>1, <3>2 DEF MovedTo, Builder, WholeInv, Whole
  <2>6. ~RollBack(c)
    BY <1>0, <2>1 DEF RollBack, WholeInv, Builder
  <2>7. CASE Delete(c) \/ RemoveSource(c)
    <3>1. calls[c].op = "uninstall" /\ calls'[c].op = "uninstall"
      BY <2>1, <2>7, ManagerMoves DEF Delete, RemoveSource, MovedTo
    <3>2. reg' = Unregistered \/ (reg'.there = reg.there /\ reg'.has = reg.has)
      BY <1>0, <2>7 DEF Delete, RemoveSource, Left, Registrations
    <3> QED
      BY <3>1, <3>2 DEF WholeInv, Builder, Unregistered
  <2> QED
    BY <2>1, <2>2, <2>3, <2>4, <2>5, <2>6, <2>7 DEF ManagerStep
<1> QED
  BY <1>1, <1>2, <1>3, <1>4, SureSteps

\* What is registered by the end of the install step is the run's, and stays so.
LEMMA CommandInvKept ==
  ASSUME SetupInv, TypeInv, CallsInv, RegInv, RunInv, CommandInv, [Next]_vars, Sure'
  PROVE  CommandInv'
<1> USE DEF TypeInv, SetupInv, CommandInv, Going
<1>0. Wanted' = Wanted /\ Sure
  BY SureSteps DEF Wanted
<1>1. CASE Quiet
  <2>0. UNCHANGED <<reg, calls>>
    BY <1>1, QuietIsQuiet
  <2>1. CASE UNCHANGED run
    BY <1>0, <2>0, <2>1 DEF Past, Answered, Returned
  <2>2. CASE runSetup
    <3>1. run'.phase # "apply" /\ run'.verdicts = <<>> /\ Len(run'.verdicts) = 0
      BY <2>2 DEF runSetup, Begun, NotRun
    <3> QED
      BY <3>1
  <2>3. CASE Checked
    <3>1. run.step = 5 => run'.verdicts[5] = installCheck
      BY <2>3, VerdictAt DEF Checked, RunShape
    <3>2. installCheck = "satisfied" /\ reg.there => reg.command = Wanted
      BY DEF installCheck
    <3>3. Len(run.verdicts) \in Nat
      BY DEF RunShape
    <3> QED
      BY <1>0, <2>0, <2>3, <3>1, <3>2, <3>3 DEF Checked
  <2>4. CASE run.phase = "check" /\ run' = [run EXCEPT !.phase = "apply", !.step = 1, !.at = "start"]
    BY <1>0, <2>0, <2>4, Moving DEF Past
  <2>5. CASE run.phase = "apply" /\ run.step \in 1..5 /\ NextStep /\ (run.step = 5 => run.at = "secure")
    BY <1>0, <2>0, <2>5, Moving DEF Past
  <2>6. CASE Skip
    <3>1. run.phase = "apply" /\ run.at = "start" /\ NextStep /\ run.verdicts[run.step] # "pending"
      BY <2>6 DEF Skip
    <3>2. run.step = 5 => run.verdicts[5] = "satisfied"
      BY <3>1 DEF RunInv, RunShape, Conditions
    <3>3. Len(run.verdicts) = 7 /\ run.step \in 1..7
      BY <3>1 DEF RunShape
    <3> QED
      BY <1>0, <2>0, <3>1, <3>2, <3>3, Moving DEF Past
  <2>7. CASE run.phase = "apply" /\ run.step \in 1..3 /\ (To("lock") \/ To("write"))
    BY <1>0, <2>0, <2>7, Moving DEF Past
  <2>8. CASE run.step = 3 /\ SaveToken /\ run' = [run EXCEPT !.at = "lock", !.minted = TRUE]
    <3>1. run.phase = "apply"
      BY <2>8 DEF SaveToken, Enter, Applying
    <3> QED
      BY <1>0, <2>0, <2>8, <3>1, Moving DEF Past
  <2>9. CASE run.phase = "apply" /\ run.step = 7 /\ To("prove")
    BY <1>0, <2>0, <2>9, Moving DEF Past
  <2>10. CASE run'.phase = "ended"
    BY <2>10
  <2> QED
    BY <1>1, <2>1, <2>2, <2>3, <2>4, <2>5, <2>6, <2>7, <2>8, <2>9, <2>10, QuietRuns
<1>2. CASE CallingSteps
  <2>1. UNCHANGED reg /\ run.phase = "apply"
    BY <1>2, SetupTurns, CallingRuns DEF CallingSteps, Turned
  <2>2. ~Returned("setup")'
    BY <1>2, SetupTurns DEF CallingSteps, Turned, Returned
  <2>3. CASE \E at \in {"copy", "stop", "remove", "check", "register", "wait"} : To(at)
    BY <1>0, <2>1, <2>2, <2>3, Moving DEF Past, Answered
  <2>4. CASE run.step = 5 /\ run.at = "register" /\ Answered({"none"}) /\ To("secure")
    BY <1>0, <2>1, <2>2, <2>4, Moving DEF Past, Answered
  <2>5. CASE run.step = 6 /\ NextStep
    BY <1>0, <2>1, <2>2, <2>5, Moving DEF Past, Answered
  <2>6. CASE Failed
    BY <2>6, Moving
  <2> QED
    BY <1>2, <2>3, <2>4, <2>5, <2>6, CallingRuns
<1>3. CASE ProcessSteps
  BY <1>0, <1>3, ProcessLooks DEF Past, Answered, Returned, Unregistered
<1>4. CASE ManagerSteps
  <2>1. ManagerStep("setup") /\ UNCHANGED run /\ "setup" \in Callers
    BY <1>4, SureManager, Parties
  <2>2. calls["setup"].op # "none" /\ calls["setup"].at # "done" /\ calls'["setup"].op = calls["setup"].op
    BY <2>1, CallsStay DEF Ops
  <2>3. reg'.there => (reg.there /\ reg'.command = reg.command) \/ reg'.command = Wanted
    BY <2>1, <2>2, CommandKept DEF CallsInv
  <2>4. run.phase = "apply" /\ run.step = 5 /\ run.at = "register" => calls["setup"].op = "install"
    BY <2>2, StepNumbers DEF CallsInv, SetupCalls, Applying, Name, RunShape
  <2>5. calls["setup"].op = "install" /\ Answered({"none"})' /\ reg'.there => reg'.command = Wanted
    <3> SUFFICES ASSUME calls["setup"].op = "install", calls'["setup"].at = "done", calls'["setup"].err = "none", reg'.there
                 PROVE  reg'.command = Wanted
      BY DEF Answered, Returned
    <3>1. InstallSource("setup")
      BY <2>1, ManagerMoves DEF ManagerStep, OpenToInstall, Create, Configure, RollBack, OpenToStop, SendStop,
           WaitStopped, StopTimesOut, Stopping, Delete, RemoveSource, OpenToStart, SendStart, WaitRunning, MovedTo, NextPiece, Whole
    <3>2. Builder("setup") /\ reg.command = Wanted
      BY <2>1, <2>2, <3>1 DEF InstallSource, Builder, RegInv, CallsInv
    <3> QED
      BY <2>3, <3>2
  <2> QED
    BY <1>0, <2>1, <2>3, <2>4, <2>5 DEF Past
<1> QED
  BY <1>1, <1>2, <1>3, <1>4, SureSteps

\* The need for a restart is known from the token's check on.
LEMMA WantsKept ==
  ASSUME SetupInv, TypeInv, CallsInv, RegInv, WantsInv, [Next]_vars, Sure'
  PROVE  WantsInv'
<1> USE DEF SetupInv, WantsInv, Going
<1>1. UNCHANGED run /\ UNCHANGED store => WantsInv'
  OBVIOUS
<1>2. CASE Quiet
  <2>1. UNCHANGED store \/ SaveToken
    BY <1>2, SureSteps DEF Quiet, vars, setupVars, runSetup, Check, Decide, Skip, MakeDirectory, LockDirectory, CreateConfig,
         WriteConfig, LockStore, CopyFile, SecurePaths, Verify, ProveAuth
  <2>2. "minted" \in store => "minted" \in store'
    BY <2>1 DEF SaveToken
  <2>3. CASE UNCHANGED run
    BY <2>2, <2>3
  <2>4. CASE runSetup
    <3>1. run'.phase # "apply" /\ run'.verdicts = <<>> /\ Len(run'.verdicts) = 0 /\ ~run'.minted
      BY <2>4 DEF runSetup, Begun, NotRun
    <3> QED
      BY <3>1
  <2>5. CASE Checked
    <3>1. Len(run.verdicts) \in Nat /\ run.step \in 1..7
      BY DEF RunShape
    <3>2. run.step = 3 /\ run'.verdicts[3] = "pending" => run'.wants
      BY <2>5, <3>1, VerdictAt, StepNumbers DEF Checked, wantsRestart, Name
    <3>3. run.step = 6 /\ run'.verdicts[6] = "satisfied" => ~run'.wants
      BY <2>5, <3>1, VerdictAt DEF Checked, startCheck
    <3>4. run.step > 4 => (run'.wants <=> run.wants)
      BY <2>5, <3>1, VerdictAt DEF Checked
    <3>5. run.wants => run'.wants
      BY <2>5 DEF Checked
    <3> QED
      BY <2>5, <3>1, <3>2, <3>3, <3>4, <3>5 DEF Checked
  <2>6. CASE run.phase = "check" /\ run' = [run EXCEPT !.phase = "apply", !.step = 1, !.at = "start"]
    BY <2>2, <2>6, Moving
  <2>7. CASE run.phase = "apply" /\ (NextStep \/ To("lock") \/ To("write") \/ To("prove"))
    <3>1. /\ run'.phase = run.phase /\ run'.verdicts = run.verdicts /\ run'.wants = run.wants /\ run'.minted = run.minted
      BY <2>7, Moving
    <3> QED
      BY <2>2, <2>7, <3>1
  <2>8. CASE run.step = 3 /\ SaveToken /\ store' = store \cup {"minted"} /\ run' = [run EXCEPT !.at = "lock", !.minted = TRUE]
    <3>1. run.phase = "apply" /\ run.verdicts[3] = "pending"
      BY <2>8 DEF SaveToken, Enter, Applying
    <3> QED
      BY <2>8, <3>1, Moving
  <2>9. CASE run'.phase = "ended"
    BY <2>9
  <2> QED
    BY <1>2, <2>3, <2>4, <2>5, <2>6, <2>7, <2>8, <2>9, QuietRuns DEF Skip
<1>3. CASE CallingSteps
  <2>1. UNCHANGED store /\ run.phase = "apply"
    BY <1>3, SetupTurns, CallingRuns DEF CallingSteps
  <2>2. (\E at : To(at)) \/ NextStep \/ Failed
    BY <1>3, CallingRuns
  <2>3. \/ run'.phase = "ended"
        \/ run'.phase = run.phase /\ run'.verdicts = run.verdicts /\ run'.wants = run.wants /\ run'.minted = run.minted
    BY <2>2, Moving
  <2> QED
    BY <2>1, <2>3
<1>4. CASE ProcessSteps
  BY <1>1, <1>4, ProcessLooks
<1>5. CASE ManagerSteps
  BY <1>1, <1>5 DEF ManagerSteps
<1> QED
  BY <1>2, <1>3, <1>4, <1>5, SureSteps

\* A process that comes up after that stop reads a store with the token in it.
LEMMA LoadedKept ==
  ASSUME SetupInv, TypeInv, CallsInv, RegInv, RunInv, CommandInv, WantsInv, LoadedInv, [Next]_vars, Sure'
  PROVE  LoadedInv'
<1> USE DEF SetupInv, LoadedInv
<1>0. run.step \in 1..7 /\ (run.phase = "apply" => Len(run.verdicts) = 7)
  BY DEF RunShape
<1>1. CASE Quiet
  <2>0. UNCHANGED <<state, loaded, calls>>
    BY <1>1, QuietIsQuiet
  <2>1. CASE UNCHANGED run
    BY <2>0, <2>1 DEF Late, Answered, Returned
  <2>2. CASE runSetup
    BY <2>2 DEF runSetup, Begun, NotRun
  <2>3. CASE Checked
    BY <2>3 DEF Checked
  <2>4. CASE run.phase = "check" /\ run' = [run EXCEPT !.phase = "apply", !.step = 1, !.at = "start"]
    BY <2>0, <2>4, Moving DEF Late
  <2>5. CASE run.phase = "apply" /\ run.step \in 1..5 /\ NextStep
    BY <2>0, <2>5, Moving DEF Late
  <2>6. CASE Skip
    <3>1. run.phase = "apply" /\ run.at = "start" /\ NextStep /\ run.verdicts[run.step] # "pending"
      BY <2>6 DEF Skip
    <3>2. run.step # 7
      BY <1>0, <3>1 DEF RunShape
    <3>3. run.step = 6 => run.verdicts[6] = "satisfied"
      BY <1>0, <3>1 DEF RunInv, RunShape, Conditions
    <3>4. run.step = 6 => ~run.minted
      BY <1>0, <3>1, <3>3 DEF WantsInv, Going
    <3> QED
      BY <1>0, <2>0, <3>1, <3>2, <3>4, Moving DEF Late
  <2>7. CASE run.phase = "apply" /\ run.step \in 1..3 /\ (To("lock") \/ To("write"))
    BY <2>0, <2>7, Moving DEF Late
  <2>8. CASE run.step = 3 /\ run' = [run EXCEPT !.at = "lock", !.minted = TRUE]
    BY <2>0, <2>8, Moving DEF Late
  <2>9. CASE run.phase = "apply" /\ run.step = 7 /\ state = "running" /\ To("prove")
    BY <2>0, <2>9, Moving DEF Late
  <2>10. CASE run'.phase = "ended"
    BY <2>10
  <2> QED
    BY <1>1, <2>1, <2>2, <2>3, <2>4, <2>5, <2>6, <2>7, <2>8, <2>9, <2>10, QuietRuns
<1>2. CASE CallingSteps
  <2>1. UNCHANGED <<state, loaded>> /\ run.phase = "apply"
    BY <1>2, SetupTurns, CallingRuns DEF CallingSteps, Turned
  <2>2. ~Returned("setup")'
    BY <1>2, SetupTurns DEF CallingSteps, Turned, Returned
  <2>3. CASE run.step \in 4..5 /\ \E at : To(at)
    BY <2>3, Moving DEF Late
  <2>4. CASE run.step = 6 /\ run.at = "start" /\ (IF run.wants THEN To("stop") ELSE To("wait"))
    <3>1. ~run.wants => ~run.minted
      BY <1>0, <2>1 DEF WantsInv, Going
    <3> QED
      BY <2>2, <2>4, <3>1, Moving DEF Late, Answered
  <2>5. CASE run.step = 6 /\ run.at = "stop" /\ Answered({"none", "absent"}) /\ To("wait")
    BY <2>1, <2>5, Moving DEF Late
  <2>6. CASE run.step = 6 /\ run.at = "wait" /\ NextStep
    BY <2>1, <2>6, Moving DEF Late
  <2>7. CASE Failed
    BY <2>7, Moving
  <2> QED
    BY <1>2, <2>3, <2>4, <2>5, <2>6, <2>7, CallingRuns
<1>3. CASE ProcessSteps
  <2>1. UNCHANGED <<calls, run>> /\ ~ProcessDies
    BY <1>3, ProcessLooks, SureSteps DEF ProcessDies, Sure
  <2>2. CASE ProcessUp
    <3>1. run.phase = "apply" /\ run.minted /\ Late => "minted" \in loaded'
      <4> SUFFICES ASSUME run.phase = "apply", run.minted, Late PROVE "minted" \in loaded'
        OBVIOUS
      <4>1. Past /\ reg.there
        BY <2>2 DEF Late, Past, ProcessUp, ComesUp, RegInv
      <4>2. Ours
        BY <4>1, FlagsTyped DEF CommandInv, Ours, TypeInv
      <4>3. "minted" \in Usable(store)
        BY DEF WantsInv, Usable
      <4> QED
        BY <2>2, <4>2, <4>3 DEF ProcessUp
    <3>2. state' = "running"
      BY <2>2 DEF ProcessUp, ComesUp
    <3> QED
      BY <2>1, <3>1, <3>2 DEF Late, Answered, Returned
  <2>3. CASE ProcessRefuses \/ ProcessEnds \/ ScmRestarts
    <3>1. UNCHANGED loaded /\ (state' \in {"stopped", "starting"} \/ state' = state) /\ (state = "running" => state' = "running")
      BY <2>3 DEF ProcessRefuses, ProcessEnds, ScmRestarts, GoesDown, Drained, Restart, setupVars
    <3> QED
      BY <2>1, <3>1 DEF Late, Answered, Returned
  <2> QED
    BY <1>3, <2>1, <2>2, <2>3 DEF ProcessSteps
<1>4. CASE ManagerSteps
  <2>1. ManagerStep("setup") /\ UNCHANGED <<run, loaded>> /\ "setup" \in Callers
    BY <1>4, SureManager, Parties
  <2>2. calls["setup"].op # "none" /\ calls["setup"].at # "done" /\ calls'["setup"].op = calls["setup"].op
    BY <2>1, CallsStay DEF Ops, TypeInv
  <2>3. run.phase = "apply" => run.step # 7
    BY <1>0, <2>2, StepNumbers DEF CallsInv, SetupCalls, Applying, Name
  <2>4. run.phase = "apply" /\ run.step = 6 /\ run.at = "wait" => calls["setup"].op = "start"
    BY <1>0, <2>2, StepNumbers DEF CallsInv, SetupCalls, Applying, Name
  <2>5. run.phase = "apply" /\ run.step = 6 /\ run.at = "stop" => calls["setup"].op = "stop"
    BY <1>0, <2>2, StepNumbers DEF CallsInv, SetupCalls, Applying, Name
  <2>6. calls["setup"].op = "start" /\ state' \in {"running", "stopping"} => state' = state
    BY <2>1 DEF ManagerStep, OpenToInstall, Create, Configure, InstallSource, RollBack, OpenToStop, SendStop,
         WaitStopped, StopTimesOut, Stopping, Delete, RemoveSource, OpenToStart, SendStart, WaitRunning
  <2>7. calls["setup"].op = "stop" /\ Answered({"none", "absent"})' => state' = "stopped"
    <3> SUFFICES ASSUME calls["setup"].op = "stop", calls'["setup"].at = "done", calls'["setup"].err \in {"none", "absent"}
                 PROVE  state' = "stopped"
      BY DEF Answered, Returned
    <3>1. OpenToStop("setup") \/ WaitStopped("setup")
      BY <2>1, ManagerMoves DEF ManagerStep, OpenToInstall, Create, Configure, InstallSource, RollBack, SendStop,
         StopTimesOut, Delete, RemoveSource, OpenToStart, SendStart, WaitRunning, MovedTo, TypeInv
    <3>2. CASE OpenToStop("setup")
      BY <2>1, <3>2, ManagerMoves DEF OpenToStop, MovedTo, RegInv, TypeInv
    <3> QED
      BY <3>1, <3>2 DEF WaitStopped
  <2> QED
    BY <2>1, <2>3, <2>4, <2>5, <2>6, <2>7 DEF Late
<1> QED
  BY <1>1, <1>2, <1>3, <1>4, SureSteps

\* A success finds all of it, and nothing takes it back before the next run.
LEMMA EndKept ==
  ASSUME SetupInv, TypeInv, CallsInv, RegInv, WholeInv, CommandInv, WantsInv, LoadedInv, EndInv, [Next]_vars, Sure'
  PROVE  EndInv'
<1> SUFFICES ASSUME run'.phase = "ended", run'.code \in {0, 4}
             PROVE  Running' /\ reg'.command = Wanted' /\ reg'.has = Whole /\ (run'.minted => "minted" \in loaded')
  BY DEF EndInv
<1> USE DEF SetupInv
<1>0. Wanted' = Wanted /\ Sure
  BY SureSteps DEF Wanted
<1>1. CASE Quiet
  <2>1. UNCHANGED <<state, loaded, reg>>
    BY <1>1, QuietIsQuiet
  <2>2. CASE UNCHANGED run
    BY <1>0, <2>1, <2>2 DEF EndInv, Running
  <2>3. ~runSetup
    <3> DEFINE refused == [Begun EXCEPT !.phase = "ended", !.code = 2]
    <3>1. DOMAIN Begun = Fields /\ Begun.phase = "check"
      BY DEF Begun, NotRun, Fields
    <3>2. refused.code = 2
      BY <3>1 DEF Fields
    <3>3. runSetup => run' = Begun \/ run' = refused
      BY DEF runSetup
    <3> HIDE DEF refused
    <3>4. run' # Begun
      BY <3>1
    <3>5. run' # refused
      BY <3>2
    <3> QED
      BY <3>3, <3>4, <3>5
  <2>4. CASE ProveAuth /\ Applying("verify", "prove")
    <3>1. run.phase = "apply" /\ run.step = 7 /\ run.at = "prove"
      BY <2>4, StepNumbers DEF Applying, Name, RunShape
    <3>2. state = "running" /\ reg.there
      BY <3>1 DEF LoadedInv, RegInv
    <3>3. reg.command = Wanted
      BY <3>1, <3>2 DEF CommandInv, Past
    <3>4. ~Builder("setup")
      BY <3>1, SetupIdle DEF Builder
    <3>5. reg.has = Whole
      BY <3>2, <3>4 DEF WholeInv
    <3>6. run.minted => "minted" \in loaded
      BY <3>1, <3>2 DEF LoadedInv, Late
    <3>7. run'.minted = run.minted
      BY <2>4, Moving DEF ProveAuth
    <3> QED
      BY <1>0, <2>1, <3>2, <3>3, <3>5, <3>6, <3>7 DEF Running
  <2>5. UNCHANGED run \/ runSetup \/ (ProveAuth /\ Applying("verify", "prove"))
    BY <1>0, <1>1, QuietRuns, Moving DEF Sure, Checked, Skip, SaveToken, Enter, Applying
  <2> QED
    BY <2>2, <2>3, <2>4, <2>5
<1>2. ~CallingSteps
  BY CallingRuns, Moving
<1>3. CASE ProcessSteps
  <2>1. UNCHANGED run /\ ~ProcessDies /\ (reg' = reg \/ reg.marked)
    BY <1>3, ProcessLooks, SureSteps DEF ProcessDies, Sure
  <2>2. Running /\ reg.command = Wanted /\ reg.has = Whole /\ (run.minted => "minted" \in loaded)
    BY <2>1 DEF EndInv
  <2>3. UNCHANGED <<reg, state, loaded>>
    BY <1>3, <2>1, <2>2 DEF ProcessSteps, ProcessUp, ProcessRefuses, ProcessEnds, ScmRestarts,
         ComesUp, GoesDown, Drained, Restart, Running, setupVars
  <2> QED
    BY <1>0, <2>1, <2>2, <2>3 DEF Running
<1>4. ~ManagerSteps
  <2> SUFFICES ASSUME ManagerSteps PROVE FALSE
    OBVIOUS
  <2>1. ManagerStep("setup") /\ UNCHANGED run
    BY SureManager
  <2>2. calls["setup"].op = "none"
    BY <2>1, SetupIdle
  <2> QED
    BY <2>1, <2>2, Parties, CallsStay DEF TypeInv, Ops
<1> QED
  BY <1>1, <1>2, <1>3, <1>4, SureSteps

-----------------------------------------------------------------------------
(* The gate.                                                                *)

\* Whatever its owner and however many its entries, a descriptor is judged as it is if
\* everybody its entries name is a grantee, an outsider or the creator.
THEOREM AnyJudgedAsItIs ==
  ASSUME NEW sd, \A ace \in sd.dacl.aces : ace.sid \in LockdownGrantees \cup Outsiders \cup {CreatorOwner}
  PROVE  JudgedAsItIs(sd)
<1> DEFINE sec == ReadSecurity(sd)
           outside == MayChange(sd) \cap Outsiders
           listed == sd.dacl.present /\ ~sd.dacl.null
<1>1. sec.owner = sd.owner /\ sec.grants = readGrants(sd.dacl)
  BY DEF ReadSecurity
<1>2. LockdownGrantees \cap Outsiders = {} /\ CreatorOwner \notin LockdownGrantees \cup Outsiders /\ "Everyone" \in Outsiders
  BY DEF LockdownGrantees, Outsiders, CreatorOwner
<1>3. ~listed => ~checkGrants(sec.grants) /\ Outsiders \subseteq outside
  <2>1. CASE ~listed
    <3>1. sec.grants = {[sid |-> "Everyone", canWrite |-> TRUE]}
      BY <1>1, <2>1 DEF readGrants, everyoneWrites
    <3>2. ~checkGrants(sec.grants)
      <4>1. \E g \in sec.grants : g.canWrite /\ g.sid = "Everyone"
        BY <3>1
      <4>2. "Everyone" \notin LockdownGrantees \cup {CreatorOwner}
        BY DEF LockdownGrantees, CreatorOwner
      <4> HIDE DEF sec
      <4> QED
        BY <4>1, <4>2 DEF checkGrants
    <3>3. Outsiders \subseteq outside
      BY <2>1 DEF MayChange
    <3> QED
      BY <3>2, <3>3
  <2> QED
    BY <2>1
<1>4. listed => (checkGrants(sec.grants) <=>
                   \A ace \in sd.dacl.aces : ace.allow /\ confersWrite(ace.rights) => ace.sid \in LockdownGrantees \cup {CreatorOwner})
  <2> SUFFICES ASSUME listed
               PROVE  checkGrants(sec.grants) <=>
                   \A ace \in sd.dacl.aces : ace.allow /\ confersWrite(ace.rights) => ace.sid \in LockdownGrantees \cup {CreatorOwner}
    OBVIOUS
  <2>1. sec.grants = {[sid |-> ace.sid, canWrite |-> confersWrite(ace.rights)] : ace \in {x \in sd.dacl.aces : x.allow}}
    BY <1>1 DEF readGrants
  <2>2. \A ace \in sd.dacl.aces : ace.allow => [sid |-> ace.sid, canWrite |-> confersWrite(ace.rights)] \in sec.grants
    BY <2>1
  <2>3. \A g \in sec.grants : \E ace \in sd.dacl.aces : ace.allow /\ g = [sid |-> ace.sid, canWrite |-> confersWrite(ace.rights)]
    BY <2>1
  <2> HIDE DEF sec
  <2>4. \A ace \in sd.dacl.aces : ace.allow =>
          \E g \in sec.grants : g.sid = ace.sid /\ (g.canWrite <=> confersWrite(ace.rights))
    BY <2>2
  <2>5. \A g \in sec.grants :
          \E ace \in sd.dacl.aces : ace.allow /\ g.sid = ace.sid /\ (g.canWrite <=> confersWrite(ace.rights))
    BY <2>3
  <2> QED
    BY <2>4, <2>5 DEF checkGrants
<1>5. listed => \A p \in outside :
        p = sd.owner \/ \E ace \in sd.dacl.aces : ace.allow /\ ace.sid = p /\ confersWrite(ace.rights)
  BY DEF MayChange, confersWrite
<1>6. checkGrants(sec.grants) => outside \subseteq {sd.owner}
  BY <1>2, <1>3, <1>4, <1>5
<1>7. checkOwner(sd.owner) => sd.owner # NoOwner /\ sd.owner \notin Outsiders
  BY <1>2 DEF checkOwner, LockdownGrantees, NoOwner
<1>8. outside = {} /\ (\A ace \in sd.dacl.aces : ace.allow) => checkGrants(sec.grants)
  <2> SUFFICES ASSUME outside = {}, \A ace \in sd.dacl.aces : ace.allow PROVE checkGrants(sec.grants)
    OBVIOUS
  <2>1. listed
    BY <1>2, <1>3
  <2>2. \A ace \in sd.dacl.aces : confersWrite(ace.rights) => ace.sid \notin Outsiders
    BY DEF MayChange, confersWrite
  <2> QED
    BY <1>4, <2>1, <2>2
<1>9. outside \subseteq Outsiders
  OBVIOUS
<1> HIDE DEF sec, outside, listed
<1>10. /\ CheckSecurity(sec, "PolicyOwned") <=> checkOwner(sd.owner) /\ checkGrants(sec.grants)
       /\ CheckSecurity(sec, "PolicyNoForeignWrite") <=> checkGrants(sec.grants)
  BY <1>1 DEF CheckSecurity
<1>11. /\ CheckSecurity(sec, "PolicyOwned") => sd.owner # NoOwner /\ outside = {}
       /\ CheckSecurity(sec, "PolicyNoForeignWrite") => outside \subseteq {sd.owner}
       /\ outside = {} /\ (\A ace \in sd.dacl.aces : ace.allow) /\ checkOwner(sd.owner) => CheckSecurity(sec, "PolicyOwned")
  BY <1>6, <1>7, <1>8, <1>9, <1>10
<1> QED
  BY <1>11 DEF JudgedAsItIs, sec, outside

\* The descriptors of the model are of that kind.
LEMMA GateJudges == GateIsSound
<1>1. ASSUME NEW sd \in Descriptors PROVE \A ace \in sd.dacl.aces : ace.sid \in LockdownGrantees \cup Outsiders \cup {CreatorOwner}
  <2>1. sd.dacl.aces \in SUBSET Entries
    BY DEF Descriptors, AccessLists
  <2>2. \A ace \in Entries : ace.sid \in {"SYSTEM", CreatorOwner, "Users"}
    BY DEF Entries
  <2> QED
    BY <2>1, <2>2 DEF LockdownGrantees, Outsiders
<1> QED
  BY <1>1, AnyJudgedAsItIs DEF GateIsSound

-----------------------------------------------------------------------------
(* The invariant as a whole.                                                *)

\* The flags are given once.
LEMMA FlagsKept == ASSUME [Next]_vars PROVE UNCHANGED flags
BY DEF Next, ApplyStep, vars, setupVars, runSetup, Check, Decide, ManagerSteps, ProcessUp, ProcessRefuses, ProcessEnds,
       ProcessDies, ScmRestarts, Fault, Crash, AdminBegins, AdminEnds, AdminSecures, AdminMints, Edit,
       Skip, MakeDirectory, LockDirectory, CreateConfig, WriteConfig, SaveToken, LockStore, StopForReplace, Replace, CopyFile,
       RemoveExisting, Removed, Install, Registers, SecurePaths, StartService, Stopped, Started, Verify, ProveAuth

\* The inductive invariant about the service: its parts lean on one another and on
\* SetupInv.
SetupFacts ==
  /\ SetupInv /\ TypeInv /\ CallsInv /\ RegInv /\ RunInv /\ WriteInv
  /\ SourceInv /\ KeyInv /\ UnaskedInv /\ UpInv /\ SuccessInv

\* Where nothing has gone wrong by now, nothing had before.
LEMMA SuccessKept ==
  ASSUME SetupInv, TypeInv, CallsInv, RegInv, RunInv, SuccessInv, [Next]_vars
  PROVE  SuccessInv'
<1> SUFFICES ASSUME Sure' PROVE (WholeInv /\ CommandInv /\ WantsInv /\ LoadedInv /\ EndInv)'
  BY DEF SuccessInv
<1>1. WholeInv /\ CommandInv /\ WantsInv /\ LoadedInv /\ EndInv
  BY SureSteps DEF SuccessInv
<1> QED
  BY <1>1, WholeKept, CommandInvKept, WantsKept, LoadedKept, EndKept

\* Every step keeps all of it.
LEMMA StepKeepsFacts == ASSUME SetupFacts, [Next]_vars PROVE SetupFacts'
<1> USE DEF SetupFacts
<1>1. SetupInv'
  BY StepKeepsSetupInv
<1>2. TypeInv'
  BY MgrTyped, FlagsKept, RunTyped, HostTyped, StoreTyped DEF TypeInv
<1>3. CallsInv' /\ RegInv' /\ RunInv' /\ WriteInv'
  BY CallsKept, RegKept, RunKept, WriteKept
<1>4. SourceInv' /\ KeyInv' /\ UnaskedInv' /\ UpInv'
  BY SourceKept, KeyKept, UnaskedKept, UpKept
<1> QED
  BY <1>1, <1>2, <1>3, <1>4, SuccessKept

\* A host as HostsAssumption has it, with nobody at work on it.
LEMMA InitFacts == ASSUME Init PROVE SetupFacts
<1>1. PICK h \in Hosts :
        /\ host = h.host /\ store = h.store /\ loaded = h.loaded /\ served = h.served
        /\ reg = h.reg /\ state = h.state /\ source = h.reg.there
  BY DEF Init
<1>2. /\ host.content \in Contents /\ host.key = "old" /\ host.binary \in {"absent", "old", "new"}
      /\ store \subseteq Tokens /\ Cardinality(store \cap Labelled) <= 1
      /\ loaded \subseteq Tokens /\ served \subseteq {"old"} /\ state \in States
      /\ \/ reg = Unregistered /\ state = "stopped"
         \/ \E command \in Commands \cup {Garbled} : reg = Registered(command, Whole)
      /\ served # {} => reg.there \/ Remnant
  <2>1. /\ h.host.content \in Contents /\ h.host.key = "old" /\ h.host.binary \in {"absent", "old", "new"}
        /\ h.store \subseteq Tokens \ {"minted"} /\ Cardinality(h.store \cap Labelled) <= 1
        /\ h.loaded \subseteq Tokens /\ h.served \subseteq {"old"} /\ h.state \in States
        /\ \/ h.reg = Unregistered /\ h.state = "stopped"
           \/ \E command \in Commands \cup {Garbled} : h.reg = Registered(command, Whole)
        /\ h.served # {} => h.reg.there \/ h.host.content # "absent" \/ \E o \in {"config", "store"} : h.host.acl[o].kind # "absent"
    BY HostsAssumption
  <2> QED
    BY <1>1, <2>1 DEF Remnant
<1>3. /\ \A c \in Callers : calls[c] = Idle
      /\ run.phase = "none" /\ run.code = 0 /\ run.wants = FALSE /\ run.auth = TRUE /\ run.up = FALSE /\ run.key = "old"
      /\ run.verdicts = <<>> /\ faults = MaxFaults /\ due = FALSE /\ hurt = {} /\ flags \in FlagSets
      /\ calls = [c \in Callers |-> Idle]
  BY DEF Init, NotRun
<1>4. Idle.op = "none" /\ Idle.at = "done" /\ Idle \in CallRecords
  BY DEF Idle, CallRecords, Stages, Errs
<1>5. reg \in Registrations /\ ~reg.marked /\ (reg.there => reg.has = Whole) /\ reg.there \in BOOLEAN
      /\ (~reg.there => reg = Unregistered /\ state = "stopped")
  <2>1. CASE reg = Unregistered /\ state = "stopped"
    BY <2>1, UnregisteredTyped DEF Unregistered
  <2>2. ASSUME NEW command \in Commands \cup {Garbled}, reg = Registered(command, Whole)
        PROVE  reg \in Registrations /\ reg.there /\ ~reg.marked /\ reg.has = Whole
    BY <2>2 DEF Registrations, Registered, Whole
  <2> QED
    BY <1>2, <2>1, <2>2
<1>6. \A c \in Callers : ~Holds(calls, c) /\ ~Builder(c) /\ calls[c].op = "none"
  BY <1>3, <1>4 DEF Holds, Builder
<1>7. SetupInv
  BY InitSetupInv
<1>8. TypeInv
  <2>1. ManagerTypeOK
    <3>1. calls \in [Callers -> CallRecords]
      BY <1>3, <1>4
    <3>2. faults \in 0..MaxFaults
      BY <1>3, ManagerAssumption
    <3>3. source \in BOOLEAN /\ due \in BOOLEAN
      <4>1. source = reg.there
        BY <1>1
      <4> QED
        BY <1>3, <1>5, <4>1
    <3> QED
      BY <1>2, <1>5, <3>1, <3>2, <3>3 DEF ManagerTypeOK, CallRecords, Registrations
  <2>2. RunTypes /\ HostTypes /\ StoreTypes
    <3>1. RunTypes
      <4>1. /\ NotRun.code \in 0..4 /\ NotRun.wants \in BOOLEAN /\ NotRun.auth \in BOOLEAN
            /\ NotRun.up \in BOOLEAN /\ NotRun.key \in Keys
        BY DEF NotRun, Keys
      <4>2. run = NotRun
        BY DEF Init
      <4> QED
        BY <4>1, <4>2 DEF RunTypes
    <3>2. HostTypes /\ StoreTypes
      BY <1>2 DEF HostTypes, StoreTypes, Keys
    <3> QED
      BY <3>1, <3>2
  <2> QED
    BY <1>3, <2>1, <2>2 DEF TypeInv
<1>9. CallsInv
  BY <1>3, <1>6, Parties DEF CallsInv
<1>10. RegInv /\ SourceInv /\ UnaskedInv
  BY <1>1, <1>5, <1>6, Parties DEF RegInv, SourceInv, UnaskedInv
<1>11. RunInv /\ WriteInv /\ UpInv
  BY <1>3 DEF RunInv, WriteInv, UpInv, LeavesUp, Applying
<1>12. KeyInv
  <2>1. KeyLeft \/ NeverServed
    BY <1>2, <1>3, <1>5, <1>6 DEF KeyLeft, NeverServed
  <2> QED
    BY <1>2, <2>1 DEF KeyInv
<1>13. SuccessInv
  BY <1>3, <1>5, <1>6, Parties DEF SuccessInv, WholeInv, CommandInv, WantsInv, LoadedInv, EndInv, Going
<1> QED
  BY <1>7, <1>8, <1>9, <1>10, <1>11, <1>12, <1>13 DEF SetupFacts

\* Every behaviour keeps the facts about the service: the calls, the registration and its
\* builder, the key, and what an undisturbed run knows.
THEOREM FactsInvariance == Spec => []SetupFacts
<1>1. Init => SetupFacts
  BY InitFacts
<1>2. SetupFacts /\ [Next]_vars => SetupFacts'
  BY StepKeepsFacts
<1> QED
  BY <1>1, <1>2, PTL DEF Spec

-----------------------------------------------------------------------------
(* The theorems about the service.                                          *)

\* Whatever happens, every variable of setup and the SCM stays of its type, one token at
\* most carries the label, and a run checks its steps in their order (Plan.Run).
THEOREM TypeCorrect == Spec => []TypeOK
<1>1. SetupFacts => TypeOK
  <2> SUFFICES ASSUME SetupFacts PROVE TypeOK
    OBVIOUS
  <2>1. \A i \in DOMAIN run.verdicts : run.verdicts[i] \in Conditions
    BY DEF SetupFacts, SetupInv, RunShape
  <2>2. run.phase = "check" => Len(run.verdicts) = run.step - 1 \/ Len(run.verdicts) = 7
    <3> DEFINE n == Len(run.verdicts)
    <3>1. n \in Nat
      BY DEF SetupFacts, SetupInv, RunShape
    <3>2. run.phase = "check" => n <= 7 /\ run.step = IF n < 7 THEN n + 1 ELSE 7
      BY DEF SetupFacts, SetupInv, RunShape
    <3> HIDE DEF n
    <3>3. run.phase = "check" => n = run.step - 1 \/ n = 7
      BY <3>1, <3>2
    <3> QED
      BY <3>3 DEF n
  <2>3. run.phase \in {"none", "check", "apply", "ended"} /\ run.step \in 1..7 /\ shown \in BOOLEAN
    BY DEF SetupFacts, SetupInv, RunShape
  <2> QED
    BY <2>1, <2>2, <2>3 DEF SetupFacts, TypeInv, RunTypes, HostTypes, StoreTypes, TypeOK
<1> QED
  BY <1>1, FactsInvariance, PTL

\* However many callers work on it, a registration that is in parts has an Install at it,
\* unless a kill or a Delete that failed took that away (Manager.Install).
THEOREM RegistrationAlwaysWhole == Spec => []RegistrationIsWhole
<1>1. SetupFacts => RegistrationIsWhole
  BY Parties DEF SetupFacts, RegInv, SourceInv, RegistrationIsWhole, Builder
<1> QED
  BY <1>1, FactsInvariance, PTL

\* Whatever is left of earlier runs, and whatever others do meanwhile, no host serves under
\* two namespace keys (guardRekey).
THEOREM AlwaysOneKey == Spec => []OneKeyPerHost
<1>1. SetupFacts => OneKeyPerHost
  BY KeyIsOne DEF SetupFacts
<1> QED
  BY <1>1, FactsInvariance, PTL

\* A run that nothing disturbed and that reports success has left the service running, as
\* it would register it, and serving its token (verifyStep.Apply, tokenStep.Check).
THEOREM SuccessAlwaysComplete == Spec => []SuccessIsComplete
<1>1. SetupFacts => SuccessIsComplete
  <2> SUFFICES ASSUME SetupFacts, Undisturbed, ~flags.dry PROVE
         /\ run.phase = "ended" /\ run.code \in {0, 4} =>
              /\ Running /\ reg.command = Wanted /\ reg.has = Whole
              /\ run.minted /\ run.auth => "minted" \in loaded
         /\ Applying("verify", "prove") /\ state = "running" /\ run.minted /\ run.auth => "minted" \in loaded
    BY DEF SuccessIsComplete
  <2>1. LoadedInv /\ EndInv
    BY DEF SetupFacts, SuccessInv, Sure, Undisturbed
  <2>2. Applying("verify", "prove") => run.phase = "apply" /\ run.step = 7
    BY StepNumbers DEF Applying, Name, SetupFacts, SetupInv, RunShape
  <2> QED
    BY <2>1, <2>2 DEF LoadedInv, EndInv, Late
<1> QED
  BY <1>1, FactsInvariance, PTL

\* As long as no administrator uninstalls the service beside it, no run replaces a
\* registration, rewrites a configuration or stops a service that was up, unless its flags
\* ask for it (Options.Restart, Options.Reinstall, configStep.Apply).
THEOREM NothingEverUnasked == ASSUME "uninstall" \notin Verbs PROVE Spec => NothingUnasked
<1>1. SetupFacts /\ [Next]_vars =>
        [/\ reg.there /\ reg'.there => reg'.command = reg.command
         /\ reg.there /\ ~reg'.there /\ reg.has = Whole /\ source => flags.reinstall
         /\ host.content # "absent" /\ host'.content # host.content => run.at = "write" /\ host.content = "partial"
         /\ Undisturbed /\ run.up /\ state = "running" /\ state' = "stopping" => flags.restart \/ flags.reinstall]_vars
  BY StepNothingUnasked DEF SetupFacts
<1> QED
  BY <1>1, FactsInvariance, PTL DEF Spec, NothingUnasked

\* The gate of the starting service judges every descriptor an object of the model may have
\* as Windows does (CheckSecurity, readGrants).
THEOREM GateAlwaysSound == Spec => []GateIsSound
BY GateJudges, PTL

-----------------------------------------------------------------------------
(* Where the lockdown is aimed: the paths of a log file, of any length and *)
(* with any names in them.                                                 *)

\* What the code itself reads in a path: the other pieces are names.
Fixed == {Blank, "c:", "?", "."}

\* A blank is neither a drive nor a mark of a long form.
LEMMA Blanks == Blank \notin {"c:", "?", "."} /\ "?" # "c:" /\ "." # "c:"
BY Zenon DEF Blank

\* Short paths, piece by piece.
LEMMA OnePiece ==
  ASSUME NEW S, NEW x \in S
  PROVE  <<x>> \in Seq(S) /\ Len(<<x>>) = 1 /\ <<x>>[1] = x
BY AppendProperties, EmptySeq

LEMMA TwoPieces ==
  ASSUME NEW S, NEW x \in S, NEW y \in S
  PROVE  /\ <<x, y>> \in Seq(S) /\ Len(<<x, y>>) = 2 /\ <<x, y>>[1] = x /\ <<x, y>>[2] = y
         /\ <<x, y>> = <<x>> \o <<y>>
<1>1. <<x, y>> = Append(<<x>>, y)
  OBVIOUS
<1>2. <<x>> \in Seq(S)
  BY OnePiece
<1>3. <<x, y>> \in Seq(S)
  BY <1>1, <1>2, AppendProperties
<1>4. <<x, y>> = <<x>> \o <<y>>
  BY <1>1, <1>2, AppendIsConcat
<1> QED
  BY <1>3, <1>4

LEMMA ThreePieces ==
  ASSUME NEW S, NEW x \in S, NEW y \in S, NEW z \in S
  PROVE  <<x, y, z>> \in Seq(S) /\ Len(<<x, y, z>>) = 3 /\ <<x, y, z>>[1] = x /\ <<x, y, z>>[3] = z
<1>1. <<x, y, z>> = Append(<<x, y>>, z)
  OBVIOUS
<1> QED
  BY <1>1, TwoPieces, AppendProperties

\* A prefix agrees piece by piece.
LEMMA PrefixByPieces ==
  ASSUME NEW Piece, NEW s \in Seq(Piece), NEW t \in Seq(Piece)
  PROVE  IsPrefix(s, t) <=> Len(s) <= Len(t) /\ \A i \in 1..Len(s) : s[i] = t[i]
<1>1. Len(s) \in Nat /\ Len(t) \in Nat /\ (\A i \in 1..Len(s) : s[i] \in Piece) /\ (\A i \in 1..Len(t) : t[i] \in Piece)
  BY LenProperties
<1> SUFFICES ASSUME Len(s) <= Len(t)
             PROVE  SubSeq(s, 1, Len(s)) = SubSeq(t, 1, Len(s)) <=> \A i \in 1..Len(s) : s[i] = t[i]
  BY <1>1 DEF IsPrefix
<1> DEFINE a == SubSeq(s, 1, Len(s))
           b == SubSeq(t, 1, Len(s))
           n == Len(s)
<1>2. n \in Nat /\ (\A i \in 1..n : s[i] \in Piece) /\ (\A i \in 1..n : t[i] \in Piece)
  BY <1>1
<1> HIDE DEF n
<1>3. /\ a \in Seq(Piece) /\ Len(a) = n /\ \A i \in 1..n : a[i] = s[i]
  <2>1. /\ SubSeq(s, 1, n) \in Seq(Piece) /\ Len(SubSeq(s, 1, n)) = IF 1 <= n THEN n - 1 + 1 ELSE 0
        /\ \A i \in 1..(n - 1 + 1) : SubSeq(s, 1, n)[i] = s[1 + i - 1]
    BY <1>2, SubSeqProperties
  <2> QED
    BY <1>2, <2>1 DEF n
<1>4. /\ b \in Seq(Piece) /\ Len(b) = n /\ \A i \in 1..n : b[i] = t[i]
  <2>1. /\ SubSeq(t, 1, n) \in Seq(Piece) /\ Len(SubSeq(t, 1, n)) = IF 1 <= n THEN n - 1 + 1 ELSE 0
        /\ \A i \in 1..(n - 1 + 1) : SubSeq(t, 1, n)[i] = t[1 + i - 1]
    BY <1>2, SubSeqProperties
  <2> QED
    BY <1>2, <2>1 DEF n
<1> HIDE DEF a, b
<1>5. a = b <=> \A i \in 1..n : a[i] = b[i]
  BY <1>3, <1>4, SeqEqual
<1>6. a = b <=> \A i \in 1..n : s[i] = t[i]
  BY <1>3, <1>4, <1>5
<1> QED
  BY <1>6 DEF a, b, n

\* A path put together of two can be taken apart again.
LEMMA TailFrom ==
  ASSUME NEW Piece, NEW s \in Seq(Piece), NEW t \in Seq(Piece)
  PROVE  /\ SubSeq(s \o t, Len(s) + 1, Len(s \o t)) = t
         /\ SubSeq(s \o t, 1, Len(s)) = s
<1> DEFINE u == s \o t
           m == Len(s)
           n == Len(t)
<1>1. /\ m \in Nat /\ n \in Nat /\ u \in Seq(Piece) /\ Len(u) = m + n
      /\ \A i \in 1..(m + n) : u[i] = IF i <= m THEN s[i] ELSE t[i - m]
  BY LenProperties, ConcatProperties
<1>2. (\A i \in 1..(m + n) : u[i] \in Piece)
  BY <1>1, LenProperties
<1> HIDE DEF u, m, n
<1>3. /\ SubSeq(u, m + 1, m + n) \in Seq(Piece) /\ Len(SubSeq(u, m + 1, m + n)) = IF m + 1 <= m + n THEN m + n - (m + 1) + 1 ELSE 0
      /\ \A i \in 1..(m + n - (m + 1) + 1) : SubSeq(u, m + 1, m + n)[i] = u[m + 1 + i - 1]
  <2>1. \A i \in (m + 1)..(m + n) : u[i] \in Piece
    BY <1>1, <1>2
  <2> QED
    BY <1>1, <2>1, SubSeqProperties
<1>4. /\ SubSeq(u, 1, m) \in Seq(Piece) /\ Len(SubSeq(u, 1, m)) = IF 1 <= m THEN m - 1 + 1 ELSE 0
      /\ \A i \in 1..(m - 1 + 1) : SubSeq(u, 1, m)[i] = u[1 + i - 1]
  <2>1. \A i \in 1..m : u[i] \in Piece
    BY <1>1, <1>2
  <2> QED
    BY <1>1, <2>1, SubSeqProperties
<1>5. SubSeq(u, m + 1, m + n) = t
  <2> DEFINE v == SubSeq(u, m + 1, m + n)
  <2>1. Len(v) = n /\ v \in Seq(Piece)
    BY <1>1, <1>3
  <2>2. \A i \in 1..n : v[i] = t[i]
    BY <1>1, <1>3
  <2> HIDE DEF v
  <2>3. t \in Seq(Piece) /\ Len(t) = n
    BY DEF n
  <2>4. v = t
    BY <2>1, <2>2, <2>3, SeqEqual
  <2> QED
    BY <2>4 DEF v
<1>6. SubSeq(u, 1, m) = s
  <2> DEFINE v == SubSeq(u, 1, m)
  <2>1. Len(v) = m /\ v \in Seq(Piece)
    BY <1>1, <1>4
  <2>2. \A i \in 1..m : v[i] = s[i]
    BY <1>1, <1>4
  <2> HIDE DEF v
  <2>3. s \in Seq(Piece) /\ Len(s) = m
    BY DEF m
  <2>4. v = s
    BY <2>1, <2>2, <2>3, SeqEqual
  <2> QED
    BY <2>4 DEF v
<1> QED
  BY <1>1, <1>5, <1>6 DEF u, m


\* A path that does not end in a separator.
Named(path) == path # <<>> => path[Len(path)] # Blank

\* Trimming takes away the separators at the end and nothing else (TrimmedRight).
LEMMA OnlyBlanksGo ==
  ASSUME NEW Piece, NEW s \in Seq(Piece), NEW b \in Seq(Piece), Named(s),
         \A i \in 1..Len(b) : b[i] = Blank
  PROVE  TrimmedRight(s \o b) = s
<1> DEFINE u == s \o b
           m == Len(s)
           n == Len(b)
           ends == {i \in 0..Len(u) : \A j \in 1..Len(u) : j > i => u[j] = Blank}
           least == CHOOSE i \in ends : \A j \in ends : i <= j
<1>1. /\ m \in Nat /\ n \in Nat /\ Len(u) = m + n
      /\ \A i \in 1..(m + n) : u[i] = IF i <= m THEN s[i] ELSE b[i - m]
  BY LenProperties, ConcatProperties
<1>2. m # 0 => s[m] # Blank
  BY EmptySeq DEF Named
<1>3. TrimmedRight(u) = SubSeq(u, 1, least)
  BY DEF TrimmedRight
<1>4. SubSeq(u, 1, m) = s
  BY TailFrom
<1> DEFINE k == Len(u)
<1>5. \A i \in 1..n : b[i] = Blank
  OBVIOUS
<1> HIDE DEF u, m, n
<1>6. m \in ends
  <2>1. ASSUME NEW j \in 1..Len(u), j > m PROVE u[j] = Blank
    <3>1. j \in 1..(m + n) /\ ~(j <= m) /\ j - m \in 1..n
      BY <1>1, <2>1
    <3> QED
      BY <1>1, <1>5, <3>1
  <2>2. m \in 0..Len(u)
    BY <1>1
  <2> QED
    BY <2>1, <2>2
<1>7. ASSUME NEW i \in ends PROVE m <= i /\ i \in Nat
  <2>1. i \in 0..(m + n) /\ \A j \in 1..(m + n) : j > i => u[j] = Blank
    BY <1>1
  <2>2. SUFFICES ASSUME i < m PROVE FALSE
    BY <1>1, <2>1
  <2>3. m \in 1..(m + n) /\ m > i /\ m # 0
    BY <1>1, <2>1, <2>2
  <2>4. u[m] = s[m]
    BY <1>1, <2>3
  <2> QED
    BY <1>2, <2>1, <2>3, <2>4
<1> HIDE DEF ends
<1>8. \A j \in ends : m <= j
  BY <1>7
<1>9. least \in ends /\ \A j \in ends : least <= j
  BY <1>6, <1>8
<1> HIDE DEF least
<1>10. least = m
  <2>1. m <= least /\ least \in Nat
    BY <1>7, <1>9
  <2>2. least <= m
    BY <1>6, <1>9
  <2> QED
    BY <1>1, <2>1, <2>2
<1> QED
  BY <1>3, <1>4, <1>10 DEF u

LEMMA NothingToTrim ==
  ASSUME NEW Piece, NEW s \in Seq(Piece), Named(s)
  PROVE  TrimmedRight(s) = s
<1>1. <<>> \in Seq(Piece) /\ s \o <<>> = s /\ Len(<<>>) = 0
  BY ConcatEmptySeq, EmptySeq
<1>2. \A i \in 1..Len(<<>>) : <<>>[i] = Blank
  BY <1>1
<1> QED
  BY <1>1, <1>2, OnlyBlanksGo

\* The long forms of a path.
Long == {<<Blank, Blank, "?">>, <<Blank, Blank, ".">>}

LEMMA LongForms ==
  ASSUME NEW Piece, Fixed \subseteq Piece, NEW p \in Long
  PROVE  p \in Seq(Piece) /\ Len(p) = 3 /\ p[1] = Blank /\ p[3] \in {"?", "."}
<1>1. Blank \in Piece /\ "?" \in Piece /\ "." \in Piece
  BY DEF Fixed
<1>2. CASE p = <<Blank, Blank, "?">>
  BY <1>1, <1>2, ThreePieces
<1>3. CASE p = <<Blank, Blank, ".">>
  BY <1>1, <1>3, ThreePieces
<1> QED
  BY <1>2, <1>3 DEF Long

LEMMA Beginnings ==
  ASSUME NEW Piece, Fixed \subseteq Piece
  PROVE  /\ <<"c:">> \in Seq(Piece) /\ Len(<<"c:">>) = 1 /\ <<"c:">>[1] = "c:" /\ Named(<<"c:">>)
         /\ <<Blank, Blank>> \in Seq(Piece) /\ Len(<<Blank, Blank>>) = 2 /\ <<Blank, Blank>>[1] = Blank
<1>1. "c:" \in Piece /\ Blank \in Piece
  BY DEF Fixed
<1>2. <<"c:">> \in Seq(Piece) /\ Len(<<"c:">>) = 1 /\ <<"c:">>[1] = "c:"
  BY <1>1, OnePiece
<1>3. <<Blank, Blank>> \in Seq(Piece) /\ Len(<<Blank, Blank>>) = 2 /\ <<Blank, Blank>>[1] = Blank
  BY <1>1, TwoPieces
<1>4. Named(<<"c:">>)
  BY <1>2, Blanks DEF Named
<1> QED
  BY <1>2, <1>3, <1>4

\* A path on a drive begins with the drive and is no share.
LEMMA OnDrive ==
  ASSUME NEW Piece, Fixed \subseteq Piece, NEW at \in Seq(Piece)
  PROVE  /\ <<"c:">> \o at \in Seq(Piece) /\ Len(<<"c:">> \o at) = Len(at) + 1
         /\ (<<"c:">> \o at)[1] = "c:" /\ Head(<<"c:">> \o at) = "c:"
         /\ <<"c:">> \o at # <<>>
         /\ Named(at) => Named(<<"c:">> \o at)
         /\ isDriveRooted(<<"c:">> \o at)
         /\ ~IsShare(<<"c:">> \o at)
<1> DEFINE u == <<"c:">> \o at
           n == Len(at)
<1>1. <<"c:">> \in Seq(Piece) /\ Len(<<"c:">>) = 1 /\ <<"c:">>[1] = "c:"
  BY Beginnings
<1>2. u \in Seq(Piece) /\ Len(u) = 1 + n /\ n \in Nat
      /\ \A i \in 1..(1 + n) : u[i] = IF i <= 1 THEN <<"c:">>[i] ELSE at[i - 1]
  BY <1>1, ConcatProperties, LenProperties
<1>3. n = 0 <=> at = <<>>
  BY EmptySeq
<1> HIDE DEF u, n
<1>4. 1 \in 1..(1 + n) /\ 1 + n \in 1..(1 + n)
  BY <1>2
<1>5. u[1] = "c:"
  BY <1>1, <1>2, <1>4
<1>6. u # <<>>
  BY <1>2
<1>7. Head(u) = "c:"
  BY <1>2, <1>5, <1>6, HeadTailProperties
<1>8. Named(at) => Named(u)
  <2>1. CASE n = 0
    BY <1>2, <1>5, <2>1, Blanks DEF Named
  <2>2. CASE n # 0
    <3>1. u[1 + n] = at[n]
      BY <1>2, <1>4, <2>2
    <3>2. Named(at) => at[n] # Blank
      BY <1>3, <2>2 DEF Named, n
    <3> QED
      BY <1>2, <3>1, <3>2 DEF Named
  <2> QED
    BY <2>1, <2>2
<1>9. isDriveRooted(u)
  BY <1>6, <1>7 DEF isDriveRooted, Drives
<1>10. ~IsShare(u)
  <2> DEFINE q == <<Blank, Blank>>
  <2>1. q \in Seq(Piece) /\ Len(q) = 2 /\ q[1] = Blank
    BY Beginnings
  <2> HIDE DEF q
  <2>2. IsPrefix(q, u) => \A i \in 1..2 : q[i] = u[i]
    <3>1. u \in Seq(Piece)
      BY <1>2
    <3>2. IsPrefix(q, u) <=> Len(q) <= Len(u) /\ \A i \in 1..Len(q) : q[i] = u[i]
      BY <2>1, <3>1, PrefixByPieces
    <3> QED
      BY <2>1, <3>2
  <2>3. IsPrefix(q, u) => q[1] = u[1]
    BY <2>2
  <2>4. ~IsPrefix(q, u)
    BY <1>5, <2>1, <2>3, Blanks
  <2> QED
    BY <2>4 DEF IsShare, q
<1> QED
  BY <1>2, <1>5, <1>6, <1>7, <1>8, <1>9, <1>10 DEF u, n

\* However it is spelled, a path on a drive is brought to the same form (normalizeLocation).
LEMMA ShortDrive ==
  ASSUME NEW Piece, Fixed \subseteq Piece, NEW at \in Seq(Piece)
  PROVE  normalizeLocation(<<"c:">> \o at) = TrimmedRight(<<"c:">> \o at)
<1> DEFINE u == <<"c:">> \o at
<1>1. u \in Seq(Piece) /\ u[1] = "c:" /\ ~IsShare(u)
  BY OnDrive
<1> HIDE DEF u
<1>2. ASSUME NEW p \in Long PROVE ~IsPrefix(p, u)
  <2>1. p \in Seq(Piece) /\ Len(p) = 3 /\ p[1] = Blank
    BY LongForms
  <2>2. IsPrefix(p, u) => \A i \in 1..3 : p[i] = u[i]
    BY <1>1, <2>1, PrefixByPieces
  <2>3. IsPrefix(p, u) => p[1] = u[1]
    BY <2>2
  <2> QED
    BY <1>1, <2>1, <2>3, Blanks
<1>3. normalizeLocation(u) = TrimmedRight(u)
  BY <1>1, <1>2 DEF normalizeLocation, Long
<1> QED
  BY <1>3 DEF u

LEMMA LongDrive ==
  ASSUME NEW Piece, Fixed \subseteq Piece, NEW at \in Seq(Piece), NEW p \in Long
  PROVE  normalizeLocation((p \o <<"c:">>) \o at) = TrimmedRight(<<"c:">> \o at)
<1> DEFINE u == <<"c:">> \o at
           v == p \o u
<1>1. u \in Seq(Piece) /\ isDriveRooted(u) /\ ~IsShare(u)
  BY OnDrive
<1>2. p \in Seq(Piece) /\ Len(p) = 3 /\ <<"c:">> \in Seq(Piece)
  BY LongForms, Beginnings
<1>3. (p \o <<"c:">>) \o at = v
  BY <1>2, ConcatAssociative
<1>0. Len(p) + 1 = 4
  BY <1>2
<1> HIDE DEF u
<1>4. SubSeq(v, 4, Len(v)) = u /\ SubSeq(v, 1, 3) = p
  <2>1. SubSeq(v, Len(p) + 1, Len(v)) = u /\ SubSeq(v, 1, Len(p)) = p
    BY <1>1, <1>2, TailFrom
  <2> QED
    BY <1>0, <1>2, <2>1
<1>5. v \in Seq(Piece) /\ Len(v) >= 3
  <2>1. v \in Seq(Piece) /\ Len(v) = Len(p) + Len(u)
    BY <1>1, <1>2, ConcatProperties
  <2>2. Len(u) \in Nat
    BY <1>1, LenProperties
  <2> QED
    BY <1>2, <2>1, <2>2
<1>6. IsPrefix(p, v)
  <2>1. SubSeq(p, 1, 3) = p
    BY <1>2 DEF Long
  <2> QED
    BY <1>2, <1>4, <1>5, <2>1 DEF IsPrefix
<1> HIDE DEF v
<1>7. normalizeLocation(v) = TrimmedRight(u)
  BY <1>1, <1>4, <1>6 DEF normalizeLocation, Long
<1> QED
  BY <1>3, <1>7 DEF u

\* A path on a share begins with two blanks, which are no drive.
LEMMA OnShare ==
  ASSUME NEW Piece, Fixed \subseteq Piece, NEW at \in Seq(Piece)
  PROVE  /\ <<Blank, Blank>> \o at \in Seq(Piece) /\ Len(<<Blank, Blank>> \o at) = Len(at) + 2
         /\ (<<Blank, Blank>> \o at)[1] = Blank /\ Head(<<Blank, Blank>> \o at) = Blank
         /\ at # <<>> => (<<Blank, Blank>> \o at)[3] = at[1]
         /\ SubSeq(<<Blank, Blank>> \o at, 3, Len(<<Blank, Blank>> \o at)) = at
         /\ IsShare(<<Blank, Blank>> \o at)
<1> DEFINE q == <<Blank, Blank>>
           u == q \o at
           n == Len(at)
<1>1. q \in Seq(Piece) /\ Len(q) = 2 /\ q[1] = Blank /\ SubSeq(q, 1, 2) = q
  <2>1. q \in Seq(Piece) /\ Len(q) = 2 /\ q[1] = Blank
    BY Beginnings
  <2> HIDE DEF q
  <2> QED
    BY <2>1, SubSeqFull
<1> HIDE DEF q
<1>2. u \in Seq(Piece) /\ Len(u) = 2 + n /\ n \in Nat
      /\ \A i \in 1..(2 + n) : u[i] = IF i <= 2 THEN q[i] ELSE at[i - 2]
  <2>1. u \in Seq(Piece) /\ Len(u) = Len(q) + n
        /\ \A i \in 1..(Len(q) + n) : u[i] = IF i <= Len(q) THEN q[i] ELSE at[i - Len(q)]
    BY <1>1, ConcatProperties
  <2>2. n \in Nat
    BY LenProperties
  <2> QED
    BY <1>1, <2>1, <2>2
<1>3. n = 0 <=> at = <<>>
  BY EmptySeq
<1>4. SubSeq(u, 3, Len(u)) = at /\ SubSeq(u, 1, 2) = q
  <2>1. SubSeq(u, Len(q) + 1, Len(u)) = at /\ SubSeq(u, 1, Len(q)) = q
    BY <1>1, TailFrom
  <2>2. Len(q) + 1 = 3
    BY <1>1
  <2> QED
    BY <1>1, <2>1, <2>2
<1> HIDE DEF u, n
<1>5. u[1] = Blank /\ u # <<>>
  BY <1>1, <1>2
<1>6. Head(u) = Blank
  BY <1>2, <1>5, HeadTailProperties
<1>7. at # <<>> => u[3] = at[1]
  BY <1>2, <1>3
<1>8. IsShare(u)
  BY <1>1, <1>2, <1>4 DEF IsShare, IsPrefix, q
<1> QED
  BY <1>2, <1>4, <1>5, <1>6, <1>7, <1>8 DEF u, n, q

\* A path on a share that is no long form is left as it is (normalizeLocation).
LEMMA NormalShare ==
  ASSUME NEW Piece, Fixed \subseteq Piece, NEW at \in Seq(Piece), Named(at), at # <<>> => at[1] \notin {"?", "."}
  PROVE  normalizeLocation(<<Blank, Blank>> \o at) = <<Blank, Blank>> \o at
<1> DEFINE u == <<Blank, Blank>> \o at
<1>1. u \in Seq(Piece) /\ Len(u) = Len(at) + 2 /\ (at # <<>> => u[3] = at[1]) /\ SubSeq(u, 3, Len(u)) = at /\ IsShare(u)
  BY OnShare
<1>2. Len(at) \in Nat /\ (Len(at) = 0 <=> at = <<>>)
  BY LenProperties, EmptySeq
<1> HIDE DEF u
<1>3. ASSUME NEW p \in Long PROVE ~IsPrefix(p, u)
  <2>1. p \in Seq(Piece) /\ Len(p) = 3 /\ p[3] \in {"?", "."}
    BY LongForms
  <2>2. IsPrefix(p, u) => 3 <= Len(u) /\ \A i \in 1..3 : p[i] = u[i]
    <3>0. u \in Seq(Piece) /\ p \in Seq(Piece)
      BY <1>1, <2>1
    <3>1. IsPrefix(p, u) <=> Len(p) <= Len(u) /\ \A i \in 1..Len(p) : p[i] = u[i]
      BY <3>0, PrefixByPieces
    <3> QED
      BY <2>1, <3>1
  <2>3. IsPrefix(p, u) => at # <<>> /\ p[3] = u[3]
    BY <1>1, <1>2, <2>2
  <2> QED
    BY <1>1, <2>1, <2>3
<1>4. TrimmedRight(at) = at
  BY NothingToTrim
<1>5. normalizeLocation(u) = <<Blank, Blank>> \o at
  BY <1>1, <1>3, <1>4 DEF normalizeLocation, Long
<1> QED
  BY <1>5 DEF u

\* Away from the root of a volume, a file's directory is what stands before its name.
LEMMA LogDirectory ==
  ASSUME NEW Piece, NEW s \in Seq(Piece), Len(s) >= 2, NEW x \in Piece
  PROVE  logDirOf(s \o <<x>>) = s
<1> DEFINE u == s \o <<x>>
<1>1. <<x>> \in Seq(Piece) /\ Len(<<x>>) = 1
  BY OnePiece, TwoPieces DEF Fixed
<1>2. Len(u) = Len(s) + 1 /\ Len(s) \in Nat /\ SubSeq(u, 1, Len(s)) = s
  BY <1>1, ConcatProperties, LenProperties, TailFrom
<1> HIDE DEF u
<1>3. Len(u) # 1 /\ Len(u) # 2 /\ Len(u) - 1 = Len(s)
  BY <1>2
<1>4. logDirOf(u) = s
  BY <1>2, <1>3 DEF logDirOf, Front
<1> QED
  BY <1>4 DEF u

\* The only directory to be locked down is that of the log.
LEMMA OneDirectory ==
  ASSUME NEW config, NEW file
  PROVE  CheckSecurables(SecurablesFor(config, {}, {file})) <=> ~IsProtectedLocation(logDirOf(file))
<1> DEFINE one == [path |-> config, directory |-> FALSE, optional |-> FALSE]
           dir == [path |-> logDirOf(file), directory |-> TRUE, optional |-> FALSE]
<1>1. SecurablesFor(config, {}, {file}) = {one, dir}
  BY DEF SecurablesFor
<1>2. ~one.directory /\ dir.directory /\ dir.path = logDirOf(file)
  OBVIOUS
<1> HIDE DEF one, dir
<1>3. CheckSecurables({one, dir}) <=> ~IsProtectedLocation(logDirOf(file))
  BY <1>2 DEF CheckSecurables
<1> QED
  BY <1>1, <1>3

\* What is refused on a drive is the volume and the directories of the system.
LEMMA DriveJudged ==
  ASSUME NEW Piece, Fixed \subseteq Piece, NEW at \in Seq(Piece), Named(at), NEW dir, normalizeLocation(dir) = <<"c:">> \o at
  PROVE  IsProtectedLocation(dir) <=> at = <<>> \/ <<"c:">> \o at \in SharedDirectories
<1> DEFINE u == <<"c:">> \o at
<1>1. u \in Seq(Piece) /\ Len(u) = Len(at) + 1 /\ Head(u) = "c:" /\ ~IsShare(u)
  BY OnDrive
<1>2. Len(at) \in Nat /\ (Len(at) = 0 <=> at = <<>>)
  BY LenProperties, EmptySeq
<1> HIDE DEF u
<1>3. Len(u) = 1 <=> at = <<>>
  BY <1>1, <1>2
<1>4. normalizeLocation(dir) = u
  BY DEF u
<1>5. IsProtectedLocation(dir) <=> at = <<>> \/ u \in SharedDirectories
  BY <1>1, <1>3, <1>4 DEF IsProtectedLocation, Drives
<1> QED
  BY <1>5 DEF u

\* What is refused on a share is the share itself and the server.
LEMMA ShareJudged ==
  ASSUME NEW Piece, Fixed \subseteq Piece, NEW at \in Seq(Piece), NEW dir, normalizeLocation(dir) = <<Blank, Blank>> \o at
  PROVE  IsProtectedLocation(dir) <=> Len(at) <= 2
<1> DEFINE u == <<Blank, Blank>> \o at
<1>1. u \in Seq(Piece) /\ Len(u) = Len(at) + 2 /\ u[1] = Blank /\ Head(u) = Blank /\ IsShare(u) /\ Len(at) \in Nat
  BY OnShare, LenProperties
<1> HIDE DEF u
<1>2. u \notin SharedDirectories
  <2>1. \A d \in SharedDirectories : d[1] = "c:"
    <3>1. ASSUME NEW x, NEW y, NEW z PROVE <<x, y>>[1] = x /\ <<x, y, z>>[1] = x
      OBVIOUS
    <3>2. \A d \in SharedDirectories : \E y, z : d = <<"c:", y>> \/ d = <<"c:", y, z>>
      BY Zenon DEF SharedDirectories
    <3> QED
      BY <3>1, <3>2
  <2> QED
    BY <1>1, <2>1, Blanks
<1>3. Len(u) <= 4 <=> Len(at) <= 2
  BY <1>1
<1>4. normalizeLocation(dir) = u
  BY DEF u
<1> QED
  BY <1>1, <1>2, <1>3, <1>4, Blanks DEF IsProtectedLocation, Drives

\* A place a path can name: it does not end in a separator, and a server is not called
\* like the mark of a long form.
Locatable(place, Piece) ==
  /\ place.kind \in {"drive", "share"} /\ place.at \in Seq(Piece) /\ Named(place.at)
  /\ place.kind = "share" /\ place.at # <<>> => place.at[1] \notin {"?", "."}

\* Wherever a log file is put, whatever the names on its path are and however the path is
\* spelled, its directory is refused exactly if it belongs to others too (CheckSecurables,
\* logDirOf, normalizeLocation, IsProtectedLocation).
THEOREM AnyLogIsAimed ==
  ASSUME NEW Piece, Fixed \subseteq Piece, NEW place, Locatable(place, Piece), NEW name \in Piece, NEW file \in Spellings(place, name)
  PROVE  AimedAt(place, file)
<1> DEFINE at == place.at
<1>1. at \in Seq(Piece) /\ Named(at) /\ Len(at) \in Nat /\ (Len(at) = 0 <=> at = <<>>)
  BY LenProperties, EmptySeq DEF Locatable
<1>2. SUFFICES IsProtectedLocation(logDirOf(file)) <=> IsShared(place)
  BY OneDirectory DEF AimedAt
<1>3. CASE place.kind = "share"
  <2>1. file = (<<Blank, Blank>> \o at) \o <<name>>
    BY <1>3 DEF Spellings
  <2>2. (<<Blank, Blank>> \o at) \in Seq(Piece) /\ Len(<<Blank, Blank>> \o at) >= 2
    BY <1>1, OnShare
  <2>3. logDirOf(file) = <<Blank, Blank>> \o at
    BY <2>1, <2>2, LogDirectory
  <2>4. normalizeLocation(logDirOf(file)) = <<Blank, Blank>> \o at
    BY <1>1, <1>3, <2>3, NormalShare DEF Locatable
  <2>5. IsProtectedLocation(logDirOf(file)) <=> Len(at) <= 2
    BY <1>1, <2>4, ShareJudged
  <2>6. IsShared(place) <=> Len(at) <= 2
    BY <1>1, <1>3 DEF IsShared
  <2> QED
    BY <2>5, <2>6
<1>4. CASE place.kind = "drive"
  <2>1. normalizeLocation(logDirOf(file)) = <<"c:">> \o at
    <3>1. PICK p \in {<<>>} \cup Long : file = ((p \o <<"c:">>) \o at) \o <<name>>
      BY <1>4 DEF Spellings, Long
    <3>2. TrimmedRight(<<"c:">> \o at) = <<"c:">> \o at
      BY <1>1, OnDrive, NothingToTrim
    <3>3. <<"c:">> \in Seq(Piece) /\ <<>> \o <<"c:">> = <<"c:">>
      BY OnePiece, TwoPieces DEF Fixed
    <3>4. <<"c:">> \o at \in Seq(Piece) /\ Len(<<"c:">> \o at) = Len(at) + 1
      BY <1>1, OnDrive
    <3>5. CASE p \in Long
      <4>1. p \o <<"c:">> \in Seq(Piece) /\ Len(p \o <<"c:">>) = 4
        <5>1. p \in Seq(Piece) /\ Len(p) = 3 /\ Len(<<"c:">>) = 1
          BY <3>5, LongForms, Beginnings
        <5>2. p \o <<"c:">> \in Seq(Piece) /\ Len(p \o <<"c:">>) = Len(p) + Len(<<"c:">>)
          BY <3>3, <5>1, ConcatProperties
        <5> QED
          BY <5>1, <5>2
      <4>2. (p \o <<"c:">>) \o at \in Seq(Piece) /\ Len((p \o <<"c:">>) \o at) >= 2
        <5>1. Len((p \o <<"c:">>) \o at) = Len(p \o <<"c:">>) + Len(at) /\ (p \o <<"c:">>) \o at \in Seq(Piece)
          BY <1>1, <4>1, ConcatProperties
        <5>2. Len((p \o <<"c:">>) \o at) = 4 + Len(at)
          BY <4>1, <5>1
        <5>3. Len(at) \in Nat
          BY <1>1
        <5>4. 4 + Len(at) >= 2
          BY <5>3
        <5> QED
          BY <5>1, <5>2, <5>4
      <4>3. logDirOf(file) = (p \o <<"c:">>) \o at
        BY <3>1, <4>2, LogDirectory
      <4> QED
        BY <1>1, <3>2, <3>5, <4>3, LongDrive
    <3>6. CASE p = <<>> /\ at # <<>>
      <4>1. file = (<<"c:">> \o at) \o <<name>> /\ Len(<<"c:">> \o at) >= 2
        BY <1>1, <3>1, <3>3, <3>4, <3>6
      <4>2. logDirOf(file) = <<"c:">> \o at
        BY <3>4, <4>1, LogDirectory
      <4> QED
        BY <1>1, <3>2, <4>2, ShortDrive
    <3>7. CASE p = <<>> /\ at = <<>>
      <4>1. file = <<"c:", name>> /\ <<"c:">> \o at = <<"c:">>
        <5>1. <<"c:">> \o <<>> = <<"c:">>
          BY <3>3, ConcatEmptySeq
        <5>2. "c:" \in Piece
          BY DEF Fixed
        <5>3. <<"c:", name>> = <<"c:">> \o <<name>>
          BY <5>2, TwoPieces
        <5> QED
          BY <3>1, <3>3, <3>7, <5>1, <5>3
      <4>2. logDirOf(file) = <<"c:", Blank>>
        BY <4>1 DEF logDirOf, isDriveRooted, Drives
      <4>3. <<Blank>> \in Seq(Piece) /\ <<"c:", Blank>> = <<"c:">> \o <<Blank>>
        BY OnePiece, TwoPieces DEF Fixed
      <4>4. normalizeLocation(<<"c:", Blank>>) = TrimmedRight(<<"c:">> \o <<Blank>>)
        BY <4>3, ShortDrive
      <4>5. Named(<<"c:">>) /\ \A i \in 1..Len(<<Blank>>) : <<Blank>>[i] = Blank
        BY Beginnings
      <4>6. TrimmedRight(<<"c:">> \o <<Blank>>) = <<"c:">>
        BY <3>3, <4>3, <4>5, OnlyBlanksGo
      <4> QED
        BY <4>1, <4>2, <4>4, <4>6
    <3> QED
      BY <3>5, <3>6, <3>7
  <2>2. IsProtectedLocation(logDirOf(file)) <=> at = <<>> \/ <<"c:">> \o at \in SharedDirectories
    BY <1>1, <2>1, DriveJudged
  <2>3. IsShared(place) <=> at = <<>> \/ <<"c:">> \o at \in SharedDirectories
    BY <1>4 DEF IsShared
  <2> QED
    BY <2>2, <2>3
<1> QED
  BY <1>3, <1>4 DEF Locatable


PathPieces == Fixed \cup {"windows", "system32", "programdata", "own", "host", "share", "log"}

LEMMA NamesAreNames == \A x \in {"windows", "system32", "programdata", "own", "host", "share"} : x # Blank
BY Zenon DEF Blank

\* The places of the model are such places.
LEMMA PlacesLocatable == \A place \in Places : Locatable(place, PathPieces)
<1>1. ASSUME NEW x \in PathPieces, x # Blank PROVE <<x>> \in Seq(PathPieces) /\ Named(<<x>>)
  BY <1>1, OnePiece DEF Named
<1>2. ASSUME NEW x \in PathPieces, NEW y \in PathPieces, y # Blank PROVE <<x, y>> \in Seq(PathPieces) /\ Named(<<x, y>>)
  BY <1>2, TwoPieces DEF Named
<1>3. ASSUME NEW x \in PathPieces, NEW y \in PathPieces, NEW z \in PathPieces, z # Blank
      PROVE  <<x, y, z>> \in Seq(PathPieces) /\ Named(<<x, y, z>>)
  BY <1>3, ThreePieces DEF Named
<1>4. <<>> \in Seq(PathPieces) /\ Named(<<>>)
  BY EmptySeq DEF Named
<1>5. {"windows", "system32", "programdata", "own", "host", "share"} \subseteq PathPieces
  BY DEF PathPieces
<1> TAKE place \in Places
<1>6. CASE place.kind = "drive"
  <2>1. place.at \in {<<>>, <<"windows">>, <<"windows", "system32">>, <<"windows", "own">>, <<"programdata">>,
                      <<"programdata", "own">>, <<"own">>}
    BY <1>6 DEF Places
  <2>2. place.at \in Seq(PathPieces) /\ Named(place.at)
    BY <1>1, <1>2, <1>4, <1>5, <2>1, NamesAreNames
  <2> QED
    BY <1>6, <2>2 DEF Locatable
<1>7. CASE place.kind = "share"
  <2>1. place.at \in {<<"host", "share">>, <<"host", "share", "own">>}
    BY <1>7 DEF Places
  <2>2. place.at \in Seq(PathPieces) /\ Named(place.at)
    BY <1>2, <1>3, <1>5, <2>1, NamesAreNames
  <2>3. place.at[1] = "host"
    BY <2>1
  <2> QED
    BY <1>7, <2>2, <2>3 DEF Locatable
<1> QED
  BY <1>6, <1>7 DEF Places

LEMMA AimedAsModelled == \A place \in Places : \A file \in Spellings(place, "log") : AimedAt(place, file)
<1> TAKE place \in Places
<1>1. Locatable(place, PathPieces) /\ Fixed \subseteq PathPieces /\ "log" \in PathPieces
  BY PlacesLocatable DEF PathPieces
<1> TAKE file \in Spellings(place, "log")
<1> QED
  BY <1>1, AnyLogIsAimed

\* Whatever the flags, a lockdown is aimed at a directory of the log's own and at no other
\* (CheckSecurables).
THEOREM LockdownAlwaysAimed == Spec => []LockdownIsAimed
<1>1. LockdownIsAimed
  BY AimedAsModelled DEF LockdownIsAimed
<1> QED
  BY <1>1, PTL
=============================================================================
