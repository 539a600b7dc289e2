---------------------------- MODULE FileSecurity ----------------------------
(***************************************************************************)
(* The lockdown of what the service depends on: what is read back from a   *)
(* path, the two policies it is judged by, what the lockdown sets, and     *)
(* where it must not be aimed.                                             *)
(*                                                                         *)
(* A security descriptor is its owner and its access list. The numeric     *)
(* masks and the text of a SID are left out: a right either changes        *)
(* something or does not, and a principal is a name. Inheritance is what   *)
(* Born says of it.                                                        *)
(***************************************************************************)
EXTENDS Naturals, Sequences, FiniteSets, SequencesExt

LockdownGrantees == {"SYSTEM", "Administrators"}
Outsiders == {"TrustedInstaller", "Operator", "Users", "Everyone"}
CreatorOwner == "CREATOR OWNER"
NoOwner == ""

\* Writing, appending and the generic rights stand behind the first; the right to
\* remove a directory's children is granted by itself.
ChangingRights == {"Write", "WriteDac", "Delete", "DeleteChild"}
Rights == ChangingRights \cup {"Read"}

\* Mutant: only an ordinary write counts.
confersWriteData(rights) == "Write" \in rights

confersWrite(rights) == rights \cap ChangingRights # {}

everyoneWrites == {[sid |-> "Everyone", canWrite |-> TRUE]}

\* A descriptor without a list and one with a null list both restrict nobody. Deny
\* entries are not read.
readGrants(dacl) ==
  IF ~dacl.present \/ dacl.null THEN everyoneWrites
  ELSE {[sid |-> ace.sid, canWrite |-> confersWrite(ace.rights)] : ace \in {x \in dacl.aces : x.allow}}

ReadSecurity(sd) == [owner |-> sd.owner, grants |-> readGrants(sd.dacl)]

checkOwner(owner) == owner \in LockdownGrantees
checkGrants(grants) == \A g \in grants : g.canWrite => g.sid \in LockdownGrantees \cup {CreatorOwner}

Policies == {"PolicyNoForeignWrite", "PolicyOwned"}
CheckSecurity(sec, policy) ==
  /\ policy = "PolicyOwned" => checkOwner(sec.owner)
  /\ checkGrants(sec.grants)

-----------------------------------------------------------------------------
(* Objects of the file system.                                             *)

\* kind: what Lstat sees, which is what tells a path that redirects elsewhere.
Absent == [kind |-> "absent", sec |-> [owner |-> NoOwner, grants |-> {}]]
File(sec) == [kind |-> "file", sec |-> sec]
Directory(sec) == [kind |-> "directory", sec |-> sec]

CheckNotReparsePoint(object) == object.kind # "redirect"

\* Full control for the grantees and no other entry, inherited from nowhere, and the
\* owner it sets.
lockdownDACL == [present |-> TRUE, null |-> FALSE,
                 aces |-> {[allow |-> TRUE, sid |-> g, rights |-> Rights] : g \in LockdownGrantees}]
Lockdown == ReadSecurity([owner |-> "Administrators", dacl |-> lockdownDACL])

\* What an object is born with: its creator owns it and its directory's list is inherited.
Born(creator, parent) == [owner |-> creator, grants |-> parent.sec.grants]

\* What the gate of the starting service says of one object: an absent one has
\* nothing to be judged by.
checkSecurable(object, policy) ==
  /\ CheckNotReparsePoint(object)
  /\ object.kind # "absent" => CheckSecurity(object.sec, policy)

\* What the installer asks of a directory, which has to be there.
checkDirectoryGrants(object, policy) ==
  object.kind = "directory" /\ CheckSecurity(object.sec, policy)

-----------------------------------------------------------------------------
(* Where a lockdown may be aimed. A path is the sequence of what stands    *)
(* between its separators, in lower case: a share begins with two empty    *)
(* pieces, a trailing separator leaves an empty piece at the end.          *)

\* What stands before a leading and after a trailing separator.
Blank == ""
Drives == {"c:"}
SharedDirectories ==
  {<<"c:", "windows">>, <<"c:", "windows", "system32">>, <<"c:", "programdata">>, <<"c:", "program files">>,
   <<"c:", "program files (x86)">>, <<"c:", "users">>, <<"c:", "users", "public">>}

\* Without the separators at its end.
TrimmedRight(path) ==
  LET ends == {i \in 0..Len(path) : \A j \in 1..Len(path) : j > i => path[j] = Blank} IN
  SubSeq(path, 1, CHOOSE i \in ends : \A j \in ends : i <= j)

IsShare(path) == IsPrefix(<<Blank, Blank>>, path)
isDriveRooted(path) == path # <<>> /\ Head(path) \in Drives

\* Mutant: the long form of a path is taken for a share.
normalizeLocationAsIs(path) == TrimmedRight(path)

\* Of the long forms only that of a drive is recovered: \\?\UNC\... stays a share.
normalizeLocation(path) ==
  LET long == \E p \in {<<Blank, Blank, "?">>, <<Blank, Blank, ".">>} : IsPrefix(p, path)
      bare == IF long /\ isDriveRooted(SubSeq(path, 4, Len(path))) THEN SubSeq(path, 4, Len(path)) ELSE path IN
  IF IsShare(bare) THEN <<Blank, Blank>> \o TrimmedRight(SubSeq(bare, 3, Len(bare))) ELSE TrimmedRight(bare)

\* A volume, a server or a share of it, or one of the system's directories.
IsProtectedLocation(path) ==
  LET norm == normalizeLocation(path) IN
  \/ Len(norm) = 1 /\ Head(norm) \in Drives
  \/ IsShare(norm) /\ Len(norm) <= 4
  \/ norm \in SharedDirectories

\* Mutant: what is left of a file at the root of a volume is not a directory's path.
logDirOfBare(file) == IF Len(file) = 1 THEN <<".">> ELSE IF Len(file) = 2 THEN <<Blank>> ELSE Front(file)

\* The root of a volume keeps its separator.
logDirOf(file) ==
  IF Len(file) = 1 THEN <<".">>
  ELSE IF Len(file) = 2 /\ isDriveRooted(file) THEN <<Head(file), Blank>> ELSE Front(file)

\* What an installed service needs locked down, each with what may be missing.
SecurablesFor(config, store, log) ==
  {[path |-> config, directory |-> FALSE, optional |-> FALSE]}
    \cup {[path |-> s, directory |-> FALSE, optional |-> TRUE] : s \in store}
    \cup {[path |-> logDirOf(l), directory |-> TRUE, optional |-> FALSE] : l \in log}

CheckSecurables(targets) == \A t \in targets : t.directory => ~IsProtectedLocation(t.path)

-----------------------------------------------------------------------------
(* What Windows and the layout of a system make of the same.               *)

Entries == [allow: BOOLEAN, sid: {"SYSTEM", CreatorOwner, "Users"}, rights: {{"Read"}, {"WriteDac"}, {"Read", "DeleteChild"}}]
AccessLists == [present: BOOLEAN, null: BOOLEAN, aces: {e \in SUBSET Entries : Cardinality(e) <= 2}]
Descriptors == [owner: {NoOwner, "Administrators", "Operator"}, dacl: AccessLists]

\* Who Windows lets change an object: whoever an entry allows what no entry denies, and
\* its owner, who may always write the list; everybody, when there is no list.
MayChange(sd) ==
  {p \in LockdownGrantees \cup Outsiders :
     \/ p = sd.owner
     \/ ~sd.dacl.present \/ sd.dacl.null
     \/ \E r \in ChangingRights :
          /\ \E ace \in sd.dacl.aces : ace.allow /\ ace.sid = p /\ r \in ace.rights
          /\ ~\E ace \in sd.dacl.aces : ~ace.allow /\ ace.sid = p /\ r \in ace.rights}

\* What one descriptor is judged to be is what Windows makes of it. What passes the
\* strict policy is out of every outsider's reach, also through the ownership and through
\* a missing list; the lenient one leaves only the owner out of account; and neither
\* refuses an object only because somebody may read it.
JudgedAsItIs(sd) ==
  LET sec == ReadSecurity(sd)
      outside == MayChange(sd) \cap Outsiders IN
  /\ CheckSecurity(sec, "PolicyOwned") => sd.owner # NoOwner /\ outside = {}
  /\ CheckSecurity(sec, "PolicyNoForeignWrite") => outside \subseteq {sd.owner}
  /\ outside = {} /\ (\A ace \in sd.dacl.aces : ace.allow) /\ checkOwner(sd.owner)
       => CheckSecurity(sec, "PolicyOwned")

Places == [kind: {"drive"}, at: {<<>>, <<"windows">>, <<"windows", "system32">>, <<"windows", "own">>, <<"programdata">>,
                                 <<"programdata", "own">>, <<"own">>}]
            \cup [kind: {"share"}, at: {<<"host", "share">>, <<"host", "share", "own">>}]
\* How a file in such a place may be spelled.
Spellings(place, name) ==
  IF place.kind = "share" THEN {<<Blank, Blank>> \o place.at \o <<name>>}
  ELSE {p \o <<"c:">> \o place.at \o <<name>> : p \in {<<>>, <<Blank, Blank, "?">>, <<Blank, Blank, ".">>}}
IsShared(place) == place.at = <<>> \/ (place.kind = "drive" /\ <<"c:">> \o place.at \in SharedDirectories)
                    \/ (place.kind = "share" /\ Len(place.at) <= 2)

\* The directory that would be locked down for a log file is refused exactly if it belongs
\* to others too.
AimedAt(place, file) == CheckSecurables(SecurablesFor(<<"c:", "own", "config">>, {}, {file})) <=> ~IsShared(place)
=============================================================================
