------------------------------- MODULE MCSetup -------------------------------
\* Hosts as earlier runs, tokens minted by hand, upgrades and strangers leave them.
EXTENDS Setup

Program(copy, own) == [copy |-> copy, own |-> own]
Ran(copy, own) == [there |-> TRUE, command |-> Program(copy, own), has |-> Whole, marked |-> FALSE]
NotThere == [there |-> FALSE, command |-> Garbled, has |-> {}, marked |-> FALSE]

Safe == Directory([owner |-> "TrustedInstaller", grants |-> {[sid |-> "SYSTEM", canWrite |-> TRUE], [sid |-> "Users", canWrite |-> FALSE]}])
Wide == Directory([owner |-> "Operator", grants |-> {[sid |-> "Users", canWrite |-> TRUE]}])
Redirect == [kind |-> "redirect", sec |-> Wide.sec]
Kept == [dir |-> Directory(Lockdown), config |-> File(Lockdown), store |-> File(Lockdown)]
Nothing == [dir |-> Absent, config |-> Absent, store |-> Absent]

Disk(acl, content, binary) ==
  [acl |-> acl, content |-> content, key |-> "old", binary |-> binary, bindir |-> Safe, creator |-> "Operator"]
A(own, disk, store_, loaded_, reg_, state_) ==
  [own |-> own, host |-> disk, store |-> store_, loaded |-> loaded_, reg |-> reg_, state |-> state_,
   served |-> IF reg_.there THEN {"old"} ELSE {}]

Fresh == A(TRUE, Disk(Nothing, "absent", "absent"), {}, {}, NotThere, "stopped")
Precreated == A(TRUE, [Disk([Nothing EXCEPT !.dir = Wide], "absent", "absent") EXCEPT !.creator = "Administrators"], {}, {}, NotThere, "stopped")
Junction == A(TRUE, Disk([Nothing EXCEPT !.dir = Redirect], "absent", "absent"), {}, {}, NotThere, "stopped")
Done == A(TRUE, Disk(Kept, "good", "new"), {"usable"}, {"usable"}, Ran(TRUE, TRUE), "running")
Upgrade == A(TRUE, Disk(Kept, "good", "old"), {"usable"}, {"usable"}, Ran(TRUE, TRUE), "running")
DownUpgrade == A(TRUE, Disk(Kept, "good", "old"), {"usable"}, {}, Ran(TRUE, TRUE), "stopped")
NoStore == A(TRUE, Disk([Kept EXCEPT !.store = Absent], "good", "new"), {}, {"usable"}, Ran(TRUE, TRUE), "running")
Lapsed == A(TRUE, Disk(Kept, "good", "new"), {"expired"}, {}, Ran(TRUE, TRUE), "running")
Elsewhere == A(TRUE, Disk(Kept, "good", "new"), {"usable"}, {"usable"}, Ran(FALSE, FALSE), "running")
Wiped == A(TRUE, Disk(Nothing, "absent", "new"), {}, {"usable"}, Ran(TRUE, TRUE), "running")
Unreadable == A(TRUE, Disk(Kept, "good", "new"), {"usable"}, {"usable"}, [Ran(TRUE, TRUE) EXCEPT !.command = Garbled], "stopped")
Brought == A(FALSE, Disk([dir |-> Wide, config |-> File(Wide.sec), store |-> Absent], "good", "absent"), {}, {}, NotThere, "stopped")
Open == A(FALSE, Disk([dir |-> Wide, config |-> File(Wide.sec), store |-> Absent], "noAuth", "absent"), {}, {}, NotThere, "stopped")
Differs == A(TRUE, Disk(Kept, "other", "new"), {"usable"}, {"usable"}, Ran(TRUE, TRUE), "running")
Exposed == [Fresh EXCEPT !.host.bindir = Wide]
BroughtAstray == [Brought EXCEPT !.host.acl["dir"] = Redirect]

MCHosts == {Exposed, BroughtAstray, Fresh, Precreated, Junction, Done, Upgrade, DownUpgrade, NoStore, Lapsed, Elsewhere, Wiped, Unreadable, Brought, Open, Differs}

Plain == [dry |-> FALSE, restart |-> FALSE, reinstall |-> FALSE, copy |-> TRUE, own |-> TRUE, key |-> "none", out |-> FALSE]
MCFlags == {Plain, [Plain EXCEPT !.key = "generate", !.out = TRUE], [Plain EXCEPT !.key = "generate", !.restart = TRUE, !.reinstall = TRUE],
            [Plain EXCEPT !.restart = TRUE], [Plain EXCEPT !.reinstall = TRUE], [Plain EXCEPT !.dry = TRUE],
            [Plain EXCEPT !.copy = FALSE, !.own = FALSE]}

\* For the two runs that look for one behaviour each.
RerunHosts == {NoStore}
RerunFlags == {[Plain EXCEPT !.restart = TRUE]}
ReinstallHosts == {Elsewhere}
ReinstallFlags == {[Plain EXCEPT !.reinstall = TRUE, !.restart = TRUE]}

MCCallers == {"setup", "admin"}
MCCommands == [copy: BOOLEAN, own: BOOLEAN]
=============================================================================
