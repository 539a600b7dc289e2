--------------------------- MODULE ServiceManager ---------------------------
(***************************************************************************)
(* The Manager of the service subcommand and of setup, against the Service *)
(* Control Manager: what is registered, how far a registration has come,   *)
(* and the state of the one process, while several callers work on them.   *)
(*                                                                         *)
(* Each Manager call opens one handle, takes its steps through it and      *)
(* closes it. Names, display texts and delays are left out. What a process *)
(* makes of its start is the business of the module that extends this one. *)
(***************************************************************************)
EXTENDS Naturals, FiniteSets, Sequences

CONSTANTS Callers,   \* processes that may be inside a Manager call
          Commands,  \* command lines that can be registered
          Garbled,   \* a registered command line that cannot be read back
          MaxFaults  \* how many things may go wrong in one behaviour

ASSUME ManagerAssumption == IsFiniteSet(Callers) /\ Garbled \notin Commands /\ MaxFaults \in Nat

VARIABLES reg,     \* the registration
          source,  \* is the Event Log source registered?
          state,   \* of the process, as the SCM knows it
          due,     \* will the SCM restart the process?
          calls,   \* the Manager call each caller is in
          faults   \* what may still go wrong

mgrVars == <<reg, source, state, due, calls, faults>>

\* What Install configures after CreateService, in its order, and the source.
Pieces == <<"actions", "flag", "budget">>
Whole == {"actions", "flag", "budget"}

Unregistered == [there |-> FALSE, command |-> Garbled, has |-> {}, marked |-> FALSE]
Registered(command, has) == [there |-> TRUE, command |-> command, has |-> has, marked |-> FALSE]

States == {"stopped", "starting", "running", "stopping"}
Ops == {"install", "uninstall", "start", "stop"}
Errs == {"none", "absent", "exists", "failed", "timeout"}
Stages == {"open", "create", "actions", "flag", "budget", "log", "send", "wait", "delete", "source", "done"}
Idle == [op |-> "none", at |-> "done", command |-> Garbled, err |-> "none"]

ManagerTypeOK ==
  /\ reg \in [there: BOOLEAN, command: Commands \cup {Garbled}, has: SUBSET Whole, marked: BOOLEAN]
  /\ source \in BOOLEAN /\ state \in States /\ due \in BOOLEAN /\ faults \in 0..MaxFaults
  /\ calls \in [Callers -> [op: Ops \cup {"none"}, at: Stages, command: Commands \cup {Garbled}, err: Errs]]

-----------------------------------------------------------------------------
Inside(c) == calls[c].op # "none" /\ calls[c].at # "done"
Returned(c) == calls[c].op # "none" /\ calls[c].at = "done"

\* A handle is held from the step that opens or creates the service to the last on it; the
\* last one on a service marked for deletion takes the registration with it, once its
\* process is gone.
Holds(cs, c) == cs[c].op # "none" /\ cs[c].at \notin {"open", "create", "done", "source"}
Left(r, cs, s) == IF r.marked /\ s = "stopped" /\ \A c \in Callers : ~Holds(cs, c) THEN Unregistered ELSE r

\* The part of a Manager step that moves the call; gone handles are seen here.
Move(c, at, err) == calls' = [calls EXCEPT ![c].at = at, ![c].err = err]
End(c, err) == Move(c, "done", err)

Begin(c, op, command) == calls' = [calls EXCEPT ![c] = [op |-> op, at |-> "open", command |-> command, err |-> "none"]]
Leave(c) == calls' = [calls EXCEPT ![c] = Idle]

-----------------------------------------------------------------------------
(* Install.                                                                *)

OpenToInstall(c) ==
  /\ calls[c].op = "install" /\ calls[c].at = "open"
  /\ IF reg.there THEN End(c, "exists") ELSE Move(c, "create", "none")
  /\ UNCHANGED <<reg, source, state, due, faults>>

\* A registration made since the look, by whatever hand, makes the creation fail.
Create(c) ==
  /\ calls[c].op = "install" /\ calls[c].at = "create"
  /\ IF reg.there THEN End(c, "failed") /\ UNCHANGED reg
     ELSE Move(c, "actions", "none") /\ reg' = Registered(calls[c].command, {})
  /\ UNCHANGED <<source, state, due, faults>>

NextPiece(at) == CASE at = "actions" -> "flag" [] at = "flag" -> "budget" [] at = "budget" -> "log"

\* The recovery actions, the flag without which they never fire, and the budget.
Configure(c) ==
  /\ calls[c].op = "install" /\ calls[c].at \in Whole /\ ~reg.marked
  /\ reg' = [reg EXCEPT !.has = @ \cup {calls[c].at}]
  /\ Move(c, NextPiece(calls[c].at), "none")
  /\ UNCHANGED <<source, state, due, faults>>

InstallSource(c) ==
  /\ calls[c].op = "install" /\ calls[c].at = "log"
  /\ source' = TRUE /\ End(c, "none")
  /\ reg' = Left(reg, calls', state)
  /\ UNCHANGED <<state, due, faults>>

\* Mutant: a service that could not be configured is left as it is.
RollBackNot(c) ==
  /\ calls[c].op = "install" /\ calls[c].at \in Whole \cup {"log"} /\ End(c, "failed")
  /\ faults > 0 /\ faults' = faults - 1
  /\ UNCHANGED <<reg, source, state, due>>

\* A failure after the creation takes the service back; that Delete can fail too,
\* and its result is not looked at.
RollBack(c) ==
  /\ calls[c].op = "install" /\ calls[c].at \in Whole \cup {"log"} /\ End(c, "failed")
  /\ \/ reg.marked /\ UNCHANGED faults
     \/ faults > 0 /\ faults' = faults - 1
  /\ reg' = Left([reg EXCEPT !.marked = TRUE], calls', state)
  /\ UNCHANGED <<source, state, due>>

DeleteFails(c) ==
  /\ calls[c].op = "install" /\ calls[c].at \in Whole \cup {"log"} /\ End(c, "failed")
  /\ faults > 1 /\ faults' = faults - 2
  /\ UNCHANGED <<reg, source, state, due>>

-----------------------------------------------------------------------------
(* Stop, and the stop that opens Uninstall.                                *)

Stopping(c) == calls[c].op \in {"stop", "uninstall"}
AfterStop(c) == IF calls[c].op = "uninstall" THEN "delete" ELSE "done"

OpenToStop(c) ==
  /\ Stopping(c) /\ calls[c].at = "open"
  /\ CASE reg.there -> Move(c, IF state = "stopped" THEN AfterStop(c) ELSE "send", "none")
       [] ~reg.there -> IF calls[c].op = "uninstall" THEN Move(c, "source", "none") ELSE End(c, "absent")
  /\ UNCHANGED <<reg, source, state, due, faults>>

\* A running service takes the stop. NOT_ACTIVE and CANNOT_ACCEPT_CTRL are taken
\* to mean that it is stopping anyway, which a starting service is not.
SendStop(c) ==
  /\ Stopping(c) /\ calls[c].at = "send"
  /\ state' = IF state = "running" THEN "stopping" ELSE state
  /\ Move(c, "wait", "none")
  /\ UNCHANGED <<reg, source, due, faults>>

WaitStopped(c) ==
  /\ Stopping(c) /\ calls[c].at = "wait" /\ state = "stopped"
  /\ Move(c, AfterStop(c), "none") /\ reg' = Left(reg, calls', state)
  /\ UNCHANGED <<source, state, due, faults>>

\* The refused stop of a service that then came up is waited for to the end.
StopTimesOut(c) ==
  /\ Stopping(c) /\ calls[c].at = "wait" /\ state = "running"
  /\ End(c, "timeout") /\ reg' = Left(reg, calls', state)
  /\ UNCHANGED <<source, state, due, faults>>

Delete(c) ==
  /\ calls[c].op = "uninstall" /\ calls[c].at = "delete"
  /\ IF reg.marked THEN End(c, "failed") ELSE Move(c, "source", "none")
  /\ reg' = Left([reg EXCEPT !.marked = TRUE], calls', state)
  /\ due' = FALSE
  /\ UNCHANGED <<source, state, faults>>

RemoveSource(c) ==
  /\ calls[c].op = "uninstall" /\ calls[c].at = "source"
  /\ source' = FALSE /\ End(c, "none")
  /\ UNCHANGED <<reg, state, due, faults>>

-----------------------------------------------------------------------------
(* Start.                                                                  *)

OpenToStart(c) ==
  /\ calls[c].op = "start" /\ calls[c].at = "open"
  /\ CASE ~reg.there -> End(c, "absent")
       [] reg.there -> IF state = "running" THEN End(c, "none") ELSE Move(c, "send", "none")
  /\ UNCHANGED <<reg, source, state, due, faults>>

\* ALREADY_RUNNING is what was wanted, whatever the process is on its way to.
SendStart(c) ==
  /\ calls[c].op = "start" /\ calls[c].at = "send"
  /\ IF reg.marked /\ state = "stopped" THEN End(c, "failed") /\ UNCHANGED state
     ELSE Move(c, "wait", "none") /\ state' = IF state = "stopped" THEN "starting" ELSE state
  /\ reg' = Left(reg, calls', state')
  /\ UNCHANGED <<source, due, faults>>

WaitRunning(c) ==
  /\ calls[c].op = "start" /\ calls[c].at = "wait" /\ state \in {"running", "stopped"}
  /\ End(c, IF state = "running" THEN "none" ELSE "failed")
  /\ reg' = Left(reg, calls', state)
  /\ UNCHANGED <<source, state, due, faults>>

ManagerStep(c) ==
  \/ OpenToInstall(c) \/ Create(c) \/ Configure(c) \/ InstallSource(c) \/ RollBack(c)
  \/ OpenToStop(c) \/ SendStop(c) \/ WaitStopped(c) \/ StopTimesOut(c) \/ Delete(c) \/ RemoveSource(c)
  \/ OpenToStart(c) \/ SendStart(c) \/ WaitRunning(c)

-----------------------------------------------------------------------------
(* The SCM and the process.                                                *)

ComesUp == state = "starting" /\ state' = "running" /\ UNCHANGED <<reg, source, due, calls, faults>>

\* A start that is refused reports Stopped with a code: only the flag makes the
\* recovery actions apply to that.
GoesDown ==
  /\ state = "starting" /\ state' = "stopped"
  /\ due' = (~reg.marked /\ {"actions", "flag"} \subseteq reg.has)
  /\ reg' = Left(reg, calls, "stopped")
  /\ UNCHANGED <<source, calls, faults>>

Drained ==
  /\ state = "stopping" /\ state' = "stopped" /\ due' = FALSE
  /\ reg' = Left(reg, calls, "stopped")
  /\ UNCHANGED <<source, calls, faults>>

Dies ==
  /\ state \in {"running", "stopping"} /\ state' = "stopped"
  /\ faults > 0 /\ faults' = faults - 1
  /\ due' = (~reg.marked /\ "actions" \in reg.has)
  /\ reg' = Left(reg, calls, "stopped")
  /\ UNCHANGED <<source, calls>>

Restart ==
  /\ due /\ reg.there /\ due' = FALSE
  /\ state' = IF state = "stopped" THEN "starting" ELSE state
  /\ UNCHANGED <<reg, source, calls, faults>>
=============================================================================
