----------------------------- MODULE HttpServer -----------------------------
(***************************************************************************)
(* The serving half of the process: runWith up to the server, and          *)
(* httpserver.Server.Run with its drain.                                   *)
(*                                                                         *)
(* Two goroutines: the one running Run, and the one running                *)
(* http.Server.Serve, joined by the one-slot channel errCh. net/http is    *)
(* external: after Shutdown begins it accepts nothing more, Serve then     *)
(* returns ErrServerClosed, and Shutdown returns when no request is in     *)
(* flight or when its context expires.                                     *)
(***************************************************************************)
EXTENDS Naturals

CONSTANTS
  ShutdownGrace,  \* WithShutdownGrace: how long the drain may take
  MaxInFlight     \* bound: requests in handlers at once

VARIABLES
  at,        \* where the serving goroutine is
  cancelled, \* the context it was given is cancelled
  accept,    \* the Serve goroutine: "none", "new", "accepting", "returned"
  errCh,     \* "empty", or what Serve sent: "failed", "closed" (read only once)
  shutdown,  \* Shutdown has been called
  shutdownErr, \* what Shutdown returned: "none", "nil", "expired"
  inFlight,  \* connections net/http does not count as idle
  grace,     \* time since the drain began
  emitted,   \* SYS lifecycle events emitted so far
  returned   \* what Run returned: "none", "nil", "startup", "serve", "incomplete"

acceptVars == <<accept, errCh>>
vars == <<at, cancelled, acceptVars, shutdown, shutdownErr, inFlight, grace, emitted, returned>>

Init ==
  /\ at = "wiring" /\ cancelled = FALSE
  /\ accept = "none" /\ errCh = "empty"
  /\ shutdown = FALSE /\ shutdownErr = "none"
  /\ inFlight = 0 /\ grace = 0
  /\ emitted = {} /\ returned = "none"

-----------------------------------------------------------------------------
(* Startup.                                                                 *)

return(what) == at' = "done" /\ returned' = what

\* runWith fails before there is a server: configuration, file security, the log,
\* the token store. SYS-001 may or may not have been emitted by then.
WiringFails ==
  /\ at = "wiring"
  /\ return("startup")
  /\ \E up \in SUBSET {"SYS-001"} : emitted' = emitted \cup up
  /\ UNCHANGED <<cancelled, acceptVars, shutdown, shutdownErr, inFlight, grace>>

Wire ==
  /\ at = "wiring"
  /\ at' = "binding" /\ emitted' = emitted \cup {"SYS-001"}
  /\ UNCHANGED <<cancelled, acceptVars, shutdown, shutdownErr, inFlight, grace, returned>>

BindFails ==
  /\ at = "binding"
  /\ return("startup")
  /\ UNCHANGED <<cancelled, acceptVars, shutdown, shutdownErr, inFlight, grace, emitted>>

\* The listener is bound, SYS-002 emitted; ready() is next.
Bind ==
  /\ at = "binding"
  /\ at' = "bound" /\ emitted' = emitted \cup {"SYS-002"}
  /\ UNCHANGED <<cancelled, acceptVars, shutdown, shutdownErr, inFlight, grace, returned>>

\* ready() is called and the Serve goroutine spawned.
Announce ==
  /\ at = "bound"
  /\ at' = "serving" /\ accept' = "new"
  /\ UNCHANGED <<cancelled, errCh, shutdown, shutdownErr, inFlight, grace, emitted, returned>>

-----------------------------------------------------------------------------
(* http.Server.Serve and the handlers (net/http).                           *)

ServeReturns(what) ==
  /\ accept' = "returned" /\ errCh' = what
  /\ UNCHANGED <<at, cancelled, shutdown, shutdownErr, inFlight, grace, emitted, returned>>

\* Serve starts accepting, unless Shutdown came first.
Accepting ==
  /\ accept = "new" /\ ~shutdown
  /\ accept' = "accepting"
  /\ UNCHANGED <<at, cancelled, errCh, shutdown, shutdownErr, inFlight, grace, emitted, returned>>

\* Accept fails for good while nobody is shutting the server down.
AcceptFails == accept = "accepting" /\ ~shutdown /\ ServeReturns("failed")

\* Shutdown closed the listener.
ServeClosed == accept \in {"new", "accepting"} /\ shutdown /\ ServeReturns("closed")

\* On a new connection, or on one kept alive, which outlives a failed listener.
Arrive ==
  /\ accept \in {"accepting", "returned"} /\ ~shutdown
  /\ inFlight < MaxInFlight
  /\ inFlight' = inFlight + 1
  /\ UNCHANGED <<at, cancelled, acceptVars, shutdown, shutdownErr, grace, emitted, returned>>

Complete ==
  /\ inFlight > 0
  /\ inFlight' = inFlight - 1
  /\ UNCHANGED <<at, cancelled, acceptVars, shutdown, shutdownErr, grace, emitted, returned>>

-----------------------------------------------------------------------------
(* Run, once it serves.                                                     *)

\* case err = <-errCh
ServeEnded ==
  /\ at = "serving" /\ errCh # "empty"
  /\ return(IF errCh = "closed" THEN "nil" ELSE "serve")
  /\ UNCHANGED <<cancelled, acceptVars, shutdown, shutdownErr, inFlight, grace, emitted>>

\* case <-ctx.Done(): SYS-003, then Shutdown is called on a fresh deadline.
BeginDrain ==
  /\ at = "serving" /\ cancelled
  /\ at' = "draining" /\ shutdown' = TRUE
  /\ emitted' = emitted \cup {"SYS-003"}
  /\ UNCHANGED <<cancelled, acceptVars, shutdownErr, inFlight, grace, returned>>

\* Shutdown returns: everything is idle, or the grace period is over.
ShutdownReturns(err) ==
  /\ at = "draining"
  /\ at' = "drained" /\ shutdownErr' = err
  /\ UNCHANGED <<cancelled, acceptVars, shutdown, inFlight, grace, emitted, returned>>

\* Mutant: Shutdown is given the context that is already cancelled.
GraceExpiredAtOnce == ShutdownReturns("expired")

Drained == inFlight = 0 /\ ShutdownReturns("nil")
GraceExpired == grace = ShutdownGrace /\ ShutdownReturns("expired")

\* Mutant: what Serve sent is read and dropped.
FinishDrainForgetful ==
  /\ at = "drained" /\ errCh # "empty"
  /\ return(IF shutdownErr = "expired" THEN "incomplete" ELSE "nil")
  /\ emitted' = emitted \cup {IF shutdownErr = "expired" THEN "SYS-007" ELSE "SYS-004"}
  /\ UNCHANGED <<cancelled, acceptVars, shutdown, shutdownErr, inFlight, grace>>

\* serveErr := <-errCh, and the outcome of the drain.
FinishDrain ==
  /\ at = "drained" /\ errCh # "empty"
  /\ \/ /\ shutdownErr = "expired"
        /\ emitted' = emitted \cup {"SYS-007"}
        /\ return("incomplete")
     \/ /\ shutdownErr = "nil"
        /\ emitted' = emitted \cup {"SYS-004"}
        /\ return(IF errCh = "closed" THEN "nil" ELSE "serve")
  /\ UNCHANGED <<cancelled, acceptVars, shutdown, shutdownErr, inFlight, grace>>

\* The drain's clock runs while Shutdown waits. It polls, so it may notice late
\* that the last request is gone, or not at all before the grace is over.
Elapse ==
  /\ at = "draining" /\ grace < ShutdownGrace
  /\ grace' = grace + 1
  /\ UNCHANGED <<at, cancelled, acceptVars, shutdown, shutdownErr, inFlight, emitted, returned>>

\* Whoever owns the context cancels it.
Cancel ==
  /\ ~cancelled /\ cancelled' = TRUE
  /\ UNCHANGED <<at, acceptVars, shutdown, shutdownErr, inFlight, grace, emitted, returned>>

Return == WiringFails \/ BindFails \/ ServeEnded \/ FinishDrain
Progress == Wire \/ Bind \/ Accepting \/ ServeClosed \/ BeginDrain \/ Drained \/ GraceExpired
Traffic == AcceptFails \/ Arrive \/ Complete

Next == Return \/ Announce \/ Progress \/ Traffic \/ Elapse \/ Cancel

Spec == Init /\ [][Next]_vars
-----------------------------------------------------------------------------
(* Correctness.                                                             *)

\* Every variable keeps its type (Run, and the channels it shares with Serve).
TypeOK ==
  /\ at \in {"wiring", "binding", "bound", "serving", "draining", "drained", "done"}
  /\ cancelled \in BOOLEAN /\ shutdown \in BOOLEAN
  /\ accept \in {"none", "new", "accepting", "returned"}
  /\ errCh \in {"empty", "failed", "closed"}
  /\ shutdownErr \in {"none", "nil", "expired"}
  /\ inFlight \in 0 .. MaxInFlight /\ grace \in 0 .. ShutdownGrace
  /\ emitted \subseteq {"SYS-001", "SYS-002", "SYS-003", "SYS-004", "SYS-007"}
  /\ returned \in {"none", "nil", "startup", "serve", "incomplete"}

\* A request that is cut off had the whole grace period to finish, unless Serve
\* itself failed (Shutdown runs on a fresh deadline, not on the cancelled one).
CutOffOnlyAfterGrace ==
  at = "done" /\ inFlight > 0 => returned = "serve" \/ grace = ShutdownGrace
=============================================================================
