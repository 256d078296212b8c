--------------------------- MODULE ServiceStartup ---------------------------
(***************************************************************************)
(* How processes agree on one daemon (service.ts, daemon.ts): a caller of  *)
(* ensureRunning uses the daemon that answers on the control socket, or    *)
(* takes the startup lock of StartupLock and starts one in its own         *)
(* process, after stopping an idle daemon of an incompatible protocol.     *)
(* `proxy stop` and signals stop a daemon.                                 *)
(*                                                                         *)
(* Three things outside the lock tell of a daemon: the listening ports,    *)
(* the control socket and the state file.  Each await between looking at   *)
(* one and acting on it is a step of its own.  A process hosts one daemon. *)
(* Who takes part in a behaviour, and in which role, is its cast.          *)
(***************************************************************************)
EXTENDS StartupLock

CONSTANTS
  Casts,    \* the casts of the behaviours: see Cast
  Nobody    \* the value of port, socket and stateFile that no daemon has taken

Cast == [callers : SUBSET Process,         \* processes that call ensureRunning
         stoppers : SUBSET Process,        \* processes that run `proxy stop`
         old : Process \cup {Nobody},      \* the host of an incompatible daemon, at first
         exits : BOOLEAN,                  \* may processes of MayExit exit?
         signals : BOOLEAN,                \* may hosts get SIGTERM?
         routes : BOOLEAN,                 \* do daemons get routes?
         faults : BOOLEAN]                 \* may binding, writing and answering fail?

ASSUME StartupAssumption == Depth = 1 /\ Casts \subseteq Cast /\ Nobody \notin Process

VARIABLES
  cast,       \* who takes part
  at,         \* per process: where in ensureRunning or stopIfIdle it is
  control,    \* the daemons whose control server accepts connections
  port,       \* the daemon that holds the ports of the proxy
  socket,     \* the daemon whose socket file is at the control path
  stateFile,  \* the daemon that the state file describes
  routes,     \* the daemons with active routes
  stops,      \* per daemon: granted and signalled stops that have not begun, at most two
  stopping,   \* per daemon: where its stop() is
  seen,       \* per process: the daemon whose answer it last got
  untidy      \* history: a stop() ran while another, or the start, was in progress

world == <<cast, control, port, socket, stateFile, routes, stops, stopping, seen, untidy>>
svars == <<at, world>>
allVars == <<vars, svars>>

Places == {"out", "probe", "state", "lookForLock", "lock", "replace", "ask", "awaitMissing",
           "awaitFile", "assert", "bind4", "bind6", "listen", "write", "rename", "undo",
           "verify", "status"}

StartupTypeOK ==
  /\ TypeOK
  /\ cast \in Casts
  /\ at \in [Process -> Places]
  /\ control \subseteq Process /\ routes \subseteq control /\ untidy \in BOOLEAN
  /\ {port, socket, stateFile} \subseteq Process \cup {Nobody}
  /\ stops \in [Process -> 0..2]
  /\ stopping \in [Process -> {"no", "socket", "listeners", "file"}]
  /\ seen \in [Process -> Process \cup {Nobody}]

StartupInit ==
  /\ Init
  /\ cast \in Casts
  /\ at = [p \in Process |-> "out"]
  /\ control = {cast.old} \ {Nobody}
  /\ port = cast.old /\ socket = cast.old /\ stateFile = cast.old
  /\ routes \in IF cast.routes THEN SUBSET control ELSE {{}}
  /\ stops = [p \in Process |-> 0]
  /\ stopping = [p \in Process |-> "no"]
  /\ seen = [p \in Process |-> Nobody]
  /\ untidy = FALSE

At(p, place) == at' = [at EXCEPT ![p] = place]

Compatible(d) == d # cast.old

\* The daemons that answer at the control path: one, or none.
Reachable == {socket} \cap control

\* The call returns or throws: from under the lock, from before it, or from a
\* command that takes no lock.
Return(p) ==
  /\ At(p, "out")
  /\ \/ EndOperation(p)
     \/ pc[p] = "trying" /\ GoTo(p, "idle") /\ UNCHANGED <<file, held, contents, age, everOld>>
     \/ pc[p] = "idle" /\ UNCHANGED vars

-----------------------------------------------------------------------------
(* Entering the lock.                                                      *)

Call(p) ==
  /\ p \in cast.callers
  /\ at[p] = "out" /\ p \notin control /\ stopping[p] = "no" /\ stops[p] = 0
  /\ Start(p)
  /\ At(p, "probe")
  /\ UNCHANGED world

TakeLock(p) ==
  /\ at[p] = "lock"
  /\ \/ CreateLock(p) \/ LockExists(p) \/ ReadContents(p) \/ ReadAge(p)
     \/ cast.faults /\ FailWrite(p)
  /\ UNCHANGED svars

EnterLock(p) ==
  /\ at[p] = "lock"
  /\ WriteLock(p)
  /\ At(p, "probe")
  /\ UNCHANGED world

\* After a look at somebody else's lock the loop begins again, at the probe.
LookedAtLock(p) ==
  /\ LockVanished(p) \/ Decide(p) \/ ClearStaleLock(p)
  /\ At(p, IF pc'[p] = "trying" THEN "probe" ELSE at[p])
  /\ UNCHANGED world

\* The deadline, looked at before the next attempt: STARTUP_TIMEOUT.
GiveUp(p) ==
  /\ pc[p] = "trying" /\ at[p] = "probe"
  /\ Return(p)
  /\ UNCHANGED world

LeaveLock(p) ==
  /\ ReleaseLock(p) \/ RemoveUnwritten(p)
  /\ At(p, "out")
  /\ UNCHANGED world

-----------------------------------------------------------------------------
(* #readHealthyState, before the lock and again under it.                  *)

NotHealthy(p) ==
  At(p, IF pc[p] = "running" THEN "replace" ELSE "lock") /\ UNCHANGED vars

ProbeMissing(p) ==
  /\ at[p] = "probe" /\ Reachable = {}
  /\ NotHealthy(p)
  /\ UNCHANGED world

ProbeAnswered(p) ==
  /\ at[p] = "probe"
  /\ \E d \in Reachable :
       /\ seen' = [seen EXCEPT ![p] = d]
       /\ CASE Compatible(d) -> At(p, "state") /\ UNCHANGED vars
            [] ~Compatible(d) /\ d \in routes -> Return(p)       \* INCOMPATIBLE_ACTIVE_DAEMON
            [] OTHER -> NotHealthy(p)
  /\ UNCHANGED <<cast, control, port, socket, stateFile, routes, stops, stopping, untidy>>

\* The daemon accepts the connection and does not answer in time, or not in the
\* protocol: UNRELATED_LISTENER, whatever the probe is for.
ProbeUnrelated(p) ==
  /\ cast.faults
  /\ at[p] \in {"probe", "replace", "status"} /\ Reachable # {}
  /\ Return(p)
  /\ UNCHANGED world

\* The state that the call returns is the one in the file now.
ReturnState(p) ==
  /\ at[p] = "state" /\ stateFile # Nobody
  /\ Return(p)
  /\ UNCHANGED world

NoState(p) ==
  /\ at[p] = "state" /\ stateFile = Nobody
  /\ At(p, "lookForLock")
  /\ UNCHANGED <<vars, world>>

\* Without a state the daemon counts as starting while the lock is there, and
\* otherwise as broken: INVALID_STATE.
LookForLock(p) ==
  /\ at[p] = "lookForLock"
  /\ IF file[1] # NoFile THEN NotHealthy(p) ELSE Return(p)
  /\ UNCHANGED world

-----------------------------------------------------------------------------
(* Stopping a daemon through its control socket: stopIfIdle of any process, *)
(* #replaceIdleIncompatibleDaemon under the lock, both by requestIdleStop   *)
(* and #waitForStop.                                                        *)

Status(p) ==
  /\ p \in cast.stoppers
  /\ at[p] = "out" /\ pc[p] = "idle"
  /\ At(p, "status")
  /\ UNCHANGED <<vars, world>>

\* Nothing to stop, or routes that are active: ROUTES_ACTIVE.
NothingToStop(p) ==
  /\ at[p] = "status" /\ Reachable \subseteq routes
  /\ Return(p)
  /\ UNCHANGED world

NothingToReplace(p) ==
  /\ at[p] = "replace" /\ \A d \in Reachable : Compatible(d)
  /\ At(p, "assert")
  /\ UNCHANGED <<vars, world>>

ReplaceRefused(p) ==
  /\ at[p] = "replace" /\ \E d \in Reachable : ~Compatible(d) /\ d \in routes
  /\ Return(p)
  /\ UNCHANGED world

WillAsk(p) ==
  /\ \E d \in Reachable \ routes : at[p] = "status" \/ (at[p] = "replace" /\ ~Compatible(d))
  /\ At(p, "ask")
  /\ UNCHANGED <<vars, world>>

\* The daemon grants the request.  The caller may give up on the answer while
\* the stop goes on: STOP_TIMEOUT.
AskGranted(p) ==
  /\ at[p] = "ask"
  /\ \E d \in Reachable \ routes :
       /\ stops[d] < 2
       /\ stops' = [stops EXCEPT ![d] = @ + 1]
  /\ \/ At(p, "awaitMissing") /\ UNCHANGED vars
     \/ cast.faults /\ Return(p)
  /\ UNCHANGED <<cast, control, port, socket, stateFile, routes, stopping, seen, untidy>>

\* It is gone already, or it has routes by now: ROUTES_ACTIVE.
AskInVain(p) ==
  /\ at[p] = "ask" /\ Reachable \subseteq routes
  /\ IF Reachable = {} THEN At(p, "awaitMissing") /\ UNCHANGED vars ELSE Return(p)
  /\ UNCHANGED world

SeenMissing(p) ==
  /\ at[p] = "awaitMissing" /\ Reachable = {}
  /\ At(p, "awaitFile")
  /\ UNCHANGED <<vars, world>>

\* Mistake to be caught: a daemon that does not answer counts as stopped.
MissingIsStopped(p) ==
  /\ at[p] = "awaitFile"
  /\ IF pc[p] = "running" THEN At(p, "bind4") /\ UNCHANGED vars ELSE Return(p)
  /\ UNCHANGED world

\* The state file is the last thing a daemon removes.
SeenStopped(p) ==
  /\ at[p] = "awaitFile"
  /\ CASE stateFile # Nobody -> At(p, "awaitMissing") /\ UNCHANGED vars
       [] stateFile = Nobody /\ pc[p] = "running" -> At(p, "bind4") /\ UNCHANGED vars
       [] OTHER -> Return(p)
  /\ UNCHANGED world

\* STOP_TIMEOUT.
TiredOfWaiting(p) ==
  /\ at[p] = "awaitMissing"
  /\ Return(p)
  /\ UNCHANGED world

-----------------------------------------------------------------------------
(* Starting the daemon, under the lock.                                    *)

\* Mistake to be caught: a state file is taken for a leftover.
AssertNothing(p) ==
  at[p] = "assert" /\ At(p, "bind4") /\ UNCHANGED <<vars, world>>

\* #assertNoLiveUnhealthyDaemon: UNHEALTHY_DAEMON while the process in the
\* state file is running.
AssertNoneLive(p) ==
  /\ at[p] = "assert"
  /\ IF stateFile \in Process \ exited THEN Return(p) ELSE At(p, "bind4") /\ UNCHANGED vars
  /\ UNCHANGED world

BindIPv4(p) ==
  /\ at[p] = "bind4" /\ port = Nobody
  /\ port' = p
  /\ At(p, "bind6")
  /\ UNCHANGED <<vars, cast, control, socket, stateFile, routes, stops, stopping, seen, untidy>>

BindIPv6(p) ==
  /\ at[p] = "bind6"
  /\ At(p, "listen")
  /\ UNCHANGED <<vars, world>>

\* start() failed: it runs stop() and throws.  The control server, if it has
\* got that far, is stopped first.
FailStart(p, from) ==
  /\ At(p, "undo")
  /\ control' = control \ {p}
  /\ routes' = routes \ {p}
  /\ stopping' = [stopping EXCEPT ![p] = from]
  /\ untidy' = (untidy \/ stopping[p] # "no")

\* Preparing it fails: the directories, the authority, the bootstrap certificate.
\* Nothing has been touched, and stop() is not called.
PrepareFails(p) ==
  /\ cast.faults
  /\ at[p] = "bind4"
  /\ Return(p)
  /\ UNCHANGED world

\* The address is in use or not permitted.  A listener on IPv4 alone is closed.
BindFails(p) ==
  /\ \/ at[p] = "bind4" /\ (cast.faults \/ port # Nobody) /\ port' = port
     \/ at[p] = "bind6" /\ cast.faults /\ port' = Nobody
  /\ FailStart(p, "file")
  /\ UNCHANGED <<vars, cast, socket, stateFile, stops, seen>>

\* prepareSocketPath removes a socket file that nobody answers at.
Listen(p) ==
  /\ at[p] = "listen" /\ Reachable = {}
  /\ socket' = p
  /\ control' = control \cup {p}
  /\ At(p, "write")
  /\ UNCHANGED <<vars, cast, port, stateFile, routes, stops, stopping, seen, untidy>>

\* Somebody answers at the control path, or listening fails otherwise.
ListenFails(p) ==
  /\ at[p] = "listen" /\ (cast.faults \/ Reachable # {})
  /\ FailStart(p, "socket")
  /\ UNCHANGED <<vars, cast, port, socket, stateFile, stops, seen>>

\* The temporary state file is written, then renamed.
WriteState(p) ==
  /\ at[p] = "write"
  /\ At(p, "rename")
  /\ UNCHANGED <<vars, world>>

RenameState(p) ==
  /\ at[p] = "rename"
  /\ stateFile' = p
  /\ At(p, "verify")
  /\ UNCHANGED <<vars, cast, control, port, socket, routes, stops, stopping, seen, untidy>>

WriteFails(p) ==
  /\ cast.faults
  /\ at[p] \in {"write", "rename"} /\ stopping[p] = "no"
  /\ FailStart(p, "socket")
  /\ UNCHANGED <<vars, cast, port, socket, stateFile, stops, seen>>

\* The daemon is stopped before start() has put its state together.
StartInterrupted(p) ==
  /\ at[p] = "write" /\ p \notin control
  /\ stateFile' = Nobody
  /\ Return(p)
  /\ UNCHANGED <<cast, control, port, socket, routes, stops, stopping, seen, untidy>>

StartFailed(p) ==
  /\ at[p] = "undo" /\ stopping[p] = "no"
  /\ Return(p)
  /\ UNCHANGED world

\* The last probe; when nothing compatible answers: START_FAILED.
Verify(p) ==
  /\ at[p] = "verify"
  /\ Return(p)
  /\ UNCHANGED world

-----------------------------------------------------------------------------
(* LocalTlsDaemon.stop.                                                    *)

\* stopOwnedService: SIGTERM to the host of a daemon it started.
Signal(d) ==
  /\ cast.signals
  /\ d \in control /\ at[d] = "out" /\ stops[d] < 2
  /\ stops' = [stops EXCEPT ![d] = @ + 1]
  /\ UNCHANGED <<vars, cast, at, control, port, socket, stateFile, routes, stopping, seen, untidy>>

\* Mistake to be caught: the sockets of projects outlive the control server.
BeginStopWithRoutes(d) ==
  /\ stops[d] > 0 /\ d \in control
  /\ stops' = [stops EXCEPT ![d] = @ - 1]
  /\ control' = control \ {d}
  /\ stopping' = [stopping EXCEPT ![d] = "socket"]
  /\ untidy' = (untidy \/ at[d] \in {"write", "rename"})
  /\ UNCHANGED <<vars, cast, at, port, socket, stateFile, routes, seen>>

\* The first call takes the control server and the listeners; the control
\* server stops accepting at once.
BeginStop(d) ==
  /\ stops[d] > 0 /\ d \in control
  /\ stops' = [stops EXCEPT ![d] = @ - 1]
  /\ control' = control \ {d}
  /\ routes' = routes \ {d}
  /\ stopping' = [stopping EXCEPT ![d] = "socket"]
  /\ untidy' = (untidy \/ at[d] \in {"write", "rename"})
  /\ UNCHANGED <<vars, cast, at, port, socket, stateFile, seen>>

\* A second call finds neither and goes on to the state file.
StopAgain(d) ==
  /\ stops[d] > 0 /\ d \notin control
  /\ stops' = [stops EXCEPT ![d] = @ - 1]
  /\ stateFile' = Nobody
  /\ untidy' = TRUE
  /\ UNCHANGED <<vars, cast, at, control, port, socket, routes, stopping, seen>>

RemoveSocket(d) ==
  /\ stopping[d] = "socket"
  /\ socket' = Nobody
  /\ stopping' = [stopping EXCEPT ![d] = "listeners"]
  /\ UNCHANGED <<vars, cast, at, control, port, stateFile, routes, stops, seen, untidy>>

CloseListeners(d) ==
  /\ stopping[d] = "listeners"
  /\ port' = IF port = d THEN Nobody ELSE port
  /\ stopping' = [stopping EXCEPT ![d] = "file"]
  /\ UNCHANGED <<vars, cast, at, control, socket, stateFile, routes, stops, seen, untidy>>

\* Whichever daemon the file describes by now.
RemoveState(d) ==
  /\ stopping[d] = "file"
  /\ stateFile' = Nobody
  /\ stopping' = [stopping EXCEPT ![d] = "no"]
  /\ UNCHANGED <<vars, cast, at, control, port, socket, routes, stops, seen, untidy>>

-----------------------------------------------------------------------------
(* Projects come and go; processes end.                                    *)

RoutesChange(d) ==
  /\ cast.routes
  /\ d \in control
  /\ routes' \in {routes \cup {d}, routes \ {d}}
  /\ UNCHANGED <<vars, cast, at, control, port, socket, stateFile, stops, stopping, seen, untidy>>

\* The process ends: its daemon goes with it, its socket and state files stay.
End(p) ==
  /\ cast.exits
  /\ Exit(p)
  /\ At(p, "out")
  /\ control' = control \ {p}
  /\ routes' = routes \ {p}
  /\ port' = IF port = p THEN Nobody ELSE port
  /\ stops' = [stops EXCEPT ![p] = 0]
  /\ stopping' = [stopping EXCEPT ![p] = "no"]
  /\ UNCHANGED <<cast, socket, stateFile, seen, untidy>>

TimePasses == cast.exits /\ Age(1) /\ UNCHANGED svars

-----------------------------------------------------------------------------

Advance(p) ==
  \/ TakeLock(p) \/ EnterLock(p) \/ LookedAtLock(p) \/ LeaveLock(p)
  \/ ProbeMissing(p) \/ ProbeAnswered(p) \/ ReturnState(p) \/ NoState(p) \/ LookForLock(p)
  \/ NothingToStop(p) \/ NothingToReplace(p) \/ ReplaceRefused(p) \/ WillAsk(p)
  \/ AskGranted(p) \/ AskInVain(p) \/ SeenMissing(p) \/ SeenStopped(p)
  \/ AssertNoneLive(p) \/ BindIPv4(p) \/ BindIPv6(p) \/ BindFails(p) \/ Listen(p) \/ ListenFails(p)
  \/ WriteState(p) \/ RenameState(p) \/ StartFailed(p) \/ Verify(p)

StopSteps(d) ==
  BeginStop(d) \/ StopAgain(d) \/ RemoveSocket(d) \/ CloseListeners(d) \/ RemoveState(d)

StartupNext ==
  \/ \E p \in Process :
       \/ Call(p) \/ Status(p) \/ Advance(p) \/ StopSteps(p)
       \/ StartInterrupted(p) \/ ProbeUnrelated(p) \/ GiveUp(p) \/ PrepareFails(p) \/ TiredOfWaiting(p) \/ WriteFails(p)
       \/ Signal(p) \/ RoutesChange(p) \/ End(p)
  \/ TimePasses

StartupSpec == StartupInit /\ [][StartupNext]_allVars

-----------------------------------------------------------------------------
(* Properties.                                                             *)

\* What the lock and the order of stop() guarantee, they guarantee as long as
\* no process ends, no lock gets old and no stop() overlaps another or a start.
Tidy == exited = {} /\ ~everOld /\ ~untidy

\* Whoever gets as far as starting a daemon is alone: no other daemon answers,
\* holds the ports or is described by the state file, even when a daemon is
\* being stopped or its stop was granted and the answer came too late.
\* service.spec.ts: "lets only one simultaneous caller start the daemon".
StartsAlone ==
  Tidy => \A p \in Process :
            /\ at[p] = "bind4" => port = Nobody
            /\ at[p] \in {"bind4", "bind6", "listen"} => control = {} /\ stateFile = Nobody

\* A daemon that goes on keeps its state file: neither a start that fails nor a
\* stop of another daemon removes or replaces it.
KeepsItsState ==
  [][Tidy' => \A d \in control \cap control' : stateFile = d => stateFile' = d]_allVars

\* The state that ensureRunning returns is the one of the daemon that answered,
\* unless that daemon has stopped between the answer and the reading of the file.
ReturnsWhatAnswered ==
  [][Tidy => \A p \in Process :
        ReturnState(p) => stateFile = seen[p] \/ seen[p] \notin control]_allVars
=============================================================================
