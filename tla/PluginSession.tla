--------------------------- MODULE PluginSession ---------------------------
(***************************************************************************)
(* The Vite plugins (setupServer in plugin.ts) and their control clients,  *)
(* together with the daemon's control server: a plugin registers its       *)
(* domains when its Vite server listens, refreshes them with a heartbeat,  *)
(* recovers them when the connection is lost, and releases them when the   *)
(* Vite server closes.                                                     *)
(*                                                                         *)
(* A plugin has at most one task under way, setup() or recoverRoutes(),    *)
(* which awaits something in phase:                                        *)
(*   "infra"     ensureInfrastructure(), which starts the daemon if need be*)
(*   "connect"   connect() of the client it has just made, its candidate   *)
(*   "register"  register() of that client                                 *)
(*   "delay"     the end of the failed candidate and the back-off          *)
(* An action is an event together with everything that runs before the     *)
(* next await: the client's handler, then the plugin's continuation.       *)
(*                                                                         *)
(* A daemon crash empties the server (the registry is in memory only); its *)
(* sockets are destroyed, and another daemon may accept connections later. *)
(***************************************************************************)
EXTENDS ControlClient

CONSTANTS
  Domains,      \* per plugin: the hostnames it is configured for
  NoClient,     \* what client and candidate hold when they are null
  MaxFaults     \* bound: crashes, timeouts, refusals, failures to start a daemon

Plugin == OwnerToken

ASSUME SessionAssumption ==
  /\ Domains \in [Plugin -> (SUBSET Hostname) \ {{}}]
  /\ NoClient \notin Connection
  /\ \A c \in Connection : \E p \in Plugin : TokensOf[c] = {p}
  /\ MaxFaults \in Nat

VARIABLES
  task,          \* per plugin: "unstarted", "setup", "recovery" or "none"
  phase,         \* per plugin: what the task awaits
  candidate,     \* per plugin: the client of the task
  client,        \* per plugin
  shuttingDown,  \* per plugin: cleanup() has run
  owned,         \* per plugin: ownedHostnames
  heartbeat,     \* per plugin: the interval is set
  started,       \* the plugins in the order in which they were started
  faults

taskVars == <<task, phase>>
lifeVars == <<client, shuttingDown>>
pluginVars == <<taskVars, lifeVars, candidate, owned, heartbeat, started, faults>>
sessionVars == <<vars, clientVars, pluginVars>>

SessionTypeOK ==
  /\ TypeOK
  /\ ClientTypeOK
  /\ task \in [Plugin -> {"unstarted", "setup", "recovery", "none"}]
  /\ phase \in [Plugin -> {"infra", "connect", "register", "delay"}]
  /\ candidate \in [Plugin -> Connection \cup {NoClient}]
  /\ client \in [Plugin -> Connection \cup {NoClient}]
  /\ shuttingDown \in [Plugin -> BOOLEAN]
  /\ owned \in [Plugin -> SUBSET Hostname]
  /\ heartbeat \in [Plugin -> BOOLEAN]
  /\ started \in Seq(Plugin)
  /\ faults \in 0..MaxFaults

SessionInit ==
  /\ Init
  /\ ClientInit
  /\ task = [p \in Plugin |-> "unstarted"]
  /\ phase = [p \in Plugin |-> "infra"]
  /\ candidate = [p \in Plugin |-> NoClient]
  /\ client = [p \in Plugin |-> NoClient]
  /\ shuttingDown = [p \in Plugin |-> FALSE]
  /\ owned = Domains
  /\ heartbeat = [p \in Plugin |-> FALSE]
  /\ started = <<>>
  /\ faults = 0

ClientsOf(p) == {c \in Connection : p \in TokensOf[c]}

Unused(p) == {c \in ClientsOf(p) : link[c] = "none"}

Fault == faults < MaxFaults /\ faults' = faults + 1

-----------------------------------------------------------------------------
(* What a task does next.                                                  *)

GoTo(p, what, where) ==
  /\ task' = [task EXCEPT ![p] = what]
  /\ phase' = [phase EXCEPT ![p] = where]

EndTask(p) == GoTo(p, "none", "infra")

\* Mistake to be caught: one failure ends the recovery.
GiveUp(p) == EndTask(p)

\* A recovery has failed.
RetryOrEnd(p) ==
  IF shuttingDown[p] THEN EndTask(p) ELSE GoTo(p, "recovery", "delay")

Set(f, p, value) == f' = [f EXCEPT ![p] = value]

\* The client has lost its connection, or connect() has given up.
Severed(c) ==
  /\ Set(link, c, "gone")
  /\ Set(pending, c, <<>>)
  /\ Set(inbox, c, <<>>)
  /\ ServerUndisturbed

\* connect() or register() of the candidate has failed: setup() cleans up for
\* good, a recovery tries again.
AfterFailure(p) ==
  \/ /\ task[p] = "setup"
     /\ EndTask(p)
     /\ Set(client, p, NoClient)
     /\ Set(shuttingDown, p, TRUE)
  \/ /\ task[p] = "recovery"
     /\ RetryOrEnd(p)
     /\ UNCHANGED lifeVars

\* Mistake to be caught: the client whose register() failed is left connected.
LeaveConnected(p, stillPending) ==
  /\ AfterFailure(p)
  /\ Set(pending, candidate[p], stillPending)
  /\ ServerUndisturbed
  /\ UNCHANGED <<link, closing>>

\* register() has failed on a client that may be connected.  The client is
\* closed, except by a setup() that leaves this to the cleanup() that has run.
RegisterFails(p, stillPending) ==
  LET c == candidate[p] IN
  /\ AfterFailure(p)
  /\ IF task[p] = "setup" /\ shuttingDown[p]
     THEN Set(pending, c, stillPending) /\ ServerUndisturbed /\ UNCHANGED <<link, closing>>
     ELSE Close(c, p, claimed[c], stillPending)

-----------------------------------------------------------------------------
(* setup() and recoverRoutes().                                            *)

\* The Vite server listens.
Start(p) ==
  /\ task[p] = "unstarted"
  /\ GoTo(p, "setup", "infra")
  /\ started' = Append(started, p)
  /\ ServerUndisturbed
  /\ UNCHANGED <<clientVars, candidate, lifeVars, owned, heartbeat, faults>>

Awaits(p, where) == task[p] \in {"setup", "recovery"} /\ phase[p] = where

\* Mistake to be caught: a recovery is only for a plugin that has a client.
UnwantedWithoutClient(p) ==
  IF task[p] = "setup" THEN shuttingDown[p] ELSE owned[p] = {} \/ client[p] = NoClient

\* A daemon runs and the task no longer wants it: setup() after cleanup(), a
\* recovery that lost every hostname.
Unwanted(p) == IF task[p] = "setup" THEN shuttingDown[p] ELSE owned[p] = {}

\* ensureInfrastructure() resolved, and connect() begins.
InfrastructureReady(p) ==
  /\ Awaits(p, "infra")
  /\ running' = TRUE
  /\ sent' = Silence
  /\ \/ /\ Unwanted(p)
        /\ EndTask(p)
        /\ UNCHANGED <<candidate, client, link>>
     \/ /\ ~Unwanted(p)
        /\ Unused(p) # {}
        /\ LET c == CHOOSE c \in Unused(p) : TRUE IN
             /\ Set(link, c, "connecting")
             /\ Set(candidate, p, c)
             /\ client' = [client EXCEPT ![p] = IF task[p] = "setup" THEN c ELSE @]
        /\ GoTo(p, task[p], "connect")
  /\ UNCHANGED <<registryVars, connectionVars, frames, queue, validating, stopRequested,
                 claimed, pending, inbox, closing, shuttingDown, owned, heartbeat, started,
                 faults>>

\* ensureInfrastructure() rejected.  Only setup() tells SERVICE_UPDATE_REQUIRED,
\* on which it recovers, from the other errors, on which it cleans up.
InfrastructureFails(p) ==
  /\ Awaits(p, "infra")
  /\ Fault
  /\ \/ task[p] = "setup" /\ shuttingDown[p] /\ EndTask(p) /\ UNCHANGED shuttingDown
     \/ task[p] = "setup" /\ ~shuttingDown[p] /\ EndTask(p) /\ Set(shuttingDown, p, TRUE)
     \/ /\ task[p] = "setup" /\ ~shuttingDown[p]
        /\ GoTo(p, "recovery", "infra") /\ UNCHANGED shuttingDown
     \/ task[p] = "recovery" /\ RetryOrEnd(p) /\ UNCHANGED shuttingDown
  /\ Set(candidate, p, NoClient)
  /\ ServerUndisturbed
  /\ UNCHANGED <<clientVars, client, owned, heartbeat, started>>

\* The daemon accepts the connection of a candidate.
Accept(c) ==
  /\ link[c] = "connecting"
  /\ Connect(c)
  /\ UNCHANGED <<clientVars, pluginVars>>

\* connect() resolved; register() follows.  setup() asks for every domain, a
\* recovery for those it still owns, which is all of them in setup().
Connected(p) ==
  /\ Awaits(p, "connect")
  /\ socket[candidate[p]] # "none"
  /\ Set(link, candidate[p], "connected")
  /\ Request(candidate[p], p, "register", owned[p], <<>>)
  /\ GoTo(p, task[p], "register")
  /\ UNCHANGED <<claimed, inbox, closing, candidate, lifeVars, owned, heartbeat, started, faults>>

\* No daemon has listened during the attempts of connect().
ConnectFails(p) ==
  /\ Awaits(p, "connect")
  /\ socket[candidate[p]] = "none"
  /\ ~running
  /\ AfterFailure(p)
  /\ Severed(candidate[p])
  /\ UNCHANGED <<claimed, closing, candidate, owned, heartbeat, started, faults>>

\* The plugin uses its registered client.
Adopt(p, c) ==
  /\ Set(client, p, c)
  /\ Set(heartbeat, p, TRUE)
  /\ Set(pending, c, Tail(pending[c]))
  /\ ServerUndisturbed
  /\ UNCHANGED <<link, closing>>

\* Mistake to be caught: nobody looks at shuttingDown after the await.
AdoptAnyway(p, c, claims) == Adopt(p, c)

\* After register() a recovery closes its candidate if cleanup() has run
\* meanwhile; setup() leaves its client to the cleanup() that has run.
AdoptOrRelease(p, c, claims) ==
  \/ ~shuttingDown[p] /\ Adopt(p, c)
  \/ /\ shuttingDown[p] /\ task[p] = "recovery"
     /\ Close(c, p, claims, Tail(pending[c]))
     /\ UNCHANGED <<client, heartbeat>>
  \/ /\ shuttingDown[p] /\ task[p] = "setup"
     /\ Set(pending, c, Tail(pending[c]))
     /\ ServerUndisturbed
     /\ UNCHANGED <<link, closing, client, heartbeat>>

\* register() resolved.
RegisterAnswered(p, n) ==
  LET c == candidate[p]
      claims == ClaimedAfterRegistered(c, n)
  IN
  /\ Awaits(p, "register")
  /\ AnswerChunk(c, n)
  /\ Answers(c, "register")
  /\ Head(inbox[c]).type = "registered"
  /\ Set(claimed, c, claims)
  /\ Set(owned, p, owned[p] \ LostIn(c, n))
  /\ EndTask(p)
  /\ AdoptOrRelease(p, c, claims)
  /\ UNCHANGED <<candidate, shuttingDown, started, faults>>

\* register() rejected: the server answered with an error.
Refused(p, n) ==
  LET c == candidate[p] IN
  /\ Awaits(p, "register")
  /\ AnswerChunk(c, n)
  /\ Answers(c, "register")
  /\ Head(inbox[c]).type = "error"
  /\ RegisterFails(p, Tail(pending[c]))
  /\ UNCHANGED <<claimed, owned, candidate, heartbeat, started, faults>>

\* The back-off of a recovery is over, and its failed candidate has ended.
Retry(p) ==
  /\ Awaits(p, "delay")
  /\ candidate[p] # NoClient => link[candidate[p]] # "ending"
  /\ IF shuttingDown[p] \/ owned[p] = {} THEN EndTask(p) ELSE GoTo(p, "recovery", "infra")
  /\ Set(candidate, p, NoClient)
  /\ ServerUndisturbed
  /\ UNCHANGED <<clientVars, lifeVars, owned, heartbeat, started, faults>>

-----------------------------------------------------------------------------
(* A registered plugin.                                                    *)

\* The heartbeat interval.  It is longer than the timeout of a request, so the
\* last heartbeat is no longer pending.
Beat(p) ==
  LET c == client[p] IN
  /\ heartbeat[p]
  /\ c # NoClient
  /\ link[c] = "connected"
  /\ claimed[c] # {}
  /\ \A i \in 1..Len(pending[c]) : pending[c][i].type # "heartbeat"
  /\ Request(c, p, "heartbeat", claimed[c], pending[c])
  /\ UNCHANGED <<link, claimed, inbox, closing, pluginVars>>

\* Mistake to be caught: the client claims on what is no longer its own.
KeepClaims(p, c, n) ==
  /\ Set(claimed, c, claimed[c] \ LostIn(c, n))
  /\ Set(owned, p, owned[p] \ (LostIn(c, n) \cup Unconfirmed(c)))

\* Mistake to be caught: what is left is stored as if one hostname.
StoreList(p, c, n) ==
  /\ Set(claimed, c, {claimed[c] \ Unconfirmed(c)})
  /\ Set(owned, p, owned[p] \ (LostIn(c, n) \cup Unconfirmed(c)))

\* What a heartbeat does not confirm is lost, to the client and the plugin.
DropUnconfirmed(p, c, n) ==
  /\ Set(claimed, c, claimed[c] \ (LostIn(c, n) \cup Unconfirmed(c)))
  /\ Set(owned, p, owned[p] \ (LostIn(c, n) \cup Unconfirmed(c)))

\* The answer to a heartbeat, or a late one to a request that timed out.
HeartbeatAnswered(p, c, n) ==
  /\ AnswerChunk(c, n)
  /\ Answers(c, "heartbeat") \/ Answers(c, "abandoned")
  /\ DropUnconfirmed(p, c, n)
  /\ Set(pending, c, Tail(pending[c]))
  /\ ServerUndisturbed
  /\ UNCHANGED <<link, closing, taskVars, candidate, lifeVars, heartbeat, started, faults>>

\* onRouteLost
RouteLost(p, c) ==
  /\ Attached(c)
  /\ inbox[c] # <<>>
  /\ IsLoss(Head(inbox[c]))
  /\ Set(claimed, c, claimed[c] \ Head(inbox[c]).hostnames)
  /\ Set(owned, p, owned[p] \ Head(inbox[c]).hostnames)
  /\ Set(inbox, c, Tail(inbox[c]))
  /\ ServerUndisturbed
  /\ UNCHANGED <<link, pending, closing, taskVars, candidate, lifeVars, heartbeat, started, faults>>

\* The unregister of close() is answered.
UnregisterAnswered(p, c, n) ==
  /\ AnswerChunk(c, n)
  /\ Answers(c, "unregister")
  /\ Set(claimed, c, claimed[c] \ (LostIn(c, n) \cup Head(inbox[c]).hostnames))
  /\ Set(owned, p, owned[p] \ LostIn(c, n))
  /\ EndAfterUnregister(c, Tail(pending[c]))
  /\ UNCHANGED <<closing, taskVars, candidate, lifeVars, heartbeat, started, faults>>

\* The timer of a request fires: register() rejects, close() goes on to end the
\* socket, a heartbeat is only logged.
TimesOut(p, c) ==
  \E i \in 1..Len(pending[c]) :
    LET request == pending[c][i]
        rest == [pending[c] EXCEPT ![i].type = "abandoned"]
    IN
    /\ Fault
    /\ \/ /\ request.type = "register"
          /\ RegisterFails(p, rest)
       \/ /\ request.type = "unregister"
          /\ EndAfterUnregister(c, rest)
          /\ UNCHANGED <<taskVars, lifeVars, closing>>
       \/ /\ request.type = "heartbeat"
          /\ Set(pending, c, rest)
          /\ ServerUndisturbed
          /\ UNCHANGED <<taskVars, lifeVars, link, closing>>
    /\ UNCHANGED <<claimed, inbox, candidate, owned, heartbeat, started>>

-----------------------------------------------------------------------------
(* The end of a connection.                                                *)

\* #handleDisconnect: first onDisconnect, which starts a recovery unless one is
\* under way, then the rejection of a register that was pending, which ends
\* setup() and lets a recovery try again.
Disconnected(p, c) ==
  LET notified == ~closing[c] /\ ~shuttingDown[p] /\ task[p] # "recovery"
      failed == candidate[p] = c /\ Awaits(p, "register")
  IN
  /\ link[c] \in {"connected", "unregistering"}
  /\ socket[c] = "destroyed"
  /\ Severed(c)
  /\ CASE notified /\ owned[p] # {} -> GoTo(p, "recovery", "infra")
       [] failed /\ task[p] = "recovery" -> RetryOrEnd(p)
       [] failed /\ task[p] = "setup" /\ ~(notified /\ owned[p] # {}) -> EndTask(p)
       [] OTHER -> UNCHANGED taskVars
  /\ IF failed /\ task[p] = "setup"
     THEN Set(client, p, NoClient) /\ Set(shuttingDown, p, TRUE)
     ELSE UNCHANGED lifeVars
  /\ heartbeat' = [heartbeat EXCEPT ![p] = @ /\ ~notified]
  /\ UNCHANGED <<claimed, closing, candidate, owned, started, faults>>

\* The 'close' event that close() awaits.  A register still pending is rejected;
\* that is a setup() whose client cleanup() has closed, or an abandoned one.
Ended(p, c) ==
  /\ link[c] = "ending"
  /\ socket[c] = "destroyed" \/ (socket[c] = "ended" /\ inbox[c] = <<>>)
  /\ Severed(c)
  /\ IF candidate[p] = c /\ Awaits(p, "register") THEN EndTask(p) ELSE UNCHANGED taskVars
  /\ UNCHANGED <<claimed, closing, candidate, lifeVars, owned, heartbeat, started, faults>>

\* The Vite server closes, or the process is told to exit: cleanup().
CloseServer(p) ==
  /\ task[p] # "unstarted"
  /\ ~shuttingDown[p]
  /\ Set(shuttingDown, p, TRUE)
  /\ Set(heartbeat, p, FALSE)
  /\ Set(client, p, NoClient)
  /\ IF client[p] = NoClient
     THEN ServerUndisturbed /\ UNCHANGED <<link, pending, closing>>
     ELSE Close(client[p], p, claimed[client[p]], pending[client[p]])
  /\ UNCHANGED <<claimed, inbox, taskVars, candidate, owned, started, faults>>

-----------------------------------------------------------------------------
(* The daemon.                                                             *)

ServerStep(c) ==
  /\ \/ /\ BeginRegister(c) \/ FinishRegister(c) \/ Unregister(c) \/ Heartbeat(c)
           \/ CleanupConnection(c)
        /\ UNCHANGED faults
     \/ FailRegister(c) /\ Fault
  /\ inbox' = [d \in Connection |-> inbox[d] \o sent'[d]]
  /\ UNCHANGED <<link, claimed, pending, closing, taskVars, candidate, lifeVars, owned,
                 heartbeat, started>>

\* The daemon's process ends, killed or stopped.  A connection that was not yet
\* established is attempted again by connect().
Crash ==
  /\ running
  /\ Fault
  /\ running' = FALSE
  /\ routes' = EmptyTable
  /\ listeners' = [o \in OwnerToken |-> {}]
  /\ socket' = [c \in Connection |->
                  CASE link[c] = "connecting" -> "none"
                    [] socket[c] = "open" -> "destroyed"
                    [] OTHER -> socket[c]]
  /\ ownerTokens' = [c \in Connection |-> {}]
  /\ frames' = [c \in Connection |-> <<>>]
  /\ cleanupScheduled' = [c \in Connection |-> socket'[c] # "none"]
  /\ cleaned' = [c \in Connection |-> socket'[c] # "none"]
  /\ queue' = <<>>
  /\ validating' = FALSE
  /\ sent' = Silence
  /\ UNCHANGED <<stopRequested, clientVars, taskVars, candidate, lifeVars, owned,
                 heartbeat, started>>

-----------------------------------------------------------------------------

TaskStep(p) ==
  \/ InfrastructureReady(p) \/ Connected(p) \/ ConnectFails(p) \/ Retry(p)

Hear(p, c) ==
  \/ RouteLost(p, c)
  \/ \E n \in 0..Len(inbox[c]) :
       \/ c = candidate[p] /\ (RegisterAnswered(p, n) \/ Refused(p, n))
       \/ HeartbeatAnswered(p, c, n) \/ UnregisterAnswered(p, c, n)

Lose(p, c) == Disconnected(p, c) \/ Ended(p, c)

SessionNext ==
  \/ \E p \in Plugin :
       \/ Start(p) \/ TaskStep(p) \/ InfrastructureFails(p) \/ Beat(p) \/ CloseServer(p)
       \/ \E c \in ClientsOf(p) : Hear(p, c) \/ Lose(p, c) \/ TimesOut(p, c)
  \/ \E c \in Connection : Accept(c) \/ ServerStep(c)
  \/ Crash

SessionSpec == SessionInit /\ [][SessionNext]_sessionVars

\* Both event loops run what is ready.  Whatever keeps ensureInfrastructure()
\* from succeeding is a fault, so that it is ready in the end.
SessionFairness ==
  /\ \A p \in Plugin :
       /\ WF_sessionVars(TaskStep(p))
       /\ WF_sessionVars(Beat(p))
       /\ \A c \in ClientsOf(p) : WF_sessionVars(Hear(p, c)) /\ WF_sessionVars(Lose(p, c))
  /\ \A c \in Connection : WF_sessionVars(Accept(c)) /\ WF_sessionVars(ServerStep(c))

FairSessionSpec == SessionSpec /\ SessionFairness

-----------------------------------------------------------------------------
(* Properties.                                                             *)

\* A plugin whose Vite server runs is never left without its routes for good:
\* when no task is under way, its client is connected and its heartbeat is set,
\* unless it has lost every hostname (startHeartbeat, recoverRoutes).
NeverAbandoned ==
  \A p \in Plugin :
    task[p] = "none" /\ ~shuttingDown[p] /\ owned[p] # {}
      => /\ heartbeat[p]
         /\ client[p] # NoClient
         /\ link[client[p]] = "connected"
         /\ ~closing[client[p]]

\* Nothing is under way on the connection of c.
Quiet(c) == frames[c] = <<>> /\ inbox[c] = <<>> /\ pending[c] = <<>>

HeldBy(c) == {h \in Registered(routes) : routes[h].leaseId = c}

\* A connected client with nothing under way claims every route the server
\* holds for it: close() knows that there is something to unregister.
ClaimsWhatItHolds ==
  \A c \in Connection :
    link[c] = "connected" /\ ~closing[c] /\ socket[c] = "open" /\ Quiet(c)
      => HeldBy(c) \subseteq claimed[c]

\* A plugin uses one connection at a time: when a task makes another, its
\* earlier ones are closing.
OneConnection ==
  \A p \in Plugin :
    Cardinality({c \in ClientsOf(p) : link[c] \in {"connecting", "connected"}}) <= 1

StartedBefore(p, q) ==
  \E j \in DOMAIN started : \E i \in 1..(j - 1) : started[i] = p /\ started[j] = q

\* The recovery of a plugin that has been registered before does not take a
\* hostname from a plugin that was started after it.  The test of the recovery:
\* "does not reclaim a hostname taken over while infrastructure is recovering".
DoesNotReclaim ==
  [][\A h \in Registered(routes), p \in Plugin :
       /\ routes'[h] # NoRoute
       /\ routes'[h].ownerToken = p
       /\ task[p] = "recovery" /\ client[p] # NoClient
       => ~StartedBefore(p, routes[h].ownerToken)]_sessionVars

\* A plugin whose Vite server has closed gives up its routes.  The product
\* specification: "normal server close ... release only currently owned
\* resources".
HasLetGo(p) == \A h \in Registered(routes) : routes[h].ownerToken # p

ClosedServersLetGo == \A p \in Plugin : shuttingDown[p] ~> HasLetGo(p)

\* The same of a plugin that has got through setup(), and for good.  Whatever
\* phase of a recovery the close falls in, what the recovery goes on to register
\* is released, and nothing is registered after that (recoverRoutes, cleanup).
LetsGoAfterSetup ==
  \A p \in Plugin :
    task[p] \in {"none", "recovery"} /\ ~shuttingDown[p]
      ~> []~shuttingDown[p] \/ [](shuttingDown[p] /\ HasLetGo(p))

\* While its Vite server runs, every hostname a plugin has not lost is routed
\* to it in the end, across crashes of the daemon and attempts of a recovery that
\* are refused or time out.  A setup() that is refused or times out gives up,
\* which counts as shutting down.
OwnedIsServed ==
  \A p \in Plugin : \A h \in Hostname :
    task[p] # "unstarted" /\ h \in owned[p]
      ~> \/ shuttingDown[p] \/ h \notin owned[p]
         \/ h \in Registered(routes) /\ routes[h].ownerToken = p

\* What the client of a running plugin claims although the server has it
\* elsewhere.
StaleClaims(p) ==
  IF client[p] # NoClient /\ link[client[p]] = "connected"
  THEN claimed[client[p]] \ HeldBy(client[p]) ELSE {}

\* Such a claim is dropped in the end, by a loss or by a heartbeat, even when the
\* loss came together with the answer to the registration.
StaleClaimsEnd ==
  \A p \in Plugin, h \in Hostname : h \in StaleClaims(p) ~> h \notin StaleClaims(p)
=============================================================================
