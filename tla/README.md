# Formal models of vite-plugin-local-tls

The plugin gives every Vite dev server an HTTPS hostname. Several Vite processes share one
background daemon: it owns port 443, keeps the table of hostnames, issues leaf certificates from
a local authority, and is reached over a control socket. This directory holds TLA+ models of the
parts of that system whose correctness depends on interleavings, failures and order, the TLC
configurations that check them, and TLAPS proofs of the properties that matter most.

## 1. Inventory

Paths are relative to `src/src/`.

| Component | State | Operations | Talks to |
| --- | --- | --- | --- |
| Route registry (`route-registry.ts`) | `#routes`: hostname to owner token, lease and upstream; `#listeners`: owner token to takeover callbacks | registerMany, unregisterMany, unregisterOwner, activeHostnames, subscribeToRouteLoss | called by the control server, read by the proxy |
| Control server (`control-server.ts`, `control-protocol.ts`) | per connection: buffer, promise chain, owner tokens, unsubscribers, cleanup flags; one global promise chain | connect, data, end/close/error, one handler per message type, cleanup, stop | clients by newline-framed JSON; the daemon by `validateRoutes` and `onStopRequested` |
| Control client (`control-client.ts`) | socket, pending requests with timers, claimed hostnames, `#closing` | connect with retries, register, unregister, heartbeat, close, disconnect | the control server; the plugin by callbacks |
| Plugin (`plugin.ts`) | client, owned hostnames, heartbeat timer, recovery and cleanup promises, `shuttingDown` | setup, heartbeat, recovery, cleanup, signals | Vite's http server, the lifecycle below, the control client |
| Daemon (`daemon.ts`) | control server, TLS listeners, state file, pending hostnames | start, stop, validateRoutes | certificates, proxy, state file |
| Service coordination (`service.ts`) | lock files, an owned daemon | ensureRunning, autoStart, stopIfIdle, locks | the daemon by socket and state file; other processes by lock files |
| Certificates (`certificates.ts`, `certificate-policy.ts`) | CA key, certificate and state file, CA lock, leaf certificates | ensure the CA, issue and renew leaves | openssl, other processes by the CA lock |
| Certificate import (`certificate-import.ts`) | imported key and certificate per hostname | import, read, remove | files |
| Legacy migration (`legacy-certificate-migration.ts`) | marker, staged CA and imports, lock | migrate once | files of older installations |
| Startup lifecycle (`startup-service-lifecycle.ts`) | none of its own | choose, adopt or converge an installation | discovery, installation, service coordination |
| Installation (`service-install.ts`, `service-install/*`) | ownership records, definitions, staged runtimes | install, update, uninstall, roll back | launchd, systemd, Task Scheduler |
| Discovery and diagnostics (`service-installation-discovery.ts`, `startup-service-diagnostics.ts`) | none | read-only inventory | files, service managers |
| Versions (`service-version.ts`) | none | compare | |
| Trust store (`trust-store.ts`) | the operating system's | install, verify, remove | external commands |
| Proxy (`proxy-server.ts`, `proxy-listeners.ts`) | listeners, streams | route by hostname, forward | registry, Vite servers |
| Command line (`cli.ts`) and helpers | none | | everything above |

### What is hard, and what correctness means

* **Control server and registry.** Operations of all connections run one at a time on a promise
  chain, and `register` waits in the middle for the validation of its routes. Connections end at
  any moment, with frames in line or in validation. Correct means: the newest claim of a hostname
  holds it; nobody but its holder removes it; a connection that is gone leaves nothing behind; a
  holder that loses a hostname hears of it; an idle stop stops an idle daemon.
* **Control client and plugin.** Setup, recovery, heartbeat and cleanup are asynchronous tasks of
  one process that share the client and the set of owned hostnames, beside timeouts, disconnects
  and takeovers. Correct means: what the client believes it holds converges to what the server
  records; a Vite server that closed holds no route; a recovery does not reclaim what was lost.
* **Service coordination.** Processes that know each other only through files and a socket take
  turns. Any of them can be killed at any point. Correct means: one process at a time mutates the
  installation or starts a daemon; a dead process does not block the others.
* **Starting and stopping a daemon.** The ports, the control socket and the state file each tell of
  a daemon, and each is looked at some time before it is acted on. Correct means: who starts is
  alone, a running daemon keeps its state file, a caller is told of the daemon that answered.
* **Certificates, import, migration.** Files that belong together are written one after the other,
  and the process may die in between. Correct means: an authority is never replaced by another, a
  migration can always be resumed, a leaf found valid can be used, a host with an imported
  certificate keeps one, and each host is served by the policy of its route.
* **Trust.** The authority may be removed only when the system no longer trusts it.
* **Installation.** A transaction over files and a service manager, each command of which may fail
  or be the last: either the new owner answers, or the previous one is restored; never are two
  enabled; what the record says is what is there; nothing is downgraded.
* **Proxy.** Two sides of an exchange end in any order. Correct means: the client is answered once,
  and neither side goes on for nobody.

`PROJECT.json` lists the hazards one by one, at the line where each bites, with the property that
covers it or the reason why none does.

## 2. Modules

| Module | Models | Extends or instantiates |
| --- | --- | --- |
| `RouteRegistry` | the route table and its operations as operators (`route-registry.ts`) | |
| `RouteOwnership` | abstract specification: routes live on leases | |
| `ControlServer` | the control service of a daemon (`control-server.ts`) | `RouteRegistry`, instance of `RouteOwnership` |
| `MCControlServer` | TLC instances | `ControlServer` |
| `ControlServerProofs` | theorems about `ControlServer` | `ControlServer` |
| `StartupLock` | the lock files of `service.ts` | |
| `MCStartupLock` | TLC instances | `StartupLock` |
| `StartupLockProofs` | theorems about `StartupLock` | `StartupLock` |
| `ControlClient` | the client of a control connection (`control-client.ts`), as parts of actions | `ControlServer` |
| `PluginSession` | Vite plugins, their clients and the daemon together (`setupServer` in `plugin.ts`) | `ControlClient` |
| `MCPluginSession` | TLC instances | `PluginSession` |
| `PluginSessionProofs` | theorems about `PluginSession` | `PluginSession`, `ControlServerProofs` |
| `ServiceStartup` | starting, finding and stopping the daemon (`service.ts`, `daemon.ts`, `proxy-listeners.ts`) | `StartupLock` |
| `ServiceStartupProofs` | theorems about `ServiceStartup` | `ServiceStartup`, `StartupLockProofs` |
| `CertificateAuthority` | the local authority, a leaf, the migration, the trust store, `clean --ca` (`certificates.ts`, `legacy-certificate-migration.ts`, `trust-store.ts`) | `StartupLock` |
| `CertificateAuthorityProofs` | theorems about `CertificateAuthority` | `CertificateAuthority`, `StartupLockProofs` |
| `ServiceVersion` | the order of versions (`service-version.ts`) | |
| `ServiceTargets` | a machine with its service manager: what definitions, runtimes, backups and records there are, as operators (`service-install/shared.ts`, `windows.ts`, `macos.ts`) | |
| `ServiceTransactions` | install, update, replace, start, uninstall, promote and roll back (`service-install.ts`, `service-install/*`, `startup-service-lifecycle.ts`) | `ServiceTargets` |
| `StartupServiceProofs` | theorems about `ServiceVersion` and `ServiceTransactions` | `ServiceTransactions`, `ServiceVersion` |
| `StartupRollbackProofs` | the theorem about what a failed transaction leaves enabled | `StartupServiceProofs` |
| `MCAuthority`, `MCInstallation` | TLC instances | `CertificateAuthority`; `ServiceTransactions` |
| `MCMachine` | TLC instances, as scenes | `ServiceStartup`, `MCAuthority`, `MCInstallation`, `ServiceVersion` |
| `RouteCertificates` | which certificate a host is served with: import, removal, registration (`certificate-import.ts`, `certificate-policy.ts`, `daemon.ts`) | |
| `ProxyExchange` | a request, upgrade or stream through the proxy (`proxy-server.ts`) | |
| `ServingProofs` | theorems about `RouteCertificates` and `ProxyExchange` | `RouteCertificates`, `ProxyExchange` |
| `MCServing` | TLC instances, as scenes | `StartupLock`, `RouteCertificates`, `ProxyExchange` |

### ControlServer

`queue` and `frames` together are the promise chains. A connection is in `queue` (the global
chain) at most once, for the oldest of its unfinished operations `frames[c]`; when that operation
ends its next one goes to the back, because `state.queue.then` appends to `this.#queue` only then.
`Turn(c, type)` says that c's operation is at the head, `Finish(c)` that it ends. Every message
type of `#processMessage` is an action; `register` is three (`BeginRegister`, then
`FinishRegister` or `FailRegister`) because it awaits `validateRoutes` while the queue stands
still. The cleanup of a connection is an operation in the same queue. `sent` holds what the last
step wrote to each socket: writing is synchronous, delivery is the business of the client's model.
A frame that does not parse is one request, "invalid". The route-lost frames of one registration
are one message with a set of hostnames.

The identity of a connection is its lease, as in the code (`state.id`). `TokensOf` says which
owner tokens the client behind a connection uses: a plugin keeps its token over reconnections, so
two connections may share one.

`RouteOwnership` has no connections, queues or messages: leases claim hostnames, release what they
hold, and end. `ControlServer` implements it with the route table as `holder` and the cleaned-up
connections as `ended`.

### StartupLock

One level of lock file is the startup lock of `ensureRunning`, two nested ones are the
authorization lock, which the installation takes. Every await is a step: creating the file, writing the pid, reading the
contents and the age (side by side, as in `Promise.all`), deciding, unlinking. A process may exit
anywhere if it is in `MayExit`; its files stay. `old` says that a file has reached `staleLockMs`.
A `Refused` process finds the runtime directory inaccessible and runs under the outer lock alone,
as `#withAuthorizationLock` does.

### ControlClient and PluginSession

The plugin makes a new `ControlClient` for every connection it attempts, so a client is named by
the connection, and `ClientsOf(p)` are the connections plugin p may use, each once. `link` follows
`#socket` through `connect()` and `close()`; `pending` are the requests in the order in which the
server answers them. What a client writes is in the server's `frames` at once; what the server
writes is in `inbox` until the client handles it. A chunk is one message, or an answer and the
losses behind it: `#handleData` handles all frames of a chunk before the promise of the answer
resumes, so those losses come first although the server wrote them last. Longer chunks add nothing.

An action of `PluginSession` is an event of the plugin's event loop with everything up to the next
await. `setup()` and `recoverRoutes()` are never under way together in one plugin (the disconnect
that starts a recovery during `setup()` also rejects the register that `setup()` awaits), hence one
`task` and one `phase`; they share `Connected`, `RegisterAnswered` and the failures. What each does
when it finds `shuttingDown` differs, and so it does here (`AdoptOrRelease`, `RegisterFails`,
`Unwanted`). `ensureInfrastructure()` is abstract: it succeeds and a daemon runs, or it fails with
or without SERVICE_UPDATE_REQUIRED. A crash of the daemon empties the server part of the state;
`InfrastructureReady` brings another daemon. A stop of the daemon looks the same to its clients.
`started` is a history of the order in which plugins were started; only DoesNotReclaim reads it.

Abstractions: the heartbeat interval (10 s) is longer than the request timeout (5 s), so one
heartbeat is pending at a time; closing with retries is one close, since `close()` never rejects;
the end of the back-off, and of a close whose task is over, are merged with the next step; the
exit of the process after a signal is the server's `EndEvent` on every connection, which
`ControlServer` covers, and is left out here.

### ServiceStartup

`at[p]` is the await at which process p is in `ensureRunning` or `stopIfIdle`; with `StartupLock`
it composes action by action: a process that holds the lock does the protected operation here. A
daemon is named by its process. `control` are the daemons whose control server accepts, `socket`
the one whose file is at the control path, `port` the one that is bound, `stateFile` the one that is
described. A stop goes through its steps in `stopping`; a granted stop and a signal are pending in
`stops` first. `untidy` notes the one thing the code leaves to chance: a stop that overlaps another
stop of the same daemon or its own start. A `cast` says who takes part in a behaviour, so that TLC
takes a few small mixtures and not all at once.

### CertificateAuthority

An authority is told by who made it, so a key and a certificate match when they name the same
maker. The lock is that of `StartupLock` except for one branch that the code has and the startup
lock has not: a lock file that vanished counts as stale (`VanishedIsStale`). Each rename, unlink,
read and store command is a step; a process may be killed between any two. A leaf is three files of
three renames. The trust store is `trusted`, changed by one command, or a set of `anchors` with a
bundle refreshed from it, where removing and refreshing may fail apart.

### RouteCertificates

Commands and the daemon run with no lock between them, so every rename, unlink and read of a file
is a step. `stored` and `aside` say, file by file, whose the file is, which is enough to tell a
whole directory from a mixture. A registration reads the files of its hosts in rounds, as
`getCertificate` and `readSecureContextOptions` do.

### ProxyExchange

One action per event that the code listens for; a listener runs to its end. The listeners that
share a helper share an operator (`SendDiagnostic`, `Respond`, `CannotRespond`, `Close`, `Cut`). An
exchange of HTTP/1 and a stream of HTTP/2 differ in what they check before they answer.

### ServiceTargets, ServiceTransactions and ServiceVersion

`ServiceTargets` describes a machine and gives, as operators, what a command of launchd, systemd or
the Task Scheduler and a change of a file make of it. A transaction is a script: the commands of the
code in their order, each with what the code does when it fails. Running the head of the script is
one action; it may succeed, fail without effect, or fail although it took effect, and the process
or the machine may die after it. `LinuxInstall`, `MacInstall`, `WindowsInstall`, `MacStart` and the
others build the scripts; the catch blocks are scripts too (`phase`). `Converge` is `plugin.ts` and
`startup-service-lifecycle.ts` choosing what to run. Transactions hold the mutation lock and follow
one another, each from what the last one left.

`ServiceVersion` orders versions as their components and identifiers; VersionOrder compares it with
the precedence of the standard on every pair of the candidates, and its initial states are those
pairs. The transactions use numbers for versions: they only ask which is greater.

Operators with the comment "Mistake to be caught" are faulty variants of the definition that
follows them. Nothing uses them; putting one in the place of the definition must make the property
named in `PROJECT.json` ("mutants") fail, which shows that the property can.

## 3. Runs

| Run | Checks | Instance | Shows |
| --- | --- | --- | --- |
| `ServerReconnect` | TypeOK, NoOrphanRoute, SubscriptionsMatch, OnlyTheLeaseRemoves, TakeoverIsTold | 2 connections of one owner, 1 of another, 1 hostname, 1 unfinished frame each (plus the cleanup) | reconnects and takeovers in every order |
| `ServerAllFrames` | CleanupIsLast, ImplementsOwnership, ClosedConnectionsExpire | 2 owners, 2 hostnames, every kind of frame, 1 unfinished frame each (plus the cleanup) | overlapping sets of hostnames; the refinement; liveness of cleanup |
| `ServerIdleStop` | StopsOnlyWhenIdle (violated) | 2 connections | finding 1 |
| `LockTakenTwice` | OneAtATime (violated) | 3 processes, 2 levels | finding 2 |
| `Serving` | TypeOK, OneAtATimeWhileAllRun, ReleasesItsOwn, DeadLocksAreCleared; CertificatesTypeOK, ServesItsPolicy, ImportIsAllOrNothing; ExchangeTypeOK, AnsweredOnce, TornDownTogether | three scenes: 2 processes, 2 levels of locks, each may die, locks age; 2 commands for one of 2 hosts, 1 registration; 2 exchanges, 2 upstreams | nested locks, certificates, and exchanges beside a changing route |
| `Machine` | StartupTypeOK, StartsAlone, KeepsItsState, ReturnsWhatAnswered; AuthorityTypeOK, MigrationResumes, NeverReplaced, LeafCanBeUsed; InstallTypeOK, RecordTellsTheRuntime, AtMostOneRestored, KeepsTheNewest, OneOwnerAtBoot, DeletedOnlyAfterReady; VersionOrder | four scenes: 3 processes in 5 casts; 3 processes with 5 assignments of jobs; 3 platforms, 6 machines, 2 transactions, 1 fault; 37 versions | the life of a daemon, its authority and its startup service |
| `SessionFaults` | SessionTypeOK, ClaimsWhatItHolds, NeverAbandoned, OneConnection | plugin a (3 connections) with 2 hostnames, b (1) with one of them, 2 faults | partial takeovers and two failures in every combination |
| `SessionLives` | OwnedIsServed, StaleClaimsEnd, LetsGoAfterSetup | 2 connections each, 1 hostname, 1 fault; or plugin a alone (3 connections), 2 faults | liveness of setup, recovery, heartbeat and release |
| `SessionClosed` | ClosedServersLetGo (violated) | 1 connection each, no fault | finding 3 |
| `SessionReclaims` | DoesNotReclaim (violated) | 2 + 1 connections, 1 fault | finding 4 |
| `CleanWhileTrusted` | RemovesOnlyUntrusted (violated) | 3 processes: trust, untrust, clean | finding 5 |
| `NewestLost` | NeverDowngraded (violated) | 3 platforms, 2 transactions, 1 fault, versions of one protocol | finding 6 |

**Scenes.** `Serving` and `Machine` check several components that share no state. A behaviour
picks its scene at the start and the variables of the others stay in an initial state, so the
states of the scenes add up and do not multiply.

**Bounds.** Two owners and two connections of one of them are the smallest instance with both a
takeover and a reconnect; a third owner only repeats the takeover. Two hostnames are enough for
sets that overlap without being equal. `MaxFrames` bounds the unfinished frames of a connection:
one frame ahead of the cleanup is enough for every race of a frame with a cleanup, and the frames
of the others interleave with it; longer lines occur in the session runs, where a client sends
what the real client sends (4 is never reached there: a register, or two heartbeats and an
unregister). `MaxFaults` in the session runs bounds crashes, timeouts, refused registrations and
failed starts together. One fault costs a plugin at most one connection, so a plugin with one
connection more than there are faults can always go on; `SessionLives` gives that many to every
plugin. It has two faults where b never starts (`FewFaults`), since it takes one fault to begin a
recovery and another to make its attempt fail, so that it waits to try again and the Vite server may
close meanwhile. Its two plugins are alike, so a is the one that starts first (`InOrder`). In
`SessionFaults` b has one connection only, and stays in its recovery when it loses it.

The stale lock needs three processes to go wrong (one dies, two clear); while all run, two do,
since what a process can see of the others is one lock file. `MaxAnswers` is 2, so a second answer
to one client can be seen. Two commands on one host meet in every pair of import and removal, and
one registration reads the files at any time beside them. In `Machine`, three processes are one
that starts, one that waits and one that stops, or dies, or is the old daemon. Two transactions
are one that is broken off and one that finds what it left, one fault being what breaks it off;
the beginnings are an empty machine, legacy services with and without versions, and an older,
equal and newer canonical service. The versions have identifiers that are numeric, too long,
zero-padded, words and mixtures, in one or two places.

**Deadlock** is not checked in these runs: the ids of connections are used once, so a finite
instance runs out of clients; the daemon may stop for good; processes, commands, exchanges and
transactions come to an end.

**Fairness.** `ServerAllFrames`, `Serving`, `SessionLives` and `SessionClosed` assume it. For the
server: an operation at the head of the chain ends (`validateRoutes` reads and writes local files
and settles), the close event of a destroyed socket arrives, a scheduled `setImmediate` runs. For
the locks: a process that is alive and not blocked goes on, and files get older. For the sessions:
both event loops run what is ready, and the heartbeat interval fires; since every failure of
`ensureInfrastructure()` is a fault and faults are bounded, it succeeds in the end. Nothing forces a
client to connect, to send, or to end, a process to exit, an idle one to start, a Vite server to
start or close, or a fault to happen.

## 4. Findings

1. `ServerIdleStop`: idleness is checked when `stop-if-idle` is processed and not again when the
   stop runs, from the callback of the write and a `setImmediate` (`control-server.ts:199-208`). A
   registration processed in between is answered "registered" and lost. On Unix sockets a small
   write usually completes at once, which leaves one turn of the event loop, enough for an
   operation that is already in line; the README promises a refusal.
2. `LockTakenTwice`: deciding that a lock is stale and unlinking it are separate awaits, and the
   unlink takes whatever is at the path (`service.ts:649-668`). When a holder has died, two
   waiters can both end up inside.
3. `SessionClosed`: a Vite server that closes while its plugin awaits `connect()`. `cleanup()` closes
   a client that has no socket yet; `connect()` resolves, `setup()` registers, and its own call of
   `cleanup()` returns the settled promise (`plugin.ts:645-650`). The routes stay until the process
   exits. LetsGoAfterSetup shows that the recovery, which has the same shape, does not have this:
   in whatever phase the close finds it, from the infrastructure to the back-off of a failed attempt,
   the plugin ends up with no route and never has one again.
4. `SessionReclaims`: after a daemon crash a newer server registers a hostname before the older
   one's recovery does; the older one was not connected, heard of nothing and takes it back
   (`plugin.ts:574`). That the server started last wins is what the README and MIGRATION.md say of
   every server; the test of it takes the hostname from a connected plugin, which is told.
5. `CleanWhileTrusted`: on systems with a directory of anchors, `untrust` removes the anchor and then
   fails to refresh the bundle (`trust-store.ts:220-231`). `verify` looks for the anchor alone
   (`trust-store.ts:132-147`), so `clean --ca` removes an authority that the system still trusts,
   which the README says it refuses.
6. `NewestLost`: the status of an interrupted installation is `installing` before any version is
   compared (`service-install.ts:76`). A newer version's reinstallation that was killed is
   overwritten by an older package of the same protocol. While the record says `installed`,
   KeepsTheNewest holds; it compares what the transaction found, so an interrupted installation is
   outside it and NeverDowngraded is the property that sees one.

Smaller things that the models contain as the code has them, and the properties step around with a
named condition:

* A lock that gets old under a living holder is cleared, and that holder's release then removes the
  next one's (`service.ts:633`). OneAtATimeWhileAllRun and ReleasesItsOwn are stated for the
  behaviours in which no lock gets old.
* A stale CA lock that has vanished is unlinked again (`certificates.ts:219`), so a fresh lock may be
  removed; half an authority with a legacy source beside it becomes a lasting mismatch, and the
  migration copies without the CA lock. NeverReplaced excludes both by `mixed`.
* A daemon killed between the certificate and the chain of a leaf leaves files that pass as valid and
  cannot be used, so registrations of that host fail (`torn` in LeafCanBeUsed).
* A registration that fails half way leaves the contexts it has given (`partly` in ServesItsPolicy).
  ServesItsPolicy says whose the certificate is; that the key is that of its chain is left to
  `createSecureContext`, which throws otherwise (`Matches`, a guard of Register).
* A client of HTTP/1 that leaves before its upstream answers is not noticed by the upstream side
  (`leftEarly` in TornDownTogether), and a second diagnostic on an upgrade socket that has ended is
  written to it after its end (`proxy-server.ts:381-387`); AnsweredOnce counts status lines that are
  sent to a client.
* A daemon whose stop was granted before it renamed its state file into place may leave the file; a
  caller that reads between the answer and the file may get INVALID_STATE. `untidy`, and the
  condition on `seen` in ReturnsWhatAnswered.
* A SIGTERM to a service-mode process while it is still in `ensureRunning` has no handler yet.
* `NoWayBack` in `ServiceTransactions` names where a rollback cannot restore: it fails or dies
  itself; it is an uninstallation's; on macOS the record is committed after the actions that undo
  were dropped; on Windows the backups are deleted in a `finally` before that commit; and an update
  that was interrupted half way through its copies is retried and fails before copying, so that the
  prior record is written back over mixed bytes. RecordTellsTheRuntime and AtMostOneRestored exclude
  these states. AtMostOneRestored counts the services that were both disabled and stopped: one whose
  stop failed was never displaced, and is not counted.
* OneOwnerAtBoot asks less of a start: on Linux a start does not enable the service, nor does one
  that leaves it running.
* An uninstallation that dies between the definition and the record, and on Windows a replacement
  that dies between the task and the record (`service-install.ts:372`), leave what every later
  convergence refuses to touch. That is deliberate for the former (SECURITY.md:38); for the latter
  the model has the refusal as a guard.

## 5. Proofs

The theorems hold for every value of the constants that satisfies the named assumptions
(`NoRouteAssumption`, `ServerAssumption`, `LockAssumption`, `StartupAssumption`,
`AuthorityAssumption`, `SessionAssumption`, `CertificatesAssumption`, `ExchangeAssumption`,
`VersionAssumption`, `TargetsAssumption`, `TransactionsAssumption`): any sets of hostnames, tokens,
connections, plugins, processes, commands, exchanges and versions, any number of frames and faults,
any depth of nesting in `StartupLock` (`StartupAssumption` and `AuthorityAssumption` say that those
two components take one lock). The specifications they are about are those of the component, without
fairness or with it; the composed instances only add scenes.

`ControlServerProofs`. The inductive invariant is the conjunction of TypeOK, CleanupIsLast,
NoOrphanRoute and SubscriptionsMatch. NoOrphanRoute alone is not inductive: a register processed
after its connection was cleaned up would break it, and that is excluded only because the cleanup
is the last operation in line; that in turn needs the flag `cleanupScheduled`. `RegistryCases`
says which actions touch the registry and how; the action properties and the refinement are proved
from it.

`StartupLockProofs`. Exclusion rests on LocksStand: as long as nothing has ended and nothing got
old, the file of each lock a process has created is still there and still its own, no inspection
has read an old age, and nobody is about to clear a lock. `PlaceFits` relates a process's place to the
number of locks it holds.

`ServingProofs`. In `RouteCertificates`, commands and daemon meet only where the daemon reads a
file, which may then be anything of anyone; so there are two invariants. `ImportInv` says that a
directory is whole or missing in both its places, and that a missing one of an imported host is in
the hands of a command that will put one back: a single import shows that, but with several the one
that takes the directory away and the one that puts it back may differ. `DaemonInv` ties each round
of reading to the policy of its host, so that what is made at the end is of that policy.

In `ProxyExchange`, `Sides` relates the states of client, reply and upstream of one exchange;
an event touches one exchange and keeps its invariant.

`ServiceStartupProofs`. StartsAlone is not inductive: it says nothing of the moment before a daemon
binds. `SInv` adds three things. LockedWhileStarting: whoever is between the replacement of an
old daemon and the end of the verification has the lock. The lock's own invariant, taken from
`StartupLockProofs`, since a step of the startup is a step of the lock or leaves its files alone
(StartupLock's Withdraw and Misjudge are among them). And OneDaemon: what tells of a daemon (its
ports, its control server, its state file, a stop under way) is of one process, and a daemon
whose start is over has the state file; without that, a missing state file would not show that
nothing else is left. StartsAlone, KeepsItsState and ReturnsWhatAnswered follow from it. All of
them are under `Tidy`, which is where the code leaves something to chance (section 4).

`CertificateAuthorityProofs`. The processes are killed anywhere, so what one has seen must still
hold when it acts. MissingStays says that what was seen missing is missing when it is written:
by the lock against the other generators, and by the marker against the migration, which does not
take the authority's lock (CopyWaits). MarkTells ties marker, key and certificate; LeafTogether the
files of a leaf to the one process that may be between two of its renames. Each holds under the
conditions that the properties name (`mixed`, `torn`, no `clean`), and so does the invariant, part
by part.

`PluginSessionProofs`. NeverAbandoned relates variables that different callbacks change. The
invariant follows a plugin's one task through what it awaits: LinksFit says which connections are
in use during `infra`, `delay`, `connect` and `register`; RegisterAwaited that an answer to a
register always meets the task that sent it, and none else; SetupIsFirst that `setup()` finds no
older client; ClientFits how what a client awaits fits the state of its socket. OneConnection is
LinksFit and OneLinked. The server's part of a step leaves all of this alone, and nothing is
needed of the daemon but that its state keeps its types (TypeCorrect): it may answer late, crash, or
stay silent.

ClaimsWhatItHolds does need the daemon. Its invariant, CInv, adds to the one above what a client
that can be heard and the server have told each other (Standing). The requests that the client
awaits are the answers in its inbox followed by the frames that the server has not handled, in this
order, with losses in between; the answer to a register lists all that the server holds, the answer
to a heartbeat confirms it, a loss names nothing of it; and once the register is answered, what is
held is claimed. Each way a step can touch a connection keeps this: a request is sent
(StandingRequest), a frame is handled (StandingReply), a loss is written or read (StandingLoss,
StandingBeside), a chunk with an answer is read (StandingChunk), a request times out
(StandingAbandon). OwnTokens says that a connection only names the tokens of its own plugin,
Untouched that nothing precedes the connection, and SetupClient that a `setup()` that was shut down
has closed the client it goes on with. TLC checked CInv on `SessionFaults` before it was proved.

`StartupServiceProofs`. compareServiceVersions compares numbers of any length as strings, so its
correctness is about sequences of any length. The proof goes by the place where two sequences differ
first: `Before` is the order that an order of the elements gives, BeforeTotal and BeforeTransitive
say that it is one, and they are used three times (characters, identifiers, and the three numbers).
That a numeric identifier is below another exactly when its value is (LongerIsGreater,
FirstDigitDecides) needs induction over the digits. The library's induction theorems take an
operator and cannot be used here; AllNaturals, the same for sets of numbers, is proved from the
well-foundedness of `<` (NatLessThanWellFounded, WFMin) and serves instead.

The second part of the module is about `ServiceTransactions`. A script is data, a concatenation of
sequences that are mapped, filtered and flattened, so the invariant, InstallInv, is about
scripts as much as about the machine: the commands of a script fit the transaction (`Steps`: what
restores a prior installation is there only if there was one; in a catch block, no legacy
definition is removed), and the script under way is `Careful`: a command that removes the definition
of a legacy service comes after one that waits for the canonical service's answer, throws if there
is none and cannot be skipped. Careful sequences are composed (CarefulConcat, CarefulThen), so
ScriptFits follows the text of LinuxInstall, WindowsInstall, MacInstall and the others, and
RollbackFits, MendFits and HandBackFits that of the catch blocks; GuardedTail takes one command away.
EffectFits and AfterFailureFits say what a command does to the definitions, when it succeeds and
when it fails. The scripts of the uninstallations are exempt, as DeletedOnlyAfterReady says, and so
is a start that leaves the running service alone, which the property counts as answered.

KeepsTheNewest rests on a second invariant, NewestInv, over the same scripts. Of an installation,
the version is not older than what was found (FoundOlder, PromotedFits), and its record is committed
or a commit that can neither be skipped nor ignored is still to come, with nothing behind it that
replaces that record (`Settled`, shown of the three scripts by InstallsCommit). A start finds what
it keeps (FoundNewer) and has no command that writes a record (UnrecordedStarts); FailureRecords
covers the commands that fail and are ignored. That a record of format 1 has no version, and None
is no record, are facts about the records that the proof needs and TargetsAssumption and `Record`
state.

OneOwnerAtBoot has a third invariant, OwnerInv, which TLC checked on `Machine`'s instance before it
was proved. A definition of a legacy service that is there has a record, so a convergence lists the
service and its script removes the definition (ListedAreReplaced); and it forgets the record only
behind that removal (`Owned`), or a failure in between would leave a definition nobody finds. Of
Beginnings this is an assumption: discovery starts from the records
(`service-installation-discovery.ts`), so a definition that an earlier version left without one, by
dying between the two, is out of reach of every convergence, and of the theorem. Of the
canonical service, the script still contains the command that defines it, and the one that enables
it, or they have run; and behind them is nothing that takes it back (`Settled` again, with other
sets of commands). Composed states each script as what goes before, what renews the canonical
service, and what removes the legacy ones, and ScriptOwns follows from the parts. EffectMoves,
MovesLeave and FailureLeaves say what each command does to the definitions, to what is enabled and to
what is listed, whether or not it works, StepAdvances what that means to the script. A catch
block neither defines nor forgets a legacy service, which InstallInv says of it already.

`StartupRollbackProofs`. AtMostOneRestored looks at the end of a catch block, but what makes it true
is spread over the whole transaction, so OffInv, a fourth invariant over the scripts (checked by TLC
like the others), says for each phase why nothing else gets enabled. While the convergence goes
forward, no service that is kept off is enabled. On Linux and Windows that is plain from the
commands, which disable legacy services and enable the canonical one only (`Lawful`). On macOS the
canonical service is disabled too, and enabled again when it is replaced: MacForward says that
each service is disabled, quiesced and enabled in that order (`Orderly`), and that the way back a
disable has put on the stack is dropped by the quiesce behind it (`Paired`, `Withdrawn`), so that what
the rollback finds there enables no other service than the one to return to (`Successor`). A catch
block is then of one of two kinds. Either it restores one service, and has nothing behind that which
enables another, since those commands run only while nothing is restored (`Restores`, `Calm`); or all
it enables is one and the same service (`Returns`). MacNext carries the forward part over each
command on macOS, RestoresNext and SucceedReturns the two kinds of catch blocks; SkipStepOff,
SucceedOff, FailOff, KilledOff and EndPhaseOff are the actions, and ConvergeOff shows that every
script begins in OffInv. That the legacy services are distinct is an assumption (TargetsAssumption):
the code keeps them by namespace, each of which has its own record. `unsure`, which AtMostOneRestored
excludes, notes that a command failed, or the process died, where `NoWayBack` held.

Only model-checked:

* Liveness (ClosedConnectionsExpire, DeadLocksAreCleared, OwnedIsServed, StaleClaimsEnd,
  LetsGoAfterSetup), which is out of the prover's reach.
* RecordTellsTheRuntime of `ServiceTransactions`: it needs what the commands that are left, and those
  of the catch block that a failure of each would begin, make of the runtime, the backups and the
  record together, on a machine that earlier transactions may have left half way.
* The findings, which are counterexamples.

## 6. Left out

* pid reuse, and a reboot, after which every older lock is stale at once; clocks that jump.
* Request ids, protocol versions (except as "invalid" and as the protocol a service speaks), texts,
  the upstream data of routes.
* In the status of an update, a version that does not parse and a control socket that changed: both
  count as `modified`, like other bytes in the runtime, and lead to the same transaction.
* The headers, bodies, trailers and flow control of exchanges; timeouts, of which the proxy has none.
* The text of definitions and scripts, of certificates and their expiry, and what openssl and the
  service managers do beyond succeeding, failing, and failing after the effect.
* `migrateImports`, which copies directories that are not there yet, and the waiting for the
  migration lock, which is taken in one step.
* `doctor` and the other read-only reports; argument parsing; formatting of names and paths; finding
  the checkout; spawning of processes and changes of privileges. None keeps state that another step
  reads, so there is nothing for an interleaving to disturb.
## 7. Plan

In this order; the first items carry the behaviour users notice.

1. RecordTellsTheRuntime for `ServiceTransactions`, from InstallInv: what the commands that are left of
   a script, and those of the catch block that a failure would begin, make of the runtime and the
   record.
2. An abstract specification of the startup (at most one daemon answers on a socket path) and the
   refinement; `migrateImports` with the marker of `CertificateAuthority`.
