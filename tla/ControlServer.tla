--------------------------- MODULE ControlServer ---------------------------
(***************************************************************************)
(* The control service of the daemon (control-server.ts over               *)
(* route-registry.ts): the connections, the frames they have sent and the  *)
(* server has not finished, and the one queue that makes the operations of *)
(* all connections run one at a time.                                      *)
(*                                                                         *)
(* A connection waits in queue at most once, for the first of its          *)
(* unfinished frames; when that operation ends, its next frame goes to the *)
(* back of the queue.  The cleanup of a connection that ended is an        *)
(* operation like any other, behind the frames the connection had sent.    *)
(* Only register waits in the middle of its operation, for validateRoutes. *)
(*                                                                         *)
(* The frames the server writes in one synchronous loop for one            *)
(* registration (one route-lost frame per hostname) are one message with   *)
(* the set of the hostnames.  Request ids, versions and texts are left out.*)
(***************************************************************************)
EXTENDS Sequences, Naturals, RouteRegistry

CONSTANTS
  TokensOf,     \* per connection: the owner tokens the client behind it uses
  Requests,     \* the frames clients may send
  MaxFrames     \* bound: unfinished frames of one connection

Connection == Lease

RouteRequest == [type : {"register", "unregister", "heartbeat"},
                 ownerToken : OwnerToken,
                 hostnames : SUBSET Hostname]

\* "invalid" is any frame that parseControlFrame refuses.
PlainRequest == [type : {"negotiate", "health", "stop-if-idle", "invalid"}]

Cleanup == [type |-> "cleanup"]

Frame == RouteRequest \cup PlainRequest \cup {Cleanup}

ServerMessage ==
       [type : {"registered", "unregistered", "heartbeat", "route-lost"},
        hostnames : SUBSET Hostname]
  \cup [type : {"negotiated", "healthy"}, activeRoutes : Nat]
  \cup [type : {"stopping", "error"}]

ASSUME ServerAssumption ==
  /\ IsFiniteSet(Hostname)
  /\ TokensOf \in [Connection -> SUBSET OwnerToken]
  /\ Requests \subseteq RouteRequest \cup PlainRequest
  /\ MaxFrames \in Nat

VARIABLES
  routes,             \* the registry's #routes
  listeners,          \* the registry's #listeners: per owner, the subscribed connections
  socket,             \* per connection: "none", "open", "ended" or "destroyed"
  ownerTokens,        \* per connection: the owners it has registered routes for
  frames,             \* per connection: its unfinished operations, oldest first
  cleanupScheduled,   \* per connection
  cleaned,            \* per connection
  queue,              \* the connections in line for their next operation
  validating,         \* the operation at the head of queue awaits validateRoutes
  sent,               \* per connection: what the last step wrote to its socket
  stopRequested,      \* a stop-if-idle was granted, its onStopRequested has not run
  running             \* the daemon has not begun to stop

registryVars == <<routes, listeners>>
connectionVars == <<socket, ownerTokens, cleanupScheduled, cleaned>>
daemonVars == <<stopRequested, running>>
vars == <<registryVars, connectionVars, frames, queue, validating, sent, daemonVars>>

-----------------------------------------------------------------------------

TypeOK ==
  /\ routes \in RouteTable
  /\ listeners \in [OwnerToken -> SUBSET Connection]
  /\ socket \in [Connection -> {"none", "open", "ended", "destroyed"}]
  /\ ownerTokens \in [Connection -> SUBSET OwnerToken]
  /\ frames \in [Connection -> Seq(Frame)]
  /\ cleanupScheduled \in [Connection -> BOOLEAN]
  /\ cleaned \in [Connection -> BOOLEAN]
  /\ queue \in Seq(Connection)
  /\ validating \in BOOLEAN
  /\ sent \in [Connection -> Seq(ServerMessage)]
  /\ stopRequested \in BOOLEAN
  /\ running \in BOOLEAN

Silence == [c \in Connection |-> <<>>]

Init ==
  /\ routes = EmptyTable
  /\ listeners = [o \in OwnerToken |-> {}]
  /\ socket = [c \in Connection |-> "none"]
  /\ ownerTokens = [c \in Connection |-> {}]
  /\ frames = [c \in Connection |-> <<>>]
  /\ cleanupScheduled = [c \in Connection |-> FALSE]
  /\ cleaned = [c \in Connection |-> FALSE]
  /\ queue = <<>>
  /\ validating = FALSE
  /\ sent = Silence
  /\ stopRequested = FALSE
  /\ running = TRUE

-----------------------------------------------------------------------------
(* The queue of operations.                                                *)

\* Mistake to be caught: the cleanup overtakes what the connection had sent.
EnqueueCleanupFirst(c, frame) ==
  /\ frames' = [frames EXCEPT ![c] = IF frame = Cleanup THEN <<frame>> \o @
                                                       ELSE Append(@, frame)]
  /\ queue' = IF frames[c] = <<>> THEN Append(queue, c) ELSE queue

\* The promise chain of c gets one more operation, and c joins the queue
\* unless an earlier operation of c is still there.
Enqueue(c, frame) ==
  /\ frames' = [frames EXCEPT ![c] = Append(@, frame)]
  /\ queue' = IF frames[c] = <<>> THEN Append(queue, c) ELSE queue

\* It is c's turn, for an operation of this type.
Turn(c, type) ==
  /\ queue # <<>>
  /\ c = Head(queue)
  /\ frames[c] # <<>>
  /\ Head(frames[c]).type = type

\* Mistake to be caught: the connection does not rejoin the queue.
FinishForGood(c) ==
  /\ frames' = [frames EXCEPT ![c] = Tail(@)]
  /\ queue' = Tail(queue)

\* The operation at the head is over: the connection's next one goes to the
\* back of the queue.
Finish(c) ==
  /\ frames' = [frames EXCEPT ![c] = Tail(@)]
  /\ queue' = IF Tail(frames[c]) = <<>> THEN Tail(queue) ELSE Append(Tail(queue), c)

\* writeMessage: nothing reaches a peer that has ended or a destroyed socket.
Written(c, messages) == IF socket[c] = "open" THEN messages ELSE <<>>

Reply(c, message) ==
  sent' = [d \in Connection |-> IF d = c THEN Written(c, <<message>>) ELSE <<>>]

-----------------------------------------------------------------------------
(* Clients and sockets.                                                    *)

\* #handleConnection
Connect(c) ==
  /\ running
  /\ socket[c] = "none"
  /\ socket' = [socket EXCEPT ![c] = "open"]
  /\ sent' = Silence
  /\ UNCHANGED <<registryVars, ownerTokens, cleanupScheduled, cleaned, frames, queue,
                 validating, daemonVars>>

\* #handleData: one complete frame has arrived.
Receive(c, request) ==
  /\ socket[c] = "open"
  /\ Len(frames[c]) < MaxFrames
  /\ request \in RouteRequest => request.ownerToken \in TokensOf[c]
  /\ Enqueue(c, request)
  /\ sent' = Silence
  /\ UNCHANGED <<registryVars, connectionVars, validating, daemonVars>>

\* #handleData: the buffer has outgrown MAX_BUFFER_BYTES.  The frames already
\* received stay in line; the close event comes later.
ReceiveOversized(c) ==
  /\ socket[c] = "open"
  /\ Reply(c, [type |-> "error"])
  /\ socket' = [socket EXCEPT ![c] = "destroyed"]
  /\ UNCHANGED <<registryVars, ownerTokens, cleanupScheduled, cleaned, frames, queue,
                 validating, daemonVars>>

\* Mistake to be caught: one cleanup per event, not per connection.
ScheduleCleanupAgain(c) ==
  /\ cleanupScheduled' = [cleanupScheduled EXCEPT ![c] = TRUE]
  /\ Enqueue(c, Cleanup)

\* #scheduleCleanup, once per connection.
ScheduleCleanup(c) ==
  /\ ~cleanupScheduled[c]
  /\ cleanupScheduled' = [cleanupScheduled EXCEPT ![c] = TRUE]
  /\ Enqueue(c, Cleanup)

\* The client ends the connection: the 'end' event.
EndEvent(c) ==
  /\ socket[c] = "open"
  /\ socket' = [socket EXCEPT ![c] = "ended"]
  /\ ScheduleCleanup(c)
  /\ sent' = Silence
  /\ UNCHANGED <<registryVars, ownerTokens, cleaned, validating, daemonVars>>

\* The connection is reset: the 'error' event, on a socket Node has destroyed.
ErrorEvent(c) ==
  /\ socket[c] = "open"
  /\ socket' = [socket EXCEPT ![c] = "destroyed"]
  /\ ScheduleCleanup(c)
  /\ sent' = Silence
  /\ UNCHANGED <<registryVars, ownerTokens, cleaned, validating, daemonVars>>

\* The 'close' event of a socket the server destroyed itself.
CloseEvent(c) ==
  /\ socket[c] = "destroyed"
  /\ ScheduleCleanup(c)
  /\ sent' = Silence
  /\ UNCHANGED <<registryVars, socket, ownerTokens, cleaned, validating, daemonVars>>

-----------------------------------------------------------------------------
(* #processMessage, one action per message type.                           *)

Negotiate(c) ==
  /\ Turn(c, "negotiate")
  /\ Reply(c, [type |-> "negotiated", activeRoutes |-> Size(routes)])
  /\ Finish(c)
  /\ UNCHANGED <<registryVars, connectionVars, validating, daemonVars>>

Health(c) ==
  /\ Turn(c, "health")
  /\ Reply(c, [type |-> "healthy", activeRoutes |-> Size(routes)])
  /\ Finish(c)
  /\ UNCHANGED <<registryVars, connectionVars, validating, daemonVars>>

Invalid(c) ==
  /\ Turn(c, "invalid")
  /\ Reply(c, [type |-> "error"])
  /\ Finish(c)
  /\ UNCHANGED <<registryVars, connectionVars, validating, daemonVars>>

\* The write's callback schedules onStopRequested even if the requester is gone.
GrantStop(c) ==
  /\ Turn(c, "stop-if-idle")
  /\ Registered(routes) = {}
  /\ Reply(c, [type |-> "stopping"])
  /\ stopRequested' = TRUE
  /\ Finish(c)
  /\ UNCHANGED <<registryVars, connectionVars, validating, running>>

RefuseStop(c) ==
  /\ Turn(c, "stop-if-idle")
  /\ Registered(routes) # {}
  /\ Reply(c, [type |-> "error"])
  /\ Finish(c)
  /\ UNCHANGED <<registryVars, connectionVars, validating, daemonVars>>

BeginRegister(c) ==
  /\ Turn(c, "register")
  /\ ~validating
  /\ validating' = TRUE
  /\ sent' = Silence
  /\ UNCHANGED <<registryVars, connectionVars, frames, queue, daemonVars>>

\* Who must be told that the registration of this request takes routes over:
\* every connection subscribed to the losing owner, before the requester has
\* subscribed to its own token.
LostBy(d, request) ==
  {h \in request.hostnames :
     \E o \in OwnerToken : /\ d \in listeners[o]
                           /\ h \in TakenFrom(routes, request.ownerToken,
                                              request.hostnames, o)}

TakeoverMessages(d, request) ==
  IF LostBy(d, request) = {} THEN <<>>
  ELSE << [type |-> "route-lost", hostnames |-> LostBy(d, request)] >>

\* validateRoutes resolved.  It cannot once the daemon stops: stop() takes the
\* TLS listeners away first, and validateRoutes checks for them last.
FinishRegister(c) ==
  /\ Turn(c, "register")
  /\ validating
  /\ running
  /\ LET request == Head(frames[c]) IN
       /\ routes' = RegisterMany(routes, request.ownerToken, request.hostnames, c)
       /\ ownerTokens' = [ownerTokens EXCEPT ![c] = @ \cup {request.ownerToken}]
       /\ listeners' = [listeners EXCEPT ![request.ownerToken] = @ \cup {c}]
       /\ sent' = [d \in Connection |->
             Written(d, TakeoverMessages(d, request) \o
                        IF d = c THEN << [type |-> "registered",
                                          hostnames |-> request.hostnames] >>
                                 ELSE <<>>)]
  /\ validating' = FALSE
  /\ Finish(c)
  /\ UNCHANGED <<socket, cleanupScheduled, cleaned, daemonVars>>

\* validateRoutes rejected: nothing of the request is registered.
FailRegister(c) ==
  /\ Turn(c, "register")
  /\ validating
  /\ validating' = FALSE
  /\ Reply(c, [type |-> "error"])
  /\ Finish(c)
  /\ UNCHANGED <<registryVars, connectionVars, daemonVars>>

Unregister(c) ==
  /\ Turn(c, "unregister")
  /\ LET request == Head(frames[c]) IN
       /\ routes' = UnregisterMany(routes, request.ownerToken, request.hostnames, c)
       /\ Reply(c, [type |-> "unregistered",
                    hostnames |-> ActiveHostnames(routes, request.ownerToken,
                                                  request.hostnames, c)])
  /\ Finish(c)
  /\ UNCHANGED <<listeners, connectionVars, validating, daemonVars>>

Heartbeat(c) ==
  /\ Turn(c, "heartbeat")
  /\ LET request == Head(frames[c]) IN
       Reply(c, [type |-> "heartbeat",
                 hostnames |-> ActiveHostnames(routes, request.ownerToken,
                                               request.hostnames, c)])
  /\ Finish(c)
  /\ UNCHANGED <<registryVars, connectionVars, validating, daemonVars>>

\* Mistake to be caught: the subscriptions are not removed.
CleanupKeepsListeners(c) ==
  /\ Turn(c, "cleanup")
  /\ cleaned' = [cleaned EXCEPT ![c] = TRUE]
  /\ routes' = UnregisterOwners(routes, ownerTokens[c], c)
  /\ Finish(c)
  /\ sent' = Silence
  /\ UNCHANGED <<listeners, socket, ownerTokens, cleanupScheduled, validating, daemonVars>>

\* Mistake to be caught: all the subscriptions of the owner are removed.
CleanupDropsOwner(c) ==
  /\ Turn(c, "cleanup")
  /\ cleaned' = [cleaned EXCEPT ![c] = TRUE]
  /\ routes' = UnregisterOwners(routes, ownerTokens[c], c)
  /\ listeners' = [o \in OwnerToken |-> IF o \in ownerTokens[c] THEN {} ELSE listeners[o]]
  /\ Finish(c)
  /\ sent' = Silence
  /\ UNCHANGED <<socket, ownerTokens, cleanupScheduled, validating, daemonVars>>

\* #cleanupConnection
CleanupConnection(c) ==
  /\ Turn(c, "cleanup")
  /\ cleaned' = [cleaned EXCEPT ![c] = TRUE]
  /\ routes' = UnregisterOwners(routes, ownerTokens[c], c)
  /\ listeners' = [o \in OwnerToken |-> IF o \in ownerTokens[c] THEN listeners[o] \ {c}
                                                               ELSE listeners[o]]
  /\ Finish(c)
  /\ sent' = Silence
  /\ UNCHANGED <<socket, ownerTokens, cleanupScheduled, validating, daemonVars>>

-----------------------------------------------------------------------------
(* The daemon stops: LocalTlsDaemon.stop and, in it, ControlServer.stop.   *)
(* Every socket is destroyed at once; the close events come later.         *)

StopDaemon ==
  /\ running
  /\ running' = FALSE
  /\ socket' = [c \in Connection |-> IF socket[c] = "open" THEN "destroyed" ELSE socket[c]]
  /\ sent' = Silence
  /\ UNCHANGED <<registryVars, ownerTokens, cleanupScheduled, cleaned, frames, queue,
                 validating>>

\* onStopRequested, from setImmediate, after a granted stop-if-idle.
StopWhenIdle == stopRequested /\ StopDaemon /\ stopRequested' = FALSE

\* The service manager or a signal stops the daemon, idle or not.
StopBySignal == StopDaemon /\ UNCHANGED stopRequested

-----------------------------------------------------------------------------

Process(c) ==
  \/ Negotiate(c) \/ Health(c) \/ Invalid(c)
  \/ GrantStop(c) \/ RefuseStop(c)
  \/ BeginRegister(c) \/ FinishRegister(c) \/ FailRegister(c)
  \/ Unregister(c) \/ Heartbeat(c)
  \/ CleanupConnection(c)

Client(c) ==
  \/ Connect(c)
  \/ \E request \in Requests : Receive(c, request)
  \/ ReceiveOversized(c)
  \/ EndEvent(c) \/ ErrorEvent(c) \/ CloseEvent(c)

Next ==
  \/ \E c \in Connection : Client(c) \/ Process(c)
  \/ StopWhenIdle
  \/ StopBySignal

Spec == Init /\ [][Next]_vars

\* Node's event loop runs what is ready: operations at the head of the queue
\* (validateRoutes settles: it only reads and writes files), the close event of
\* a destroyed socket, and a scheduled setImmediate.
Fairness ==
  /\ \A c \in Connection : WF_vars(Process(c)) /\ WF_vars(CloseEvent(c))
  /\ WF_vars(StopWhenIdle)

FairSpec == Spec /\ Fairness

-----------------------------------------------------------------------------
(* Properties.                                                             *)

\* Every route is held by a connection that has not been cleaned up and that
\* will remove the route when it is: no dead connection, whatever it had still
\* in line when it ended, leaves a route behind (cleanupConnection).
NoOrphanRoute ==
  \A h \in Registered(routes) :
    /\ ~cleaned[routes[h].leaseId]
    /\ routes[h].ownerToken \in ownerTokens[routes[h].leaseId]

\* The registry's listeners are exactly the subscriptions of the connections
\* that are not cleaned up: no takeover goes unheard, and no listener leaks.
SubscriptionsMatch ==
  \A o \in OwnerToken :
    listeners[o] = {c \in Connection : o \in ownerTokens[c] /\ ~cleaned[c]}

\* The cleanup of a connection is its last operation: nothing can run on
\* behalf of a connection after its routes were removed.
CleanupIsLast ==
  \A c \in Connection :
    /\ cleaned[c] => cleanupScheduled[c] /\ frames[c] = <<>>
    /\ \A i \in 1..Len(frames[c]) :
         frames[c][i].type = "cleanup" => cleanupScheduled[c] /\ i = Len(frames[c])

\* A route leaves its holder only on the holder's own connection, unless a
\* newer registration replaces it.  README: "An older process cannot remove
\* the newer route when it exits."
OnlyTheLeaseRemoves ==
  [][\A h \in Hostname :
       routes[h] # NoRoute /\ routes'[h] = NoRoute
         => Head(queue) = routes[h].leaseId]_vars

\* When an owner loses a hostname to another owner, the connection that held
\* it is told at once if its socket is still open.
TakeoverIsTold ==
  [][\A h \in Registered(routes) :
       LET lease == routes[h].leaseId IN
       /\ routes'[h] # NoRoute
       /\ routes'[h].ownerToken # routes[h].ownerToken
       /\ socket[lease] = "open"
       => \E i \in 1..Len(sent'[lease]) :
            /\ sent'[lease][i].type = "route-lost"
            /\ h \in sent'[lease][i].hostnames]_vars

\* A granted stop-if-idle stops an idle daemon.  README: "`proxy stop` refuses
\* to stop while routes are active."
StopsOnlyWhenIdle == [][StopWhenIdle => Registered(routes) = {}]_vars

\* Once a connection is no longer open, its routes are eventually gone.
ClosedConnectionsExpire ==
  \A c \in Connection :
    socket[c] \in {"ended", "destroyed"}
      ~> (cleaned[c] /\ \A h \in Registered(routes) : routes[h].leaseId # c)

\* The service keeps the promise of RouteOwnership.
HolderOf(h) == IF routes[h] = NoRoute THEN NoRoute ELSE routes[h].leaseId

Ownership == INSTANCE RouteOwnership WITH
  Nobody <- NoRoute,
  holder <- [h \in Hostname |-> HolderOf(h)],
  ended  <- {c \in Connection : cleaned[c]}

ImplementsOwnership == Ownership!OwnershipSpec
=============================================================================
