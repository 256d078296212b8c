------------------------ MODULE ControlServerProofs ------------------------
(***************************************************************************)
(* Proofs about ControlServer, for every set of connections, owners and    *)
(* hostnames and every choice of the bounds.                               *)
(***************************************************************************)
EXTENDS ControlServer, FiniteSetTheorems, SequenceTheorems, TLAPS

\* A connection with a cleanup scheduled sends no more frames.
InputIsClosed ==
  \A c \in Connection : cleanupScheduled[c] => socket[c] \in {"ended", "destroyed"}

\* The inductive invariant.  NoOrphanRoute needs CleanupIsLast, because a
\* frame that ran after the cleanup could register a route; CleanupIsLast
\* needs InputIsClosed, because a frame could arrive after the cleanup.
IInv ==
  /\ TypeOK
  /\ InputIsClosed
  /\ CleanupIsLast
  /\ NoOrphanRoute
  /\ SubscriptionsMatch

-----------------------------------------------------------------------------
(* The route table.                                                        *)

\* Registering routes for an owner and a lease gives a route table
\* (registerMany in route-registry.ts).
LEMMA RegisterManyType ==
  ASSUME NEW table \in RouteTable, NEW owner \in OwnerToken, NEW lease \in Lease,
         NEW hs \in SUBSET Hostname
  PROVE  RegisterMany(table, owner, hs, lease) \in RouteTable
BY DEF RegisterMany, RouteTable, ActiveRoute

\* Removing hostnames gives a route table (unregisterMany, unregisterOwner).
LEMMA WithoutType ==
  ASSUME NEW table \in RouteTable, NEW hs
  PROVE  Without(table, hs) \in RouteTable
BY DEF Without, RouteTable

\* The number of routes is a natural number (the registry's size).
LEMMA SizeType ==
  ASSUME NEW table \in RouteTable
  PROVE  Size(table) \in Nat
<1>1. Registered(table) \subseteq Hostname
  BY DEF Registered
<1>2. IsFiniteSet(Registered(table))
  BY <1>1, ServerAssumption, FS_Subset
<1> QED BY <1>2, FS_CardinalityType DEF Size

-----------------------------------------------------------------------------
(* The queue of operations.                                                *)

\* Whoever's turn it is, is a connection, and its oldest frame is a frame.
LEMMA TurnType ==
  ASSUME TypeOK, NEW c, NEW type, Turn(c, type)
  PROVE  /\ c \in Connection
         /\ frames[c] \in Seq(Frame)
         /\ Len(frames[c]) > 0
         /\ Head(frames[c]) \in Frame
         /\ Head(frames[c]) = frames[c][1]
         /\ frames[c][1].type = type
         /\ Tail(frames[c]) \in Seq(Frame)
         /\ Len(Tail(frames[c])) = Len(frames[c]) - 1
         /\ \A i \in 1..Len(Tail(frames[c])) : Tail(frames[c])[i] = frames[c][i + 1]
BY DEF TypeOK, Turn

\* Finishing an operation keeps the types of the queue and of the frames.
LEMMA FinishType ==
  ASSUME TypeOK, NEW c, NEW type, Turn(c, type), Finish(c)
  PROVE  /\ frames' \in [Connection -> Seq(Frame)]
         /\ queue' \in Seq(Connection)
<1>1. c \in Connection /\ Tail(frames[c]) \in Seq(Frame)
  BY TurnType
<1>2. Tail(queue) \in Seq(Connection)
  BY DEF TypeOK, Turn
<1> QED BY <1>1, <1>2 DEF Finish, TypeOK

\* Adding an operation keeps the types of the queue and of the frames.
LEMMA EnqueueType ==
  ASSUME TypeOK, NEW c \in Connection, NEW frame \in Frame, Enqueue(c, frame)
  PROVE  /\ frames' \in [Connection -> Seq(Frame)]
         /\ queue' \in Seq(Connection)
BY DEF Enqueue, TypeOK

\* Writing one message keeps the type of what was written.
LEMMA ReplyType ==
  ASSUME NEW c \in Connection, NEW message \in ServerMessage, Reply(c, message)
  PROVE  sent' \in [Connection -> Seq(ServerMessage)]
BY DEF Reply, Written

\* Writing nothing keeps it too.
LEMMA SilenceType == Silence \in [Connection -> Seq(ServerMessage)]
BY DEF Silence

\* The messages the server writes are server messages.
LEMMA MessageType ==
  /\ [type |-> "error"] \in ServerMessage
  /\ [type |-> "stopping"] \in ServerMessage
  /\ \A n \in Nat : /\ [type |-> "healthy", activeRoutes |-> n] \in ServerMessage
                    /\ [type |-> "negotiated", activeRoutes |-> n] \in ServerMessage
  /\ \A hs \in SUBSET Hostname :
       /\ [type |-> "registered", hostnames |-> hs] \in ServerMessage
       /\ [type |-> "unregistered", hostnames |-> hs] \in ServerMessage
       /\ [type |-> "heartbeat", hostnames |-> hs] \in ServerMessage
       /\ [type |-> "route-lost", hostnames |-> hs] \in ServerMessage
BY DEF ServerMessage

\* One server message makes a sequence of server messages.
LEMMA SingleMessage ==
  ASSUME NEW message \in ServerMessage
  PROVE  <<message>> \in Seq(ServerMessage)
OBVIOUS

\* A frame of type register, unregister or heartbeat names an owner and
\* hostnames.
LEMMA RouteFrame ==
  ASSUME NEW frame \in Frame, frame.type \in {"register", "unregister", "heartbeat"}
  PROVE  /\ frame.ownerToken \in OwnerToken
         /\ frame.hostnames \in SUBSET Hostname
BY DEF Frame, RouteRequest, PlainRequest, Cleanup

-----------------------------------------------------------------------------
(* Type correctness.                                                       *)

\* Every step of the service keeps the types of its state.
LEMMA TypeStep == TypeOK /\ [Next]_vars => TypeOK'
<1> SUFFICES ASSUME TypeOK, [Next]_vars PROVE TypeOK'
  OBVIOUS
<1> USE DEF Connection
<1>1. ASSUME NEW c \in Connection,
             \/ Connect(c)
             \/ \E request \in Requests : Receive(c, request)
             \/ ReceiveOversized(c)
      PROVE  TypeOK'
  <2>1. CASE Connect(c)
    BY <2>1, SilenceType DEF TypeOK, Connect, registryVars, daemonVars
  <2>2. CASE \E request \in Requests : Receive(c, request)
    <3>1. PICK request \in Requests : Receive(c, request)
      BY <2>2
    <3>2. request \in Frame
      BY ServerAssumption DEF Frame
    <3>3. frames' \in [Connection -> Seq(Frame)] /\ queue' \in Seq(Connection)
      BY <3>1, <3>2, EnqueueType DEF Receive
    <3> QED BY <3>1, <3>3, SilenceType
            DEF TypeOK, Receive, registryVars, connectionVars, daemonVars
  <2>3. CASE ReceiveOversized(c)
    <3>1. sent' \in [Connection -> Seq(ServerMessage)]
      BY <2>3, ReplyType, MessageType DEF ReceiveOversized
    <3> QED BY <2>3, <3>1 DEF TypeOK, ReceiveOversized, registryVars, daemonVars
  <2> QED BY <1>1, <2>1, <2>2, <2>3
<1>2. ASSUME NEW c \in Connection, EndEvent(c) \/ ErrorEvent(c) \/ CloseEvent(c)
      PROVE  TypeOK'
  <2>1. ScheduleCleanup(c)
    BY <1>2 DEF EndEvent, ErrorEvent, CloseEvent
  <2>2. Cleanup \in Frame
    BY DEF Frame
  <2>3. frames' \in [Connection -> Seq(Frame)] /\ queue' \in Seq(Connection)
    BY <2>1, <2>2, EnqueueType DEF ScheduleCleanup
  <2> QED BY <1>2, <2>1, <2>3, SilenceType
          DEF TypeOK, EndEvent, ErrorEvent, CloseEvent, ScheduleCleanup, registryVars, daemonVars
<1>3. ASSUME NEW c \in Connection,
             \/ Negotiate(c) \/ Health(c) \/ Invalid(c)
             \/ GrantStop(c) \/ RefuseStop(c)
      PROVE  TypeOK'
  <2>1. PICK type : Turn(c, type)
    BY <1>3 DEF Negotiate, Health, Invalid, GrantStop, RefuseStop
  <2>2. Finish(c)
    BY <1>3 DEF Negotiate, Health, Invalid, GrantStop, RefuseStop
  <2>3. frames' \in [Connection -> Seq(Frame)] /\ queue' \in Seq(Connection)
    BY <2>1, <2>2, FinishType
  <2>4. Size(routes) \in Nat
    BY SizeType DEF TypeOK
  <2>5. PICK message \in ServerMessage : Reply(c, message)
    BY <1>3, <2>4, MessageType DEF Negotiate, Health, Invalid, GrantStop, RefuseStop
  <2>6. sent' \in [Connection -> Seq(ServerMessage)]
    BY <2>5, ReplyType
  <2> QED BY <1>3, <2>3, <2>6
          DEF TypeOK, Negotiate, Health, Invalid, GrantStop, RefuseStop,
              registryVars, connectionVars, daemonVars
<1>4. ASSUME NEW c \in Connection,
             BeginRegister(c) \/ FailRegister(c) \/ Heartbeat(c)
      PROVE  TypeOK'
  <2>1. CASE BeginRegister(c)
    BY <2>1, SilenceType
       DEF TypeOK, BeginRegister, registryVars, connectionVars, daemonVars
  <2>2. CASE FailRegister(c)
    <3>1. frames' \in [Connection -> Seq(Frame)] /\ queue' \in Seq(Connection)
      BY <2>2, FinishType DEF FailRegister
    <3>2. sent' \in [Connection -> Seq(ServerMessage)]
      BY <2>2, MessageType, ReplyType DEF FailRegister
    <3> QED BY <2>2, <3>1, <3>2
            DEF TypeOK, FailRegister, registryVars, connectionVars, daemonVars
  <2>3. CASE Heartbeat(c)
    <3>1. frames' \in [Connection -> Seq(Frame)] /\ queue' \in Seq(Connection)
      BY <2>3, FinishType DEF Heartbeat
    <3> DEFINE r == Head(frames[c])
               active == ActiveHostnames(routes, r.ownerToken, r.hostnames, c)
    <3>2. active \in SUBSET Hostname
      BY <2>3, TurnType, RouteFrame DEF Heartbeat, ActiveHostnames
    <3>3. sent' \in [Connection -> Seq(ServerMessage)]
      BY <2>3, <3>2, MessageType, ReplyType DEF Heartbeat
    <3> QED BY <2>3, <3>1, <3>3
            DEF TypeOK, Heartbeat, registryVars, connectionVars, daemonVars
  <2> QED BY <1>4, <2>1, <2>2, <2>3
<1>5. ASSUME NEW c \in Connection, FinishRegister(c) PROVE TypeOK'
  <2> DEFINE r == Head(frames[c])
  <2>1. r.ownerToken \in OwnerToken /\ r.hostnames \in SUBSET Hostname
    BY <1>5, TurnType, RouteFrame DEF FinishRegister
  <2>2. frames' \in [Connection -> Seq(Frame)] /\ queue' \in Seq(Connection)
    BY <1>5, FinishType DEF FinishRegister
  <2>3. routes' \in RouteTable
    BY <1>5, <2>1, RegisterManyType DEF FinishRegister, TypeOK
  <2>4. ASSUME NEW d \in Connection
        PROVE  TakeoverMessages(d, r) \in Seq(ServerMessage)
    <3>1. LostBy(d, r) \in SUBSET Hostname
      BY <2>1 DEF LostBy
    <3>2. [type |-> "route-lost", hostnames |-> LostBy(d, r)] \in ServerMessage
      BY <3>1, MessageType
    <3>3. << [type |-> "route-lost", hostnames |-> LostBy(d, r)] >> \in Seq(ServerMessage)
      BY <3>2, SingleMessage
    <3>4. <<>> \in Seq(ServerMessage)
      OBVIOUS
    <3> QED BY <3>3, <3>4 DEF TakeoverMessages
  <2>5. << [type |-> "registered", hostnames |-> r.hostnames] >> \in Seq(ServerMessage)
    <3>1. [type |-> "registered", hostnames |-> r.hostnames] \in ServerMessage
      BY <2>1, MessageType
    <3> QED BY <3>1, SingleMessage
  <2>6. sent' \in [Connection -> Seq(ServerMessage)]
    BY <1>5, <2>4, <2>5 DEF FinishRegister, Written
  <2> QED BY <1>5, <2>1, <2>2, <2>3, <2>6
          DEF TypeOK, FinishRegister, daemonVars
<1>6. ASSUME NEW c \in Connection, Unregister(c) PROVE TypeOK'
  <2> DEFINE r == Head(frames[c])
             active == ActiveHostnames(routes, r.ownerToken, r.hostnames, c)
  <2>1. active \in SUBSET Hostname
    BY <1>6, TurnType, RouteFrame DEF Unregister, ActiveHostnames
  <2>2. routes' \in RouteTable
    BY <1>6, WithoutType DEF Unregister, UnregisterMany, TypeOK
  <2>3. sent' \in [Connection -> Seq(ServerMessage)]
    BY <1>6, <2>1, MessageType, ReplyType DEF Unregister
  <2>4. frames' \in [Connection -> Seq(Frame)] /\ queue' \in Seq(Connection)
    BY <1>6, FinishType DEF Unregister
  <2> QED BY <1>6, <2>2, <2>3, <2>4 DEF TypeOK, Unregister, connectionVars, daemonVars
<1>7. ASSUME NEW c \in Connection, CleanupConnection(c) PROVE TypeOK'
  <2>1. routes' \in RouteTable
    BY <1>7, WithoutType DEF CleanupConnection, UnregisterOwners, TypeOK
  <2>2. frames' \in [Connection -> Seq(Frame)] /\ queue' \in Seq(Connection)
    BY <1>7, FinishType DEF CleanupConnection
  <2> QED BY <1>7, <2>1, <2>2, SilenceType DEF TypeOK, CleanupConnection, daemonVars
<1>8. ASSUME StopDaemon, stopRequested' \in BOOLEAN \/ UNCHANGED stopRequested
      PROVE  TypeOK'
  BY <1>8, SilenceType DEF TypeOK, StopDaemon, registryVars
<1>9. ASSUME UNCHANGED vars PROVE TypeOK'
  BY <1>9 DEF TypeOK, vars, registryVars, connectionVars, daemonVars
<1> QED BY <1>1, <1>2, <1>3, <1>4, <1>5, <1>6, <1>7, <1>8, <1>9
        DEF Next, Client, Process, StopWhenIdle, StopBySignal

\* The state of the control service always has its declared types.
THEOREM TypeCorrect == Spec => []TypeOK
<1>1. ASSUME Init PROVE TypeOK
  <2>1. routes \in RouteTable
    BY <1>1 DEF Init, EmptyTable, RouteTable
  <2>2. frames \in [Connection -> Seq(Frame)] /\ queue \in Seq(Connection)
    BY <1>1 DEF Init
  <2>3. sent \in [Connection -> Seq(ServerMessage)]
    BY <1>1, SilenceType DEF Init
  <2> QED BY <1>1, <2>1, <2>2, <2>3 DEF Init, TypeOK
<1> QED BY <1>1, TypeStep, PTL DEF Spec

-----------------------------------------------------------------------------
(* The cleanup of a connection is its last operation.                      *)

CleanupOrder == InputIsClosed /\ CleanupIsLast

\* Arriving frames never come after a cleanup, a cleanup is scheduled once,
\* and finishing the oldest operation keeps the order of the others
\* (handleData, scheduleCleanup).
LEMMA CleanupOrderStep ==
  TypeOK /\ CleanupOrder /\ [Next]_vars => CleanupOrder'
<1> SUFFICES ASSUME TypeOK, CleanupOrder, [Next]_vars PROVE CleanupOrder'
  OBVIOUS
<1> USE DEF Connection
\* Finishing an operation that is not a cleanup.
<1>0. ASSUME NEW c \in Connection, NEW type, Turn(c, type), Finish(c), type # "cleanup",
             UNCHANGED <<cleaned, cleanupScheduled, socket>>
      PROVE  CleanupOrder'
  <2>1. /\ frames[c] # <<>>
        /\ Len(frames'[c]) = Len(frames[c]) - 1
        /\ \A i \in 1..Len(frames'[c]) : frames'[c][i] = frames[c][i + 1]
        /\ \A d \in Connection : d # c => frames'[d] = frames[d]
        /\ Len(frames[c]) \in Nat
    BY <1>0, TurnType DEF Finish, TypeOK
  <2>2. InputIsClosed'
    BY <1>0 DEF CleanupOrder, InputIsClosed
  <2>3. ASSUME NEW d \in Connection, cleaned'[d]
        PROVE  cleanupScheduled'[d] /\ frames'[d] = <<>>
    BY <2>1, <2>3, <1>0 DEF CleanupOrder, CleanupIsLast
  <2>4. ASSUME NEW d \in Connection, NEW i \in 1..Len(frames'[d]),
               frames'[d][i].type = "cleanup"
        PROVE  cleanupScheduled'[d] /\ i = Len(frames'[d])
    <3>1. CASE d # c
      BY <3>1, <2>1, <2>4, <1>0 DEF CleanupOrder, CleanupIsLast
    <3>2. CASE d = c
      <4>1. i + 1 \in 1..Len(frames[c]) /\ frames[c][i + 1].type = "cleanup"
        BY <3>2, <2>1, <2>4
      <4>2. cleanupScheduled[c] /\ i + 1 = Len(frames[c])
        BY <4>1 DEF CleanupOrder, CleanupIsLast
      <4> QED BY <3>2, <4>2, <2>1, <2>4, <1>0
    <3> QED BY <3>1, <3>2
  <2> QED BY <2>2, <2>3, <2>4 DEF CleanupOrder, CleanupIsLast
\* Adding an operation to a connection that has no cleanup in line.
<1>1. ASSUME NEW c \in Connection, NEW frame \in Frame, Enqueue(c, frame),
             ~cleanupScheduled[c], UNCHANGED cleaned,
             frame.type = "cleanup" => cleanupScheduled'[c],
             \A d \in Connection \ {c} : cleanupScheduled'[d] = cleanupScheduled[d]
      PROVE  CleanupIsLast'
  <2>1. /\ frames'[c] = Append(frames[c], frame)
        /\ \A d \in Connection : d # c => frames'[d] = frames[d]
        /\ frames[c] \in Seq(Frame)
    BY <1>1 DEF Enqueue, TypeOK
  <2>2. /\ Len(frames'[c]) = Len(frames[c]) + 1
        /\ \A i \in 1..Len(frames[c]) : frames'[c][i] = frames[c][i]
        /\ frames'[c][Len(frames[c]) + 1] = frame
        /\ Len(frames[c]) \in Nat
    BY <2>1
  <2>3. ~cleaned[c] /\ \A i \in 1..Len(frames[c]) : frames[c][i].type # "cleanup"
    BY <1>1 DEF CleanupOrder, CleanupIsLast
  <2>4. ASSUME NEW d \in Connection, cleaned'[d]
        PROVE  cleanupScheduled'[d] /\ frames'[d] = <<>>
    BY <2>1, <2>3, <2>4, <1>1 DEF CleanupOrder, CleanupIsLast
  <2>5. ASSUME NEW d \in Connection, NEW i \in 1..Len(frames'[d]),
               frames'[d][i].type = "cleanup"
        PROVE  cleanupScheduled'[d] /\ i = Len(frames'[d])
    <3>1. CASE d # c
      BY <3>1, <2>1, <2>5, <1>1 DEF CleanupOrder, CleanupIsLast
    <3>2. CASE d = c
      <4>1. i = Len(frames[c]) + 1
        BY <3>2, <2>2, <2>3, <2>5
      <4> QED BY <3>2, <4>1, <2>2, <2>5, <1>1
    <3> QED BY <3>1, <3>2
  <2> QED BY <2>4, <2>5 DEF CleanupIsLast
<1>2. ASSUME NEW c \in Connection, Connect(c) \/ ReceiveOversized(c) \/ BeginRegister(c)
      PROVE  CleanupOrder'
  BY <1>2 DEF CleanupOrder, CleanupIsLast, InputIsClosed, TypeOK,
              Connect, ReceiveOversized, BeginRegister, connectionVars
<1>3. ASSUME NEW c \in Connection, NEW request \in Requests, Receive(c, request)
      PROVE  CleanupOrder'
  <2>1. request \in Frame /\ request.type # "cleanup"
    BY ServerAssumption DEF Frame, RouteRequest, PlainRequest
  <2>2. ~cleanupScheduled[c]
    BY <1>3 DEF Receive, CleanupOrder, InputIsClosed
  <2>3. CleanupIsLast'
    BY <1>1, <1>3, <2>1, <2>2 DEF Receive, connectionVars
  <2> QED BY <1>3, <2>3 DEF CleanupOrder, InputIsClosed, Receive, connectionVars
<1>4. ASSUME NEW c \in Connection, EndEvent(c) \/ ErrorEvent(c) \/ CloseEvent(c)
      PROVE  CleanupOrder'
  <2>1. ScheduleCleanup(c) /\ UNCHANGED cleaned
    BY <1>4 DEF EndEvent, ErrorEvent, CloseEvent
  <2>2. /\ cleanupScheduled'[c]
        /\ \A d \in Connection \ {c} : cleanupScheduled'[d] = cleanupScheduled[d]
    BY <2>1 DEF ScheduleCleanup, TypeOK
  <2>3. CleanupIsLast'
    BY <1>1, <2>1, <2>2 DEF ScheduleCleanup, Frame
  <2>4. /\ socket'[c] \in {"ended", "destroyed"}
        /\ \A d \in Connection \ {c} : socket'[d] = socket[d]
    BY <1>4 DEF EndEvent, ErrorEvent, CloseEvent, TypeOK
  <2> QED BY <2>2, <2>3, <2>4 DEF CleanupOrder, InputIsClosed
<1>5. ASSUME NEW c \in Connection,
             \/ Negotiate(c) \/ Health(c) \/ Invalid(c)
             \/ GrantStop(c) \/ RefuseStop(c)
             \/ FinishRegister(c) \/ FailRegister(c) \/ Unregister(c) \/ Heartbeat(c)
      PROVE  CleanupOrder'
  <2>1. PICK type : Turn(c, type) /\ type # "cleanup"
    BY <1>5 DEF Negotiate, Health, Invalid, GrantStop, RefuseStop,
                FinishRegister, FailRegister, Unregister, Heartbeat
  <2>2. Finish(c) /\ UNCHANGED <<cleaned, cleanupScheduled, socket>>
    BY <1>5 DEF Negotiate, Health, Invalid, GrantStop, RefuseStop,
                FinishRegister, FailRegister, Unregister, Heartbeat, connectionVars
  <2> QED BY <1>0, <2>1, <2>2
<1>6. ASSUME NEW c \in Connection, CleanupConnection(c) PROVE CleanupOrder'
  <2>1. /\ 1 \in 1..Len(frames[c]) /\ frames[c][1].type = "cleanup"
        /\ Len(Tail(frames[c])) = Len(frames[c]) - 1
        /\ Tail(frames[c]) \in Seq(Frame)
    BY <1>6, TurnType DEF CleanupConnection
  <2>2. cleanupScheduled[c] /\ Len(frames[c]) = 1
    BY <2>1 DEF CleanupOrder, CleanupIsLast
  <2>3. Tail(frames[c]) = <<>>
    <3>1. Len(Tail(frames[c])) = 0
      BY <2>1, <2>2
    <3> QED BY <3>1, <2>1, EmptySeq
  <2>4. frames'[c] = <<>> /\ \A d \in Connection : d # c => frames'[d] = frames[d]
    BY <1>6, <2>3 DEF CleanupConnection, Finish, TypeOK
  <2>5. InputIsClosed'
    BY <1>6 DEF CleanupConnection, CleanupOrder, InputIsClosed
  <2>6. /\ cleaned'[c]
        /\ \A d \in Connection : d # c => cleaned'[d] = cleaned[d]
        /\ UNCHANGED cleanupScheduled
    BY <1>6 DEF CleanupConnection, TypeOK
  <2>7. CleanupIsLast'
    BY <2>2, <2>4, <2>6 DEF CleanupOrder, CleanupIsLast
  <2> QED BY <2>5, <2>7 DEF CleanupOrder
<1>7. ASSUME StopDaemon PROVE CleanupOrder'
  BY <1>7 DEF StopDaemon, CleanupOrder, CleanupIsLast, InputIsClosed, TypeOK
<1>8. ASSUME UNCHANGED vars PROVE CleanupOrder'
  BY <1>8 DEF CleanupOrder, CleanupIsLast, InputIsClosed, vars, connectionVars
<1> QED BY <1>2, <1>3, <1>4, <1>5, <1>6, <1>7, <1>8
        DEF Next, Client, Process, StopWhenIdle, StopBySignal

-----------------------------------------------------------------------------
(* Who holds what.                                                         *)

\* The steps that change the routes, the listeners, the owner tokens or who is
\* cleaned up are FinishRegister, Unregister and CleanupConnection; every other
\* step leaves all of them alone.
LEMMA RegistryCases ==
  ASSUME [Next]_vars
  PROVE  \/ UNCHANGED <<routes, listeners, ownerTokens, cleaned>>
         \/ \E c \in Connection :
              FinishRegister(c) \/ Unregister(c) \/ CleanupConnection(c)
BY DEF Next, Client, Process, Connect, Receive, ReceiveOversized, EndEvent, ErrorEvent,
       CloseEvent, Negotiate, Health, Invalid, GrantStop, RefuseStop, BeginRegister,
       FailRegister, Heartbeat, StopWhenIdle, StopBySignal, StopDaemon,
       vars, registryVars, connectionVars

OwnershipInv == NoOrphanRoute /\ SubscriptionsMatch

\* A registration puts its routes on a connection that is not cleaned up,
\* because a cleanup would have been that connection's last operation; a
\* removal removes routes; a cleanup removes every route of its lease
\* (registerMany, unregisterMany, unregisterOwner).
LEMMA OwnershipStep ==
  TypeOK /\ CleanupOrder /\ OwnershipInv /\ [Next]_vars => OwnershipInv'
<1> SUFFICES ASSUME TypeOK, CleanupOrder, OwnershipInv, [Next]_vars
             PROVE  OwnershipInv'
  OBVIOUS
<1> USE DEF Connection
<1>1. ASSUME NEW c \in Connection, FinishRegister(c) PROVE OwnershipInv'
  <2> DEFINE r == Head(frames[c])
  <2>1. r.ownerToken \in OwnerToken /\ r.hostnames \in SUBSET Hostname
    BY <1>1, TurnType, RouteFrame DEF FinishRegister
  <2>2. ~cleaned[c]
    BY <1>1 DEF FinishRegister, Turn, CleanupOrder, CleanupIsLast
  <2>3. /\ routes' = RegisterMany(routes, r.ownerToken, r.hostnames, c)
        /\ ownerTokens' = [ownerTokens EXCEPT ![c] = @ \cup {r.ownerToken}]
        /\ listeners' = [listeners EXCEPT ![r.ownerToken] = @ \cup {c}]
        /\ UNCHANGED cleaned
    BY <1>1 DEF FinishRegister
  <2>4. NoOrphanRoute'
    <3> SUFFICES ASSUME NEW h \in Hostname, routes'[h] # NoRoute
                 PROVE  /\ ~cleaned'[routes'[h].leaseId]
                        /\ routes'[h].ownerToken \in ownerTokens'[routes'[h].leaseId]
      BY DEF NoOrphanRoute, Registered
    <3>1. CASE h \in r.hostnames
      <4>1. routes'[h] = [ownerToken |-> r.ownerToken, leaseId |-> c]
        BY <3>1, <2>3 DEF RegisterMany
      <4> QED BY <4>1, <2>2, <2>3 DEF TypeOK
    <3>2. CASE h \notin r.hostnames
      <4>1. routes'[h] = routes[h]
        BY <3>2, <2>3 DEF RegisterMany
      <4>2. routes[h] \in ActiveRoute
        BY <4>1 DEF TypeOK, RouteTable
      <4> QED BY <4>1, <4>2, <2>3
              DEF TypeOK, ActiveRoute, OwnershipInv, NoOrphanRoute, Registered
    <3> QED BY <3>1, <3>2
  <2>5. SubscriptionsMatch'
    BY <2>1, <2>2, <2>3 DEF OwnershipInv, SubscriptionsMatch, TypeOK
  <2> QED BY <2>4, <2>5 DEF OwnershipInv
<1>2. ASSUME NEW c \in Connection, Unregister(c) PROVE OwnershipInv'
  <2>1. \A h \in Hostname : routes'[h] \in {routes[h], NoRoute}
    BY <1>2 DEF Unregister, UnregisterMany, Without
  <2>2. UNCHANGED <<listeners, ownerTokens, cleaned>>
    BY <1>2 DEF Unregister, connectionVars
  <2> QED BY <2>1, <2>2 DEF OwnershipInv, NoOrphanRoute, SubscriptionsMatch, Registered
<1>3. ASSUME NEW c \in Connection, CleanupConnection(c) PROVE OwnershipInv'
  <2>1. /\ cleaned' = [cleaned EXCEPT ![c] = TRUE]
        /\ routes' = UnregisterOwners(routes, ownerTokens[c], c)
        /\ listeners' = [o \in OwnerToken |-> IF o \in ownerTokens[c] THEN listeners[o] \ {c}
                                                                     ELSE listeners[o]]
        /\ UNCHANGED ownerTokens
    BY <1>3 DEF CleanupConnection
  <2>2. NoOrphanRoute'
    <3> SUFFICES ASSUME NEW h \in Hostname, routes'[h] # NoRoute
                 PROVE  /\ ~cleaned'[routes'[h].leaseId]
                        /\ routes'[h].ownerToken \in ownerTokens'[routes'[h].leaseId]
      BY DEF NoOrphanRoute, Registered
    <3>1. /\ routes'[h] = routes[h]
          /\ ~(routes[h].leaseId = c /\ routes[h].ownerToken \in ownerTokens[c])
      BY <2>1 DEF UnregisterOwners, Without, Registered
    <3>2. routes[h] \in ActiveRoute
      BY <3>1 DEF TypeOK, RouteTable
    <3> QED BY <3>1, <3>2, <2>1
            DEF TypeOK, ActiveRoute, OwnershipInv, NoOrphanRoute, Registered
  <2>3. SubscriptionsMatch'
    BY <2>1 DEF OwnershipInv, SubscriptionsMatch, TypeOK
  <2> QED BY <2>2, <2>3 DEF OwnershipInv
<1>4. ASSUME UNCHANGED <<routes, listeners, ownerTokens, cleaned>> PROVE OwnershipInv'
  BY <1>4 DEF OwnershipInv, NoOrphanRoute, SubscriptionsMatch, Registered
<1> QED BY <1>1, <1>2, <1>3, <1>4, RegistryCases

\* The inductive invariant holds in every state of the control service.
THEOREM Invariance == Spec => []IInv
<1>1. ASSUME Init PROVE CleanupOrder /\ OwnershipInv
  <2>1. CleanupOrder
    BY <1>1 DEF Init, CleanupOrder, InputIsClosed, CleanupIsLast
  <2>2. OwnershipInv
    BY <1>1 DEF Init, OwnershipInv, NoOrphanRoute, SubscriptionsMatch, EmptyTable, Registered
  <2> QED BY <2>1, <2>2
<1>2. IInv <=> TypeOK /\ CleanupOrder /\ OwnershipInv
  BY DEF IInv, CleanupOrder, OwnershipInv
<1> QED BY <1>1, <1>2, TypeCorrect, CleanupOrderStep, OwnershipStep, PTL DEF Spec

\* No route is ever left on a connection that is gone: every route belongs to
\* a connection that will still remove it (cleanupConnection).
THEOREM NoOrphans == Spec => []NoOrphanRoute
<1>1. IInv => NoOrphanRoute
  BY DEF IInv
<1> QED BY <1>1, Invariance, PTL

\* The cleanup of a connection is the last operation that runs for it.
THEOREM CleanupComesLast == Spec => []CleanupIsLast
<1>1. IInv => CleanupIsLast
  BY DEF IInv
<1> QED BY <1>1, Invariance, PTL

\* The route-loss listeners are the subscriptions of the connections that are
\* not cleaned up.
THEOREM Subscriptions == Spec => []SubscriptionsMatch
<1>1. IInv => SubscriptionsMatch
  BY DEF IInv
<1> QED BY <1>1, Invariance, PTL

-----------------------------------------------------------------------------
(* Action properties.                                                      *)

\* A route is removed only by an operation of the connection that holds it:
\* "An older process cannot remove the newer route when it exits."
THEOREM RemovedByTheLease == Spec => OnlyTheLeaseRemoves
<1> DEFINE Step == \A h \in Hostname :
                     routes[h] # NoRoute /\ routes'[h] = NoRoute
                       => Head(queue) = routes[h].leaseId
<1>1. ASSUME TypeOK, [Next]_vars PROVE Step
  <2> SUFFICES ASSUME NEW h \in Hostname, routes[h] # NoRoute, routes'[h] = NoRoute
               PROVE  Head(queue) = routes[h].leaseId
    OBVIOUS
  <2>1. ASSUME NEW c \in Connection, FinishRegister(c) PROVE FALSE
    <3> DEFINE r == Head(frames[c])
    <3>1. r.ownerToken \in OwnerToken
      BY <1>1, <2>1, TurnType, RouteFrame DEF FinishRegister
    <3>2. routes'[h] \in {[ownerToken |-> r.ownerToken, leaseId |-> c], routes[h]}
      BY <2>1 DEF FinishRegister, RegisterMany
    <3>3. [ownerToken |-> r.ownerToken, leaseId |-> c] \in ActiveRoute
      BY <3>1 DEF ActiveRoute, Connection
    <3> QED BY <3>2, <3>3, NoRouteAssumption
  <2>2. ASSUME NEW c \in Connection, Unregister(c)
        PROVE  Head(queue) = routes[h].leaseId
    <3>1. \E o : routes[h] = [ownerToken |-> o, leaseId |-> c]
      BY <2>2 DEF Unregister, UnregisterMany, Without, ActiveHostnames
    <3> QED BY <3>1, <2>2 DEF Unregister, Turn
  <2>3. ASSUME NEW c \in Connection, CleanupConnection(c)
        PROVE  Head(queue) = routes[h].leaseId
    BY <2>3 DEF CleanupConnection, UnregisterOwners, Without, Registered, Turn
  <2> QED BY <1>1, <2>1, <2>2, <2>3, RegistryCases
<1> QED BY <1>1, TypeCorrect, PTL DEF Spec, OnlyTheLeaseRemoves

\* A takeover by another owner is told at once to the connection that held the
\* route, if its socket is open: the connection is subscribed, because it is
\* not cleaned up.
THEOREM TakeoversAreTold == Spec => TakeoverIsTold
<1> USE DEF Connection
<1> DEFINE Step == \A h \in Registered(routes) :
       LET lease == routes[h].leaseId IN
       /\ routes'[h] # NoRoute
       /\ routes'[h].ownerToken # routes[h].ownerToken
       /\ socket[lease] = "open"
       => \E i \in 1..Len(sent'[lease]) :
            /\ sent'[lease][i].type = "route-lost"
            /\ h \in sent'[lease][i].hostnames
<1>1. ASSUME IInv, [Next]_vars PROVE Step
  <2> SUFFICES ASSUME NEW h \in Registered(routes),
                      routes'[h] # NoRoute,
                      routes'[h].ownerToken # routes[h].ownerToken,
                      socket[routes[h].leaseId] = "open"
               PROVE  \E i \in 1..Len(sent'[routes[h].leaseId]) :
                        /\ sent'[routes[h].leaseId][i].type = "route-lost"
                        /\ h \in sent'[routes[h].leaseId][i].hostnames
    OBVIOUS
  <2> DEFINE lease == routes[h].leaseId
             old == routes[h].ownerToken
  <2>0. h \in Hostname /\ routes[h] # NoRoute /\ lease \in Connection /\ old \in OwnerToken
    BY <1>1 DEF Registered, IInv, TypeOK, RouteTable, ActiveRoute
  <2>1. ASSUME NEW c \in Connection, FinishRegister(c)
        PROVE  \E i \in 1..Len(sent'[lease]) : /\ sent'[lease][i].type = "route-lost"
                                              /\ h \in sent'[lease][i].hostnames
    <3> DEFINE r == Head(frames[c])
               lost == [type |-> "route-lost", hostnames |-> LostBy(lease, r)]
               answer == IF lease = c
                         THEN << [type |-> "registered", hostnames |-> r.hostnames] >>
                         ELSE <<>>
    <3>1. h \in r.hostnames /\ r.ownerToken # old
      <4>1. routes'[h] = IF h \in r.hostnames
                         THEN [ownerToken |-> r.ownerToken, leaseId |-> c] ELSE routes[h]
        BY <2>0, <2>1 DEF FinishRegister, RegisterMany
      <4> QED BY <4>1
    <3>2. lease \in listeners[old]
      BY <1>1, <2>0 DEF IInv, NoOrphanRoute, SubscriptionsMatch
    <3>3. h \in LostBy(lease, r)
      <4>1. h \in TakenFrom(routes, r.ownerToken, r.hostnames, old)
        BY <2>0, <3>1, Zenon DEF TakenFrom
      <4> QED BY <2>0, <3>1, <3>2, <4>1 DEF LostBy
    <3>4. sent'[lease] = <<lost>> \o answer
      BY <2>0, <2>1, <3>3 DEF FinishRegister, Written, TakeoverMessages
    <3>5. 1 \in 1..Len(sent'[lease]) /\ sent'[lease][1] = lost
      <4>1. CASE lease = c
        BY <4>1, <3>4
      <4>2. CASE lease # c
        BY <4>2, <3>4
      <4> QED BY <4>1, <4>2
    <3> QED BY <3>3, <3>5
  <2>2. ASSUME NEW c \in Connection, Unregister(c) PROVE FALSE
    BY <2>0, <2>2 DEF Unregister, UnregisterMany, Without
  <2>3. ASSUME NEW c \in Connection, CleanupConnection(c) PROVE FALSE
    BY <2>0, <2>3 DEF CleanupConnection, UnregisterOwners, Without
  <2> QED BY <1>1, <2>1, <2>2, <2>3, RegistryCases
<1> QED BY <1>1, Invariance, PTL DEF Spec, TakeoverIsTold

-----------------------------------------------------------------------------
(* Refinement.                                                             *)

\* The control service implements RouteOwnership: a registration is a Claim, an
\* unregister a Release and a cleanup an Expire, because the cleanup of a
\* connection removes every route of its lease; nothing else moves a route.
THEOREM Refinement == Spec => ImplementsOwnership
<1> USE DEF Connection
<1>1. ASSUME Init PROVE Ownership!OwnershipInit
  BY <1>1 DEF Init, Ownership!OwnershipInit, EmptyTable, HolderOf
<1>2. ASSUME IInv, [Next]_vars
      PROVE  [Ownership!OwnershipNext]_(Ownership!ownershipVars)
  <2>1. ASSUME NEW c \in Connection, FinishRegister(c)
        PROVE  Ownership!OwnershipNext
    <3> DEFINE r == Head(frames[c])
               new == [ownerToken |-> r.ownerToken, leaseId |-> c]
    <3>1. r.ownerToken \in OwnerToken /\ r.hostnames \in SUBSET Hostname
      BY <1>2, <2>1, TurnType, RouteFrame DEF FinishRegister, IInv
    <3>2. c \notin {d \in Connection : cleaned[d]}
      BY <1>2, <2>1 DEF FinishRegister, Turn, IInv, CleanupIsLast
    <3>3. new \in ActiveRoute /\ new # NoRoute
      BY <3>1, NoRouteAssumption DEF ActiveRoute
    <3>4. \A h \in Hostname : routes'[h] = IF h \in r.hostnames THEN new ELSE routes[h]
      BY <2>1 DEF FinishRegister, RegisterMany
    <3>5. Ownership!GiveTo(c, r.hostnames)
      BY <3>3, <3>4 DEF Ownership!GiveTo, HolderOf
    <3>6. Ownership!Claim(c, r.hostnames)
      BY <2>1, <3>2, <3>5 DEF FinishRegister, Ownership!Claim
    <3> QED BY <3>1, <3>6 DEF Ownership!OwnershipNext
  <2>2. ASSUME NEW c \in Connection, Unregister(c)
        PROVE  Ownership!OwnershipNext
    <3> DEFINE r == Head(frames[c])
               active == ActiveHostnames(routes, r.ownerToken, r.hostnames, c)
    <3>1. r.ownerToken \in OwnerToken /\ r.hostnames \in SUBSET Hostname
      BY <1>2, <2>2, TurnType, RouteFrame DEF Unregister, IInv
    <3>2. active \in SUBSET Hostname
      BY <3>1 DEF ActiveHostnames
    <3>3. \A h \in active : HolderOf(h) = c
      <4>1. [ownerToken |-> r.ownerToken, leaseId |-> c] \in ActiveRoute
        BY <3>1 DEF ActiveRoute
      <4> QED BY <4>1, NoRouteAssumption DEF ActiveHostnames, HolderOf
    <3>4. Ownership!GiveTo(NoRoute, active)
      BY <2>2, <3>2 DEF Unregister, UnregisterMany, Without, Ownership!GiveTo, HolderOf
    <3>5. Ownership!Release(c, active)
      BY <2>2, <3>2, <3>3, <3>4 DEF Unregister, Ownership!Release, connectionVars
    <3> QED BY <3>2, <3>5 DEF Ownership!OwnershipNext
  <2>3. ASSUME NEW c \in Connection, CleanupConnection(c)
        PROVE  Ownership!OwnershipNext
    <3> DEFINE own == {h \in Registered(routes) : /\ routes[h].leaseId = c
                                                  /\ routes[h].ownerToken \in ownerTokens[c]}
    <3>1. {d \in Connection : cleaned'[d]} = {d \in Connection : cleaned[d]} \cup {c}
      BY <1>2, <2>3 DEF CleanupConnection, IInv, TypeOK
    <3>2. own = {h \in Hostname : HolderOf(h) = c}
      BY <1>2, NoRouteAssumption DEF IInv, NoOrphanRoute, Registered, HolderOf
    <3>3. routes' = Without(routes, own)
      BY <2>3 DEF CleanupConnection, UnregisterOwners
    <3>4. Ownership!GiveTo(NoRoute, own)
      BY <3>3 DEF Ownership!GiveTo, Without, HolderOf
    <3>5. Ownership!Expire(c)
      BY <3>1, <3>2, <3>4 DEF Ownership!Expire
    <3> QED BY <3>5 DEF Ownership!OwnershipNext
  <2>4. ASSUME UNCHANGED <<routes, listeners, ownerTokens, cleaned>>
        PROVE  UNCHANGED Ownership!ownershipVars
    BY <2>4 DEF Ownership!ownershipVars, HolderOf
  <2> QED BY <1>2, <2>1, <2>2, <2>3, <2>4, RegistryCases
<1> QED BY <1>1, <1>2, Invariance, PTL
        DEF Spec, ImplementsOwnership, Ownership!OwnershipSpec
=============================================================================
