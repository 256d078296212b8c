------------------------- MODULE PluginSessionProofs -------------------------
(***************************************************************************)
(* Proofs about PluginSession, for every set of plugins, connections and   *)
(* hostnames and any number of faults.                                     *)
(***************************************************************************)
EXTENDS PluginSession, ControlServerProofs

\* The connection counts as in use.
Linked(c) == link[c] \in {"connecting", "connected"}

\* The clients of p are its own, and in use or used up.
OwnClients(p) ==
  \A c \in {candidate[p], client[p]} : c = NoClient \/ (c \in ClientsOf(p) /\ link[c] # "none")

\* What a client awaits fits how far its connection has come.
ClientFits(c) ==
  /\ link[c] \in {"none", "connecting"} => pending[c] = <<>>
  /\ link[c] = "none" => ~closing[c]
  /\ link[c] = "unregistering" => closing[c]
  /\ \A i \in 1..Len(pending[c]) :
       /\ pending[c][i].type = "unregister" => closing[c]
       /\ pending[c][i].type = "register" => i = 1

\* A register that is awaited is awaited by the task of p.
RegisterAwaited(p) ==
  \A c \in ClientsOf(p) :
    pending[c] # <<>> /\ Head(pending[c]).type = "register"
      => Awaits(p, "register") /\ candidate[p] = c

\* Before setup() has made its client there is none, and then that one only.
SetupIsFirst(p) ==
  /\ task[p] = "setup" => phase[p] # "delay"
  /\ task[p] = "unstarted" \/ (task[p] = "setup" /\ phase[p] = "infra")
       => \A c \in ClientsOf(p) : link[c] = "none"
  /\ task[p] = "setup" /\ phase[p] # "infra"
       => \A c \in ClientsOf(p) : c # candidate[p] => link[c] = "none"

\* The connections in use, by what the task awaits.
LinksFit(p) ==
  /\ Awaits(p, "infra") \/ Awaits(p, "delay") => \A c \in ClientsOf(p) : ~Linked(c)
  /\ Awaits(p, "connect") \/ Awaits(p, "register")
       => /\ candidate[p] # NoClient
          /\ \A c \in ClientsOf(p) : Linked(c) => c = candidate[p]
  /\ Awaits(p, "connect") =>
       /\ link[candidate[p]] = "connecting"
       /\ ~shuttingDown[p] => ~closing[candidate[p]]
  /\ Awaits(p, "register") =>
       /\ link[candidate[p]] \in {"connected", "unregistering", "ending"}
       /\ ~shuttingDown[p] => link[candidate[p]] = "connected" /\ ~closing[candidate[p]]

\* One connection is in use.
OneLinked(p) == \A c, d \in ClientsOf(p) : Linked(c) /\ Linked(d) => c = d

\* NeverAbandoned, of p.
NotAbandoned(p) ==
  task[p] = "none" /\ ~shuttingDown[p] /\ owned[p] # {}
    => /\ heartbeat[p]
       /\ client[p] # NoClient
       /\ link[client[p]] = "connected"
       /\ ~closing[client[p]]

PluginFits(p) ==
  /\ OwnClients(p)
  /\ \A c \in ClientsOf(p) : ClientFits(c)
  /\ RegisterAwaited(p)
  /\ SetupIsFirst(p)
  /\ LinksFit(p)
  /\ OneLinked(p)
  /\ NotAbandoned(p)

SInv == SessionTypeOK /\ \A p \in Plugin : PluginFits(p)
-----------------------------------------------------------------------------
(* Whose a client is.                                                      *)

LEMMA OwnerOfClient ==
  /\ \A c \in Connection : \E p \in Plugin : c \in ClientsOf(p)
  /\ \A p \in Plugin, q \in Plugin : \A c \in ClientsOf(p) : c \in ClientsOf(q) => p = q
  /\ \A p \in Plugin : ClientsOf(p) \subseteq Connection /\ NoClient \notin ClientsOf(p)
<1>1. /\ \A c \in Connection : \E p \in Plugin : TokensOf[c] = {p}
      /\ NoClient \notin Connection
  BY SessionAssumption
<1>2. ASSUME NEW p \in Plugin, NEW q \in Plugin, NEW c \in ClientsOf(p), c \in ClientsOf(q)
      PROVE  p = q
  <2>1. c \in Connection /\ p \in TokensOf[c] /\ q \in TokensOf[c]
    BY <1>2 DEF ClientsOf
  <2> QED BY <1>1, <2>1
<1>3. \A c \in Connection : \E p \in Plugin : c \in ClientsOf(p)
  BY <1>1 DEF ClientsOf
<1>4. \A p \in Plugin : ClientsOf(p) \subseteq Connection /\ NoClient \notin ClientsOf(p)
  BY <1>1 DEF ClientsOf
<1> QED BY <1>2, <1>3, <1>4

\* What p and its clients do leaves the other plugins as they are.
LocalTo(p) ==
  /\ \A q \in Plugin \ {p} :
       /\ task'[q] = task[q] /\ phase'[q] = phase[q]
       /\ candidate'[q] = candidate[q] /\ client'[q] = client[q]
       /\ shuttingDown'[q] = shuttingDown[q] /\ heartbeat'[q] = heartbeat[q]
       /\ owned'[q] = owned[q]
  /\ \A c \in Connection \ ClientsOf(p) :
       link'[c] = link[c] /\ pending'[c] = pending[c] /\ closing'[c] = closing[c]

LEMMA OthersFit ==
  ASSUME NEW p \in Plugin, LocalTo(p), NEW q \in Plugin \ {p}, PluginFits(q)
  PROVE  PluginFits(q)'
<1>1. /\ task'[q] = task[q] /\ phase'[q] = phase[q]
      /\ candidate'[q] = candidate[q] /\ client'[q] = client[q]
      /\ shuttingDown'[q] = shuttingDown[q] /\ heartbeat'[q] = heartbeat[q]
      /\ owned'[q] = owned[q]
  BY DEF LocalTo
<1>2. \A c \in ClientsOf(q) :
        link'[c] = link[c] /\ pending'[c] = pending[c] /\ closing'[c] = closing[c]
  BY OwnerOfClient DEF LocalTo
<1>3. /\ candidate[q] = NoClient \/ (candidate[q] \in ClientsOf(q) /\ link[candidate[q]] # "none")
      /\ client[q] = NoClient \/ (client[q] \in ClientsOf(q) /\ link[client[q]] # "none")
  BY DEF PluginFits, OwnClients
<1>4. ClientsOf(q)' = ClientsOf(q)
  BY DEF ClientsOf
<1>5. OwnClients(q)'
  BY <1>1, <1>2, <1>3, <1>4 DEF OwnClients
<1>6. ASSUME NEW c \in ClientsOf(q) PROVE ClientFits(c)'
  BY <1>2, <1>6 DEF PluginFits, ClientFits
<1>7. RegisterAwaited(q)' /\ SetupIsFirst(q)' /\ OneLinked(q)'
  BY <1>1, <1>2, <1>4 DEF PluginFits, RegisterAwaited, SetupIsFirst, OneLinked, Linked, Awaits
<1>8. LinksFit(q)'
  BY <1>1, <1>2, <1>3, <1>4 DEF PluginFits, LinksFit, Linked, Awaits
<1>9. NotAbandoned(q)'
  BY <1>1, <1>2, <1>3 DEF PluginFits, NotAbandoned
<1> QED BY <1>4, <1>5, <1>6, <1>7, <1>8, <1>9 DEF PluginFits
-----------------------------------------------------------------------------
(* The server's part of a step.                                            *)

LEMMA UndisturbedTypes ==
  ASSUME TypeOK, ServerUndisturbed
  PROVE  TypeOK'
BY SilenceType DEF ServerUndisturbed, TypeOK, registryVars, connectionVars, daemonVars

LEMMA ReceiveTypes ==
  ASSUME TypeOK, NEW c \in Connection, NEW request \in RouteRequest, Receive(c, request)
  PROVE  TypeOK'
<1>1. request \in Frame
  BY DEF Frame
<1>2. frames' \in [Connection -> Seq(Frame)] /\ queue' \in Seq(Connection)
  BY <1>1, EnqueueType DEF Receive
<1> QED BY <1>2, SilenceType DEF Receive, TypeOK, registryVars, connectionVars, daemonVars

LEMMA TransmitTypes ==
  ASSUME TypeOK, NEW c \in Connection, NEW request \in RouteRequest, Transmit(c, request)
  PROVE  TypeOK'
BY UndisturbedTypes, ReceiveTypes DEF Transmit

LEMMA HangUpTypes ==
  ASSUME TypeOK, NEW c \in Connection, HangUp(c)
  PROVE  TypeOK'
<1>1. EndEvent(c) => [Next]_vars
  BY DEF Next, Client
<1> QED BY <1>1, TypeStep, UndisturbedTypes DEF HangUp

-----------------------------------------------------------------------------
(* The client's part of a step.                                            *)

\* The state of c changes to this, and that of no other client.
Becomes(c, newLink, newPending, newClosing) ==
  /\ newLink \in Link /\ newPending \in Seq(PendingRequest) /\ newClosing \in BOOLEAN
  /\ link' = [link EXCEPT ![c] = newLink]
  /\ pending' = [pending EXCEPT ![c] = newPending]
  /\ closing' = [closing EXCEPT ![c] = newClosing]

LEMMA RequestStep ==
  ASSUME SessionTypeOK, NEW c \in Connection, NEW owner \in OwnerToken,
         NEW type \in {"register", "unregister", "heartbeat"}, NEW hs \in SUBSET Hostname,
         NEW rest \in Seq(PendingRequest), Request(c, owner, type, hs, rest)
  PROVE  /\ TypeOK'
         /\ Append(rest, [type |-> type, hostnames |-> hs]) \in Seq(PendingRequest)
         /\ pending' = [pending EXCEPT ![c] = Append(rest, [type |-> type, hostnames |-> hs])]
<1>1. [type |-> type, ownerToken |-> owner, hostnames |-> hs] \in RouteRequest
  BY DEF RouteRequest
<1>2. [type |-> type, hostnames |-> hs] \in PendingRequest
  BY DEF PendingRequest
<1> QED BY <1>1, <1>2, TransmitTypes, AppendProperties DEF Request, SessionTypeOK

\* close() leaves a client that it ends, unless it was not connected.
LEMMA CloseStep ==
  ASSUME SessionTypeOK, NEW c \in Connection, NEW owner \in OwnerToken,
         NEW claims \in SUBSET Hostname, NEW rest \in Seq(PendingRequest),
         Close(c, owner, claims, rest)
  PROVE  /\ TypeOK'
         /\ \/ /\ link[c] = "connected"
               /\ Becomes(c, "unregistering",
                          Append(rest, [type |-> "unregister", hostnames |-> claims]), TRUE)
            \/ link[c] = "connected" /\ Becomes(c, "ending", rest, TRUE)
            \/ link[c] # "connected" /\ Becomes(c, link[c], <<>>, TRUE)
<1>1. closing' = [closing EXCEPT ![c] = TRUE]
  BY DEF Close
<1>2. CASE link[c] = "connected" /\ claims # {}
  BY <1>1, <1>2, RequestStep DEF Close, Becomes, Link
<1>3. CASE link[c] = "connected" /\ claims = {}
  BY <1>1, <1>3, HangUpTypes DEF Close, Becomes, Link, SessionTypeOK
<1>4. CASE link[c] # "connected"
  <2>1. link' = [link EXCEPT ![c] = link[c]] /\ link[c] \in Link /\ <<>> \in Seq(PendingRequest)
    BY <1>4 DEF Close, SessionTypeOK, ClientTypeOK
  <2> QED BY <1>1, <1>4, <2>1, UndisturbedTypes DEF Close, Becomes, SessionTypeOK
<1> QED BY <1>2, <1>3, <1>4

\* What the requests pending on a client tell.
PendingFits(requests, isClosing) ==
  \A i \in 1..Len(requests) :
    /\ requests[i].type = "unregister" => isClosing
    /\ requests[i].type = "register" => i = 1

NoRegister(requests) == \A i \in 1..Len(requests) : requests[i].type # "register"

\* The oldest request is answered: no register is left.
LEMMA TailFits ==
  ASSUME NEW s \in Seq(PendingRequest), s # <<>>, NEW b, PendingFits(s, b)
  PROVE  /\ Tail(s) \in Seq(PendingRequest)
         /\ PendingFits(Tail(s), b)
         /\ NoRegister(Tail(s))
<1>1. /\ Tail(s) \in Seq(PendingRequest) /\ Len(Tail(s)) = Len(s) - 1
      /\ \A i \in 1..Len(Tail(s)) : Tail(s)[i] = s[i + 1]
  BY HeadTailProperties
<1>2. Len(s) \in Nat
  OBVIOUS
<1>3. ASSUME NEW i \in 1..Len(Tail(s))
      PROVE  i + 1 \in 1..Len(s) /\ i + 1 # 1
  BY <1>1, <1>2
<1> QED BY <1>1, <1>3 DEF PendingFits, NoRegister

\* A request is sent.
LEMMA AppendFits ==
  ASSUME NEW s \in Seq(PendingRequest), NEW b, NEW request \in PendingRequest,
         PendingFits(s, b), request.type # "register", request.type = "unregister" => b
  PROVE  /\ Append(s, request) \in Seq(PendingRequest)
         /\ PendingFits(Append(s, request), b)
         /\ NoRegister(s) => NoRegister(Append(s, request))
         /\ s # <<>> => Head(Append(s, request)) = Head(s)
         /\ s = <<>> => Head(Append(s, request)) = request
<1>1. /\ Append(s, request) \in Seq(PendingRequest)
      /\ Len(Append(s, request)) = Len(s) + 1
      /\ \A i \in 1..Len(s) : Append(s, request)[i] = s[i]
      /\ Append(s, request)[Len(s) + 1] = request
  BY AppendProperties
<1>2. Len(s) \in Nat
  OBVIOUS
<1>3. \A i \in 1..Len(Append(s, request)) : i \in 1..Len(s) \/ i = Len(s) + 1
  BY <1>1, <1>2
<1> QED BY <1>1, <1>2, <1>3 DEF PendingFits, NoRegister

\* A request is abandoned.
LEMMA AbandonFits ==
  ASSUME NEW s \in Seq(PendingRequest), NEW b, NEW i \in 1..Len(s), PendingFits(s, b)
  PROVE  LET rest == [s EXCEPT ![i].type = "abandoned"] IN
         /\ rest \in Seq(PendingRequest)
         /\ PendingFits(rest, b)
         /\ s[i].type = "register" => NoRegister(rest)
         /\ rest # <<>>
         /\ Head(rest).type = "register" => Head(s).type = "register"
<1> DEFINE new == [s[i] EXCEPT !.type = "abandoned"]
           rest == [s EXCEPT ![i] = new]
<1>1. s[i] \in PendingRequest
  BY ElementOfSeq
<1>2. new \in PendingRequest /\ new.type = "abandoned"
  BY <1>1 DEF PendingRequest
<1>3. /\ rest \in Seq(PendingRequest) /\ Len(rest) = Len(s)
      /\ \A j \in 1..Len(s) : rest[j] = IF j = i THEN new ELSE s[j]
  BY <1>2, ExceptSeq
<1>4. Len(s) \in Nat /\ Len(s) > 0 /\ 1 \in 1..Len(s)
  OBVIOUS
<1>5. PendingFits(rest, b) /\ (s[i].type = "register" => NoRegister(rest))
  BY <1>2, <1>3 DEF PendingFits, NoRegister
<1>6. rest # <<>> /\ Head(rest) = rest[1] /\ Head(s) = s[1]
  BY <1>3, <1>4
<1>7. Head(rest).type = "register" => Head(s).type = "register"
  BY <1>2, <1>3, <1>4, <1>6
<1>8. [s EXCEPT ![i].type = "abandoned"] = rest
  OBVIOUS
<1> QED BY <1>3, <1>5, <1>6, <1>7, <1>8

LEMMA BecomesView ==
  ASSUME SessionTypeOK, NEW c \in Connection, NEW L, NEW P, NEW C, Becomes(c, L, P, C)
  PROVE  /\ link' \in [Connection -> Link]
         /\ pending' \in [Connection -> Seq(PendingRequest)]
         /\ closing' \in [Connection -> BOOLEAN]
         /\ link'[c] = L /\ pending'[c] = P /\ closing'[c] = C
         /\ \A d \in Connection \ {c} :
              link'[d] = link[d] /\ pending'[d] = pending[d] /\ closing'[d] = closing[d]
BY DEF Becomes, SessionTypeOK, ClientTypeOK

\* One client of p changes, as it may.
LEMMA OneChange ==
  ASSUME SInv, NEW p \in Plugin, NEW c \in ClientsOf(p), NEW L, NEW P, NEW C, Becomes(c, L, P, C),
         L # "none", L = "connecting" => P = <<>>, L = "unregistering" => C, PendingFits(P, C),
         L \in {"connecting", "connected"} => Linked(c) \/ \A d \in ClientsOf(p) : ~Linked(d)
  PROVE  /\ \A d \in ClientsOf(p) : ClientFits(d)'
         /\ OneLinked(p)'
         /\ \A d \in Connection \ ClientsOf(p) :
              link'[d] = link[d] /\ pending'[d] = pending[d] /\ closing'[d] = closing[d]
<1>1. c \in Connection /\ ClientsOf(p) \subseteq Connection /\ ClientsOf(p)' = ClientsOf(p)
  BY DEF ClientsOf
<1>2. /\ link'[c] = L /\ pending'[c] = P /\ closing'[c] = C
      /\ \A d \in Connection \ {c} :
           link'[d] = link[d] /\ pending'[d] = pending[d] /\ closing'[d] = closing[d]
  BY <1>1, BecomesView DEF SInv
<1>3. \A d \in ClientsOf(p) : ClientFits(d)
  BY DEF SInv, PluginFits
<1>4. OneLinked(p)
  BY DEF SInv, PluginFits
<1>5. ClientFits(c)'
  BY <1>2 DEF ClientFits, PendingFits
<1>6. ASSUME NEW d \in ClientsOf(p), d # c PROVE ClientFits(d)'
  BY <1>1, <1>2, <1>3, <1>6 DEF ClientFits
<1>7. OneLinked(p)'
  BY <1>1, <1>2, <1>4 DEF OneLinked, Linked
<1> QED BY <1>1, <1>2, <1>5, <1>6, <1>7

-----------------------------------------------------------------------------
(* The steps of setup() and recoverRoutes().                               *)

PluginTypes ==
  /\ task \in [Plugin -> {"unstarted", "setup", "recovery", "none"}]
  /\ phase \in [Plugin -> {"infra", "connect", "register", "delay"}]
  /\ candidate \in [Plugin -> Connection \cup {NoClient}]
  /\ client \in [Plugin -> Connection \cup {NoClient}]
  /\ shuttingDown \in [Plugin -> BOOLEAN]
  /\ owned \in [Plugin -> SUBSET Hostname]
  /\ heartbeat \in [Plugin -> BOOLEAN]
  /\ started \in Seq(Plugin)
  /\ faults \in 0..MaxFaults

LEMMA TypesSplit ==
  /\ SessionTypeOK <=> TypeOK /\ ClientTypeOK /\ PluginTypes
  /\ SessionTypeOK' <=> TypeOK' /\ ClientTypeOK' /\ PluginTypes'
BY DEF SessionTypeOK, PluginTypes

LEMMA FaultStep ==
  ASSUME faults \in 0..MaxFaults, Fault
  PROVE  faults' \in 0..MaxFaults
<1>1. MaxFaults \in Nat
  BY SessionAssumption
<1> QED BY <1>1 DEF Fault

\* What an action of p has to show.
Keeps(p) == SessionTypeOK' /\ LocalTo(p) /\ PluginFits(p)'

LEMMA StartKeeps ==
  ASSUME SInv, NEW p \in Plugin, Start(p)
  PROVE  Keeps(p)
<1>1. SessionTypeOK /\ PluginFits(p) /\ TypeOK /\ ClientTypeOK /\ PluginTypes
  BY TypesSplit DEF SInv
<1>2. /\ UNCHANGED <<link, pending, inbox, claimed, closing, candidate, client, shuttingDown, owned,
                     heartbeat, faults>>
      /\ task' = [task EXCEPT ![p] = "setup"] /\ phase' = [phase EXCEPT ![p] = "infra"]
      /\ started' = Append(started, p) /\ task[p] = "unstarted"
  BY DEF Start, GoTo, clientVars, lifeVars
<1>3. SessionTypeOK'
  <2>1. TypeOK'
    BY <1>1, UndisturbedTypes DEF Start
  <2>2. started' \in Seq(Plugin)
    BY <1>1, <1>2, AppendProperties DEF PluginTypes
  <2>3. ClientTypeOK' /\ PluginTypes'
    BY <1>1, <1>2, <2>2 DEF ClientTypeOK, PluginTypes
  <2> QED BY <2>1, <2>3, TypesSplit
<1>4. LocalTo(p)
  BY <1>1, <1>2 DEF LocalTo, PluginTypes
<1>5. ClientsOf(p)' = ClientsOf(p)
  BY DEF ClientsOf
<1>6. task'[p] = "setup" /\ phase'[p] = "infra"
  BY <1>1, <1>2 DEF PluginTypes
<1>7. \A c \in ClientsOf(p) : link[c] = "none" /\ pending[c] = <<>>
  BY <1>1, <1>2 DEF PluginFits, SetupIsFirst, ClientFits
<1>8. PluginFits(p)'
  <2>1. OwnClients(p)' /\ (\A c \in ClientsOf(p) : ClientFits(c)') /\ OneLinked(p)'
    BY <1>1, <1>2, <1>5 DEF PluginFits, OwnClients, ClientFits, OneLinked, Linked
  <2>2. RegisterAwaited(p)' /\ SetupIsFirst(p)' /\ LinksFit(p)' /\ NotAbandoned(p)'
    BY <1>2, <1>5, <1>6, <1>7 DEF RegisterAwaited, SetupIsFirst, LinksFit, NotAbandoned, Linked, Awaits
  <2> QED BY <1>5, <2>1, <2>2 DEF PluginFits
<1> QED BY <1>3, <1>4, <1>8 DEF Keeps

LEMMA InfrastructureReadyKeeps ==
  ASSUME SInv, NEW p \in Plugin, InfrastructureReady(p)
  PROVE  Keeps(p)
<1>1. SessionTypeOK /\ PluginFits(p) /\ TypeOK /\ ClientTypeOK /\ PluginTypes
  BY TypesSplit DEF SInv
<1>2. /\ UNCHANGED <<pending, inbox, claimed, closing, shuttingDown, owned, heartbeat, faults, started>>
      /\ task[p] \in {"setup", "recovery"} /\ phase[p] = "infra"
  BY DEF InfrastructureReady, Awaits
<1>3. TypeOK'
  BY <1>1, SilenceType DEF InfrastructureReady, TypeOK, registryVars, connectionVars
<1>4. ClientsOf(p)' = ClientsOf(p)
  BY DEF ClientsOf
<1>5. \A c \in ClientsOf(p) : ~Linked(c)
  BY <1>1, <1>2 DEF PluginFits, LinksFit, Awaits
<1>6. RegisterAwaited(p) /\ \A c \in ClientsOf(p) : pending[c] # <<>> => Head(pending[c]).type # "register"
  BY <1>1, <1>2 DEF PluginFits, RegisterAwaited, Awaits
<1>7. CASE Unwanted(p) /\ EndTask(p) /\ UNCHANGED <<candidate, client, link>>
  <2>1. task' = [task EXCEPT ![p] = "none"] /\ phase' = [phase EXCEPT ![p] = "infra"]
    BY <1>7 DEF EndTask, GoTo
  <2>2. SessionTypeOK'
    BY <1>1, <1>2, <1>3, <1>7, <2>1, TypesSplit DEF ClientTypeOK, PluginTypes
  <2>3. LocalTo(p)
    BY <1>1, <1>2, <1>7, <2>1 DEF LocalTo, PluginTypes
  <2>4. task'[p] = "none" /\ (shuttingDown[p] \/ owned[p] = {})
    BY <1>1, <1>7, <2>1 DEF PluginTypes, Unwanted
  <2>5. OwnClients(p)' /\ (\A c \in ClientsOf(p) : ClientFits(c)') /\ OneLinked(p)'
    BY <1>1, <1>2, <1>4, <1>7 DEF PluginFits, OwnClients, ClientFits, OneLinked, Linked
  <2>6. RegisterAwaited(p)' /\ SetupIsFirst(p)' /\ LinksFit(p)' /\ NotAbandoned(p)'
    BY <1>2, <1>4, <1>6, <2>4 DEF RegisterAwaited, SetupIsFirst, LinksFit, NotAbandoned, Awaits
  <2> QED BY <1>4, <2>2, <2>3, <2>5, <2>6 DEF Keeps, PluginFits
<1>8. ASSUME NEW c \in Unused(p), Set(link, c, "connecting"), Set(candidate, p, c),
             client' = [client EXCEPT ![p] = IF task[p] = "setup" THEN c ELSE @],
             GoTo(p, task[p], "connect")
      PROVE  Keeps(p)
  <2>1. /\ c \in ClientsOf(p) /\ c \in Connection /\ link[c] = "none" /\ pending[c] = <<>> /\ ~closing[c]
        /\ c # NoClient
    BY <1>1, <1>8, OwnerOfClient DEF Unused, ClientsOf, PluginFits, ClientFits
  <2>2. Becomes(c, "connecting", pending[c], closing[c])
    BY <1>1, <1>2, <1>8, <2>1 DEF Becomes, Set, Link, ClientTypeOK
  <2>3. /\ task' = [task EXCEPT ![p] = task[p]] /\ phase' = [phase EXCEPT ![p] = "connect"]
        /\ candidate' = [candidate EXCEPT ![p] = c]
        /\ client' = [client EXCEPT ![p] = IF task[p] = "setup" THEN c ELSE client[p]]
    BY <1>8 DEF Set, GoTo
  <2>4. /\ link' \in [Connection -> Link]
        /\ link'[c] = "connecting"
        /\ \A d \in Connection \ {c} : link'[d] = link[d]
    BY <1>1, <2>1, <2>2, BecomesView
  <2>5. SessionTypeOK'
    BY <1>1, <1>2, <1>3, <2>1, <2>3, <2>4, TypesSplit DEF ClientTypeOK, PluginTypes
  <2>6. /\ \A d \in ClientsOf(p) : ClientFits(d)'
        /\ OneLinked(p)'
        /\ \A d \in Connection \ ClientsOf(p) :
              link'[d] = link[d] /\ pending'[d] = pending[d] /\ closing'[d] = closing[d]
    <3>1. PendingFits(pending[c], closing[c])
      BY <2>1 DEF PendingFits
    <3> QED BY <1>5, <2>1, <2>2, <3>1, OneChange
  <2>7. LocalTo(p)
    BY <1>1, <1>2, <2>3, <2>6 DEF LocalTo, PluginTypes
  <2>8. /\ task'[p] = task[p] /\ phase'[p] = "connect" /\ candidate'[p] = c
        /\ client'[p] \in {c, client[p]}
    BY <1>1, <2>3 DEF PluginTypes
  <2>9. OwnClients(p)'
    <3>1. client[p] = NoClient \/ (client[p] \in ClientsOf(p) /\ client[p] \in Connection /\ link[client[p]] # "none")
      BY <1>1 DEF PluginFits, OwnClients, ClientsOf
    <3> QED BY <1>4, <2>1, <2>4, <2>8, <3>1 DEF OwnClients
  <2>10. SetupIsFirst(p)'
    <3>1. task[p] = "setup" => \A d \in ClientsOf(p) : link[d] = "none"
      BY <1>1, <1>2 DEF PluginFits, SetupIsFirst
    <3> QED BY <1>2, <1>4, <2>4, <2>8, <3>1 DEF SetupIsFirst, ClientsOf
  <2>11. LinksFit(p)'
    <3>1. \A d \in ClientsOf(p) : link'[d] \in {"connecting", "connected"} => d = c
      BY <1>5, <2>4 DEF Linked, ClientsOf
    <3> QED BY <1>2, <1>4, <2>1, <2>4, <2>8, <3>1 DEF LinksFit, Linked, Awaits
  <2>12. RegisterAwaited(p)' /\ NotAbandoned(p)'
    BY <1>2, <1>4, <1>6, <2>8 DEF RegisterAwaited, NotAbandoned
  <2> QED BY <1>4, <2>5, <2>6, <2>7, <2>9, <2>10, <2>11, <2>12 DEF Keeps, PluginFits
<1>9. Unused(p) # {} => (CHOOSE c \in Unused(p) : TRUE) \in Unused(p)
  OBVIOUS
<1> QED BY <1>7, <1>8, <1>9 DEF InfrastructureReady

LEMMA InfrastructureFailsKeeps ==
  ASSUME SInv, NEW p \in Plugin, InfrastructureFails(p)
  PROVE  Keeps(p)
<1>1. SessionTypeOK /\ PluginFits(p) /\ TypeOK /\ ClientTypeOK /\ PluginTypes
  BY TypesSplit DEF SInv
<1>2. /\ UNCHANGED <<link, pending, inbox, claimed, closing, client, owned, heartbeat, started>>
      /\ task[p] \in {"setup", "recovery"} /\ phase[p] = "infra"
      /\ candidate' = [candidate EXCEPT ![p] = NoClient]
  BY DEF InfrastructureFails, Awaits, Set, clientVars
<1>3. PICK what \in {"none", "recovery"}, where \in {"infra", "delay"}, down \in BOOLEAN :
        /\ task' = [task EXCEPT ![p] = what] /\ phase' = [phase EXCEPT ![p] = where]
        /\ shuttingDown' = [shuttingDown EXCEPT ![p] = down]
        /\ what = "none" => down
  <2>1. shuttingDown = [shuttingDown EXCEPT ![p] = shuttingDown[p]] /\ shuttingDown[p] \in BOOLEAN
    BY <1>1 DEF PluginTypes
  <2>2. CASE task[p] = "setup" /\ shuttingDown[p] /\ EndTask(p) /\ UNCHANGED shuttingDown
    BY <2>1, <2>2 DEF EndTask, GoTo
  <2>3. CASE task[p] = "setup" /\ ~shuttingDown[p] /\ EndTask(p) /\ Set(shuttingDown, p, TRUE)
    BY <2>3 DEF EndTask, GoTo, Set
  <2>4. CASE task[p] = "setup" /\ ~shuttingDown[p] /\ GoTo(p, "recovery", "infra") /\ UNCHANGED shuttingDown
    BY <2>1, <2>4 DEF GoTo
  <2>5. CASE task[p] = "recovery" /\ RetryOrEnd(p) /\ UNCHANGED shuttingDown
    BY <2>1, <2>5 DEF RetryOrEnd, EndTask, GoTo
  <2> QED BY <2>2, <2>3, <2>4, <2>5 DEF InfrastructureFails
<1>4. SessionTypeOK'
  <2>1. TypeOK' /\ faults' \in 0..MaxFaults
    BY <1>1, UndisturbedTypes, FaultStep DEF InfrastructureFails, PluginTypes
  <2>2. ClientTypeOK' /\ PluginTypes'
    BY <1>1, <1>2, <1>3, <2>1 DEF ClientTypeOK, PluginTypes
  <2> QED BY <2>1, <2>2, TypesSplit
<1>5. LocalTo(p)
  BY <1>1, <1>2, <1>3 DEF LocalTo, PluginTypes
<1>6. ClientsOf(p)' = ClientsOf(p)
  BY DEF ClientsOf
<1>7. task'[p] = what /\ phase'[p] = where /\ shuttingDown'[p] = down /\ candidate'[p] = NoClient
  BY <1>1, <1>2, <1>3 DEF PluginTypes
<1>8. /\ \A c \in ClientsOf(p) : ~Linked(c)
      /\ \A c \in ClientsOf(p) : pending[c] # <<>> => Head(pending[c]).type # "register"
  BY <1>1, <1>2 DEF PluginFits, LinksFit, RegisterAwaited, Awaits
<1>9. OwnClients(p)' /\ (\A c \in ClientsOf(p) : ClientFits(c)') /\ OneLinked(p)'
  BY <1>1, <1>2, <1>6, <1>7 DEF PluginFits, OwnClients, ClientFits, OneLinked, Linked
<1>10. RegisterAwaited(p)' /\ SetupIsFirst(p)' /\ LinksFit(p)' /\ NotAbandoned(p)'
  BY <1>2, <1>3, <1>6, <1>7, <1>8 DEF RegisterAwaited, SetupIsFirst, LinksFit, NotAbandoned, Linked, Awaits
<1> QED BY <1>4, <1>5, <1>6, <1>9, <1>10 DEF Keeps, PluginFits

-----------------------------------------------------------------------------
(* The steps of a plugin that change one of its clients.                   *)

\* The state of p changes to this, and that of no other plugin.
Turns(p, what, where, cand, cl, down, own, beat) ==
  /\ what \in {"unstarted", "setup", "recovery", "none"}
  /\ where \in {"infra", "connect", "register", "delay"}
  /\ cand \in Connection \cup {NoClient} /\ cl \in Connection \cup {NoClient}
  /\ down \in BOOLEAN /\ own \in SUBSET Hostname /\ beat \in BOOLEAN
  /\ task' = [task EXCEPT ![p] = what] /\ phase' = [phase EXCEPT ![p] = where]
  /\ candidate' = [candidate EXCEPT ![p] = cand] /\ client' = [client EXCEPT ![p] = cl]
  /\ shuttingDown' = [shuttingDown EXCEPT ![p] = down]
  /\ owned' = [owned EXCEPT ![p] = own] /\ heartbeat' = [heartbeat EXCEPT ![p] = beat]

LEMMA TurnView ==
  ASSUME PluginTypes, NEW p \in Plugin,
         NEW what, NEW where, NEW cand, NEW cl, NEW down, NEW own, NEW beat,
         Turns(p, what, where, cand, cl, down, own, beat)
  PROVE  /\ task' \in [Plugin -> {"unstarted", "setup", "recovery", "none"}]
         /\ phase' \in [Plugin -> {"infra", "connect", "register", "delay"}]
         /\ candidate' \in [Plugin -> Connection \cup {NoClient}]
         /\ client' \in [Plugin -> Connection \cup {NoClient}]
         /\ shuttingDown' \in [Plugin -> BOOLEAN]
         /\ owned' \in [Plugin -> SUBSET Hostname]
         /\ heartbeat' \in [Plugin -> BOOLEAN]
         /\ task'[p] = what /\ phase'[p] = where /\ candidate'[p] = cand /\ client'[p] = cl
         /\ shuttingDown'[p] = down /\ owned'[p] = own /\ heartbeat'[p] = beat
         /\ \A q \in Plugin \ {p} :
              /\ task'[q] = task[q] /\ phase'[q] = phase[q]
              /\ candidate'[q] = candidate[q] /\ client'[q] = client[q]
              /\ shuttingDown'[q] = shuttingDown[q] /\ heartbeat'[q] = heartbeat[q]
              /\ owned'[q] = owned[q]
<1>1. task' \in [Plugin -> {"unstarted", "setup", "recovery", "none"}] /\ task'[p] = what
  BY DEF Turns, PluginTypes
<1>2. phase' \in [Plugin -> {"infra", "connect", "register", "delay"}] /\ phase'[p] = where
  BY DEF Turns, PluginTypes
<1>3. candidate' \in [Plugin -> Connection \cup {NoClient}] /\ candidate'[p] = cand
  BY DEF Turns, PluginTypes
<1>4. client' \in [Plugin -> Connection \cup {NoClient}] /\ client'[p] = cl
  BY DEF Turns, PluginTypes
<1>5. shuttingDown' \in [Plugin -> BOOLEAN] /\ shuttingDown'[p] = down
  BY DEF Turns, PluginTypes
<1>6. owned' \in [Plugin -> SUBSET Hostname] /\ owned'[p] = own
  BY DEF Turns, PluginTypes
<1>7. heartbeat' \in [Plugin -> BOOLEAN] /\ heartbeat'[p] = beat
  BY DEF Turns, PluginTypes
<1>8. ASSUME NEW q \in Plugin \ {p}
      PROVE  /\ task'[q] = task[q] /\ phase'[q] = phase[q]
             /\ candidate'[q] = candidate[q] /\ client'[q] = client[q]
             /\ shuttingDown'[q] = shuttingDown[q] /\ heartbeat'[q] = heartbeat[q]
             /\ owned'[q] = owned[q]
  BY DEF Turns, PluginTypes
<1> QED BY <1>1, <1>2, <1>3, <1>4, <1>5, <1>6, <1>7, <1>8

\* The variables this step leaves alone, as a turn.
LEMMA Same ==
  ASSUME PluginTypes, NEW p \in Plugin
  PROVE  /\ task = [task EXCEPT ![p] = task[p]]
         /\ phase = [phase EXCEPT ![p] = phase[p]]
         /\ candidate = [candidate EXCEPT ![p] = candidate[p]]
         /\ client = [client EXCEPT ![p] = client[p]]
         /\ shuttingDown = [shuttingDown EXCEPT ![p] = shuttingDown[p]]
         /\ owned = [owned EXCEPT ![p] = owned[p]]
         /\ heartbeat = [heartbeat EXCEPT ![p] = heartbeat[p]]
         /\ task[p] \in {"unstarted", "setup", "recovery", "none"}
         /\ phase[p] \in {"infra", "connect", "register", "delay"}
         /\ candidate[p] \in Connection \cup {NoClient} /\ client[p] \in Connection \cup {NoClient}
         /\ shuttingDown[p] \in BOOLEAN /\ owned[p] \in SUBSET Hostname /\ heartbeat[p] \in BOOLEAN
BY DEF PluginTypes

\* The task, if this is one.
AtWork(what) == what \in {"setup", "recovery"}

\* What has to be shown of a step of p that changes its client c, to keep
\* PluginFits(p).
Fitting(p, c, L, P, C, what, where, cand, cl, down, own, beat) ==
  /\ L # "none" /\ link[c] # "none"
  /\ L = "connecting" => P = <<>>
  /\ L = "unregistering" => C
  /\ L \in {"connecting", "connected"} => Linked(c)
  /\ PendingFits(P, C)
  /\ cand = candidate[p] /\ cl \in {client[p], NoClient, c}
  /\ P # <<>> /\ Head(P).type = "register" => AtWork(what) /\ where = "register" /\ cand = c
  /\ Awaits(p, "register") => c = candidate[p] \/ (AtWork(what) /\ where = "register")
  /\ what # "unstarted"
  /\ what = "setup" => task[p] = "setup" /\ where \notin {"infra", "delay"} /\ phase[p] # "infra"
  /\ AtWork(what) /\ where \in {"infra", "delay"} =>
       /\ L \notin {"connecting", "connected"}
       /\ \A d \in ClientsOf(p) : d # c => ~Linked(d)
  /\ AtWork(what) /\ where = "connect" =>
       Awaits(p, "connect") /\ (c = cand => L = "connecting" /\ (~down => ~C))
         /\ (~down => ~shuttingDown[p])
  /\ AtWork(what) /\ where = "register" =>
       /\ Awaits(p, "connect") \/ Awaits(p, "register")
       /\ c = cand => /\ L \in {"connected", "unregistering", "ending"}
                      /\ ~down => L = "connected" /\ ~C
       /\ c # cand => Awaits(p, "register") /\ (~down => ~shuttingDown[p])
  /\ what = "none" /\ ~down /\ own # {} =>
       /\ beat /\ cl # NoClient
       /\ cl = c => L = "connected" /\ ~C
       /\ cl # c => link[cl] = "connected" /\ ~closing[cl]

LEMMA Effect ==
  ASSUME SInv, NEW p \in Plugin, NEW c \in ClientsOf(p), NEW L, NEW P, NEW C,
         NEW what, NEW where, NEW cand, NEW cl, NEW down, NEW own, NEW beat,
         Becomes(c, L, P, C), Turns(p, what, where, cand, cl, down, own, beat),
         Fitting(p, c, L, P, C, what, where, cand, cl, down, own, beat),
         TypeOK', claimed' \in [Connection -> SUBSET Hostname],
         inbox' \in [Connection -> Seq(ServerMessage)],
         started' = started, faults' \in 0..MaxFaults
  PROVE  Keeps(p)
<1>1. SessionTypeOK /\ PluginFits(p) /\ TypeOK /\ ClientTypeOK /\ PluginTypes
  BY TypesSplit DEF SInv
<1>2. /\ c \in Connection /\ ClientsOf(p)' = ClientsOf(p) /\ c # NoClient
      /\ ClientsOf(p) \subseteq Connection
  BY OwnerOfClient DEF ClientsOf
<1>3. /\ link' \in [Connection -> Link]
      /\ pending' \in [Connection -> Seq(PendingRequest)]
      /\ closing' \in [Connection -> BOOLEAN]
      /\ link'[c] = L /\ pending'[c] = P /\ closing'[c] = C
      /\ \A d \in Connection \ {c} :
           link'[d] = link[d] /\ pending'[d] = pending[d] /\ closing'[d] = closing[d]
  BY <1>1, <1>2, BecomesView
<1>4. /\ task'[p] = what /\ phase'[p] = where /\ candidate'[p] = cand /\ client'[p] = cl
      /\ shuttingDown'[p] = down /\ owned'[p] = own /\ heartbeat'[p] = beat
      /\ \A q \in Plugin \ {p} :
           /\ task'[q] = task[q] /\ phase'[q] = phase[q]
           /\ candidate'[q] = candidate[q] /\ client'[q] = client[q]
           /\ shuttingDown'[q] = shuttingDown[q] /\ heartbeat'[q] = heartbeat[q]
           /\ owned'[q] = owned[q]
  BY <1>1, TurnView
<1>5. SessionTypeOK'
  <2>1. ClientTypeOK'
    BY <1>3 DEF ClientTypeOK
  <2>2. PluginTypes'
    BY <1>1, TurnView DEF PluginTypes
  <2> QED BY <2>1, <2>2, TypesSplit
<1>6. /\ \A d \in ClientsOf(p) : ClientFits(d)'
      /\ OneLinked(p)'
      /\ \A d \in Connection \ ClientsOf(p) :
            link'[d] = link[d] /\ pending'[d] = pending[d] /\ closing'[d] = closing[d]
  BY OneChange DEF Fitting
<1>7. LocalTo(p)
  BY <1>4, <1>6 DEF LocalTo
<1>8. /\ candidate[p] = NoClient \/ (candidate[p] \in ClientsOf(p) /\ candidate[p] \in Connection /\ link[candidate[p]] # "none")
      /\ client[p] = NoClient \/ (client[p] \in ClientsOf(p) /\ client[p] \in Connection /\ link[client[p]] # "none")
  BY <1>1 DEF PluginFits, OwnClients, ClientsOf
<1>9. OwnClients(p)'
  BY <1>2, <1>3, <1>4, <1>8 DEF OwnClients, Fitting
<1>10. RegisterAwaited(p)'
  <2>1. ASSUME NEW d \in ClientsOf(p), pending'[d] # <<>>, Head(pending'[d]).type = "register"
        PROVE  AtWork(what) /\ where = "register" /\ cand = d
    <3>1. CASE d = c
      BY <1>3, <2>1, <3>1 DEF Fitting
    <3>2. CASE d # c
      BY <1>1, <1>2, <1>3, <2>1, <3>2 DEF Fitting, PluginFits, RegisterAwaited
    <3> QED BY <3>1, <3>2
  <2> QED BY <1>2, <1>4, <2>1 DEF RegisterAwaited, Awaits, AtWork
<1>11. SetupIsFirst(p)'
  <2>1. /\ what # "unstarted" /\ cand = candidate[p] /\ link[c] # "none"
        /\ what = "setup" => task[p] = "setup" /\ where \notin {"infra", "delay"} /\ phase[p] # "infra"
    BY DEF Fitting
  <2>2. task[p] = "setup" /\ phase[p] # "infra" => \A d \in ClientsOf(p) : d # candidate[p] => link[d] = "none"
    BY <1>1 DEF PluginFits, SetupIsFirst
  <2>3. ASSUME what = "setup", NEW d \in ClientsOf(p), d # cand PROVE link'[d] = "none"
    <3>1. link[d] = "none"
      BY <2>1, <2>2, <2>3
    <3> QED BY <1>2, <1>3, <2>1, <2>3, <3>1
  <2> QED BY <1>2, <1>4, <2>1, <2>3 DEF SetupIsFirst
<1>12. LinksFit(p)'
  <2>1. ASSUME AtWork(what), where \in {"infra", "delay"}
        PROVE  \A d \in ClientsOf(p) : ~Linked(d)'
    BY <1>2, <1>3, <2>1 DEF Fitting, Linked
  <2>2. ASSUME AtWork(what), where \in {"connect", "register"}
        PROVE  cand # NoClient /\ \A d \in ClientsOf(p) : Linked(d)' => d = cand
    BY <1>1, <1>2, <1>3, <2>2 DEF Fitting, Linked, PluginFits, LinksFit
  <2>3. ASSUME AtWork(what), where = "connect"
        PROVE  link'[cand] = "connecting" /\ (~down => ~closing'[cand])
    BY <1>1, <1>2, <1>3, <1>8, <2>2, <2>3 DEF Fitting, PluginFits, LinksFit
  <2>4. ASSUME AtWork(what), where = "register"
        PROVE  /\ link'[cand] \in {"connected", "unregistering", "ending"}
               /\ ~down => link'[cand] = "connected" /\ ~closing'[cand]
    BY <1>1, <1>2, <1>3, <1>8, <2>2, <2>4 DEF Fitting, PluginFits, LinksFit
  <2> QED BY <1>2, <1>4, <2>1, <2>2, <2>3, <2>4 DEF LinksFit, Awaits, AtWork
<1>13. NotAbandoned(p)'
  BY <1>2, <1>3, <1>4, <1>8 DEF NotAbandoned, Fitting
<1> QED BY <1>2, <1>5, <1>6, <1>7, <1>9, <1>10, <1>11, <1>12, <1>13 DEF Keeps, PluginFits

\* What the invariant says of p and of a client of p.
LEMMA Known ==
  ASSUME SInv, NEW p \in Plugin
  PROVE  /\ SessionTypeOK /\ TypeOK /\ ClientTypeOK /\ PluginTypes
         /\ PluginFits(p) /\ OwnClients(p) /\ RegisterAwaited(p) /\ SetupIsFirst(p) /\ LinksFit(p)
         /\ OneLinked(p) /\ NotAbandoned(p)
         /\ \A c \in ClientsOf(p) :
              /\ c \in Connection /\ c # NoClient /\ ClientFits(c)
              /\ pending[c] \in Seq(PendingRequest) /\ closing[c] \in BOOLEAN /\ link[c] \in Link
              /\ claimed[c] \in SUBSET Hostname /\ inbox[c] \in Seq(ServerMessage)
              /\ PendingFits(pending[c], closing[c])
<1>1. SessionTypeOK /\ PluginFits(p) /\ TypeOK /\ ClientTypeOK /\ PluginTypes
  BY TypesSplit DEF SInv
<1>2. /\ OwnClients(p) /\ RegisterAwaited(p) /\ SetupIsFirst(p) /\ LinksFit(p)
      /\ OneLinked(p) /\ NotAbandoned(p)
  BY <1>1 DEF PluginFits
<1>3. ASSUME NEW c \in ClientsOf(p)
      PROVE  /\ c \in Connection /\ c # NoClient /\ ClientFits(c)
             /\ pending[c] \in Seq(PendingRequest) /\ closing[c] \in BOOLEAN /\ link[c] \in Link
             /\ claimed[c] \in SUBSET Hostname /\ inbox[c] \in Seq(ServerMessage)
             /\ PendingFits(pending[c], closing[c])
  <2>1. c \in Connection /\ c # NoClient /\ ClientFits(c)
    BY <1>1, OwnerOfClient DEF PluginFits
  <2>2. /\ pending[c] \in Seq(PendingRequest) /\ closing[c] \in BOOLEAN /\ link[c] \in Link
        /\ claimed[c] \in SUBSET Hostname /\ inbox[c] \in Seq(ServerMessage)
    BY <1>1, <2>1 DEF ClientTypeOK
  <2> QED BY <2>1, <2>2 DEF ClientFits, PendingFits
<1> QED BY <1>1, <1>2, <1>3

\* The candidate of a task that awaits its connection or its registration.
LEMMA CandidateOf ==
  ASSUME SInv, NEW p \in Plugin, Awaits(p, "connect") \/ Awaits(p, "register")
  PROVE  /\ candidate[p] \in ClientsOf(p)
         /\ candidate[p] # NoClient
         /\ link[candidate[p]] # "none"
         /\ \A d \in ClientsOf(p) : d # candidate[p] => ~Linked(d)
         /\ task[p] = "setup" => phase[p] # "infra"
BY Known DEF OwnClients, LinksFit, Awaits

LEMMA ConnectedKeeps ==
  ASSUME SInv, NEW p \in Plugin, Connected(p)
  PROVE  Keeps(p)
<1> DEFINE c == candidate[p]
           request == [type |-> "register", hostnames |-> owned[p]]
<1>1. SessionTypeOK /\ TypeOK /\ ClientTypeOK /\ PluginTypes
  BY Known
<1>2. Awaits(p, "connect")
  BY DEF Connected
<1>3. /\ c \in ClientsOf(p) /\ c \in Connection /\ c # NoClient
      /\ link[c] = "connecting" /\ (~shuttingDown[p] => ~closing[c]) /\ closing[c] \in BOOLEAN
  BY <1>2, Known, CandidateOf DEF LinksFit
<1>4. /\ link' = [link EXCEPT ![c] = "connected"] /\ claimed' = claimed /\ inbox' = inbox
      /\ closing' = closing /\ candidate' = candidate /\ client' = client
      /\ shuttingDown' = shuttingDown /\ owned' = owned /\ heartbeat' = heartbeat
      /\ started' = started /\ faults' = faults
      /\ task' = [task EXCEPT ![p] = task[p]] /\ phase' = [phase EXCEPT ![p] = "register"]
      /\ Request(c, p, "register", owned[p], <<>>)
  BY DEF Connected, Set, GoTo, lifeVars
<1>5. TypeOK' /\ <<request>> \in Seq(PendingRequest) /\ pending' = [pending EXCEPT ![c] = <<request>>]
  <2>1. owned[p] \in SUBSET Hostname /\ p \in OwnerToken /\ <<>> \in Seq(PendingRequest)
    BY <1>1, Same DEF Plugin
  <2>2. /\ TypeOK' /\ Append(<<>>, request) \in Seq(PendingRequest)
        /\ pending' = [pending EXCEPT ![c] = Append(<<>>, request)]
    <3> HIDE DEF c
    <3>1. Request(c, p, "register", owned[p], <<>>)
      BY <1>4
    <3>2. ASSUME NEW rest \in Seq(PendingRequest), Request(c, p, "register", owned[p], rest)
          PROVE  /\ TypeOK' /\ Append(rest, request) \in Seq(PendingRequest)
                 /\ pending' = [pending EXCEPT ![c] = Append(rest, request)]
      BY <1>1, <1>3, <2>1, <3>2, RequestStep
    <3> QED BY <2>1, <3>1, <3>2
  <2>3. Append(<<>>, request) = <<request>>
    OBVIOUS
  <2> QED BY <2>2, <2>3
<1>6. Becomes(c, "connected", <<request>>, closing[c])
  BY <1>1, <1>3, <1>4, <1>5 DEF Becomes, Link, ClientTypeOK
<1>7. Turns(p, task[p], "register", candidate[p], client[p], shuttingDown[p], owned[p], heartbeat[p])
  BY <1>1, <1>4, Same DEF Turns
<1>8. PendingFits(<<request>>, closing[c])
  BY DEF PendingFits
<1>9. Fitting(p, c, "connected", <<request>>, closing[c], task[p], "register", candidate[p],
              client[p], shuttingDown[p], owned[p], heartbeat[p])
  BY <1>2, <1>3, <1>8, CandidateOf DEF Fitting, Awaits, AtWork, Linked
<1>10. claimed' \in [Connection -> SUBSET Hostname] /\ inbox' \in [Connection -> Seq(ServerMessage)]
       /\ faults' \in 0..MaxFaults
  BY <1>1, <1>4 DEF ClientTypeOK, PluginTypes
<1> QED BY <1>3, <1>4, <1>5, <1>6, <1>7, <1>9, <1>10, Effect

\* The task after a failed connect() or register(), of p and then of its life.
LEMMA FailureTurns ==
  ASSUME PluginTypes, NEW p \in Plugin, AfterFailure(p),
         UNCHANGED <<candidate, owned, heartbeat>>
  PROVE  \E what \in {"none", "recovery"}, where \in {"infra", "delay"},
            cl \in {client[p], NoClient}, down \in BOOLEAN :
           /\ Turns(p, what, where, candidate[p], cl, down, owned[p], heartbeat[p])
           /\ what = "none" => down
           /\ what = "recovery" => ~down /\ where = "delay" /\ task[p] = "recovery"
<1>1. CASE task[p] = "setup"
  <2>1. Turns(p, "none", "infra", candidate[p], NoClient, TRUE, owned[p], heartbeat[p])
    BY <1>1, Same DEF AfterFailure, EndTask, GoTo, Set, Turns
  <2> QED BY <2>1
<1>2. CASE task[p] = "recovery" /\ shuttingDown[p]
  <2>1. Turns(p, "none", "infra", candidate[p], client[p], shuttingDown[p], owned[p], heartbeat[p])
    BY <1>2, Same DEF AfterFailure, RetryOrEnd, EndTask, GoTo, Turns, lifeVars
  <2> QED BY <1>2, <2>1
<1>3. CASE task[p] = "recovery" /\ ~shuttingDown[p]
  <2>1. Turns(p, "recovery", "delay", candidate[p], client[p], shuttingDown[p], owned[p], heartbeat[p])
    BY <1>3, Same DEF AfterFailure, RetryOrEnd, GoTo, Turns, lifeVars
  <2>2. shuttingDown[p] \in BOOLEAN
    BY Same
  <2> QED BY <1>3, <2>1, <2>2
<1> QED BY <1>1, <1>2, <1>3 DEF AfterFailure

\* The candidate of the failed task is no longer in use.
LEMMA FailureFits ==
  ASSUME SInv, NEW p \in Plugin, Awaits(p, "connect") \/ Awaits(p, "register"),
         NEW L, NEW P, NEW C, L # "none", L # "connecting", L = "unregistering" => C,
         NEW what \in {"none", "recovery"}, NEW where \in {"infra", "delay"},
         NEW cl \in {client[p], NoClient}, NEW down,
         L = "connected" => what = "none" /\ Linked(candidate[p]),
         what = "none" => down, PendingFits(P, C),
         P = <<>> \/ Head(P).type # "register"
  PROVE  Fitting(p, candidate[p], L, P, C, what, where, candidate[p], cl, down, owned[p], heartbeat[p])
BY CandidateOf DEF Fitting, AtWork

LEMMA ConnectFailsKeeps ==
  ASSUME SInv, NEW p \in Plugin, ConnectFails(p)
  PROVE  Keeps(p)
<1> DEFINE c == candidate[p]
<1>1. SessionTypeOK /\ TypeOK /\ ClientTypeOK /\ PluginTypes
  BY Known
<1>2. Awaits(p, "connect") /\ AfterFailure(p)
  BY DEF ConnectFails
<1>3. c \in ClientsOf(p) /\ c \in Connection /\ closing[c] \in BOOLEAN
  BY <1>2, Known, CandidateOf
<1>4. /\ link' = [link EXCEPT ![c] = "gone"] /\ pending' = [pending EXCEPT ![c] = <<>>]
      /\ inbox' = [inbox EXCEPT ![c] = <<>>] /\ claimed' = claimed /\ closing' = closing
      /\ started' = started /\ faults' = faults /\ ServerUndisturbed
      /\ UNCHANGED <<candidate, owned, heartbeat>>
  BY DEF ConnectFails, Severed, Set
<1>5. PICK what \in {"none", "recovery"}, where \in {"infra", "delay"},
           cl \in {client[p], NoClient}, down \in BOOLEAN :
           /\ Turns(p, what, where, candidate[p], cl, down, owned[p], heartbeat[p])
           /\ what = "none" => down
  BY <1>1, <1>2, <1>4, FailureTurns
<1>6. Becomes(c, "gone", <<>>, closing[c])
  BY <1>1, <1>3, <1>4 DEF Becomes, Link, ClientTypeOK
<1>7. PendingFits(<<>>, closing[c])
  BY DEF PendingFits
<1>8. Fitting(p, c, "gone", <<>>, closing[c], what, where, candidate[p], cl, down, owned[p], heartbeat[p])
  BY <1>2, <1>5, <1>7, FailureFits
<1>9. TypeOK'
  BY <1>1, <1>4, UndisturbedTypes
<1>10. claimed' \in [Connection -> SUBSET Hostname] /\ inbox' \in [Connection -> Seq(ServerMessage)]
       /\ faults' \in 0..MaxFaults
  <2>1. <<>> \in Seq(ServerMessage)
    OBVIOUS
  <2> QED BY <1>1, <1>3, <1>4, <2>1 DEF ClientTypeOK, PluginTypes
<1> QED BY <1>3, <1>4, <1>5, <1>6, <1>8, <1>9, <1>10, Effect

\* What a client reads is typed, and so is what is left of its inbox.
LEMMA ChunkTypes ==
  ASSUME ClientTypeOK, NEW c \in Connection, NEW n, AnswerChunk(c, n)
  PROVE  /\ inbox' \in [Connection -> Seq(ServerMessage)]
         /\ Head(inbox[c]) \in ServerMessage
         /\ Head(inbox[c]).type \in {"registered", "unregistered", "heartbeat"}
              => Head(inbox[c]).hostnames \in SUBSET Hostname
<1>1. inbox[c] \in Seq(ServerMessage) /\ Len(inbox[c]) \in Nat /\ n \in 0..(Len(inbox[c]) - 1)
  BY DEF ClientTypeOK, AnswerChunk
<1>2. inbox[c] # <<>> /\ Head(inbox[c]) \in ServerMessage
  BY <1>1
<1>3. SubSeq(inbox[c], n + 2, Len(inbox[c])) \in Seq(ServerMessage)
  BY <1>1, SubSeqProperties
<1>4. inbox' = [inbox EXCEPT ![c] = SubSeq(inbox[c], n + 2, Len(inbox[c]))]
  BY DEF AnswerChunk
<1>5. inbox' \in [Connection -> Seq(ServerMessage)]
  BY <1>3, <1>4 DEF ClientTypeOK
<1> QED BY <1>2, <1>5 DEF ServerMessage

\* An answer to a register takes the request off the list.
LEMMA AnswerTaken ==
  ASSUME SInv, NEW p \in Plugin, NEW c \in ClientsOf(p), pending[c] # <<>>
  PROVE  /\ Tail(pending[c]) \in Seq(PendingRequest)
         /\ \A b \in {closing[c], TRUE} : PendingFits(Tail(pending[c]), b)
         /\ NoRegister(Tail(pending[c]))
         /\ Tail(pending[c]) # <<>> => Head(Tail(pending[c])).type # "register"
<1>1. pending[c] \in Seq(PendingRequest) /\ PendingFits(pending[c], closing[c])
  BY Known
<1>2. /\ Tail(pending[c]) \in Seq(PendingRequest)
      /\ PendingFits(Tail(pending[c]), closing[c])
      /\ NoRegister(Tail(pending[c]))
  BY <1>1, TailFits
<1>3. PendingFits(Tail(pending[c]), TRUE)
  BY <1>2 DEF PendingFits
<1>4. Tail(pending[c]) # <<>> => 1 \in 1..Len(Tail(pending[c])) /\ Head(Tail(pending[c])) = Tail(pending[c])[1]
  BY <1>2
<1> QED BY <1>2, <1>3, <1>4 DEF NoRegister

\* Close, of a client whose register is no longer pending.
LEMMA CloseFits ==
  ASSUME SInv, NEW p \in Plugin, NEW c \in ClientsOf(p), NEW claims \in SUBSET Hostname,
         NEW rest \in Seq(PendingRequest), PendingFits(rest, TRUE), Close(c, p, claims, rest)
  PROVE  /\ TypeOK'
         /\ \E L \in Link, P \in Seq(PendingRequest) :
              /\ Becomes(c, L, P, TRUE) /\ PendingFits(P, TRUE)
              /\ NoRegister(rest) => (P = <<>> \/ Head(P).type # "register")
              /\ P # <<>> /\ Head(P).type = "register" => rest # <<>> /\ Head(rest).type = "register"
              /\ \/ link[c] = "connected" /\ L \in {"unregistering", "ending"}
                 \/ link[c] # "connected" /\ L = link[c] /\ P = <<>>
<1> DEFINE request == [type |-> "unregister", hostnames |-> claims]
<1>1. /\ SessionTypeOK /\ c \in Connection /\ p \in OwnerToken /\ link[c] \in Link
      /\ request \in PendingRequest
  BY Known DEF Plugin, PendingRequest
<1>2. /\ TypeOK'
      /\ \/ /\ link[c] = "connected"
            /\ Becomes(c, "unregistering", Append(rest, request), TRUE)
         \/ link[c] = "connected" /\ Becomes(c, "ending", rest, TRUE)
         \/ link[c] # "connected" /\ Becomes(c, link[c], <<>>, TRUE)
  BY <1>1, CloseStep
<1>3. /\ Append(rest, request) \in Seq(PendingRequest)
      /\ PendingFits(Append(rest, request), TRUE)
      /\ NoRegister(rest) => NoRegister(Append(rest, request))
      /\ rest # <<>> => Head(Append(rest, request)) = Head(rest)
      /\ rest = <<>> => Head(Append(rest, request)) = request
  BY <1>1, AppendFits
<1>4. rest # <<>> => 1 \in 1..Len(rest) /\ Head(rest) = rest[1]
  OBVIOUS
<1>5. NoRegister(rest) /\ rest # <<>> => Head(rest).type # "register"
  BY <1>4 DEF NoRegister
<1>6. PendingFits(<<>>, TRUE) /\ <<>> \in Seq(PendingRequest)
  BY DEF PendingFits
<1>7. "unregistering" \in Link /\ "ending" \in Link
  BY DEF Link
<1>8. CASE link[c] = "connected" /\ Becomes(c, "unregistering", Append(rest, request), TRUE)
  <2>1. Head(Append(rest, request)).type = "register" => rest # <<>> /\ Head(rest).type = "register"
    BY <1>3
  <2> QED BY <1>2, <1>3, <1>5, <1>7, <1>8, <2>1
<1>9. CASE link[c] = "connected" /\ Becomes(c, "ending", rest, TRUE)
  BY <1>2, <1>5, <1>7, <1>9
<1>10. CASE link[c] # "connected" /\ Becomes(c, link[c], <<>>, TRUE)
  BY <1>1, <1>2, <1>6, <1>10
<1> QED BY <1>2, <1>8, <1>9, <1>10

LEMMA RegisterAnsweredKeeps ==
  ASSUME SInv, NEW p \in Plugin, NEW n, RegisterAnswered(p, n)
  PROVE  Keeps(p)
<1> DEFINE c == candidate[p]
           claims == ClaimedAfterRegistered(c, n)
           own == owned[p] \ LostIn(c, n)
<1>1. SessionTypeOK /\ TypeOK /\ ClientTypeOK /\ PluginTypes /\ LinksFit(p)
  BY Known
<1>2. /\ Awaits(p, "register") /\ AnswerChunk(c, n) /\ pending[c] # <<>>
      /\ Head(inbox[c]).type = "registered"
      /\ claimed' = [claimed EXCEPT ![c] = claims]
      /\ owned' = [owned EXCEPT ![p] = own]
      /\ task' = [task EXCEPT ![p] = "none"] /\ phase' = [phase EXCEPT ![p] = "infra"]
      /\ AdoptOrRelease(p, c, claims)
      /\ candidate' = candidate /\ shuttingDown' = shuttingDown
      /\ started' = started /\ faults' = faults
  BY DEF RegisterAnswered, Set, EndTask, GoTo, Answers
<1>3. /\ c \in ClientsOf(p) /\ c \in Connection /\ c # NoClient /\ closing[c] \in BOOLEAN
      /\ link[c] \in Link /\ link[c] # "none" /\ claimed[c] \in SUBSET Hostname
  BY <1>2, Known, CandidateOf
<1>4. /\ link[c] \in {"connected", "unregistering", "ending"}
      /\ ~shuttingDown[p] => link[c] = "connected" /\ ~closing[c]
  BY <1>1, <1>2 DEF LinksFit
<1>5. /\ inbox' \in [Connection -> Seq(ServerMessage)]
      /\ Head(inbox[c]).hostnames \in SUBSET Hostname
  BY <1>1, <1>2, <1>3, ChunkTypes
<1>6. claims \in SUBSET Hostname /\ own \in SUBSET Hostname
  BY <1>1, <1>3, <1>5, Same DEF ClaimedAfterRegistered
<1>7. claimed' \in [Connection -> SUBSET Hostname]
  BY <1>1, <1>2, <1>6 DEF ClientTypeOK
<1>8. /\ Tail(pending[c]) \in Seq(PendingRequest)
      /\ PendingFits(Tail(pending[c]), closing[c]) /\ PendingFits(Tail(pending[c]), TRUE)
      /\ NoRegister(Tail(pending[c]))
      /\ Tail(pending[c]) # <<>> => Head(Tail(pending[c])).type # "register"
  BY <1>2, <1>3, AnswerTaken
<1>9. faults' \in 0..MaxFaults
  BY <1>1, <1>2 DEF PluginTypes
<1> HIDE DEF c, claims, own
<1>10. c = candidate[p]
  BY DEF c
<1>11. CASE ~shuttingDown[p] /\ Adopt(p, c)
  <2>1. /\ client' = [client EXCEPT ![p] = c] /\ heartbeat' = [heartbeat EXCEPT ![p] = TRUE]
        /\ pending' = [pending EXCEPT ![c] = Tail(pending[c])]
        /\ link' = link /\ closing' = closing /\ ServerUndisturbed
    BY <1>11 DEF Adopt, Set
  <2>2. Becomes(c, link[c], Tail(pending[c]), closing[c])
    BY <1>1, <1>3, <1>8, <2>1 DEF Becomes, ClientTypeOK
  <2>3. Turns(p, "none", "infra", candidate[p], c, shuttingDown[p], own, TRUE)
    BY <1>1, <1>2, <1>3, <1>6, <2>1, Same DEF Turns
  <2>4. Fitting(p, c, link[c], Tail(pending[c]), closing[c], "none", "infra", candidate[p], c,
                shuttingDown[p], own, TRUE)
    BY <1>3, <1>4, <1>8, <1>10, <1>11 DEF Fitting, AtWork, Linked
  <2>5. TypeOK'
    BY <1>1, <2>1, UndisturbedTypes
  <2> QED BY <1>2, <1>3, <1>5, <1>7, <1>9, <2>2, <2>3, <2>4, <2>5, Effect
<1>12. CASE shuttingDown[p] /\ Close(c, p, claims, Tail(pending[c])) /\ UNCHANGED <<client, heartbeat>>
  <2>1. PICK L \in Link, P \in Seq(PendingRequest) :
          /\ Becomes(c, L, P, TRUE) /\ PendingFits(P, TRUE)
          /\ P = <<>> \/ Head(P).type # "register"
          /\ \/ link[c] = "connected" /\ L \in {"unregistering", "ending"}
             \/ link[c] # "connected" /\ L = link[c] /\ P = <<>>
    BY <1>3, <1>6, <1>8, <1>12, CloseFits
  <2>2. TypeOK'
    BY <1>3, <1>6, <1>8, <1>12, CloseFits
  <2>3. Turns(p, "none", "infra", candidate[p], client[p], shuttingDown[p], own, heartbeat[p])
    BY <1>1, <1>2, <1>6, <1>12, Same DEF Turns
  <2>4. Fitting(p, c, L, P, TRUE, "none", "infra", candidate[p], client[p], shuttingDown[p], own, heartbeat[p])
    BY <1>3, <1>4, <1>10, <1>12, <2>1 DEF Fitting, AtWork, Linked
  <2> QED BY <1>2, <1>3, <1>5, <1>7, <1>9, <2>1, <2>2, <2>3, <2>4, Effect
<1>13. CASE /\ shuttingDown[p] /\ Set(pending, c, Tail(pending[c])) /\ ServerUndisturbed
            /\ UNCHANGED <<link, closing, client, heartbeat>>
  <2>1. Becomes(c, link[c], Tail(pending[c]), closing[c])
    BY <1>1, <1>3, <1>8, <1>13 DEF Becomes, ClientTypeOK, Set
  <2>2. Turns(p, "none", "infra", candidate[p], client[p], shuttingDown[p], own, heartbeat[p])
    BY <1>1, <1>2, <1>6, <1>13, Same DEF Turns
  <2>3. Fitting(p, c, link[c], Tail(pending[c]), closing[c], "none", "infra", candidate[p], client[p],
                shuttingDown[p], own, heartbeat[p])
    BY <1>3, <1>4, <1>8, <1>10, <1>13, Known DEF Fitting, AtWork, Linked, ClientFits
  <2>4. TypeOK'
    BY <1>1, <1>13, UndisturbedTypes
  <2> QED BY <1>2, <1>3, <1>5, <1>7, <1>9, <2>1, <2>2, <2>3, <2>4, Effect
<1> QED BY <1>2, <1>11, <1>12, <1>13 DEF AdoptOrRelease

\* register() fails, by an error or by its timeout.
FailsWith(p, rest) ==
  \/ /\ task[p] = "setup" /\ shuttingDown[p]
     /\ pending' = [pending EXCEPT ![candidate[p]] = rest]
     /\ ServerUndisturbed /\ UNCHANGED <<link, closing>>
  \/ Close(candidate[p], p, claimed[candidate[p]], rest)

LEMMA RegisterFailsKeeps ==
  ASSUME SInv, NEW p \in Plugin, Awaits(p, "register"), NEW rest \in Seq(PendingRequest),
         AfterFailure(p), FailsWith(p, rest), NoRegister(rest),
         PendingFits(rest, closing[candidate[p]]),
         inbox' \in [Connection -> Seq(ServerMessage)], faults' \in 0..MaxFaults,
         UNCHANGED <<claimed, owned, candidate, heartbeat, started>>
  PROVE  Keeps(p)
<1> DEFINE c == candidate[p]
<1>1. SessionTypeOK /\ TypeOK /\ ClientTypeOK /\ PluginTypes /\ LinksFit(p)
  BY Known
<1>2. /\ c \in ClientsOf(p) /\ c \in Connection /\ c # NoClient /\ closing[c] \in BOOLEAN
      /\ link[c] \in Link /\ link[c] # "none" /\ claimed[c] \in SUBSET Hostname /\ ClientFits(c)
  BY Known, CandidateOf
<1>3. /\ link[c] \in {"connected", "unregistering", "ending"}
      /\ ~shuttingDown[p] => link[c] = "connected" /\ ~closing[c]
  BY <1>1 DEF LinksFit
<1>4. PICK what \in {"none", "recovery"}, where \in {"infra", "delay"},
           cl \in {client[p], NoClient}, down \in BOOLEAN :
           /\ Turns(p, what, where, candidate[p], cl, down, owned[p], heartbeat[p])
           /\ what = "none" => down
           /\ what = "recovery" => ~down /\ where = "delay" /\ task[p] = "recovery"
  BY <1>1, FailureTurns
<1>5. claimed' \in [Connection -> SUBSET Hostname] /\ started' = started
  BY <1>1 DEF ClientTypeOK
<1>6. rest # <<>> => Head(rest).type # "register"
  <2>1. rest # <<>> => 1 \in 1..Len(rest) /\ Head(rest) = rest[1]
    OBVIOUS
  <2> QED BY <2>1 DEF NoRegister
<1>0. PendingFits(rest, TRUE)
  BY DEF PendingFits
<1> HIDE DEF c
<1>7. c = candidate[p]
  BY DEF c
<1>8. CASE /\ task[p] = "setup" /\ shuttingDown[p]
           /\ pending' = [pending EXCEPT ![c] = rest]
           /\ ServerUndisturbed /\ UNCHANGED <<link, closing>>
  <2>1. Becomes(c, link[c], rest, closing[c])
    BY <1>1, <1>2, <1>8 DEF Becomes, ClientTypeOK
  <2>2. what = "none"
    BY <1>4, <1>8
  <2>3. PendingFits(rest, closing[c])
    BY <1>7
  <2>4. Fitting(p, c, link[c], rest, closing[c], what, where, candidate[p], cl, down, owned[p], heartbeat[p])
    BY <1>2, <1>3, <1>4, <1>6, <1>7, <2>2, <2>3 DEF Fitting, AtWork, Linked, ClientFits
  <2>5. TypeOK'
    BY <1>1, <1>8, UndisturbedTypes
  <2> QED BY <1>2, <1>4, <1>5, <2>1, <2>4, <2>5, Effect
<1>9. CASE Close(c, p, claimed[c], rest)
  <2>1. PICK L \in Link, P \in Seq(PendingRequest) :
          /\ Becomes(c, L, P, TRUE) /\ PendingFits(P, TRUE)
          /\ P = <<>> \/ Head(P).type # "register"
          /\ \/ link[c] = "connected" /\ L \in {"unregistering", "ending"}
             \/ link[c] # "connected" /\ L = link[c] /\ P = <<>>
    BY <1>0, <1>2, <1>9, CloseFits
  <2>2. TypeOK'
    BY <1>0, <1>2, <1>9, CloseFits
  <2>3. L # "none" /\ L # "connecting" /\ L # "connected"
    BY <1>2, <1>3, <2>1
  <2>4. Fitting(p, c, L, P, TRUE, what, where, candidate[p], cl, down, owned[p], heartbeat[p])
    BY <1>4, <1>7, <2>1, <2>3, FailureFits
  <2> QED BY <1>2, <1>4, <1>5, <2>1, <2>2, <2>4, Effect
<1> QED BY <1>8, <1>9 DEF FailsWith, c

LEMMA RefusedKeeps ==
  ASSUME SInv, NEW p \in Plugin, NEW n, Refused(p, n)
  PROVE  Keeps(p)
<1> DEFINE c == candidate[p]
<1>1. /\ Awaits(p, "register") /\ AnswerChunk(c, n) /\ pending[c] # <<>>
      /\ AfterFailure(p) /\ FailsWith(p, Tail(pending[c]))
      /\ UNCHANGED <<claimed, owned, candidate, heartbeat, started, faults>>
  BY DEF Refused, Answers, RegisterFails, FailsWith, Set
<1>2. c \in ClientsOf(p) /\ c \in Connection /\ ClientTypeOK /\ PluginTypes
  BY <1>1, Known, CandidateOf
<1>3. inbox' \in [Connection -> Seq(ServerMessage)]
  BY <1>1, <1>2, ChunkTypes
<1>4. /\ Tail(pending[c]) \in Seq(PendingRequest) /\ NoRegister(Tail(pending[c]))
      /\ PendingFits(Tail(pending[c]), closing[c])
  BY <1>1, <1>2, AnswerTaken
<1>5. faults' \in 0..MaxFaults
  BY <1>1, <1>2 DEF PluginTypes
<1>6. UNCHANGED <<claimed, owned, candidate, heartbeat, started>>
  BY <1>1
<1> QED BY <1>1, <1>3, <1>4, <1>5, <1>6, RegisterFailsKeeps

\* The unregister of close() is settled.
LEMMA EndAfterUnregisterKeeps ==
  ASSUME SInv, NEW p \in Plugin, NEW c \in ClientsOf(p), NEW rest \in Seq(PendingRequest),
         EndAfterUnregister(c, rest), PendingFits(rest, closing[c]),
         closing[c], pending[c] # <<>>, closing' = closing,
         rest # <<>> /\ Head(rest).type = "register" => Head(pending[c]).type = "register",
         NEW own \in SUBSET Hostname, own \subseteq owned[p], owned' = [owned EXCEPT ![p] = own],
         inbox' \in [Connection -> Seq(ServerMessage)], faults' \in 0..MaxFaults,
         claimed' \in [Connection -> SUBSET Hostname],
         UNCHANGED <<taskVars, candidate, lifeVars, heartbeat, started>>
  PROVE  Keeps(p)
<1>1. SessionTypeOK /\ TypeOK /\ ClientTypeOK /\ PluginTypes /\ LinksFit(p) /\ SetupIsFirst(p) /\ NotAbandoned(p)
  BY Known
<1>2. c \in Connection /\ c # NoClient /\ closing[c] \in BOOLEAN /\ link[c] \in Link /\ ClientFits(c)
  BY Known
<1>3. link[c] # "none" /\ link[c] # "connecting"
  BY <1>2 DEF ClientFits
<1>4. HangUp(c) /\ link' = [link EXCEPT ![c] = "ending"] /\ pending' = [pending EXCEPT ![c] = rest]
  BY DEF EndAfterUnregister
<1>5. Becomes(c, "ending", rest, closing[c])
  BY <1>1, <1>2, <1>4 DEF Becomes, Link, ClientTypeOK
<1>6. Turns(p, task[p], phase[p], candidate[p], client[p], shuttingDown[p], own, heartbeat[p])
  BY <1>1, Same DEF Turns, taskVars, lifeVars
<1>7. TypeOK'
  BY <1>1, <1>2, <1>4, HangUpTypes
<1>8. rest # <<>> /\ Head(rest).type = "register" => Awaits(p, "register") /\ candidate[p] = c
  BY Known DEF RegisterAwaited
<1>9. Fitting(p, c, "ending", rest, closing[c], task[p], phase[p], candidate[p], client[p],
              shuttingDown[p], own, heartbeat[p])
  BY <1>1, <1>2, <1>3, <1>8 DEF Fitting, AtWork, Awaits, Linked, LinksFit, SetupIsFirst, NotAbandoned
<1> QED BY <1>1, <1>5, <1>6, <1>7, <1>9, Effect

\* Only the pending requests of a client change, and what its plugin owns.
LEMMA PendingKeeps ==
  ASSUME SInv, NEW p \in Plugin, NEW c \in ClientsOf(p), NEW rest \in Seq(PendingRequest),
         pending' = [pending EXCEPT ![c] = rest], link' = link, closing' = closing,
         PendingFits(rest, closing[c]), link[c] \notin {"none", "connecting"},
         rest # <<>> /\ Head(rest).type = "register"
           => pending[c] # <<>> /\ Head(pending[c]).type = "register",
         NEW own \in SUBSET Hostname, own \subseteq owned[p], owned' = [owned EXCEPT ![p] = own],
         TypeOK', inbox' \in [Connection -> Seq(ServerMessage)], faults' \in 0..MaxFaults,
         claimed' \in [Connection -> SUBSET Hostname],
         UNCHANGED <<taskVars, candidate, lifeVars, heartbeat, started>>
  PROVE  Keeps(p)
<1>1. SessionTypeOK /\ TypeOK /\ ClientTypeOK /\ PluginTypes /\ LinksFit(p) /\ SetupIsFirst(p) /\ NotAbandoned(p)
  BY Known
<1>2. c \in Connection /\ c # NoClient /\ closing[c] \in BOOLEAN /\ link[c] \in Link /\ ClientFits(c)
  BY Known
<1>3. Becomes(c, link[c], rest, closing[c])
  BY <1>1, <1>2 DEF Becomes, ClientTypeOK
<1>4. Turns(p, task[p], phase[p], candidate[p], client[p], shuttingDown[p], own, heartbeat[p])
  BY <1>1, Same DEF Turns, taskVars, lifeVars
<1>5. rest # <<>> /\ Head(rest).type = "register" => Awaits(p, "register") /\ candidate[p] = c
  BY Known DEF RegisterAwaited
<1>6. Fitting(p, c, link[c], rest, closing[c], task[p], phase[p], candidate[p], client[p],
              shuttingDown[p], own, heartbeat[p])
  BY <1>1, <1>2, <1>5
     DEF Fitting, AtWork, Awaits, Linked, LinksFit, SetupIsFirst, NotAbandoned, ClientFits
<1> QED BY <1>1, <1>3, <1>4, <1>6, Effect

LEMMA TimesOutKeeps ==
  ASSUME SInv, NEW p \in Plugin, NEW c \in ClientsOf(p), TimesOut(p, c)
  PROVE  Keeps(p)
<1>1. /\ SessionTypeOK /\ TypeOK /\ ClientTypeOK /\ PluginTypes /\ RegisterAwaited(p)
      /\ pending[c] \in Seq(PendingRequest) /\ c \in Connection /\ closing[c] \in BOOLEAN
      /\ PendingFits(pending[c], closing[c]) /\ ClientFits(c)
  BY Known
<1>2. PICK i \in 1..Len(pending[c]) :
        /\ Fault
        /\ \/ /\ pending[c][i].type = "register"
              /\ AfterFailure(p)
              /\ FailsWith(p, [pending[c] EXCEPT ![i].type = "abandoned"])
           \/ /\ pending[c][i].type = "unregister"
              /\ EndAfterUnregister(c, [pending[c] EXCEPT ![i].type = "abandoned"])
              /\ UNCHANGED <<taskVars, lifeVars, closing>>
           \/ /\ pending[c][i].type = "heartbeat"
              /\ pending' = [pending EXCEPT ![c] = [pending[c] EXCEPT ![i].type = "abandoned"]]
              /\ ServerUndisturbed
              /\ UNCHANGED <<taskVars, lifeVars, link, closing>>
        /\ UNCHANGED <<claimed, inbox, candidate, owned, heartbeat, started>>
  BY DEF TimesOut, RegisterFails, FailsWith, Set
<1> DEFINE rest == [pending[c] EXCEPT ![i].type = "abandoned"]
<1>3. /\ rest \in Seq(PendingRequest) /\ PendingFits(rest, closing[c])
      /\ pending[c][i].type = "register" => NoRegister(rest)
      /\ rest # <<>>
      /\ Head(rest).type = "register" => Head(pending[c]).type = "register"
  BY <1>1, AbandonFits
<1> HIDE DEF rest
<1>4. faults' \in 0..MaxFaults
  BY <1>1, <1>2, FaultStep DEF PluginTypes
<1>5. /\ claimed' \in [Connection -> SUBSET Hostname]
      /\ inbox' \in [Connection -> Seq(ServerMessage)]
      /\ owned[p] \in SUBSET Hostname /\ owned' = [owned EXCEPT ![p] = owned[p]]
  BY <1>1, <1>2, Same DEF ClientTypeOK
<1>6. pending[c] # <<>> /\ Head(pending[c]) = pending[c][1] /\ 1 \in 1..Len(pending[c])
  BY <1>1
<1>7. link[c] \notin {"none", "connecting"}
  BY <1>1, <1>6 DEF ClientFits
<1>8. CASE pending[c][i].type = "register"
  <2>1. i = 1
    BY <1>1, <1>8 DEF PendingFits
  <2>2. Awaits(p, "register") /\ candidate[p] = c
    BY <1>1, <1>6, <1>8, <2>1 DEF RegisterAwaited
  <2>3. AfterFailure(p) /\ FailsWith(p, rest)
    BY <1>2, <1>8, <2>2 DEF rest
  <2>4. PendingFits(rest, closing[candidate[p]]) /\ NoRegister(rest)
    BY <1>3, <1>8, <2>2
  <2> QED BY <1>2, <1>3, <1>4, <1>5, <2>2, <2>3, <2>4, RegisterFailsKeeps
<1>9. CASE pending[c][i].type = "unregister"
  <2>1. closing[c]
    BY <1>1, <1>9 DEF PendingFits
  <2>2. EndAfterUnregister(c, rest) /\ UNCHANGED <<taskVars, lifeVars, closing>>
    BY <1>2, <1>9 DEF rest
  <2> QED BY <1>2, <1>3, <1>4, <1>5, <1>6, <2>1, <2>2, EndAfterUnregisterKeeps
<1>10. CASE pending[c][i].type = "heartbeat"
  <2>1. /\ pending' = [pending EXCEPT ![c] = rest] /\ ServerUndisturbed
        /\ UNCHANGED <<taskVars, lifeVars, link, closing>>
    BY <1>2, <1>10 DEF rest
  <2>2. TypeOK'
    BY <1>1, <2>1, UndisturbedTypes
  <2> QED BY <1>2, <1>3, <1>4, <1>5, <1>6, <1>7, <2>1, <2>2, PendingKeeps
<1> QED BY <1>2, <1>8, <1>9, <1>10

LEMMA UnregisterAnsweredKeeps ==
  ASSUME SInv, NEW p \in Plugin, NEW c \in ClientsOf(p), NEW n, UnregisterAnswered(p, c, n)
  PROVE  Keeps(p)
<1> DEFINE own == owned[p] \ LostIn(c, n)
           claims == claimed[c] \ (LostIn(c, n) \cup Head(inbox[c]).hostnames)
<1>1. /\ SessionTypeOK /\ TypeOK /\ ClientTypeOK /\ PluginTypes
      /\ pending[c] \in Seq(PendingRequest) /\ c \in Connection
      /\ PendingFits(pending[c], closing[c]) /\ claimed[c] \in SUBSET Hostname
  BY Known
<1>2. /\ AnswerChunk(c, n) /\ pending[c] # <<>> /\ Head(pending[c]).type = "unregister"
      /\ claimed' = [claimed EXCEPT ![c] = claims] /\ owned' = [owned EXCEPT ![p] = own]
      /\ EndAfterUnregister(c, Tail(pending[c]))
      /\ closing' = closing /\ faults' = faults
      /\ UNCHANGED <<taskVars, candidate, lifeVars, heartbeat, started>>
  BY DEF UnregisterAnswered, Answers, Set
<1>3. closing[c]
  <2>1. 1 \in 1..Len(pending[c]) /\ Head(pending[c]) = pending[c][1]
    BY <1>1, <1>2
  <2> QED BY <1>1, <1>2, <2>1 DEF PendingFits
<1>4. /\ Tail(pending[c]) \in Seq(PendingRequest) /\ PendingFits(Tail(pending[c]), closing[c])
      /\ Tail(pending[c]) # <<>> => Head(Tail(pending[c])).type # "register"
  BY <1>2, AnswerTaken
<1>5. own \in SUBSET Hostname /\ own \subseteq owned[p] /\ claims \in SUBSET Hostname
  BY <1>1, Same
<1>6. claimed' \in [Connection -> SUBSET Hostname] /\ inbox' \in [Connection -> Seq(ServerMessage)]
  <2> HIDE DEF claims
  <2>1. claimed' \in [Connection -> SUBSET Hostname]
    BY <1>1, <1>2, <1>5 DEF ClientTypeOK
  <2> QED BY <1>1, <1>2, <2>1, ChunkTypes
<1>7. faults' \in 0..MaxFaults
  BY <1>1, <1>2 DEF PluginTypes
<1> HIDE DEF own, claims
<1> QED BY <1>2, <1>3, <1>4, <1>5, <1>6, <1>7, EndAfterUnregisterKeeps

LEMMA HeartbeatAnsweredKeeps ==
  ASSUME SInv, NEW p \in Plugin, NEW c \in ClientsOf(p), NEW n, HeartbeatAnswered(p, c, n)
  PROVE  Keeps(p)
<1> DEFINE own == owned[p] \ (LostIn(c, n) \cup Unconfirmed(c))
           claims == claimed[c] \ (LostIn(c, n) \cup Unconfirmed(c))
<1>1. /\ SessionTypeOK /\ TypeOK /\ ClientTypeOK /\ PluginTypes
      /\ c \in Connection /\ claimed[c] \in SUBSET Hostname
  BY Known
<1>2. /\ AnswerChunk(c, n) /\ pending[c] # <<>> /\ Attached(c)
      /\ claimed' = [claimed EXCEPT ![c] = claims] /\ owned' = [owned EXCEPT ![p] = own]
      /\ pending' = [pending EXCEPT ![c] = Tail(pending[c])]
      /\ ServerUndisturbed /\ link' = link /\ closing' = closing /\ faults' = faults
      /\ UNCHANGED <<taskVars, candidate, lifeVars, heartbeat, started>>
  BY DEF HeartbeatAnswered, DropUnconfirmed, Answers, Set, AnswerChunk
<1>3. link[c] \notin {"none", "connecting"}
  BY <1>2 DEF Attached
<1>4. /\ Tail(pending[c]) \in Seq(PendingRequest) /\ PendingFits(Tail(pending[c]), closing[c])
      /\ Tail(pending[c]) # <<>> => Head(Tail(pending[c])).type # "register"
  BY <1>2, AnswerTaken
<1>5. own \in SUBSET Hostname /\ own \subseteq owned[p] /\ claims \in SUBSET Hostname
  BY <1>1, Same
<1>6. claimed' \in [Connection -> SUBSET Hostname] /\ inbox' \in [Connection -> Seq(ServerMessage)]
  <2> HIDE DEF claims
  <2>1. claimed' \in [Connection -> SUBSET Hostname]
    BY <1>1, <1>2, <1>5 DEF ClientTypeOK
  <2> QED BY <1>1, <1>2, <2>1, ChunkTypes
<1>7. faults' \in 0..MaxFaults /\ TypeOK'
  BY <1>1, <1>2, UndisturbedTypes DEF PluginTypes
<1> HIDE DEF own, claims
<1> QED BY <1>2, <1>3, <1>4, <1>5, <1>6, <1>7, PendingKeeps

LEMMA RouteLostKeeps ==
  ASSUME SInv, NEW p \in Plugin, NEW c \in ClientsOf(p), RouteLost(p, c)
  PROVE  Keeps(p)
<1> DEFINE own == owned[p] \ Head(inbox[c]).hostnames
           claims == claimed[c] \ Head(inbox[c]).hostnames
<1>1. /\ SessionTypeOK /\ TypeOK /\ ClientTypeOK /\ PluginTypes
      /\ c \in Connection /\ claimed[c] \in SUBSET Hostname
      /\ pending[c] \in Seq(PendingRequest) /\ PendingFits(pending[c], closing[c])
      /\ inbox[c] \in Seq(ServerMessage)
  BY Known
<1>2. /\ Attached(c) /\ inbox[c] # <<>>
      /\ claimed' = [claimed EXCEPT ![c] = claims] /\ owned' = [owned EXCEPT ![p] = own]
      /\ inbox' = [inbox EXCEPT ![c] = Tail(inbox[c])] /\ pending' = pending
      /\ ServerUndisturbed /\ link' = link /\ closing' = closing /\ faults' = faults
      /\ UNCHANGED <<taskVars, candidate, lifeVars, heartbeat, started>>
  BY DEF RouteLost, Set
<1>3. link[c] \notin {"none", "connecting"}
  BY <1>2 DEF Attached
<1>4. pending' = [pending EXCEPT ![c] = pending[c]]
  BY <1>1, <1>2 DEF ClientTypeOK
<1>5. own \in SUBSET Hostname /\ own \subseteq owned[p] /\ claims \in SUBSET Hostname
  BY <1>1, Same
<1>6. claimed' \in [Connection -> SUBSET Hostname] /\ inbox' \in [Connection -> Seq(ServerMessage)]
  <2> HIDE DEF claims
  <2>1. Tail(inbox[c]) \in Seq(ServerMessage)
    BY <1>1, <1>2, HeadTailProperties
  <2> QED BY <1>1, <1>2, <1>5, <2>1 DEF ClientTypeOK
<1>7. faults' \in 0..MaxFaults /\ TypeOK'
  BY <1>1, <1>2, UndisturbedTypes DEF PluginTypes
<1> HIDE DEF own, claims
<1>8. \A rest \in Seq(PendingRequest) :
        pending' = [pending EXCEPT ![c] = rest] /\ rest = pending[c] => Keeps(p)
  BY <1>1, <1>2, <1>3, <1>5, <1>6, <1>7, PendingKeeps
<1> QED BY <1>1, <1>4, <1>8

LEMMA BeatKeeps ==
  ASSUME SInv, NEW p \in Plugin, Beat(p)
  PROVE  Keeps(p)
<1> DEFINE c == client[p]
           request == [type |-> "heartbeat", hostnames |-> claimed[c]]
           rest == Append(pending[c], request)
<1>1. SessionTypeOK /\ TypeOK /\ ClientTypeOK /\ PluginTypes /\ RegisterAwaited(p)
  BY Known
<1>2. /\ c # NoClient /\ link[c] = "connected"
      /\ Request(c, p, "heartbeat", claimed[c], pending[c])
      /\ link' = link /\ claimed' = claimed /\ inbox' = inbox /\ closing' = closing
      /\ owned' = owned /\ faults' = faults
      /\ UNCHANGED <<taskVars, candidate, lifeVars, heartbeat, started>>
  BY DEF Beat, pluginVars
<1>3. /\ c \in ClientsOf(p) /\ c \in Connection /\ claimed[c] \in SUBSET Hostname
      /\ pending[c] \in Seq(PendingRequest) /\ PendingFits(pending[c], closing[c])
  BY <1>2, Known DEF OwnClients
<1>4. TypeOK' /\ rest \in Seq(PendingRequest) /\ pending' = [pending EXCEPT ![c] = rest]
  <2> HIDE DEF c
  <2>1. p \in OwnerToken
    BY DEF Plugin
  <2> QED BY <1>1, <1>2, <1>3, <2>1, RequestStep
<1>5. request \in PendingRequest /\ request.type = "heartbeat"
  BY <1>3 DEF PendingRequest
<1> HIDE DEF c, request
<1>6. /\ PendingFits(rest, closing[c])
      /\ pending[c] # <<>> => Head(rest) = Head(pending[c])
      /\ pending[c] = <<>> => Head(rest) = request
  BY <1>3, <1>5, AppendFits
<1>7. rest # <<>> /\ Head(rest).type = "register"
        => pending[c] # <<>> /\ Head(pending[c]).type = "register"
  BY <1>5, <1>6
<1>8. /\ claimed' \in [Connection -> SUBSET Hostname]
      /\ inbox' \in [Connection -> Seq(ServerMessage)]
      /\ faults' \in 0..MaxFaults
      /\ owned[p] \in SUBSET Hostname /\ owned' = [owned EXCEPT ![p] = owned[p]]
  BY <1>1, <1>2, Same DEF ClientTypeOK, PluginTypes
<1>9. link[c] \notin {"none", "connecting"}
  BY <1>2
<1> HIDE DEF rest
<1> QED BY <1>2, <1>3, <1>4, <1>6, <1>7, <1>8, <1>9, PendingKeeps

-----------------------------------------------------------------------------
(* The end of a connection, and of a plugin.                               *)

LEMMA DisconnectedKeeps ==
  ASSUME SInv, NEW p \in Plugin, NEW c \in ClientsOf(p), Disconnected(p, c)
  PROVE  Keeps(p)
<1> DEFINE notified == ~closing[c] /\ ~shuttingDown[p] /\ task[p] # "recovery"
           failed == candidate[p] = c /\ Awaits(p, "register")
           beat == heartbeat[p] /\ ~notified
<1>1. /\ SessionTypeOK /\ TypeOK /\ ClientTypeOK /\ PluginTypes
      /\ LinksFit(p) /\ SetupIsFirst(p) /\ NotAbandoned(p) /\ OneLinked(p)
      /\ c \in Connection /\ c # NoClient /\ closing[c] \in BOOLEAN /\ ClientFits(c)
  BY Known
<1>2. /\ link[c] \in {"connected", "unregistering"}
      /\ link' = [link EXCEPT ![c] = "gone"] /\ pending' = [pending EXCEPT ![c] = <<>>]
      /\ inbox' = [inbox EXCEPT ![c] = <<>>] /\ ServerUndisturbed
      /\ claimed' = claimed /\ closing' = closing /\ candidate' = candidate /\ owned' = owned
      /\ started' = started /\ faults' = faults
      /\ heartbeat' = [heartbeat EXCEPT ![p] = beat]
  BY DEF Disconnected, Severed, Set
<1>3. PICK what \in {"unstarted", "setup", "recovery", "none"},
           where \in {"infra", "connect", "register", "delay"},
           cl \in {client[p], NoClient}, down \in BOOLEAN :
        /\ task' = [task EXCEPT ![p] = what] /\ phase' = [phase EXCEPT ![p] = where]
        /\ client' = [client EXCEPT ![p] = cl] /\ shuttingDown' = [shuttingDown EXCEPT ![p] = down]
        /\ \/ notified /\ owned[p] # {} /\ what = "recovery" /\ where = "infra"
           \/ failed /\ what = "recovery" /\ where = "delay"
           \/ failed /\ what = "none" /\ down
           \/ /\ what = task[p] /\ where = phase[p] /\ cl = client[p] /\ down = shuttingDown[p]
              /\ ~failed /\ ~(notified /\ owned[p] # {})
  <2>1. PICK cl \in {client[p], NoClient}, down \in BOOLEAN :
          /\ client' = [client EXCEPT ![p] = cl] /\ shuttingDown' = [shuttingDown EXCEPT ![p] = down]
          /\ failed /\ task[p] = "setup" => down
          /\ ~(failed /\ task[p] = "setup") => cl = client[p] /\ down = shuttingDown[p]
    <3>1. CASE failed /\ task[p] = "setup"
      <4>1. client' = [client EXCEPT ![p] = NoClient] /\ shuttingDown' = [shuttingDown EXCEPT ![p] = TRUE]
        BY <3>1 DEF Disconnected, Set
      <4> QED BY <3>1, <4>1
    <3>2. CASE ~(failed /\ task[p] = "setup")
      <4>1. client' = client /\ shuttingDown' = shuttingDown
        BY <3>2 DEF Disconnected, lifeVars
      <4> QED BY <1>1, <3>2, <4>1, Same
    <3> QED BY <3>1, <3>2
  <2>2. CASE notified /\ owned[p] # {}
    <3>1. task' = [task EXCEPT ![p] = "recovery"] /\ phase' = [phase EXCEPT ![p] = "infra"]
      BY <2>2 DEF Disconnected, GoTo
    <3> QED BY <2>1, <2>2, <3>1
  <2>3. CASE ~(notified /\ owned[p] # {}) /\ failed /\ task[p] = "recovery"
    <3>1. RetryOrEnd(p)
      BY <2>3 DEF Disconnected
    <3>2. CASE shuttingDown[p]
      <4>1. task' = [task EXCEPT ![p] = "none"] /\ phase' = [phase EXCEPT ![p] = "infra"]
        BY <3>1, <3>2 DEF RetryOrEnd, EndTask, GoTo
      <4>2. down
        BY <2>1, <2>3, <3>2
      <4> QED BY <2>1, <2>3, <4>1, <4>2
    <3>3. CASE ~shuttingDown[p]
      <4>1. task' = [task EXCEPT ![p] = "recovery"] /\ phase' = [phase EXCEPT ![p] = "delay"]
        BY <3>1, <3>3 DEF RetryOrEnd, GoTo
      <4> QED BY <2>1, <2>3, <4>1
    <3> QED BY <3>2, <3>3
  <2>4. CASE ~(notified /\ owned[p] # {}) /\ failed /\ task[p] = "setup"
    <3>1. task' = [task EXCEPT ![p] = "none"] /\ phase' = [phase EXCEPT ![p] = "infra"]
      <4>1. EndTask(p)
        BY <2>4 DEF Disconnected
      <4> QED BY <4>1 DEF EndTask, GoTo
    <3>2. down
      BY <2>1, <2>4
    <3> QED BY <2>1, <2>4, <3>1, <3>2
  <2>5. CASE ~(notified /\ owned[p] # {}) /\ ~failed
    <3>1. task' = task /\ phase' = phase
      BY <2>5 DEF Disconnected, taskVars
    <3>2. /\ task' = [task EXCEPT ![p] = task[p]] /\ phase' = [phase EXCEPT ![p] = phase[p]]
          /\ task[p] \in {"unstarted", "setup", "recovery", "none"}
          /\ phase[p] \in {"infra", "connect", "register", "delay"}
      BY <1>1, <3>1, Same
    <3>3. cl = client[p] /\ down = shuttingDown[p]
      BY <2>1, <2>5
    <3> QED BY <2>1, <2>5, <3>2, <3>3
  <2>6. failed => task[p] \in {"setup", "recovery"}
    BY DEF Awaits
  <2> QED BY <2>2, <2>3, <2>4, <2>5, <2>6
<1>4. Becomes(c, "gone", <<>>, closing[c])
  BY <1>1, <1>2 DEF Becomes, Link, ClientTypeOK
<1>5. Turns(p, what, where, candidate[p], cl, down, owned[p], beat)
  BY <1>1, <1>2, <1>3, Same DEF Turns
<1>6. PendingFits(<<>>, closing[c])
  BY DEF PendingFits
<1>7. Linked(c) => \A d \in ClientsOf(p) : d # c => ~Linked(d)
  BY <1>1 DEF OneLinked
<1>8. Fitting(p, c, "gone", <<>>, closing[c], what, where, candidate[p], cl, down, owned[p], beat)
  <2>1. CASE notified /\ owned[p] # {} /\ what = "recovery" /\ where = "infra"
    <3>1. Linked(c)
      BY <1>1, <1>2, <2>1 DEF ClientFits, Linked
    <3>2. Awaits(p, "register") => c = candidate[p]
      BY <1>1, <3>1 DEF LinksFit
    <3> QED BY <1>2, <1>6, <1>7, <2>1, <3>1, <3>2 DEF Fitting, AtWork
  <2>2. CASE failed /\ what = "recovery" /\ where = "delay"
    BY <1>2, <1>6, <2>2, CandidateOf DEF Fitting, AtWork
  <2>3. CASE failed /\ what = "none" /\ down
    BY <1>2, <1>3, <1>6, <2>3 DEF Fitting, AtWork
  <2>4. CASE /\ what = task[p] /\ where = phase[p] /\ cl = client[p] /\ down = shuttingDown[p]
             /\ ~failed /\ ~(notified /\ owned[p] # {})
    <3>1. what # "unstarted" /\ (what = "setup" => where # "infra" /\ where # "delay")
      BY <1>1, <1>2, <2>4 DEF SetupIsFirst
    <3>2. AtWork(what) /\ where \in {"infra", "delay"} => \A d \in ClientsOf(p) : ~Linked(d)
      BY <1>1, <2>4 DEF LinksFit, Awaits, AtWork
    <3>3. AtWork(what) /\ where \in {"connect", "register"} => c # candidate[p]
      BY <1>1, <1>2, <2>4 DEF LinksFit, Awaits, AtWork
    <3>4. what = "none" /\ ~down /\ owned[p] # {} =>
            closing[c] /\ beat /\ client[p] # NoClient /\ client[p] # c
            /\ link[client[p]] = "connected" /\ ~closing[client[p]]
      BY <1>1, <2>4 DEF NotAbandoned
    <3> QED BY <1>2, <1>6, <2>4, <3>1, <3>2, <3>3, <3>4 DEF Fitting, AtWork, Awaits
  <2> QED BY <1>3, <2>1, <2>2, <2>3, <2>4
<1>9. TypeOK'
  BY <1>1, <1>2, UndisturbedTypes
<1>10. /\ claimed' \in [Connection -> SUBSET Hostname]
       /\ inbox' \in [Connection -> Seq(ServerMessage)]
       /\ faults' \in 0..MaxFaults
  <2>1. <<>> \in Seq(ServerMessage)
    OBVIOUS
  <2> QED BY <1>1, <1>2, <2>1 DEF ClientTypeOK, PluginTypes
<1> HIDE DEF beat
<1> QED BY <1>2, <1>4, <1>5, <1>8, <1>9, <1>10, Effect

LEMMA EndedKeeps ==
  ASSUME SInv, NEW p \in Plugin, NEW c \in ClientsOf(p), Ended(p, c)
  PROVE  Keeps(p)
<1> DEFINE failed == candidate[p] = c /\ Awaits(p, "register")
<1>1. /\ SessionTypeOK /\ TypeOK /\ ClientTypeOK /\ PluginTypes
      /\ LinksFit(p) /\ SetupIsFirst(p) /\ NotAbandoned(p)
      /\ c \in Connection /\ c # NoClient /\ closing[c] \in BOOLEAN
  BY Known
<1>2. /\ link[c] = "ending"
      /\ link' = [link EXCEPT ![c] = "gone"] /\ pending' = [pending EXCEPT ![c] = <<>>]
      /\ inbox' = [inbox EXCEPT ![c] = <<>>] /\ ServerUndisturbed
      /\ claimed' = claimed /\ closing' = closing /\ candidate' = candidate /\ client' = client
      /\ shuttingDown' = shuttingDown /\ owned' = owned /\ heartbeat' = heartbeat
      /\ started' = started /\ faults' = faults
  BY DEF Ended, Severed, Set, lifeVars
<1>3. PICK what \in {"unstarted", "setup", "recovery", "none"},
           where \in {"infra", "connect", "register", "delay"} :
        /\ task' = [task EXCEPT ![p] = what] /\ phase' = [phase EXCEPT ![p] = where]
        /\ failed => what = "none"
        /\ ~failed => what = task[p] /\ where = phase[p]
  <2>1. CASE failed
    <3>1. task' = [task EXCEPT ![p] = "none"] /\ phase' = [phase EXCEPT ![p] = "infra"]
      BY <2>1 DEF Ended, EndTask, GoTo
    <3> QED BY <2>1, <3>1
  <2>2. CASE ~failed
    <3>1. task' = task /\ phase' = phase
      BY <2>2 DEF Ended, taskVars
    <3> QED BY <1>1, <2>2, <3>1, Same
  <2> QED BY <2>1, <2>2
<1>4. Becomes(c, "gone", <<>>, closing[c])
  BY <1>1, <1>2 DEF Becomes, Link, ClientTypeOK
<1>5. Turns(p, what, where, candidate[p], client[p], shuttingDown[p], owned[p], heartbeat[p])
  BY <1>1, <1>2, <1>3, Same DEF Turns
<1>6. PendingFits(<<>>, closing[c])
  BY DEF PendingFits
<1>7. Fitting(p, c, "gone", <<>>, closing[c], what, where, candidate[p], client[p],
              shuttingDown[p], owned[p], heartbeat[p])
  <2>1. CASE failed
    <3>1. shuttingDown[p]
      BY <1>1, <1>2, <2>1 DEF LinksFit
    <3> QED BY <1>2, <1>3, <1>6, <2>1, <3>1 DEF Fitting, AtWork
  <2>2. CASE ~failed
    <3>1. what # "unstarted" /\ (what = "setup" => where # "infra" /\ where # "delay")
      BY <1>1, <1>2, <1>3, <2>2 DEF SetupIsFirst
    <3>2. AtWork(what) /\ where \in {"infra", "delay"} => \A d \in ClientsOf(p) : ~Linked(d)
      BY <1>1, <1>3, <2>2 DEF LinksFit, Awaits, AtWork
    <3>3. AtWork(what) /\ where \in {"connect", "register"} => c # candidate[p]
      BY <1>1, <1>2, <1>3, <2>2 DEF LinksFit, Awaits, AtWork
    <3>4. what = "none" /\ ~shuttingDown[p] /\ owned[p] # {} =>
            heartbeat[p] /\ client[p] # NoClient /\ client[p] # c
            /\ link[client[p]] = "connected" /\ ~closing[client[p]]
      BY <1>1, <1>2, <1>3, <2>2 DEF NotAbandoned
    <3> QED BY <1>2, <1>3, <1>6, <2>2, <3>1, <3>2, <3>3, <3>4 DEF Fitting, AtWork, Awaits
  <2> QED BY <2>1, <2>2
<1>8. TypeOK'
  BY <1>1, <1>2, UndisturbedTypes
<1>9. /\ claimed' \in [Connection -> SUBSET Hostname]
      /\ inbox' \in [Connection -> Seq(ServerMessage)]
      /\ faults' \in 0..MaxFaults
  <2>1. <<>> \in Seq(ServerMessage)
    OBVIOUS
  <2> QED BY <1>1, <1>2, <2>1 DEF ClientTypeOK, PluginTypes
<1> QED BY <1>2, <1>4, <1>5, <1>7, <1>8, <1>9, Effect

LEMMA CloseServerKeeps ==
  ASSUME SInv, NEW p \in Plugin, CloseServer(p)
  PROVE  Keeps(p)
<1> DEFINE c == client[p]
<1>1. /\ SessionTypeOK /\ TypeOK /\ ClientTypeOK /\ PluginTypes /\ PluginFits(p)
      /\ LinksFit(p) /\ SetupIsFirst(p) /\ RegisterAwaited(p) /\ OwnClients(p) /\ OneLinked(p)
  BY Known
<1>2. /\ task[p] # "unstarted" /\ ~shuttingDown[p]
      /\ shuttingDown' = [shuttingDown EXCEPT ![p] = TRUE]
      /\ heartbeat' = [heartbeat EXCEPT ![p] = FALSE]
      /\ client' = [client EXCEPT ![p] = NoClient]
      /\ claimed' = claimed /\ inbox' = inbox /\ task' = task /\ phase' = phase
      /\ candidate' = candidate /\ owned' = owned /\ started' = started /\ faults' = faults
  BY DEF CloseServer, Set, taskVars
<1>3. Turns(p, task[p], phase[p], candidate[p], NoClient, TRUE, owned[p], FALSE)
  BY <1>1, <1>2, Same DEF Turns
<1>4. /\ claimed' \in [Connection -> SUBSET Hostname]
      /\ inbox' \in [Connection -> Seq(ServerMessage)]
      /\ faults' \in 0..MaxFaults
  BY <1>1, <1>2 DEF ClientTypeOK, PluginTypes
<1>5. CASE client[p] = NoClient
  <2>1. ServerUndisturbed /\ link' = link /\ pending' = pending /\ closing' = closing
    BY <1>5 DEF CloseServer
  <2>2. /\ task'[p] = task[p] /\ phase'[p] = phase[p] /\ candidate'[p] = candidate[p]
        /\ client'[p] = NoClient /\ shuttingDown'[p] = TRUE /\ ClientsOf(p)' = ClientsOf(p)
        /\ \A q \in Plugin \ {p} :
             /\ task'[q] = task[q] /\ phase'[q] = phase[q]
             /\ candidate'[q] = candidate[q] /\ client'[q] = client[q]
             /\ shuttingDown'[q] = shuttingDown[q] /\ heartbeat'[q] = heartbeat[q]
             /\ owned'[q] = owned[q]
    <3>1. ClientsOf(p)' = ClientsOf(p)
      BY DEF ClientsOf
    <3>2. \A down \in BOOLEAN, beat \in BOOLEAN :
            Turns(p, task[p], phase[p], candidate[p], NoClient, down, owned[p], beat)
              => /\ task'[p] = task[p] /\ phase'[p] = phase[p] /\ candidate'[p] = candidate[p]
                 /\ client'[p] = NoClient /\ shuttingDown'[p] = down
                 /\ \A q \in Plugin \ {p} :
                      /\ task'[q] = task[q] /\ phase'[q] = phase[q]
                      /\ candidate'[q] = candidate[q] /\ client'[q] = client[q]
                      /\ shuttingDown'[q] = shuttingDown[q] /\ heartbeat'[q] = heartbeat[q]
                      /\ owned'[q] = owned[q]
      BY <1>1, TurnView
    <3> QED BY <1>3, <3>1, <3>2
  <2>3. SessionTypeOK'
    <3>1. TypeOK'
      BY <1>1, <2>1, UndisturbedTypes
    <3>2. ClientTypeOK'
      BY <1>1, <1>2, <2>1 DEF ClientTypeOK
    <3>3. PluginTypes'
      BY <1>1, <1>2, <1>3, TurnView DEF PluginTypes
    <3> QED BY <3>1, <3>2, <3>3, TypesSplit
  <2>4. LocalTo(p)
    BY <2>1, <2>2 DEF LocalTo
  <2>5. OwnClients(p)' /\ RegisterAwaited(p)' /\ SetupIsFirst(p)' /\ OneLinked(p)'
    BY <1>1, <2>1, <2>2 DEF OwnClients, RegisterAwaited, SetupIsFirst, OneLinked, Linked, Awaits
  <2>6. \A d \in ClientsOf(p) : ClientFits(d)'
    BY <1>1, <2>1 DEF PluginFits, ClientFits
  <2>7. LinksFit(p)' /\ NotAbandoned(p)'
    BY <1>1, <2>1, <2>2 DEF LinksFit, NotAbandoned, Linked, Awaits
  <2> QED BY <2>2, <2>3, <2>4, <2>5, <2>6, <2>7 DEF Keeps, PluginFits
<1>6. CASE client[p] # NoClient
  <2>1. /\ c \in ClientsOf(p) /\ c \in Connection /\ c # NoClient /\ closing[c] \in BOOLEAN
        /\ link[c] \in Link /\ link[c] # "none" /\ claimed[c] \in SUBSET Hostname
        /\ pending[c] \in Seq(PendingRequest) /\ PendingFits(pending[c], closing[c])
    BY <1>6, Known DEF OwnClients
  <2>2. Close(c, p, claimed[c], pending[c])
    BY <1>6 DEF CloseServer
  <2>3. PendingFits(pending[c], TRUE)
    BY <2>1 DEF PendingFits
  <2> HIDE DEF c
  <2>4. PICK L \in Link, P \in Seq(PendingRequest) :
          /\ Becomes(c, L, P, TRUE) /\ PendingFits(P, TRUE)
          /\ P # <<>> /\ Head(P).type = "register" => pending[c] # <<>> /\ Head(pending[c]).type = "register"
          /\ \/ link[c] = "connected" /\ L \in {"unregistering", "ending"}
             \/ link[c] # "connected" /\ L = link[c] /\ P = <<>>
    BY <2>1, <2>2, <2>3, CloseFits
  <2>5. TypeOK'
    BY <2>1, <2>2, <2>3, CloseFits
  <2>6. P # <<>> /\ Head(P).type = "register" => Awaits(p, "register") /\ candidate[p] = c
    BY <1>1, <2>1, <2>4 DEF RegisterAwaited
  <2>7. task[p] = "setup" => phase[p] \notin {"infra", "delay"}
    BY <1>1, <2>1 DEF SetupIsFirst
  <2>8. AtWork(task[p]) /\ phase[p] \in {"infra", "delay"} => \A d \in ClientsOf(p) : ~Linked(d)
    BY <1>1 DEF LinksFit, Awaits, AtWork
  <2>9. AtWork(task[p]) /\ phase[p] = "connect" /\ c = candidate[p] => L = "connecting"
    BY <1>1, <2>4 DEF LinksFit, Awaits, AtWork
  <2>10. AtWork(task[p]) /\ phase[p] = "register" /\ c = candidate[p]
           => L \in {"connected", "unregistering", "ending"}
    BY <1>1, <2>4 DEF LinksFit, Awaits, AtWork
  <2>11. L # "none" /\ (L \in {"connecting", "connected"} => Linked(c)) /\ (L = "connecting" => P = <<>>)
    BY <2>1, <2>4 DEF Linked
  <2>12. AtWork(task[p]) /\ phase[p] \in {"infra", "delay"} => L \notin {"connecting", "connected"}
    BY <2>1, <2>8, <2>11
  <2>13. Fitting(p, c, L, P, TRUE, task[p], phase[p], candidate[p], NoClient, TRUE, owned[p], FALSE)
    BY <1>2, <2>1, <2>4, <2>6, <2>7, <2>8, <2>9, <2>10, <2>11, <2>12 DEF Fitting, AtWork, Awaits
  <2> QED BY <1>2, <1>3, <1>4, <2>1, <2>4, <2>5, <2>13, Effect
<1> QED BY <1>5, <1>6

LEMMA RetryKeeps ==
  ASSUME SInv, NEW p \in Plugin, Retry(p)
  PROVE  Keeps(p)
<1>1. /\ SessionTypeOK /\ TypeOK /\ ClientTypeOK /\ PluginTypes /\ PluginFits(p)
      /\ LinksFit(p) /\ SetupIsFirst(p) /\ RegisterAwaited(p) /\ OwnClients(p) /\ OneLinked(p)
  BY Known
<1>2. /\ task[p] \in {"setup", "recovery"} /\ phase[p] = "delay" /\ ServerUndisturbed
      /\ candidate' = [candidate EXCEPT ![p] = NoClient]
      /\ link' = link /\ pending' = pending /\ closing' = closing /\ claimed' = claimed
      /\ inbox' = inbox /\ client' = client /\ shuttingDown' = shuttingDown
      /\ owned' = owned /\ heartbeat' = heartbeat /\ started' = started /\ faults' = faults
  BY DEF Retry, Awaits, Set, clientVars, lifeVars
<1>3. PICK what \in {"recovery", "none"} :
        /\ task' = [task EXCEPT ![p] = what] /\ phase' = [phase EXCEPT ![p] = "infra"]
        /\ what = "none" => shuttingDown[p] \/ owned[p] = {}
  BY DEF Retry, EndTask, GoTo
<1>4. Turns(p, what, "infra", NoClient, client[p], shuttingDown[p], owned[p], heartbeat[p])
  BY <1>1, <1>2, <1>3, Same DEF Turns
<1>5. /\ task'[p] = what /\ phase'[p] = "infra" /\ candidate'[p] = NoClient /\ client'[p] = client[p]
      /\ shuttingDown'[p] = shuttingDown[p] /\ owned'[p] = owned[p]
      /\ ClientsOf(p)' = ClientsOf(p)
      /\ \A q \in Plugin \ {p} :
           /\ task'[q] = task[q] /\ phase'[q] = phase[q]
           /\ candidate'[q] = candidate[q] /\ client'[q] = client[q]
           /\ shuttingDown'[q] = shuttingDown[q] /\ heartbeat'[q] = heartbeat[q]
           /\ owned'[q] = owned[q]
  BY <1>1, <1>4, TurnView DEF ClientsOf
<1>6. SessionTypeOK'
  <2>1. TypeOK'
    BY <1>1, <1>2, UndisturbedTypes
  <2>2. ClientTypeOK'
    BY <1>1, <1>2 DEF ClientTypeOK
  <2>3. PluginTypes'
    BY <1>1, <1>2, <1>4, TurnView DEF PluginTypes
  <2> QED BY <2>1, <2>2, <2>3, TypesSplit
<1>7. LocalTo(p)
  BY <1>2, <1>5 DEF LocalTo
<1>8. /\ \A d \in ClientsOf(p) : ~Linked(d)
      /\ \A d \in ClientsOf(p) : ~(pending[d] # <<>> /\ Head(pending[d]).type = "register")
  BY <1>1, <1>2 DEF LinksFit, RegisterAwaited, Awaits
<1>9. OwnClients(p)' /\ RegisterAwaited(p)' /\ SetupIsFirst(p)' /\ OneLinked(p)'
  BY <1>1, <1>2, <1>5, <1>8 DEF OwnClients, RegisterAwaited, SetupIsFirst, OneLinked, Linked, Awaits
<1>10. \A d \in ClientsOf(p) : ClientFits(d)'
  BY <1>1, <1>2 DEF PluginFits, ClientFits
<1>11. LinksFit(p)' /\ NotAbandoned(p)'
  BY <1>2, <1>3, <1>5, <1>8 DEF LinksFit, NotAbandoned, Linked, Awaits
<1> QED BY <1>5, <1>6, <1>7, <1>9, <1>10, <1>11 DEF Keeps, PluginFits

-----------------------------------------------------------------------------
(* The steps of the daemon.                                                *)

\* The daemon's steps leave the plugins and their clients as they are, but for
\* what the clients will read.
LEMMA PluginsUnmoved ==
  ASSUME SInv, TypeOK', inbox' \in [Connection -> Seq(ServerMessage)], faults' \in 0..MaxFaults,
         link' = link, claimed' = claimed, pending' = pending, closing' = closing,
         task' = task, phase' = phase, candidate' = candidate, client' = client,
         shuttingDown' = shuttingDown, owned' = owned, heartbeat' = heartbeat, started' = started
  PROVE  SInv'
<1>1. SessionTypeOK /\ ClientTypeOK /\ PluginTypes
  BY TypesSplit DEF SInv
<1>2. SessionTypeOK'
  <2>1. ClientTypeOK' /\ PluginTypes'
    BY <1>1 DEF ClientTypeOK, PluginTypes
  <2> QED BY <2>1, TypesSplit
<1>3. ASSUME NEW p \in Plugin PROVE PluginFits(p)'
  <2>1. PluginFits(p) /\ ClientsOf(p)' = ClientsOf(p)
    BY DEF SInv, ClientsOf
  <2>2. OwnClients(p)' /\ RegisterAwaited(p)' /\ SetupIsFirst(p)' /\ OneLinked(p)'
    BY <2>1 DEF PluginFits, OwnClients, RegisterAwaited, SetupIsFirst, OneLinked, Linked, Awaits
  <2>3. \A c \in ClientsOf(p) : ClientFits(c)'
    BY <2>1 DEF PluginFits, ClientFits
  <2>4. LinksFit(p)' /\ NotAbandoned(p)'
    BY <2>1 DEF PluginFits, LinksFit, NotAbandoned, Linked, Awaits
  <2> QED BY <2>1, <2>2, <2>3, <2>4 DEF PluginFits
<1> QED BY <1>2, <1>3 DEF SInv, Plugin

LEMMA AcceptKeeps ==
  ASSUME SInv, NEW c \in Connection, Accept(c)
  PROVE  SInv'
<1>1. TypeOK /\ ClientTypeOK /\ PluginTypes
  BY TypesSplit DEF SInv
<1>2. /\ Connect(c) /\ inbox' = inbox /\ faults' = faults
      /\ link' = link /\ claimed' = claimed /\ pending' = pending /\ closing' = closing
      /\ task' = task /\ phase' = phase /\ candidate' = candidate /\ client' = client
      /\ shuttingDown' = shuttingDown /\ owned' = owned /\ heartbeat' = heartbeat
      /\ started' = started
  BY DEF Accept, clientVars, pluginVars, taskVars, lifeVars
<1>3. TypeOK'
  BY <1>1, <1>2, TypeStep DEF Next, Client
<1>4. inbox' \in [Connection -> Seq(ServerMessage)] /\ faults' \in 0..MaxFaults
  BY <1>1, <1>2 DEF ClientTypeOK, PluginTypes
<1> QED BY <1>2, <1>3, <1>4, PluginsUnmoved

LEMMA ServerStepKeeps ==
  ASSUME SInv, NEW c \in Connection, ServerStep(c)
  PROVE  SInv'
<1>1. TypeOK /\ ClientTypeOK /\ PluginTypes
  BY TypesSplit DEF SInv
<1>2. /\ Process(c) /\ inbox' = [d \in Connection |-> inbox[d] \o sent'[d]]
      /\ link' = link /\ claimed' = claimed /\ pending' = pending /\ closing' = closing
      /\ task' = task /\ phase' = phase /\ candidate' = candidate /\ client' = client
      /\ shuttingDown' = shuttingDown /\ owned' = owned /\ heartbeat' = heartbeat
      /\ started' = started
  BY DEF ServerStep, Process, taskVars, lifeVars
<1>3. TypeOK'
  BY <1>1, <1>2, TypeStep DEF Next
<1>4. inbox' \in [Connection -> Seq(ServerMessage)]
  <2>1. ASSUME NEW d \in Connection PROVE inbox[d] \o sent'[d] \in Seq(ServerMessage)
    <3>1. inbox[d] \in Seq(ServerMessage) /\ sent'[d] \in Seq(ServerMessage)
      BY <1>1, <1>3 DEF ClientTypeOK, TypeOK
    <3> QED BY <3>1, ConcatProperties
  <2> QED BY <1>2, <2>1
<1>5. faults' \in 0..MaxFaults
  BY <1>1, FaultStep DEF ServerStep, PluginTypes
<1> QED BY <1>2, <1>3, <1>4, <1>5, PluginsUnmoved

LEMMA CrashKeeps ==
  ASSUME SInv, Crash
  PROVE  SInv'
<1>1. TypeOK /\ ClientTypeOK /\ PluginTypes
  BY TypesSplit DEF SInv
<1>2. /\ inbox' = inbox /\ Fault
      /\ link' = link /\ claimed' = claimed /\ pending' = pending /\ closing' = closing
      /\ task' = task /\ phase' = phase /\ candidate' = candidate /\ client' = client
      /\ shuttingDown' = shuttingDown /\ owned' = owned /\ heartbeat' = heartbeat
      /\ started' = started
  BY DEF Crash, clientVars, taskVars, lifeVars
<1>3. TypeOK'
  <2>1. routes' \in RouteTable
    BY DEF Crash, EmptyTable, RouteTable
  <2>2. socket' \in [Connection -> {"none", "open", "ended", "destroyed"}]
    <3>1. ASSUME NEW c \in Connection
          PROVE  (CASE link[c] = "connecting" -> "none"
                    [] socket[c] = "open" -> "destroyed"
                    [] OTHER -> socket[c]) \in {"none", "open", "ended", "destroyed"}
      <4>1. socket[c] \in {"none", "open", "ended", "destroyed"}
        BY <1>1 DEF TypeOK
      <4> QED BY <4>1
    <3> QED BY <3>1 DEF Crash
  <2>3. /\ listeners' \in [OwnerToken -> SUBSET Connection]
        /\ ownerTokens' \in [Connection -> SUBSET OwnerToken]
        /\ frames' \in [Connection -> Seq(Frame)]
        /\ queue' \in Seq(Connection)
    BY DEF Crash
  <2>4. cleanupScheduled' \in [Connection -> BOOLEAN] /\ cleaned' \in [Connection -> BOOLEAN]
    BY DEF Crash
  <2>5. validating' \in BOOLEAN /\ running' \in BOOLEAN /\ stopRequested' \in BOOLEAN
    BY <1>1 DEF Crash, TypeOK
  <2>6. sent' \in [Connection -> Seq(ServerMessage)]
    BY SilenceType DEF Crash
  <2> QED BY <2>1, <2>2, <2>3, <2>4, <2>5, <2>6 DEF TypeOK
<1>4. inbox' \in [Connection -> Seq(ServerMessage)] /\ faults' \in 0..MaxFaults
  BY <1>1, <1>2, FaultStep DEF ClientTypeOK, PluginTypes
<1> QED BY <1>2, <1>3, <1>4, PluginsUnmoved

-----------------------------------------------------------------------------
(* The invariant, and what follows from it.                                *)

LEMMA SessionBegins == SessionInit => SInv
<1> SUFFICES ASSUME SessionInit PROVE SInv
  OBVIOUS
<1>1. TypeOK
  <2>1. routes \in RouteTable /\ sent \in [Connection -> Seq(ServerMessage)]
    BY SilenceType DEF SessionInit, Init, EmptyTable, RouteTable
  <2>2. frames \in [Connection -> Seq(Frame)] /\ queue \in Seq(Connection)
    BY DEF SessionInit, Init
  <2> QED BY <2>1, <2>2 DEF SessionInit, Init, TypeOK
<1>2. /\ link = [c \in Connection |-> "none"] /\ pending = [c \in Connection |-> <<>>]
      /\ closing = [c \in Connection |-> FALSE]
      /\ claimed = [c \in Connection |-> {}] /\ inbox = [c \in Connection |-> <<>>]
  BY DEF SessionInit, ClientInit
<1>3. ClientTypeOK
  BY <1>2 DEF ClientTypeOK, Link
<1>4. /\ task = [p \in Plugin |-> "unstarted"] /\ phase = [p \in Plugin |-> "infra"]
      /\ candidate = [p \in Plugin |-> NoClient] /\ client = [p \in Plugin |-> NoClient]
      /\ shuttingDown = [p \in Plugin |-> FALSE] /\ heartbeat = [p \in Plugin |-> FALSE]
      /\ owned = Domains /\ started = <<>> /\ faults = 0
  BY DEF SessionInit
<1>5. PluginTypes
  <2>1. Domains \in [Plugin -> SUBSET Hostname] /\ MaxFaults \in Nat
    BY SessionAssumption
  <2>2. started \in Seq(Plugin) /\ faults \in 0..MaxFaults
    BY <1>4, <2>1
  <2> QED BY <1>4, <2>1, <2>2 DEF PluginTypes
<1>6. ASSUME NEW p \in Plugin PROVE PluginFits(p)
  <2>1. \A c \in ClientsOf(p) : link[c] = "none" /\ pending[c] = <<>> /\ ~closing[c]
    BY <1>2 DEF ClientsOf
  <2>2. task[p] = "unstarted" /\ candidate[p] = NoClient /\ client[p] = NoClient
    BY <1>4
  <2> QED BY <2>1, <2>2 DEF PluginFits, OwnClients, ClientFits, RegisterAwaited, SetupIsFirst,
                            LinksFit, OneLinked, NotAbandoned, Linked, Awaits
<1> QED BY <1>1, <1>3, <1>5, <1>6, TypesSplit DEF SInv

LEMMA KeptByAll ==
  ASSUME SInv, NEW p \in Plugin, Keeps(p)
  PROVE  SInv'
<1>1. ASSUME NEW q \in Plugin PROVE PluginFits(q)'
  <2>1. CASE q = p
    BY <2>1 DEF Keeps
  <2>2. CASE q # p
    BY <2>2, OthersFit DEF Keeps, SInv
  <2> QED BY <2>1, <2>2
<1> QED BY <1>1 DEF Keeps, SInv, Plugin

LEMMA SessionStep == SInv /\ [SessionNext]_sessionVars => SInv'
<1> SUFFICES ASSUME SInv, [SessionNext]_sessionVars PROVE SInv'
  OBVIOUS
<1>1. ASSUME NEW p \in Plugin,
             Start(p) \/ TaskStep(p) \/ InfrastructureFails(p) \/ Beat(p) \/ CloseServer(p)
      PROVE  SInv'
  BY <1>1, KeptByAll, StartKeeps, InfrastructureReadyKeeps, ConnectedKeeps, ConnectFailsKeeps,
     RetryKeeps, InfrastructureFailsKeeps, BeatKeeps, CloseServerKeeps DEF TaskStep
<1>2. ASSUME NEW p \in Plugin, NEW c \in ClientsOf(p), Hear(p, c) \/ Lose(p, c) \/ TimesOut(p, c)
      PROVE  SInv'
  BY <1>2, KeptByAll, RouteLostKeeps, RegisterAnsweredKeeps, RefusedKeeps, HeartbeatAnsweredKeeps,
     UnregisterAnsweredKeeps, DisconnectedKeeps, EndedKeeps, TimesOutKeeps DEF Hear, Lose
<1>3. ASSUME NEW c \in Connection, Accept(c) \/ ServerStep(c) PROVE SInv'
  BY <1>3, AcceptKeeps, ServerStepKeeps
<1>4. CASE Crash
  BY <1>4, CrashKeeps
<1>5. CASE UNCHANGED sessionVars
  <2>1. TypeOK /\ ClientTypeOK /\ PluginTypes
    BY TypesSplit DEF SInv
  <2>2. UNCHANGED vars /\ UNCHANGED clientVars /\ UNCHANGED pluginVars
    BY <1>5 DEF sessionVars
  <2>3. TypeOK'
    BY <2>1, <2>2, TypeStep
  <2>4. /\ inbox' = inbox /\ faults' = faults
        /\ link' = link /\ claimed' = claimed /\ pending' = pending /\ closing' = closing
        /\ task' = task /\ phase' = phase /\ candidate' = candidate /\ client' = client
        /\ shuttingDown' = shuttingDown /\ owned' = owned /\ heartbeat' = heartbeat
        /\ started' = started
    BY <2>2 DEF clientVars, pluginVars, taskVars, lifeVars
  <2>5. inbox' \in [Connection -> Seq(ServerMessage)] /\ faults' \in 0..MaxFaults
    BY <2>1, <2>4 DEF ClientTypeOK, PluginTypes
  <2> QED BY <2>3, <2>4, <2>5, PluginsUnmoved
<1> QED BY <1>1, <1>2, <1>3, <1>4, <1>5 DEF SessionNext

THEOREM SessionInvariance == SessionSpec => []SInv
BY SessionBegins, SessionStep, PTL DEF SessionSpec

\* The variables of the plugins, their clients and the daemon keep their types.
THEOREM SessionTypeCorrect == SessionSpec => []SessionTypeOK
<1>1. SInv => SessionTypeOK
  BY DEF SInv
<1> QED BY <1>1, SessionInvariance, PTL

\* startHeartbeat, recoverRoutes: a plugin whose Vite server runs and that owns
\* hostnames is at work on its routes or holds a live, registered connection.
THEOREM PluginNeverAbandoned == SessionSpec => []NeverAbandoned
<1>1. SInv => NeverAbandoned
  BY DEF SInv, PluginFits, NotAbandoned, NeverAbandoned
<1> QED BY <1>1, SessionInvariance, PTL

\* setup, recoverRoutes: a plugin has one connection in use at a time.
THEOREM OneConnectionAlways == SessionSpec => []OneConnection
<1>1. ASSUME SInv, NEW p \in Plugin
      PROVE  Cardinality({c \in ClientsOf(p) : link[c] \in {"connecting", "connected"}}) <= 1
  <2> DEFINE used == {c \in ClientsOf(p) : link[c] \in {"connecting", "connected"}}
  <2>1. \A c, d \in used : c = d
    BY <1>1 DEF SInv, PluginFits, OneLinked, Linked
  <2>2. CASE used = {}
    <3>1. Cardinality(used) = 0
      BY <2>2, FS_EmptySet
    <3> QED BY <3>1
  <2>3. CASE used # {}
    <3>1. PICK c \in used : TRUE
      BY <2>3
    <3>2. used = {c}
      BY <2>1, <3>1
    <3>3. Cardinality(used) = 1
      BY <3>2, FS_Singleton
    <3> QED BY <3>3
  <2> QED BY <2>2, <2>3
<1>2. SInv => OneConnection
  BY <1>1 DEF OneConnection
<1> QED BY <1>2, SessionInvariance, PTL

-----------------------------------------------------------------------------
(* What a connected client and the server have told each other.            *)

\* The answers in a box to the first k requests that are pending, oldest first:
\* what else it holds are losses.
Answering(f, k, box) ==
  /\ f \in [1..k -> 1..Len(box)]
  /\ \A i, j \in 1..k : i < j => f[i] < f[j]
  /\ \A i \in 1..Len(box) : IsLoss(box[i]) <=> ~ \E j \in 1..k : f[j] = i

\* A request that the server has not answered, and its frame.  Before the
\* register is answered, the client has heard nothing and the server holds nothing for it.
SentFits(request, frame, box, held, listens) ==
  /\ frame.type \in {"register", "heartbeat"}
  /\ frame.type = "register" <=> request.type = "register"
  /\ request.type = "register" => box = <<>> /\ held = {} /\ ~listens
  /\ request.type = "heartbeat" => frame.hostnames = request.hostnames

\* A request and its answer: of what is held, a register lists all, and a
\* heartbeat leaves nothing unconfirmed.
AnswerFits(request, message, held) ==
  /\ request.type = "register" /\ message.type = "registered" => held \subseteq message.hostnames
  /\ request.type = "heartbeat" => (request.hostnames \ message.hostnames) \cap held = {}

Registering(requests) == requests # <<>> /\ Head(requests).type = "register"

Standing(requests, sentFrames, box, held, claims, listens) ==
  LET k == Len(requests) - Len(sentFrames) IN
  /\ k >= 0
  /\ \A i \in 1..Len(sentFrames) : SentFits(requests[k + i], sentFrames[i], box, held, listens)
  /\ \A i \in 1..Len(box) : IsLoss(box[i]) => box[i].hostnames \cap held = {}
  /\ \E f : Answering(f, k, box) /\ \A j \in 1..k : AnswerFits(requests[j], box[f[j]], held)
  /\ \A i \in 1..Len(requests) : requests[i].type = "register" => i = 1
  /\ Registering(requests) => Len(requests) = 1 /\ claims = {}
  /\ ~Registering(requests) => held \subseteq claims

\* The only request, a register, is sent.
LEMMA StandingBegins ==
  ASSUME NEW request \in PendingRequest, NEW frame \in Frame,
         request.type = "register", frame.type = "register",
         NEW P, NEW F, NEW B, P = <<request>>, F = <<frame>>, B = <<>>
  PROVE  Standing(P, F, B, {}, {}, FALSE)
<1>1. /\ Len(P) = 1 /\ Len(F) = 1 /\ P[1] = request /\ F[1] = frame /\ Head(P) = request
      /\ Len(B) = 0 /\ Len(P) - Len(F) = 0 /\ P # <<>> /\ 1..0 = {}
  OBVIOUS
<1>2. Answering([j \in {} |-> 1], 0, B)
  BY <1>1 DEF Answering
<1>3. SentFits(request, frame, B, {}, FALSE)
  BY DEF SentFits
<1>4. \A i \in 1..1 : i = 1 /\ 0 + i = 1
  OBVIOUS
<1>5. Registering(P)
  BY <1>1 DEF Registering
<1>6. \A i \in 1..Len(F) : SentFits(P[0 + i], F[i], B, {}, FALSE)
  BY <1>1, <1>3, <1>4
<1>7. \E f : Answering(f, 0, B) /\ \A j \in 1..0 : AnswerFits(P[j], B[f[j]], {})
  BY <1>1, <1>2
<1>8. \A i \in 1..Len(B) : IsLoss(B[i]) => B[i].hostnames \cap {} = {}
  BY <1>1
<1>9. \A i \in 1..Len(P) : P[i].type = "register" => i = 1
  BY <1>1, <1>4
<1> DEFINE k == Len(P) - Len(F)
<1>10. k = 0 /\ k >= 0
  BY <1>1
<1> HIDE DEF k
<1>11. /\ \A i \in 1..Len(F) : SentFits(P[k + i], F[i], B, {}, FALSE)
       /\ \E f : Answering(f, k, B) /\ \A j \in 1..k : AnswerFits(P[j], B[f[j]], {})
  BY <1>6, <1>7, <1>10
<1>12. k = Len(P) - Len(F)
  BY DEF k
<1> QED BY <1>1, <1>5, <1>8, <1>9, <1>10, <1>11, <1>12 DEF Standing

\* A registered client sends a heartbeat.
LEMMA StandingRequest ==
  ASSUME NEW P \in Seq(PendingRequest), NEW F \in Seq(Frame), NEW B \in Seq(ServerMessage), NEW held,
         NEW claims, NEW listens, Standing(P, F, B, held, claims, listens), claims # {},
         NEW request \in PendingRequest, NEW frame \in Frame,
         request.type = "heartbeat", frame.type = "heartbeat", frame.hostnames = request.hostnames
  PROVE  Standing(Append(P, request), Append(F, frame), B, held, claims, listens)
<1> DEFINE Q == Append(P, request)
           G == Append(F, frame)
           k == Len(P) - Len(F)
<1>1. /\ Len(P) \in Nat /\ Len(F) \in Nat /\ Len(Q) = Len(P) + 1 /\ Len(G) = Len(F) + 1
      /\ \A i \in 1..Len(P) : Q[i] = P[i]
      /\ \A i \in 1..Len(F) : G[i] = F[i]
      /\ Q[Len(P) + 1] = request /\ G[Len(F) + 1] = frame
  BY AppendProperties
<1>2. k \in Nat /\ Len(Q) - Len(G) = k /\ ~Registering(P)
  BY <1>1 DEF Standing
<1>3. ASSUME NEW i \in 1..Len(G) PROVE SentFits(Q[k + i], G[i], B, held, listens)
  <2>1. CASE i \in 1..Len(F)
    <3>1. k + i \in 1..Len(P) /\ SentFits(P[k + i], F[i], B, held, listens)
      BY <1>1, <1>2, <2>1 DEF Standing
    <3> QED BY <1>1, <2>1, <3>1
  <2>2. CASE i = Len(F) + 1
    <3>1. k + i = Len(P) + 1
      BY <1>1, <2>2
    <3> QED BY <1>1, <2>2, <3>1 DEF SentFits
  <2>3. i \in 1..Len(F) \/ i = Len(F) + 1
    BY <1>1
  <2> QED BY <2>1, <2>2, <2>3
<1>4. PICK f : Answering(f, k, B) /\ \A j \in 1..k : AnswerFits(P[j], B[f[j]], held)
  BY DEF Standing
<1>5. \A j \in 1..k : AnswerFits(Q[j], B[f[j]], held)
  <2>1. \A j \in 1..k : j \in 1..Len(P)
    BY <1>1, <1>2
  <2> QED BY <1>1, <1>4, <2>1
<1>6. \A i \in 1..Len(Q) : Q[i].type = "register" => i = 1
  <2>1. \A i \in 1..Len(Q) : i \in 1..Len(P) \/ i = Len(P) + 1
    BY <1>1
  <2> QED BY <1>1, <2>1 DEF Standing
<1>7. ~Registering(Q)
  <2>1. CASE P = <<>>
    <3>1. Len(P) = 0
      BY <2>1
    <3>2. Head(Q) = Q[1] /\ Q[1] = request
      BY <1>1, <3>1
    <3> QED BY <3>2 DEF Registering
  <2>2. CASE P # <<>>
    <3>1. Head(P) = P[1] /\ 1 \in 1..Len(P)
      BY <2>2
    <3>2. Head(Q) = Q[1] /\ Q[1] = P[1]
      BY <1>1, <3>1
    <3> QED BY <1>2, <2>2, <3>1, <3>2 DEF Registering
  <2> QED BY <2>1, <2>2
<1>8. /\ held \subseteq claims
      /\ \A i \in 1..Len(B) : IsLoss(B[i]) => B[i].hostnames \cap held = {}
  BY <1>2 DEF Standing
<1> HIDE DEF Q, G, k
<1>9. k >= 0
  BY <1>2
<1>10. Len(Append(P, request)) - Len(Append(F, frame)) = k /\ Q = Append(P, request) /\ G = Append(F, frame)
  BY <1>2 DEF Q, G
<1> QED BY <1>3, <1>4, <1>5, <1>6, <1>7, <1>8, <1>9, <1>10 DEF Standing

\* Others take hostnames over, and the client is told if it listens.
LEMMA StandingBeside ==
  ASSUME NEW P \in Seq(PendingRequest), NEW F \in Seq(Frame), NEW B \in Seq(ServerMessage), NEW held,
         NEW claims, NEW listens, Standing(P, F, B, held, claims, listens),
         NEW told \in Seq(ServerMessage), NEW rest, rest \subseteq held, NEW hears, hears => listens,
         \/ told = <<>>
         \/ /\ listens /\ Len(told) = 1
            /\ IsLoss(told[1]) /\ told[1].hostnames \cap rest = {}
  PROVE  Standing(P, F, B \o told, rest, claims, hears)
<1> DEFINE C == B \o told
           k == Len(P) - Len(F)
<1>1. /\ Len(P) \in Nat /\ Len(F) \in Nat /\ Len(B) \in Nat /\ Len(told) \in Nat
      /\ Len(C) = Len(B) + Len(told)
      /\ \A i \in 1..Len(C) : C[i] = IF i <= Len(B) THEN B[i] ELSE told[i - Len(B)]
      /\ told = <<>> => C = B
  BY ConcatProperties
<1>2. k \in Nat
  BY <1>1 DEF Standing
<1>3. \A i \in 1..Len(C) : i \in 1..Len(B) \/ (i = Len(B) + 1 /\ Len(told) = 1 /\ C[i] = told[1])
  <2>1. told = <<>> => Len(told) = 0
    OBVIOUS
  <2> QED BY <1>1, <2>1
<1>4. \A i \in 1..Len(B) : i \in 1..Len(C) /\ C[i] = B[i]
  BY <1>1
<1>5. \A i \in 1..Len(C) : IsLoss(C[i]) => C[i].hostnames \cap rest = {}
  BY <1>3, <1>4 DEF Standing
<1>6. PICK f : Answering(f, k, B) /\ \A j \in 1..k : AnswerFits(P[j], B[f[j]], held)
  BY DEF Standing
<1>7. f \in [1..k -> 1..Len(C)] /\ \A j \in 1..k : f[j] \in 1..Len(B)
  BY <1>4, <1>6 DEF Answering
<1>8. \A i \in 1..Len(C) : IsLoss(C[i]) <=> ~ \E j \in 1..k : f[j] = i
  <2>1. ASSUME NEW i \in 1..Len(C), i = Len(B) + 1 /\ Len(told) = 1 /\ C[i] = told[1]
        PROVE  IsLoss(C[i]) /\ ~ \E j \in 1..k : f[j] = i
    <3>1. Len(told) # 0 /\ told # <<>>
      BY <2>1
    <3>2. IsLoss(C[i])
      BY <2>1, <3>1
    <3>3. \A j \in 1..k : f[j] # i
      BY <1>1, <1>7, <2>1
    <3> QED BY <3>2, <3>3
  <2> QED BY <1>3, <1>4, <1>6, <2>1 DEF Answering
<1>9. Answering(f, k, C)
  <2> HIDE DEF C, k
  <2> QED BY <1>6, <1>7, <1>8 DEF Answering
<1>10. \A j \in 1..k : AnswerFits(P[j], C[f[j]], rest)
  <2> HIDE DEF C, k
  <2> QED BY <1>4, <1>6, <1>7 DEF AnswerFits
<1>11. \A i \in 1..Len(F) : SentFits(P[k + i], F[i], C, rest, hears)
  BY <1>1 DEF Standing, SentFits
<1>12. ~Registering(P) => rest \subseteq claims
  BY DEF Standing
<1> HIDE DEF C
<1> QED BY <1>5, <1>9, <1>10, <1>11, <1>12 DEF Standing, C

\* The server answers the oldest request that it has not answered.
LEMMA StandingReply ==
  ASSUME NEW P \in Seq(PendingRequest), NEW F \in Seq(Frame), NEW B \in Seq(ServerMessage), NEW held,
         NEW claims, NEW listens, Standing(P, F, B, held, claims, listens), F # <<>>,
         NEW message \in ServerMessage, ~IsLoss(message), NEW has, NEW hears,
         Head(F).type = "register" \/ (has = held /\ hears = listens),
         ASSUME SentFits(P[Len(P) - Len(F) + 1], Head(F), B, held, listens)
         PROVE  AnswerFits(P[Len(P) - Len(F) + 1], message, has)
  PROVE  Standing(P, Tail(F), Append(B, message), has, claims, hears)
<1> DEFINE C == Append(B, message)
           k == Len(P) - Len(F)
           m == k + 1
           G == Tail(F)
<1>1. /\ Len(P) \in Nat /\ Len(F) \in Nat \ {0} /\ Len(B) \in Nat /\ Len(C) = Len(B) + 1
      /\ Head(F) = F[1] /\ Len(G) = Len(F) - 1 /\ Len(P) - Len(G) = m
      /\ \A i \in 1..Len(G) : G[i] = F[i + 1] /\ i + 1 \in 1..Len(F) /\ m + i = k + (i + 1)
      /\ \A i \in 1..Len(B) : C[i] = B[i]
      /\ C[Len(B) + 1] = message
  BY AppendProperties, HeadTailProperties
<1>2. k \in Nat /\ m \in 1..Len(P)
  BY <1>1 DEF Standing
<1>3. SentFits(P[m], Head(F), B, held, listens)
  <2>1. 1 \in 1..Len(F)
    BY <1>1
  <2> QED BY <1>1, <2>1 DEF Standing
<1>4. AnswerFits(P[m], message, has)
  BY <1>3
<1>5. CASE Head(F).type = "register"
  <2>1. P[m].type = "register" /\ B = <<>> /\ m = 1
    BY <1>2, <1>3, <1>5 DEF SentFits, Standing
  <2>2. P # <<>> /\ Head(P) = P[1] /\ Registering(P)
    BY <1>1, <1>2, <2>1 DEF Registering
  <2>3. Len(P) = 1 /\ claims = {} /\ Len(F) = 1 /\ Len(G) = 0 /\ Len(B) = 0 /\ Len(C) = 1
    <3>1. Len(P) = 1 /\ claims = {}
      BY <2>2 DEF Standing
    <3>2. Len(B) = 0
      BY <2>1
    <3> QED BY <1>1, <1>2, <2>1, <3>1, <3>2
  <2>4. Answering([j \in 1..1 |-> 1], 1, C)
    <3>1. \A i \in 1..Len(C) : i = 1 /\ C[i] = message
      BY <1>1, <2>3
    <3>2. \A i \in 1..1 : i = 1
      OBVIOUS
    <3> HIDE DEF C
    <3> QED BY <2>3, <3>1, <3>2 DEF Answering
  <2>5. \A j \in 1..1 : AnswerFits(P[j], C[[i \in 1..1 |-> 1][j]], has)
    BY <1>1, <1>4, <2>1, <2>3
  <2>6. \A i \in 1..Len(C) : ~IsLoss(C[i])
    BY <1>1, <2>3
  <2>7. \A i \in 1..Len(P) : P[i].type = "register" => i = 1
    BY DEF Standing
  <2>8. Len(P) - Len(G) = 1 /\ 1..Len(G) = {} /\ 1 >= 0
    <3>1. 1 - 0 = 1 /\ 1..0 = {}
      OBVIOUS
    <3> HIDE DEF G
    <3> QED BY <2>3, <3>1
  <2> HIDE DEF C, G
  <2>9. Standing(P, G, C, has, claims, hears)
    BY <2>2, <2>3, <2>4, <2>5, <2>6, <2>7, <2>8 DEF Standing
  <2> QED BY <2>9 DEF C, G
<1>6. CASE Head(F).type # "register"
  <2>1. has = held /\ hears = listens
    BY <1>6
  <2>2. PICK f : Answering(f, k, B) /\ \A j \in 1..k : AnswerFits(P[j], B[f[j]], held)
    BY DEF Standing
  <2> DEFINE g == [j \in 1..m |-> IF j = m THEN Len(B) + 1 ELSE f[j]]
  <2>3. \A j \in 1..m : j = m \/ (j \in 1..k /\ j # m /\ f[j] \in 1..Len(B))
    <3>1. \A j \in 1..m : j = m \/ (j \in 1..k /\ j # m)
      BY <1>2
    <3>2. \A j \in 1..k : f[j] \in 1..Len(B)
      <4> HIDE DEF k
      <4> QED BY <2>2 DEF Answering
    <3> HIDE DEF k, m
    <3> QED BY <3>1, <3>2
  <2>4. \A i \in 1..Len(C) : i \in 1..Len(B) \/ i = Len(B) + 1
    BY <1>1
  <2>5. \A i \in 1..Len(B) : i \in 1..Len(C) /\ i < Len(B) + 1
    BY <1>1
  <2>6. Len(B) + 1 \in 1..Len(C) /\ m \in 1..m /\ \A j \in 1..k : j \in 1..m /\ j # m
    BY <1>1, <1>2
  <2>7. g \in [1..m -> 1..Len(C)] /\ g[m] = Len(B) + 1 /\ \A j \in 1..k : g[j] = f[j] /\ f[j] \in 1..Len(B)
    <3> HIDE DEF m, C, k
    <3> QED BY <2>3, <2>5, <2>6
  <2>8. \A i, j \in 1..m : i < j => g[i] < g[j]
    <3> SUFFICES ASSUME NEW i \in 1..m, NEW j \in 1..m, i < j PROVE g[i] < g[j]
      OBVIOUS
    <3>1. i \in 1..k
      BY <1>2
    <3>2. CASE j = m
      BY <2>5, <2>7, <3>1, <3>2
    <3>3. CASE j \in 1..k
      BY <2>2, <2>7, <3>1, <3>3 DEF Answering
    <3> QED BY <2>3, <3>2, <3>3
  <2>9. \A i \in 1..Len(C) : IsLoss(C[i]) <=> ~ \E j \in 1..m : g[j] = i
    <3> SUFFICES ASSUME NEW i \in 1..Len(C) PROVE IsLoss(C[i]) <=> ~ \E j \in 1..m : g[j] = i
      OBVIOUS
    <3>1. CASE i = Len(B) + 1
      <4>1. C[i] = message /\ g[m] = i
        BY <1>1, <2>7, <3>1
      <4> HIDE DEF C, g, m
      <4> QED BY <2>6, <4>1
    <3>2. CASE i \in 1..Len(B)
      <4>1. C[i] = B[i] /\ g[m] # i
        BY <1>1, <2>5, <2>7, <3>2
      <4>2. IsLoss(B[i]) <=> ~ \E j \in 1..k : f[j] = i
        BY <2>2, <3>2 DEF Answering
      <4>3. (\E j \in 1..m : g[j] = i) <=> \E j \in 1..k : f[j] = i
        <5> HIDE DEF g, m, k, C
        <5> QED BY <2>3, <2>6, <2>7, <4>1
      <4> HIDE DEF g, m, k, C
      <4> QED BY <4>1, <4>2, <4>3
    <3> QED BY <2>4, <3>1, <3>2
  <2>10. Answering(g, m, C)
    <3> HIDE DEF g, m, C
    <3> QED BY <2>7, <2>8, <2>9 DEF Answering
  <2>11. \A j \in 1..m : AnswerFits(P[j], C[g[j]], has)
    <3>1. \A j \in 1..k : C[g[j]] = B[f[j]]
      BY <1>1, <2>7
    <3>2. C[g[m]] = message /\ AnswerFits(P[m], message, has)
      BY <1>1, <1>4, <2>7
    <3>3. \A j \in 1..k : AnswerFits(P[j], B[f[j]], has)
      BY <2>1, <2>2
    <3>4. ASSUME NEW j \in 1..m PROVE AnswerFits(P[j], C[g[j]], has)
      <4>1. CASE j = m
        BY <3>2, <4>1
      <4>2. CASE j \in 1..k
        <5>1. C[g[j]] = B[f[j]] /\ AnswerFits(P[j], B[f[j]], has)
          BY <3>1, <3>3, <4>2
        <5> QED BY <5>1
      <4> QED BY <2>3, <4>1, <4>2
    <3> QED BY <3>4
  <2>12. \A i \in 1..Len(G) : SentFits(P[m + i], G[i], C, has, hears)
    <3> SUFFICES ASSUME NEW i \in 1..Len(G) PROVE SentFits(P[m + i], G[i], C, has, hears)
      OBVIOUS
    <3>1. SentFits(P[m + i], G[i], B, held, listens)
      BY <1>1 DEF Standing
    <3>2. m + i \in 1..Len(P) /\ m + i # 1
      BY <1>1, <1>2
    <3>3. P[m + i].type # "register"
      BY <3>2 DEF Standing
    <3> HIDE DEF m, G, C
    <3> QED BY <2>1, <3>1, <3>3 DEF SentFits
  <2>13. \A i \in 1..Len(C) : IsLoss(C[i]) => C[i].hostnames \cap has = {}
    <3>1. \A i \in 1..Len(B) : IsLoss(B[i]) => B[i].hostnames \cap held = {}
      BY DEF Standing
    <3>2. \A i \in 1..Len(B) : C[i] = B[i]
      BY <1>1
    <3>3. C[Len(B) + 1] = message
      BY <1>1
    <3> HIDE DEF C
    <3> QED BY <2>1, <2>4, <3>1, <3>2, <3>3
  <2>14. Len(P) - Len(G) = m /\ m >= 0
    BY <1>1, <1>2
  <2> HIDE DEF C, G, m, g, k
  <2>15. Standing(P, G, C, has, claims, hears)
    BY <2>1, <2>10, <2>11, <2>12, <2>13, <2>14 DEF Standing
  <2> QED BY <2>15 DEF C, G
<1> QED BY <1>5, <1>6
\* The client hears of a loss.
LEMMA StandingLoss ==
  ASSUME NEW P \in Seq(PendingRequest), NEW F \in Seq(Frame), NEW B \in Seq(ServerMessage), NEW held,
         NEW claims, NEW listens, Standing(P, F, B, held, claims, listens),
         B # <<>>, IsLoss(Head(B))
  PROVE  Standing(P, F, Tail(B), held, claims \ Head(B).hostnames, listens)
<1> DEFINE C == Tail(B)
           k == Len(P) - Len(F)
<1>1. /\ Len(P) \in Nat /\ Len(F) \in Nat /\ Len(B) \in Nat /\ Len(C) = Len(B) - 1 /\ C \in Seq(ServerMessage)
      /\ Head(B) = B[1] /\ 1 \in 1..Len(B)
      /\ \A i \in 1..Len(C) : C[i] = B[i + 1] /\ i + 1 \in 1..Len(B)
  BY HeadTailProperties
<1>2. k \in Nat
  BY <1>1 DEF Standing
<1>3. Head(B).hostnames \cap held = {}
  BY <1>1 DEF Standing
<1>4. PICK f : Answering(f, k, B) /\ \A j \in 1..k : AnswerFits(P[j], B[f[j]], held)
  BY DEF Standing
<1> DEFINE g == [j \in 1..k |-> f[j] - 1]
<1>5. \A j \in 1..k : f[j] \in 1..Len(B) /\ f[j] # 1
  <2>1. ~ \E j \in 1..k : f[j] = 1
    BY <1>1, <1>4 DEF Answering
  <2> HIDE DEF k
  <2> QED BY <1>4, <2>1 DEF Answering
<1>6. \A j \in 1..k : g[j] = f[j] - 1 /\ g[j] \in 1..Len(C) /\ C[g[j]] = B[f[j]] /\ g[j] + 1 = f[j]
  <2> HIDE DEF k
  <2>1. ASSUME NEW j \in 1..k
        PROVE  g[j] = f[j] - 1 /\ g[j] \in 1..Len(C) /\ C[g[j]] = B[f[j]] /\ g[j] + 1 = f[j]
    <3>1. g[j] = f[j] - 1 /\ f[j] \in 1..Len(B) /\ f[j] # 1
      BY <1>5
    <3>2. g[j] \in 1..Len(C) /\ g[j] + 1 = f[j]
      BY <1>1, <3>1
    <3>3. C[g[j]] = B[g[j] + 1]
      BY <1>1, <3>2
    <3> HIDE DEF C, g
    <3> QED BY <3>1, <3>2, <3>3
  <2> QED BY <2>1
<1>7. Answering(g, k, C)
  <2>1. g \in [1..k -> 1..Len(C)]
    <3> HIDE DEF C, k
    <3> QED BY <1>6
  <2>2. ASSUME NEW i \in 1..k, NEW j \in 1..k, i < j PROVE g[i] < g[j]
    <3>1. f[i] < f[j]
      BY <1>4, <2>2 DEF Answering
    <3>2. f[i] \in 1..Len(B) /\ f[j] \in 1..Len(B)
      BY <1>5
    <3>3. g[i] = f[i] - 1 /\ g[j] = f[j] - 1
      BY <1>6
    <3> HIDE DEF g
    <3> QED BY <1>1, <3>1, <3>2, <3>3
  <2>3. ASSUME NEW i \in 1..Len(C) PROVE IsLoss(C[i]) <=> ~ \E j \in 1..k : g[j] = i
    <3>1. C[i] = B[i + 1] /\ i + 1 \in 1..Len(B) /\ i \in Int
      BY <1>1
    <3>2. IsLoss(B[i + 1]) <=> ~ \E j \in 1..k : f[j] = i + 1
      BY <1>4, <3>1 DEF Answering
    <3>3. \A j \in 1..k : g[j] = i <=> f[j] = i + 1
      <4>1. ASSUME NEW j \in 1..k PROVE g[j] = i <=> f[j] = i + 1
        <5>1. g[j] = f[j] - 1 /\ f[j] \in 1..Len(B)
          BY <1>5, <1>6
        <5> HIDE DEF g
        <5> QED BY <1>1, <3>1, <5>1
      <4> QED BY <4>1
    <3> HIDE DEF C, g, k
    <3> QED BY <3>1, <3>2, <3>3
  <2> HIDE DEF C, g, k
  <2> QED BY <2>1, <2>2, <2>3 DEF Answering
<1>8. \A j \in 1..k : AnswerFits(P[j], C[g[j]], held)
  <2> HIDE DEF C, g, k
  <2> QED BY <1>4, <1>6
<1>9. \A i \in 1..Len(F) : SentFits(P[k + i], F[i], C, held, listens)
  <2>1. ASSUME NEW i \in 1..Len(F) PROVE SentFits(P[k + i], F[i], C, held, listens)
    <3>1. SentFits(P[k + i], F[i], B, held, listens)
      BY DEF Standing
    <3> HIDE DEF k, C
    <3> QED BY <3>1 DEF SentFits
  <2> QED BY <2>1
<1>10. \A i \in 1..Len(C) : IsLoss(C[i]) => C[i].hostnames \cap held = {}
  <2>1. \A i \in 1..Len(B) : IsLoss(B[i]) => B[i].hostnames \cap held = {}
    BY DEF Standing
  <2> HIDE DEF C
  <2> QED BY <1>1, <2>1
<1>11. /\ Registering(P) => Len(P) = 1 /\ claims \ Head(B).hostnames = {}
       /\ ~Registering(P) => held \subseteq claims \ Head(B).hostnames
       /\ \A i \in 1..Len(P) : P[i].type = "register" => i = 1
  BY <1>3 DEF Standing
<1>12. k = Len(P) - Len(F) /\ k >= 0 /\ C = Tail(B)
  BY <1>2
<1> HIDE DEF C, k, g
<1> QED BY <1>7, <1>8, <1>9, <1>10, <1>11, <1>12 DEF Standing

\* The oldest request is answered, and n losses share the chunk of its answer.
LEMMA StandingChunk ==
  ASSUME NEW P \in Seq(PendingRequest), NEW F \in Seq(Frame), NEW B \in Seq(ServerMessage), NEW held,
         NEW claims, NEW listens, Standing(P, F, B, held, claims, listens),
         NEW n \in 0..(Len(B) - 1), ~IsLoss(Head(B)), \A i \in 2..(n + 1) : IsLoss(B[i])
  PROVE  /\ P # <<>> /\ Head(P) = P[1] /\ Head(B) = B[1]
         /\ AnswerFits(P[1], B[1], held)
         /\ \A i \in 2..(n + 1) : B[i].hostnames \cap held = {}
         /\ \A new : held \subseteq new
              => Standing(Tail(P), F, SubSeq(B, n + 2, Len(B)), held, new, listens)
<1> DEFINE C == SubSeq(B, n + 2, Len(B))
           Q == Tail(P)
           k == Len(P) - Len(F)
           m == k - 1
<1>1. /\ Len(P) \in Nat /\ Len(F) \in Nat /\ Len(B) \in Nat /\ n \in Nat /\ n < Len(B)
      /\ B # <<>> /\ Head(B) = B[1] /\ 1 \in 1..Len(B)
  OBVIOUS
<1>2. k \in Nat
  BY <1>1 DEF Standing
<1>3. /\ Len(C) = Len(B) - (n + 1)
      /\ \A i \in 1..Len(C) : C[i] = B[i + (n + 1)] /\ i + (n + 1) \in 1..Len(B) /\ i + (n + 1) > n + 1
  BY <1>1, SubSeqProperties
<1>4. PICK f : Answering(f, k, B) /\ \A j \in 1..k : AnswerFits(P[j], B[f[j]], held)
  BY DEF Standing
<1>5. \A j \in 1..k : f[j] \in 1..Len(B) /\ f[j] \notin 2..(n + 1)
  <2>1. ASSUME NEW j \in 1..k PROVE f[j] \in 1..Len(B) /\ f[j] \notin 2..(n + 1)
    <3>1. f[j] \in 1..Len(B)
      BY <1>4 DEF Answering
    <3>2. ~IsLoss(B[f[j]])
      BY <1>4, <3>1 DEF Answering
    <3> QED BY <3>1, <3>2
  <2> QED BY <2>1
<1>6. PICK j1 \in 1..k : f[j1] = 1
  BY <1>1, <1>4 DEF Answering
<1>7. 1 \in 1..k /\ f[1] = 1 /\ k >= 1
  <2>1. 1 \in 1..k /\ k >= 1
    BY <1>2, <1>6
  <2>2. CASE j1 = 1
    BY <1>6, <2>1, <2>2
  <2>3. CASE j1 # 1
    <3>1. 1 < j1
      BY <1>2, <1>6, <2>3
    <3>2. f[1] < f[j1]
      BY <1>4, <1>6, <2>1, <3>1 DEF Answering
    <3>3. f[1] \in 1..Len(B)
      BY <1>5, <2>1
    <3> QED BY <1>1, <1>6, <3>2, <3>3
  <2> QED BY <2>1, <2>2, <2>3
<1>8. \A j \in 1..m : j + 1 \in 1..k /\ 1 < j + 1
  BY <1>2
<1>9. \A j \in 1..m : f[j + 1] - (n + 1) \in 1..Len(C) /\ C[f[j + 1] - (n + 1)] = B[f[j + 1]]
  <2>1. ASSUME NEW j \in 1..m
        PROVE  f[j + 1] - (n + 1) \in 1..Len(C) /\ C[f[j + 1] - (n + 1)] = B[f[j + 1]]
    <3>1. j + 1 \in 1..k /\ 1 < j + 1
      BY <1>8
    <3>2. f[j + 1] \in 1..Len(B) /\ f[j + 1] \notin 2..(n + 1)
      BY <1>5, <3>1
    <3>3. f[1] < f[j + 1]
      BY <1>4, <1>7, <3>1 DEF Answering
    <3>4. f[j + 1] - (n + 1) \in 1..Len(C) /\ (f[j + 1] - (n + 1)) + (n + 1) = f[j + 1]
      <4>1. f[j + 1] > n + 1 /\ f[j + 1] <= Len(B) /\ f[j + 1] \in Int
        BY <1>1, <1>7, <3>2, <3>3
      <4> HIDE DEF C, m, k
      <4> QED BY <1>1, <1>3, <4>1
    <3>5. C[f[j + 1] - (n + 1)] = B[(f[j + 1] - (n + 1)) + (n + 1)]
      BY <1>3, <3>4
    <3> HIDE DEF C, m, k
    <3> QED BY <3>4, <3>5
  <2> QED BY <2>1
<1> DEFINE g == [j \in 1..m |-> f[j + 1] - (n + 1)]
<1>10. Answering(g, m, C)
  <2>1. \A j \in 1..m : g[j] = f[j + 1] - (n + 1)
    OBVIOUS
  <2>2. g \in [1..m -> 1..Len(C)]
    <3> HIDE DEF C, m, k
    <3> QED BY <1>9
  <2>3. ASSUME NEW i \in 1..m, NEW j \in 1..m, i < j PROVE g[i] < g[j]
    <3>1. i + 1 \in 1..k /\ j + 1 \in 1..k /\ i + 1 < j + 1
      BY <1>8, <2>3
    <3>2. f[i + 1] < f[j + 1]
      BY <1>4, <3>1 DEF Answering
    <3>3. f[i + 1] \in 1..Len(B) /\ f[j + 1] \in 1..Len(B)
      BY <1>5, <3>1
    <3>4. g[i] = f[i + 1] - (n + 1) /\ g[j] = f[j + 1] - (n + 1)
      BY <2>1
    <3> HIDE DEF g, m, k
    <3> QED BY <1>1, <3>2, <3>3, <3>4
  <2>4. ASSUME NEW i \in 1..Len(C) PROVE IsLoss(C[i]) <=> ~ \E j \in 1..m : g[j] = i
    <3> DEFINE r == i + (n + 1)
    <3>1. C[i] = B[r] /\ r \in 1..Len(B) /\ r > 1 /\ r \in Int /\ i \in Int
      BY <1>1, <1>3
    <3>2. IsLoss(B[r]) <=> ~ \E j \in 1..k : f[j] = r
      BY <1>4, <3>1 DEF Answering
    <3>3. ASSUME NEW j \in 1..m, g[j] = i PROVE j + 1 \in 1..k /\ f[j + 1] = r
      <4>1. j + 1 \in 1..k /\ f[j + 1] \in 1..Len(B) /\ f[j + 1] - (n + 1) = i
        BY <1>5, <1>8, <2>1, <3>3
      <4>2. f[j + 1] = i + (n + 1)
        <5>1. PICK q : q = f[j + 1]
          OBVIOUS
        <5>2. q \in 1..Len(B) /\ q - (n + 1) = i
          BY <4>1, <5>1
        <5> HIDE DEF g, m, k, C
        <5>3. q = i + (n + 1)
          BY <1>1, <3>1, <5>2
        <5> QED BY <5>1, <5>3
      <4> QED BY <4>1, <4>2
    <3>4. ASSUME NEW j \in 1..k, f[j] = r PROVE j - 1 \in 1..m /\ g[j - 1] = i
      <4>1. j # 1
        <5> HIDE DEF r, g, m, k, C
        <5> QED BY <1>7, <3>1, <3>4
      <4>2. j - 1 \in 1..m /\ (j - 1) + 1 = j
        BY <1>2, <4>1
      <4>3. g[j - 1] = f[(j - 1) + 1] - (n + 1)
        BY <2>1, <4>2
      <4>4. f[(j - 1) + 1] = r
        BY <3>4, <4>2
      <4> HIDE DEF g, m, k
      <4> QED BY <1>1, <3>1, <4>2, <4>3, <4>4
    <3> HIDE DEF C, g, k, m, r
    <3> QED BY <3>1, <3>2, <3>3, <3>4
  <2> HIDE DEF C, g, m
  <2> QED BY <2>2, <2>3, <2>4 DEF Answering
<1>11. P # <<>> /\ Head(P) = P[1] /\ 1 \in 1..Len(P)
  <2>1. Len(P) >= 1
    BY <1>1, <1>7
  <2> QED BY <2>1
<1>12. /\ Len(Q) = Len(P) - 1 /\ Len(Q) \in Nat
       /\ \A i \in 1..Len(Q) : Q[i] = P[i + 1] /\ i + 1 \in 1..Len(P) /\ i + 1 # 1
  BY <1>1, <1>11, HeadTailProperties
<1>13. \A j \in 1..m : AnswerFits(Q[j], C[g[j]], held)
  <2>1. ASSUME NEW j \in 1..m PROVE AnswerFits(Q[j], C[g[j]], held)
    <3>1. j + 1 \in 1..k /\ C[g[j]] = B[f[j + 1]]
      BY <1>8, <1>9
    <3>2. j \in 1..Len(Q) /\ Q[j] = P[j + 1]
      BY <1>1, <1>2, <1>12
    <3>3. AnswerFits(P[j + 1], B[f[j + 1]], held)
      BY <1>4, <3>1
    <3> HIDE DEF C, Q, g, m, k
    <3> QED BY <3>1, <3>2, <3>3
  <2> QED BY <2>1
<1>14. AnswerFits(P[1], B[1], held)
  <2>1. AnswerFits(P[1], B[f[1]], held)
    BY <1>4, <1>7
  <2> QED BY <1>7, <2>1
<1>15. \A i \in 1..Len(B) : IsLoss(B[i]) => B[i].hostnames \cap held = {}
  BY DEF Standing
<1>16. \A i \in 2..(n + 1) : B[i].hostnames \cap held = {}
  <2>1. \A i \in 2..(n + 1) : i \in 1..Len(B)
    BY <1>1
  <2> QED BY <1>15, <2>1
<1>17. \A i \in 1..Len(C) : IsLoss(C[i]) => C[i].hostnames \cap held = {}
  <2> HIDE DEF C
  <2> QED BY <1>3, <1>15
<1>18. \A i \in 1..Len(P) : P[i].type = "register" => i = 1
  BY DEF Standing
<1>19. \A i \in 1..Len(Q) : Q[i].type # "register"
  <2> HIDE DEF Q
  <2> QED BY <1>12, <1>18
<1>20. ~Registering(Q)
  <2>1. ASSUME Q # <<>> PROVE Head(Q).type # "register"
    <3>1. Q \in Seq(PendingRequest)
      BY <1>11, HeadTailProperties
    <3>2. Head(Q) = Q[1] /\ 1 \in 1..Len(Q)
      <4> HIDE DEF Q
      <4> QED BY <2>1, <3>1
    <3> QED BY <1>19, <3>2
  <2> HIDE DEF Q
  <2> QED BY <2>1 DEF Registering
<1>21. \A i \in 1..Len(F) : SentFits(Q[m + i], F[i], C, held, listens)
  <2>1. ASSUME NEW i \in 1..Len(F) PROVE SentFits(Q[m + i], F[i], C, held, listens)
    <3>1. SentFits(P[k + i], F[i], B, held, listens)
      BY DEF Standing
    <3>2. m + i \in 1..Len(Q) /\ (m + i) + 1 = k + i
      BY <1>1, <1>7, <1>12
    <3>3. Q[m + i] = P[k + i]
      BY <1>12, <3>2
    <3>4. Q[m + i].type # "register"
      BY <1>19, <3>2
    <3> HIDE DEF Q, C, k, m
    <3> QED BY <3>1, <3>3, <3>4 DEF SentFits
  <2> QED BY <2>1
<1>22. m = Len(Q) - Len(F) /\ m >= 0
  BY <1>1, <1>2, <1>7, <1>12
<1>23. \E ff : Answering(ff, m, C) /\ \A j \in 1..m : AnswerFits(Q[j], C[ff[j]], held)
  BY <1>10, <1>13
<1>24. ASSUME NEW new, held \subseteq new PROVE Standing(Q, F, C, held, new, listens)
  <2> HIDE DEF Q, C, m, k, g
  <2> QED BY <1>17, <1>19, <1>20, <1>21, <1>22, <1>23, <1>24 DEF Standing
<1> QED BY <1>1, <1>11, <1>14, <1>16, <1>24

\* The timer of a heartbeat fires.
LEMMA StandingAbandon ==
  ASSUME NEW P \in Seq(PendingRequest), NEW F \in Seq(Frame), NEW B \in Seq(ServerMessage), NEW held,
         NEW claims, NEW listens, Standing(P, F, B, held, claims, listens),
         NEW i \in 1..Len(P), P[i].type = "heartbeat"
  PROVE  Standing([P EXCEPT ![i].type = "abandoned"], F, B, held, claims, listens)
<1> DEFINE new == [P[i] EXCEPT !.type = "abandoned"]
           Q == [P EXCEPT ![i] = new]
           k == Len(P) - Len(F)
<1>1. P[i] \in PendingRequest
  BY ElementOfSeq
<1>2. new \in PendingRequest /\ new.type = "abandoned"
  BY <1>1 DEF PendingRequest
<1>3. /\ Q \in Seq(PendingRequest) /\ Len(Q) = Len(P) /\ Len(P) \in Nat /\ Len(F) \in Nat
      /\ \A j \in 1..Len(P) : Q[j] = IF j = i THEN new ELSE P[j]
  BY <1>2, ExceptSeq
<1>4. k \in Nat
  BY <1>3 DEF Standing
<1>5. P # <<>> /\ Q # <<>> /\ Head(P) = P[1] /\ Head(Q) = Q[1] /\ 1 \in 1..Len(P)
  <2>1. Len(P) > 0 /\ Len(Q) > 0
    BY <1>3
  <2> HIDE DEF Q
  <2> QED BY <1>3, <2>1
<1>6. Registering(Q) <=> Registering(P)
  <2> HIDE DEF Q, new
  <2> QED BY <1>2, <1>3, <1>5 DEF Registering
<1>7. \A j \in 1..Len(Q) : Q[j].type = "register" => P[j].type = "register"
  <2> HIDE DEF Q, new
  <2> QED BY <1>2, <1>3
<1>8. \A j \in 1..Len(F) : SentFits(Q[k + j], F[j], B, held, listens)
  <2>1. ASSUME NEW j \in 1..Len(F) PROVE SentFits(Q[k + j], F[j], B, held, listens)
    <3>1. SentFits(P[k + j], F[j], B, held, listens)
      BY DEF Standing
    <3>2. k + j \in 1..Len(P)
      BY <1>3, <1>4
    <3>3. Q[k + j] = P[k + j] \/ (Q[k + j] = new /\ P[k + j].type = "heartbeat")
      BY <1>3, <3>2
    <3> HIDE DEF Q, k, new
    <3> QED BY <1>2, <3>1, <3>3 DEF SentFits
  <2> QED BY <2>1
<1>9. PICK f : Answering(f, k, B) /\ \A j \in 1..k : AnswerFits(P[j], B[f[j]], held)
  BY DEF Standing
<1>10. \A j \in 1..k : AnswerFits(Q[j], B[f[j]], held)
  <2>1. ASSUME NEW j \in 1..k PROVE AnswerFits(Q[j], B[f[j]], held)
    <3>1. j \in 1..Len(P)
      BY <1>3, <1>4
    <3>2. Q[j] = P[j] \/ Q[j] = new
      BY <1>3, <3>1
    <3> HIDE DEF Q, k, new
    <3> QED BY <1>2, <1>9, <3>2 DEF AnswerFits
  <2> QED BY <2>1
<1>11. \E ff : Answering(ff, k, B) /\ \A j \in 1..k : AnswerFits(Q[j], B[ff[j]], held)
  BY <1>9, <1>10
<1>12. [P EXCEPT ![i].type = "abandoned"] = Q
  OBVIOUS
<1>13. k = Len(Q) - Len(F) /\ k >= 0
  BY <1>3, <1>4
<1>14. /\ \A j \in 1..Len(B) : IsLoss(B[j]) => B[j].hostnames \cap held = {}
       /\ \A j \in 1..Len(Q) : Q[j].type = "register" => j = 1
       /\ Registering(Q) => Len(Q) = 1 /\ claims = {}
       /\ ~Registering(Q) => held \subseteq claims
  <2> HIDE DEF Q
  <2> QED BY <1>3, <1>6, <1>7 DEF Standing
<1>15. Standing(Q, F, B, held, claims, listens)
  <2> HIDE DEF Q, k, new
  <2> QED BY <1>8, <1>11, <1>13, <1>14 DEF Standing
<1> QED BY <1>12, <1>15

-----------------------------------------------------------------------------
(* ClaimsWhatItHolds: what the server holds for a connected client.        *)

\* The client can be heard, and hears.
Live(c) == link[c] = "connected" /\ ~closing[c] /\ socket[c] = "open"

Listens(c) == \E o \in OwnerToken : c \in listeners[o]

\* What a connection asks for and holds is its plugin's.
OwnTokens(c) ==
  /\ \A i \in 1..Len(frames[c]) :
       frames[c][i].type \in {"register", "unregister", "heartbeat"}
         => frames[c][i].ownerToken \in TokensOf[c]
  /\ \A h \in HeldBy(c) : routes[h].ownerToken \in TokensOf[c]

\* A connection that has carried nothing.
Untouched(c) ==
  link[c] \in {"none", "connecting"} =>
    claimed[c] = {} /\ inbox[c] = <<>> /\ frames[c] = <<>> /\ HeldBy(c) = {} /\ ~Listens(c)

StandingOf(c) == Standing(pending[c], frames[c], inbox[c], HeldBy(c), claimed[c], Listens(c))

Served(c) == OwnTokens(c) /\ Untouched(c) /\ (Live(c) => StandingOf(c))

\* setup() works on the client that cleanup() would close, or has closed.
SetupClient(p) ==
  task[p] = "setup" /\ phase[p] # "infra" =>
    IF shuttingDown[p] THEN closing[candidate[p]] ELSE client[p] = candidate[p]

CInv == SInv /\ (\A c \in Connection : Served(c)) /\ \A p \in Plugin : SetupClient(p)

-----------------------------------------------------------------------------
(* The steps of the plugins.                                               *)

\* The server is sent at most one frame, by c.
Sends(c) ==
  /\ routes' = routes /\ listeners' = listeners
  /\ \A d \in Connection \ {c} : frames'[d] = frames[d] /\ socket'[d] = socket[d]
  /\ \/ frames'[c] = frames[c]
     \/ \E frame \in Frame :
          /\ frames'[c] = Append(frames[c], frame)
          /\ frame.type \in {"register", "unregister", "heartbeat"} => frame.ownerToken \in TokensOf[c]

LEMMA UndisturbedSends ==
  ASSUME ServerUndisturbed, NEW c
  PROVE  Sends(c) /\ frames' = frames /\ socket' = socket
BY DEF ServerUndisturbed, Sends, registryVars, connectionVars

LEMMA TransmitSends ==
  ASSUME TypeOK, NEW c \in Connection, NEW request \in RouteRequest, request.ownerToken \in TokensOf[c],
         Transmit(c, request)
  PROVE  /\ Sends(c) /\ socket' = socket
         /\ socket[c] = "open" => frames'[c] = Append(frames[c], request)
<1>1. CASE socket[c] = "open"
  <2>1. Receive(c, request)
    BY <1>1 DEF Transmit
  <2>2. /\ routes' = routes /\ listeners' = listeners /\ socket' = socket
        /\ frames' = [frames EXCEPT ![c] = Append(frames[c], request)]
    BY <2>1 DEF Receive, Enqueue, registryVars, connectionVars
  <2>3. frames \in [Connection -> Seq(Frame)] /\ request \in Frame
    BY DEF TypeOK, Frame
  <2> QED BY <2>2, <2>3 DEF Sends
<1>2. CASE socket[c] # "open"
  BY <1>2, UndisturbedSends DEF Transmit
<1> QED BY <1>1, <1>2

LEMMA RequestSends ==
  ASSUME TypeOK, NEW p \in Plugin, NEW c \in ClientsOf(p), c \in Connection,
         NEW type \in {"register", "unregister", "heartbeat"}, NEW hs \in SUBSET Hostname,
         NEW rest, Request(c, p, type, hs, rest)
  PROVE  /\ Sends(c) /\ socket' = socket
         /\ [type |-> type, ownerToken |-> p, hostnames |-> hs] \in Frame
         /\ socket[c] = "open"
              => frames'[c] = Append(frames[c], [type |-> type, ownerToken |-> p, hostnames |-> hs])
<1> DEFINE request == [type |-> type, ownerToken |-> p, hostnames |-> hs]
<1>1. request \in RouteRequest /\ request.ownerToken \in TokensOf[c] /\ request \in Frame
  BY DEF RouteRequest, Plugin, ClientsOf, Frame
<1>2. Transmit(c, request)
  BY DEF Request
<1> HIDE DEF request
<1>3. /\ Sends(c) /\ socket' = socket
      /\ socket[c] = "open" => frames'[c] = Append(frames[c], request)
  BY <1>1, <1>2, TransmitSends
<1> QED BY <1>1, <1>3 DEF request

LEMMA HangUpSends ==
  ASSUME TypeOK, NEW c \in Connection, HangUp(c)
  PROVE  Sends(c)
<1>1. CASE socket[c] = "open"
  <2>1. EndEvent(c)
    BY <1>1 DEF HangUp
  <2>2. /\ routes' = routes /\ listeners' = listeners
        /\ socket' = [socket EXCEPT ![c] = "ended"]
        /\ frames' = [frames EXCEPT ![c] = Append(frames[c], Cleanup)]
    BY <2>1 DEF EndEvent, ScheduleCleanup, Enqueue, registryVars
  <2>3. /\ frames \in [Connection -> Seq(Frame)] /\ Cleanup \in Frame
        /\ socket \in [Connection -> {"none", "open", "ended", "destroyed"}]
        /\ Cleanup.type = "cleanup"
    BY DEF TypeOK, Frame, Cleanup
  <2>4. /\ \A d \in Connection \ {c} : frames'[d] = frames[d] /\ socket'[d] = socket[d]
        /\ frames'[c] = Append(frames[c], Cleanup)
    BY <2>2, <2>3
  <2> QED BY <2>2, <2>3, <2>4 DEF Sends
<1>2. CASE socket[c] # "open"
  BY <1>2, UndisturbedSends DEF HangUp
<1> QED BY <1>1, <1>2

\* A step of a plugin on its client c.
Moves(c) ==
  /\ Sends(c)
  /\ \A d \in Connection \ {c} :
       /\ link'[d] = link[d] /\ closing'[d] = closing[d] /\ pending'[d] = pending[d]
       /\ claimed'[d] = claimed[d] /\ inbox'[d] = inbox[d]
  /\ \/ link'[c] \notin {"none", "connecting"}
     \/ /\ link[c] \in {"none", "connecting"} /\ claimed'[c] = claimed[c]
        /\ inbox'[c] = inbox[c] /\ frames'[c] = frames[c]

LEMMA MovesServed ==
  ASSUME TypeOK, \A d \in Connection : Served(d), NEW c \in Connection, Moves(c),
         Live(c)' => StandingOf(c)'
  PROVE  \A d \in Connection : Served(d)'
<1>1. routes' = routes /\ listeners' = listeners
  BY DEF Moves, Sends
<1>2. \A d \in Connection : HeldBy(d)' = HeldBy(d) /\ Listens(d)' = Listens(d)
  BY <1>1 DEF HeldBy, Listens
<1>3. ASSUME NEW d \in Connection, d # c PROVE Served(d)'
  <2>1. /\ link'[d] = link[d] /\ closing'[d] = closing[d] /\ pending'[d] = pending[d]
        /\ claimed'[d] = claimed[d] /\ inbox'[d] = inbox[d]
        /\ frames'[d] = frames[d] /\ socket'[d] = socket[d]
    BY <1>3 DEF Moves, Sends
  <2>2. OwnTokens(d)'
    BY <1>1, <1>2, <2>1 DEF Served, OwnTokens
  <2>3. Untouched(d)'
    BY <1>2, <2>1 DEF Served, Untouched
  <2>4. Live(d)' => StandingOf(d)'
    BY <1>2, <2>1 DEF Served, Live, StandingOf
  <2> QED BY <2>2, <2>3, <2>4 DEF Served
<1>4. Served(c)'
  <2>1. OwnTokens(c) /\ Untouched(c)
    BY DEF Served
  <2>2. ASSUME NEW i \in 1..Len(frames'[c]),
               frames'[c][i].type \in {"register", "unregister", "heartbeat"}
        PROVE  frames'[c][i].ownerToken \in TokensOf[c]
    <3>1. CASE frames'[c] = frames[c]
      BY <2>1, <2>2, <3>1 DEF OwnTokens
    <3>2. ASSUME NEW frame \in Frame, frames'[c] = Append(frames[c], frame),
                 frame.type \in {"register", "unregister", "heartbeat"} => frame.ownerToken \in TokensOf[c]
          PROVE  frames'[c][i].ownerToken \in TokensOf[c]
      <4>1. frames[c] \in Seq(Frame)
        BY DEF TypeOK
      <4>2. \/ i \in 1..Len(frames[c]) /\ frames'[c][i] = frames[c][i]
            \/ frames'[c][i] = frame
        BY <3>2, <4>1
      <4> QED BY <2>1, <2>2, <3>2, <4>2 DEF OwnTokens
    <3> QED BY <3>1, <3>2 DEF Moves, Sends
  <2>3. OwnTokens(c)'
    BY <1>1, <1>2, <2>1, <2>2 DEF OwnTokens
  <2>4. Untouched(c)'
    BY <1>2, <2>1 DEF Moves, Untouched
  <2> QED BY <2>3, <2>4 DEF Served
<1> QED BY <1>3, <1>4

\* Nothing happens on the connections.
LEMMA StillServed ==
  ASSUME \A d \in Connection : Served(d), UNCHANGED <<routes, listeners, frames, socket>>,
         UNCHANGED <<link, closing, pending, claimed, inbox>>
  PROVE  \A d \in Connection : Served(d)'
<1>1. ASSUME NEW d \in Connection PROVE Served(d)'
  <2>1. HeldBy(d)' = HeldBy(d) /\ Listens(d)' = Listens(d) /\ Served(d)
    BY DEF HeldBy, Listens
  <2>2. OwnTokens(d)' /\ Untouched(d)'
    BY <2>1 DEF Served, OwnTokens, Untouched
  <2>3. Live(d)' => StandingOf(d)'
    BY <2>1 DEF Served, Live, StandingOf
  <2> QED BY <2>2, <2>3 DEF Served
<1> QED BY <1>1

\* close() makes its client one that is not live.
LEMMA CloseMoves ==
  ASSUME SInv, NEW p \in Plugin, NEW c \in ClientsOf(p), NEW claims \in SUBSET Hostname, NEW rest,
         Close(c, p, claims, rest),
         \A d \in Connection \ {c} : claimed'[d] = claimed[d] /\ inbox'[d] = inbox[d],
         link[c] \in {"none", "connecting"} => claimed'[c] = claimed[c] /\ inbox'[c] = inbox[c]
  PROVE  Moves(c) /\ ~Live(c)'
<1>1. TypeOK /\ ClientTypeOK /\ c \in Connection /\ link[c] \in Link
  BY Known
<1>2. closing' = [closing EXCEPT ![c] = TRUE]
  BY DEF Close
<1>3. closing'[c] /\ \A d \in Connection \ {c} : closing'[d] = closing[d]
  BY <1>1, <1>2 DEF ClientTypeOK
<1>4. /\ Sends(c)
      /\ \A d \in Connection \ {c} : link'[d] = link[d] /\ pending'[d] = pending[d]
      /\ link'[c] \in {"unregistering", "ending"} \/ (link'[c] = link[c] /\ frames' = frames)
  <2>1. CASE link[c] = "connected" /\ claims # {}
    <3>1. link' = [link EXCEPT ![c] = "unregistering"] /\ Request(c, p, "unregister", claims, rest)
      BY <2>1 DEF Close
    <3>2. Sends(c)
      BY <1>1, <3>1, RequestSends
    <3>3. pending' = [pending EXCEPT ![c] = Append(rest, [type |-> "unregister", hostnames |-> claims])]
      BY <3>1 DEF Request
    <3> QED BY <1>1, <3>1, <3>2, <3>3 DEF ClientTypeOK
  <2>2. CASE link[c] = "connected" /\ claims = {}
    <3>1. /\ link' = [link EXCEPT ![c] = "ending"] /\ pending' = [pending EXCEPT ![c] = rest]
          /\ HangUp(c)
      BY <2>2 DEF Close
    <3> QED BY <1>1, <3>1, HangUpSends DEF ClientTypeOK
  <2>3. CASE link[c] # "connected"
    <3>1. pending' = [pending EXCEPT ![c] = <<>>] /\ link' = link /\ ServerUndisturbed
      BY <2>3 DEF Close
    <3> QED BY <1>1, <3>1, UndisturbedSends DEF ClientTypeOK
  <2> QED BY <2>1, <2>2, <2>3
<1>5. Moves(c)
  BY <1>1, <1>3, <1>4 DEF Moves, Link
<1> QED BY <1>3, <1>5 DEF Live

-----------------------------------------------------------------------------
(* The task's plugin, its server and its client.                           *)

LEMMA KnownServed ==
  ASSUME CInv, NEW p \in Plugin, NEW c \in ClientsOf(p)
  PROVE  /\ SInv /\ TypeOK /\ c \in Connection /\ Served(c) /\ SetupClient(p)
         /\ \A d \in Connection : Served(d)
         /\ frames[c] \in Seq(Frame)
<1>1. c \in Connection /\ TypeOK
  BY Known DEF CInv
<1> QED BY <1>1 DEF CInv, TypeOK

\* The task's plugin and its clients.
LEMMA StartServed ==
  ASSUME CInv, NEW p \in Plugin, Start(p) \/ Retry(p) \/ InfrastructureFails(p)
  PROVE  \A d \in Connection : Served(d)'
<1>1. ServerUndisturbed /\ UNCHANGED clientVars
  BY DEF Start, Retry, InfrastructureFails
<1>2. UNCHANGED <<routes, listeners, frames, socket>>
  BY <1>1 DEF ServerUndisturbed, registryVars, connectionVars
<1>3. UNCHANGED <<link, closing, pending, claimed, inbox>>
  BY <1>1 DEF clientVars
<1> QED BY <1>2, <1>3, StillServed DEF CInv

LEMMA InfrastructureReadyServed ==
  ASSUME CInv, NEW p \in Plugin, InfrastructureReady(p)
  PROVE  \A d \in Connection : Served(d)'
<1>1. /\ UNCHANGED <<routes, listeners, frames, socket>>
      /\ UNCHANGED <<closing, pending, claimed, inbox>>
  BY DEF InfrastructureReady, registryVars, connectionVars
<1>2. TypeOK /\ ClientTypeOK
  BY Known DEF CInv
<1>3. CASE link' = link
  BY <1>1, <1>3, StillServed DEF CInv
<1>4. ASSUME NEW c \in Unused(p), Set(link, c, "connecting")
      PROVE  \A d \in Connection : Served(d)'
  <2>1. c \in Connection /\ link[c] = "none" /\ link' = [link EXCEPT ![c] = "connecting"]
    BY <1>4 DEF Unused, ClientsOf, Set
  <2>2. link'[c] = "connecting" /\ \A d \in Connection \ {c} : link'[d] = link[d]
    BY <1>2, <2>1 DEF ClientTypeOK
  <2>3. Moves(c)
    BY <1>1, <2>1, <2>2 DEF Moves, Sends
  <2>4. ~Live(c)'
    BY <2>2 DEF Live
  <2> QED BY <1>2, <2>1, <2>3, <2>4, MovesServed DEF CInv
<1>5. Unused(p) # {} => (CHOOSE c \in Unused(p) : TRUE) \in Unused(p)
  OBVIOUS
<1> QED BY <1>3, <1>4, <1>5 DEF InfrastructureReady

LEMMA ConnectedServed ==
  ASSUME CInv, NEW p \in Plugin, Connected(p), NEW c, c = candidate[p]
  PROVE  \A d \in Connection : Served(d)'
<1> DEFINE request == [type |-> "register", hostnames |-> owned[p]]
           frame == [type |-> "register", ownerToken |-> p, hostnames |-> owned[p]]
<1>1. SInv /\ SessionTypeOK /\ TypeOK /\ ClientTypeOK /\ PluginTypes /\ Awaits(p, "connect")
  BY Known DEF CInv, Connected
<1>2. /\ c \in ClientsOf(p) /\ c \in Connection /\ link[c] = "connecting"
      /\ owned[p] \in SUBSET Hostname
  BY <1>1, Known, CandidateOf, Same DEF LinksFit
<1>3. /\ link' = [link EXCEPT ![c] = "connected"] /\ claimed' = claimed /\ inbox' = inbox
      /\ closing' = closing /\ Request(c, p, "register", owned[p], <<>>)
  BY DEF Connected, Set
<1>4. /\ Sends(c) /\ socket' = socket /\ frame \in Frame
      /\ socket[c] = "open" => frames'[c] = Append(frames[c], frame)
  BY <1>1, <1>2, <1>3, RequestSends
<1>5. pending' = [pending EXCEPT ![c] = Append(<<>>, request)] /\ request \in PendingRequest
  BY <1>2, <1>3 DEF Request, PendingRequest
<1>6. /\ link'[c] = "connected" /\ pending'[c] = <<request>>
      /\ \A d \in Connection \ {c} : link'[d] = link[d] /\ pending'[d] = pending[d]
  BY <1>1, <1>2, <1>3, <1>5 DEF ClientTypeOK
<1>7. Moves(c)
  BY <1>3, <1>4, <1>6 DEF Moves
<1>8. /\ claimed[c] = {} /\ inbox[c] = <<>> /\ frames[c] = <<>> /\ HeldBy(c) = {} /\ Listens(c) = FALSE
      /\ \A d \in Connection : Served(d)
  BY <1>2 DEF CInv, Served, Untouched, Listens
<1>9. HeldBy(c)' = {} /\ Listens(c)' = FALSE
  BY <1>4, <1>8 DEF HeldBy, Listens, Sends
<1>10. ASSUME Live(c)' PROVE StandingOf(c)'
  <2>1. frames'[c] = <<frame>>
    <3>1. socket[c] = "open"
      BY <1>4, <1>10 DEF Live
    <3>2. Append(<<>>, frame) = <<frame>>
      OBVIOUS
    <3> HIDE DEF frame
    <3> QED BY <1>4, <1>8, <3>1, <3>2
  <2>2. Standing(pending'[c], frames'[c], inbox'[c], {}, {}, FALSE)
    <3>1. request.type = "register" /\ frame.type = "register"
      OBVIOUS
    <3>2. inbox'[c] = <<>>
      BY <1>3, <1>8
    <3> HIDE DEF request, frame
    <3> QED BY <1>4, <1>5, <1>6, <2>1, <3>1, <3>2, StandingBegins
  <2> QED BY <1>3, <1>8, <1>9, <2>2 DEF StandingOf
<1> QED BY <1>1, <1>2, <1>7, <1>8, <1>10, MovesServed

\* The client is severed from the server.
LEMMA SeveredServed ==
  ASSUME CInv, NEW c \in Connection, Severed(c), claimed' = claimed, closing' = closing
  PROVE  \A d \in Connection : Served(d)'
<1>1. TypeOK /\ ClientTypeOK
  BY TypesSplit DEF CInv, SInv
<1>2. /\ link' = [link EXCEPT ![c] = "gone"] /\ pending' = [pending EXCEPT ![c] = <<>>]
      /\ inbox' = [inbox EXCEPT ![c] = <<>>] /\ ServerUndisturbed
  BY DEF Severed, Set
<1>3. /\ link'[c] = "gone"
      /\ \A d \in Connection \ {c} :
           link'[d] = link[d] /\ pending'[d] = pending[d] /\ inbox'[d] = inbox[d]
  BY <1>1, <1>2 DEF ClientTypeOK
<1>4. Moves(c) /\ ~Live(c)'
  BY <1>2, <1>3, UndisturbedSends DEF Moves, Live
<1> QED BY <1>1, <1>4, MovesServed DEF CInv

\* register() of the candidate fails.
LEMMA RegisterFailsServed ==
  ASSUME CInv, NEW p \in Plugin, Awaits(p, "register"), NEW c, c = candidate[p],
         NEW rest, FailsWith(p, rest),
         claimed' = claimed, \A d \in Connection \ {c} : inbox'[d] = inbox[d]
  PROVE  \A d \in Connection : Served(d)'
<1>1. SInv /\ TypeOK /\ ClientTypeOK /\ LinksFit(p)
  BY Known DEF CInv
<1>2. c \in ClientsOf(p) /\ c \in Connection /\ link[c] \notin {"none", "connecting"}
      /\ claimed[c] \in SUBSET Hostname
  BY <1>1, Known, CandidateOf DEF LinksFit
<1>3. CASE /\ task[p] = "setup" /\ shuttingDown[p]
           /\ pending' = [pending EXCEPT ![c] = rest]
           /\ ServerUndisturbed /\ UNCHANGED <<link, closing>>
  <2>1. pending' = [pending EXCEPT ![c] = rest] /\ ServerUndisturbed /\ link' = link /\ closing' = closing
    BY <1>3
  <2>2. closing[c]
    BY <1>3 DEF CInv, SetupClient, Awaits
  <2>3. \A d \in Connection \ {c} : pending'[d] = pending[d]
    BY <1>1, <2>1 DEF ClientTypeOK
  <2>4. Moves(c) /\ ~Live(c)'
    <3>1. Sends(c) /\ link'[c] = link[c] /\ closing'[c]
      BY <2>1, <2>2, UndisturbedSends
    <3> QED BY <1>2, <2>1, <2>3, <3>1 DEF Moves, Live
  <2> QED BY <1>1, <1>2, <2>4, MovesServed DEF CInv
<1>4. CASE Close(c, p, claimed[c], rest)
  <2>1. Moves(c) /\ ~Live(c)'
    BY <1>1, <1>2, <1>4, CloseMoves
  <2> QED BY <1>1, <1>2, <2>1, MovesServed DEF CInv
<1> QED BY <1>3, <1>4 DEF FailsWith

-----------------------------------------------------------------------------
(* What a client hears.                                                    *)

\* A client handles what it has read, or asks again: what it awaits and what it
\* claims may change, and what it still has to read.
LEMMA HandledServed ==
  ASSUME CInv, NEW c \in Connection, Sends(c), socket' = socket,
         link[c] \notin {"none", "connecting"}, link' = link, closing' = closing,
         \A d \in Connection \ {c} :
           pending'[d] = pending[d] /\ claimed'[d] = claimed[d] /\ inbox'[d] = inbox[d],
         Live(c) => Standing(pending'[c], frames'[c], inbox'[c], HeldBy(c), claimed'[c], Listens(c))
  PROVE  \A d \in Connection : Served(d)'
<1>1. TypeOK
  BY TypesSplit DEF CInv, SInv
<1>2. Moves(c)
  BY DEF Moves
<1>3. HeldBy(c)' = HeldBy(c) /\ Listens(c)' = Listens(c)
  BY DEF Sends, HeldBy, Listens
<1>4. Live(c)' => StandingOf(c)'
  BY <1>3 DEF Live, StandingOf
<1> QED BY <1>1, <1>2, <1>4, MovesServed DEF CInv

\* The client reads an answer and the losses that share its chunk.
LEMMA ChunkStands ==
  ASSUME CInv, NEW p \in Plugin, NEW c \in ClientsOf(p), NEW n, AnswerChunk(c, n), Live(c)
  PROVE  /\ pending[c] # <<>> /\ Head(pending[c]) = pending[c][1]
         /\ AnswerFits(pending[c][1], Head(inbox[c]), HeldBy(c))
         /\ LostIn(c, n) \cap HeldBy(c) = {}
         /\ Registering(pending[c]) \/ HeldBy(c) \subseteq claimed[c]
         /\ \A new : HeldBy(c) \subseteq new
              => Standing(Tail(pending[c]), frames[c], inbox'[c], HeldBy(c), new, Listens(c))
<1>1. /\ pending[c] \in Seq(PendingRequest) /\ inbox[c] \in Seq(ServerMessage) /\ ClientTypeOK
      /\ frames[c] \in Seq(Frame) /\ c \in Connection
      /\ Standing(pending[c], frames[c], inbox[c], HeldBy(c), claimed[c], Listens(c))
  BY Known, KnownServed DEF CInv, Served, StandingOf
<1>2. /\ n \in 0..(Len(inbox[c]) - 1) /\ ~IsLoss(Head(inbox[c]))
      /\ \A i \in 2..(n + 1) : IsLoss(inbox[c][i])
      /\ inbox' = [inbox EXCEPT ![c] = SubSeq(inbox[c], n + 2, Len(inbox[c]))]
  BY DEF AnswerChunk
<1>3. inbox'[c] = SubSeq(inbox[c], n + 2, Len(inbox[c]))
  BY <1>1, <1>2 DEF ClientTypeOK
<1>4. /\ pending[c] # <<>> /\ Head(pending[c]) = pending[c][1] /\ Head(inbox[c]) = inbox[c][1]
      /\ AnswerFits(pending[c][1], inbox[c][1], HeldBy(c))
      /\ \A i \in 2..(n + 1) : inbox[c][i].hostnames \cap HeldBy(c) = {}
      /\ \A new : HeldBy(c) \subseteq new
           => Standing(Tail(pending[c]), frames[c], SubSeq(inbox[c], n + 2, Len(inbox[c])), HeldBy(c),
                       new, Listens(c))
  BY <1>1, <1>2, StandingChunk
<1>5. LostIn(c, n) \cap HeldBy(c) = {}
  BY <1>4 DEF LostIn
<1>6. Registering(pending[c]) \/ HeldBy(c) \subseteq claimed[c]
  BY <1>1 DEF Standing
<1> QED BY <1>3, <1>4, <1>5, <1>6

LEMMA RegisterAnsweredServed ==
  ASSUME CInv, NEW p \in Plugin, NEW c, c = candidate[p], NEW n, RegisterAnswered(p, n)
  PROVE  \A d \in Connection : Served(d)'
<1> DEFINE claims == ClaimedAfterRegistered(c, n)
<1>1. /\ Awaits(p, "register") /\ AnswerChunk(c, n) /\ pending[c] # <<>>
      /\ Head(pending[c]).type = "register" /\ Head(inbox[c]).type = "registered"
      /\ claimed' = [claimed EXCEPT ![c] = claims]
      /\ AdoptOrRelease(p, c, claims)
  BY DEF RegisterAnswered, Set, Answers
<1>2. /\ SInv /\ TypeOK /\ ClientTypeOK /\ LinksFit(p)
      /\ c \in ClientsOf(p) /\ c \in Connection /\ claimed[c] \in SUBSET Hostname
  BY <1>1, Known, CandidateOf DEF CInv
<1>3. link[c] \notin {"none", "connecting"}
  BY <1>1, <1>2 DEF LinksFit
<1>4. inbox' = [inbox EXCEPT ![c] = SubSeq(inbox[c], n + 2, Len(inbox[c]))]
  BY <1>1 DEF AnswerChunk
<1>5. /\ claimed'[c] = claims
      /\ \A d \in Connection \ {c} : claimed'[d] = claimed[d] /\ inbox'[d] = inbox[d]
  <2> HIDE DEF claims
  <2> QED BY <1>1, <1>2, <1>4 DEF ClientTypeOK
<1>6. claims \in SUBSET Hostname
  BY <1>1, <1>2, ChunkTypes DEF ClaimedAfterRegistered
<1>7. CASE /\ pending' = [pending EXCEPT ![c] = Tail(pending[c])]
           /\ ServerUndisturbed /\ link' = link /\ closing' = closing
  <2>1. pending'[c] = Tail(pending[c]) /\ \A d \in Connection \ {c} : pending'[d] = pending[d]
    BY <1>2, <1>7 DEF ClientTypeOK
  <2>2. ASSUME Live(c)
        PROVE  Standing(pending'[c], frames'[c], inbox'[c], HeldBy(c), claimed'[c], Listens(c))
    <3>1. /\ Head(pending[c]) = pending[c][1]
          /\ AnswerFits(pending[c][1], Head(inbox[c]), HeldBy(c))
          /\ \A new : HeldBy(c) \subseteq new
               => Standing(Tail(pending[c]), frames[c], inbox'[c], HeldBy(c), new, Listens(c))
      BY <1>1, <1>2, <2>2, ChunkStands
    <3>2. HeldBy(c) \subseteq claims
      BY <1>1, <3>1 DEF AnswerFits, ClaimedAfterRegistered
    <3>3. frames' = frames
      BY <1>7, UndisturbedSends
    <3> HIDE DEF claims
    <3> QED BY <1>5, <2>1, <3>1, <3>2, <3>3
  <2>3. Sends(c) /\ socket' = socket
    BY <1>7, UndisturbedSends
  <2> HIDE DEF claims
  <2> QED BY <1>2, <1>3, <1>5, <1>7, <2>1, <2>2, <2>3, HandledServed
<1>8. CASE Close(c, p, claims, Tail(pending[c]))
  <2> HIDE DEF claims
  <2>1. Moves(c) /\ ~Live(c)'
    BY <1>2, <1>3, <1>5, <1>6, <1>8, CloseMoves
  <2> QED BY <1>2, <2>1, MovesServed DEF CInv
<1> QED BY <1>1, <1>7, <1>8 DEF AdoptOrRelease, Adopt, Set

LEMMA RefusedServed ==
  ASSUME CInv, NEW p \in Plugin, NEW n, Refused(p, n)
  PROVE  \A d \in Connection : Served(d)'
<1> PICK c : c = candidate[p]
  OBVIOUS
<1>1. /\ Awaits(p, "register") /\ AnswerChunk(c, n) /\ FailsWith(p, Tail(pending[c]))
      /\ claimed' = claimed
  BY DEF Refused, RegisterFails, FailsWith, Set
<1>2. SInv /\ ClientTypeOK /\ c \in Connection
  BY <1>1, Known, CandidateOf DEF CInv
<1>3. \A d \in Connection \ {c} : inbox'[d] = inbox[d]
  BY <1>1, <1>2 DEF AnswerChunk, ClientTypeOK
<1> QED BY <1>1, <1>3, RegisterFailsServed

LEMMA BeatServed ==
  ASSUME CInv, NEW p \in Plugin, Beat(p)
  PROVE  \A d \in Connection : Served(d)'
<1> PICK c : c = client[p]
  OBVIOUS
<1> DEFINE request == [type |-> "heartbeat", hostnames |-> claimed[c]]
           frame == [type |-> "heartbeat", ownerToken |-> p, hostnames |-> claimed[c]]
<1>1. /\ c # NoClient /\ link[c] = "connected" /\ claimed[c] # {}
      /\ Request(c, p, "heartbeat", claimed[c], pending[c])
      /\ link' = link /\ claimed' = claimed /\ inbox' = inbox /\ closing' = closing
  BY DEF Beat
<1>2. SInv /\ TypeOK /\ ClientTypeOK /\ OwnClients(p)
  BY Known DEF CInv
<1>3. c \in ClientsOf(p)
  BY <1>1, <1>2 DEF OwnClients
<1>4. /\ c \in Connection /\ claimed[c] \in SUBSET Hostname /\ pending[c] \in Seq(PendingRequest)
      /\ inbox[c] \in Seq(ServerMessage) /\ frames[c] \in Seq(Frame) /\ Served(c)
  BY <1>2, <1>3, Known, KnownServed
<1>5. /\ Sends(c) /\ socket' = socket /\ frame \in Frame
      /\ socket[c] = "open" => frames'[c] = Append(frames[c], frame)
  BY <1>1, <1>2, <1>3, <1>4, RequestSends
<1>6. pending' = [pending EXCEPT ![c] = Append(pending[c], request)] /\ request \in PendingRequest
  BY <1>1, <1>4 DEF Request, PendingRequest
<1>7. /\ pending'[c] = Append(pending[c], request)
      /\ \A d \in Connection \ {c} : pending'[d] = pending[d]
  <2> HIDE DEF request
  <2> QED BY <1>2, <1>4, <1>6 DEF ClientTypeOK
<1>8. request.type = "heartbeat" /\ frame.type = "heartbeat" /\ frame.hostnames = request.hostnames
  OBVIOUS
<1> HIDE DEF request, frame
<1>9. ASSUME Live(c)
      PROVE  Standing(pending'[c], frames'[c], inbox'[c], HeldBy(c), claimed'[c], Listens(c))
  <2>1. frames'[c] = Append(frames[c], frame)
    BY <1>5, <1>9 DEF Live
  <2>2. Standing(pending[c], frames[c], inbox[c], HeldBy(c), claimed[c], Listens(c))
    BY <1>4, <1>9 DEF Served, StandingOf
  <2>3. Standing(Append(pending[c], request), Append(frames[c], frame), inbox[c], HeldBy(c), claimed[c], Listens(c))
    BY <1>1, <1>4, <1>5, <1>6, <1>8, <2>2, StandingRequest
  <2> QED BY <1>1, <1>7, <2>1, <2>3
<1> QED BY <1>1, <1>4, <1>5, <1>7, <1>9, HandledServed

LEMMA HeartbeatAnsweredServed ==
  ASSUME CInv, NEW p \in Plugin, NEW c \in ClientsOf(p), NEW n, HeartbeatAnswered(p, c, n)
  PROVE  \A d \in Connection : Served(d)'
<1> DEFINE claims == claimed[c] \ (LostIn(c, n) \cup Unconfirmed(c))
<1>1. /\ AnswerChunk(c, n) /\ Attached(c) /\ pending[c] # <<>>
      /\ Head(pending[c]).type \in {"heartbeat", "abandoned"}
      /\ claimed' = [claimed EXCEPT ![c] = claims]
      /\ pending' = [pending EXCEPT ![c] = Tail(pending[c])]
      /\ ServerUndisturbed /\ link' = link /\ closing' = closing
      /\ inbox' = [inbox EXCEPT ![c] = SubSeq(inbox[c], n + 2, Len(inbox[c]))]
  BY DEF HeartbeatAnswered, DropUnconfirmed, Answers, Set, AnswerChunk
<1>2. SInv /\ TypeOK /\ ClientTypeOK /\ c \in Connection
  BY Known DEF CInv
<1>3. link[c] \notin {"none", "connecting"}
  BY <1>1 DEF Attached
<1>4. claimed'[c] = claims /\ pending'[c] = Tail(pending[c])
  <2> HIDE DEF claims
  <2> QED BY <1>1, <1>2 DEF ClientTypeOK
<1>5. \A d \in Connection \ {c} :
        pending'[d] = pending[d] /\ claimed'[d] = claimed[d] /\ inbox'[d] = inbox[d]
  <2> HIDE DEF claims
  <2> QED BY <1>1, <1>2 DEF ClientTypeOK
<1>6. Sends(c) /\ socket' = socket /\ frames' = frames
  BY <1>1, UndisturbedSends
<1>7. ASSUME Live(c)
      PROVE  Standing(pending'[c], frames'[c], inbox'[c], HeldBy(c), claimed'[c], Listens(c))
  <2>1. /\ Head(pending[c]) = pending[c][1]
        /\ AnswerFits(pending[c][1], Head(inbox[c]), HeldBy(c))
        /\ LostIn(c, n) \cap HeldBy(c) = {}
        /\ Registering(pending[c]) \/ HeldBy(c) \subseteq claimed[c]
        /\ \A new : HeldBy(c) \subseteq new
             => Standing(Tail(pending[c]), frames[c], inbox'[c], HeldBy(c), new, Listens(c))
    BY <1>1, <1>7, ChunkStands
  <2>2. ~Registering(pending[c])
    BY <1>1 DEF Registering
  <2>3. Unconfirmed(c) \cap HeldBy(c) = {}
    BY <1>1, <2>1 DEF Unconfirmed, Answers, AnswerFits
  <2>4. HeldBy(c) \subseteq claims
    BY <2>1, <2>2, <2>3
  <2> HIDE DEF claims
  <2> QED BY <1>4, <1>6, <2>1, <2>4
<1> HIDE DEF claims
<1> QED BY <1>1, <1>2, <1>3, <1>5, <1>6, <1>7, HandledServed

LEMMA RouteLostServed ==
  ASSUME CInv, NEW p \in Plugin, NEW c \in ClientsOf(p), RouteLost(p, c)
  PROVE  \A d \in Connection : Served(d)'
<1> DEFINE claims == claimed[c] \ Head(inbox[c]).hostnames
<1>1. /\ Attached(c) /\ inbox[c] # <<>> /\ IsLoss(Head(inbox[c]))
      /\ claimed' = [claimed EXCEPT ![c] = claims]
      /\ inbox' = [inbox EXCEPT ![c] = Tail(inbox[c])] /\ pending' = pending
      /\ ServerUndisturbed /\ link' = link /\ closing' = closing
  BY DEF RouteLost, Set
<1>2. SInv /\ TypeOK /\ ClientTypeOK /\ c \in Connection
  BY Known DEF CInv
<1>3. link[c] \notin {"none", "connecting"}
  BY <1>1 DEF Attached
<1>4. claimed'[c] = claims /\ inbox'[c] = Tail(inbox[c])
  <2> HIDE DEF claims
  <2> QED BY <1>1, <1>2 DEF ClientTypeOK
<1>5. \A d \in Connection \ {c} : claimed'[d] = claimed[d] /\ inbox'[d] = inbox[d]
  <2> HIDE DEF claims
  <2> QED BY <1>1, <1>2 DEF ClientTypeOK
<1>6. Sends(c) /\ socket' = socket /\ frames' = frames
  BY <1>1, UndisturbedSends
<1>7. ASSUME Live(c)
      PROVE  Standing(pending'[c], frames'[c], inbox'[c], HeldBy(c), claimed'[c], Listens(c))
  <2>1. /\ pending[c] \in Seq(PendingRequest) /\ inbox[c] \in Seq(ServerMessage) /\ frames[c] \in Seq(Frame)
        /\ Standing(pending[c], frames[c], inbox[c], HeldBy(c), claimed[c], Listens(c))
    BY <1>2, <1>7, Known, KnownServed DEF Served, StandingOf
  <2>2. Standing(pending[c], frames[c], Tail(inbox[c]), HeldBy(c), claims, Listens(c))
    BY <1>1, <2>1, StandingLoss
  <2> HIDE DEF claims
  <2> QED BY <1>1, <1>4, <1>6, <2>2
<1> HIDE DEF claims
<1> QED BY <1>1, <1>2, <1>3, <1>5, <1>6, <1>7, HandledServed

\* The unregister of close() is settled: the client is no longer connected.
LEMMA EndAfterUnregisterServed ==
  ASSUME CInv, NEW p \in Plugin, NEW c \in ClientsOf(p), NEW rest, EndAfterUnregister(c, rest),
         closing' = closing,
         \A d \in Connection \ {c} : claimed'[d] = claimed[d] /\ inbox'[d] = inbox[d]
  PROVE  \A d \in Connection : Served(d)'
<1>1. SInv /\ TypeOK /\ ClientTypeOK /\ c \in Connection
  BY Known DEF CInv
<1>2. /\ link' = [link EXCEPT ![c] = "ending"] /\ pending' = [pending EXCEPT ![c] = rest] /\ HangUp(c)
  BY DEF EndAfterUnregister
<1>3. /\ link'[c] = "ending"
      /\ \A d \in Connection \ {c} : link'[d] = link[d] /\ pending'[d] = pending[d]
  BY <1>1, <1>2 DEF ClientTypeOK
<1>4. Moves(c) /\ ~Live(c)'
  BY <1>1, <1>2, <1>3, HangUpSends DEF Moves, Live
<1> QED BY <1>1, <1>4, MovesServed DEF CInv

LEMMA UnregisterAnsweredServed ==
  ASSUME CInv, NEW p \in Plugin, NEW c \in ClientsOf(p), NEW n, UnregisterAnswered(p, c, n)
  PROVE  \A d \in Connection : Served(d)'
<1>1. ClientTypeOK /\ c \in Connection
  BY Known DEF CInv
<1>2. PICK claims : claimed' = [claimed EXCEPT ![c] = claims]
  BY DEF UnregisterAnswered, Set
<1>3. \A d \in Connection \ {c} : claimed'[d] = claimed[d] /\ inbox'[d] = inbox[d]
  BY <1>1, <1>2 DEF UnregisterAnswered, AnswerChunk, ClientTypeOK
<1>4. EndAfterUnregister(c, Tail(pending[c])) /\ closing' = closing
  BY DEF UnregisterAnswered
<1> QED BY <1>3, <1>4, EndAfterUnregisterServed

LEMMA TimesOutServed ==
  ASSUME CInv, NEW p \in Plugin, NEW c \in ClientsOf(p), TimesOut(p, c)
  PROVE  \A d \in Connection : Served(d)'
<1>1. /\ SInv /\ SessionTypeOK /\ TypeOK /\ ClientTypeOK /\ RegisterAwaited(p)
      /\ pending[c] \in Seq(PendingRequest) /\ c \in Connection /\ closing[c] \in BOOLEAN
      /\ PendingFits(pending[c], closing[c]) /\ ClientFits(c)
  BY Known DEF CInv
<1>2. PICK i \in 1..Len(pending[c]) :
        /\ \/ /\ pending[c][i].type = "register"
              /\ FailsWith(p, [pending[c] EXCEPT ![i].type = "abandoned"])
           \/ /\ pending[c][i].type = "unregister"
              /\ EndAfterUnregister(c, [pending[c] EXCEPT ![i].type = "abandoned"])
              /\ closing' = closing
           \/ /\ pending[c][i].type = "heartbeat"
              /\ pending' = [pending EXCEPT ![c] = [pending[c] EXCEPT ![i].type = "abandoned"]]
              /\ ServerUndisturbed /\ link' = link /\ closing' = closing
        /\ claimed' = claimed /\ inbox' = inbox
  BY DEF TimesOut, RegisterFails, FailsWith, Set
<1>3. pending[c] # <<>> /\ Head(pending[c]) = pending[c][1] /\ 1 \in 1..Len(pending[c])
  BY <1>1
<1>4. CASE pending[c][i].type = "register"
  <2>1. i = 1
    BY <1>1, <1>4 DEF PendingFits
  <2>2. Awaits(p, "register") /\ c = candidate[p]
    BY <1>1, <1>3, <1>4, <2>1 DEF RegisterAwaited
  <2> DEFINE rest == [pending[c] EXCEPT ![i].type = "abandoned"]
  <2>3. FailsWith(p, rest)
    BY <1>2, <1>4
  <2> HIDE DEF rest
  <2> QED BY <1>2, <2>2, <2>3, RegisterFailsServed
<1>5. CASE pending[c][i].type = "unregister"
  <2> DEFINE rest == [pending[c] EXCEPT ![i].type = "abandoned"]
  <2>1. EndAfterUnregister(c, rest) /\ closing' = closing
    BY <1>2, <1>5
  <2> HIDE DEF rest
  <2> QED BY <1>2, <2>1, EndAfterUnregisterServed
<1>6. CASE pending[c][i].type = "heartbeat"
  <2> DEFINE rest == [pending[c] EXCEPT ![i].type = "abandoned"]
  <2>1. /\ pending' = [pending EXCEPT ![c] = rest] /\ ServerUndisturbed /\ link' = link
        /\ closing' = closing
    BY <1>2, <1>6
  <2>2. /\ Live(c) => /\ Standing(pending[c], frames[c], inbox[c], HeldBy(c), claimed[c], Listens(c))
                      /\ inbox[c] \in Seq(ServerMessage) /\ frames[c] \in Seq(Frame)
    BY <1>1, Known, KnownServed DEF Served, StandingOf
  <2>3. Live(c) => Standing(rest, frames[c], inbox[c], HeldBy(c), claimed[c], Listens(c))
    BY <1>1, <1>6, <2>2, StandingAbandon
  <2> HIDE DEF rest
  <2>4. pending'[c] = rest /\ \A d \in Connection \ {c} : pending'[d] = pending[d]
    BY <1>1, <2>1 DEF ClientTypeOK
  <2>5. link[c] \notin {"none", "connecting"}
    BY <1>1, <1>3 DEF ClientFits
  <2>6. Sends(c) /\ socket' = socket /\ frames' = frames
    BY <2>1, UndisturbedSends
  <2>7. Live(c) => Standing(pending'[c], frames'[c], inbox'[c], HeldBy(c), claimed'[c], Listens(c))
    BY <1>2, <2>3, <2>4, <2>6
  <2>8. \A d \in Connection \ {c} :
          pending'[d] = pending[d] /\ claimed'[d] = claimed[d] /\ inbox'[d] = inbox[d]
    BY <1>2, <2>4
  <2> QED BY <1>1, <2>1, <2>5, <2>6, <2>7, <2>8, HandledServed
<1> QED BY <1>2, <1>4, <1>5, <1>6

LEMMA LoseServed ==
  ASSUME CInv, NEW p \in Plugin, NEW c \in ClientsOf(p), Lose(p, c)
  PROVE  \A d \in Connection : Served(d)'
<1>1. c \in Connection
  BY Known DEF CInv
<1>2. Severed(c) /\ claimed' = claimed /\ closing' = closing
  BY DEF Lose, Disconnected, Ended
<1> QED BY <1>1, <1>2, SeveredServed

LEMMA ConnectFailsServed ==
  ASSUME CInv, NEW p \in Plugin, ConnectFails(p)
  PROVE  \A d \in Connection : Served(d)'
<1> PICK c : c = candidate[p]
  OBVIOUS
<1>1. c \in Connection
  BY Known, CandidateOf DEF CInv, ConnectFails
<1>2. Severed(c) /\ claimed' = claimed /\ closing' = closing
  BY DEF ConnectFails
<1> QED BY <1>1, <1>2, SeveredServed

LEMMA CloseServerServed ==
  ASSUME CInv, NEW p \in Plugin, CloseServer(p)
  PROVE  \A d \in Connection : Served(d)'
<1> PICK c : c = client[p]
  OBVIOUS
<1>1. SInv /\ TypeOK /\ OwnClients(p) /\ claimed' = claimed /\ inbox' = inbox
  BY Known DEF CInv, CloseServer
<1>2. CASE c = NoClient
  <2>1. ServerUndisturbed /\ link' = link /\ pending' = pending /\ closing' = closing
    BY <1>2 DEF CloseServer
  <2>2. UNCHANGED <<routes, listeners, frames, socket>>
    BY <2>1 DEF ServerUndisturbed, registryVars, connectionVars
  <2> QED BY <1>1, <2>1, <2>2, StillServed DEF CInv
<1>3. CASE c # NoClient
  <2>1. c \in ClientsOf(p)
    BY <1>1, <1>3 DEF OwnClients
  <2>2. c \in Connection /\ claimed[c] \in SUBSET Hostname
    BY <1>1, <2>1, Known
  <2>3. Close(c, p, claimed[c], pending[c])
    BY <1>3 DEF CloseServer
  <2>4. Moves(c) /\ ~Live(c)'
    BY <1>1, <2>1, <2>2, <2>3, CloseMoves
  <2> QED BY <1>1, <2>2, <2>4, MovesServed DEF CInv
<1> QED BY <1>2, <1>3

-----------------------------------------------------------------------------
(* The steps of the daemon.                                                *)

\* A step of the daemon on the client's side: what it wrote, it will read.
Writes(d) == /\ link'[d] = link[d] /\ closing'[d] = closing[d] /\ pending'[d] = pending[d]
               /\ claimed'[d] = claimed[d] /\ socket'[d] = socket[d]
               /\ inbox'[d] = inbox[d] \o sent'[d]

\* What another connection's turn does to d.
LEMMA BesideServed ==
  ASSUME SInv, NEW d \in Connection, Served(d), Writes(d), frames'[d] = frames[d],
         \A h \in HeldBy(d)' : h \in HeldBy(d) /\ routes'[h] = routes[h],
         Listens(d)' => Listens(d),
         sent'[d] \in Seq(ServerMessage),
         \/ sent'[d] = <<>>
         \/ /\ Listens(d) /\ Len(sent'[d]) = 1
            /\ IsLoss(sent'[d][1]) /\ sent'[d][1].hostnames \cap HeldBy(d)' = {}
  PROVE  Served(d)'
<1>1. /\ inbox[d] \in Seq(ServerMessage) /\ frames[d] \in Seq(Frame) /\ pending[d] \in Seq(PendingRequest)
  BY TypesSplit DEF SInv, TypeOK, ClientTypeOK
<1>2. /\ link'[d] = link[d] /\ closing'[d] = closing[d] /\ pending'[d] = pending[d]
      /\ claimed'[d] = claimed[d] /\ socket'[d] = socket[d]
      /\ inbox'[d] = inbox[d] \o sent'[d]
  BY DEF Writes
<1>3. OwnTokens(d) /\ Untouched(d) /\ HeldBy(d)' \subseteq HeldBy(d)
  BY DEF Served
<1>4. OwnTokens(d)'
  <2>1. \A h \in HeldBy(d)' : routes'[h].ownerToken \in TokensOf[d]
    BY <1>3 DEF OwnTokens
  <2> QED BY <1>2, <1>3, <2>1 DEF OwnTokens
<1>5. Untouched(d)'
  <2>1. ASSUME link[d] \in {"none", "connecting"}
        PROVE  /\ claimed'[d] = {} /\ inbox'[d] = <<>> /\ frames'[d] = <<>> /\ HeldBy(d)' = {}
               /\ ~Listens(d)'
    <3>1. claimed[d] = {} /\ inbox[d] = <<>> /\ frames[d] = <<>> /\ HeldBy(d) = {} /\ ~Listens(d)
      BY <1>3, <2>1 DEF Untouched
    <3>2. <<>> \o <<>> = <<>>
      OBVIOUS
    <3> QED BY <1>2, <1>3, <3>1, <3>2
  <2> QED BY <1>2, <2>1 DEF Untouched
<1>6. ASSUME Live(d)' PROVE StandingOf(d)'
  <2>1. Standing(pending[d], frames[d], inbox[d], HeldBy(d), claimed[d], Listens(d))
    BY <1>2, <1>6 DEF Live, Served, StandingOf
  <2>2. Standing(pending[d], frames[d], inbox[d] \o sent'[d], HeldBy(d)', claimed[d], Listens(d)')
    BY <1>1, <1>3, <2>1, StandingBeside
  <2> QED BY <1>2, <2>2 DEF StandingOf
<1> QED BY <1>4, <1>5, <1>6 DEF Served

\* What the answer to the oldest frame has to fit.
Due(c) == pending[c][Len(pending[c]) - Len(frames[c]) + 1]

\* The turn of c is over.  If c is live, it was a register or a heartbeat.
LEMMA TurnServed ==
  ASSUME SInv, NEW c \in Connection, Served(c), Writes(c), frames'[c] = Tail(frames[c]),
         frames[c] # <<>>,
         \A h \in HeldBy(c)' :
           \/ h \in HeldBy(c) /\ routes'[h] = routes[h]
           \/ routes'[h].ownerToken \in TokensOf[c],
         Live(c) =>
           /\ Head(frames[c]).type = "register"
                \/ (HeldBy(c)' = HeldBy(c) /\ Listens(c)' = Listens(c))
           /\ \E message \in ServerMessage :
                /\ sent'[c] = <<message>> /\ ~IsLoss(message)
                /\ SentFits(Due(c), Head(frames[c]), inbox[c], HeldBy(c), Listens(c))
                     => AnswerFits(Due(c), message, HeldBy(c)')
  PROVE  Served(c)'
<1>1. /\ inbox[c] \in Seq(ServerMessage) /\ frames[c] \in Seq(Frame) /\ pending[c] \in Seq(PendingRequest)
  BY TypesSplit DEF SInv, TypeOK, ClientTypeOK
<1>2. /\ link'[c] = link[c] /\ closing'[c] = closing[c] /\ pending'[c] = pending[c]
      /\ claimed'[c] = claimed[c] /\ socket'[c] = socket[c]
      /\ inbox'[c] = inbox[c] \o sent'[c]
  BY DEF Writes
<1>3. OwnTokens(c) /\ Untouched(c)
  BY DEF Served
<1>4. OwnTokens(c)'
  <2>1. /\ Len(frames'[c]) \in Nat
        /\ \A i \in 1..Len(frames'[c]) : frames'[c][i] = frames[c][i + 1] /\ i + 1 \in 1..Len(frames[c])
    BY <1>1, HeadTailProperties
  <2>2. \A i \in 1..Len(frames'[c]) :
          frames'[c][i].type \in {"register", "unregister", "heartbeat"}
            => frames'[c][i].ownerToken \in TokensOf[c]
    BY <1>3, <2>1 DEF OwnTokens
  <2>3. \A h \in HeldBy(c)' : routes'[h].ownerToken \in TokensOf[c]
    BY <1>3 DEF OwnTokens
  <2> QED BY <2>2, <2>3 DEF OwnTokens
<1>5. Untouched(c)'
  BY <1>2, <1>3 DEF Untouched
<1>6. ASSUME Live(c)' PROVE StandingOf(c)'
  <2>1. Live(c)
    BY <1>2, <1>6 DEF Live
  <2>2. Standing(pending[c], frames[c], inbox[c], HeldBy(c), claimed[c], Listens(c))
    BY <2>1 DEF Served, StandingOf
  <2>3. PICK message \in ServerMessage :
          /\ sent'[c] = <<message>> /\ ~IsLoss(message)
          /\ SentFits(Due(c), Head(frames[c]), inbox[c], HeldBy(c), Listens(c))
               => AnswerFits(Due(c), message, HeldBy(c)')
    BY <2>1
  <2>4. inbox'[c] = Append(inbox[c], message)
    BY <1>1, <1>2, <2>3
  <2>5. Head(frames[c]).type = "register" \/ (HeldBy(c)' = HeldBy(c) /\ Listens(c)' = Listens(c))
    BY <2>1
  <2>6. Standing(pending[c], Tail(frames[c]), Append(inbox[c], message), HeldBy(c)', claimed[c], Listens(c)')
    BY <1>1, <2>2, <2>3, <2>5, StandingReply DEF Due
  <2> QED BY <1>2, <2>4, <2>6 DEF StandingOf
<1> QED BY <1>4, <1>5, <1>6 DEF Served

\* What a turn may be, of a live connection.
LEMMA LiveTurn ==
  ASSUME SInv, NEW c \in Connection, Served(c), Live(c), frames[c] # <<>>
  PROVE  /\ Head(frames[c]).type \in {"register", "heartbeat"}
         /\ Head(frames[c]).type = "register" => HeldBy(c) = {} /\ ~Listens(c)
         /\ SentFits(Due(c), Head(frames[c]), inbox[c], HeldBy(c), Listens(c))
<1>1. frames[c] \in Seq(Frame)
  BY TypesSplit DEF SInv, TypeOK
<1>2. Head(frames[c]) = frames[c][1] /\ 1 \in 1..Len(frames[c])
  BY <1>1
<1>3. Standing(pending[c], frames[c], inbox[c], HeldBy(c), claimed[c], Listens(c))
  BY DEF Served, StandingOf
<1>4. SentFits(Due(c), Head(frames[c]), inbox[c], HeldBy(c), Listens(c))
  BY <1>2, <1>3 DEF Standing, Due
<1> QED BY <1>4 DEF SentFits

\* What the plugins' side of a daemon's step is.
LEMMA ServerStepWrites ==
  ASSUME SInv, NEW c \in Connection, ServerStep(c)
  PROVE  /\ \A d \in Connection : Writes(d)
         /\ sent' \in [Connection -> Seq(ServerMessage)]
<1>1. /\ inbox' = [d \in Connection |-> inbox[d] \o sent'[d]] /\ socket' = socket
      /\ link' = link /\ claimed' = claimed /\ pending' = pending /\ closing' = closing
  BY DEF ServerStep, BeginRegister, FinishRegister, FailRegister, Unregister, Heartbeat, CleanupConnection,
         connectionVars
<1>2. Process(c)
  BY DEF ServerStep, Process
<1>3. TypeOK'
  BY <1>2, TypeStep, TypesSplit DEF Next, SInv
<1> QED BY <1>1, <1>3 DEF Writes, TypeOK

LEMMA FinishFrames ==
  ASSUME TypeOK, NEW c \in Connection, Finish(c)
  PROVE  frames'[c] = Tail(frames[c]) /\ \A d \in Connection \ {c} : frames'[d] = frames[d]
BY DEF Finish, TypeOK

LEMMA ReplySent ==
  ASSUME NEW c \in Connection, NEW message, Reply(c, message)
  PROVE  /\ socket[c] = "open" => sent'[c] = <<message>>
         /\ \A d \in Connection \ {c} : sent'[d] = <<>>
BY DEF Reply, Written

LEMMA BeginRegisterServed ==
  ASSUME CInv, NEW c \in Connection, ServerStep(c), BeginRegister(c)
  PROVE  \A d \in Connection : Served(d)'
<1>1. /\ routes' = routes /\ listeners' = listeners /\ frames' = frames /\ sent' = Silence
  BY DEF BeginRegister, registryVars
<1>2. ASSUME NEW d \in Connection PROVE Served(d)'
  <2>1. SInv /\ Served(d) /\ Writes(d) /\ sent'[d] \in Seq(ServerMessage)
    BY ServerStepWrites DEF CInv
  <2>2. HeldBy(d)' = HeldBy(d) /\ Listens(d)' = Listens(d) /\ sent'[d] = <<>>
    BY <1>1 DEF HeldBy, Listens, Silence
  <2> QED BY <1>1, <2>1, <2>2, BesideServed
<1> QED BY <1>2

\* The routes that c loses, or keeps, by its own turn.
LEMMA WithoutHeld ==
  ASSUME NEW hs, routes' = Without(routes, hs), NEW d \in Connection
  PROVE  \A h \in HeldBy(d)' : h \in HeldBy(d) /\ routes'[h] = routes[h]
BY NoRouteAssumption DEF HeldBy, Registered, Without

LEMMA EndingTurnServed ==
  ASSUME CInv, NEW c \in Connection, ServerStep(c), Unregister(c) \/ CleanupConnection(c)
  PROVE  \A d \in Connection : Served(d)'
<1>1. SInv /\ TypeOK /\ frames[c] # <<>> /\ \A d \in Connection : Served(d)
  BY TypesSplit DEF CInv, SInv, Unregister, CleanupConnection, Turn
<1>2. Head(frames[c]).type \in {"unregister", "cleanup"} /\ Finish(c)
  BY DEF Unregister, CleanupConnection, Turn
<1>3. \E hs : routes' = Without(routes, hs)
  BY DEF Unregister, CleanupConnection, UnregisterMany, UnregisterOwners
<1>4. \A d \in Connection : Listens(d)' => Listens(d)
  BY DEF Unregister, CleanupConnection, Listens
<1>5. \A d \in Connection \ {c} : sent'[d] = <<>>
  BY ReplySent DEF Unregister, CleanupConnection, Silence
<1>6. ~Live(c)
  BY <1>1, <1>2, LiveTurn
<1>7. ASSUME NEW d \in Connection PROVE Served(d)'
  <2>1. SInv /\ Served(d) /\ Writes(d) /\ sent'[d] \in Seq(ServerMessage)
    BY ServerStepWrites DEF CInv
  <2>2. \A h \in HeldBy(d)' : h \in HeldBy(d) /\ routes'[h] = routes[h]
    BY <1>3, WithoutHeld
  <2>3. CASE d = c
    BY <1>1, <1>2, <1>6, <2>1, <2>2, <2>3, FinishFrames, TurnServed
  <2>4. CASE d # c
    BY <1>1, <1>2, <1>4, <1>5, <2>1, <2>2, <2>4, FinishFrames, BesideServed
  <2> QED BY <2>3, <2>4
<1> QED BY <1>7

LEMMA AnsweredTurnServed ==
  ASSUME CInv, NEW c \in Connection, ServerStep(c), FailRegister(c) \/ Heartbeat(c)
  PROVE  \A d \in Connection : Served(d)'
<1> DEFINE frame == Head(frames[c])
           active == ActiveHostnames(routes, frame.ownerToken, frame.hostnames, c)
<1>1. SInv /\ TypeOK /\ frames[c] # <<>> /\ \A d \in Connection : Served(d)
  BY TypesSplit DEF CInv, SInv, FailRegister, Heartbeat, Turn
<1>2. Finish(c) /\ routes' = routes /\ listeners' = listeners
  BY DEF FailRegister, Heartbeat, registryVars
<1>3. \A d \in Connection : HeldBy(d)' = HeldBy(d) /\ Listens(d)' = Listens(d)
  BY <1>2 DEF HeldBy, Listens
<1>4. \A d \in Connection \ {c} : sent'[d] = <<>>
  BY ReplySent DEF FailRegister, Heartbeat
<1>5. frame \in Frame /\ frame = frames[c][1] /\ 1 \in 1..Len(frames[c])
  BY <1>1 DEF TypeOK
<1>6. ASSUME Live(c)
      PROVE  \E message \in ServerMessage :
               /\ sent'[c] = <<message>> /\ ~IsLoss(message)
               /\ SentFits(Due(c), frame, inbox[c], HeldBy(c), Listens(c))
                    => AnswerFits(Due(c), message, HeldBy(c)')
  <2>1. socket[c] = "open"
    BY <1>6 DEF Live
  <2>2. CASE FailRegister(c)
    <3> DEFINE message == [type |-> "error"]
    <3>1. message \in ServerMessage /\ ~IsLoss(message)
      BY MessageType DEF IsLoss
    <3>2. sent'[c] = <<message>>
      BY <2>1, <2>2, ReplySent DEF FailRegister
    <3>3. frame.type = "register"
      BY <2>2 DEF FailRegister, Turn
    <3>4. SentFits(Due(c), frame, inbox[c], HeldBy(c), Listens(c)) => AnswerFits(Due(c), message, HeldBy(c)')
      BY <3>3 DEF SentFits, AnswerFits
    <3> QED BY <3>1, <3>2, <3>4
  <2>3. CASE Heartbeat(c)
    <3> DEFINE message == [type |-> "heartbeat", hostnames |-> active]
    <3>1. frame.type = "heartbeat"
      BY <2>3 DEF Heartbeat, Turn
    <3>2. frame.hostnames \in SUBSET Hostname /\ frame.ownerToken \in TokensOf[c]
      BY <1>1, <1>5, <3>1, RouteFrame DEF Served, OwnTokens
    <3>3. message \in ServerMessage /\ ~IsLoss(message)
      BY <3>2, MessageType DEF IsLoss, ActiveHostnames
    <3>4. sent'[c] = <<message>>
      BY <2>1, <2>3, ReplySent DEF Heartbeat
    <3>5. \A h \in HeldBy(c) : h \in frame.hostnames => h \in active
      <4>1. ASSUME NEW h \in HeldBy(c) PROVE routes[h] = [ownerToken |-> frame.ownerToken, leaseId |-> c]
        <5>1. routes[h] \in ActiveRoute /\ routes[h].leaseId = c
          BY <1>1 DEF HeldBy, Registered, TypeOK, RouteTable
        <5>2. routes[h].ownerToken \in TokensOf[c]
          BY <1>1 DEF Served, OwnTokens
        <5>3. routes[h].ownerToken = frame.ownerToken
          BY <3>2, <5>2, SessionAssumption
        <5> QED BY <5>1, <5>3 DEF ActiveRoute
      <4> QED BY <4>1 DEF ActiveHostnames
    <3>6. ASSUME SentFits(Due(c), frame, inbox[c], HeldBy(c), Listens(c))
          PROVE  AnswerFits(Due(c), message, HeldBy(c)')
      <4> HIDE DEF active
      <4> QED BY <1>3, <3>1, <3>5, <3>6 DEF SentFits, AnswerFits
    <3> HIDE DEF message
    <3> QED BY <3>3, <3>4, <3>6
  <2> QED BY <2>2, <2>3
<1>7. ASSUME NEW d \in Connection PROVE Served(d)'
  <2>1. SInv /\ Served(d) /\ Writes(d) /\ sent'[d] \in Seq(ServerMessage)
    BY ServerStepWrites DEF CInv
  <2>2. \A h \in HeldBy(d)' : h \in HeldBy(d) /\ routes'[h] = routes[h]
    BY <1>2, <1>3
  <2>3. CASE d = c
    BY <1>1, <1>2, <1>3, <1>6, <2>1, <2>2, <2>3, FinishFrames, TurnServed
  <2>4. CASE d # c
    BY <1>1, <1>2, <1>3, <1>4, <2>1, <2>2, <2>4, FinishFrames, BesideServed
  <2> QED BY <2>3, <2>4
<1> QED BY <1>7

LEMMA FinishRegisterServed ==
  ASSUME CInv, NEW c \in Connection, ServerStep(c), FinishRegister(c)
  PROVE  \A d \in Connection : Served(d)'
<1> DEFINE frame == Head(frames[c])
           answer == [type |-> "registered", hostnames |-> frame.hostnames]
<1>1. SInv /\ TypeOK /\ frames[c] # <<>> /\ \A d \in Connection : Served(d)
  BY TypesSplit DEF CInv, SInv, FinishRegister, Turn
<1>2. /\ Finish(c) /\ frame.type = "register"
      /\ routes' = RegisterMany(routes, frame.ownerToken, frame.hostnames, c)
      /\ listeners' = [listeners EXCEPT ![frame.ownerToken] = @ \cup {c}]
      /\ sent' = [d \in Connection |->
             Written(d, TakeoverMessages(d, frame) \o
                        IF d = c THEN << answer >> ELSE <<>>)]
  BY DEF FinishRegister, Turn
<1>3. frame \in Frame /\ frame = frames[c][1] /\ 1 \in 1..Len(frames[c])
  BY <1>1 DEF TypeOK
<1>4. frame.hostnames \in SUBSET Hostname /\ frame.ownerToken \in TokensOf[c] /\ frame.ownerToken \in OwnerToken
  BY <1>1, <1>2, <1>3, RouteFrame DEF Served, OwnTokens
<1> HIDE DEF frame
<1>5. \A h \in Hostname : routes'[h] = IF h \in frame.hostnames
                                       THEN [ownerToken |-> frame.ownerToken, leaseId |-> c] ELSE routes[h]
  BY <1>2 DEF RegisterMany
<1>6. \A d \in Connection \ {c} : Listens(d)' = Listens(d)
  BY <1>1, <1>2, <1>4 DEF Listens, TypeOK
<1>7. \A d \in Connection \ {c} :
        \A h \in HeldBy(d)' : h \in HeldBy(d) /\ routes'[h] = routes[h] /\ h \notin frame.hostnames
  BY <1>5 DEF HeldBy, Registered
<1>8. \A h \in HeldBy(c)' :
        \/ h \in HeldBy(c) /\ routes'[h] = routes[h]
        \/ routes'[h].ownerToken \in TokensOf[c] /\ h \in frame.hostnames
  BY <1>4, <1>5 DEF HeldBy, Registered
<1>9. ASSUME NEW d \in Connection, d # c
      PROVE  \/ sent'[d] = <<>>
             \/ /\ Listens(d) /\ Len(sent'[d]) = 1
                /\ IsLoss(sent'[d][1]) /\ sent'[d][1].hostnames \cap HeldBy(d)' = {}
  <2>1. sent'[d] = Written(d, TakeoverMessages(d, frame) \o <<>>)
    BY <1>2, <1>9
  <2>2. CASE LostBy(d, frame) = {}
    <3>1. <<>> \o <<>> = <<>>
      OBVIOUS
    <3> QED BY <2>1, <2>2, <3>1 DEF TakeoverMessages, Written
  <2>3. CASE LostBy(d, frame) # {}
    <3> DEFINE loss == [type |-> "route-lost", hostnames |-> LostBy(d, frame)]
    <3>1. TakeoverMessages(d, frame) = <<loss>> /\ <<loss>> \o <<>> = <<loss>>
      BY <2>3 DEF TakeoverMessages
    <3>2. sent'[d] = <<>> \/ sent'[d] = <<loss>>
      BY <2>1, <3>1 DEF Written
    <3>3. Listens(d)
      BY <2>3 DEF LostBy, Listens
    <3>4. LostBy(d, frame) \subseteq frame.hostnames
      BY DEF LostBy
    <3>5. loss.hostnames \cap HeldBy(d)' = {}
      BY <1>7, <1>9, <3>4
    <3>6. IsLoss(loss)
      BY DEF IsLoss
    <3> HIDE DEF loss
    <3>7. sent'[d] = <<loss>> => Len(sent'[d]) = 1 /\ sent'[d][1] = loss
      OBVIOUS
    <3> QED BY <3>2, <3>3, <3>5, <3>6, <3>7
  <2> QED BY <2>2, <2>3
<1>10. ASSUME Live(c)
       PROVE  \E message \in ServerMessage :
               /\ sent'[c] = <<message>> /\ ~IsLoss(message)
               /\ SentFits(Due(c), frame, inbox[c], HeldBy(c), Listens(c))
                    => AnswerFits(Due(c), message, HeldBy(c)')
  <2>1. socket[c] = "open" /\ HeldBy(c) = {} /\ ~Listens(c)
    BY <1>1, <1>2, <1>10, LiveTurn DEF Live, frame
  <2>2. LostBy(c, frame) = {}
    BY <2>1 DEF LostBy, Listens
  <2>3. answer \in ServerMessage /\ ~IsLoss(answer) /\ answer.type = "registered"
        /\ answer.hostnames = frame.hostnames
    BY <1>4, MessageType DEF IsLoss
  <2> HIDE DEF answer
  <2>4. sent'[c] = <<answer>>
    <3>1. <<>> \o <<answer>> = <<answer>>
      OBVIOUS
    <3> QED BY <1>2, <2>1, <2>2, <3>1 DEF TakeoverMessages, Written
  <2>5. HeldBy(c)' \subseteq frame.hostnames
    BY <1>8, <2>1
  <2>6. SentFits(Due(c), frame, inbox[c], HeldBy(c), Listens(c)) => AnswerFits(Due(c), answer, HeldBy(c)')
    BY <1>2, <2>3, <2>5 DEF SentFits, AnswerFits
  <2> QED BY <2>3, <2>4, <2>6
<1>11. ASSUME NEW d \in Connection PROVE Served(d)'
  <2>1. SInv /\ Served(d) /\ Writes(d) /\ sent'[d] \in Seq(ServerMessage)
    BY ServerStepWrites DEF CInv
  <2>2. CASE d = c
    BY <1>1, <1>2, <1>8, <1>10, <2>1, <2>2, FinishFrames, TurnServed DEF frame
  <2>3. CASE d # c
    BY <1>1, <1>2, <1>6, <1>7, <1>9, <2>1, <2>3, FinishFrames, BesideServed
  <2> QED BY <2>2, <2>3
<1> QED BY <1>11

LEMMA ServerStepServed ==
  ASSUME CInv, NEW c \in Connection, ServerStep(c)
  PROVE  \A d \in Connection : Served(d)'
<1>1. \/ BeginRegister(c) \/ FinishRegister(c) \/ Unregister(c) \/ Heartbeat(c)
      \/ CleanupConnection(c) \/ FailRegister(c)
  BY DEF ServerStep
<1> QED BY <1>1, BeginRegisterServed, FinishRegisterServed, EndingTurnServed, AnsweredTurnServed

LEMMA AcceptServed ==
  ASSUME CInv, NEW c \in Connection, Accept(c)
  PROVE  \A d \in Connection : Served(d)'
<1>1. TypeOK
  BY TypesSplit DEF CInv, SInv
<1>2. /\ link[c] = "connecting" /\ socket' = [socket EXCEPT ![c] = "open"]
      /\ routes' = routes /\ listeners' = listeners /\ frames' = frames
      /\ link' = link /\ closing' = closing /\ pending' = pending /\ claimed' = claimed /\ inbox' = inbox
  BY DEF Accept, Connect, registryVars, clientVars
<1>3. \A d \in Connection \ {c} : socket'[d] = socket[d]
  BY <1>1, <1>2 DEF TypeOK
<1>4. Moves(c) /\ ~Live(c)'
  BY <1>2, <1>3 DEF Moves, Sends, Live
<1> QED BY <1>1, <1>4, MovesServed DEF CInv

LEMMA CrashServed ==
  ASSUME CInv, Crash
  PROVE  \A d \in Connection : Served(d)'
<1>1. /\ routes' = EmptyTable /\ listeners' = [o \in OwnerToken |-> {}]
      /\ frames' = [c \in Connection |-> <<>>]
      /\ socket' = [c \in Connection |->
                  CASE link[c] = "connecting" -> "none"
                    [] socket[c] = "open" -> "destroyed"
                    [] OTHER -> socket[c]]
      /\ link' = link /\ claimed' = claimed /\ inbox' = inbox
  BY DEF Crash, clientVars
<1>2. ASSUME NEW d \in Connection PROVE Served(d)'
  <2>1. HeldBy(d)' = {} /\ ~Listens(d)' /\ frames'[d] = <<>> /\ Len(frames'[d]) = 0
    BY <1>1 DEF HeldBy, Registered, EmptyTable, Listens
  <2>2. socket'[d] # "open"
    BY <1>1
  <2>3. OwnTokens(d)'
    BY <2>1 DEF OwnTokens
  <2>4. Untouched(d)'
    BY <1>1, <2>1 DEF CInv, Served, Untouched
  <2> QED BY <2>2, <2>3, <2>4 DEF Served, Live
<1> QED BY <1>2

-----------------------------------------------------------------------------
(* The client of setup().                                                  *)

LEMMA ClosingGrows ==
  ASSUME SInv, SessionNext
  PROVE  \A c \in Connection : closing[c] => closing'[c]
<1>1. ClientTypeOK
  BY TypesSplit DEF SInv
<1>2. \A c, d \in Connection : closing' = [closing EXCEPT ![d] = TRUE] => (closing[c] => closing'[c])
  BY <1>1 DEF ClientTypeOK
<1>3. ASSUME NEW p \in Plugin,
             Start(p) \/ TaskStep(p) \/ InfrastructureFails(p) \/ Beat(p) \/ CloseServer(p)
      PROVE  closing' = closing \/ \E d \in Connection : closing' = [closing EXCEPT ![d] = TRUE]
  <2>1. ASSUME CloseServer(p) PROVE closing' = closing \/ \E d \in Connection : closing' = [closing EXCEPT ![d] = TRUE]
    <3>1. client[p] = NoClient \/ client[p] \in Connection
      BY Known DEF OwnClients
    <3> QED BY <2>1, <3>1 DEF CloseServer, Close
  <2>2. ASSUME Start(p) \/ TaskStep(p) \/ InfrastructureFails(p) \/ Beat(p) PROVE closing' = closing
    BY <2>2 DEF Start, TaskStep, InfrastructureReady, Connected, ConnectFails, Retry,
                InfrastructureFails, Beat, clientVars
  <2> QED BY <1>3, <2>1, <2>2
<1>4. ASSUME NEW p \in Plugin, NEW c \in ClientsOf(p), Hear(p, c) \/ Lose(p, c) \/ TimesOut(p, c)
      PROVE  closing' = closing \/ \E d \in Connection : closing' = [closing EXCEPT ![d] = TRUE]
  <2>0. c \in Connection
    BY Known
  <2>1. ASSUME NEW rest, FailsWith(p, rest), Awaits(p, "register")
        PROVE  closing' = closing \/ \E d \in Connection : closing' = [closing EXCEPT ![d] = TRUE]
    <3>1. candidate[p] \in Connection
      BY <2>1, Known, CandidateOf
    <3> QED BY <2>1, <3>1 DEF FailsWith, Close
  <2>2. ASSUME NEW n, c = candidate[p], RegisterAnswered(p, n)
        PROVE  closing' = closing \/ \E d \in Connection : closing' = [closing EXCEPT ![d] = TRUE]
    BY <2>0, <2>2 DEF RegisterAnswered, AdoptOrRelease, Adopt, Close
  <2>3. ASSUME NEW n, Refused(p, n)
        PROVE  closing' = closing \/ \E d \in Connection : closing' = [closing EXCEPT ![d] = TRUE]
    <3> DEFINE rest == Tail(pending[candidate[p]])
    <3>1. FailsWith(p, rest) /\ Awaits(p, "register")
      BY <2>3 DEF Refused, RegisterFails, FailsWith, Set
    <3> HIDE DEF rest
    <3> QED BY <2>1, <3>1
  <2>4. ASSUME NEW n, HeartbeatAnswered(p, c, n) \/ UnregisterAnswered(p, c, n) \/ RouteLost(p, c)
        PROVE  closing' = closing
    BY <2>4 DEF HeartbeatAnswered, UnregisterAnswered, RouteLost
  <2>5. ASSUME Lose(p, c) PROVE closing' = closing
    BY <2>5 DEF Lose, Disconnected, Ended
  <2>6. ASSUME TimesOut(p, c)
        PROVE  closing' = closing \/ \E d \in Connection : closing' = [closing EXCEPT ![d] = TRUE]
    <3>1. PICK i \in 1..Len(pending[c]) :
            \/ /\ pending[c][i].type = "register"
               /\ FailsWith(p, [pending[c] EXCEPT ![i].type = "abandoned"])
            \/ closing' = closing
      BY <2>6 DEF TimesOut, RegisterFails, FailsWith, Set
    <3> DEFINE rest == [pending[c] EXCEPT ![i].type = "abandoned"]
    <3>2. CASE pending[c][i].type = "register" /\ FailsWith(p, rest)
      <4>1. pending[c] \in Seq(PendingRequest) /\ PendingFits(pending[c], closing[c]) /\ RegisterAwaited(p)
        BY Known
      <4>2. pending[c] # <<>> /\ Head(pending[c]) = pending[c][1] /\ i = 1
        BY <3>2, <4>1 DEF PendingFits
      <4>3. Awaits(p, "register")
        BY <3>2, <4>1, <4>2 DEF RegisterAwaited
      <4> HIDE DEF rest
      <4> QED BY <2>1, <3>2, <4>3
    <3> QED BY <3>1, <3>2
  <2>7. RouteLost(p, c) => closing' = closing
    BY DEF RouteLost
  <2> QED BY <1>4, <2>2, <2>3, <2>4, <2>5, <2>6, <2>7 DEF Hear
<1>5. ASSUME NEW c \in Connection, Accept(c) \/ ServerStep(c) PROVE closing' = closing
  BY <1>5 DEF Accept, ServerStep, clientVars
<1>6. Crash => closing' = closing
  BY DEF Crash, clientVars
<1> QED BY <1>2, <1>3, <1>4, <1>5, <1>6 DEF SessionNext

\* The task of p is not setup(), or setup() goes on with its client.
GoesOn(p) ==
  \/ task'[p] # "setup" \/ phase'[p] = "infra"
  \/ /\ task[p] = "setup" /\ phase[p] # "infra"
     /\ candidate'[p] = candidate[p] /\ client'[p] = client[p] /\ shuttingDown'[p] = shuttingDown[p]

LEMMA GoesOnKeeps ==
  ASSUME CInv, NEW p \in Plugin, GoesOn(p), \A c \in Connection : closing[c] => closing'[c]
  PROVE  SetupClient(p)'
<1>1. CASE task'[p] # "setup" \/ phase'[p] = "infra"
  BY <1>1 DEF SetupClient
<1>2. CASE /\ task[p] = "setup" /\ phase[p] # "infra"
           /\ candidate'[p] = candidate[p] /\ client'[p] = client[p] /\ shuttingDown'[p] = shuttingDown[p]
  <2>1. Awaits(p, "connect") \/ Awaits(p, "register")
    BY <1>2, Known, Same DEF CInv, SetupIsFirst, Awaits
  <2>2. candidate[p] \in Connection
    BY <2>1, Known, CandidateOf DEF CInv
  <2>3. SetupClient(p)
    BY DEF CInv
  <2> QED BY <1>2, <2>2, <2>3 DEF SetupClient
<1> QED BY <1>1, <1>2 DEF GoesOn

LEMMA FailureGoesOn ==
  ASSUME PluginTypes, NEW p \in Plugin, AfterFailure(p)
  PROVE  GoesOn(p)
BY DEF AfterFailure, RetryOrEnd, EndTask, GoTo, PluginTypes, GoesOn

LEMMA OthersGoOn ==
  ASSUME CInv, NEW p \in Plugin, LocalTo(p), NEW q \in Plugin \ {p}
  PROVE  GoesOn(q)
BY DEF LocalTo, GoesOn

LEMMA PluginGoesOn ==
  ASSUME CInv, NEW p \in Plugin,
         \/ Start(p) \/ Connected(p) \/ ConnectFails(p) \/ Retry(p) \/ InfrastructureFails(p) \/ Beat(p)
         \/ \E c \in ClientsOf(p) : Hear(p, c) \/ Lose(p, c) \/ TimesOut(p, c)
  PROVE  GoesOn(p)
<1>1. SInv /\ PluginTypes
  BY Known DEF CInv
<1>2. ASSUME Start(p) \/ Retry(p) \/ InfrastructureFails(p) PROVE GoesOn(p)
  BY <1>1, <1>2 DEF Start, Retry, InfrastructureFails, RetryOrEnd, EndTask, GoTo, GoesOn, PluginTypes
<1>3. ASSUME Connected(p) PROVE GoesOn(p)
  BY <1>1, <1>3 DEF Connected, GoTo, GoesOn, PluginTypes, lifeVars, Awaits
<1>4. ASSUME ConnectFails(p) PROVE GoesOn(p)
  BY <1>1, <1>4, FailureGoesOn DEF ConnectFails
<1>5. ASSUME UNCHANGED <<taskVars, candidate, lifeVars>> PROVE GoesOn(p)
  BY <1>5 DEF taskVars, lifeVars, GoesOn
<1>6. ASSUME NEW c \in ClientsOf(p), Hear(p, c) PROVE GoesOn(p)
  <2>1. ASSUME NEW n, RegisterAnswered(p, n) PROVE GoesOn(p)
    BY <1>1, <2>1 DEF RegisterAnswered, EndTask, GoTo, GoesOn, PluginTypes
  <2>2. ASSUME NEW n, Refused(p, n) PROVE GoesOn(p)
    BY <1>1, <2>2, FailureGoesOn DEF Refused, RegisterFails
  <2>3. ASSUME NEW n, HeartbeatAnswered(p, c, n) \/ UnregisterAnswered(p, c, n)
        PROVE  UNCHANGED <<taskVars, candidate, lifeVars>>
    BY <2>3 DEF HeartbeatAnswered, UnregisterAnswered
  <2>4. RouteLost(p, c) => UNCHANGED <<taskVars, candidate, lifeVars>>
    BY DEF RouteLost
  <2> QED BY <1>5, <1>6, <2>1, <2>2, <2>3, <2>4 DEF Hear
<1>7. ASSUME NEW c \in ClientsOf(p), Disconnected(p, c) PROVE GoesOn(p)
  <2> DEFINE notified == ~closing[c] /\ ~shuttingDown[p] /\ task[p] # "recovery"
             failed == candidate[p] = c /\ Awaits(p, "register")
  <2>1. /\ candidate' = candidate
        /\ CASE notified /\ owned[p] # {} -> GoTo(p, "recovery", "infra")
             [] failed /\ task[p] = "recovery" -> RetryOrEnd(p)
             [] failed /\ task[p] = "setup" /\ ~(notified /\ owned[p] # {}) -> EndTask(p)
             [] OTHER -> UNCHANGED taskVars
        /\ IF failed /\ task[p] = "setup"
           THEN Set(client, p, NoClient) /\ Set(shuttingDown, p, TRUE)
           ELSE UNCHANGED lifeVars
    BY <1>7 DEF Disconnected
  <2> HIDE DEF notified
  <2>2. GoTo(p, "recovery", "infra") \/ RetryOrEnd(p) \/ EndTask(p) => task'[p] # "setup"
    BY <1>1 DEF RetryOrEnd, EndTask, GoTo, PluginTypes
  <2>3. ASSUME ~(notified /\ owned[p] # {}), ~(failed /\ task[p] = "recovery"),
               ~(failed /\ task[p] = "setup")
        PROVE  GoesOn(p)
    BY <1>5, <2>1, <2>3
  <2>4. ASSUME notified /\ owned[p] # {} PROVE task'[p] # "setup"
    <3>1. GoTo(p, "recovery", "infra") \/ RetryOrEnd(p)
      BY <2>1, <2>4
    <3> QED BY <2>2, <3>1
  <2>5. ASSUME ~(notified /\ owned[p] # {}), failed /\ task[p] \in {"recovery", "setup"}
        PROVE  task'[p] # "setup"
    <3>1. RetryOrEnd(p) \/ EndTask(p)
      BY <2>1, <2>5
    <3> QED BY <2>2, <3>1
  <2> QED BY <2>3, <2>4, <2>5 DEF GoesOn
<1>8. ASSUME NEW c \in ClientsOf(p), Ended(p, c) PROVE GoesOn(p)
  <2>1. EndTask(p) \/ UNCHANGED <<taskVars, candidate, lifeVars>>
    BY <1>8 DEF Ended
  <2>2. EndTask(p) => task'[p] # "setup"
    BY <1>1 DEF EndTask, GoTo, PluginTypes
  <2> QED BY <1>5, <2>1, <2>2 DEF GoesOn
<1>9. ASSUME NEW c \in ClientsOf(p), TimesOut(p, c) PROVE GoesOn(p)
  <2>1. AfterFailure(p) \/ UNCHANGED <<taskVars, candidate, lifeVars>>
    BY <1>9 DEF TimesOut, RegisterFails
  <2> QED BY <1>1, <1>5, <2>1, FailureGoesOn
<1>10. Beat(p) => GoesOn(p)
  BY <1>5 DEF Beat, pluginVars, taskVars, lifeVars
<1> QED BY <1>2, <1>3, <1>4, <1>6, <1>7, <1>8, <1>9, <1>10 DEF Lose

LEMMA InfrastructureReadySetup ==
  ASSUME CInv, NEW p \in Plugin, InfrastructureReady(p)
  PROVE  SetupClient(p)'
<1>1. PluginTypes /\ task[p] \in {"setup", "recovery"} /\ shuttingDown' = shuttingDown
  BY Known DEF CInv, InfrastructureReady, Awaits
<1>2. CASE EndTask(p)
  BY <1>1, <1>2 DEF EndTask, GoTo, PluginTypes, SetupClient
<1>3. ASSUME ~Unwanted(p), NEW c, c \in Connection, Set(candidate, p, c),
             client' = [client EXCEPT ![p] = IF task[p] = "setup" THEN c ELSE @],
             GoTo(p, task[p], "connect")
      PROVE  SetupClient(p)'
  BY <1>1, <1>3 DEF Set, GoTo, PluginTypes, SetupClient, Unwanted
<1>4. Unused(p) # {} => (CHOOSE c \in Unused(p) : TRUE) \in Connection
  BY DEF Unused, ClientsOf
<1> QED BY <1>2, <1>3, <1>4 DEF InfrastructureReady

LEMMA CloseServerSetup ==
  ASSUME CInv, NEW p \in Plugin, CloseServer(p)
  PROVE  SetupClient(p)'
<1> PICK c : c = client[p]
  OBVIOUS
<1>1. SInv /\ PluginTypes /\ ClientTypeOK /\ SetupClient(p) /\ OwnClients(p)
  BY Known DEF CInv
<1>2. /\ ~shuttingDown[p] /\ shuttingDown' = [shuttingDown EXCEPT ![p] = TRUE]
      /\ task' = task /\ phase' = phase /\ candidate' = candidate
      /\ c # NoClient => closing' = [closing EXCEPT ![c] = TRUE]
  BY DEF CloseServer, Set, taskVars, Close
<1>3. ASSUME task[p] = "setup", phase[p] # "infra" PROVE closing'[candidate[p]]
  <2>1. Awaits(p, "connect") \/ Awaits(p, "register")
    BY <1>1, <1>3, Known, Same DEF SetupIsFirst, Awaits
  <2>2. candidate[p] \in Connection /\ candidate[p] # NoClient
    BY <1>1, <2>1, Known, CandidateOf
  <2>3. c = candidate[p]
    BY <1>1, <1>2, <1>3 DEF SetupClient
  <2> QED BY <1>1, <1>2, <2>2, <2>3 DEF ClientTypeOK
<1> QED BY <1>1, <1>2, <1>3 DEF SetupClient, PluginTypes

-----------------------------------------------------------------------------

LEMMA ClaimsBegin == SessionInit => CInv
<1> SUFFICES ASSUME SessionInit PROVE CInv
  OBVIOUS
<1>1. SInv
  BY SessionBegins
<1>2. ASSUME NEW c \in Connection PROVE Served(c)
  <2>1. /\ claimed[c] = {} /\ inbox[c] = <<>> /\ frames[c] = <<>> /\ Len(frames[c]) = 0
        /\ HeldBy(c) = {} /\ ~Listens(c) /\ link[c] = "none"
    BY DEF SessionInit, Init, ClientInit, HeldBy, Registered, EmptyTable, Listens
  <2> QED BY <2>1 DEF Served, OwnTokens, Untouched, Live
<1>3. ASSUME NEW p \in Plugin PROVE SetupClient(p)
  BY DEF SessionInit, SetupClient
<1> QED BY <1>1, <1>2, <1>3 DEF CInv

LEMMA ClaimsStep == CInv /\ [SessionNext]_sessionVars => CInv'
<1> SUFFICES ASSUME CInv, [SessionNext]_sessionVars PROVE CInv'
  OBVIOUS
<1>1. SInv /\ SInv'
  BY SessionStep DEF CInv
<1>2. SessionNext => \A c \in Connection : closing[c] => closing'[c]
  BY <1>1, ClosingGrows
<1>3. ASSUME NEW p \in Plugin,
             Start(p) \/ TaskStep(p) \/ InfrastructureFails(p) \/ Beat(p) \/ CloseServer(p)
      PROVE  CInv'
  <2>1. \A c \in Connection : Served(c)'
    BY <1>3, StartServed, InfrastructureReadyServed, ConnectedServed, ConnectFailsServed, BeatServed,
       CloseServerServed DEF TaskStep
  <2>2. Keeps(p)
    BY <1>1, <1>3, StartKeeps, InfrastructureReadyKeeps, ConnectedKeeps, ConnectFailsKeeps,
       RetryKeeps, InfrastructureFailsKeeps, BeatKeeps, CloseServerKeeps DEF TaskStep
  <2>3. \A c \in Connection : closing[c] => closing'[c]
    BY <1>2, <1>3 DEF SessionNext
  <2>4. SetupClient(p)'
    BY <1>3, <2>3, PluginGoesOn, GoesOnKeeps, InfrastructureReadySetup, CloseServerSetup DEF TaskStep
  <2>5. \A q \in Plugin \ {p} : SetupClient(q)'
    BY <2>2, <2>3, OthersGoOn, GoesOnKeeps DEF Keeps
  <2>6. \A q \in Plugin : SetupClient(q)'
    BY <2>4, <2>5
  <2> QED BY <1>1, <2>1, <2>6 DEF CInv, Plugin, Connection
<1>4. ASSUME NEW p \in Plugin, NEW c \in ClientsOf(p), Hear(p, c) \/ Lose(p, c) \/ TimesOut(p, c)
      PROVE  CInv'
  <2>1. \A d \in Connection : Served(d)'
    BY <1>4, RouteLostServed, RegisterAnsweredServed, RefusedServed, HeartbeatAnsweredServed,
       UnregisterAnsweredServed, LoseServed, TimesOutServed DEF Hear
  <2>2. Keeps(p)
    BY <1>1, <1>4, RouteLostKeeps, RegisterAnsweredKeeps, RefusedKeeps, HeartbeatAnsweredKeeps,
       UnregisterAnsweredKeeps, DisconnectedKeeps, EndedKeeps, TimesOutKeeps DEF Hear, Lose
  <2>3. \A d \in Connection : closing[d] => closing'[d]
    BY <1>2, <1>4 DEF SessionNext
  <2>4. SetupClient(p)'
    BY <1>4, <2>3, PluginGoesOn, GoesOnKeeps
  <2>5. \A q \in Plugin \ {p} : SetupClient(q)'
    BY <2>2, <2>3, OthersGoOn, GoesOnKeeps DEF Keeps
  <2>6. \A q \in Plugin : SetupClient(q)'
    BY <2>4, <2>5
  <2> QED BY <1>1, <2>1, <2>6 DEF CInv, Plugin, Connection
<1>5. ASSUME task' = task, phase' = phase, candidate' = candidate, client' = client,
             shuttingDown' = shuttingDown, closing' = closing
      PROVE  \A q \in Plugin : SetupClient(q)'
  BY <1>5 DEF CInv, SetupClient
<1>6. ASSUME NEW c \in Connection, Accept(c) \/ ServerStep(c) PROVE CInv'
  <2>1. \A d \in Connection : Served(d)'
    BY <1>6, AcceptServed, ServerStepServed
  <2>2. \A q \in Plugin : SetupClient(q)'
    BY <1>5, <1>6 DEF Accept, ServerStep, clientVars, pluginVars, taskVars, lifeVars
  <2> QED BY <1>1, <2>1, <2>2 DEF CInv, Plugin, Connection
<1>7. CASE Crash
  <2>1. \A q \in Plugin : SetupClient(q)'
    BY <1>5, <1>7 DEF Crash, clientVars, taskVars, lifeVars
  <2> QED BY <1>1, <1>7, <2>1, CrashServed DEF CInv, Plugin, Connection
<1>8. CASE UNCHANGED sessionVars
  <2>1. /\ UNCHANGED <<routes, listeners, frames, socket>>
        /\ UNCHANGED <<link, closing, pending, claimed, inbox>>
        /\ task' = task /\ phase' = phase /\ candidate' = candidate /\ client' = client
        /\ shuttingDown' = shuttingDown /\ closing' = closing
    BY <1>8 DEF sessionVars, vars, registryVars, connectionVars, clientVars, pluginVars, taskVars, lifeVars
  <2>2. \A d \in Connection : Served(d)'
    BY <2>1, StillServed DEF CInv
  <2>3. \A q \in Plugin : SetupClient(q)'
    BY <1>5, <2>1
  <2> QED BY <1>1, <2>2, <2>3 DEF CInv, Plugin, Connection
<1> QED BY <1>3, <1>4, <1>6, <1>7, <1>8 DEF SessionNext

\* ControlClient's claims: a connected client with nothing under way claims
\* every route that the server holds for it, so that close() unregisters them all.
THEOREM ClaimsCoverRoutes == SessionSpec => []ClaimsWhatItHolds
<1>1. ASSUME CInv PROVE ClaimsWhatItHolds
  <2>1. ASSUME NEW c \in Connection, link[c] = "connected", ~closing[c], socket[c] = "open", Quiet(c)
        PROVE  HeldBy(c) \subseteq claimed[c]
    <3>1. Standing(pending[c], frames[c], inbox[c], HeldBy(c), claimed[c], Listens(c))
      BY <1>1, <2>1 DEF CInv, Served, Live, StandingOf
    <3>2. ~Registering(pending[c])
      BY <2>1 DEF Quiet, Registering
    <3> QED BY <3>1, <3>2 DEF Standing
  <2> QED BY <2>1 DEF ClaimsWhatItHolds
<1>2. CInv => ClaimsWhatItHolds
  BY <1>1
<1> QED BY <1>2, ClaimsBegin, ClaimsStep, PTL DEF SessionSpec
=============================================================================
