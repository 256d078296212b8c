--------------------------- MODULE ProxyExchange ---------------------------
(***************************************************************************)
(* What the proxy does with a request (proxy-server.ts): it looks the host *)
(* up in the registry, asks the upstream of the route, and passes on what  *)
(* the upstream answers.  A request is of HTTP/1 or a stream of HTTP/2,    *)
(* plain or the opening of a WebSocket.                                    *)
(*                                                                         *)
(* Every event that has a listener is an action: the answer of the         *)
(* upstream, its end, its errors, and the client's leaving.  A listener    *)
(* runs to its end.  The headers and bodies are left out.  What Node does  *)
(* is external: an error of the upstream request may come after its        *)
(* answer, a client that leaves after its whole HTTP/1 request was read is *)
(* noticed on the response alone, and what is written to a client that has *)
(* left goes nowhere.  There is no timeout.                                *)
(***************************************************************************)
EXTENDS Naturals

CONSTANTS
  Exchange,
  Upstream,    \* the development servers routes lead to
  MaxAnswers,  \* a bound on the status lines counted per exchange
  Unrouted

ASSUME ExchangeAssumption ==
  /\ Unrouted \notin Upstream
  /\ MaxAnswers \in Nat \ {0, 1}

Kind == {"request", "upgrade", "stream", "websocket"}

\* HTTP/2 streams: every operation on one asks first whether it is still there.
OfHttp2 == {"stream", "websocket"}

VARIABLES
  kind,      \* per exchange
  route,     \* the upstream of the host's route, or Unrouted
  client,    \* per exchange: "absent", "sending", "waiting", or "gone"
  upstream,  \* per exchange: "none", "asked", "streaming", "draining", or "closed"
  asks,      \* per exchange: the upstream that was asked
  reply,     \* per exchange: "none", "started", "ended", or "cut"
  answers,   \* per exchange: status lines sent to the client
  leftEarly  \* per exchange: did its client leave before the upstream answered?

exchangeVars == <<kind, route, client, upstream, asks, reply, answers, leftEarly>>

ExchangeTypeOK ==
  /\ kind \in [Exchange -> Kind]
  /\ route \in Upstream \cup {Unrouted}
  /\ client \in [Exchange -> {"absent", "sending", "waiting", "gone"}]
  /\ upstream \in [Exchange -> {"none", "asked", "streaming", "draining", "closed"}]
  /\ asks \in [Exchange -> Upstream \cup {Unrouted}]
  /\ reply \in [Exchange -> {"none", "started", "ended", "cut"}]
  /\ answers \in [Exchange -> 0..MaxAnswers]
  /\ leftEarly \in [Exchange -> BOOLEAN]
  /\ \A e \in Exchange : upstream[e] # "none" => asks[e] \in Upstream

ExchangeInit ==
  /\ kind \in [Exchange -> Kind]
  /\ route \in Upstream \cup {Unrouted}
  /\ client = [e \in Exchange |-> "absent"]
  /\ upstream = [e \in Exchange |-> "none"]
  /\ asks = [e \in Exchange |-> Unrouted]
  /\ reply = [e \in Exchange |-> "none"]
  /\ answers = [e \in Exchange |-> 0]
  /\ leftEarly = [e \in Exchange |-> FALSE]

Gone(e) == client[e] = "gone"

\* writeHead and respond: the status line goes out, unless the client is gone.
Respond(e, then) ==
  /\ reply' = [reply EXCEPT ![e] = IF Gone(e) THEN @ ELSE then]
  /\ answers' = [answers EXCEPT ![e] = IF Gone(e) \/ @ = MaxAnswers THEN @ ELSE @ + 1]

\* Mistake to be caught: a diagnostic is sent although a status line has gone out.
SendAnyway(e) == Respond(e, "ended")

\* sendDiagnostic, sendSocketDiagnostic, sendHttp2StreamDiagnostic: after the status
\* line the reply is cut off; after the end of a reply nothing more is written.
SendDiagnostic(e) ==
  IF reply[e] = "none" THEN Respond(e, "ended")
  ELSE /\ reply' = [reply EXCEPT ![e] = IF @ = "started" THEN "cut" ELSE @]
       /\ UNCHANGED answers

\* response.destroy and closeHttp2Stream.
Cut(e) ==
  /\ reply' = [reply EXCEPT ![e] = IF @ = "ended" \/ Gone(e) THEN @ ELSE "cut"]
  /\ UNCHANGED answers

Close(e) == upstream' = [upstream EXCEPT ![e] = "closed"]

-----------------------------------------------------------------------------

\* A route is registered, taken over or removed, at any time.
ChangeRoute ==
  /\ route' \in (Upstream \cup {Unrouted}) \ {route}
  /\ UNCHANGED <<kind, client, upstream, asks, reply, answers, leftEarly>>

\* Mistake to be caught: a request is passed on although its host has no route.
ArriveUnrouted(e) ==
  /\ client[e] = "absent"
  /\ client' = [client EXCEPT ![e] = "waiting"]
  /\ upstream' = [upstream EXCEPT ![e] = "asked"]
  /\ asks' = [asks EXCEPT ![e] = route]
  /\ UNCHANGED <<kind, route, reply, answers, leftEarly>>

\* A request that has been through the proxy already, or without a route, is
\* answered at once.  HTTP/2 streams are not looked at for the mark of the proxy.
Arrive(e) ==
  /\ client[e] = "absent"
  /\ client' = [client EXCEPT ![e] = IF kind[e] \in {"request", "stream"} THEN "sending" ELSE "waiting"]
  /\ \/ kind[e] \notin OfHttp2 /\ SendDiagnostic(e) /\ UNCHANGED <<upstream, asks>>
     \/ route = Unrouted /\ SendDiagnostic(e) /\ UNCHANGED <<upstream, asks>>
     \/ /\ route # Unrouted
        /\ upstream' = [upstream EXCEPT ![e] = "asked"]
        /\ asks' = [asks EXCEPT ![e] = route]
        /\ UNCHANGED <<reply, answers>>
  /\ UNCHANGED <<kind, route, leftEarly>>

\* The end of the client's body ends the upstream request.
ClientSent(e) ==
  /\ client[e] = "sending"
  /\ client' = [client EXCEPT ![e] = "waiting"]
  /\ UNCHANGED <<kind, route, upstream, asks, reply, answers, leftEarly>>

\* The client leaves, or its connection is cut.  Before the answer that destroys the
\* request to the upstream when it is a stream, or still being sent.
NoticesEarly(e) == kind[e] = "stream" \/ (kind[e] = "request" /\ client[e] = "sending")

ClientLeaves(e) ==
  /\ client[e] \in {"sending", "waiting"}
  /\ client' = [client EXCEPT ![e] = "gone"]
  /\ reply' = [reply EXCEPT ![e] = IF @ = "ended" THEN @ ELSE "cut"]
  /\ upstream' = [upstream EXCEPT ![e] = IF @ = "streaming" \/ (@ = "asked" /\ NoticesEarly(e))
                                         THEN "closed" ELSE @]
  /\ leftEarly' = [leftEarly EXCEPT ![e] = upstream[e] = "asked"]
  /\ UNCHANGED <<kind, route, asks, answers>>

\* Mistake to be caught: an HTTP/2 stream is not asked whether it is still there.
StreamsAnyway(e) == FALSE

\* respondHttp2Stream failed: the upstream is let go.
CannotRespond(e) == kind[e] \in OfHttp2 /\ Gone(e)

\* 'response' of a plain request, 'upgrade' of a WebSocket.
UpstreamAnswers(e) ==
  /\ upstream[e] = "asked"
  /\ upstream' = [upstream EXCEPT ![e] = IF CannotRespond(e) THEN "closed" ELSE "streaming"]
  /\ Respond(e, "started")
  /\ UNCHANGED <<kind, route, client, asks, leftEarly>>

\* An upgrade is answered with a 'response', which is read to its end; or, over
\* HTTP/2, with the wrong accept key.
UpstreamRejects(e) ==
  /\ upstream[e] = "asked"
  /\ \/ kind[e] \notin {"request", "stream"} /\ upstream' = [upstream EXCEPT ![e] = "draining"]
     \/ kind[e] = "websocket" /\ Close(e)
  /\ SendDiagnostic(e)
  /\ UNCHANGED <<kind, route, client, asks, leftEarly>>

\* 'error' of the upstream request: before its answer a diagnostic, after it a cut.
UpstreamFails(e) ==
  /\ \/ upstream[e] \in {"asked", "draining"} /\ SendDiagnostic(e)
     \/ upstream[e] = "streaming" /\ Cut(e)
  /\ Close(e)
  /\ UNCHANGED <<kind, route, client, asks, leftEarly>>

\* The answer has ended, with its trailers; or the WebSocket was closed.
UpstreamEnds(e) ==
  /\ upstream[e] = "streaming"
  /\ IF kind[e] \in {"request", "stream"}
     THEN reply' = [reply EXCEPT ![e] = IF Gone(e) THEN @ ELSE "ended"] /\ UNCHANGED answers
     ELSE Cut(e)
  /\ Close(e)
  /\ UNCHANGED <<kind, route, client, asks, leftEarly>>

ExchangeNext ==
  \/ ChangeRoute
  \/ \E e \in Exchange :
       \/ Arrive(e) \/ ClientSent(e) \/ ClientLeaves(e)
       \/ UpstreamAnswers(e) \/ UpstreamRejects(e) \/ UpstreamFails(e) \/ UpstreamEnds(e)

ExchangeSpec == ExchangeInit /\ [][ExchangeNext]_exchangeVars

-----------------------------------------------------------------------------
(* Properties.                                                             *)

\* A client is sent one status line, whatever the upstream does and in whichever
\* order: an upgrade that is rejected may fail afterwards.
AnsweredOnce == \A e \in Exchange : answers[e] <= 1

\* The two sides of an exchange go together: an upstream does not go on when its
\* client has left.  Over HTTP/1 that takes a client that has not left before the
\* answer: nothing there asks whether it is still listening.
TornDownTogether ==
  \A e \in Exchange :
    /\ upstream[e] = "streaming" => client[e] # "gone" \/ (kind[e] \notin OfHttp2 /\ leftEarly[e])
    /\ upstream[e] = "closed" => reply[e] \in {"ended", "cut"}
=============================================================================
