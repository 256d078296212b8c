--------------------------- MODULE ControlClient ---------------------------
(***************************************************************************)
(* The client side of the control connections (control-client.ts), over    *)
(* the server of ControlServer.  A plugin makes a new ControlClient for    *)
(* every connection, so a client is named by its connection.               *)
(*                                                                         *)
(* The definitions below are parts of actions: the module that holds the   *)
(* plugins combines them with what the plugin does when a promise of its   *)
(* client settles, which Node runs before anything else happens.           *)
(*                                                                         *)
(* What a client writes reaches the server's socket at once and waits      *)
(* there in frames; what the server writes waits in inbox.  The server     *)
(* answers the frames of one connection in their order, so an answer       *)
(* belongs to the oldest unanswered request, which stands for the request  *)
(* ids.                                                                    *)
(***************************************************************************)
EXTENDS ControlServer, SequencesExt

VARIABLES
  link,      \* per client: #socket, and how far connect() or close() has come
  claimed,   \* per client: #claimedHostnames
  pending,   \* per client: the requests the server has not answered
  inbox,     \* per client: what the server wrote and the client has not handled
  closing    \* per client: #closing

clientVars == <<link, claimed, pending, inbox, closing>>

\* "abandoned" is a request whose timer fired: its answer will be ignored.
PendingRequest == [type : {"register", "unregister", "heartbeat", "abandoned"},
                   hostnames : SUBSET Hostname]

\* "unregistering": close() awaits its unregister; "ending": it awaits 'close'.
Link == {"none", "connecting", "connected", "unregistering", "ending", "gone"}

ClientTypeOK ==
  /\ link \in [Connection -> Link]
  /\ claimed \in [Connection -> SUBSET Hostname]
  /\ pending \in [Connection -> Seq(PendingRequest)]
  /\ inbox \in [Connection -> Seq(ServerMessage)]
  /\ closing \in [Connection -> BOOLEAN]

ClientInit ==
  /\ link = [c \in Connection |-> "none"]
  /\ claimed = [c \in Connection |-> {}]
  /\ pending = [c \in Connection |-> <<>>]
  /\ inbox = [c \in Connection |-> <<>>]
  /\ closing = [c \in Connection |-> FALSE]

-----------------------------------------------------------------------------
(* Writing.                                                                *)

ServerUndisturbed ==
  /\ sent' = Silence
  /\ UNCHANGED <<registryVars, connectionVars, frames, queue, validating, daemonVars>>

\* A write or an end on a socket whose other side is gone is lost.
Transmit(c, request) == IF socket[c] = "open" THEN Receive(c, request) ELSE ServerUndisturbed
HangUp(c) == IF socket[c] = "open" THEN EndEvent(c) ELSE ServerUndisturbed

\* #request: it joins the requests still pending on c.
Request(c, owner, type, hs, stillPending) ==
  /\ pending' = [pending EXCEPT ![c] = Append(stillPending,
                                               [type |-> type, hostnames |-> hs])]
  /\ Transmit(c, [type |-> type, ownerToken |-> owner, hostnames |-> hs])

\* close(), by a client that claims these hostnames.  A client that is not
\* connected, because connect() has not resolved or the connection is lost,
\* has nothing to end.
Close(c, owner, claims, stillPending) ==
  /\ closing' = [closing EXCEPT ![c] = TRUE]
  /\ \/ /\ link[c] = "connected" /\ claims # {}
        /\ link' = [link EXCEPT ![c] = "unregistering"]
        /\ Request(c, owner, "unregister", claims, stillPending)
     \/ /\ link[c] = "connected" /\ claims = {}
        /\ link' = [link EXCEPT ![c] = "ending"]
        /\ pending' = [pending EXCEPT ![c] = stillPending]
        /\ HangUp(c)
     \/ /\ link[c] # "connected"
        /\ pending' = [pending EXCEPT ![c] = <<>>]
        /\ UNCHANGED link
        /\ ServerUndisturbed

\* The unregister of close() has settled, however it did.
EndAfterUnregister(c, stillPending) ==
  /\ link' = [link EXCEPT ![c] = "ending"]
  /\ pending' = [pending EXCEPT ![c] = stillPending]
  /\ HangUp(c)

-----------------------------------------------------------------------------
(* Reading: #handleData, over the frames of one chunk.  The losses in a    *)
(* chunk are handled at once, the promise that an answer settles resumes   *)
(* only afterwards: losses that share a chunk with an answer before them   *)
(* take effect before it.                                                  *)

Attached(c) == link[c] \in {"connected", "unregistering", "ending"}

IsLoss(message) == message.type = "route-lost"

\* The next chunk of c is one answer and then n losses.
AnswerChunk(c, n) ==
  /\ Attached(c)
  /\ n \in 0..(Len(inbox[c]) - 1)
  /\ ~IsLoss(Head(inbox[c]))
  /\ \A i \in 2..(n + 1) : IsLoss(inbox[c][i])
  /\ inbox' = [inbox EXCEPT ![c] = SubSeq(@, n + 2, Len(@))]

LostIn(c, n) == UNION {inbox[c][i].hostnames : i \in 2..(n + 1)}

\* The answer is for a request of this type that has not been abandoned.
Answers(c, type) == pending[c] # <<>> /\ Head(pending[c]).type = type

\* Mistake to be caught: the answer is not recorded.
OnlyLosses(c, n) == claimed[c] \ LostIn(c, n)

\* register: what the answer lists, even what the same chunk has just lost.
ClaimedAfterRegistered(c, n) == (claimed[c] \ LostIn(c, n)) \cup Head(inbox[c]).hostnames

\* The hostnames of a heartbeat that its answer does not confirm.
Unconfirmed(c) ==
  IF Answers(c, "heartbeat") THEN Head(pending[c]).hostnames \ Head(inbox[c]).hostnames
  ELSE {}
=============================================================================
