-------------------------- MODULE MCControlServer --------------------------
(***************************************************************************)
(* Instances of ControlServer for TLC.  Owner a reconnects (c1, c2), owner *)
(* b competes for its hostnames (c3).                                      *)
(***************************************************************************)
EXTENDS ControlServer, TLC

CONSTANTS a, b, c1, c2, c3

Owners == [c \in Connection |-> IF c = c3 THEN {b} ELSE {a}]

RouteRequestsOf(kinds) ==
  [type : kinds, ownerToken : OwnerToken, hostnames : SUBSET Hostname \ {{}}]

\* What decides who holds a route: registrations and removals.
OwnershipRequests == RouteRequestsOf({"register", "unregister"})

\* Every kind of frame; registrations of any hostnames, the rest of all.
MixedRequests ==
       RouteRequestsOf({"register"}) \cup PlainRequest
  \cup [type : {"unregister", "heartbeat"}, ownerToken : OwnerToken, hostnames : {Hostname}]

\* Registrations and the idle stop.
StopRequests == RouteRequestsOf({"register"}) \cup [type : {"stop-if-idle"}]

Symmetric == Permutations({c1, c2})
=============================================================================
