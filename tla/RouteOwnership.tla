--------------------------- MODULE RouteOwnership ---------------------------
(***************************************************************************)
(* What the control service promises about hostnames, with no connections, *)
(* owners, queues or messages: a route lives on a lease.  The newest claim *)
(* of a hostname wins whoever holds it, a lease gives up only what it      *)
(* holds itself, and a lease that ends takes all of its routes with it and *)
(* never claims again.                                                     *)
(***************************************************************************)
CONSTANTS
  Hostname,
  Lease,
  Nobody     \* holds a hostname that no lease holds

VARIABLES
  holder,    \* per hostname: the lease that holds it, or Nobody
  ended      \* the leases that are over

ownershipVars == <<holder, ended>>

OwnershipInit ==
  /\ holder = [h \in Hostname |-> Nobody]
  /\ ended = {}

\* The hostnames hs go to this holder, the others stay where they are.
GiveTo(newHolder, hs) ==
  holder' = [h \in Hostname |-> IF h \in hs THEN newHolder ELSE holder[h]]

Claim(lease, hs) ==
  /\ lease \notin ended
  /\ GiveTo(lease, hs)
  /\ UNCHANGED ended

Release(lease, hs) ==
  /\ \A h \in hs : holder[h] = lease
  /\ GiveTo(Nobody, hs)
  /\ UNCHANGED ended

Expire(lease) ==
  /\ ended' = ended \cup {lease}
  /\ GiveTo(Nobody, {h \in Hostname : holder[h] = lease})

OwnershipNext ==
  \E lease \in Lease :
    \/ \E hs \in SUBSET Hostname : Claim(lease, hs) \/ Release(lease, hs)
    \/ Expire(lease)

OwnershipSpec == OwnershipInit /\ [][OwnershipNext]_ownershipVars
=============================================================================
