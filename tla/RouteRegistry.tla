--------------------------- MODULE RouteRegistry ---------------------------
(***************************************************************************)
(* The route table of the daemon (route-registry.ts): which owner holds    *)
(* which hostname, under which lease.  A lease is the id of the control    *)
(* connection that registered the route.  The table is a function from     *)
(* hostnames; the operators return the new table, and the module that      *)
(* holds the table as a variable assigns it.                               *)
(*                                                                         *)
(* The upstream of a route (host, port, header, CORS) is left out: nothing *)
(* here reads it.  The 'direct' lease and the calls without a lease, which *)
(* control-server.ts never makes, are left out too.                        *)
(***************************************************************************)
EXTENDS FiniteSets

CONSTANTS
  Hostname,     \* the hostnames that projects claim
  OwnerToken,   \* one random token per Vite plugin instance
  Lease,        \* the ids of the connections
  NoRoute       \* what the table holds for a hostname nobody has registered

ActiveRoute == [ownerToken : OwnerToken, leaseId : Lease]

ASSUME NoRouteAssumption == NoRoute \notin ActiveRoute /\ NoRoute \notin Lease

RouteTable == [Hostname -> ActiveRoute \cup {NoRoute}]

EmptyTable == [h \in Hostname |-> NoRoute]

Registered(table) == {h \in Hostname : table[h] # NoRoute}

Size(table) == Cardinality(Registered(table))

\* Mistake to be caught: the routes are returned instead of their hostnames.
RoutesForHostnames(table, owner, hs, lease) == {table[h] : h \in hs}

\* The hostnames of hs that owner holds under this lease.
ActiveHostnames(table, owner, hs, lease) ==
  {h \in hs : table[h] = [ownerToken |-> owner, leaseId |-> lease]}

\* registerMany: the newest registration of a hostname always wins.
RegisterMany(table, owner, hs, lease) ==
  [h \in Hostname |-> IF h \in hs THEN [ownerToken |-> owner, leaseId |-> lease]
                                  ELSE table[h]]

\* The hostnames that registering hs for owner takes from another owner.  The
\* same owner registering again, on whatever connection, takes over nothing.
TakenFrom(table, owner, hs, previousOwner) ==
  {h \in hs : /\ table[h] # NoRoute
              /\ table[h].ownerToken = previousOwner
              /\ previousOwner # owner}

Without(table, hs) == [h \in Hostname |-> IF h \in hs THEN NoRoute ELSE table[h]]

\* Mistake to be caught: the hostnames are unregistered whoever holds them.
UnregisterWhoever(table, owner, hs, lease) == Without(table, hs)

\* unregisterMany: only what the owner still holds under this lease.
UnregisterMany(table, owner, hs, lease) ==
  Without(table, ActiveHostnames(table, owner, hs, lease))

\* Mistake to be caught: the owner's routes go, whatever their lease.
UnregisterWhateverLease(table, owners, lease) ==
  Without(table, {h \in Registered(table) : table[h].ownerToken \in owners})

\* unregisterOwner for each of a connection's owner tokens.
UnregisterOwners(table, owners, lease) ==
  Without(table, {h \in Registered(table) : /\ table[h].leaseId = lease
                                            /\ table[h].ownerToken \in owners})
=============================================================================
