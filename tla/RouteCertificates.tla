------------------------- MODULE RouteCertificates -------------------------
(***************************************************************************)
(* Which certificate a host is served with.  `cert import` keeps one       *)
(* directory per host (certificate-import.ts), which it replaces by two    *)
(* renames; `cert remove` deletes it.  The daemon reads it when a route is *)
(* registered, decides by the policy of the route, and gives both          *)
(* listeners a context for the host (daemon.ts, certificate-policy.ts); a  *)
(* handshake takes that context while the host has a route                 *)
(* (proxy-server.ts, createSecureProxyServer).                             *)
(*                                                                         *)
(* Commands run side by side with each other and with the daemon, with no  *)
(* lock; every rename, unlink and read of a file is a step.  Registrations *)
(* are taken up one at a time (control-server.ts).  A certificate is told  *)
(* by the command that imported it.                                        *)
(***************************************************************************)
EXTENDS Naturals, FiniteSets, Functions

CONSTANTS
  Host,
  Automation,  \* the hosts whose names are local for certain, like *.localhost
  Command,     \* the runs of `cert import` and `cert remove`
  Duties,      \* the assignments of a duty to each command
  MaxRequests, \* registrations taken up, a bound
  None

Duty == [does : {"import", "remove"}, host : Host]

Part == {"record", "certificate", "key", "chain"}

ASSUME CertificatesAssumption ==
  /\ Automation \subseteq Host
  /\ Duties \subseteq [Command -> Duty]
  /\ MaxRequests \in Nat
  /\ None \notin Command \cup {"local"} \cup [Part -> Command]

Directory == [Part -> Command \cup {None}]
Listener == {"ipv4", "ipv6"}

\* A context made from the local authority, or of an imported certificate.
Context == Command \cup {"local"}

VARIABLES
  duty,      \* per command: what it does
  stage,     \* per command: how far it has got
  stored,    \* per host: the directory of its imported certificate
  aside,     \* per command: the directory it has moved aside
  asked,     \* the registration being validated: per host, is internalTls off?
  round,     \* per host of it: which reading of the files goes on, or how that ended
  got,       \* per host of it: the files read in this round, and whose they are
  contexts,  \* per listener and host: its context
  routes,    \* per host: None, or is internalTls off for its route?
  requests,  \* registrations taken up
  lost,      \* history: a removal ran, or a command died between its renames
  partly     \* history: a registration failed after it had given some contexts

importVars == <<duty, stage, stored, aside, lost>>
daemonVars == <<asked, round, got, contexts, routes, requests, partly>>
certificateVars == <<importVars, daemonVars>>

Rounds == {"find", "read", "local", "ready", "rejected"}

CertificatesTypeOK ==
  /\ duty \in Duties
  /\ stage \in [Command -> {"start", "written", "aside", "swapped", "restore", "removing",
                            "done", "failed"}]
  /\ stored \in [Host -> Directory \cup {None}]
  /\ aside \in [Command -> Directory \cup {None}]
  /\ DOMAIN asked \subseteq Host /\ Range(asked) \subseteq BOOLEAN
  /\ round \in [DOMAIN asked -> Rounds]
  /\ DOMAIN got = DOMAIN asked
  /\ \A h \in DOMAIN got : DOMAIN got[h] \subseteq Part /\ Range(got[h]) \subseteq Command \cup {None}
  /\ contexts \in [Listener -> [Host -> Context \cup {None}]]
  /\ routes \in [Host -> BOOLEAN \cup {None}]
  /\ requests \in 0..MaxRequests
  /\ {lost, partly} \subseteq BOOLEAN

Nobody == [h \in {} |-> None]

\* The hosts have no routes yet, or all of them have one that uses the local authority.
CertificatesInit ==
  /\ duty \in Duties
  /\ stage = [c \in Command |-> "start"]
  /\ stored = [h \in Host |-> None]
  /\ aside = [c \in Command |-> None]
  /\ asked = Nobody /\ round = Nobody /\ got = Nobody
  /\ \E before \in {None, "local"} :
       /\ contexts = [l \in Listener |-> [h \in Host |-> before]]
       /\ routes = [h \in Host |-> IF before = None THEN None ELSE FALSE]
  /\ requests = 0 /\ lost = FALSE /\ partly = FALSE

Of(c) == duty[c].host

Whole(c) == [f \in Part |-> c]

IsWhole(d) == d # None /\ \E c \in Command : d = Whole(c)

\* A rename replaces nothing but an empty directory.
Free(h) == stored[h] \in {None, [f \in Part |-> None]}

Stage(c, from, to) == stage[c] = from /\ stage' = [stage EXCEPT ![c] = to]

-----------------------------------------------------------------------------
(* importCertificate.                                                      *)

\* The sources are valid and a directory of its own is complete; or they are not.
Prepare(c) ==
  /\ duty[c].does = "import"
  /\ Stage(c, "start", "written") \/ Stage(c, "start", "failed")
  /\ UNCHANGED <<duty, stored, aside, lost, daemonVars>>

MoveAside(c) ==
  /\ Stage(c, "written", "aside")
  /\ aside' = [aside EXCEPT ![c] = stored[Of(c)]]
  /\ stored' = [stored EXCEPT ![Of(c)] = None]
  /\ UNCHANGED <<duty, lost, daemonVars>>

MoveIn(c) ==
  /\ Stage(c, "aside", "swapped") /\ Free(Of(c))
  /\ stored' = [stored EXCEPT ![Of(c)] = Whole(c)]
  /\ UNCHANGED <<duty, aside, lost, daemonVars>>

\* Another import has moved its own in meanwhile, or the rename fails.
MoveInFails(c) ==
  /\ Stage(c, "aside", "restore")
  /\ UNCHANGED <<duty, stored, aside, lost, daemonVars>>

DropBackup(c) ==
  /\ Stage(c, "swapped", "done")
  /\ aside' = [aside EXCEPT ![c] = None]
  /\ UNCHANGED <<duty, stored, lost, daemonVars>>

DropFails(c) ==
  /\ Stage(c, "swapped", "restore")
  /\ UNCHANGED <<duty, stored, aside, lost, daemonVars>>

\* Mistake to be caught: the directory that was moved aside stays there.
LeaveAside(c) ==
  /\ Stage(c, "restore", "failed")
  /\ UNCHANGED <<duty, stored, aside, lost, daemonVars>>

\* What was moved aside is moved back, when that is possible.
Restore(c) ==
  /\ Stage(c, "restore", "failed")
  /\ IF aside[c] # None /\ Free(Of(c))
     THEN /\ stored' = [stored EXCEPT ![Of(c)] = aside[c]]
          /\ aside' = [aside EXCEPT ![c] = None]
     ELSE UNCHANGED <<stored, aside>>
  /\ UNCHANGED <<duty, lost, daemonVars>>

-----------------------------------------------------------------------------
(* removeCertificate: file by file, by path.                               *)

\* getCertificate gives a record when the certificate and the key are a pair.
Usable(d) == d # None /\ d["record"] # None /\ d["key"] # None /\ d["key"] = d["certificate"]

FindToRemove(c) ==
  /\ duty[c].does = "remove"
  /\ \/ Usable(stored[Of(c)]) /\ Stage(c, "start", "removing") /\ lost' = TRUE
     \/ ~Usable(stored[Of(c)]) /\ Stage(c, "start", "done") /\ UNCHANGED lost
  /\ UNCHANGED <<duty, stored, aside, daemonVars>>

RemoveFile(c) ==
  /\ stage[c] = "removing" /\ ~Free(Of(c))
  /\ \E f \in Part :
       /\ stored[Of(c)][f] # None
       /\ stored' = [stored EXCEPT ![Of(c)][f] = None]
  /\ UNCHANGED <<duty, stage, aside, lost, daemonVars>>

RemoveDirectory(c) ==
  /\ Stage(c, "removing", "done") /\ Free(Of(c))
  /\ stored' = [stored EXCEPT ![Of(c)] = None]
  /\ UNCHANGED <<duty, aside, lost, daemonVars>>

\* A command is killed; what it has moved aside stays there.
Kill(c) ==
  /\ stage[c] \notin {"done", "failed"}
  /\ stage' = [stage EXCEPT ![c] = "failed"]
  /\ lost' = (lost \/ stage[c] \in {"aside", "restore"})
  /\ UNCHANGED <<duty, stored, aside, daemonVars>>

-----------------------------------------------------------------------------
(* #validateRoutes and registerMany.                                       *)

\* resolveCertificatePolicy, for a host whose certificate has been looked for.
Policy(h, internalTlsOff) == IF internalTlsOff /\ h \notin Automation THEN "imported" ELSE "local"

\* A registration is taken up.  Whether a host whose policy is "local" has an imported
\* certificate is looked up as well, and makes no difference.
Ask ==
  /\ asked = Nobody /\ requests < MaxRequests
  /\ \E hosts \in SUBSET Host \ {{}} : asked' \in [hosts -> BOOLEAN]
  /\ round' = [h \in DOMAIN asked' |-> IF Policy(h, asked'[h]) = "local" THEN "local" ELSE "find"]
  /\ got' = [h \in DOMAIN asked' |-> [f \in {} |-> None]]
  /\ requests' = requests + 1
  /\ UNCHANGED <<importVars, contexts, routes, partly>>

\* getCertificate reads the record and then the certificate and the key, side by
\* side; readSecureContextOptions reads the key and the chain after that.
\* (getCertificate is called twice with the same outcome required: once here.)
FilesOf(r) == IF r = "read" THEN {"key", "chain"} ELSE {"record", "certificate", "key"}

Unread(h) ==
  IF round[h] = "find" /\ "record" \notin DOMAIN got[h] THEN {"record"}
  ELSE FilesOf(round[h]) \ DOMAIN got[h]

ReadFile(h) ==
  /\ h \in DOMAIN asked /\ round[h] \in {"find", "read"}
  /\ \E f \in Unread(h) :
       got' = [got EXCEPT ![h] =
                 [g \in DOMAIN @ \cup {f} |-> IF g # f THEN @[g]
                                              ELSE IF stored[h] = None THEN None ELSE stored[h][f]]]
  /\ UNCHANGED <<importVars, asked, round, contexts, routes, requests, partly>>

\* Without a usable certificate the request is rejected: CERTIFICATE_REQUIRED.
EndRound(h) ==
  /\ h \in DOMAIN asked /\ round[h] \in {"find", "read"}
  /\ DOMAIN got[h] = FilesOf(round[h])
  /\ LET found == /\ None \notin Range(got[h])
                  /\ round[h] = "find" => got[h]["key"] = got[h]["certificate"]
     IN round' = [round EXCEPT ![h] = IF ~found THEN "rejected"
                                      ELSE IF @ = "find" THEN "read" ELSE "ready"]
  /\ got' = [got EXCEPT ![h] = IF round[h] = "find" THEN [f \in {} |-> None] ELSE @]
  /\ UNCHANGED <<importVars, asked, contexts, routes, requests, partly>>

\* The local authority makes a leaf certificate, or fails to.
MakeLocal(h) ==
  /\ h \in DOMAIN asked /\ round[h] = "local"
  /\ \E r \in {"ready", "rejected"} : round' = [round EXCEPT ![h] = r]
  /\ UNCHANGED <<importVars, asked, got, contexts, routes, requests, partly>>

\* Mistake to be caught: what was read for a request outlives it.
ForgottenButRead == asked' = Nobody /\ round' = Nobody /\ UNCHANGED got

Forgotten == asked' = Nobody /\ round' = Nobody /\ got' = Nobody

\* The first host that cannot be prepared rejects the request.
Reject ==
  /\ \E h \in DOMAIN asked : round[h] = "rejected"
  /\ Forgotten
  /\ UNCHANGED <<importVars, contexts, routes, requests, partly>>

AllReady == asked # Nobody /\ \A h \in DOMAIN asked : round[h] = "ready"

\* createSecureContext throws when the chain is not that of the key.
Matches(h) == DOMAIN got[h] # {} => got[h]["key"] = got[h]["chain"]

Made(h) == IF DOMAIN got[h] = {} THEN "local" ELSE got[h]["key"]

\* Mistake to be caught: one of the two listeners is left out.
OnlyIpv4(hosts) ==
  [contexts EXCEPT !["ipv4"] = [h \in Host |-> IF h \in hosts THEN Made(h) ELSE @[h]]]

WithContexts(hosts) ==
  [l \in Listener |-> [h \in Host |-> IF h \in hosts THEN Made(h) ELSE contexts[l][h]]]

\* Both listeners get a context for every host, and the routes are registered.
Register ==
  /\ AllReady /\ \A h \in DOMAIN asked : Matches(h)
  /\ contexts' = WithContexts(DOMAIN asked)
  /\ routes' = [h \in Host |-> IF h \in DOMAIN asked THEN asked[h] ELSE routes[h]]
  /\ Forgotten
  /\ UNCHANGED <<importVars, requests, partly>>

\* A context cannot be made: the hosts before it keep theirs, no route is registered.
RegisterFails ==
  /\ AllReady /\ \E h \in DOMAIN asked : ~Matches(h)
  /\ \E first \in SUBSET {h \in DOMAIN asked : Matches(h)} :
       /\ contexts' = WithContexts(first)
       /\ partly' = (partly \/ first # {})
  /\ Forgotten
  /\ UNCHANGED <<importVars, routes, requests>>

Unregister(h) ==
  /\ routes[h] # None
  /\ routes' = [routes EXCEPT ![h] = None]
  /\ UNCHANGED <<importVars, asked, round, got, contexts, requests, partly>>

CertificatesNext ==
  \/ \E c \in Command :
       \/ Prepare(c) \/ MoveAside(c) \/ MoveIn(c) \/ MoveInFails(c) \/ DropBackup(c)
       \/ DropFails(c) \/ Restore(c)
       \/ FindToRemove(c) \/ RemoveFile(c) \/ RemoveDirectory(c) \/ Kill(c)
  \/ Ask \/ Reject \/ Register \/ RegisterFails
  \/ \E h \in Host : ReadFile(h) \/ EndRound(h) \/ MakeLocal(h) \/ Unregister(h)

CertificatesSpec == CertificatesInit /\ [][CertificatesNext]_certificateVars

-----------------------------------------------------------------------------
(* Properties.                                                             *)

\* What selectContext gives a handshake for h on listener l.
Served(l, h) == IF routes[h] # None /\ contexts[l][h] # None THEN contexts[l][h] ELSE "default"

\* A routed host is served by the same certificate on both addresses, never by
\* the bootstrap one, and by an imported one exactly when its route asks for it,
\* whatever commands run.  It takes a registration that fails half way, whose
\* certificate was replaced under its hands, to break that.
ServesItsPolicy ==
  ~partly => \A h \in Host : routes[h] # None =>
    /\ Served("ipv4", h) = Served("ipv6", h)
    /\ Served("ipv4", h) \in (IF routes[h] /\ h \notin Automation THEN Command ELSE {"local"})

\* An import is all or nothing, also next to another one: once one has succeeded,
\* a host has a whole certificate whenever none is between its two renames.  It
\* takes a removal, or a kill between the renames, to lose it.
ImportIsAllOrNothing ==
  ~lost => \A h \in Host :
    /\ \E c \in Command : Of(c) = h /\ duty[c].does = "import" /\ stage[c] = "done"
    /\ \A c \in Command : Of(c) = h => stage[c] \notin {"aside", "restore"}
    => IsWhole(stored[h])
=============================================================================
