------------------------------ MODULE MCServing ------------------------------
(***************************************************************************)
(* Instances for TLC of three things that go on beside each other: the     *)
(* nested authorization locks, the certificates hosts are served with, and *)
(* the requests the proxy passes on.  They share no state, so a behaviour  *)
(* is a scene of one of them, and the variables of the others keep one of  *)
(* their initial values.                                                   *)
(***************************************************************************)
EXTENDS StartupLock, RouteCertificates, ProxyExchange

CONSTANTS h1, h2

\* Two imports for one host; an import for it beside a removal.
MCDuties ==
  {[c \in Command |-> [does |-> "import", host |-> h1]]}
  \cup {[c \in Command |-> [does |-> IF c = r THEN "remove" ELSE "import", host |-> h1]] : r \in Command}

VARIABLE scene

SomeDuty == CHOOSE d \in Duties : TRUE
SomeUpstream == CHOOSE u \in Upstream : TRUE

ServingInit ==
  /\ scene \in {"locks", "certificates", "exchanges"}
  /\ scene # "exchanges"    => kind = [e \in Exchange |-> "request"] /\ route = SomeUpstream
  /\ Init /\ CertificatesInit /\ ExchangeInit
  /\ scene # "certificates" => duty = SomeDuty /\ \A h \in Host : routes[h] = None

servingVars == <<scene, vars, certificateVars, exchangeVars>>

Locks(A) == scene = "locks" /\ A /\ UNCHANGED <<scene, certificateVars, exchangeVars>>

ServingNext ==
  \/ Locks(Next)
  \/ scene = "certificates" /\ CertificatesNext /\ UNCHANGED <<scene, vars, exchangeVars>>
  \/ scene = "exchanges"    /\ ExchangeNext     /\ UNCHANGED <<scene, vars, certificateVars>>

\* The fairness of StartupLock; the other two scenes have no liveness property.
ServingFairness ==
  /\ \A p \in Process  : WF_servingVars(Locks(Step(p)))
  /\ \A l \in LockPath : WF_servingVars(Locks(Age(l)))

ServingSpec == ServingInit /\ [][ServingNext]_servingVars /\ ServingFairness
=============================================================================
