------------------------------ MODULE MCMachine ------------------------------
(***************************************************************************)
(* Instances for TLC of what changes a machine: starting and stopping the  *)
(* daemon, its certificate authority, and its startup service, with the    *)
(* order of versions that the last depends on.  The modules share no       *)
(* state but the lock file, so a behaviour is a scene of one of them, and  *)
(* the variables of the others keep one of their initial values.           *)
(***************************************************************************)
EXTENDS ServiceStartup, MCAuthority, MCInstallation, ServiceVersion

Quiet == [callers |-> {p1, p2}, stoppers |-> {}, old |-> Nobody,
          exits |-> FALSE, signals |-> FALSE, routes |-> FALSE, faults |-> FALSE]

MCCasts ==
  {[Quiet EXCEPT !.stoppers = {p3}, !.faults = TRUE, !.routes = TRUE],   \* a start races `proxy stop`, anything may fail
   [Quiet EXCEPT !.old = p3, !.routes = TRUE],                           \* an idle old daemon is replaced
   [Quiet EXCEPT !.signals = TRUE, !.stoppers = {p3}],                   \* stopped twice
   [Quiet EXCEPT !.callers = {p1, p2, p3}],                              \* three contenders
   [Quiet EXCEPT !.exits = TRUE]}                                        \* processes end anywhere

\* Identifiers: 9, 10, 01 (which no version may have), a, 1a.
Nine == <<9>>    Ten == <<1, 0>>    Padded == <<0, 1>>    Word == <<97>>    Tag == <<1, 97>>

TooLarge == [core |-> <<1, 0, 11>>, prerelease |-> Release]

MCCandidates ==
  [core : {<<1, 0, 9>>, <<1, 0, 10>>, <<1, 1, 0>>},
   prerelease : {Release} \cup {<<i>> : i \in {Nine, Ten, Padded, Word, Tag}}
                          \cup {<<i, j>> : i \in {Nine, Word}, j \in {Nine, Ten, Word}}]
  \cup {TooLarge}

VARIABLE scene

ownAuthority == <<setting, place, authority, files, leafs, store, history>>

\* Each scene but one is in its first state.
MachineInit ==
  /\ scene \in {"startup", "authority", "installation", "versions"}
  /\ scene # "startup"      => cast = [Quiet EXCEPT !.callers = {p1, p2, p3}]
  /\ scene # "authority"    => job = J("leaf", "leaf", "leaf")
  /\ scene # "installation" => machine = Beginning("linux", {}, 0, 0, None)
  /\ scene # "versions"     => left = TooLarge /\ right = left
  /\ StartupInit /\ AuthorityInit /\ InstallInit /\ VersionInit
  /\ job \notin TrustJobs => tool = "anchors"

MachineNext ==
  /\ \/ scene = "startup"      /\ StartupNext   /\ UNCHANGED <<ownAuthority, installVars>>
     \/ scene = "authority"    /\ AuthorityNext /\ UNCHANGED <<svars, installVars>>
     \/ scene = "installation" /\ InstallNext   /\ UNCHANGED <<allVars, ownAuthority>>
  /\ UNCHANGED <<scene, versionVars>>

machineVars == <<scene, allVars, authorityVars, installVars, versionVars>>
MachineSpec == MachineInit /\ [][MachineNext]_machineVars
=============================================================================
