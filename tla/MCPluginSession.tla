-------------------------- MODULE MCPluginSession --------------------------
(***************************************************************************)
(* Instances of PluginSession for TLC: plugin a has three connections, so  *)
(* that it can recover twice, or try twice in one recovery; plugin b,      *)
(* which competes with it, has one or two.                                 *)
(***************************************************************************)
EXTENDS PluginSession

CONSTANTS a, b, a1, a2, a3, b1, b2, h1, h2

SessionTokens == [c \in Connection |-> IF c \in {b1, b2} THEN {b} ELSE {a}]

\* b competes for one of the two hostnames of a.
OneShared == a :> {h1, h2} @@ b :> {h1}

\* One hostname, wanted by all.
AllShared == [p \in Plugin |-> {h1}]

\* Two faults where b never starts, so that an attempt of a's recovery fails
\* and it waits to try again; one where both run.  Every plugin has a
\* connection more than there are faults.
FewFaults == faults <= 1 \/ started = <<a>>

\* With AllShared the two are alike: a is the name of the one that starts first.
InOrder == started \in {<<>>, <<a>>, <<a, b>>}

LivesSpec ==
  SessionInit /\ [][SessionNext /\ FewFaults' /\ InOrder']_sessionVars /\ SessionFairness
=============================================================================
