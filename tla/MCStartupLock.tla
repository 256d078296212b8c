--------------------------- MODULE MCStartupLock ---------------------------
(***************************************************************************)
(* Instances of StartupLock for TLC.                                       *)
(***************************************************************************)
EXTENDS StartupLock, TLC

Symmetric == Permutations(Process)
=============================================================================
