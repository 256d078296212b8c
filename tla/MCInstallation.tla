--------------------------- MODULE MCInstallation ---------------------------
(***************************************************************************)
(* Instances of ServiceTransactions for TLC: two legacy services, the      *)
(* first with a version of its own and the second of the oldest format;    *)
(* the third package version speaks another control protocol.              *)
(***************************************************************************)
EXTENDS ServiceTransactions, TLC

CONSTANTS c, l1, l2

MCLegacies == <<l1, l2>>
MCLegacyVersion == l1 :> 2 @@ l2 :> 0
MCSpeaks == <<1, 1, 2>>

\* All package versions are compatible.
OneProtocol == <<1, 1, 1>>

Bare(p) ==
  [platform |-> p, defined |-> [s \in Service |-> 0], enabled |-> {}, loaded |-> {}, running |-> None,
   runtime |-> Absent, backups |-> {}, two |-> None, one |-> None, previous |-> None, listed |-> {}]

Set(m, services, format) ==
  [m EXCEPT !.defined = [s \in Service |-> IF s \in services THEN format ELSE @[s]],
            !.enabled = @ \cup services,
            !.loaded = IF m.platform = "darwin" THEN @ \cup services ELSE @]

\* A machine with some legacy services, and with a canonical service unless its format is 0.
Beginning(p, listed, format, version, running) ==
  LET old == [Set(Bare(p), listed, 1) EXCEPT !.listed = listed]
      record == [format |-> format, state |-> "installed", version |-> version, stamp |-> 0]
      both == [Set(old, {c}, format) EXCEPT !.runtime = version,
                                            !.one = IF format = 1 THEN record ELSE None,
                                            !.two = IF format = 2 THEN record ELSE None]
  IN  [(IF format = 0 THEN old ELSE both) EXCEPT !.running = running]

MCBeginnings ==
  UNION {{Beginning(p, {}, 0, 0, None),      \* a first installation
          Beginning(p, {l1, l2}, 0, 0, l1),  \* that replaces legacy services
          Beginning(p, {}, 1, 0, c),         \* the update of an old format
          Beginning(p, {l1}, 2, 1, c),       \* of a version, with a legacy service beside it
          Beginning(p, {l1}, 2, 2, l1),      \* current, or newer and of another protocol
          Beginning(p, {l1}, 2, 3, None)} : p \in Platform}
=============================================================================
