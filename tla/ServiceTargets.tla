--------------------------- MODULE ServiceTargets ---------------------------
(***************************************************************************)
(* What an installation of the startup service consists of, on a machine   *)
(* with a service manager (service-install/shared.ts, windows.ts,          *)
(* macos.ts): the definition that the manager knows, whether it is enabled *)
(* and running, the copied runtime, its backups, and the records in the    *)
(* state directory.  The operators read a machine, or give the machine     *)
(* that a command leaves; ServiceTransactions runs the commands.           *)
(*                                                                         *)
(* One service is canonical, the others are legacy services of the same    *)
(* machine.  Versions are numbers: ServiceVersion says what orders them.   *)
(***************************************************************************)
EXTENDS Naturals, Sequences

CONSTANTS
  Canonical,      \* the canonical service
  Legacies,         \* the legacy services, in the order of their namespaces
  LegacyVersion,  \* per legacy service: its package version, 0 for a format without one
  Versions,       \* the package versions
  Speaks,         \* per version: its control protocol
  Other,          \* whatever else may hold port 443
  Mixed, Absent,  \* runtime bytes of two versions, and no runtime
  None

LegacySet == {Legacies[i] : i \in DOMAIN Legacies}
Service == {Canonical} \cup LegacySet

\* An ownership record.  Format 1 has neither a state nor a version; stamp is installedAt.
Record ==
  [format : {2}, state : {"installing", "installed"}, version : Versions \cup {0}, stamp : Nat]
    \cup [format : {1}, state : {"installed"}, version : {0}, stamp : Nat]

ASSUME TargetsAssumption ==
  /\ Legacies \in Seq(LegacySet) /\ Canonical \notin LegacySet
  /\ \A i, j \in DOMAIN Legacies : Legacies[i] = Legacies[j] => i = j
  /\ Versions \subseteq Nat \ {0}
  /\ LegacyVersion \in [LegacySet -> Versions \cup {0}]
  /\ Speaks \in [Versions -> Nat]
  /\ {Mixed, Absent} \cap Nat = {}
  /\ Other # None /\ {None, Other} \cap Service = {} /\ None \notin Record

Platform == {"linux", "darwin", "win32"}

\* Runtime bytes: those of a version (0: of format 1), half of another's, or no files.
Bytes == Versions \cup {0, Mixed, Absent}

Machine ==
  [platform : Platform,
   defined  : [Service -> 0..2],                \* the format of the definition, 0: there is none
   enabled  : SUBSET Service,                   \* started at boot
   loaded   : SUBSET Service,                   \* known to launchd
   running  : Service \cup {None, Other},       \* who holds port 443
   runtime  : Bytes,                            \* of the canonical service
   backups  : SUBSET [of : Record, bytes : Bytes, format : 0..2],
   two      : Record \cup {None},               \* service-install-v2.json of the canonical service
   one      : Record \cup {None},               \* service-install.json
   previous : Record \cup {None},               \* service-install-previous.json
   listed   : SUBSET LegacySet]                 \* legacy services with a record

\* What counts is the newest format there is, and the previous record if there is none.
ReadRecord(m) ==
  IF m.two # None THEN m.two ELSE IF m.one # None THEN m.one ELSE m.previous

\* The installation to return to: the one before an interrupted one.
PreviousOwner(m) ==
  IF ReadRecord(m) # None /\ ReadRecord(m).state = "installing" THEN m.previous ELSE ReadRecord(m)

\* A definition carries the marker of its format; a scheduled task is the same in both.
Owns(m, record) ==
  /\ m.defined[Canonical] # 0
  /\ m.platform = "win32" \/ m.defined[Canonical] = record.format

\* What discovery reports as invalid: a record without its definition.
Unverified(m) ==
  LET record == ReadRecord(m)
      candidates == {r \in {record, m.previous} : r # None /\ (r = record \/ record.state = "installing")}
  IN  {s \in m.listed : m.defined[s] = 0}
      \cup (IF record # None /\ ~ \E r \in candidates : Owns(m, r) THEN {Canonical} ELSE {})

\* Equal versions speak one protocol.  A record whose version does not parse, or
\* whose control socket is another, is modified too; neither is modelled.
UpdateStatus(m, version, protocol) ==
  LET record == ReadRecord(m) IN
  IF record = None THEN "absent"
  ELSE IF record.format = 1 THEN "legacy"
  ELSE IF record.state # "installed" THEN "installing"
  ELSE CASE record.version > version -> IF Speaks[record.version] = protocol THEN "newer" ELSE "newer-incompatible"
         [] record.version < version -> "outdated"
         [] OTHER                    -> IF m.runtime = version THEN "current" ELSE "modified"

(***************************************************************************)
(* Commands of the service manager.  Port 443 has one holder: a service    *)
(* that finds it taken exits.                                              *)
(***************************************************************************)
Started(m, s) == [m EXCEPT !.running = IF @ = None THEN s ELSE @]
Stopped(m, s) == [m EXCEPT !.running = IF @ = s THEN None ELSE @]
Enabled(m, s) == [m EXCEPT !.enabled = @ \cup {s}]
Disabled(m, s) == [m EXCEPT !.enabled = @ \ {s}]

\* What a command needs to succeed at all.
Possible(m, do, s) ==
  CASE do \in {"start", "enable-now"} -> IF m.platform = "win32" THEN s \in m.enabled /\ m.defined[s] # 0
                                                                ELSE m.defined[s] # 0
    [] do = "kickstart" -> s \in m.loaded
    [] do = "bootstrap" -> s \in m.enabled \ m.loaded /\ m.defined[s] # 0
    [] do = "ready"     -> m.running = s
    [] OTHER            -> TRUE

Commanded(m, do, s) ==
  CASE do = "start"       -> Started(m, s)
    [] do = "kickstart"   -> Started(m, s)
    [] do = "stop"        -> Stopped(m, s)
    [] do = "quiesce"     -> Stopped(m, s)
    [] do = "enable"      -> Enabled(m, s)
    [] do = "enable-now"  -> Started(Enabled(m, s), s)
    [] do = "disable"     -> Disabled(m, s)
    [] do = "disable-now" -> Stopped(Disabled(m, s), s)
    [] do = "bootout"     -> [Stopped(m, s) EXCEPT !.loaded = @ \ {s}]
    [] do = "bootstrap"   -> [Started(m, s) EXCEPT !.loaded = @ \cup {s}]
    [] do = "undefine"    -> [m EXCEPT !.defined[s] = 0,
                                       !.enabled = IF m.platform = "win32" THEN @ \ {s} ELSE @]
    [] do = "wipe"        -> [m EXCEPT !.runtime = IF s = Canonical THEN Absent ELSE @]
    [] do = "forget"      -> IF s = Canonical
                             THEN [m EXCEPT !.two = None, !.one = None, !.previous = None]
                             ELSE [m EXCEPT !.listed = @ \ {s}]
    [] OTHER              -> m

\* The machine boots: of the enabled services, one gets port 443.
Booted(m) ==
  LET able == {s \in m.enabled : m.defined[s] # 0} IN
  {[m EXCEPT !.running = s, !.loaded = IF m.platform = "darwin" THEN able ELSE {}] :
     s \in IF able = {} THEN {None} ELSE able}
=============================================================================
