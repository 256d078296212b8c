------------------------- MODULE ServiceTransactions -------------------------
(***************************************************************************)
(* Installing, converging, starting and uninstalling the startup service   *)
(* (service-install.ts and its linux.ts, windows.ts, macos.ts).  Whoever   *)
(* changes it holds the mutation lock, so transactions do not overlap; but *)
(* every command of the service manager and every change of a record is a  *)
(* step that may fail, take effect and yet fail, or be the last one before *)
(* the process or the machine dies, and the next transaction starts from   *)
(* what that leaves.                                                       *)
(*                                                                         *)
(* A transaction is a script: the code's commands in their order, each     *)
(* with what the code does when it fails.  A failure replaces the script   *)
(* by the code's catch block.                                              *)
(***************************************************************************)
EXTENDS ServiceTargets, FiniteSets, SequencesExt

CONSTANTS
  Beginnings,      \* the machines to begin with; their legacy definitions have their records
  MaxTransactions, \* transactions begun, a bound
  MaxFaults        \* commands that fail by themselves, deaths and reboots, a bound

ASSUME TransactionsAssumption ==
  /\ Beginnings \subseteq Machine /\ MaxTransactions \in Nat /\ MaxFaults \in Nat
  /\ \A m \in Beginnings : {s \in LegacySet : m.defined[s] # 0} \subseteq m.listed

VARIABLES
  machine,
  tx,       \* the transaction, or the last one: see Begun
  script,   \* the commands still to be run
  undo,     \* macOS: what takes back the commands that ran, in groups
  phase,    \* "forward", then in the catch blocks "rollback", "mend" and "hand-back"; or "rest"
  outcome,  \* of the last transaction
  faults,
  count     \* transactions begun

installVars == <<machine, tx, script, undo, phase, outcome, faults, count>>

Only(condition, steps) == IF condition THEN steps ELSE <<>>
Each(Steps(_), services) == FlattenSeq([i \in DOMAIN services |-> Steps(services[i])])
Where(Holds(_), elements) == Each(LAMBDA e : Only(Holds(e), <<e>>), elements)

Kinds == {"install", "replace", "start", "start-owned", "uninstall"}

\* before is what the transaction found; the rest is what it did so far.
Begun(kind, target, version, prior, restart, m) ==
  [kind |-> kind, target |-> target, version |-> version, prior |-> prior, restart |-> restart,
   before |-> m, legacy |-> Where(LAMBDA l : l \in m.listed, Legacies),
   stopped |-> {}, disabled |-> {}, off |-> {}, mutated |-> FALSE, created |-> FALSE, yielded |-> FALSE,
   restored |-> None, answered |-> ~restart, unsure |-> FALSE]

(***************************************************************************)
(* Scripts.  A step that fails throws, is ignored, disables its service,   *)
(* or skips the steps of the same cleanup.  in is the try block it is in.  *)
(***************************************************************************)
Command(do, s) ==
  [do |-> do, to |-> s, in |-> "try", on |-> "throw", when |-> "always",
   restores |-> FALSE, undo |-> <<>>, clears |-> FALSE, discards |-> FALSE]
Lenient(do, s) == [Command(do, s) EXCEPT !.on = "ignore"]
When(condition, step) == [step EXCEPT !.when = condition]
In(block, steps) == [i \in DOMAIN steps |-> [steps[i] EXCEPT !.in = block]]
All(do, services) == [i \in DOMAIN services |-> Command(do, services[i])]

\* Mistake to be caught: an update writes no pending record.
PreludeUnrecorded(t) == In("prelude", Only(t.prior # None, <<Command("previous", Canonical)>>))

\* Records, before and after the platform's part of an installation.
Prelude(t) ==
  In("prelude", Only(t.prior # None /\ t.prior = ReadRecord(t.before), <<Command("previous", Canonical)>>)
             \o Only(t.prior # None /\ t.prior.format = 1, <<Command("drop-one", Canonical)>>)
             \o <<Command("pending", Canonical)>>)
Finish ==
  In("finish", <<Lenient("unstage", Canonical), Command("commit", Canonical),
                 Command("drop-one", Canonical), Command("drop-previous", Canonical)>>)

Stage(t) == Only(t.prior # None, <<Command("backup", Canonical)>>)

\* Mistake to be caught: the legacy definitions are deleted before the canonical service answers.
LinuxInstallHastily(t) ==
     Prelude(t) \o Stage(t)
  \o <<Command("quiesce", Canonical)>> \o All("quiesce", t.legacy) \o All("disable-now", t.legacy)
  \o All("undefine", t.legacy)
  \o <<Command("runtime", Canonical), Command("define", Canonical), Command("enable-now", Canonical),
       Command("ready", Canonical), Command("commit", Canonical)>>
  \o In("committed", All("forget", t.legacy))
  \o Finish

LinuxInstall(t) ==
     Prelude(t) \o Stage(t)
  \o <<Command("quiesce", Canonical)>> \o All("quiesce", t.legacy) \o All("disable-now", t.legacy)
  \o <<Command("runtime", Canonical), Command("define", Canonical), Command("enable-now", Canonical),
       Command("ready", Canonical), Command("commit", Canonical)>>
  \o In("committed", All("undefine", t.legacy) \o All("forget", t.legacy))
  \o Finish

LinuxStart(t) ==
     Only(t.restart, <<Command("quiesce", Canonical)>>)
  \o All("quiesce", t.legacy) \o All("disable-now", t.legacy)
  \o Only(t.restart, <<Command("start", Canonical), Command("ready", Canonical)>>)
  \o In("after", All("undefine", t.legacy) \o All("forget", t.legacy))

LinuxUninstall(s) ==
  In("after", <<Command("quiesce", s), Command("disable-now", s), Command("undefine", s),
                Command("forget", s), Command("wipe", s)>>)

WindowsUninstall(s) ==
  In("after", <<Command("quiesce", s), Lenient("stop", s), Command("undefine", s),
                Command("forget", s), Command("wipe", s)>>)

WindowsInstall(t) ==
     Only(t.kind = "replace", In("legacies", All("quiesce", t.legacy) \o All("disable", t.legacy)))
  \o Prelude(t) \o Stage(t)
  \o <<Command("quiesce", Canonical)>>
  \o Only(t.before.defined[Canonical] # 0, <<Lenient("stop", Canonical)>>)
  \o <<Command("runtime", Canonical), Command("define", Canonical), Command("start", Canonical),
       Command("ready", Canonical)>>
  \o Finish
  \o Only(t.kind = "replace", Each(WindowsUninstall, t.legacy))

WindowsStart(t) ==
     Only(t.restart, <<Command("quiesce", Canonical)>>)
  \o All("quiesce", t.legacy) \o All("disable", t.legacy)
  \o Only(t.restart, <<Command("enable", Canonical), Command("start", Canonical), Command("ready", Canonical)>>)
  \o Each(WindowsUninstall, t.legacy)

(***************************************************************************)
(* macOS: one privileged sequence.  Each command may leave a group of      *)
(* commands that takes it back.                                            *)
(***************************************************************************)
\* The service to run again after a failure: the canonical one, if it ran.
Winner(t) ==
  IF \/ t.before.running \in t.before.listed
     \/ t.before.running = Canonical /\ t.restart /\ t.prior # None
  THEN t.before.running ELSE None

MacQuiesce(t, s, restoreStopped) ==
  << [Command("disable", s) EXCEPT !.undo = <<Command("enable", s)>>],
     [Command("quiesce", s) EXCEPT
        !.discards = s # Winner(t) /\ ~restoreStopped,
        !.undo = IF s # Winner(t) THEN <<>>
                 ELSE <<Command("enable", s), Lenient("bootstrap", s), Command("kickstart", s)>>] >>

MacQuiesceLegacies(t) == Each(LAMBDA s : MacQuiesce(t, s, FALSE), t.legacy)

\* Waits until launchd has removed the job: it is that wait which may fail.
MacBootout(services, clearLast) ==
  [i \in DOMAIN services |->
     [Command("bootout", services[i]) EXCEPT !.clears = clearLast /\ i = Len(services)]]

MacCleanup(services) ==
  Each(LAMBDA s : <<[Command("undefine", s) EXCEPT !.clears = TRUE], Command("forget", s), Command("wipe", s)>>,
       services)

MacInstall(t) ==
  LET restore == <<Command("bootout", Canonical), Command("restore-files", Canonical),
                   Command("restore-definition", Canonical)>>
      remove == <<Command("bootout", Canonical), Command("undefine", Canonical), Command("wipe", Canonical)>>
  IN   Prelude(t)
    \o (IF t.prior = None THEN <<Command("quiesce", Canonical)>> ELSE Stage(t))
    \o Only(t.prior # None, MacQuiesce(t, Canonical, Winner(t) = None))
    \o MacQuiesceLegacies(t)
    \o Only(t.prior # None, <<[Command("test-backup", Canonical) EXCEPT !.undo = restore]>>)
    \o MacBootout(t.legacy, FALSE)
    \o <<Command("runtime", Canonical), Command("define", Canonical), Command("bootout", Canonical),
         Command("enable", Canonical),
         [Command("bootstrap", Canonical) EXCEPT !.undo = IF t.prior = None THEN remove ELSE <<>>],
         Command("kickstart", Canonical),
         [Command("ready", Canonical) EXCEPT !.clears = TRUE],
         Command("commit", Canonical)>>
    \o MacCleanup(t.legacy)
    \o Finish

\* Mistake to be caught: the canonical job, disabled while it was quiesced, is not enabled again.
MacStartOnly(t) ==
     MacQuiesceLegacies(t)
  \o Only(t.restart, MacQuiesce(t, Canonical, Winner(t) = None))
  \o MacBootout(t.legacy, ~t.restart)
  \o Only(t.restart, <<Command("kickstart", Canonical), [Command("ready", Canonical) EXCEPT !.clears = TRUE]>>)
  \o MacCleanup(t.legacy)

MacStart(t) ==
     MacQuiesceLegacies(t)
  \o Only(t.restart, MacQuiesce(t, Canonical, Winner(t) = None))
  \o MacBootout(t.legacy, ~t.restart)
  \o Only(t.restart,
          << [Command("enable", Canonical) EXCEPT
                !.undo = <<Command("disable", Canonical), Command("bootout", Canonical)>>],
             Command("kickstart", Canonical),
             [Command("ready", Canonical) EXCEPT !.clears = TRUE] >>)
  \o MacCleanup(t.legacy)

MacUninstall(t, s) ==
  MacQuiesce(t, s, TRUE) \o <<Command("bootout", s)>> \o MacCleanup(<<s>>)

Script(t) ==
  LET p == t.before.platform IN
  CASE t.kind \in {"install", "replace"} ->
         IF p = "linux" THEN LinuxInstall(t) ELSE IF p = "win32" THEN WindowsInstall(t) ELSE MacInstall(t)
    [] t.kind = "start" ->
         IF p = "linux" THEN LinuxStart(t) ELSE IF p = "win32" THEN WindowsStart(t) ELSE MacStart(t)
    [] t.kind = "uninstall" ->
         IF p = "linux" THEN LinuxUninstall(t.target)
         ELSE IF p = "win32" THEN WindowsUninstall(t.target) ELSE MacUninstall(t, t.target)
    [] OTHER -> In("after", IF p = "darwin" THEN <<Command("enable", t.target), Command("kickstart", t.target)>>
                                            ELSE <<Command("start", t.target)>>)


(***************************************************************************)
(* Catch blocks.                                                           *)
(***************************************************************************)
\* Mistake to be caught: every legacy service is started again.
ReinstateAll(t, when) ==
  Each(LAMBDA l : <<Lenient(IF t.before.platform = "linux" THEN "enable-now" ELSE "enable-and-run", l)>>, t.legacy)

\* Of the legacy services that were stopped, the first in reverse order that
\* starts again: first among those disabled, then among the others.
Reinstate(t, when) ==
  LET again(do, l) == [When(when, Command(do, l)) EXCEPT !.on = "disable", !.restores = TRUE]
      enabling == IF t.before.platform = "linux" THEN "enable-now" ELSE "enable-and-run"
      reversed == Reverse(Where(LAMBDA l : l \in t.stopped, t.legacy))
  IN     Each(LAMBDA l : Only(l \in t.disabled, <<again(enabling, l)>>), reversed)
      \o Each(LAMBDA l : Only(l \notin t.disabled, <<again("start", l)>>), reversed)

\* A failed start that runs the canonical service again only starts services
\* that it had not disabled.
ReinstateAfterStart(t) ==
  Where(LAMBDA step : step.do = "start" \/ Canonical \notin t.stopped, Reinstate(t, "unrestored"))

LinuxInstallRollback(t) ==
  LET again == t.prior # None /\ Canonical \in t.stopped IN
     Only(t.mutated, <<Lenient("disable-now", Canonical)>>)
  \o Only(t.prior # None /\ t.mutated,
          <<Command("restore-files", Canonical), Command("restore-definition", Canonical)>>)
  \o Only(~again, Reinstate(t, "unrestored"))
  \o Only(t.prior # None,
          << When("restored", Lenient("disable-now", Canonical)) >>
          \o (IF t.mutated
              THEN << When("unrestored", Lenient(IF again THEN "enable-now" ELSE "enable", Canonical)) >>
              ELSE Only(again, << When("unrestored", Lenient("start", Canonical)) >>)))

LinuxStartRollback(t) ==
     Only(t.restart, <<Lenient("stop", Canonical)>>)
  \o ReinstateAfterStart(t)
  \o Only(t.restart,
          << When("restored", Lenient("disable-now", Canonical)) >>
          \o Only(Canonical \in t.stopped, << When("unrestored", Lenient("start", Canonical)) >>))

WindowsInstallRollback(t) ==
  Only(t.prior # None /\ t.mutated,
       <<Command("restore-files", Canonical)>>
       \o Only(t.before.defined[Canonical] # 0,
               <<Command("restore-definition", Canonical)>>
               \o Only(Canonical \in t.stopped, <<Command("start", Canonical)>>)))

WindowsStartRollback(t) ==
     Only(t.restart, <<Lenient("disable", Canonical)>>)
  \o ReinstateAfterStart(t)
  \o Only(t.restart,
          << When("unrestored", Lenient("enable", Canonical)) >>
          \o Only(Canonical \in t.stopped, << When("unrestored", Lenient("start", Canonical)) >>))

Rollback(t) ==
  LET p == t.before.platform IN
  CASE p = "darwin" -> FlattenSeq(Reverse(undo))
    [] p = "linux"  -> IF t.kind = "start" THEN LinuxStartRollback(t) ELSE LinuxInstallRollback(t)
    [] p = "win32"  -> IF t.kind = "start" THEN WindowsStartRollback(t) ELSE WindowsInstallRollback(t)

\* The record that a failed installation leaves.
Planned == [format |-> 2, state |-> "installing", version |-> tx.version, stamp |-> count]
Installed == [Planned EXCEPT !.state = "installed"]

Mend(m) ==
  IF ReadRecord(m) = Installed /\ Owns(m, Installed) THEN <<>>
  ELSE IF tx.prior # None
       THEN Only(Owns(m, tx.prior),
                 <<Command("write-prior", Canonical)>>
                 \o Only(tx.prior.format = 1, <<Lenient("drop-two", Canonical)>>)
                 \o <<Lenient("drop-previous", Canonical)>>)
       ELSE IF Owns(m, Planned) THEN <<Command("write-planned", Canonical)>>
                                ELSE <<Lenient("drop-two", Canonical)>>

\* Windows: a failed replacement hands port 443 back to a legacy service, unless
\* the canonical service is still there and has to stay.
HandsBack == machine.platform = "win32" /\ tx.kind = "replace"

HandBack(m) ==
  LET attempted == ReadRecord(m) # None /\ Owns(m, ReadRecord(m))
      before == ReadRecord(tx.before)
      uninstalls == [i \in 1..5 |-> [WindowsUninstall(Canonical)[i] EXCEPT
                                       !.on = IF @ = "throw" THEN "cleanup" ELSE @]]
      keeps == before # None /\ Owns(m, before)
  IN   Only(attempted /\ ~keeps, uninstalls)
    \o Only(keeps /\ tx.before.running # Canonical /\ tx.stopped \ {Canonical} # {},
            <<Lenient("stop", Canonical), Lenient("yield", Canonical)>>)
    \o Reinstate(tx, "handed-back")

(***************************************************************************)
(* What a command does, and what it may have done when it fails.           *)
(***************************************************************************)
Backups(m) == {b \in m.backups : b.of = tx.prior}
Backup(m) == CHOOSE b \in Backups(m) : TRUE

Effect(m, do, s) ==
  CASE do = "previous"           -> [m EXCEPT !.previous = tx.prior]
    [] do = "drop-previous"      -> [m EXCEPT !.previous = None]
    [] do = "drop-one"           -> [m EXCEPT !.one = None]
    [] do = "drop-two"           -> [m EXCEPT !.two = None]
    [] do = "pending"            -> [m EXCEPT !.two = IF tx.prior # None THEN Planned ELSE None]
    [] do = "write-planned"      -> [m EXCEPT !.two = Planned]
    [] do = "commit"             -> [m EXCEPT !.two = Installed]
    [] do = "write-prior"        -> IF tx.prior.format = 1 THEN [m EXCEPT !.one = tx.prior]
                                                           ELSE [m EXCEPT !.two = tx.prior]
    [] do = "backup"             -> IF Backups(m) # {} THEN m
                                    ELSE [m EXCEPT !.backups = @ \cup
                                           {[of |-> tx.prior, bytes |-> m.runtime, format |-> m.defined[s]]}]
    [] do = "unstage"            -> [m EXCEPT !.backups = @ \ Backups(m)]
    [] do = "runtime"            -> [m EXCEPT !.runtime = tx.version]
    [] do = "define"             -> [m EXCEPT !.defined[s] = 2,
                                              !.enabled = IF m.platform = "win32" THEN @ \cup {s} ELSE @]
    [] do = "restore-files"      -> [m EXCEPT !.runtime = Backup(m).bytes]
    [] do = "restore-definition" -> [m EXCEPT !.defined[s] = Backup(m).format,
                                              !.enabled = IF m.platform = "win32" THEN @ \cup {s} ELSE @]
    [] do = "yield"              -> Disabled(m, s)
    [] do = "enable-and-run"     -> Started(Enabled(m, s), s)
    [] OTHER                     -> Commanded(m, do, s)

Can(m, do, s) ==
  CASE do = "backup"         -> m.runtime # Absent /\ m.defined[s] # 0
    [] do \in {"test-backup", "restore-files", "restore-definition"} -> Backups(m) # {}
    [] do = "enable-and-run" -> m.defined[s] # 0
    [] OTHER                 -> Possible(m, do, s)

\* Files are renamed into place; a command of the service manager may do its
\* work and report a failure; the runtime is two files.
Renames == {"previous", "drop-previous", "drop-one", "drop-two", "pending", "write-planned", "commit",
            "write-prior", "backup", "unstage", "ready", "test-backup"}

AfterFailure(m, do, s) ==
  {m} \cup (IF do \in Renames \/ ~Can(m, do, s) THEN {} ELSE {Effect(m, do, s)})
      \cup (IF do \in {"runtime", "restore-files"} THEN {[m EXCEPT !.runtime = Mixed]} ELSE {})
      \cup (IF do \in {"enable-now", "enable-and-run"} THEN {Enabled(m, s)} ELSE {})

\* What the code notes before a command, and after one that succeeded.
Tried(step) ==
  [tx EXCEPT !.disabled = IF phase = "forward" /\ step.do \in {"disable", "disable-now"}
                          THEN @ \cup {step.to} ELSE @,
             !.off      = IF phase = "forward" /\ step.do = "enable" THEN @ \ {step.to} ELSE @,
             !.mutated  = @ \/ step.do = "runtime"]

\* Both disabled and stopped: macOS disables first.
TurnsOff(step) ==
  IF machine.platform = "darwin" /\ phase = "forward" THEN step.do = "quiesce" /\ step.to \in tx.disabled
                                                     ELSE step.do \in {"disable", "disable-now"}

Noted(step) ==
  [Tried(step) EXCEPT
     !.off      = IF TurnsOff(step) THEN @ \cup {step.to} ELSE @,
     !.stopped  = IF step.do = "quiesce" /\ machine.running = step.to THEN @ \cup {step.to} ELSE @,
     !.created  = @ \/ step.do = "define",
     !.answered = @ \/ step.do = "ready",
     !.yielded  = @ \/ step.do = "yield",
     !.restored = IF step.restores THEN step.to ELSE @]

Applies(step) ==
  CASE step.when = "restored"    -> tx.restored # None
    [] step.when = "unrestored"  -> tx.restored = None
    [] step.when = "handed-back" -> tx.restored = None /\ (machine.defined[Canonical] = 0 \/ tx.yielded)
    [] OTHER                     -> TRUE

(***************************************************************************)
(* Running the script.                                                     *)
(***************************************************************************)
InstallInit ==
  /\ machine \in Beginnings
  /\ tx = Begun("start", Canonical, 0, None, TRUE, machine)
  /\ script = <<>> /\ undo = <<>>
  /\ phase = "rest" /\ outcome = "none"
  /\ faults = 0 /\ count = 0

\* Mistake to be caught: what a failed transaction would still have run is not forgotten.
RestUnfinished(result) == phase' = "rest" /\ outcome' = result /\ UNCHANGED <<script, undo>>

Rest(result) ==
  /\ phase' = "rest" /\ outcome' = result
  /\ script' = <<>> /\ undo' = <<>>

SkipStep ==
  /\ phase # "rest" /\ script # <<>> /\ ~Applies(Head(script))
  /\ script' = Tail(script)
  /\ UNCHANGED <<machine, tx, undo, phase, outcome, faults, count>>

Kept(step) ==
  LET left == IF step.clears THEN <<>> ELSE IF step.discards THEN Front(undo) ELSE undo
  IN  IF step.undo = <<>> THEN left ELSE Append(left, step.undo)

Succeed ==
  /\ phase # "rest" /\ script # <<>>
  /\ LET step == Head(script) IN
       /\ Applies(step) /\ Can(machine, step.do, step.to)
       /\ machine' = Effect(machine, step.do, step.to)
       /\ tx' = Noted(step)
       /\ undo' = IF phase = "forward" THEN Kept(step) ELSE undo
       /\ script' = Tail(script)
  /\ UNCHANGED <<phase, outcome, faults, count>>

\* The exception reaches the catch block of the step, if it has one.
Thrown(step, t) ==
  \/ /\ phase # "forward"
     /\ script' = <<>> /\ UNCHANGED <<undo, phase, outcome>>
  \/ /\ phase = "forward" /\ step.in \in {"try", "committed"}
     /\ script' = (IF step.in = "try" THEN Rollback(t) ELSE <<>>) /\ phase' = "rollback"
     /\ UNCHANGED <<undo, outcome>>
  \/ /\ phase = "forward" /\ step.in \in {"legacies", "prelude", "finish"} /\ HandsBack
     /\ script' = HandBack(machine') /\ phase' = "hand-back"
     /\ UNCHANGED <<undo, outcome>>
  \/ /\ phase = "forward" /\ step.in \notin {"try", "committed"} /\ (step.in = "after" \/ ~HandsBack)
     /\ Rest("failed")

RemainderAfter(step) ==
  CASE step.on = "disable" ->
         <<Lenient(IF machine.platform = "linux" THEN "disable-now" ELSE "disable", step.to)>> \o Tail(script)
    [] step.on = "cleanup" -> Where(LAMBDA other : other.in # step.in, script)
    [] OTHER               -> Tail(script)

\* Nothing takes back a rollback or an uninstallation that does not finish, an
\* update that stops where its backups are gone (on macOS: its rollback) and its
\* record is not written, or what an interrupted update left, when the next one
\* fails before it copies its runtime.
NoWayBack ==
  \/ phase # "forward" \/ tx.kind = "uninstall"
  \/ machine.platform # "linux" /\ Head(script).do = "commit"
  \/ tx.prior # None /\ ~tx.mutated /\ machine.runtime # tx.prior.version

Fail ==
  /\ phase # "rest" /\ script # <<>>
  /\ LET step == Head(script)
         t == [Tried(step) EXCEPT !.unsure = @ \/ NoWayBack]
     IN /\ Applies(step)
        /\ IF Can(machine, step.do, step.to)
           THEN faults < MaxFaults /\ faults' = faults + 1
           ELSE faults' = faults
        /\ machine' \in AfterFailure(machine, step.do, step.to)
        /\ tx' = t
        /\ IF step.on = "throw"
           THEN Thrown(step, t)
           ELSE script' = RemainderAfter(step) /\ UNCHANGED <<undo, phase, outcome>>
  /\ UNCHANGED count

\* The process is killed while a command runs, or before it.
Killed ==
  /\ phase # "rest" /\ script # <<>> /\ faults < MaxFaults
  /\ faults' = faults + 1
  /\ machine' \in AfterFailure(machine, Head(script).do, Head(script).to)
  /\ tx' = [tx EXCEPT !.unsure = @ \/ NoWayBack]
  /\ Rest("died")
  /\ UNCHANGED count

\* The finally block of a failed installation.
Finally(m) ==
  LET unstaged == Effect(m, "unstage", Canonical) IN
  IF m.platform = "win32" /\ tx.prior = None /\ tx.before.defined[Canonical] = 0 /\ ~tx.created
  THEN [unstaged EXCEPT !.runtime = Absent] ELSE unstaged

EndPhase ==
  /\ phase # "rest" /\ script = <<>>
  /\ \/ phase = "forward" /\ Rest("ok") /\ UNCHANGED machine
     \/ /\ phase = "rollback" /\ tx.kind \in {"install", "replace"}
        /\ machine' = Finally(machine)
        /\ script' = Mend(machine') /\ phase' = "mend"
        /\ UNCHANGED <<undo, outcome>>
     \/ /\ phase = "mend" /\ HandsBack
        /\ script' = HandBack(machine) /\ phase' = "hand-back"
        /\ UNCHANGED <<machine, undo, outcome>>
     \/ /\ \/ phase = "rollback" /\ tx.kind \notin {"install", "replace"}
           \/ phase = "mend" /\ ~HandsBack
           \/ phase = "hand-back"
        /\ Rest("failed") /\ UNCHANGED machine
  /\ UNCHANGED <<tx, faults, count>>

(***************************************************************************)
(* What transactions are begun.                                            *)
(***************************************************************************)
Undertake(t) ==
  /\ phase = "rest" /\ count < MaxTransactions
  /\ count' = count + 1
  /\ tx' = [t EXCEPT !.unsure = tx.unsure] /\ script' = Script(t)
  /\ undo' = <<>> /\ phase' = "forward" /\ outcome' = "none"
  /\ UNCHANGED <<machine, faults>>

\* Mistake to be caught: the runtime of the command line is installed.
PromotedNever(cli) == cli

\* The runtime of the newest legacy service is promoted, if it is newer.
Promoted(cli) ==
  LET newer == {v \in {LegacyVersion[l] : l \in machine.listed} : v > cli}
  IN  IF newer = {} THEN cli ELSE CHOOSE v \in newer : \A w \in newer : w <= v

\* A plugin that finds no active service, or `service install` (direct).  A newer
\* legacy service of another protocol is refused, whichever would be promoted.
Converge ==
  \E cli \in Versions, direct \in BOOLEAN, restart \in BOOLEAN :
    LET version == Promoted(cli)
        status == UpdateStatus(machine, version, Speaks[cli])
        starts == status = "newer" \/ (status = "current" /\ ~direct)
        kind == IF starts THEN "start" ELSE IF machine.listed = {} THEN "install" ELSE "replace"
        prior == IF starts THEN ReadRecord(machine) ELSE PreviousOwner(machine)
    IN /\ Unverified(machine) = {}
       /\ \A l \in machine.listed : LegacyVersion[l] > cli => Speaks[LegacyVersion[l]] = Speaks[cli]
       /\ status # "newer-incompatible"
       /\ ~restart => starts /\ machine.running = Canonical /\ machine.listed # {}
       /\ ~(kind = "replace" /\ machine.platform = "win32" /\ machine.defined[Canonical] # 0
            /\ ReadRecord(machine) = None)
       /\ Undertake(Begun(kind, Canonical, version, prior, restart, machine))

\* A plugin adopts a legacy service whose daemon has just stopped.
StartOwned ==
  \E l \in machine.listed :
    /\ machine.defined[l] # 0
    /\ Undertake(Begun("start-owned", l, LegacyVersion[l], None, TRUE, machine))

Uninstall ==
  \E s \in Service :
    /\ IF s = Canonical THEN ReadRecord(machine) # None /\ Owns(machine, ReadRecord(machine))
                        ELSE s \in machine.listed /\ machine.defined[s] # 0
    /\ Undertake(Begun("uninstall", s, 0, IF s = Canonical THEN ReadRecord(machine) ELSE None, TRUE, machine))

\* Between transactions: the machine boots, and one of the enabled services
\* gets port 443; `proxy stop`; an unrelated process takes the port, or leaves it.
Around ==
  /\ phase = "rest"
  /\ \/ machine' \in Booted(machine)
     \/ machine.running \in Service /\ machine' = [machine EXCEPT !.running = None]
     \/ machine.running = None /\ machine' = [machine EXCEPT !.running = Other]
     \/ machine.running = Other /\ machine' = [machine EXCEPT !.running = None]
  /\ UNCHANGED <<tx, script, undo, phase, outcome, faults, count>>

InstallNext ==
  \/ SkipStep \/ Succeed \/ Fail \/ Killed \/ EndPhase
  \/ Converge \/ StartOwned \/ Uninstall \/ Around

InstallSpec == InstallInit /\ [][InstallNext]_installVars

(***************************************************************************)
(* Properties.                                                             *)
(***************************************************************************)
\* The machine, the transaction and the bounds stay in their types, and a
\* transaction that is over leaves no command to be run (service-install.ts).
InstallTypeOK ==
  /\ machine \in Machine
  /\ tx.kind \in Kinds /\ tx.target \in Service /\ tx.prior \in Record \cup {None}
  /\ tx.stopped \cup tx.disabled \cup tx.off \subseteq Service
  /\ phase \in {"rest", "forward", "rollback", "mend", "hand-back"}
  /\ outcome \in {"none", "ok", "failed", "died"}
  /\ phase = "rest" => script = <<>> /\ undo = <<>>
  /\ faults \in 0..MaxFaults /\ count \in 0..MaxTransactions

\* A record that says `installed` tells the definition and the runtime bytes
\* that are there, also in the middle of an update and after it failed or died
\* (SECURITY.md:38, MIGRATION.md:89), except where NoWayBack applies.
RecordTellsTheRuntime ==
  LET record == ReadRecord(machine)
      tells == record # None /\ record.state = "installed"
  IN  tells /\ ~tx.unsure /\ tx.kind # "uninstall" /\ phase # "hand-back"
        => machine.runtime = record.version /\ machine.defined[Canonical] # 0

\* After a failed update, at most one of the services that it had disabled and
\* stopped is enabled again, so the next boot has no two of them competing for
\* port 443 (MIGRATION.md:89), unless its rollback failed too.
AtMostOneRestored ==
  phase = "rest" /\ outcome = "failed" /\ ~tx.unsure /\ tx.kind \in {"install", "replace", "start"}
    => Cardinality(tx.off \cap machine.enabled) <= 1

\* A convergence deletes the definition of a legacy service only after the
\* canonical service answered (MIGRATION.md:89, README.md:52).
DeletedOnlyAfterReady ==
  [][\A l \in LegacySet :
       machine.defined[l] # 0 /\ machine'.defined[l] = 0 /\ tx.kind # "uninstall" => tx.answered]_installVars

Downgrades(found) ==
  /\ phase = "rest" /\ outcome = "ok" /\ tx.kind \in {"install", "replace", "start"}
  /\ \/ found # None /\ found.state = "installed" /\ ReadRecord(machine).version < found.version
     \/ \E l \in tx.before.listed : ReadRecord(machine).version < LegacyVersion[l]

\* A convergence that succeeds leaves a canonical service at least as new as the
\* one it found installed and as every legacy service it replaced (README.md:52).
KeepsTheNewest == ~Downgrades(ReadRecord(tx.before))

\* The same of a version whose update was interrupted: MIGRATION.md:89 says that
\* newer compatible installed versions are never downgraded.
NeverDowngraded == ~Downgrades(PreviousOwner(tx.before))

\* After a convergence that succeeds, the canonical service alone starts at
\* boot, whatever was interrupted before (README.md:52).  On Linux a start does
\* not enable it, nor does one that leaves it running.
OneOwnerAtBoot ==
  phase = "rest" /\ outcome = "ok" /\ tx.kind \in {"install", "replace", "start"}
    => LET starts == {s \in machine.enabled : machine.defined[s] # 0} IN
       /\ starts \subseteq {Canonical}
       /\ tx.kind # "start" \/ (machine.platform # "linux" /\ tx.restart) => starts = {Canonical}
=============================================================================
