---------------------------- MODULE StartupLock ----------------------------
(***************************************************************************)
(* The lock files by which processes take turns (service.ts): the startup  *)
(* lock of ensureRunning, one file, and the authorization lock around      *)
(* trust, service installation and repair, two nested files.  A lock is    *)
(* held by whoever created the file at its path; a waiter reads the file   *)
(* and removes it when it looks abandoned, then tries to create it again.  *)
(*                                                                         *)
(* Each await is a step of its own: creating the file, writing the holder  *)
(* into it, reading it, reading its age (readFile and stat run side by     *)
(* side), removing it.  Every unlink removes whatever file is at the path. *)
(*                                                                         *)
(* A pid stands for its process: reuse of a pid and a reboot (which makes  *)
(* every older lock stale at once) are left out.  A process is never       *)
(* started again: a later run of the program is another element of Process.*)
(***************************************************************************)
EXTENDS Naturals, FiniteSets

CONSTANTS
  Process,
  Depth,        \* how many lock files nest: 1 or 2
  MayExit,      \* the processes that may end or be killed, at any point
  Refused,      \* the processes that may find the runtime directory inaccessible
  LocksAge,     \* may a lock file get staleLockMs old while it is there?
  NoFile,       \* there is no file at the path
  Unparsable    \* what reading a file gives before its holder is written

ASSUME LockAssumption ==
  /\ Depth \in Nat \ {0}
  /\ MayExit \subseteq Process
  /\ Refused \subseteq Process
  /\ LocksAge \in BOOLEAN
  /\ Unparsable \notin Process
  /\ NoFile \notin [owner : Process, written : BOOLEAN, old : BOOLEAN]

LockPath == 1..Depth

LockFile == [owner : Process, written : BOOLEAN, old : BOOLEAN]

VARIABLES
  file,       \* per path: the lock file there, or NoFile
  pc,         \* per process: where it is
  held,       \* per process: how many locks it has taken and not released
  contents,   \* per process: the holder its last inspection read, if any
  age,        \* per process: the age its last inspection read, if any
  everOld     \* history: some lock file has got staleLockMs old

vars == <<file, pc, held, contents, age, everOld>>

TypeOK ==
  /\ file \in [LockPath -> LockFile \cup {NoFile}]
  /\ pc \in [Process -> {"idle", "trying", "opened", "abandoning", "preparing",
                         "inspecting", "clearing", "running", "releasing", "exited"}]
  /\ held \in [Process -> 0..Depth]
  /\ contents \in [Process -> Process \cup {Unparsable, "unread"}]
  /\ age \in [Process -> {"unread", "fresh", "old"}]
  /\ everOld \in BOOLEAN

Init ==
  /\ file = [l \in LockPath |-> NoFile]
  /\ pc = [p \in Process |-> "idle"]
  /\ held = [p \in Process |-> 0]
  /\ contents = [p \in Process |-> "unread"]
  /\ age = [p \in Process |-> "unread"]
  /\ everOld = FALSE

exited == {p \in Process : pc[p] = "exited"}

\* The lock that p is taking, or waiting for.
Wanted(p) == held[p] + 1

GoTo(p, place) == pc' = [pc EXCEPT ![p] = place]

Forget(p) ==
  /\ contents' = [contents EXCEPT ![p] = "unread"]
  /\ age' = [age EXCEPT ![p] = "unread"]

-----------------------------------------------------------------------------
(* #tryAcquireLock and the lock's release.                                 *)

Start(p) ==
  /\ pc[p] = "idle"
  /\ GoTo(p, "trying")
  /\ UNCHANGED <<file, held, contents, age, everOld>>

\* Mistake to be caught: an existing lock file is overwritten.
CreateOrTruncate(p) ==
  /\ pc[p] = "trying"
  /\ file' = [file EXCEPT ![Wanted(p)] = [owner |-> p, written |-> FALSE, old |-> FALSE]]
  /\ GoTo(p, "opened")
  /\ UNCHANGED <<held, contents, age, everOld>>

\* open(lockPath, 'wx') creates the file, still empty.
CreateLock(p) ==
  /\ pc[p] = "trying"
  /\ file[Wanted(p)] = NoFile
  /\ file' = [file EXCEPT ![Wanted(p)] = [owner |-> p, written |-> FALSE, old |-> FALSE]]
  /\ GoTo(p, "opened")
  /\ UNCHANGED <<held, contents, age, everOld>>

\* open failed with EEXIST: look at the lock that is there.
LockExists(p) ==
  /\ pc[p] = "trying"
  /\ file[Wanted(p)] # NoFile
  /\ GoTo(p, "inspecting")
  /\ UNCHANGED <<file, held, contents, age, everOld>>

\* handle.writeFile writes into the file p created, even if that is no longer
\* the file at the path.  The operation runs under the innermost lock.
WriteLock(p) ==
  /\ pc[p] = "opened"
  /\ file' = IF file[Wanted(p)] # NoFile /\ file[Wanted(p)].owner = p
             THEN [file EXCEPT ![Wanted(p)].written = TRUE] ELSE file
  /\ held' = [held EXCEPT ![p] = @ + 1]
  /\ GoTo(p, IF Wanted(p) = Depth THEN "running" ELSE "preparing")
  /\ UNCHANGED <<contents, age, everOld>>

\* The write failed: the file is closed, removed, and the error thrown.
FailWrite(p) ==
  /\ pc[p] = "opened"
  /\ GoTo(p, "abandoning")
  /\ UNCHANGED <<file, held, contents, age, everOld>>

RemoveUnwritten(p) ==
  /\ pc[p] = "abandoning"
  /\ file' = [file EXCEPT ![Wanted(p)] = NoFile]
  /\ GoTo(p, IF held[p] = 0 THEN "idle" ELSE "releasing")
  /\ UNCHANGED <<held, contents, age, everOld>>

\* Between the two locks #withAuthorizationLock prepares the runtime directory,
\* where the inner one lives.  Without access to it the operation runs under
\* the outer lock alone; any other failure is thrown.
PreparePaths(p) ==
  /\ pc[p] = "preparing"
  /\ GoTo(p, "trying")
  /\ UNCHANGED <<file, held, contents, age, everOld>>

RunWithoutInner(p) ==
  /\ p \in Refused
  /\ pc[p] = "preparing"
  /\ GoTo(p, "running")
  /\ UNCHANGED <<file, held, contents, age, everOld>>

FailToPrepare(p) ==
  /\ pc[p] = "preparing"
  /\ GoTo(p, "releasing")
  /\ UNCHANGED <<file, held, contents, age, everOld>>

EndOperation(p) ==
  /\ pc[p] = "running"
  /\ GoTo(p, "releasing")
  /\ UNCHANGED <<file, held, contents, age, everOld>>

\* Mistake to be caught: a lock is released once too often.
ReleaseTooOften(p) ==
  /\ pc[p] = "releasing"
  /\ file' = [l \in LockPath |-> IF l = held[p] THEN NoFile ELSE file[l]]
  /\ held' = [held EXCEPT ![p] = @ - 1]
  /\ UNCHANGED <<pc, contents, age, everOld>>

\* releaseLock, innermost first.
ReleaseLock(p) ==
  /\ pc[p] = "releasing"
  /\ file' = [file EXCEPT ![held[p]] = NoFile]
  /\ held' = [held EXCEPT ![p] = @ - 1]
  /\ GoTo(p, IF held[p] = 1 THEN "idle" ELSE "releasing")
  /\ UNCHANGED <<contents, age, everOld>>

-----------------------------------------------------------------------------
(* #clearStaleLock.                                                        *)

\* The file vanished before p could read it: try to create it.
LockVanished(p) ==
  /\ pc[p] = "inspecting"
  /\ file[Wanted(p)] = NoFile
  /\ contents[p] = "unread" \/ age[p] = "unread"
  /\ Forget(p)
  /\ GoTo(p, "trying")
  /\ UNCHANGED <<file, held, everOld>>

ReadContents(p) ==
  /\ pc[p] = "inspecting"
  /\ file[Wanted(p)] # NoFile
  /\ contents[p] = "unread"
  /\ contents' = [contents EXCEPT ![p] = IF file[Wanted(p)].written THEN file[Wanted(p)].owner
                                                                   ELSE Unparsable]
  /\ UNCHANGED <<file, pc, held, age, everOld>>

ReadAge(p) ==
  /\ pc[p] = "inspecting"
  /\ file[Wanted(p)] # NoFile
  /\ age[p] = "unread"
  /\ age' = [age EXCEPT ![p] = IF file[Wanted(p)].old THEN "old" ELSE "fresh"]
  /\ UNCHANGED <<file, pc, held, contents, everOld>>

\* Mistake to be caught: a lock without a holder is stale at any age.
UnwrittenIsStale(p) == contents[p] \in exited \cup {Unparsable}

\* Mistake to be caught: only a lock with a holder is ever stale.
OnlyHolderIsStale(p) == contents[p] \in exited

\* The lock p has read about belongs to a process that is not running, or to
\* nobody and has been there for staleLockMs.
LooksStale(p) ==
  \/ contents[p] \in exited
  \/ contents[p] = Unparsable /\ age[p] = "old"

Decide(p) ==
  /\ pc[p] = "inspecting"
  /\ contents[p] # "unread"
  /\ age[p] # "unread"
  /\ GoTo(p, IF LooksStale(p) THEN "clearing" ELSE "trying")
  /\ Forget(p)
  /\ UNCHANGED <<file, held, everOld>>

\* unlink(lockPath), after the decision, whatever lock is there by now.
ClearStaleLock(p) ==
  /\ pc[p] = "clearing"
  /\ file' = [file EXCEPT ![Wanted(p)] = NoFile]
  /\ GoTo(p, "trying")
  /\ UNCHANGED <<held, contents, age, everOld>>

-----------------------------------------------------------------------------
(* Processes and time.                                                     *)

\* The process ends, or is killed wherever it is.  Its files stay.
Exit(p) ==
  /\ p \in MayExit
  /\ pc[p] # "exited"
  /\ GoTo(p, "exited")
  /\ Forget(p)
  /\ UNCHANGED <<file, held, everOld>>

Age(l) ==
  /\ LocksAge
  /\ file[l] # NoFile
  /\ ~file[l].old
  /\ file' = [file EXCEPT ![l].old = TRUE]
  /\ everOld' = TRUE
  /\ UNCHANGED <<pc, held, contents, age>>

-----------------------------------------------------------------------------

Step(p) ==
  \/ CreateLock(p) \/ LockExists(p) \/ WriteLock(p) \/ FailWrite(p) \/ RemoveUnwritten(p)
  \/ PreparePaths(p) \/ RunWithoutInner(p) \/ FailToPrepare(p)
  \/ EndOperation(p) \/ ReleaseLock(p)
  \/ LockVanished(p) \/ ReadContents(p) \/ ReadAge(p) \/ Decide(p) \/ ClearStaleLock(p)

Next ==
  \/ \E p \in Process : Start(p) \/ Step(p) \/ Exit(p)
  \/ \E l \in LockPath : Age(l)

Spec == Init /\ [][Next]_vars

\* A process that is not blocked goes on, and time passes.  Nothing makes an
\* idle process start or a process exit.
Fairness ==
  /\ \A p \in Process : WF_vars(Step(p))
  /\ \A l \in LockPath : WF_vars(Age(l))

FairSpec == Spec /\ Fairness

-----------------------------------------------------------------------------
(* Properties.                                                             *)

\* One process at a time runs the operation the lock is for.  README:
\* "Canonical install, repair, and uninstall operations share one cross-process
\* mutation lock, so simultaneous projects cannot authorize competing changes."
OneAtATime ==
  \A p, q \in Process : pc[p] = "running" /\ pc[q] = "running" => p = q

\* That holds as long as no process has ended and no lock has got old.
OneAtATimeWhileAllRun == exited = {} /\ ~everOld => OneAtATime

\* A release never takes away another process's lock, under the same condition.
ReleasesItsOwn ==
  [][\A p \in Process :
       exited = {} /\ ~everOld /\ (ReleaseLock(p) \/ RemoveUnwritten(p))
         => \E l \in LockPath : /\ file[l] # NoFile
                                /\ file[l].owner = p
                                /\ file'[l] = NoFile]_vars

\* p waits for lock l, which was left behind by a process that has ended.
WaitsForTheDead(p, l) ==
  /\ pc[p] \in {"trying", "inspecting", "clearing"}
  /\ Wanted(p) = l
  /\ file[l] # NoFile
  /\ file[l].owner \in exited

\* A lock left behind by an ended process does not block a waiter for ever,
\* even if the process was killed before it wrote its pid.
DeadLocksAreCleared ==
  \A p \in Process, l \in LockPath : WaitsForTheDead(p, l) ~> ~WaitsForTheDead(p, l)
=============================================================================
