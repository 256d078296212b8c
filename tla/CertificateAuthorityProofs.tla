--------------------- MODULE CertificateAuthorityProofs ---------------------
(***************************************************************************)
(* Proofs about CertificateAuthority, for every set of processes and every *)
(* assignment of commands to them.                                         *)
(***************************************************************************)
EXTENDS CertificateAuthority, StartupLockProofs

\* Where a process is that takes the lock.
Locking == {"trying", "opened", "abandoning", "inspecting", "clearing"}

\* Where a process is in its command fits the command, and what it holds.
CommandFits ==
  \A p \in Process :
    /\ place[p] \in InLock => pc[p] = "running"
    /\ pc[p] \in Locking => place[p] = "lock"
    /\ pc[p] = "exited" => place[p] = "failed"
    /\ place[p] \in BeforeMark \cup Copying => job[p] = "migrate"
    /\ place[p] \in AboutLeaf => job[p] = "leaf"
    /\ place[p] \in Cleaning => job[p] = "clean"
    /\ place[p] \in Signing => authority[p] \in Authority
    /\ job[p] = "migrate" /\ Busy(p) => migrator = p
    /\ job[p] = "migrate" /\ Busy(p) /\ place[p] \notin BeforeMark => marker

OneLeafAtATime ==
  \A p, q \in Process : job[p] = "leaf" /\ job[q] = "leaf" /\ Busy(p) /\ Busy(q) => p = q

\* While no lock is taken from a running process, the authority lock is the
\* file that its holder created, if that process is running.
LiveLocks ==
  \A p \in Process \ exited :
    HasCreated(p, 1) => file[1] # NoFile /\ file[1].owner = p

NoCleanBesideLeaf ==
  \A p, q \in Process : job[p] = "leaf" /\ job[q] = "clean" => ~(Busy(p) /\ Busy(q))

\* A migration has copied, and cannot end before the lock is free.
CopyWaits == marker /\ \A q \in Process : place[q] # "unmark"

\* What a process saw missing is missing when it writes it.
MissingStays ==
  \A p \in Process :
    /\ place[p] = "statKey" /\ authority[p] = Nothing => caCert = Nothing \/ CopyWaits
    /\ place[p] = "renameKey" => (caKey = Nothing /\ caCert = Nothing) \/ CopyWaits
    /\ place[p] = "renameCertificate" => caCert = Nothing /\ migrator = Nothing /\ ~marker
    /\ place[p] = "copyKey" => caKey = Nothing
    /\ place[p] = "copyCertificate" => caCert = Nothing

NoClean == \A p \in Process : job[p] # "clean"

MarkTells ==
  /\ marker => {caKey, caCert} \subseteq {Legacy, Nothing}
  /\ caKey # caCert /\ Legacy \in {caKey, caCert} => marker
  /\ \A p \in Process :
       /\ place[p] \in {"select", "mark"} /\ ~marker => Nothing \in {caKey, caCert}
       /\ place[p] = "unmark" => caKey = caCert
       /\ place[p] = "renameCertificate" => caKey = p

\* The three files of a leaf certificate belong together, except while a
\* process replaces them.
LeafTogether ==
  /\ (\A p \in Process : place[p] # "leafChain") => leafCert = leafChain
  /\ \A p \in Process :
       /\ place[p] = "leafChain" => leafCert = NewLeaf(p)
       /\ place[p] = "useLeaf" => LeafIsValid

AInv ==
  /\ AuthorityTypeOK
  /\ PlaceFits
  /\ CommandFits
  /\ OneLeafAtATime
  /\ ~mixed => LiveLocks /\ NoCleanBesideLeaf /\ MissingStays
  /\ ~mixed /\ NoClean => MarkTells
  /\ ~mixed /\ ~torn => LeafTogether
-----------------------------------------------------------------------------
(* The lock's part of every step.                                          *)

\* What a step of p does to the lock.
LockPart(p) ==
  \/ UNCHANGED vars
  \/ Start(p) \/ LockExists(p) \/ FailWrite(p) \/ ReadContents(p) \/ ReadAge(p) \/ Decide(p)
  \/ EndOperation(p) \/ Withdraw(p) \/ Misjudge(p)
  \/ CreateLock(p) \/ WriteLock(p) \/ Exit(p)
  \/ (ReleaseLock(p) \/ RemoveUnwritten(p) \/ ClearStaleLock(p)) /\ (mixed' = (mixed \/ Steals(p)))

LEMMA ActsOnLock ==
  ASSUME NEW p \in Process, Acts(p)
  PROVE  LockPart(p)
<1>1. CASE Begin(p) \/ LockSteps(p) \/ VanishedIsStale(p) \/ Enter(p) \/ Unlock(p) \/ LockTimeout(p) \/ Die(p)
  BY <1>1 DEF LockPart, Begin, LockSteps, VanishedIsStale, Enter, Unlock, LockTimeout, Die, Withdraw, Misjudge
<1>2. CASE StatKey(p) \/ OpensslFails(p) \/ ReadAuthority(p)
  BY <1>2 DEF LockPart, StatKey, OpensslFails, ReadAuthority, Throw, Leave, Move
<1>3. CASE \/ StatCertificate(p) \/ RenameKey(p) \/ RenameCertificate(p)
           \/ ReadLeaf(p) \/ SignLeaf(p) \/ RenameLeafKey(p) \/ RenameLeafCertificate(p)
           \/ RenameLeafChain(p) \/ CheckLeaf(p) \/ UseLeaf(p)
  BY <1>3 DEF LockPart, Move, StatCertificate, RenameKey, RenameCertificate, ReadLeaf, SignLeaf,
              RenameLeafKey, RenameLeafCertificate, RenameLeafChain, CheckLeaf, UseLeaf
<1>4. CASE \/ LockMigration(p) \/ LookAtAuthority(p) \/ SelectSource(p) \/ NoSource(p) \/ Mark(p)
           \/ LookForKey(p) \/ CopyKey(p) \/ LookForCertificate(p) \/ CopyCertificate(p)
           \/ Unmark(p) \/ UnlockMigration(p)
  BY <1>4 DEF LockPart, Move, LockMigration, LookAtAuthority, SelectSource, NoSource, Mark, LookForKey,
              CopyKey, LookForCertificate, CopyCertificate, Unmark, UnlockMigration
<1>5. CASE \/ AddAnchor(p) \/ ChangeFails(p) \/ Untrust(p) \/ RemoveAnchor(p) \/ Refresh(p)
           \/ RefreshFails(p) \/ VerifyTrust(p)
           \/ Clean(p) \/ AskWhetherTrusted(p) \/ UnlinkAuthority(p)
  BY <1>5 DEF LockPart, Move, AddAnchor, ChangeFails, Untrust, RemoveAnchor, Refresh, RefreshFails,
              VerifyTrust, Clean, AskWhetherTrusted, UnlinkAuthority, Unlink
<1> QED BY <1>1, <1>2, <1>3, <1>4, <1>5 DEF Acts

LEMMA LockKeeps ==
  ASSUME TypeOK, PlaceFits, [AuthorityNext]_authorityVars
  PROVE  TypeOK' /\ PlaceFits'
<1>1. ASSUME NEW p \in Process, Acts(p)
      PROVE  [Next]_vars \/ Withdraw(p) \/ Misjudge(p)
  BY <1>1, ActsOnLock DEF LockPart, Next, Step
<1>2. ASSUME LockGetsOld PROVE [Next]_vars
  BY <1>2, AuthorityAssumption DEF LockGetsOld, Next, LockPath
<1> QED
  BY <1>1, <1>2, TypeStep, WithdrawStep, MisjudgeStep, AuthorityAssumption
  DEF AuthorityNext, authorityVars

LEMMA LiveStep ==
  ASSUME TypeOK, PlaceFits, LiveLocks, [AuthorityNext]_authorityVars, mixed \in BOOLEAN, ~mixed'
  PROVE  LiveLocks'
<1>1. Depth = 1 /\ 1 \in LockPath /\ \A l \in LockPath : l = 1
  BY AuthorityAssumption DEF LockPath
<1>2. ASSUME NEW p \in Process
      PROVE  /\ held[p] \in {0, 1}
             /\ pc[p] \in {"trying", "opened", "abandoning", "inspecting", "clearing"} => held[p] = 0
             /\ pc[p] = "releasing" => held[p] = 1
             /\ HasCreated(p, 1) <=> held[p] = 1 \/ pc[p] \in {"opened", "abandoning"}
  BY <1>1 DEF HasCreated, Wanted, TypeOK, PlaceFits
<1>3. ASSUME NEW q \in Process
      PROVE  HasCreated(q, 1)' => held'[q] = 1 \/ pc'[q] \in {"opened", "abandoning"}
  <2>1. TypeOK' /\ PlaceFits'
    BY LockKeeps
  <2> QED BY <1>1, <2>1 DEF HasCreated, Wanted, TypeOK, PlaceFits
<1>4. ASSUME NEW p \in Process,
             \/ Start(p) \/ LockExists(p) \/ FailWrite(p) \/ ReadContents(p) \/ ReadAge(p) \/ Decide(p)
             \/ EndOperation(p) \/ Withdraw(p) \/ Misjudge(p) \/ Exit(p)
      PROVE  LiveLocks'
  <2>1. UNCHANGED <<file, held>>
    BY <1>4 DEF Start, LockExists, FailWrite, ReadContents, ReadAge, Decide, EndOperation,
                Withdraw, Misjudge, Exit
  <2>2. ASSUME NEW q \in Process
        PROVE  /\ pc'[q] \in {"opened", "abandoning"} => pc[q] \in {"opened", "abandoning"}
               /\ pc'[q] # "exited" => pc[q] # "exited"
    BY <1>4 DEF TypeOK, GoTo, Start, LockExists, FailWrite, ReadContents, ReadAge, Decide, EndOperation,
                Withdraw, Misjudge, Exit
  <2> QED BY <1>2, <1>3, <2>1, <2>2 DEF LiveLocks, exited
<1>5. ASSUME NEW p \in Process, CreateLock(p) PROVE LiveLocks'
  <2> DEFINE new == [owner |-> p, written |-> FALSE, old |-> FALSE]
  <2>1. /\ file[1] = NoFile
        /\ file' = [file EXCEPT ![1] = new]
        /\ held' = held
        /\ \A q \in Process \ {p} : pc'[q] = pc[q]
    <3>1. Wanted(p) = 1
      BY <1>2, <1>5 DEF CreateLock, Wanted
    <3> QED BY <1>5, <3>1 DEF CreateLock, GoTo, TypeOK
  <2>2. file'[1] = new
    BY <1>1, <2>1 DEF TypeOK
  <2>3. new # NoFile
    <3>1. new \in [owner : Process, written : BOOLEAN, old : BOOLEAN]
      OBVIOUS
    <3> QED BY <3>1, LockAssumption
  <2>4. ASSUME NEW q \in Process \ {p}, q \notin exited', HasCreated(q, 1)' PROVE FALSE
    <3>1. q \notin exited /\ HasCreated(q, 1)
      BY <1>2, <1>3, <2>1, <2>4 DEF exited
    <3> QED BY <2>1, <3>1 DEF LiveLocks
  <2> QED BY <2>2, <2>3, <2>4 DEF LiveLocks
<1>6. ASSUME NEW p \in Process, WriteLock(p) PROVE LiveLocks'
  <2>1. file[1] # NoFile => file'[1] # NoFile /\ file'[1].owner = file[1].owner
    <3>1. ASSUME file[1] # NoFile, file[1].owner = p
          PROVE  file'[1] # NoFile /\ file'[1].owner = file[1].owner
      <4>1. file[1] \in LockFile
        BY <1>1, <3>1 DEF TypeOK
      <4>2. [file[1] EXCEPT !.written = TRUE] \in LockFile
            /\ [file[1] EXCEPT !.written = TRUE].owner = file[1].owner
        BY <4>1 DEF LockFile
      <4>3. file'[1] = [file[1] EXCEPT !.written = TRUE]
        <5>1. Wanted(p) = 1
          BY <1>2, <1>6 DEF WriteLock, Wanted
        <5>2. file' = [file EXCEPT ![1] = [file[1] EXCEPT !.written = TRUE]]
          BY <1>1, <1>6, <3>1, <5>1 DEF WriteLock, TypeOK
        <5> QED BY <1>1, <5>2 DEF TypeOK
      <4> QED BY <4>2, <4>3, LockAssumption DEF LockFile
    <3>2. ASSUME ~(file[1] # NoFile /\ file[1].owner = p) PROVE file' = file
      BY <1>1, <1>2, <1>6, <3>2 DEF WriteLock, Wanted
    <3> QED BY <3>1, <3>2
  <2>2. pc[p] = "opened" /\ pc'[p] = "running"
    BY <1>1, <1>2, <1>6 DEF WriteLock, Wanted, GoTo, TypeOK
  <2>3. \A q \in Process \ {p} : pc'[q] = pc[q] /\ held'[q] = held[q]
    BY <1>6 DEF WriteLock, GoTo, TypeOK
  <2>4. \A q \in Process : HasCreated(q, 1)' => HasCreated(q, 1)
    BY <1>2, <1>3, <2>2, <2>3
  <2>5. \A q \in Process : q \notin exited' => q \notin exited
    BY <2>2, <2>3 DEF exited
  <2> QED BY <2>1, <2>4, <2>5 DEF LiveLocks
<1>7. ASSUME NEW p \in Process, ReleaseLock(p) \/ RemoveUnwritten(p) \/ ClearStaleLock(p), ~Steals(p)
      PROVE  LiveLocks'
  <2>1. /\ file' = [file EXCEPT ![1] = NoFile]
        /\ pc'[p] \notin {"opened", "abandoning"}
        /\ pc[p] # "exited"
        /\ \A q \in Process \ {p} : pc'[q] = pc[q] /\ held'[q] = held[q]
    BY <1>1, <1>2, <1>7 DEF ReleaseLock, RemoveUnwritten, ClearStaleLock, GoTo, TypeOK, Wanted
  <2>2. held'[p] = 0
    BY <1>2, <1>7 DEF ReleaseLock, RemoveUnwritten, ClearStaleLock, TypeOK
  <2>3. ASSUME NEW q \in Process, q \notin exited', HasCreated(q, 1)' PROVE FALSE
    <3>1. q # p
      BY <1>3, <2>1, <2>2, <2>3
    <3>2. q \notin exited /\ HasCreated(q, 1)
      BY <1>2, <1>3, <2>1, <2>3, <3>1 DEF exited
    <3>3. file[1] # NoFile /\ file[1].owner = q
      BY <3>2 DEF LiveLocks
    <3>4. file'[1] = NoFile
      BY <1>1, <2>1 DEF TypeOK
    <3> QED BY <1>7, <3>1, <3>2, <3>3, <3>4 DEF Steals
  <2> QED BY <2>3 DEF LiveLocks
<1>8. ASSUME LockGetsOld PROVE LiveLocks'
  <2>1. file[1] # NoFile /\ file' = [file EXCEPT ![1].old = TRUE] /\ UNCHANGED <<pc, held>>
    BY <1>8 DEF LockGetsOld, Age
  <2>2. file'[1] # NoFile /\ file'[1].owner = file[1].owner
    <3>1. file[1] \in LockFile
      BY <1>1, <2>1 DEF TypeOK
    <3>2. file'[1] = [file[1] EXCEPT !.old = TRUE]
      BY <1>1, <2>1 DEF TypeOK
    <3> QED BY <3>1, <3>2, LockAssumption DEF LockFile
  <2> QED BY <1>2, <1>3, <2>1, <2>2 DEF LiveLocks, exited
<1>9. ASSUME UNCHANGED vars PROVE LiveLocks'
  BY <1>2, <1>3, <1>9 DEF vars, LiveLocks, exited
<1>10. ASSUME NEW p \in Process, LockPart(p) PROVE LiveLocks'
  BY <1>4, <1>5, <1>6, <1>7, <1>9, <1>10 DEF LockPart
<1> QED BY <1>8, <1>9, <1>10, ActsOnLock DEF AuthorityNext, authorityVars
-----------------------------------------------------------------------------
(* Where a step takes its process.                                         *)

\* The commands that reach a place.
PlaceFitsJob(to, j) ==
  /\ to \in BeforeMark \cup Copying => j = "migrate"
  /\ to \in AboutLeaf => j = "leaf"
  /\ to \in Cleaning => j = "clean"

\* p goes to a place that its command and its lock allow.
Went(p, to) ==
  /\ to \in AuthorityPlaces
  /\ place' = [place EXCEPT ![p] = to]
  /\ UNCHANGED setting
  /\ to \in InLock => pc'[p] = "running"
  /\ pc'[p] \in Locking => to = "lock"
  /\ pc'[p] = "exited" => to = "failed"
  /\ \A q \in Process \ {p} : pc'[q] = pc[q]
  /\ PlaceFitsJob(to, job[p])

LEMMA MoveWent ==
  ASSUME TypeOK, place \in [Process -> AuthorityPlaces], CommandFits, NEW p \in Process,
         NEW from \in AuthorityPlaces, NEW to \in AuthorityPlaces, Move(p, from, to),
         to \in InLock => from \in InLock, from # "failed" \/ to = "failed", from # "lock", PlaceFitsJob(to, job[p])
  PROVE  Went(p, to)
BY DEF Move, Went, CommandFits, vars, Locking

LEMMA LeaveWent ==
  ASSUME TypeOK, NEW p \in Process, NEW to \in AuthorityPlaces \ InLock, Leave(p, to),
         PlaceFitsJob(to, job[p])
  PROVE  Went(p, to)
BY DEF Leave, EndOperation, GoTo, Went, TypeOK, Locking

LEMMA PlaceStep ==
  ASSUME TypeOK, PlaceFits, place \in [Process -> AuthorityPlaces], CommandFits, NEW p \in Process, Acts(p)
  PROVE  \E to \in AuthorityPlaces : Went(p, to)
<1>1. /\ place[p] \in BeforeMark \cup Copying => job[p] = "migrate"
      /\ place[p] \in AboutLeaf => job[p] = "leaf"
      /\ place[p] \in Cleaning => job[p] = "clean"
  BY Zenon DEF CommandFits
<1> USE DEF PlaceFitsJob, AuthorityPlaces, InLock, BeforeMark, Copying, AboutLeaf, Signing, Cleaning
<1>2. CASE StatCertificate(p) \/ RenameKey(p) \/ RenameCertificate(p)
  BY <1>2, MoveWent DEF StatCertificate, RenameKey, RenameCertificate, Move
<1>3. CASE StatKey(p)
  <2>1. Move(p, "statKey", "read") \/ Move(p, "statKey", "renameKey") \/ Leave(p, "failed")
    BY <1>3 DEF StatKey, Throw
  <2> QED BY <2>1, MoveWent, LeaveWent
<1>4. CASE OpensslFails(p)
  BY <1>4, LeaveWent DEF OpensslFails, Throw
<1>5. CASE ReadAuthority(p)
  <2>1. Leave(p, AndThen(p)) \/ Leave(p, "failed")
    BY <1>5 DEF ReadAuthority, Throw
  <2>2. /\ AndThen(p) \in {"readLeaf", "unmark", "anchor", "done"}
        /\ AndThen(p) = "readLeaf" => job[p] = "leaf"
        /\ AndThen(p) = "unmark" => job[p] = "migrate"
    BY DEF AndThen
  <2> QED BY <2>1, <2>2, LeaveWent
<1>6. CASE ReadLeaf(p) \/ SignLeaf(p) \/ RenameLeafKey(p) \/ RenameLeafCertificate(p)
  <2>1. PICK from \in {"readLeaf", "sign", "leafKey", "leafCertificate"},
           to \in {"useLeaf", "sign", "leafKey", "leafCertificate", "leafChain", "failed"} : Move(p, from, to)
    BY <1>6 DEF ReadLeaf, SignLeaf, RenameLeafKey, RenameLeafCertificate
  <2>2. place[p] = from
    BY <2>1 DEF Move
  <2>3. from \in AuthorityPlaces /\ to \in AuthorityPlaces /\ to \notin InLock /\ PlaceFitsJob(to, job[p])
    BY <1>1, <2>2
  <2> QED BY <2>1, <2>3, MoveWent
<1>7. CASE RenameLeafChain(p) \/ CheckLeaf(p) \/ UseLeaf(p)
  <2>1. PICK from \in {"leafChain", "checkLeaf", "useLeaf"},
           to \in {"checkLeaf", "useLeaf", "serving", "failed"} : Move(p, from, to)
    BY <1>7 DEF RenameLeafChain, CheckLeaf, UseLeaf
  <2>2. place[p] = from
    BY <2>1 DEF Move
  <2>3. from \in AuthorityPlaces /\ to \in AuthorityPlaces /\ to \notin InLock /\ PlaceFitsJob(to, job[p])
    BY <1>1, <2>2
  <2> QED BY <2>1, <2>3, MoveWent
<1>8. CASE LockMigration(p) \/ LookAtAuthority(p) \/ SelectSource(p)
  <2>1. /\ job[p] = "migrate"
        /\ \E from \in {"start", "lookAtAuthority", "select"},
              to \in {"lookAtAuthority", "finish", "select", "lookForKey", "mark"} : Move(p, from, to)
    BY <1>1, <1>8 DEF LockMigration, LookAtAuthority, SelectSource, Move
  <2> QED BY <2>1, MoveWent
<1>9. CASE NoSource(p) \/ Mark(p) \/ LookForKey(p) \/ CopyKey(p)
  <2>1. PICK from \in {"select", "mark", "lookForKey", "copyKey"},
           to \in {"throw", "finish", "lookForKey", "lookForCertificate", "copyKey"} : Move(p, from, to)
    BY <1>9 DEF NoSource, Mark, LookForKey, CopyKey
  <2>2. place[p] = from
    BY <2>1 DEF Move
  <2>3. from \in AuthorityPlaces /\ to \in AuthorityPlaces /\ to \notin InLock /\ PlaceFitsJob(to, job[p])
    BY <1>1, <2>2
  <2> QED BY <2>1, <2>3, MoveWent
<1>10. CASE LookForCertificate(p) \/ CopyCertificate(p) \/ Unmark(p) \/ UnlockMigration(p)
  <2>1. CASE Move(p, "failed", "failed")
    BY <2>1, MoveWent
  <2>2. CASE \E from \in {"lookForCertificate", "copyCertificate", "unmark", "finish", "throw"},
                to \in {"ensure", "copyCertificate", "finish", "done", "failed"} : Move(p, from, to)
    <3>1. PICK from \in {"lookForCertificate", "copyCertificate", "unmark", "finish", "throw"},
               to \in {"ensure", "copyCertificate", "finish", "done", "failed"} : Move(p, from, to)
      BY <2>2
    <3>2. place[p] = from
      BY <3>1 DEF Move
    <3>3. from \in AuthorityPlaces /\ to \in AuthorityPlaces /\ to \notin InLock /\ PlaceFitsJob(to, job[p])
      BY <1>1, <3>2
    <3> QED BY <3>1, <3>3, MoveWent
  <2> QED BY <1>10, <2>1, <2>2 DEF LookForCertificate, CopyCertificate, Unmark, UnlockMigration
<1>11. CASE AddAnchor(p) \/ ChangeFails(p) \/ Untrust(p) \/ RemoveAnchor(p)
  <2>1. \E from \in {"anchor", "start", "removeAnchor"}, to \in {"verify", "refresh", "failed", "done", "removeAnchor"} :
          Move(p, from, to)
    BY <1>11 DEF AddAnchor, ChangeFails, Untrust, RemoveAnchor, Changed
  <2> QED BY <2>1, MoveWent
<1>12. CASE Refresh(p) \/ RefreshFails(p) \/ VerifyTrust(p)
  <2>1. \E from \in {"refresh", "verify"}, to \in {"verify", "failed", "done"} : Move(p, from, to)
    BY <1>12 DEF Refresh, RefreshFails, VerifyTrust
  <2> QED BY <2>1, MoveWent
<1>13. CASE Clean(p) \/ AskWhetherTrusted(p)
  <2>1. CASE Clean(p)
    <3>1. job[p] = "clean" /\ Move(p, "start", "readRecord")
      BY <2>1 DEF Clean
    <3> QED BY <3>1, MoveWent
  <2>2. CASE AskWhetherTrusted(p)
    <3>1. PICK to \in {"failed", "unlink"} : Move(p, "readRecord", to)
      BY <2>2 DEF AskWhetherTrusted
    <3>2. job[p] = "clean"
      BY <1>1, <3>1 DEF Move
    <3> QED BY <3>1, <3>2, MoveWent
  <2> QED BY <1>13, <2>1, <2>2
<1>14. CASE UnlinkAuthority(p)
  <2>1. Move(p, "unlink", "done") \/ Move(p, "unlink", "unlink")
    BY <1>14 DEF UnlinkAuthority, Unlink
  <2> QED BY <1>1, <2>1, MoveWent DEF Move
<1>15. CASE Begin(p) \/ Die(p) \/ LockTimeout(p)
  <2>1. PICK to \in {"lock", "failed"} :
          /\ place' = [place EXCEPT ![p] = to]
          /\ UNCHANGED setting
          /\ pc'[p] \in Locking => to = "lock"
          /\ pc'[p] = "exited" => to = "failed"
          /\ \A q \in Process \ {p} : pc'[q] = pc[q]
    BY <1>15 DEF Locking, Begin, Start, Die, Exit, LockTimeout, GoTo, TypeOK
  <2> QED BY <2>1 DEF Went
<1>16. CASE LockSteps(p) \/ VanishedIsStale(p) \/ Unlock(p)
  <2>1. pc[p] \in {"trying", "inspecting", "opened", "clearing", "releasing", "abandoning"}
    BY <1>16 DEF LockSteps, VanishedIsStale, Unlock, CreateLock, LockExists, FailWrite, ReadContents,
                 ReadAge, Decide, ClearStaleLock, ReleaseLock, RemoveUnwritten
  <2>2. /\ pc'[p] # "exited"
        /\ \A q \in Process \ {p} : pc'[q] = pc[q]
    BY <1>16, <2>1
    DEF LockSteps, VanishedIsStale, Unlock, CreateLock, LockExists, FailWrite, ReadContents,
        ReadAge, Decide, ClearStaleLock, ReleaseLock, RemoveUnwritten, GoTo, TypeOK
  <2>3. place[p] \notin InLock /\ (pc[p] \in Locking => place[p] = "lock")
    BY <2>1 DEF CommandFits
  <2>4. PICK to \in {"failed", place[p]} :
          /\ UNCHANGED setting /\ place' = [place EXCEPT ![p] = to]
          /\ pc'[p] \in Locking => to = "lock"
    <3>1. CASE LockSteps(p) \/ VanishedIsStale(p)
      <4>1. pc[p] \in Locking
        BY <3>1 DEF Locking, LockSteps, VanishedIsStale, CreateLock, LockExists, FailWrite, ReadContents,
                    ReadAge, Decide, ClearStaleLock
      <4> QED BY <2>3, <3>1, <4>1 DEF LockSteps, VanishedIsStale
    <3>2. CASE Unlock(p)
      <4>1. pc'[p] \in {"idle", "releasing"}
        BY <3>2 DEF Unlock, ReleaseLock, RemoveUnwritten, GoTo, TypeOK
      <4> QED BY <3>2, <4>1 DEF Unlock, Locking
    <3> QED BY <1>16, <3>1, <3>2
  <2>5. Went(p, to)
    BY <1>1, <2>2, <2>3, <2>4 DEF Went
  <2> QED BY <2>4, <2>5
<1>17. CASE Enter(p)
  <2>1. place' = [place EXCEPT ![p] = "statCertificate"] /\ UNCHANGED setting
    BY <1>17 DEF Enter
  <2>2. pc'[p] = "running" /\ \A q \in Process \ {p} : pc'[q] = pc[q]
    <3>1. Wanted(p) = Depth
      BY <1>17, AuthorityAssumption DEF Enter, WriteLock, Wanted, PlaceFits, TypeOK
    <3> QED BY <1>17, <3>1 DEF Enter, WriteLock, GoTo, TypeOK
  <2> QED BY <2>1, <2>2 DEF Went, Locking
<1> QED
  BY <1>2, <1>3, <1>4, <1>5, <1>6, <1>7, <1>8, <1>9, <1>10, <1>11, <1>12, <1>13, <1>14, <1>15, <1>16, <1>17
  DEF Acts

-----------------------------------------------------------------------------
(* What a step changes besides.                                            *)

\* The steps that change no file, and what they remember.
LEMMA QuietSteps ==
  ASSUME NEW p \in Process,
         \/ StatCertificate(p) \/ StatKey(p) \/ OpensslFails(p)
         \/ ReadLeaf(p) \/ SignLeaf(p) \/ CheckLeaf(p) \/ UseLeaf(p)
         \/ LookAtAuthority(p) \/ SelectSource(p) \/ NoSource(p)
         \/ LookForKey(p) \/ LookForCertificate(p)
         \/ VanishedIsStale(p) \/ Enter(p) \/ LockTimeout(p)
         \/ ChangeFails(p) \/ RefreshFails(p) \/ VerifyTrust(p) \/ AskWhetherTrusted(p)
  PROVE  /\ UNCHANGED <<files, leafs, store, history>>
         /\ authority' = authority \/ authority' = [authority EXCEPT ![p] = caCert]
BY DEF StatCertificate, StatKey, OpensslFails, ReadLeaf, SignLeaf, CheckLeaf, UseLeaf,
       LookAtAuthority, SelectSource, NoSource, LookForKey, LookForCertificate,
       VanishedIsStale, Enter, LockTimeout, ChangeFails, RefreshFails, VerifyTrust, AskWhetherTrusted

LEMMA LockingSteps ==
  ASSUME NEW p \in Process, Begin(p) \/ LockSteps(p) \/ Unlock(p) \/ Die(p)
  PROVE  /\ UNCHANGED <<authority, files, leafs, store, unlinked>>
         /\ mixed' = mixed \/ mixed' = (mixed \/ Overlaps(p)) \/ mixed' = (mixed \/ Steals(p))
         /\ torn' = torn \/ torn' = (torn \/ place[p] = "leafChain")
BY DEF Begin, LockSteps, Unlock, Die

LEMMA TrustSteps ==
  ASSUME NEW p \in Process,
         AddAnchor(p) \/ Untrust(p) \/ RemoveAnchor(p) \/ Refresh(p)
  PROVE  /\ UNCHANGED <<files, leafs, unlinked, torn>>
         /\ mixed' = mixed \/ mixed' = (mixed \/ Overlaps(p))
         /\ authority' = authority \/ authority' = [authority EXCEPT ![p] = caRecord]
BY DEF AddAnchor, Untrust, RemoveAnchor, Refresh, history

\* What the other steps change of the authority's files.
LEMMA FileSteps ==
  ASSUME NEW p \in Process,
         \/ RenameKey(p) \/ RenameCertificate(p) \/ ReadAuthority(p)
         \/ RenameLeafKey(p) \/ RenameLeafCertificate(p) \/ RenameLeafChain(p)
         \/ LockMigration(p) \/ Mark(p) \/ CopyKey(p) \/ CopyCertificate(p)
         \/ Unmark(p) \/ UnlockMigration(p) \/ Clean(p) \/ UnlinkAuthority(p)
  PROVE  /\ authority' = authority \/ authority' = [authority EXCEPT ![p] = caCert]
         /\ UNCHANGED store
         /\ caRecord' \in {caRecord, caCert, Nothing}
BY DEF RenameKey, RenameCertificate, ReadAuthority, RenameLeafKey, RenameLeafCertificate,
       RenameLeafChain, LockMigration, Mark, CopyKey, CopyCertificate, Unmark, UnlockMigration,
       Clean, UnlinkAuthority, files

\* Nothing changes but the age of the lock, if anything does.
LEMMA IdleStep ==
  ASSUME LockGetsOld \/ UNCHANGED authorityVars
  PROVE  UNCHANGED <<pc, setting, place, authority, files, leafs, store, history>>
BY DEF LockGetsOld, Age, authorityVars, vars

-----------------------------------------------------------------------------
(* Types, and what fits the command.                                       *)

LEMMA FilesTyped ==
  ASSUME AInv, NEW p \in Process, Acts(p)
  PROVE  /\ caKey' \in Authority \cup {Nothing}
         /\ caCert' \in Authority \cup {Nothing}
         /\ caRecord' \in Authority \cup {Nothing}
         /\ migrator' \in Process \cup {Nothing}
         /\ authority' \in [Process -> Authority \cup {Nothing}]
         /\ anchors' \subseteq Authority
         /\ trusted' \subseteq Authority
         /\ unlinked' \in [Process -> SUBSET {"key", "certificate", "record"}]
<1>1. /\ caKey \in Authority \cup {Nothing}
      /\ caCert \in Authority \cup {Nothing}
      /\ caRecord \in Authority \cup {Nothing}
      /\ migrator \in Process \cup {Nothing}
      /\ authority \in [Process -> Authority \cup {Nothing}]
      /\ anchors \subseteq Authority
      /\ trusted \subseteq Authority
      /\ unlinked \in [Process -> SUBSET {"key", "certificate", "record"}]
  BY DEF AInv, AuthorityTypeOK
<1>2. p \in Authority /\ Legacy \in Authority
  BY DEF Authority
<1>3. CASE \/ StatCertificate(p) \/ StatKey(p) \/ OpensslFails(p)
           \/ ReadLeaf(p) \/ SignLeaf(p) \/ CheckLeaf(p) \/ UseLeaf(p)
           \/ LookAtAuthority(p) \/ SelectSource(p) \/ NoSource(p)
           \/ LookForKey(p) \/ LookForCertificate(p)
           \/ VanishedIsStale(p) \/ Enter(p) \/ LockTimeout(p)
           \/ ChangeFails(p) \/ RefreshFails(p) \/ VerifyTrust(p) \/ AskWhetherTrusted(p)
  BY <1>1, <1>3, QuietSteps DEF files, store, history
<1>4. CASE Begin(p) \/ LockSteps(p) \/ Unlock(p) \/ Die(p)
  BY <1>1, <1>4, LockingSteps DEF files, store
<1>5. CASE AddAnchor(p) \/ Untrust(p) \/ RemoveAnchor(p) \/ Refresh(p)
  <2>1. /\ UNCHANGED <<files, unlinked>>
        /\ authority' \in [Process -> Authority \cup {Nothing}]
    BY <1>1, <1>5, TrustSteps
  <2>2. anchors' \subseteq Authority
    BY <1>1, <1>5 DEF AddAnchor, Untrust, RemoveAnchor, Refresh, store
  <2>3. trusted' \in {trusted, anchors, anchors'}
    BY <1>5 DEF AddAnchor, Untrust, RemoveAnchor, Refresh, store
  <2> QED BY <1>1, <2>1, <2>2, <2>3 DEF files
<1>6. CASE \/ RenameKey(p) \/ RenameCertificate(p) \/ ReadAuthority(p)
           \/ RenameLeafKey(p) \/ RenameLeafCertificate(p) \/ RenameLeafChain(p)
           \/ LockMigration(p) \/ Mark(p) \/ CopyKey(p) \/ CopyCertificate(p)
           \/ Unmark(p) \/ UnlockMigration(p) \/ Clean(p) \/ UnlinkAuthority(p)
  <2>1. /\ authority' \in [Process -> Authority \cup {Nothing}]
        /\ UNCHANGED <<anchors, trusted>>
        /\ caRecord' \in Authority \cup {Nothing}
    BY <1>1, <1>6, FileSteps DEF store
  <2>2. caKey' \in {caKey, p, Legacy, Nothing} /\ caCert' \in {caCert, p, Legacy, Nothing}
    BY <1>6 DEF RenameKey, RenameCertificate, ReadAuthority, RenameLeafKey, RenameLeafCertificate,
       RenameLeafChain, LockMigration, Mark, CopyKey, CopyCertificate, Unmark, UnlockMigration,
       Clean, UnlinkAuthority, files
  <2>3. migrator' \in {migrator, p, Nothing}
    BY <1>6 DEF RenameKey, RenameCertificate, ReadAuthority, RenameLeafKey, RenameLeafCertificate,
       RenameLeafChain, LockMigration, Mark, CopyKey, CopyCertificate, Unmark, UnlockMigration,
       Clean, UnlinkAuthority, files
  <2>4. unlinked' = unlinked \/ \E which \in {"key", "certificate", "record"} :
          unlinked' = [unlinked EXCEPT ![p] = unlinked[p] \cup {which}]
    BY <1>6 DEF RenameKey, RenameCertificate, ReadAuthority, RenameLeafKey, RenameLeafCertificate,
       RenameLeafChain, LockMigration, Mark, CopyKey, CopyCertificate, Unmark, UnlockMigration,
       Clean, UnlinkAuthority, Unlink, history
  <2>5. unlinked' \in [Process -> SUBSET {"key", "certificate", "record"}]
    BY <1>1, <2>4
  <2> QED BY <1>1, <1>2, <2>1, <2>2, <2>3, <2>5
<1> QED BY <1>3, <1>4, <1>5, <1>6 DEF Acts

LEMMA LeafsTyped ==
  ASSUME AInv, NEW p \in Process, Acts(p)
  PROVE  {leafKey', leafCert', leafChain'} \subseteq Leaf \cup {Nothing}
<1>1. {leafKey, leafCert, leafChain} \subseteq Leaf \cup {Nothing}
  BY DEF AInv, AuthorityTypeOK
<1>2. place[p] \in Signing => NewLeaf(p) \in Leaf
  BY DEF AInv, CommandFits, NewLeaf, Leaf
<1>3. CASE RenameLeafKey(p) \/ RenameLeafCertificate(p) \/ RenameLeafChain(p)
  <2>1. place[p] \in Signing
    BY <1>3 DEF RenameLeafKey, RenameLeafCertificate, RenameLeafChain, Move, Signing
  <2> QED BY <1>1, <1>2, <1>3, <2>1 DEF RenameLeafKey, RenameLeafCertificate, RenameLeafChain
<1>4. CASE \/ RenameKey(p) \/ RenameCertificate(p) \/ ReadAuthority(p)
           \/ LockMigration(p) \/ Mark(p) \/ CopyKey(p) \/ CopyCertificate(p)
           \/ Unmark(p) \/ UnlockMigration(p) \/ Clean(p) \/ UnlinkAuthority(p)
  BY <1>1, <1>4
  DEF RenameKey, RenameCertificate, ReadAuthority, LockMigration, Mark, CopyKey, CopyCertificate, Unmark,
      UnlockMigration, Clean, UnlinkAuthority, leafs
<1>5. CASE ~(\/ RenameKey(p) \/ RenameCertificate(p) \/ ReadAuthority(p)
             \/ RenameLeafKey(p) \/ RenameLeafCertificate(p) \/ RenameLeafChain(p)
             \/ LockMigration(p) \/ Mark(p) \/ CopyKey(p) \/ CopyCertificate(p)
             \/ Unmark(p) \/ UnlockMigration(p) \/ Clean(p) \/ UnlinkAuthority(p))
  BY <1>1, <1>5, QuietSteps, LockingSteps, TrustSteps DEF Acts, leafs
<1> QED BY <1>3, <1>4, <1>5

\* The marks and the history are Booleans, and the history is not forgotten.
LEMMA HistoryStep ==
  ASSUME AInv, NEW p \in Process, Acts(p)
  PROVE  /\ marker' \in BOOLEAN /\ mixed' \in BOOLEAN /\ torn' \in BOOLEAN
         /\ mixed => mixed'
         /\ torn => torn'
<1>1. marker \in BOOLEAN /\ mixed \in BOOLEAN /\ torn \in BOOLEAN
  BY DEF AInv, AuthorityTypeOK
<1>2. CASE \/ StatCertificate(p) \/ StatKey(p) \/ OpensslFails(p)
           \/ ReadLeaf(p) \/ SignLeaf(p) \/ CheckLeaf(p) \/ UseLeaf(p)
           \/ LookAtAuthority(p) \/ SelectSource(p) \/ NoSource(p)
           \/ LookForKey(p) \/ LookForCertificate(p)
           \/ VanishedIsStale(p) \/ Enter(p) \/ LockTimeout(p)
           \/ ChangeFails(p) \/ RefreshFails(p) \/ VerifyTrust(p) \/ AskWhetherTrusted(p)
  BY <1>1, <1>2, QuietSteps DEF files, history
<1>3. CASE Begin(p) \/ LockSteps(p) \/ Unlock(p) \/ Die(p)
  BY <1>1, <1>3, LockingSteps DEF files
<1>4. CASE AddAnchor(p) \/ Untrust(p) \/ RemoveAnchor(p) \/ Refresh(p)
  BY <1>1, <1>4, TrustSteps DEF files
<1>5. CASE \/ RenameKey(p) \/ RenameCertificate(p) \/ ReadAuthority(p)
           \/ RenameLeafKey(p) \/ RenameLeafCertificate(p) \/ RenameLeafChain(p)
  BY <1>1, <1>5
  DEF RenameKey, RenameCertificate, ReadAuthority, RenameLeafKey, RenameLeafCertificate,
      RenameLeafChain, files, history
<1>6. CASE \/ LockMigration(p) \/ Mark(p) \/ CopyKey(p) \/ CopyCertificate(p)
           \/ Unmark(p) \/ UnlockMigration(p) \/ Clean(p) \/ UnlinkAuthority(p)
  BY <1>1, <1>6
  DEF LockMigration, Mark, CopyKey, CopyCertificate, Unmark, UnlockMigration, Clean, UnlinkAuthority,
      files, history
<1> QED BY <1>2, <1>3, <1>4, <1>5, <1>6 DEF Acts

LEMMA AuthorityTypes ==
  ASSUME AInv, [AuthorityNext]_authorityVars
  PROVE  AuthorityTypeOK'
<1>1. TypeOK'
  BY LockKeeps DEF AInv, AuthorityTypeOK
<1>2. ASSUME NEW p \in Process, Acts(p)
      PROVE  /\ place' \in [Process -> AuthorityPlaces]
             /\ job' \in Jobs /\ tool' \in Tools
  BY <1>2, PlaceStep DEF AInv, AuthorityTypeOK, Went, setting
<1>3. ASSUME NEW p \in Process, Acts(p)
      PROVE  AuthorityTypeOK'
  BY <1>1, <1>2, <1>3, FilesTyped, LeafsTyped, HistoryStep DEF AuthorityTypeOK, Leaf, Authority
<1>4. ASSUME LockGetsOld \/ UNCHANGED authorityVars
      PROVE  AuthorityTypeOK'
  BY <1>1, <1>4, IdleStep DEF AInv, AuthorityTypeOK, setting, files, leafs, store, history, Leaf, Authority
<1> QED BY <1>3, <1>4 DEF AuthorityNext

\* Who changes a file.
LEMMA Changers ==
  ASSUME NEW p \in Process, Acts(p)
  PROVE  /\ caKey' = caKey \/ RenameKey(p) \/ CopyKey(p) \/ UnlinkAuthority(p)
         /\ caCert' = caCert \/ RenameCertificate(p) \/ CopyCertificate(p) \/ UnlinkAuthority(p)
         /\ marker' = marker \/ Mark(p) \/ Unmark(p)
         /\ migrator' = migrator \/ LockMigration(p) \/ UnlockMigration(p)
         /\ leafKey' = leafKey \/ RenameLeafKey(p) \/ Clean(p)
         /\ leafCert' = leafCert \/ RenameLeafCertificate(p) \/ Clean(p)
         /\ leafChain' = leafChain \/ RenameLeafChain(p) \/ Clean(p)
<1>1. CASE \/ RenameKey(p) \/ RenameCertificate(p) \/ ReadAuthority(p)
           \/ RenameLeafKey(p) \/ RenameLeafCertificate(p) \/ RenameLeafChain(p)
  BY <1>1
  DEF RenameKey, RenameCertificate, ReadAuthority, RenameLeafKey, RenameLeafCertificate,
      RenameLeafChain, files, leafs
<1>2. CASE \/ LockMigration(p) \/ Mark(p) \/ CopyKey(p) \/ CopyCertificate(p)
           \/ Unmark(p) \/ UnlockMigration(p) \/ Clean(p) \/ UnlinkAuthority(p)
  BY <1>2
  DEF LockMigration, Mark, CopyKey, CopyCertificate, Unmark, UnlockMigration, Clean, UnlinkAuthority,
      files, leafs
<1>3. CASE ~(\/ RenameKey(p) \/ RenameCertificate(p) \/ ReadAuthority(p)
             \/ RenameLeafKey(p) \/ RenameLeafCertificate(p) \/ RenameLeafChain(p)
             \/ LockMigration(p) \/ Mark(p) \/ CopyKey(p) \/ CopyCertificate(p)
             \/ Unmark(p) \/ UnlockMigration(p) \/ Clean(p) \/ UnlinkAuthority(p))
  <2>1. UNCHANGED <<files, leafs>>
    BY <1>3, QuietSteps, LockingSteps, TrustSteps DEF Acts
  <2> QED BY <2>1 DEF files, leafs
<1> QED BY <1>1, <1>2, <1>3

\* Who comes to a place under the authority lock, or of a migration.
LEMMA Arrivals ==
  ASSUME AInv, NEW p \in Process, Acts(p), place'[p] # place[p]
  PROVE  /\ place'[p] = "statKey" => StatCertificate(p)
         /\ place'[p] = "renameKey" => StatKey(p)
         /\ place'[p] = "renameCertificate" => RenameKey(p)
         /\ place'[p] = "lookAtAuthority" => LockMigration(p)
         /\ place'[p] = "select" => LookAtAuthority(p)
         /\ place'[p] = "mark" => SelectSource(p)
         /\ place'[p] = "lookForKey" => SelectSource(p) \/ Mark(p)
         /\ place'[p] = "copyKey" => LookForKey(p)
         /\ place'[p] = "copyCertificate" => LookForCertificate(p)
         /\ place'[p] = "unmark" => ReadAuthority(p)
<1>1. place \in [Process -> AuthorityPlaces]
  BY DEF AInv, AuthorityTypeOK
<1>2. CASE StatCertificate(p) \/ RenameKey(p) \/ RenameCertificate(p)
  BY <1>1, <1>2 DEF StatCertificate, RenameKey, RenameCertificate, Move
<1>3. CASE StatKey(p) \/ OpensslFails(p)
  BY <1>1, <1>3 DEF StatKey, OpensslFails, Throw, Leave, Move
<1>4. CASE ReadAuthority(p)
  <2>1. place'[p] \in {"readLeaf", "unmark", "anchor", "done", "failed"}
    BY <1>1, <1>4 DEF ReadAuthority, Throw, Leave, AndThen
  <2> QED BY <1>4, <2>1
<1>5. CASE ReadLeaf(p) \/ SignLeaf(p) \/ RenameLeafKey(p) \/ RenameLeafCertificate(p)
           \/ RenameLeafChain(p) \/ CheckLeaf(p) \/ UseLeaf(p)
  <2>1. place'[p] \in {"useLeaf", "sign", "leafKey", "leafCertificate", "leafChain", "checkLeaf", "serving", "failed"}
    BY <1>1, <1>5 DEF ReadLeaf, SignLeaf, RenameLeafKey, RenameLeafCertificate, RenameLeafChain,
                      CheckLeaf, UseLeaf, Move
  <2> QED BY <2>1
<1>6. CASE LockMigration(p) \/ LookAtAuthority(p) \/ SelectSource(p) \/ NoSource(p) \/ Mark(p)
  BY <1>1, <1>6 DEF LockMigration, LookAtAuthority, SelectSource, NoSource, Mark, Move
<1>7. CASE LookForKey(p) \/ CopyKey(p) \/ LookForCertificate(p) \/ CopyCertificate(p) \/ Unmark(p)
           \/ UnlockMigration(p)
  BY <1>1, <1>7 DEF LookForKey, CopyKey, LookForCertificate, CopyCertificate, Unmark, UnlockMigration, Move
<1>8. CASE \/ AddAnchor(p) \/ ChangeFails(p) \/ Untrust(p) \/ RemoveAnchor(p) \/ Refresh(p)
           \/ RefreshFails(p) \/ VerifyTrust(p) \/ Clean(p) \/ AskWhetherTrusted(p) \/ UnlinkAuthority(p)
  <2>1. place'[p] \in {"verify", "refresh", "failed", "done", "removeAnchor", "readRecord", "unlink"}
    BY <1>1, <1>8 DEF AddAnchor, ChangeFails, Untrust, RemoveAnchor, Refresh, RefreshFails, VerifyTrust,
                      Clean, AskWhetherTrusted, UnlinkAuthority, Unlink, Changed, Move
  <2> QED BY <2>1
<1>9. CASE Begin(p) \/ LockSteps(p) \/ VanishedIsStale(p) \/ Enter(p) \/ Unlock(p) \/ LockTimeout(p) \/ Die(p)
  <2>1. place'[p] \in {"lock", "statCertificate", "failed"}
    BY <1>1, <1>9 DEF Begin, LockSteps, VanishedIsStale, Enter, Unlock, LockTimeout, Die
  <2> QED BY <2>1
<1> QED BY <1>2, <1>3, <1>4, <1>5, <1>6, <1>7, <1>8, <1>9 DEF Acts

\* Who comes to a place of a leaf certificate, and who leaves its last file.
LEMMA LeafArrivals ==
  ASSUME AInv, NEW p \in Process, Acts(p), place'[p] # place[p]
  PROVE  /\ place'[p] = "leafKey" => SignLeaf(p)
         /\ place'[p] = "leafCertificate" => RenameLeafKey(p)
         /\ place'[p] = "leafChain" => RenameLeafCertificate(p)
         /\ place'[p] = "useLeaf" => ReadLeaf(p) \/ CheckLeaf(p)
         /\ place[p] = "leafChain" => RenameLeafChain(p) \/ Die(p)
<1>1. place \in [Process -> AuthorityPlaces]
  BY DEF AInv, AuthorityTypeOK
<1>2. CASE ReadLeaf(p) \/ SignLeaf(p) \/ RenameLeafKey(p) \/ RenameLeafCertificate(p)
           \/ RenameLeafChain(p) \/ CheckLeaf(p) \/ UseLeaf(p)
  BY <1>1, <1>2 DEF ReadLeaf, SignLeaf, RenameLeafKey, RenameLeafCertificate, RenameLeafChain,
                    CheckLeaf, UseLeaf, Move
<1>3. CASE Die(p)
  BY <1>1, <1>3 DEF Die
<1>4. CASE Begin(p) \/ LockSteps(p) \/ VanishedIsStale(p) \/ Enter(p) \/ Unlock(p) \/ LockTimeout(p)
  <2>1. place'[p] \in {"lock", "statCertificate", "failed"}
    BY <1>1, <1>4 DEF Begin, LockSteps, VanishedIsStale, Enter, Unlock, LockTimeout
  <2>2. place[p] # "leafChain"
    <3>1. CASE Begin(p)
      BY <3>1 DEF Begin
    <3>2. CASE LockSteps(p) \/ VanishedIsStale(p) \/ Unlock(p)
      BY <1>1, <3>2 DEF LockSteps, VanishedIsStale, Unlock
    <3>3. CASE Enter(p) \/ LockTimeout(p)
      <4>1. pc[p] \in Locking
        BY <3>3 DEF Enter, WriteLock, LockTimeout, Locking
      <4> QED BY <4>1 DEF AInv, CommandFits
    <3> QED BY <1>4, <3>1, <3>2, <3>3
  <2> QED BY <2>1, <2>2
<1>5. CASE StatCertificate(p) \/ StatKey(p) \/ OpensslFails(p) \/ RenameKey(p) \/ RenameCertificate(p)
           \/ ReadAuthority(p)
  <2>1. place[p] \in InLock
    BY <1>5 DEF StatCertificate, StatKey, OpensslFails, RenameKey, RenameCertificate, ReadAuthority,
                Move, InLock
  <2>2. place'[p] \in InLock \cup {"readLeaf", "unmark", "anchor", "done", "failed"}
    BY <1>1, <1>5 DEF StatCertificate, StatKey, OpensslFails, RenameKey, RenameCertificate, ReadAuthority,
                      Move, InLock, Throw, Leave, AndThen
  <2> QED BY <2>1, <2>2 DEF InLock
<1>6. CASE LockMigration(p) \/ LookAtAuthority(p) \/ SelectSource(p) \/ NoSource(p) \/ Mark(p)
  BY <1>1, <1>6 DEF LockMigration, LookAtAuthority, SelectSource, NoSource, Mark, Move
<1>7. CASE LookForKey(p) \/ CopyKey(p) \/ LookForCertificate(p) \/ CopyCertificate(p) \/ Unmark(p)
           \/ UnlockMigration(p)
  BY <1>1, <1>7 DEF LookForKey, CopyKey, LookForCertificate, CopyCertificate, Unmark, UnlockMigration, Move
<1>8. CASE \/ AddAnchor(p) \/ ChangeFails(p) \/ Untrust(p) \/ RemoveAnchor(p) \/ Refresh(p)
           \/ RefreshFails(p) \/ VerifyTrust(p) \/ Clean(p) \/ AskWhetherTrusted(p) \/ UnlinkAuthority(p)
  <2>1. /\ place'[p] \in {"verify", "refresh", "failed", "done", "removeAnchor", "readRecord", "unlink"}
        /\ place[p] # "leafChain"
    BY <1>1, <1>8 DEF AddAnchor, ChangeFails, Untrust, RemoveAnchor, Refresh, RefreshFails, VerifyTrust,
                      Clean, AskWhetherTrusted, UnlinkAuthority, Unlink, Changed, Move
  <2> QED BY <2>1
<1> QED BY <1>2, <1>3, <1>4, <1>5, <1>6, <1>7, <1>8 DEF Acts

\* What a process remembers of the authority, it alone changes, and moves on.
LEMMA RememberStep ==
  ASSUME AInv, NEW p \in Process, Acts(p)
  PROVE  /\ \A q \in Process \ {p} : authority'[q] = authority[q]
         /\ place'[p] = place[p] => authority' = authority
<1>1. place \in [Process -> AuthorityPlaces] /\ authority \in [Process -> Authority \cup {Nothing}]
  BY DEF AInv, AuthorityTypeOK
<1>2. CASE StatCertificate(p) \/ SignLeaf(p) \/ Untrust(p)
  BY <1>1, <1>2 DEF StatCertificate, SignLeaf, Untrust, Move
<1>3. CASE ReadAuthority(p)
  <2>1. place[p] = "read" /\ place'[p] \in {"readLeaf", "unmark", "anchor", "done", "failed"}
    BY <1>1, <1>3 DEF ReadAuthority, Throw, Leave, AndThen
  <2>2. authority' = authority \/ authority' = [authority EXCEPT ![p] = caCert]
    BY <1>3, FileSteps
  <2> QED BY <1>1, <2>1, <2>2
<1>4. CASE Begin(p) \/ LockSteps(p) \/ Unlock(p) \/ Die(p)
  BY <1>4, LockingSteps
<1>5. CASE \/ StatKey(p) \/ OpensslFails(p) \/ RenameKey(p) \/ RenameCertificate(p)
           \/ ReadLeaf(p) \/ RenameLeafKey(p) \/ RenameLeafCertificate(p)
           \/ RenameLeafChain(p) \/ CheckLeaf(p) \/ UseLeaf(p)
           \/ VanishedIsStale(p) \/ Enter(p) \/ LockTimeout(p)
  BY <1>5 DEF StatKey, OpensslFails, RenameKey, RenameCertificate, ReadLeaf, RenameLeafKey,
              RenameLeafCertificate, RenameLeafChain, CheckLeaf, UseLeaf, VanishedIsStale, Enter, LockTimeout
<1>6. CASE \/ LockMigration(p) \/ LookAtAuthority(p) \/ SelectSource(p) \/ NoSource(p) \/ Mark(p)
           \/ LookForKey(p) \/ CopyKey(p) \/ LookForCertificate(p) \/ CopyCertificate(p)
           \/ Unmark(p) \/ UnlockMigration(p)
           \/ AddAnchor(p) \/ ChangeFails(p) \/ RemoveAnchor(p) \/ Refresh(p)
           \/ RefreshFails(p) \/ VerifyTrust(p)
           \/ Clean(p) \/ AskWhetherTrusted(p) \/ UnlinkAuthority(p)
  BY <1>6 DEF LockMigration, LookAtAuthority, SelectSource, NoSource, Mark, LookForKey, CopyKey,
              LookForCertificate, CopyCertificate, Unmark, UnlockMigration, AddAnchor, ChangeFails,
              RemoveAnchor, Refresh, RefreshFails, VerifyTrust, Clean, AskWhetherTrusted, UnlinkAuthority
<1> QED BY <1>2, <1>3, <1>4, <1>5, <1>6 DEF Acts

\* How a command gets under way, and how a migration passes its mark.
LEMMA Beginnings ==
  ASSUME AInv, NEW p \in Process, Acts(p), Busy(p)'
  PROVE  /\ Busy(p) \/ Begin(p) \/ LockMigration(p) \/ Untrust(p) \/ Clean(p)
         /\ place[p] \in BeforeMark /\ place'[p] \notin BeforeMark
              => (SelectSource(p) /\ marker) \/ Mark(p)
<1>1. place \in [Process -> AuthorityPlaces] /\ place'[p] \notin {"start", "failed", "done", "serving"}
  BY DEF AInv, AuthorityTypeOK, Busy
<1> USE DEF BeforeMark, Busy
<1>2. CASE StatCertificate(p) \/ RenameKey(p) \/ RenameCertificate(p)
  BY <1>1, <1>2 DEF StatCertificate, RenameKey, RenameCertificate, Move
<1>3. CASE StatKey(p) \/ OpensslFails(p) \/ ReadAuthority(p)
  <2>1. place[p] \in {"statKey", "renameKey", "read"}
    BY <1>3 DEF StatKey, OpensslFails, ReadAuthority
  <2> QED BY <2>1
<1>4. CASE ReadLeaf(p) \/ SignLeaf(p) \/ RenameLeafKey(p) \/ RenameLeafCertificate(p)
           \/ RenameLeafChain(p) \/ CheckLeaf(p) \/ UseLeaf(p)
  BY <1>1, <1>4 DEF ReadLeaf, SignLeaf, RenameLeafKey, RenameLeafCertificate, RenameLeafChain,
                    CheckLeaf, UseLeaf, Move
<1>5. CASE LockMigration(p) \/ LookAtAuthority(p) \/ SelectSource(p) \/ NoSource(p) \/ Mark(p)
  BY <1>1, <1>5 DEF LockMigration, LookAtAuthority, SelectSource, NoSource, Mark, Move
<1>6. CASE LookForKey(p) \/ CopyKey(p) \/ LookForCertificate(p) \/ CopyCertificate(p) \/ Unmark(p)
  BY <1>1, <1>6 DEF LookForKey, CopyKey, LookForCertificate, CopyCertificate, Unmark, Move
<1>7. CASE UnlockMigration(p) \/ LockTimeout(p) \/ Die(p)
  BY <1>1, <1>7 DEF UnlockMigration, LockTimeout, Die, Move
<1>8. CASE \/ AddAnchor(p) \/ ChangeFails(p) \/ Untrust(p) \/ RemoveAnchor(p) \/ Refresh(p)
           \/ RefreshFails(p) \/ VerifyTrust(p) \/ Clean(p) \/ AskWhetherTrusted(p) \/ UnlinkAuthority(p)
  <2>1. place[p] \in {"anchor", "removeAnchor", "refresh", "verify", "readRecord", "unlink"}
        \/ (place[p] = "start" /\ (Untrust(p) \/ Clean(p)))
    BY <1>8 DEF AddAnchor, ChangeFails, Untrust, RemoveAnchor, Refresh, RefreshFails, VerifyTrust,
                Clean, AskWhetherTrusted, UnlinkAuthority, Unlink, Move
  <2> QED BY <2>1
<1>9. CASE Begin(p) \/ Enter(p)
  <2>1. Begin(p) \/ place[p] = "lock"
    BY <1>9 DEF Enter, WriteLock, Locking, AInv, CommandFits
  <2>2. Begin(p) => place[p] \in {"start", "ensure"}
    BY DEF Begin
  <2> QED BY <2>1, <2>2
<1>10. CASE LockSteps(p) \/ VanishedIsStale(p) \/ Unlock(p)
  <2>1. place'[p] = place[p]
    BY <1>1, <1>10 DEF LockSteps, VanishedIsStale, Unlock
  <2> QED BY <1>1, <2>1
<1> QED BY <1>2, <1>3, <1>4, <1>5, <1>6, <1>7, <1>8, <1>9, <1>10 DEF Acts

\* Where a process is still fits its command after a step, and so does what
\* the migrator holds.
LEMMA FitsStep ==
  ASSUME AInv, NEW p \in Process, Acts(p)
  PROVE  CommandFits'
<1>1. PICK to \in AuthorityPlaces : Went(p, to)
  BY PlaceStep DEF AInv, AuthorityTypeOK
<1>2. /\ place \in [Process -> AuthorityPlaces] /\ place'[p] = to
      /\ \A q \in Process \ {p} : place'[q] = place[q] /\ pc'[q] = pc[q]
      /\ job' = job
  BY <1>1 DEF Went, AInv, AuthorityTypeOK, setting
<1>3. ASSUME NEW q \in Process
      PROVE  /\ place'[q] \in InLock => pc'[q] = "running"
             /\ pc'[q] \in Locking => place'[q] = "lock"
             /\ pc'[q] = "exited" => place'[q] = "failed"
             /\ place'[q] \in BeforeMark \cup Copying => job'[q] = "migrate"
             /\ place'[q] \in AboutLeaf => job'[q] = "leaf"
             /\ place'[q] \in Cleaning => job'[q] = "clean"
  <2>1. CASE q = p
    BY <1>1, <1>2, <2>1 DEF Went, PlaceFitsJob
  <2>2. CASE q # p
    BY <1>2, <2>2 DEF AInv, CommandFits
  <2> QED BY <2>1, <2>2
<1>4. ASSUME NEW q \in Process, place'[q] \in Signing PROVE authority'[q] \in Authority
  <2>1. CASE q # p
    BY <1>2, <1>4, <2>1, RememberStep DEF AInv, CommandFits
  <2>2. CASE q = p /\ place'[p] = place[p]
    BY <1>4, <2>2, RememberStep DEF AInv, CommandFits
  <2>3. CASE q = p /\ place'[p] # place[p]
    <3>1. SignLeaf(p) \/ RenameLeafKey(p) \/ RenameLeafCertificate(p)
      BY <1>4, <2>3, LeafArrivals DEF Signing
    <3>2. CASE SignLeaf(p)
      <4>1. caCert \in Authority /\ authority'[p] = caCert
        BY <1>2, <1>4, <2>3, <3>2 DEF SignLeaf, Move, Signing, AInv, AuthorityTypeOK
      <4> QED BY <2>3, <4>1
    <3>3. CASE RenameLeafKey(p) \/ RenameLeafCertificate(p)
      BY <2>3, <3>3 DEF RenameLeafKey, RenameLeafCertificate, Move, Signing, AInv, CommandFits
    <3> QED BY <3>1, <3>2, <3>3
  <2> QED BY <2>1, <2>2, <2>3
<1>5. ASSUME NEW q \in Process, job'[q] = "migrate", Busy(q)' PROVE migrator' = q
  <2>1. CASE Busy(q)
    <3>1. migrator = q /\ q # Nothing
      BY <1>2, <1>5, <2>1, AuthorityAssumption DEF AInv, CommandFits, Authority
    <3>2. ~LockMigration(p)
      <4>1. q \notin exited
        BY <2>1 DEF exited, AInv, CommandFits, Busy
      <4> QED BY <3>1, <4>1 DEF LockMigration
    <3>3. ~UnlockMigration(p)
      <4>1. UnlockMigration(p) => migrator = p /\ place'[p] \in {"done", "failed"}
        BY <1>2 DEF UnlockMigration, Move
      <4> QED BY <1>5, <3>1, <4>1 DEF Busy
    <3> QED BY <3>1, <3>2, <3>3, Changers
  <2>2. CASE ~Busy(q)
    <3>1. q = p
      BY <1>2, <1>5, <2>2 DEF Busy
    <3>2. Begin(p) \/ LockMigration(p) \/ Untrust(p) \/ Clean(p)
      BY <1>5, <2>2, <3>1, Beginnings
    <3>3. LockMigration(p)
      <4>1. job[p] = "migrate" /\ place[p] # "ensure"
        BY <1>2, <1>5, <2>2, <3>1 DEF Busy
      <4> QED BY <3>2, <4>1 DEF Begin, Untrust, Clean
    <3> QED BY <3>1, <3>3 DEF LockMigration
  <2> QED BY <2>1, <2>2
<1>6. ASSUME NEW q \in Process, job'[q] = "migrate", Busy(q)', place'[q] \notin BeforeMark
      PROVE  marker'
  <2>1. CASE Busy(q) /\ place[q] \notin BeforeMark
    <3>1. marker /\ migrator = q
      BY <1>2, <1>6, <2>1 DEF AInv, CommandFits
    <3>2. ~Unmark(p)
      <4>1. ASSUME Unmark(p) PROVE FALSE
        <5>1. place[p] = "unmark" /\ place'[p] = "finish"
          BY <1>2, <4>1 DEF Unmark, Move
        <5>2. job[p] = "migrate" /\ Busy(p)
          BY <5>1 DEF AInv, CommandFits, Copying, Busy
        <5>3. migrator = p
          BY <5>2 DEF AInv, CommandFits
        <5> QED BY <1>6, <3>1, <5>1, <5>3 DEF BeforeMark
      <4> QED BY <4>1
    <3>3. marker' = marker \/ Mark(p)
      BY <3>2, Changers
    <3> QED BY <3>1, <3>3 DEF Mark
  <2>2. CASE ~(Busy(q) /\ place[q] \notin BeforeMark)
    <3>1. q = p
      BY <1>2, <1>6, <2>2 DEF Busy
    <3>2. CASE place[p] \in BeforeMark
      <4>1. (SelectSource(p) /\ marker) \/ Mark(p)
        BY <1>6, <3>1, <3>2, Beginnings
      <4> QED BY <4>1, Changers DEF SelectSource, Mark, files
    <3>3. CASE ~Busy(p)
      <4>1. Begin(p) \/ LockMigration(p) \/ Untrust(p) \/ Clean(p)
        BY <1>6, <3>1, <3>3, Beginnings
      <4>2. job[p] = "migrate" /\ place[p] # "ensure"
        BY <1>2, <1>6, <3>1, <3>3 DEF Busy
      <4>3. LockMigration(p)
        BY <4>1, <4>2 DEF Begin, Untrust, Clean
      <4>4. place'[p] = "lookAtAuthority"
        BY <1>2, <4>3 DEF LockMigration, Move
      <4> QED BY <1>6, <3>1, <4>4 DEF BeforeMark
    <3> QED BY <2>2, <3>1, <3>2, <3>3
  <2> QED BY <2>1, <2>2
<1> QED BY <1>3, <1>4, <1>5, <1>6 DEF CommandFits

-----------------------------------------------------------------------------
(* Who can be where together.                                              *)

LEMMA Others ==
  ASSUME AInv, NEW p \in Process, Acts(p)
  PROVE  /\ \A q \in Process \ {p} : place'[q] = place[q]
         /\ job' = job
BY PlaceStep DEF AInv, AuthorityTypeOK, Went, setting

\* While no lock is taken away, one process at a time is under it.
LEMMA InLockAlone ==
  ASSUME AInv, ~mixed, NEW p \in Process, NEW q \in Process, place[p] \in InLock, place[q] \in InLock
  PROVE  p = q
<1>1. pc[p] = "running" /\ pc[q] = "running"
  BY DEF AInv, CommandFits
<1>2. HasCreated(p, 1) /\ HasCreated(q, 1)
  BY <1>1 DEF AInv, AuthorityTypeOK, PlaceFits, TypeOK, HasCreated
<1> QED BY <1>1, <1>2 DEF AInv, LiveLocks, exited

\* One process at a time migrates, and past its mark there is the mark.
LEMMA InMigration ==
  ASSUME AInv, NEW p \in Process, place[p] \in BeforeMark \cup Copying
  PROVE  /\ job[p] = "migrate" /\ migrator = p /\ migrator # Nothing
         /\ place[p] \in Copying => marker
<1>1. job[p] = "migrate" /\ Busy(p) /\ (place[p] \in Copying => place[p] \notin BeforeMark)
  BY DEF AInv, CommandFits, Busy, BeforeMark, Copying
<1>2. migrator = p /\ (place[p] \in Copying => marker)
  BY <1>1 DEF AInv, CommandFits
<1>3. p # Nothing
  BY AuthorityAssumption DEF Authority
<1> QED BY <1>1, <1>2, <1>3

LEMMA OneLeafStep ==
  ASSUME AInv, NEW p \in Process, Acts(p)
  PROVE  OneLeafAtATime'
<1>1. ASSUME NEW q \in Process, job'[q] = "leaf", Busy(q)'
      PROVE  /\ Busy(q) \/ (q = p /\ \A r \in Process \ {p} : job[r] = "leaf" => ~Busy(r))
             /\ job[q] = "leaf"
  <2>1. job[q] = "leaf" /\ (q # p => Busy(q))
    BY <1>1, Others DEF Busy
  <2>2. CASE q = p /\ ~Busy(p)
    <3>1. Begin(p)
      BY <1>1, <2>1, <2>2, Beginnings DEF LockMigration, Untrust, Clean
    <3> QED BY <2>1, <2>2, <3>1 DEF Begin
  <2> QED BY <2>1, <2>2
<1>2. ASSUME NEW q \in Process, NEW r \in Process,
             job'[q] = "leaf", job'[r] = "leaf", Busy(q)', Busy(r)'
      PROVE  q = r
  <2>1. CASE Busy(q) /\ Busy(r)
    BY <1>1, <1>2, <2>1 DEF AInv, OneLeafAtATime
  <2>2. CASE ~(Busy(q) /\ Busy(r))
    <3>1. r # p => Busy(r) /\ job[r] = "leaf"
      BY <1>1, <1>2
    <3>2. q # p => Busy(q) /\ job[q] = "leaf"
      BY <1>1, <1>2
    <3> QED BY <1>1, <1>2, <2>2, <3>1, <3>2
  <2> QED BY <2>1, <2>2
<1> QED BY <1>2 DEF OneLeafAtATime

LEMMA NoCleanStep ==
  ASSUME AInv, NEW p \in Process, Acts(p), ~mixed'
  PROVE  NoCleanBesideLeaf'
<1>1. ~mixed /\ NoCleanBesideLeaf
  BY HistoryStep DEF AInv
<1>2. SUFFICES ASSUME NEW l \in Process, NEW c \in Process,
                      job'[l] = "leaf", job'[c] = "clean", Busy(l)', Busy(c)'
               PROVE  FALSE
  BY DEF NoCleanBesideLeaf
<1>3. /\ job[l] = "leaf" /\ job[c] = "clean" /\ l # c
      /\ l # p => Busy(l)
      /\ c # p => Busy(c)
  BY <1>2, Others DEF Busy
<1>4. CASE l = p /\ ~Busy(l)
  <2>1. Begin(p)
    BY <1>2, <1>3, <1>4, Beginnings DEF LockMigration, Untrust, Clean
  <2>2. Overlaps(p)
    BY <1>3, <1>4 DEF Overlaps
  <2> QED BY <2>1, <2>2 DEF Begin
<1>5. CASE c = p /\ ~Busy(c)
  <2>1. Begin(p) \/ Clean(p)
    BY <1>2, <1>3, <1>5, Beginnings DEF LockMigration, Untrust
  <2>2. Overlaps(p)
    BY <1>3, <1>5 DEF Overlaps
  <2> QED BY <2>1, <2>2 DEF Begin, Clean
<1> QED BY <1>1, <1>3, <1>4, <1>5 DEF NoCleanBesideLeaf

-----------------------------------------------------------------------------
(* What is missing, and what the mark tells.                               *)

\* While someone is under the lock, a migration that has copied cannot unmark.
LEMMA CopyWaitsOn ==
  ASSUME AInv, NEW p \in Process, Acts(p), ~mixed, CopyWaits,
         NEW q \in Process, place[q] \in InLock \ {"read"}
  PROVE  CopyWaits'
<1>1. marker'
  <2>1. ~Unmark(p)
    BY DEF Unmark, Move, CopyWaits
  <2> QED BY <2>1, Changers DEF CopyWaits, Mark
<1>2. ASSUME NEW r \in Process, place'[r] = "unmark" PROVE FALSE
  <2>1. r = p /\ place'[p] # place[p]
    BY <1>2, Others DEF CopyWaits
  <2>2. ReadAuthority(p)
    BY <1>2, <2>1, Arrivals
  <2>3. place[p] = "read"
    BY <2>2 DEF ReadAuthority
  <2> QED BY <2>3, InLockAlone DEF InLock
<1> QED BY <1>1, <1>2 DEF CopyWaits

\* A copy is made with the mark, before the migration waits for the lock again.
LEMMA CopyMakesWait ==
  ASSUME AInv, NEW p \in Process, CopyKey(p) \/ CopyCertificate(p)
  PROVE  CopyWaits'
<1>1. place[p] \in {"copyKey", "copyCertificate"} /\ place'[p] \in {"lookForCertificate", "ensure"}
      /\ marker' = marker
  BY DEF CopyKey, CopyCertificate, Move, AInv, AuthorityTypeOK
<1>2. Acts(p)
  BY DEF Acts
<1>3. marker
  BY <1>1, InMigration DEF Copying
<1>4. ASSUME NEW r \in Process, place'[r] = "unmark" PROVE FALSE
  <2>1. r # p /\ place[r] = "unmark"
    BY <1>1, <1>2, <1>4, Others
  <2>2. migrator = r
    BY <2>1, InMigration DEF Copying
  <2>3. migrator = p
    BY <1>1, InMigration DEF Copying
  <2> QED BY <2>1, <2>2, <2>3
<1> QED BY <1>1, <1>3, <1>4 DEF CopyWaits

\* The files of the authority that are written: by whom, and where it stood.
LEMMA Writers ==
  ASSUME AInv, NEW p \in Process, Acts(p)
  PROVE  /\ \/ caKey' = caKey
            \/ caKey' = Nothing /\ job[p] = "clean" /\ place[p] = "unlink"
            \/ RenameKey(p) /\ place[p] = "renameKey" /\ place'[p] = "renameCertificate" /\ caKey' = p
            \/ CopyKey(p) /\ place[p] = "copyKey" /\ place'[p] = "lookForCertificate" /\ caKey' = Legacy
         /\ \/ caCert' = caCert
            \/ caCert' = Nothing /\ job[p] = "clean" /\ place[p] = "unlink"
            \/ RenameCertificate(p) /\ place[p] = "renameCertificate" /\ place'[p] = "read" /\ caCert' = p
            \/ CopyCertificate(p) /\ place[p] = "copyCertificate" /\ place'[p] = "ensure" /\ caCert' = Legacy
<1>1. place \in [Process -> AuthorityPlaces]
  BY DEF AInv, AuthorityTypeOK
<1>2. CASE UnlinkAuthority(p)
  <2>1. place[p] = "unlink" /\ caKey' \in {caKey, Nothing} /\ caCert' \in {caCert, Nothing}
    BY <1>2 DEF UnlinkAuthority, Unlink, Move
  <2> QED BY <2>1 DEF AInv, CommandFits, Cleaning
<1>3. CASE RenameKey(p) \/ RenameCertificate(p)
  BY <1>1, <1>3 DEF RenameKey, RenameCertificate, Move
<1>4. CASE CopyKey(p) \/ CopyCertificate(p)
  BY <1>1, <1>4 DEF CopyKey, CopyCertificate, Move
<1> QED BY <1>2, <1>3, <1>4, Changers

LEMMA MissingStep ==
  ASSUME AInv, NEW p \in Process, Acts(p), ~mixed'
  PROVE  MissingStays'
<1>1. ~mixed /\ MissingStays
  BY HistoryStep DEF AInv
<1>2. place \in [Process -> AuthorityPlaces]
  BY DEF AInv, AuthorityTypeOK
<1>3. ASSUME NEW q \in Process, place'[q] = "statKey", authority'[q] = Nothing
      PROVE  caCert' = Nothing \/ CopyWaits'
  <2>1. CASE StatCertificate(p) /\ q = p
    <3>1. authority'[p] = caCert /\ caCert' = caCert
      BY <2>1 DEF StatCertificate, files, AInv, AuthorityTypeOK
    <3> QED BY <1>3, <2>1, <3>1
  <2>2. CASE ~(StatCertificate(p) /\ q = p)
    <3>1. place[q] = "statKey" /\ authority[q] = Nothing
      BY <1>3, <2>2, Others, Arrivals, RememberStep
    <3>2. place[q] \in InLock \ {"read"}
      BY <3>1 DEF InLock
    <3>3. CASE CopyWaits
      BY <1>1, <3>2, <3>3, CopyWaitsOn
    <3>4. CASE caCert = Nothing
      <4>1. ~RenameCertificate(p)
        <5>1. RenameCertificate(p) => place[p] = "renameCertificate"
          BY DEF RenameCertificate, Move
        <5> QED BY <1>1, <3>1, <5>1, InLockAlone DEF InLock
      <4> QED BY <3>4, <4>1, Writers, CopyMakesWait
    <3> QED BY <1>1, <3>1, <3>3, <3>4 DEF MissingStays
  <2> QED BY <2>1, <2>2
<1>4. ASSUME NEW q \in Process, place'[q] = "renameKey"
      PROVE  (caKey' = Nothing /\ caCert' = Nothing) \/ CopyWaits'
  <2>1. CASE StatKey(p) /\ q = p
    <3>1. /\ place[p] = "statKey" /\ authority[p] = Nothing /\ caKey = Nothing
          /\ caKey' = caKey /\ caCert' = caCert
      <4>1. place[p] = "statKey" /\ caKey' = caKey /\ caCert' = caCert
        BY <2>1 DEF StatKey, files
      <4>2. authority[p] = Nothing /\ caKey = Nothing
        BY <1>2, <1>4, <2>1 DEF StatKey, Move, Throw, Leave
      <4> QED BY <4>1, <4>2
    <3>2. caCert = Nothing \/ CopyWaits
      BY <1>1, <3>1 DEF MissingStays
    <3> QED BY <1>1, <3>1, <3>2, CopyWaitsOn DEF InLock
  <2>2. CASE ~(StatKey(p) /\ q = p)
    <3>1. place[q] = "renameKey"
      BY <1>4, <2>2, Others, Arrivals
    <3>2. CASE CopyWaits
      BY <1>1, <3>1, <3>2, CopyWaitsOn DEF InLock
    <3>3. CASE caKey = Nothing /\ caCert = Nothing
      <4>1. ~RenameCertificate(p) /\ ~RenameKey(p)
        <5>1. /\ RenameCertificate(p) => place[p] = "renameCertificate"
              /\ RenameKey(p) => place[p] = "renameKey" /\ place'[p] = "renameCertificate"
          BY <1>2 DEF RenameCertificate, RenameKey, Move
        <5> QED BY <1>1, <1>4, <3>1, <5>1, InLockAlone DEF InLock
      <4> QED BY <3>3, <4>1, Writers, CopyMakesWait
    <3> QED BY <1>1, <3>1, <3>2, <3>3 DEF MissingStays
  <2> QED BY <2>1, <2>2
<1>5. ASSUME NEW q \in Process, place'[q] = "renameCertificate"
      PROVE  caCert' = Nothing /\ migrator' = Nothing /\ ~marker'
  <2>1. CASE RenameKey(p) /\ q = p
    <3>1. place[p] = "renameKey" /\ migrator = Nothing /\ ~marker
      BY <2>1 DEF RenameKey, Move
    <3>2. caCert = Nothing
      BY <1>1, <3>1 DEF MissingStays, CopyWaits
    <3> QED BY <2>1, <3>1, <3>2 DEF RenameKey
  <2>2. CASE ~(RenameKey(p) /\ q = p)
    <3>1. place[q] = "renameCertificate"
      BY <1>5, <2>2, Others, Arrivals
    <3>2. caCert = Nothing /\ migrator = Nothing /\ ~marker
      BY <1>1, <3>1 DEF MissingStays
    <3>3. ~RenameCertificate(p)
      <4>1. RenameCertificate(p) => place[p] = "renameCertificate" /\ place'[p] = "read"
        BY <1>2 DEF RenameCertificate, Move
      <4> QED BY <1>1, <1>5, <3>1, <4>1, InLockAlone DEF InLock
    <3>4. place[p] \notin BeforeMark \cup Copying
      BY <3>2, InMigration
    <3>5. ~Mark(p) /\ ~CopyCertificate(p)
      BY <3>4 DEF Mark, CopyCertificate, Move, BeforeMark, Copying
    <3>6. ~UnlockMigration(p)
      BY <3>2, AuthorityAssumption DEF UnlockMigration, Authority
    <3>7. ~LockMigration(p)
      BY <3>1 DEF LockMigration
    <3>8. caCert' = Nothing
      BY <3>2, <3>3, <3>5, Writers
    <3>9. migrator' = Nothing
      BY <3>2, <3>6, <3>7, Changers
    <3>10. ~marker'
      BY <3>2, <3>5, Changers DEF Unmark
    <3> QED BY <3>8, <3>9, <3>10
  <2> QED BY <2>1, <2>2
<1>6. ASSUME NEW q \in Process, place'[q] = "copyKey"
      PROVE  caKey' = Nothing
  <2>1. CASE LookForKey(p) /\ q = p
    BY <1>2, <1>6, <2>1 DEF LookForKey, Move, files
  <2>2. CASE ~(LookForKey(p) /\ q = p)
    <3>1. place[q] = "copyKey"
      BY <1>6, <2>2, Others, Arrivals
    <3>2. caKey = Nothing /\ migrator = q /\ migrator # Nothing
      BY <1>1, <3>1, InMigration DEF MissingStays, Copying
    <3>3. ~RenameKey(p)
      BY <3>2 DEF RenameKey
    <3>4. ~CopyKey(p)
      <4>1. CopyKey(p) => place[p] = "copyKey" /\ place'[p] = "lookForCertificate"
        BY <1>2 DEF CopyKey, Move
      <4> QED BY <1>6, <3>2, <4>1, InMigration DEF Copying
    <3> QED BY <3>2, <3>3, <3>4, Writers
  <2> QED BY <2>1, <2>2
<1>7. ASSUME NEW q \in Process, place'[q] = "copyCertificate"
      PROVE  caCert' = Nothing
  <2>1. CASE LookForCertificate(p) /\ q = p
    BY <1>2, <1>7, <2>1 DEF LookForCertificate, Move, files
  <2>2. CASE ~(LookForCertificate(p) /\ q = p)
    <3>1. place[q] = "copyCertificate"
      BY <1>7, <2>2, Others, Arrivals
    <3>2. caCert = Nothing /\ migrator = q /\ migrator # Nothing
      BY <1>1, <3>1, InMigration DEF MissingStays, Copying
    <3>3. ~RenameCertificate(p)
      BY <3>2 DEF RenameCertificate
    <3>4. ~CopyCertificate(p)
      <4>1. CopyCertificate(p) => place[p] = "copyCertificate" /\ place'[p] = "ensure"
        BY <1>2 DEF CopyCertificate, Move
      <4> QED BY <1>7, <3>2, <4>1, InMigration DEF Copying
    <3> QED BY <3>2, <3>3, <3>4, Writers
  <2> QED BY <2>1, <2>2
<1> QED BY <1>3, <1>4, <1>5, <1>6, <1>7 DEF MissingStays

LEMMA MarkStep ==
  ASSUME AInv, NEW p \in Process, Acts(p), ~mixed', NoClean'
  PROVE  MarkTells'
<1>1. /\ ~mixed /\ NoClean
      /\ MissingStays /\ MarkTells
  <2>1. ~mixed /\ NoClean
    BY HistoryStep, Others DEF NoClean
  <2> QED BY <2>1 DEF AInv
<1>2. place \in [Process -> AuthorityPlaces] /\ marker \in BOOLEAN /\ p # Legacy /\ p # Nothing
      /\ Legacy # Nothing
  BY AuthorityAssumption DEF AInv, AuthorityTypeOK, Authority
<1>3. job[p] # "clean"
  BY <1>1 DEF NoClean
<1>4. RenameKey(p) => /\ ~marker /\ migrator = Nothing /\ caKey = Nothing /\ caCert = Nothing
                      /\ caCert' = caCert /\ marker' = marker
  <2>1. RenameKey(p) => place[p] = "renameKey" /\ ~marker /\ migrator = Nothing
                        /\ caCert' = caCert /\ marker' = marker
    BY DEF RenameKey, Move
  <2> QED BY <1>1, <2>1 DEF MissingStays, CopyWaits
<1>5. RenameCertificate(p) => /\ ~marker /\ migrator = Nothing /\ caKey = p /\ caCert = Nothing
                              /\ caKey' = caKey /\ marker' = marker
  <2>1. RenameCertificate(p) => place[p] = "renameCertificate"
                                /\ caKey' = caKey /\ marker' = marker
    BY DEF RenameCertificate, Move
  <2> QED BY <1>1, <2>1 DEF MissingStays, MarkTells
<1>6. CopyKey(p) \/ CopyCertificate(p) => marker /\ marker' = marker /\ migrator = p
  <2>1. CopyKey(p) \/ CopyCertificate(p) => place[p] \in Copying /\ marker' = marker
    BY DEF CopyKey, CopyCertificate, Move, Copying
  <2> QED BY <2>1, InMigration
<1>7. Unmark(p) => /\ ~marker' /\ caKey' = caKey /\ caCert' = caCert /\ caKey = caCert /\ migrator = p
                   /\ place'[p] = "finish"
  <2>1. Unmark(p) => /\ place[p] = "unmark" /\ ~marker' /\ caKey' = caKey /\ caCert' = caCert
                     /\ place'[p] = "finish"
    BY <1>2 DEF Unmark, Move
  <2> QED BY <1>1, <2>1, InMigration DEF MarkTells, Copying
<1>8. Mark(p) => /\ marker' /\ caKey' = caKey /\ caCert' = caCert
                 /\ {caKey, caCert} \subseteq {Legacy, Nothing}
  <2>1. Mark(p) => /\ place[p] = "mark" /\ marker' /\ caKey' = caKey /\ caCert' = caCert
                   /\ (caKey = Nothing) <=> (caCert = Nothing)
    BY DEF Mark, Move
  <2> QED BY <1>1, <1>2, <2>1 DEF MarkTells
<1>9. marker' => {caKey', caCert'} \subseteq {Legacy, Nothing}
  <2>1. CASE Mark(p)
    BY <1>8, <2>1
  <2>2. CASE ~Mark(p)
    <3>1. marker' => marker
      BY <1>7, <2>2, Changers
    <3> QED BY <1>1, <1>3, <1>4, <1>5, <3>1, Writers DEF MarkTells
  <2> QED BY <2>1, <2>2
<1>10. caKey' # caCert' /\ Legacy \in {caKey', caCert'} => marker'
  <2>1. CASE RenameKey(p)
    BY <1>2, <1>4, <2>1 DEF RenameKey
  <2>2. CASE RenameCertificate(p)
    BY <1>2, <1>5, <2>2 DEF RenameCertificate
  <2>3. CASE CopyKey(p) \/ CopyCertificate(p)
    BY <1>6, <2>3
  <2>4. CASE Unmark(p)
    BY <1>7, <2>4
  <2>5. CASE Mark(p)
    BY <1>8, <2>5
  <2>6. CASE ~RenameKey(p) /\ ~RenameCertificate(p) /\ ~CopyKey(p) /\ ~CopyCertificate(p) /\ ~Unmark(p) /\ ~Mark(p)
    <3>1. caKey' = caKey /\ caCert' = caCert /\ marker' = marker
      BY <1>3, <2>6, Writers, Changers
    <3> QED BY <1>1, <3>1 DEF MarkTells
  <2> QED BY <2>1, <2>2, <2>3, <2>4, <2>5, <2>6
<1>11. ASSUME NEW q \in Process, place'[q] \in {"select", "mark"}, ~marker'
       PROVE  Nothing \in {caKey', caCert'}
  <2>1. CASE (LookAtAuthority(p) \/ SelectSource(p)) /\ q = p /\ place[p] # place'[p]
    <3>1. caKey' = caKey /\ caCert' = caCert /\ marker' = marker
      BY <2>1 DEF LookAtAuthority, SelectSource, files
    <3>2. CASE LookAtAuthority(p)
      BY <1>2, <1>11, <2>1, <3>1, <3>2 DEF LookAtAuthority, Move
    <3>3. CASE SelectSource(p)
      <4>1. place[p] = "select"
        BY <3>3 DEF SelectSource, Move
      <4> QED BY <1>1, <1>11, <3>1, <4>1 DEF MarkTells
    <3> QED BY <2>1, <3>2, <3>3
  <2>2. CASE ~((LookAtAuthority(p) \/ SelectSource(p)) /\ q = p /\ place[p] # place'[p])
    <3>1. place[q] \in {"select", "mark"}
      <4>1. CASE q = p /\ place'[p] # place[p]
        BY <1>11, <2>2, <4>1, Arrivals
      <4>2. CASE ~(q = p /\ place'[p] # place[p])
        BY <1>11, <4>2, Others
      <4> QED BY <4>1, <4>2
    <3>2. migrator = q /\ migrator # Nothing
      BY <3>1, InMigration DEF BeforeMark
    <3>3. ~Unmark(p)
      BY <1>7, <1>11, <3>2
    <3>4. ~marker /\ ~CopyKey(p) /\ ~CopyCertificate(p) /\ ~RenameKey(p) /\ ~RenameCertificate(p)
      BY <1>4, <1>5, <1>6, <1>8, <1>11, <3>2, <3>3, Changers
    <3>5. caKey' = caKey /\ caCert' = caCert
      BY <1>3, <3>4, Writers
    <3> QED BY <1>1, <3>1, <3>4, <3>5 DEF MarkTells
  <2> QED BY <2>1, <2>2
<1>12. ASSUME NEW q \in Process, place'[q] = "unmark"
       PROVE  caKey' = caCert'
  <2>1. CASE ReadAuthority(p) /\ q = p /\ place'[p] # place[p]
    <3>1. caKey' = caKey /\ caCert' = caCert
      BY <2>1 DEF ReadAuthority
    <3>2. caKey = caCert
      BY <1>2, <1>12, <2>1 DEF ReadAuthority, Throw, Leave
    <3> QED BY <3>1, <3>2
  <2>2. CASE ~(ReadAuthority(p) /\ q = p /\ place'[p] # place[p])
    <3>1. place[q] = "unmark"
      BY <1>12, <2>2, Others, Arrivals
    <3>2. migrator = q /\ migrator # Nothing
      BY <3>1, InMigration DEF Copying
    <3>3. ~CopyKey(p) /\ ~CopyCertificate(p)
      <4>1. CopyKey(p) \/ CopyCertificate(p) => place[p] \in {"copyKey", "copyCertificate"}
        BY DEF CopyKey, CopyCertificate, Move
      <4> QED BY <1>6, <3>1, <3>2, <4>1
    <3>4. caKey' = caKey /\ caCert' = caCert
      BY <1>3, <1>4, <1>5, <3>2, <3>3, Writers
    <3> QED BY <1>1, <3>1, <3>4 DEF MarkTells
  <2> QED BY <2>1, <2>2
<1>13. ASSUME NEW q \in Process, place'[q] = "renameCertificate"
       PROVE  caKey' = q
  <2>1. CASE RenameKey(p) /\ q = p
    BY <2>1 DEF RenameKey
  <2>2. CASE ~(RenameKey(p) /\ q = p)
    <3>1. place[q] = "renameCertificate"
      BY <1>13, <2>2, Others, Arrivals
    <3>2. caKey = q /\ migrator = Nothing
      BY <1>1, <3>1 DEF MarkTells, MissingStays
    <3>3. ~RenameKey(p)
      <4>1. RenameKey(p) => place[p] = "renameKey"
        BY DEF RenameKey, Move
      <4> QED BY <1>1, <3>1, <4>1, InLockAlone DEF InLock
    <3> QED BY <1>2, <1>3, <1>6, <3>2, <3>3, Writers
  <2> QED BY <2>1, <2>2
<1> QED BY <1>9, <1>10, <1>11, <1>12, <1>13 DEF MarkTells
-----------------------------------------------------------------------------
(* The files of a leaf certificate.                                        *)

LEMMA LeafStep ==
  ASSUME AInv, NEW p \in Process, Acts(p), ~mixed', ~torn'
  PROVE  LeafTogether'
<1>1. /\ ~mixed /\ ~torn
      /\ LeafTogether /\ MissingStays /\ NoCleanBesideLeaf
  <2>1. ~mixed /\ ~torn
    BY HistoryStep
  <2> QED BY <2>1 DEF AInv
<1>2. place \in [Process -> AuthorityPlaces] /\ authority \in [Process -> Authority \cup {Nothing}]
  BY DEF AInv, AuthorityTypeOK
<1>3. ASSUME NEW q \in Process, place[q] \in {"leafChain", "useLeaf"}
      PROVE  /\ ~Clean(p)
             /\ ~(job[p] = "clean" /\ place[p] = "unlink")
             /\ q # p => ~RenameLeafKey(p) /\ ~RenameLeafCertificate(p) /\ ~RenameLeafChain(p)
  <2>1. job[q] = "leaf" /\ Busy(q)
    BY <1>3 DEF AInv, CommandFits, AboutLeaf, Signing, Busy
  <2>2. ~Clean(p)
    <3>1. Clean(p) => job[p] = "clean" /\ Overlaps(p)
      BY <2>1 DEF Clean, Overlaps
    <3> QED BY <3>1 DEF Clean
  <2>3. ~(job[p] = "clean" /\ place[p] = "unlink")
    BY <1>1, <2>1 DEF NoCleanBesideLeaf, Busy
  <2>4. RenameLeafKey(p) \/ RenameLeafCertificate(p) \/ RenameLeafChain(p) => q = p
    <3>1. RenameLeafKey(p) \/ RenameLeafCertificate(p) \/ RenameLeafChain(p) => place[p] \in Signing
      BY DEF RenameLeafKey, RenameLeafCertificate, RenameLeafChain, Move, Signing
    <3>2. place[p] \in Signing => job[p] = "leaf" /\ Busy(p)
      BY DEF AInv, CommandFits, AboutLeaf, Signing, Busy
    <3> QED BY <2>1, <3>1, <3>2 DEF AInv, OneLeafAtATime
  <2> QED BY <2>2, <2>3, <2>4
<1>4. ASSUME \A q \in Process : place'[q] # "leafChain"
      PROVE  leafCert' = leafChain'
  <2>1. ~RenameLeafCertificate(p)
    BY <1>2, <1>4 DEF RenameLeafCertificate, Move
  <2>2. CASE \E r \in Process : place[r] = "leafChain"
    <3>1. PICK r \in Process : place[r] = "leafChain"
      BY <2>2
    <3>2. r = p /\ place'[p] # place[p]
      BY <1>4, <3>1, Others
    <3>3. RenameLeafChain(p)
      <4>1. ~Die(p)
        BY <3>1, <3>2 DEF Die
      <4> QED BY <3>1, <3>2, <4>1, LeafArrivals
    <3>4. leafCert' = leafCert /\ leafChain' = NewLeaf(p)
      BY <3>3 DEF RenameLeafChain
    <3> QED BY <1>1, <3>1, <3>2, <3>4 DEF LeafTogether
  <2>3. CASE ~(\E r \in Process : place[r] = "leafChain")
    <3>1. leafCert = leafChain /\ ~RenameLeafChain(p)
      BY <1>1, <2>3 DEF LeafTogether, RenameLeafChain, Move
    <3>2. Clean(p) => leafCert' = leafChain'
      BY DEF Clean
    <3> QED BY <2>1, <3>1, <3>2, Changers
  <2> QED BY <2>2, <2>3
<1>5. ASSUME NEW q \in Process, place'[q] = "leafChain"
      PROVE  leafCert' = [by |-> q, signer |-> authority'[q]]
  <2>1. CASE RenameLeafCertificate(p) /\ q = p
    BY <2>1 DEF RenameLeafCertificate, NewLeaf
  <2>2. CASE ~(RenameLeafCertificate(p) /\ q = p)
    <3>1. place[q] = "leafChain"
      BY <1>5, <2>2, Others, LeafArrivals
    <3>2. authority'[q] = authority[q]
      BY <1>5, <3>1, RememberStep
    <3>3. leafCert' = leafCert
      BY <1>3, <2>2, <3>1, Changers
    <3> QED BY <1>1, <3>1, <3>2, <3>3 DEF LeafTogether, NewLeaf
  <2> QED BY <2>1, <2>2
<1>6. ASSUME NEW q \in Process, place'[q] = "useLeaf"
      PROVE  leafCert' # Nothing /\ leafKey' = leafCert' /\ leafCert'.signer = caCert'
  <2>1. CASE (ReadLeaf(p) \/ CheckLeaf(p)) /\ q = p
    <3>1. UNCHANGED <<leafs, files>>
      BY <2>1 DEF ReadLeaf, CheckLeaf
    <3>2. LeafIsValid
      BY <1>2, <1>6, <2>1 DEF ReadLeaf, CheckLeaf, Move
    <3> QED BY <3>1, <3>2 DEF LeafIsValid, leafs, files
  <2>2. CASE ~((ReadLeaf(p) \/ CheckLeaf(p)) /\ q = p)
    <3>1. place[q] = "useLeaf"
      BY <1>6, <2>2, Others, LeafArrivals
    <3>2. LeafIsValid /\ caCert # Nothing
      <4>1. LeafIsValid
        BY <1>1, <3>1 DEF LeafTogether
      <4>2. leafCert \in Leaf
        BY <4>1 DEF LeafIsValid, AInv, AuthorityTypeOK
      <4>3. leafCert.signer \in Authority
        BY <4>2 DEF Leaf
      <4> QED BY <4>1, <4>3, AuthorityAssumption DEF LeafIsValid
    <3>3. leafCert' = leafCert /\ leafKey' = leafKey
      <4>1. ~RenameLeafKey(p) /\ ~RenameLeafCertificate(p)
        <5>1. q = p => ~RenameLeafKey(p) /\ ~RenameLeafCertificate(p)
          BY <3>1 DEF RenameLeafKey, RenameLeafCertificate, Move
        <5> QED BY <1>3, <3>1, <5>1
      <4> QED BY <1>3, <3>1, <4>1, Changers
    <3>4. caCert' = caCert
      <4>1. place[p] \notin {"renameCertificate", "copyCertificate"}
        BY <1>1, <3>2 DEF MissingStays
      <4> QED BY <1>3, <3>1, <4>1, Writers
    <3> QED BY <3>2, <3>3, <3>4 DEF LeafIsValid
  <2> QED BY <2>1, <2>2
<1> QED BY <1>4, <1>5, <1>6 DEF LeafTogether, NewLeaf, LeafIsValid

-----------------------------------------------------------------------------
(* The invariant.                                                          *)

LEMMA AuthorityBegins == AuthorityInit => AInv
<1> SUFFICES ASSUME AuthorityInit PROVE AInv
  OBVIOUS
<1>1. TypeOK /\ PlaceFits /\ LocksStand
  BY LockBegins DEF AuthorityInit
<1>2. /\ job \in Jobs /\ tool \in Tools
      /\ \A p \in Process : place[p] = "start" /\ pc[p] = "idle" /\ held[p] = 0
      /\ ~mixed /\ ~torn /\ ~marker
      /\ caKey = Nothing /\ caCert = Nothing /\ leafCert = leafChain
  BY DEF AuthorityInit, Init
<1>3. AuthorityTypeOK
  <2>1. /\ place \in [Process -> AuthorityPlaces]
        /\ authority \in [Process -> Authority \cup {Nothing}]
        /\ unlinked \in [Process -> SUBSET {"key", "certificate", "record"}]
    BY DEF AuthorityInit, AuthorityPlaces
  <2>2. caRecord = Nothing /\ migrator = Nothing /\ leafKey = Nothing /\ leafCert = Nothing
        /\ leafChain = Nothing /\ anchors = {} /\ trusted = {}
    BY DEF AuthorityInit
  <2>3. marker \in BOOLEAN /\ mixed \in BOOLEAN /\ torn \in BOOLEAN
    BY DEF AuthorityInit
  <2> QED BY <1>1, <1>2, <2>1, <2>2, <2>3 DEF AuthorityTypeOK
<1>4. CommandFits
  BY <1>2 DEF CommandFits, Busy, InLock, Locking, BeforeMark, Copying, AboutLeaf, Signing, Cleaning
<1>5. OneLeafAtATime /\ NoCleanBesideLeaf
  BY <1>2 DEF OneLeafAtATime, NoCleanBesideLeaf, Busy
<1>6. LiveLocks
  BY <1>1, AuthorityAssumption DEF LiveLocks, LocksStand, LockPath
<1>7. MissingStays
  BY <1>2 DEF MissingStays
<1>8. MarkTells
  BY <1>2, AuthorityAssumption DEF MarkTells, Authority
<1>9. LeafTogether
  BY <1>2 DEF LeafTogether
<1> QED BY <1>1, <1>3, <1>4, <1>5, <1>6, <1>7, <1>8, <1>9 DEF AInv

LEMMA AuthorityStep == AInv /\ [AuthorityNext]_authorityVars => AInv'
<1> SUFFICES ASSUME AInv, [AuthorityNext]_authorityVars PROVE AInv'
  OBVIOUS
<1>1. AuthorityTypeOK' /\ PlaceFits'
  BY AuthorityTypes, LockKeeps DEF AInv, AuthorityTypeOK
<1>2. (~mixed /\ ~mixed') => LiveLocks'
  BY LiveStep DEF AInv, AuthorityTypeOK
<1>3. ASSUME NEW p \in Process, Acts(p) PROVE AInv'
  <2>1. CommandFits' /\ OneLeafAtATime'
    BY <1>3, FitsStep, OneLeafStep
  <2>2. ~mixed' => LiveLocks' /\ NoCleanBesideLeaf' /\ MissingStays'
    BY <1>2, <1>3, HistoryStep, NoCleanStep, MissingStep
  <2>3. ~mixed' /\ NoClean' => MarkTells'
    BY <1>3, MarkStep
  <2>4. ~mixed' /\ ~torn' => LeafTogether'
    BY <1>3, LeafStep
  <2> QED BY <1>1, <2>1, <2>2, <2>3, <2>4 DEF AInv
<1>4. ASSUME LockGetsOld \/ UNCHANGED authorityVars PROVE AInv'
  <2>1. UNCHANGED <<pc, setting, place, authority, files, leafs, store, history>>
    BY <1>4, IdleStep
  <2>2. /\ pc' = pc /\ job' = job /\ place' = place /\ authority' = authority
        /\ caKey' = caKey /\ caCert' = caCert /\ marker' = marker /\ migrator' = migrator
        /\ leafKey' = leafKey /\ leafCert' = leafCert /\ leafChain' = leafChain
        /\ mixed' = mixed /\ torn' = torn
    BY <2>1 DEF setting, files, leafs, history
  <2>3. CommandFits' /\ OneLeafAtATime'
    BY <2>2 DEF AInv, CommandFits, OneLeafAtATime, Busy
  <2>4. ~mixed' => LiveLocks' /\ NoCleanBesideLeaf' /\ MissingStays'
    BY <1>2, <2>2 DEF AInv, NoCleanBesideLeaf, MissingStays, CopyWaits, Busy
  <2>5. ~mixed' /\ NoClean' => MarkTells'
    BY <2>2 DEF AInv, NoClean, MarkTells
  <2>6. ~mixed' /\ ~torn' => LeafTogether'
    BY <2>2 DEF AInv, LeafTogether, LeafIsValid, NewLeaf
  <2> QED BY <1>1, <2>3, <2>4, <2>5, <2>6 DEF AInv
<1> QED BY <1>3, <1>4 DEF AuthorityNext

\* What no command, crash or lock that is taken away disturbs.
THEOREM AuthorityInvariance == AuthoritySpec => []AInv
BY AuthorityBegins, AuthorityStep, PTL DEF AuthoritySpec

\* The state keeps its types: a process is at a place of its command, and files
\* and records belong to an authority that was made or copied.
THEOREM AuthorityTypeCorrect == AuthoritySpec => []AuthorityTypeOK
<1>1. AInv => AuthorityTypeOK
  BY DEF AInv
<1> QED BY <1>1, AuthorityInvariance, PTL

\* Wherever migrations were killed, a later one finds nothing but what it copies,
\* and half of that only with the mark of an unfinished migration.
THEOREM MigrationCanResume == AuthoritySpec => []MigrationResumes
<1>1. AInv => MigrationResumes
  BY DEF AInv, NoClean, MarkTells, MigrationResumes
<1> QED BY <1>1, AuthorityInvariance, PTL

\* Without `clean`, and as long as no lock is taken away from a process that runs,
\* the key and the certificate of an authority stay what they are.
THEOREM AuthorityNeverReplaced == AuthoritySpec => NeverReplaced
<1>1. ASSUME AInv, [AuthorityNext]_authorityVars, ~mixed'
      PROVE  /\ caKey \in Authority => caKey' \in {caKey, Nothing}
             /\ caCert \in Authority => caCert' \in {caCert, Nothing}
  <2>1. Nothing \notin Authority
    BY AuthorityAssumption
  <2>2. ASSUME NEW p \in Process, Acts(p)
        PROVE  /\ caKey \in Authority => caKey' \in {caKey, Nothing}
               /\ caCert \in Authority => caCert' \in {caCert, Nothing}
    <3>1. ~mixed /\ MissingStays
      BY <1>1, <2>2, HistoryStep DEF AInv
    <3>2. RenameKey(p) => caKey = Nothing
      <4>1. RenameKey(p) => place[p] = "renameKey" /\ ~marker
        BY <1>1 DEF RenameKey, Move
      <4> QED BY <3>1, <4>1 DEF MissingStays, CopyWaits
    <3>3. /\ place[p] = "copyKey" => caKey = Nothing
          /\ place[p] \in {"renameCertificate", "copyCertificate"} => caCert = Nothing
      BY <3>1 DEF MissingStays
    <3> QED BY <1>1, <2>1, <2>2, <3>2, <3>3, Writers
  <2>3. ASSUME LockGetsOld \/ UNCHANGED authorityVars PROVE caKey' = caKey /\ caCert' = caCert
    BY <2>3, IdleStep DEF files
  <2> QED BY <1>1, <2>2, <2>3 DEF AuthorityNext
<1>2. AInv /\ [AuthorityNext]_authorityVars
        => [~mixed' => /\ caKey \in Authority => caKey' \in {caKey, Nothing}
                       /\ caCert \in Authority => caCert' \in {caCert, Nothing}]_authorityVars
  BY <1>1
<1> QED BY <1>2, AuthorityInvariance, PTL DEF AuthoritySpec, NeverReplaced

\* A leaf certificate that is read after it was found valid or made makes a
\* context, unless a process died between moving the certificate and its chain.
THEOREM LeafAlwaysUsable == AuthoritySpec => LeafCanBeUsed
<1>1. ASSUME AInv, NEW p \in Process, ~mixed, ~torn, UseLeaf(p)
      PROVE  place'[p] = "serving" /\ leafCert.signer = caCert
  <2>1. place[p] = "useLeaf"
    BY <1>1 DEF UseLeaf, Move
  <2>2. LeafTogether
    BY <1>1 DEF AInv
  <2>3. LeafIsValid
    BY <2>1, <2>2 DEF LeafTogether
  <2>4. ASSUME NEW q \in Process, place[q] = "leafChain" PROVE FALSE
    <3>1. job[q] = "leaf" /\ Busy(q) /\ job[p] = "leaf" /\ Busy(p)
      BY <1>1, <2>1, <2>4 DEF AInv, CommandFits, AboutLeaf, Signing, Busy
    <3> QED BY <1>1, <2>1, <2>4, <3>1 DEF AInv, OneLeafAtATime
  <2>5. leafCert = leafChain
    BY <2>2, <2>4 DEF LeafTogether
  <2>6. leafKey = leafChain /\ leafKey # Nothing /\ leafCert.signer = caCert
    BY <2>3, <2>5 DEF LeafIsValid
  <2> QED BY <1>1, <2>6 DEF UseLeaf, Move, AInv, AuthorityTypeOK
<1>2. AInv /\ [AuthorityNext]_authorityVars
        => [\A p \in Process : ~mixed /\ ~torn /\ UseLeaf(p)
              => place'[p] = "serving" /\ leafCert.signer = caCert]_authorityVars
  BY <1>1
<1> QED BY <1>2, AuthorityInvariance, PTL DEF AuthoritySpec, LeafCanBeUsed
=============================================================================
