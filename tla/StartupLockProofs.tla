------------------------- MODULE StartupLockProofs -------------------------
(***************************************************************************)
(* Proofs about StartupLock, for every set of processes and every number   *)
(* of nested lock files.                                                   *)
(***************************************************************************)
EXTENDS StartupLock, TLAPS

\* Where a process can be, by the number of locks it holds.
PlaceFits ==
  \A p \in Process :
    /\ pc[p] = "idle" => held[p] = 0
    /\ pc[p] \in {"trying", "opened", "abandoning", "preparing", "inspecting", "clearing"}
         => held[p] < Depth
    /\ pc[p] \in {"preparing", "running", "releasing"} => held[p] > 0

\* p has created the file of lock l and not removed it.
HasCreated(p, l) ==
  \/ l \in 1..held[p]
  \/ pc[p] \in {"opened", "abandoning"} /\ l = Wanted(p)

Undisturbed == exited = {} /\ ~everOld

\* While nothing ends and nothing gets old, the file of a lock is the one its
\* holder created, because nobody ever decides that a lock is stale.
LocksStand ==
  /\ \A p \in Process, l \in LockPath :
       HasCreated(p, l) => file[l] # NoFile /\ file[l].owner = p
  /\ \A p \in Process : pc[p] # "clearing" /\ age[p] # "old"
  /\ \A l \in LockPath : file[l] # NoFile => ~file[l].old

IInv ==
  /\ TypeOK
  /\ PlaceFits
  /\ Undisturbed => LocksStand

\* A process that moves on, holding n locks, is in a place that fits n.
LEMMA MoveFits ==
  ASSUME TypeOK, PlaceFits, NEW p \in Process, NEW n \in 0..Depth,
         NEW place \in {"idle", "trying", "opened", "abandoning", "preparing",
                        "inspecting", "clearing", "running", "releasing", "exited"},
         GoTo(p, place), held' = [held EXCEPT ![p] = n],
         place = "idle" => n = 0,
         place \in {"trying", "opened", "abandoning", "preparing", "inspecting", "clearing"}
           => n < Depth,
         place \in {"preparing", "running", "releasing"} => n > 0
  PROVE  /\ pc' \in [Process -> {"idle", "trying", "opened", "abandoning", "preparing",
                                 "inspecting", "clearing", "running", "releasing", "exited"}]
         /\ held' \in [Process -> 0..Depth]
         /\ PlaceFits'
<1>1. /\ pc' \in [Process -> {"idle", "trying", "opened", "abandoning", "preparing",
                              "inspecting", "clearing", "running", "releasing", "exited"}]
      /\ held' \in [Process -> 0..Depth]
  BY DEF TypeOK, GoTo
<1>2. /\ pc'[p] = place
      /\ held'[p] = n
      /\ \A q \in Process \ {p} : pc'[q] = pc[q] /\ held'[q] = held[q]
  BY DEF TypeOK, GoTo
<1>3. ASSUME NEW q \in Process
      PROVE  /\ pc'[q] = "idle" => held'[q] = 0
             /\ pc'[q] \in {"trying", "opened", "abandoning", "preparing", "inspecting",
                            "clearing"} => held'[q] < Depth
             /\ pc'[q] \in {"preparing", "running", "releasing"} => held'[q] > 0
  <2>1. CASE q = p
    BY <1>2, <2>1
  <2>2. CASE q # p
    BY <1>2, <2>2 DEF PlaceFits
  <2> QED BY <2>1, <2>2
<1> QED BY <1>1, <1>3 DEF PlaceFits

\* Every step of the lock protocol keeps the types of its state and the
\* relation between a process's place and the locks it holds.
LEMMA TypeStep == TypeOK /\ PlaceFits /\ [Next]_vars => TypeOK' /\ PlaceFits'
<1> SUFFICES ASSUME TypeOK, PlaceFits, [Next]_vars PROVE TypeOK' /\ PlaceFits'
  OBVIOUS
<1>1. Depth \in Nat /\ Depth > 0
  BY LockAssumption
<1>2. ASSUME NEW p \in Process
      PROVE  /\ held[p] \in 0..Depth
             /\ held' = held => held' = [held EXCEPT ![p] = held[p]]
             /\ pc[p] = "idle" => held[p] = 0
             /\ pc[p] \in {"trying", "opened", "abandoning", "preparing", "inspecting",
                           "clearing"} => held[p] < Depth /\ Wanted(p) \in LockPath
             /\ pc[p] \in {"preparing", "running", "releasing"} => held[p] > 0
  BY <1>1 DEF TypeOK, PlaceFits, LockPath, Wanted
<1>3. ASSUME NEW p \in Process,
             \/ Start(p) \/ LockExists(p) \/ FailWrite(p) \/ PreparePaths(p)
             \/ RunWithoutInner(p) \/ FailToPrepare(p) \/ EndOperation(p)
      PROVE  TypeOK' /\ PlaceFits'
  <2>1. PICK place \in {"idle", "trying", "abandoning", "inspecting", "running", "releasing"} :
          /\ GoTo(p, place)
          /\ UNCHANGED <<file, held, contents, age, everOld>>
          /\ place = "idle" => held[p] = 0
          /\ place \in {"trying", "abandoning", "inspecting"} => held[p] < Depth
          /\ place \in {"running", "releasing"} => held[p] > 0
    <3>1. CASE Start(p)
      BY <3>1, <1>1, <1>2 DEF Start
    <3>2. CASE LockExists(p)
      BY <3>2, <1>2 DEF LockExists
    <3>3. CASE FailWrite(p)
      BY <3>3, <1>2 DEF FailWrite
    <3>4. CASE PreparePaths(p)
      BY <3>4, <1>2 DEF PreparePaths
    <3>5. CASE RunWithoutInner(p) \/ FailToPrepare(p) \/ EndOperation(p)
      BY <3>5, <1>2 DEF RunWithoutInner, FailToPrepare, EndOperation
    <3> QED BY <1>3, <3>1, <3>2, <3>3, <3>4, <3>5
  <2>2. held' = [held EXCEPT ![p] = held[p]] /\ held[p] \in 0..Depth
    BY <2>1, <1>2
  <2>3. pc' \in [Process -> {"idle", "trying", "opened", "abandoning", "preparing",
                             "inspecting", "clearing", "running", "releasing", "exited"}]
        /\ PlaceFits'
    BY <2>1, <2>2, MoveFits
  <2> QED BY <2>1, <2>3 DEF TypeOK
<1>4. ASSUME NEW p \in Process, CreateLock(p) PROVE TypeOK' /\ PlaceFits'
  <2>1. file' \in [LockPath -> LockFile \cup {NoFile}]
    BY <1>4, <1>2 DEF CreateLock, TypeOK, LockFile
  <2>2. GoTo(p, "opened") /\ held' = [held EXCEPT ![p] = held[p]] /\ held[p] < Depth
    BY <1>4, <1>2 DEF CreateLock
  <2> QED BY <1>4, <2>1, <2>2, <1>2, MoveFits DEF CreateLock, TypeOK
<1>5. ASSUME NEW p \in Process, WriteLock(p) PROVE TypeOK' /\ PlaceFits'
  <2>1. file' \in [LockPath -> LockFile \cup {NoFile}]
    <3> DEFINE lock == file[Wanted(p)]
    <3>1. CASE lock # NoFile /\ lock.owner = p
      <4>1. Wanted(p) \in LockPath /\ lock \in LockFile
        BY <1>5, <1>2, <3>1 DEF WriteLock, TypeOK
      <4>2. [lock EXCEPT !.written = TRUE] \in LockFile
        BY <4>1 DEF LockFile
      <4>3. file' = [file EXCEPT ![Wanted(p)] = [lock EXCEPT !.written = TRUE]]
        BY <1>5, <3>1, <4>1 DEF WriteLock, TypeOK
      <4> QED BY <4>1, <4>2, <4>3 DEF TypeOK
    <3>2. CASE ~(lock # NoFile /\ lock.owner = p)
      BY <1>5, <3>2 DEF WriteLock, TypeOK
    <3> QED BY <3>1, <3>2
  <2>2. /\ held[p] < Depth
        /\ held' = [held EXCEPT ![p] = held[p] + 1]
        /\ held[p] + 1 \in 0..Depth
    BY <1>5, <1>1, <1>2 DEF WriteLock, TypeOK
  <2>3. CASE Wanted(p) = Depth
    <3>1. GoTo(p, "running")
      BY <1>5, <2>3 DEF WriteLock
    <3>2. held[p] + 1 > 0
      BY <1>2
    <3> QED BY <1>5, <2>1, <2>2, <3>1, <3>2, MoveFits DEF WriteLock, TypeOK
  <2>4. CASE Wanted(p) # Depth
    <3>1. GoTo(p, "preparing")
      BY <1>5, <2>4 DEF WriteLock
    <3>2. held[p] \in 0..Depth /\ held[p] + 1 # Depth /\ held[p] < Depth
      BY <2>2, <2>4, <1>2 DEF Wanted
    <3>3. held[p] + 1 < Depth /\ held[p] + 1 > 0
      BY <3>2, <1>1
    <3> QED BY <1>5, <2>1, <2>2, <3>1, <3>3, MoveFits DEF WriteLock, TypeOK
  <2> QED BY <2>3, <2>4
<1>6. ASSUME NEW p \in Process, RemoveUnwritten(p) PROVE TypeOK' /\ PlaceFits'
  <2>1. file' \in [LockPath -> LockFile \cup {NoFile}]
    BY <1>6 DEF RemoveUnwritten, TypeOK
  <2>2. held' = [held EXCEPT ![p] = held[p]] /\ held[p] \in 0..Depth
    BY <1>6, <1>2 DEF RemoveUnwritten
  <2>3. CASE held[p] = 0
    <3>1. GoTo(p, "idle")
      BY <1>6, <2>3 DEF RemoveUnwritten
    <3> QED BY <1>6, <2>1, <2>2, <2>3, <3>1, MoveFits DEF RemoveUnwritten, TypeOK
  <2>4. CASE held[p] # 0
    <3>1. GoTo(p, "releasing") /\ held[p] > 0
      BY <1>6, <2>2, <2>4, <1>1 DEF RemoveUnwritten
    <3> QED BY <1>6, <2>1, <2>2, <3>1, MoveFits DEF RemoveUnwritten, TypeOK
  <2> QED BY <2>3, <2>4
<1>7. ASSUME NEW p \in Process, ReleaseLock(p) PROVE TypeOK' /\ PlaceFits'
  <2>1. file' \in [LockPath -> LockFile \cup {NoFile}]
    BY <1>7 DEF ReleaseLock, TypeOK
  <2>2. held' = [held EXCEPT ![p] = held[p] - 1] /\ held[p] - 1 \in 0..Depth
    BY <1>7, <1>1, <1>2 DEF ReleaseLock, TypeOK
  <2>3. CASE held[p] = 1
    <3>1. GoTo(p, "idle") /\ held[p] - 1 = 0
      BY <1>7, <2>3 DEF ReleaseLock
    <3> QED BY <1>7, <2>1, <2>2, <3>1, MoveFits DEF ReleaseLock, TypeOK
  <2>4. CASE held[p] # 1
    <3>1. GoTo(p, "releasing") /\ pc[p] = "releasing"
      BY <1>7, <2>4 DEF ReleaseLock
    <3>2. held[p] \in Nat /\ held[p] > 0
      BY <3>1, <1>1, <1>2
    <3>3. held[p] - 1 > 0
      BY <2>4, <3>2
    <3> QED BY <1>7, <2>1, <2>2, <3>1, <3>3, MoveFits DEF ReleaseLock, TypeOK
  <2> QED BY <2>3, <2>4
<1>8. ASSUME NEW p \in Process, ReadContents(p) \/ ReadAge(p) PROVE TypeOK' /\ PlaceFits'
  <2>1. UNCHANGED <<file, pc, held, everOld>>
    BY <1>8 DEF ReadContents, ReadAge
  <2>2. contents' \in [Process -> Process \cup {Unparsable, "unread"}]
    <3>1. CASE ReadContents(p)
      <4>1. file[Wanted(p)].owner \in Process
        BY <3>1, <1>2 DEF ReadContents, TypeOK, LockFile
      <4> QED BY <3>1, <4>1 DEF ReadContents, TypeOK
    <3> QED BY <1>8, <3>1 DEF ReadAge, TypeOK
  <2>3. age' \in [Process -> {"unread", "fresh", "old"}]
    BY <1>8 DEF ReadContents, ReadAge, TypeOK
  <2> QED BY <2>1, <2>2, <2>3 DEF TypeOK, PlaceFits
<1>9. ASSUME NEW p \in Process, LockVanished(p) \/ Decide(p) \/ Exit(p) \/ ClearStaleLock(p)
      PROVE  TypeOK' /\ PlaceFits'
  <2>1. file' \in [LockPath -> LockFile \cup {NoFile}]
    BY <1>9 DEF LockVanished, Decide, Exit, ClearStaleLock, TypeOK
  <2>2. /\ contents' \in [Process -> Process \cup {Unparsable, "unread"}]
        /\ age' \in [Process -> {"unread", "fresh", "old"}]
    BY <1>9 DEF LockVanished, Decide, Exit, ClearStaleLock, TypeOK, Forget
  <2>3. everOld' \in BOOLEAN /\ held' = [held EXCEPT ![p] = held[p]] /\ held[p] \in 0..Depth
    BY <1>9, <1>2 DEF LockVanished, Decide, Exit, ClearStaleLock, TypeOK
  <2>4. CASE Exit(p)
    BY <2>1, <2>2, <2>3, <2>4, MoveFits DEF Exit, TypeOK
  <2>5. CASE LockVanished(p) \/ Decide(p) \/ ClearStaleLock(p)
    <3>1. held[p] < Depth
      BY <2>5, <1>2 DEF LockVanished, Decide, ClearStaleLock
    <3>2. GoTo(p, "trying") \/ GoTo(p, "clearing")
      BY <2>5 DEF LockVanished, Decide, ClearStaleLock
    <3> QED BY <2>1, <2>2, <2>3, <3>1, <3>2, MoveFits DEF TypeOK
  <2> QED BY <1>9, <2>4, <2>5
<1>10. ASSUME NEW l \in LockPath, Age(l) PROVE TypeOK' /\ PlaceFits'
  BY <1>10 DEF Age, TypeOK, PlaceFits, LockFile
<1>11. ASSUME UNCHANGED vars PROVE TypeOK' /\ PlaceFits'
  BY <1>11 DEF vars, TypeOK, PlaceFits
<1> QED BY <1>3, <1>4, <1>5, <1>6, <1>7, <1>8, <1>9, <1>10, <1>11 DEF Next, Step

\* No step brings an ended process back or makes an old lock young, so that a
\* state that is undisturbed was undisturbed before.
LEMMA UndisturbedBefore == TypeOK /\ [Next]_vars /\ Undisturbed' => Undisturbed
<1> SUFFICES ASSUME TypeOK, [Next]_vars, Undisturbed' PROVE Undisturbed
  OBVIOUS
<1>1. ~everOld
  BY DEF TypeOK, Undisturbed, Next, Step, vars, Start, CreateLock, LockExists, WriteLock,
         FailWrite, RemoveUnwritten, PreparePaths, RunWithoutInner, FailToPrepare,
         EndOperation, ReleaseLock, LockVanished, ReadContents, ReadAge,
         Decide, ClearStaleLock, Exit, Age
<1>2. ASSUME NEW q \in Process, pc[q] = "exited" PROVE pc'[q] = "exited"
  BY <1>2 DEF TypeOK, GoTo, Next, Step, vars, Start, CreateLock, LockExists, WriteLock,
         FailWrite, RemoveUnwritten, PreparePaths, RunWithoutInner, FailToPrepare,
         EndOperation, ReleaseLock, LockVanished, ReadContents, ReadAge,
         Decide, ClearStaleLock, Exit, Age
<1> QED BY <1>1, <1>2 DEF Undisturbed, exited

\* While no process has ended and no lock has got old, nobody finds a lock
\* stale: every lock file stands until its creator removes it.
LEMMA StandStep ==
  TypeOK /\ PlaceFits /\ [Next]_vars /\ Undisturbed' /\ LocksStand => LocksStand'
<1> SUFFICES ASSUME TypeOK, PlaceFits, [Next]_vars, Undisturbed', LocksStand
             PROVE  LocksStand'
  OBVIOUS
<1>1. Undisturbed /\ exited' = {} /\ ~everOld'
  BY UndisturbedBefore DEF Undisturbed
<1>2. ASSUME NEW p \in Process
      PROVE  /\ held[p] \in Nat
             /\ pc[p] \in {"trying", "opened", "abandoning", "inspecting"}
                  => Wanted(p) \in LockPath
             /\ pc[p] = "releasing" => held[p] \in LockPath
  BY LockAssumption DEF TypeOK, PlaceFits, LockPath, Wanted
<1>3. ASSUME NEW p \in Process,
             \/ Start(p) \/ LockExists(p) \/ FailWrite(p) \/ PreparePaths(p)
             \/ RunWithoutInner(p) \/ FailToPrepare(p) \/ EndOperation(p)
      PROVE  LocksStand'
  <2>1. UNCHANGED <<file, held, age>>
    BY <1>3 DEF Start, LockExists, FailWrite, PreparePaths, RunWithoutInner,
                FailToPrepare, EndOperation
  <2>2. ASSUME NEW q \in Process
        PROVE  /\ pc'[q] # "clearing"
               /\ pc'[q] \in {"opened", "abandoning"} => pc[q] \in {"opened", "abandoning"}
    BY <1>3 DEF LocksStand, TypeOK, GoTo, Start, LockExists, FailWrite, PreparePaths,
                RunWithoutInner, FailToPrepare, EndOperation
  <2> QED BY <2>1, <2>2 DEF LocksStand, HasCreated, Wanted
<1>4. ASSUME NEW p \in Process, CreateLock(p) PROVE LocksStand'
  <2> DEFINE new == [owner |-> p, written |-> FALSE, old |-> FALSE]
  <2>1. /\ Wanted(p) \in LockPath
        /\ file[Wanted(p)] = NoFile
        /\ file' = [file EXCEPT ![Wanted(p)] = new]
        /\ UNCHANGED <<held, age>>
    BY <1>4, <1>2 DEF CreateLock
  <2>2. /\ new # NoFile
        /\ pc'[p] = "opened"
        /\ \A q \in Process \ {p} : pc'[q] = pc[q]
    <3>1. new \in [owner : Process, written : BOOLEAN, old : BOOLEAN]
      OBVIOUS
    <3> QED BY <1>4, <3>1, LockAssumption DEF CreateLock, GoTo, TypeOK
  <2>3. ASSUME NEW q \in Process, NEW l \in LockPath, HasCreated(q, l)'
        PROVE  file'[l] # NoFile /\ file'[l].owner = q
    <3>1. CASE q = p /\ l = Wanted(p)
      BY <2>1, <2>2, <3>1 DEF TypeOK
    <3>2. CASE ~(q = p /\ l = Wanted(p))
      <4>1. HasCreated(q, l)
        BY <2>1, <2>2, <2>3, <3>2 DEF HasCreated, Wanted
      <4> QED BY <2>1, <4>1 DEF LocksStand, TypeOK
    <3> QED BY <3>1, <3>2
  <2>4. ASSUME NEW l \in LockPath, file'[l] # NoFile PROVE ~file'[l].old
    BY <2>1, <2>4 DEF LocksStand, TypeOK
  <2> QED BY <2>1, <2>2, <2>3, <2>4 DEF LocksStand
<1>5. ASSUME NEW p \in Process, WriteLock(p) PROVE LocksStand'
  <2>1. ASSUME NEW l \in LockPath
        PROVE  /\ file[l] # NoFile
                    => file'[l] # NoFile /\ file'[l].owner = file[l].owner
               /\ file'[l] # NoFile => file[l] # NoFile /\ file'[l].old = file[l].old
    <3> DEFINE written == [file[l] EXCEPT !.written = TRUE]
    <3>1. CASE file'[l] = file[l]
      BY <3>1
    <3>2. CASE file[l] # NoFile /\ file'[l] = written
      <4>1. file[l] \in LockFile
        BY <3>2 DEF TypeOK
      <4>2. written \in LockFile /\ written.owner = file[l].owner /\ written.old = file[l].old
        BY <4>1 DEF LockFile
      <4>3. NoFile \notin LockFile
        BY LockAssumption DEF LockFile
      <4> QED BY <3>2, <4>2, <4>3
    <3> QED BY <1>5, <3>1, <3>2 DEF WriteLock, TypeOK
  <2>2. /\ held' = [held EXCEPT ![p] = held[p] + 1]
        /\ pc[p] = "opened"
        /\ pc'[p] \in {"running", "preparing"}
        /\ \A q \in Process \ {p} : pc'[q] = pc[q]
        /\ age' = age
    BY <1>5 DEF WriteLock, GoTo, TypeOK
  <2>3. ASSUME NEW q \in Process, NEW l \in LockPath, HasCreated(q, l)'
        PROVE  HasCreated(q, l)
    <3>1. CASE q = p
      <4>1. l \in 1..(held[p] + 1)
        BY <2>2, <2>3, <3>1 DEF HasCreated, TypeOK
      <4> QED BY <2>2, <3>1, <4>1, <1>2 DEF HasCreated, Wanted
    <3>2. CASE q # p
      BY <2>2, <2>3, <3>2 DEF HasCreated, Wanted, TypeOK
    <3> QED BY <3>1, <3>2
  <2> QED BY <2>1, <2>2, <2>3 DEF LocksStand
<1>6. ASSUME NEW p \in Process, RemoveUnwritten(p) \/ ReleaseLock(p) PROVE LocksStand'
  <2>1. PICK k \in LockPath :
          /\ HasCreated(p, k)
          /\ file' = [file EXCEPT ![k] = NoFile]
          /\ \A l \in LockPath : HasCreated(p, l)' => HasCreated(p, l) /\ l # k
    <3>1. CASE RemoveUnwritten(p)
      <4>1. /\ pc[p] = "abandoning" /\ pc'[p] \in {"idle", "releasing"}
            /\ held' = held
            /\ file' = [file EXCEPT ![Wanted(p)] = NoFile]
        BY <3>1 DEF RemoveUnwritten, GoTo, TypeOK
      <4>2. Wanted(p) \in LockPath /\ HasCreated(p, Wanted(p))
        BY <4>1, <1>2 DEF HasCreated
      <4>3. ASSUME NEW l \in LockPath, HasCreated(p, l)'
            PROVE  HasCreated(p, l) /\ l # Wanted(p)
        <5>1. l \in 1..held[p]
          BY <4>1, <4>3 DEF HasCreated
        <5> QED BY <5>1, <1>2 DEF HasCreated, Wanted
      <4> QED BY <4>1, <4>2, <4>3
    <3>2. CASE ReleaseLock(p)
      <4>1. /\ pc[p] = "releasing" /\ pc'[p] \in {"idle", "releasing"}
            /\ held'[p] = held[p] - 1
            /\ file' = [file EXCEPT ![held[p]] = NoFile]
        BY <3>2 DEF ReleaseLock, GoTo, TypeOK
      <4>2. held[p] \in LockPath /\ HasCreated(p, held[p])
        BY <4>1, <1>2 DEF HasCreated, LockPath
      <4>3. ASSUME NEW l \in LockPath, HasCreated(p, l)'
            PROVE  HasCreated(p, l) /\ l # held[p]
        <5>1. l \in 1..(held[p] - 1)
          BY <4>1, <4>3 DEF HasCreated
        <5> QED BY <5>1, <1>2 DEF HasCreated
      <4> QED BY <4>1, <4>2, <4>3
    <3> QED BY <1>6, <3>1, <3>2
  <2>2. /\ pc'[p] \in {"idle", "releasing"}
        /\ \A q \in Process \ {p} : pc'[q] = pc[q] /\ held'[q] = held[q]
        /\ age' = age
    BY <1>6 DEF RemoveUnwritten, ReleaseLock, GoTo, TypeOK
  <2>3. ASSUME NEW q \in Process, NEW l \in LockPath, HasCreated(q, l)'
        PROVE  file'[l] # NoFile /\ file'[l].owner = q
    <3>1. HasCreated(q, l)
      BY <2>1, <2>2, <2>3 DEF HasCreated, Wanted
    <3>2. file[l] # NoFile /\ file[l].owner = q /\ file[k].owner = p
      BY <2>1, <3>1 DEF LocksStand
    <3>3. l # k
      BY <2>1, <2>3, <3>2
    <3> QED BY <2>1, <3>2, <3>3 DEF TypeOK
  <2>4. ASSUME NEW l \in LockPath, file'[l] # NoFile PROVE ~file'[l].old
    BY <2>1, <2>4 DEF LocksStand, TypeOK
  <2> QED BY <2>2, <2>3, <2>4 DEF LocksStand
<1>7. ASSUME NEW p \in Process, LockVanished(p) \/ ReadContents(p) \/ ReadAge(p) \/ Decide(p)
      PROVE  LocksStand'
  <2>1. UNCHANGED <<file, held>>
    BY <1>7 DEF LockVanished, ReadContents, ReadAge, Decide
  <2>2. ~LooksStale(p)
    BY <1>1 DEF LooksStale, Undisturbed, LocksStand
  <2>3. ASSUME NEW q \in Process
        PROVE  pc'[q] = pc[q] \/ pc'[q] = "trying"
    BY <1>7, <2>2 DEF LockVanished, ReadContents, ReadAge, Decide, GoTo, TypeOK
  <2>4. ASSUME NEW q \in Process
        PROVE  age'[q] # "old"
    <3>1. CASE ReadAge(p)
      BY <3>1, <1>2 DEF ReadAge, LocksStand, TypeOK
    <3>2. CASE LockVanished(p) \/ ReadContents(p) \/ Decide(p)
      BY <3>2 DEF LockVanished, ReadContents, Decide, Forget, LocksStand, TypeOK
    <3> QED BY <1>7, <3>1, <3>2
  <2> QED BY <2>1, <2>3, <2>4 DEF LocksStand, HasCreated, Wanted
<1>8. ASSUME NEW p \in Process PROVE ~ClearStaleLock(p)
  BY DEF ClearStaleLock, LocksStand
<1>9. ASSUME NEW p \in Process PROVE ~Exit(p)
  BY <1>1 DEF Exit, GoTo, exited, TypeOK
<1>10. ASSUME NEW l \in LockPath PROVE ~Age(l)
  BY <1>1 DEF Age
<1>11. ASSUME UNCHANGED vars PROVE LocksStand'
  BY <1>11 DEF vars, LocksStand, HasCreated, Wanted
<1> QED BY <1>3, <1>4, <1>5, <1>6, <1>7, <1>8, <1>9, <1>10, <1>11 DEF Next, Step

\* Whoever runs the operation has created the file of the outermost lock, and
\* that file has one owner.
LEMMA OneRunner ==
  ASSUME TypeOK, PlaceFits, LocksStand, NEW p \in Process, NEW q \in Process,
         pc[p] = "running", pc[q] = "running"
  PROVE  p = q
<1>1. 1 \in LockPath
  BY LockAssumption DEF LockPath
<1>2. HasCreated(p, 1) /\ HasCreated(q, 1)
  BY DEF PlaceFits, TypeOK, HasCreated
<1> QED BY <1>1, <1>2 DEF LocksStand

LEMMA LockBegins == Init => TypeOK /\ PlaceFits /\ LocksStand
<1> SUFFICES ASSUME Init PROVE TypeOK /\ PlaceFits /\ LocksStand
  OBVIOUS
<1>1. TypeOK
  <2>1. 0 \in 0..Depth
    BY LockAssumption
  <2>2. file \in [LockPath -> LockFile \cup {NoFile}] /\ held \in [Process -> 0..Depth]
    BY <2>1 DEF Init
  <2>3. contents \in [Process -> Process \cup {Unparsable, "unread"}]
    BY DEF Init
  <2> QED BY <2>2, <2>3 DEF Init, TypeOK
<1>2. PlaceFits
  BY LockAssumption DEF Init, PlaceFits
<1>3. LocksStand
  BY DEF Init, LocksStand, HasCreated, LockPath
<1> QED BY <1>1, <1>2, <1>3

\* The lock protocol's inductive invariant.
THEOREM LockInvariance == Spec => []IInv
<1>1. Init => IInv
  BY LockBegins DEF IInv
<1>2. IInv /\ [Next]_vars => IInv'
  BY TypeStep, UndisturbedBefore, StandStep DEF IInv
<1> QED BY <1>1, <1>2, PTL DEF Spec

\* The state of the lock protocol keeps its types.
THEOREM LockTypeCorrect == Spec => []TypeOK
BY LockInvariance, PTL DEF IInv

\* While no process has ended and no lock has got old, one process at a time
\* runs the operation that the locks protect: whoever runs it has created the
\* file of the outermost lock, and that file has one owner.
THEOREM Exclusion == Spec => []OneAtATimeWhileAllRun
<1>1. IInv => OneAtATimeWhileAllRun
  BY OneRunner DEF IInv, Undisturbed, OneAtATimeWhileAllRun, OneAtATime
<1> QED BY <1>1, LockInvariance, PTL

\* Under the same condition, a release removes a lock file of its own.
THEOREM OwnReleases == Spec => ReleasesItsOwn
<1> DEFINE Removes ==
      \A p \in Process :
        exited = {} /\ ~everOld /\ (ReleaseLock(p) \/ RemoveUnwritten(p))
          => \E l \in LockPath : /\ file[l] # NoFile
                                 /\ file[l].owner = p
                                 /\ file'[l] = NoFile
<1>1. ASSUME IInv PROVE Removes
  <2> SUFFICES ASSUME NEW p \in Process, exited = {}, ~everOld,
                      ReleaseLock(p) \/ RemoveUnwritten(p)
               PROVE  \E l \in LockPath : /\ file[l] # NoFile
                                          /\ file[l].owner = p
                                          /\ file'[l] = NoFile
    OBVIOUS
  <2>1. LocksStand /\ TypeOK /\ PlaceFits
    BY <1>1 DEF IInv, Undisturbed
  <2>2. CASE ReleaseLock(p)
    <3>1. held[p] \in LockPath /\ HasCreated(p, held[p])
      BY <2>1, <2>2, LockAssumption DEF ReleaseLock, TypeOK, PlaceFits, LockPath, HasCreated
    <3>2. file'[held[p]] = NoFile
      BY <2>1, <2>2, <3>1 DEF ReleaseLock, TypeOK
    <3> QED BY <2>1, <3>1, <3>2 DEF LocksStand
  <2>3. CASE RemoveUnwritten(p)
    <3>1. Wanted(p) \in LockPath /\ HasCreated(p, Wanted(p))
      BY <2>1, <2>3, LockAssumption
      DEF RemoveUnwritten, TypeOK, PlaceFits, LockPath, HasCreated, Wanted
    <3>2. file'[Wanted(p)] = NoFile
      BY <2>1, <2>3, <3>1 DEF RemoveUnwritten, TypeOK
    <3> QED BY <2>1, <3>1, <3>2 DEF LocksStand
  <2> QED BY <2>2, <2>3
<1> QED BY <1>1, LockInvariance, PTL DEF ReleasesItsOwn
-----------------------------------------------------------------------------
(* What the programs that use a single lock file add to its protocol.      *)

\* A waiter gives up before it has created a lock file.
Withdraw(p) ==
  /\ pc[p] = "trying"
  /\ GoTo(p, "idle")
  /\ UNCHANGED <<file, held, contents, age, everOld>>

LEMMA WithdrawStep ==
  ASSUME TypeOK, PlaceFits, Depth = 1, NEW p \in Process, Withdraw(p)
  PROVE  /\ TypeOK' /\ PlaceFits'
         /\ Undisturbed' => Undisturbed
         /\ LocksStand => LocksStand'
<1>1. held[p] = 0 /\ held' = [held EXCEPT ![p] = 0] /\ 0 \in 0..Depth
  BY DEF Withdraw, PlaceFits, TypeOK
<1>2. pc' \in [Process -> {"idle", "trying", "opened", "abandoning", "preparing",
                           "inspecting", "clearing", "running", "releasing", "exited"}]
      /\ PlaceFits'
  BY <1>1, MoveFits DEF Withdraw
<1>3. TypeOK'
  BY <1>2 DEF Withdraw, TypeOK
<1>4. Undisturbed' => Undisturbed
  BY DEF Withdraw, GoTo, Undisturbed, exited, TypeOK
<1>5. ASSUME LocksStand PROVE LocksStand'
  <2>1. UNCHANGED <<file, held, age>>
    BY DEF Withdraw
  <2>2. \A q \in Process : pc'[q] = pc[q] \/ pc'[q] = "idle"
    BY DEF Withdraw, GoTo, TypeOK
  <2> QED BY <1>5, <2>1, <2>2 DEF LocksStand, HasCreated, Wanted
<1> QED BY <1>2, <1>3, <1>4, <1>5

\* A waiter takes a lock that vanished under its eyes for an abandoned one.
Misjudge(p) ==
  /\ pc[p] = "inspecting"
  /\ GoTo(p, "clearing")
  /\ Forget(p)
  /\ UNCHANGED <<file, held, everOld>>

LEMMA MisjudgeStep ==
  ASSUME TypeOK, PlaceFits, NEW p \in Process, Misjudge(p)
  PROVE  TypeOK' /\ PlaceFits'
<1>1. held[p] < Depth /\ held' = [held EXCEPT ![p] = held[p]] /\ held[p] \in 0..Depth
  BY DEF Misjudge, PlaceFits, TypeOK
<1>2. pc' \in [Process -> {"idle", "trying", "opened", "abandoning", "preparing",
                           "inspecting", "clearing", "running", "releasing", "exited"}]
      /\ PlaceFits'
  BY <1>1, MoveFits DEF Misjudge
<1>3. /\ contents' \in [Process -> Process \cup {Unparsable, "unread"}]
      /\ age' \in [Process -> {"unread", "fresh", "old"}]
  BY DEF Misjudge, Forget, TypeOK
<1> QED BY <1>2, <1>3 DEF Misjudge, TypeOK
=============================================================================
