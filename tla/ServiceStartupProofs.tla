------------------------ MODULE ServiceStartupProofs ------------------------
(***************************************************************************)
(* Proofs about ServiceStartup, for every set of processes and every set   *)
(* of casts.  What the lock protocol keeps is taken from StartupLockProofs.*)
(***************************************************************************)
EXTENDS ServiceStartup, StartupLockProofs

\* The places that a call of ensureRunning reaches under the lock only.
UnderLock == {"replace", "assert", "bind4", "bind6", "listen", "write", "rename", "undo", "verify"}

LockedWhileStarting == \A p \in Process : at[p] \in UnderLock => pc[p] = "running"

\* d holds some of what tells of a daemon, or is about to.
IsDaemon(d) == d \in control \/ stopping[d] # "no" \/ at[d] \in {"bind6", "listen"}

\* One daemon at a time, the ports and the state file are its, and it has the
\* state file from the rename until the last step of its stop.
OneDaemon ==
  /\ \A d, e \in Process : IsDaemon(d) /\ IsDaemon(e) => d = e
  /\ port # Nobody => IsDaemon(port) /\ stopping[port] # "file"
  /\ stateFile # Nobody => IsDaemon(stateFile)
  /\ \A d \in control : stopping[d] = "no"
  /\ \A d \in Process : IsDaemon(d) /\ at[d] \notin {"bind6", "listen", "write", "rename", "undo"}
                          => stateFile = d
  /\ \A p \in Process :
       /\ at[p] = "bind4" => \A d \in Process : ~IsDaemon(d)
       /\ at[p] \in {"bind6", "listen"} => stopping[p] = "no"
       /\ at[p] \in {"bind6", "listen", "undo"} => p \notin control
       /\ at[p] \in {"bind6", "listen", "write", "rename"} => stateFile = Nobody
       /\ at[p] \in {"write", "rename"} => p \in control

\* The inductive invariant.  Without the lock's part nobody is alone under it,
\* and without OneDaemon a missing state file says nothing of the other traces.
SInv ==
  /\ StartupTypeOK
  /\ PlaceFits
  /\ Undisturbed => LocksStand
  /\ LockedWhileStarting
  /\ Tidy => OneDaemon

-----------------------------------------------------------------------------
(* The lock's part of every step.                                          *)

LEMMA ReturnLock ==
  ASSUME NEW p \in Process, Return(p)
  PROVE  [Next]_vars \/ Withdraw(p)
BY DEF Return, Withdraw, Next, Step

\* Every step is a step of the lock protocol, leaves it alone, or withdraws.
LEMMA LockPart ==
  ASSUME StartupNext
  PROVE  [Next]_vars \/ \E p \in Process : Withdraw(p)
<1>1. ASSUME NEW p \in Process, Call(p) \/ TakeLock(p) \/ EnterLock(p)
      PROVE  Next
  BY <1>1 DEF Call, TakeLock, EnterLock, Next, Step
<1>2. ASSUME NEW p \in Process, LookedAtLock(p) \/ LeaveLock(p) \/ End(p)
      PROVE  Next
  BY <1>2 DEF LookedAtLock, LeaveLock, End, Next, Step
<1>3. ASSUME TimePasses PROVE Next
  BY <1>3, StartupAssumption DEF TimePasses, Next, LockPath
<1>4. ASSUME NEW p \in Process,
             \/ GiveUp(p) \/ ProbeUnrelated(p) \/ ReturnState(p) \/ NothingToStop(p)
             \/ ReplaceRefused(p) \/ TiredOfWaiting(p) \/ PrepareFails(p)
             \/ StartInterrupted(p) \/ StartFailed(p) \/ Verify(p)
      PROVE  [Next]_vars \/ Withdraw(p)
  BY <1>4, ReturnLock
  DEF GiveUp, ProbeUnrelated, ReturnState, NothingToStop, ReplaceRefused, TiredOfWaiting,
      PrepareFails, StartInterrupted, StartFailed, Verify
<1>5. ASSUME NEW p \in Process,
             \/ ProbeAnswered(p) \/ LookForLock(p) \/ AskGranted(p) \/ AskInVain(p)
             \/ SeenStopped(p) \/ AssertNoneLive(p)
      PROVE  [Next]_vars \/ Withdraw(p)
  BY <1>5, ReturnLock
  DEF ProbeAnswered, LookForLock, AskGranted, AskInVain, SeenStopped, AssertNoneLive, NotHealthy
<1>6. ASSUME NEW p \in Process,
             \/ ProbeMissing(p) \/ NoState(p) \/ Status(p) \/ NothingToReplace(p)
             \/ WillAsk(p) \/ SeenMissing(p) \/ BindIPv4(p) \/ BindIPv6(p) \/ BindFails(p)
             \/ Listen(p) \/ ListenFails(p) \/ WriteState(p) \/ RenameState(p) \/ WriteFails(p)
      PROVE  UNCHANGED vars
  BY <1>6
  DEF ProbeMissing, NotHealthy, NoState, Status, NothingToReplace, WillAsk, SeenMissing,
      BindIPv4, BindIPv6, BindFails, Listen, ListenFails, WriteState, RenameState, WriteFails
<1>7. ASSUME NEW p \in Process,
             \/ Signal(p) \/ BeginStop(p) \/ StopAgain(p) \/ RemoveSocket(p)
             \/ CloseListeners(p) \/ RemoveState(p) \/ RoutesChange(p)
      PROVE  UNCHANGED vars
  BY <1>7 DEF Signal, BeginStop, StopAgain, RemoveSocket, CloseListeners, RemoveState, RoutesChange
<1> QED
  BY <1>1, <1>2, <1>3, <1>4, <1>5, <1>6, <1>7 DEF StartupNext, Advance, StopSteps

LEMMA LockTypes ==
  ASSUME TypeOK, PlaceFits, [StartupNext]_allVars
  PROVE  TypeOK' /\ PlaceFits'
BY LockPart, TypeStep, WithdrawStep, StartupAssumption DEF allVars

LEMMA LockUndisturbed ==
  ASSUME TypeOK, PlaceFits, [StartupNext]_allVars, Undisturbed'
  PROVE  Undisturbed
BY LockPart, UndisturbedBefore, WithdrawStep, StartupAssumption DEF allVars

LEMMA LockStands ==
  ASSUME TypeOK, PlaceFits, [StartupNext]_allVars, Undisturbed', LocksStand
  PROVE  LocksStand'
BY LockPart, StandStep, WithdrawStep, StartupAssumption DEF allVars

-----------------------------------------------------------------------------
(* The rest of every step: first where its process goes.                   *)

\* p goes to a place.  If it is one under the lock, p has the lock.
Goes(p, place) ==
  /\ At(p, place)
  /\ place \in Places
  /\ place \in UnderLock => pc'[p] = "running"
  /\ \A q \in Process \ {p} : pc'[q] = pc[q]

LEMMA Returns ==
  ASSUME TypeOK, NEW p \in Process, Return(p)
  PROVE  Goes(p, "out")
<1>1. At(p, "out")
  BY DEF Return
<1>2. \A q \in Process \ {p} : pc'[q] = pc[q]
  BY DEF Return, EndOperation, GoTo, TypeOK, vars
<1> QED BY <1>1, <1>2 DEF Goes, Places, UnderLock

\* A step that touches nothing but the lock and its own place: where it goes,
\* and where it comes from.
Elsewhere(p, place) ==
  /\ Goes(p, place)
  /\ place \notin {"bind6", "listen", "write", "rename", "undo"}
  /\ place = "bind4" => /\ at[p] \in {"awaitFile", "assert"}
                        /\ pc[p] = "running"
                        /\ stateFile \notin Process \ exited
  /\ at[p] \notin {"bind6", "listen", "write", "rename"}
  /\ at[p] = "undo" => stopping[p] = "no"

LEMMA ElsewhereSteps ==
  ASSUME TypeOK, at \in [Process -> Places], LockedWhileStarting, Nobody \notin Process,
         NEW p \in Process,
         \/ Call(p) \/ TakeLock(p) \/ EnterLock(p) \/ LookedAtLock(p) \/ GiveUp(p) \/ LeaveLock(p)
         \/ ProbeMissing(p) \/ ProbeUnrelated(p) \/ ReturnState(p) \/ NoState(p) \/ LookForLock(p)
         \/ Status(p) \/ NothingToStop(p) \/ NothingToReplace(p) \/ ReplaceRefused(p)
         \/ WillAsk(p) \/ AskInVain(p) \/ SeenMissing(p) \/ SeenStopped(p) \/ TiredOfWaiting(p)
         \/ AssertNoneLive(p) \/ PrepareFails(p) \/ StartFailed(p) \/ Verify(p)
  PROVE  UNCHANGED world /\ \E place \in Places : Elsewhere(p, place)
<1>1. CASE \/ GiveUp(p) \/ ProbeUnrelated(p) \/ ReturnState(p) \/ NothingToStop(p)
           \/ ReplaceRefused(p) \/ TiredOfWaiting(p) \/ PrepareFails(p) \/ StartFailed(p) \/ Verify(p)
  <2>1. UNCHANGED world /\ Goes(p, "out")
    BY <1>1, Returns
    DEF GiveUp, ProbeUnrelated, ReturnState, NothingToStop, ReplaceRefused, TiredOfWaiting,
        PrepareFails, StartFailed, Verify
  <2>2. /\ at[p] \notin {"bind6", "listen", "write", "rename"}
        /\ at[p] = "undo" => stopping[p] = "no"
    BY <1>1
    DEF GiveUp, ProbeUnrelated, ReturnState, NothingToStop, ReplaceRefused, TiredOfWaiting,
        PrepareFails, StartFailed, Verify
  <2>3. Elsewhere(p, "out")
    BY <2>1, <2>2 DEF Elsewhere
  <2> QED BY <2>1, <2>3 DEF Places
<1>2. CASE Call(p) \/ TakeLock(p) \/ EnterLock(p) \/ LookedAtLock(p) \/ LeaveLock(p)
  <2>1. PICK place \in {"probe", "lock", "out", at[p]} :
          /\ UNCHANGED world
          /\ At(p, place)
          /\ place \notin UnderLock
          /\ at[p] \notin UnderLock
    <3>1. CASE Call(p)
      BY <3>1 DEF Call, UnderLock
    <3>2. CASE TakeLock(p)
      BY <3>2 DEF TakeLock, UnderLock, At, svars
    <3>3. CASE EnterLock(p)
      BY <3>3 DEF EnterLock, UnderLock
    <3>4. CASE LookedAtLock(p)
      <4>1. at[p] \notin UnderLock
        BY <3>4 DEF LookedAtLock, LockVanished, Decide, ClearStaleLock, LockedWhileStarting
      <4> QED BY <3>4, <4>1 DEF LookedAtLock, UnderLock
    <3>5. CASE LeaveLock(p)
      <4>1. at[p] \notin UnderLock
        BY <3>5 DEF LeaveLock, ReleaseLock, RemoveUnwritten, LockedWhileStarting
      <4> QED BY <3>5, <4>1 DEF LeaveLock, UnderLock
    <3> QED BY <1>2, <3>1, <3>2, <3>3, <3>4, <3>5
  <2>2. \A q \in Process \ {p} : pc'[q] = pc[q]
    BY <1>2
    DEF Call, TakeLock, EnterLock, LookedAtLock, LeaveLock, Start, CreateLock, LockExists,
        ReadContents, ReadAge, FailWrite, WriteLock, LockVanished, Decide, ClearStaleLock,
        ReleaseLock, RemoveUnwritten, GoTo, TypeOK
  <2>3. place \in Places
    BY <2>1 DEF Places
  <2>4. Elsewhere(p, place)
    BY <2>1, <2>2, <2>3 DEF Elsewhere, Goes, UnderLock
  <2> QED BY <2>1, <2>3, <2>4
<1>3. CASE ProbeMissing(p) \/ NoState(p) \/ Status(p) \/ NothingToReplace(p) \/ WillAsk(p) \/ SeenMissing(p)
  <2>1. PICK place \in {"replace", "lock", "lookForLock", "status", "assert", "ask", "awaitFile"} :
          /\ UNCHANGED <<vars, world>>
          /\ At(p, place)
          /\ place \in UnderLock => pc[p] = "running"
          /\ at[p] \notin {"bind6", "listen", "write", "rename", "undo"}
    <3>1. CASE ProbeMissing(p)
      BY <3>1 DEF ProbeMissing, NotHealthy, UnderLock
    <3>2. CASE NothingToReplace(p)
      BY <3>2 DEF NothingToReplace, UnderLock, LockedWhileStarting
    <3>3. CASE NoState(p) \/ Status(p) \/ WillAsk(p) \/ SeenMissing(p)
      BY <3>3 DEF NoState, Status, WillAsk, SeenMissing, UnderLock
    <3> QED BY <1>3, <3>1, <3>2, <3>3
  <2>2. Elsewhere(p, place)
    BY <2>1 DEF Elsewhere, Goes, UnderLock, Places, vars
  <2> QED BY <2>1, <2>2 DEF Places
<1>4. CASE LookForLock(p) \/ AskInVain(p) \/ SeenStopped(p) \/ AssertNoneLive(p)
  <2>1. UNCHANGED world
    BY <1>4 DEF LookForLock, AskInVain, SeenStopped, AssertNoneLive
  <2>2. at[p] \notin {"bind6", "listen", "write", "rename", "undo"}
    BY <1>4 DEF LookForLock, AskInVain, SeenStopped, AssertNoneLive
  <2>3. CASE Return(p)
    <3>1. Elsewhere(p, "out")
      BY <2>2, <2>3, Returns DEF Elsewhere
    <3> QED BY <2>1, <3>1 DEF Places
  <2>4. CASE ~Return(p)
    <3>1. PICK place \in {"replace", "lock", "awaitMissing", "bind4"} :
            /\ UNCHANGED vars
            /\ At(p, place)
            /\ place \in UnderLock => pc[p] = "running"
            /\ place = "bind4" => /\ at[p] \in {"awaitFile", "assert"}
                                  /\ stateFile \notin Process \ exited
      <4>1. CASE LookForLock(p)
        BY <2>4, <4>1 DEF LookForLock, NotHealthy, UnderLock
      <4>2. CASE AskInVain(p)
        BY <2>4, <4>2 DEF AskInVain, UnderLock
      <4>3. CASE SeenStopped(p)
        BY <2>4, <4>3 DEF SeenStopped, UnderLock
      <4>4. CASE AssertNoneLive(p)
        BY <2>4, <4>4 DEF AssertNoneLive, UnderLock, LockedWhileStarting
      <4> QED BY <1>4, <4>1, <4>2, <4>3, <4>4
    <3>2. Elsewhere(p, place)
      BY <2>2, <3>1 DEF Elsewhere, Goes, UnderLock, Places, vars
    <3> QED BY <2>1, <3>1, <3>2 DEF Places
  <2> QED BY <2>3, <2>4
<1> QED BY <1>1, <1>2, <1>3, <1>4

\* A probe that is answered and a request to stop that is granted change
\* besides only what is remembered of them.
LEMMA AskingSteps ==
  ASSUME TypeOK, LockedWhileStarting, NEW p \in Process,
         ProbeAnswered(p) \/ AskGranted(p)
  PROVE  /\ UNCHANGED <<cast, control, port, socket, stateFile, routes, stopping, untidy>>
         /\ \E place \in Places : Elsewhere(p, place)
<1>1. CASE ProbeAnswered(p)
  <2>1. /\ at[p] = "probe"
        /\ \/ At(p, "state") /\ UNCHANGED vars
           \/ Return(p)
           \/ NotHealthy(p)
    <3>1. PICK d \in Reachable :
            CASE Compatible(d) -> At(p, "state") /\ UNCHANGED vars
              [] ~Compatible(d) /\ d \in routes -> Return(p)
              [] OTHER -> NotHealthy(p)
      BY <1>1 DEF ProbeAnswered
    <3>2. at[p] = "probe"
      BY <1>1 DEF ProbeAnswered
    <3> QED BY <3>1, <3>2
  <2>2. CASE Return(p)
    <3>1. Elsewhere(p, "out")
      BY <2>1, <2>2, Returns DEF Elsewhere
    <3> QED BY <1>1, <3>1 DEF ProbeAnswered, Places
  <2>3. CASE ~Return(p)
    <3>1. PICK place \in {"state", "replace", "lock"} :
            UNCHANGED vars /\ At(p, place) /\ (place \in UnderLock => pc[p] = "running")
      BY <2>1, <2>3 DEF NotHealthy, UnderLock
    <3>2. Elsewhere(p, place)
      BY <2>1, <3>1 DEF Elsewhere, Goes, UnderLock, Places, vars
    <3> QED BY <1>1, <3>2 DEF ProbeAnswered, Places
  <2> QED BY <2>2, <2>3
<1>2. CASE AskGranted(p)
  <2>1. /\ at[p] = "ask"
        /\ (At(p, "awaitMissing") /\ UNCHANGED vars) \/ Return(p)
        /\ UNCHANGED <<cast, control, port, socket, stateFile, routes, stopping, untidy>>
    BY <1>2 DEF AskGranted
  <2>2. Elsewhere(p, "out") \/ Elsewhere(p, "awaitMissing")
    <3>1. CASE Return(p)
      BY <2>1, <3>1, Returns DEF Elsewhere
    <3>2. CASE At(p, "awaitMissing") /\ UNCHANGED vars
      BY <2>1, <3>2 DEF Elsewhere, Goes, UnderLock, Places, vars
    <3> QED BY <2>1, <3>1, <3>2
  <2> QED BY <2>1, <2>2 DEF Places
<1> QED BY <1>1, <1>2

\* The steps of a start keep the lock.
LEMMA StartingSteps ==
  ASSUME TypeOK, LockedWhileStarting, NEW p \in Process,
         \/ BindIPv4(p) \/ BindIPv6(p) \/ BindFails(p) \/ Listen(p) \/ ListenFails(p)
         \/ WriteState(p) \/ RenameState(p) \/ WriteFails(p) \/ StartInterrupted(p)
  PROVE  \E place \in Places : Goes(p, place)
<1>1. CASE StartInterrupted(p)
  <2>1. Goes(p, "out")
    BY <1>1, Returns DEF StartInterrupted
  <2> QED BY <2>1 DEF Places
<1>2. CASE ~StartInterrupted(p)
  <2>1. at[p] \in UnderLock
    BY <1>2 DEF BindIPv4, BindIPv6, BindFails, Listen, ListenFails, WriteState, RenameState,
                WriteFails, UnderLock
  <2>2. PICK place \in Places : At(p, place) /\ UNCHANGED vars
    BY <1>2 DEF BindIPv4, BindIPv6, BindFails, Listen, ListenFails, WriteState, RenameState,
                WriteFails, FailStart, Places
  <2>3. Goes(p, place)
    BY <2>1, <2>2 DEF Goes, vars, LockedWhileStarting
  <2> QED BY <2>3
<1> QED BY <1>1, <1>2

\* The steps of a daemon, and of its users, move no call.
LEMMA DaemonSteps ==
  ASSUME NEW d \in Process,
         Signal(d) \/ StopSteps(d) \/ RoutesChange(d)
  PROVE  UNCHANGED <<vars, at, cast>>
BY DEF Signal, StopSteps, BeginStop, StopAgain, RemoveSocket, CloseListeners, RemoveState, RoutesChange

\* Every step of a call leaves it in a place of its own, and nobody is in the
\* midst of starting a daemon without the lock.
LEMMA PlacesStep ==
  ASSUME TypeOK, at \in [Process -> Places], LockedWhileStarting, [StartupNext]_allVars
  PROVE  at' \in [Process -> Places] /\ LockedWhileStarting'
<1>1. ASSUME NEW p \in Process, NEW place \in Places, Goes(p, place)
      PROVE  at' \in [Process -> Places] /\ LockedWhileStarting'
  <2>1. at' = [at EXCEPT ![p] = place]
    BY <1>1 DEF Goes, At
  <2>2. ASSUME NEW q \in Process, at'[q] \in UnderLock PROVE pc'[q] = "running"
    BY <1>1, <2>1, <2>2 DEF Goes, LockedWhileStarting
  <2> QED BY <2>1, <2>2 DEF LockedWhileStarting
<1>2. ASSUME UNCHANGED <<pc, at>>
      PROVE  at' \in [Process -> Places] /\ LockedWhileStarting'
  BY <1>2 DEF LockedWhileStarting
<1>3. ASSUME NEW p \in Process, End(p) PROVE Goes(p, "out") /\ "out" \in Places
  BY <1>3 DEF End, Exit, GoTo, Goes, UnderLock, TypeOK, Places
<1>4. ASSUME TimePasses PROVE UNCHANGED <<pc, at>>
  BY <1>4 DEF TimePasses, Age, svars
<1>5. ASSUME NEW p \in Process, Signal(p) \/ StopSteps(p) \/ RoutesChange(p)
      PROVE  UNCHANGED <<pc, at>>
  BY <1>5, DaemonSteps DEF vars
<1>6. ASSUME UNCHANGED allVars PROVE UNCHANGED <<pc, at>>
  BY <1>6 DEF allVars, vars, svars
<1>7. ASSUME StartupNext
      PROVE  \/ \E p \in Process, place \in Places : Goes(p, place)
             \/ UNCHANGED <<pc, at>>
  BY <1>3, <1>4, <1>5, <1>7, ElsewhereSteps, AskingSteps, StartingSteps, StartupAssumption
  DEF StartupNext, Advance, Elsewhere
<1> QED BY <1>1, <1>2, <1>6, <1>7

WorldTypeOK ==
  /\ cast \in Casts
  /\ control \subseteq Process /\ routes \subseteq control /\ untidy \in BOOLEAN
  /\ {port, socket, stateFile} \subseteq Process \cup {Nobody}
  /\ stops \in [Process -> 0..2]
  /\ stopping \in [Process -> {"no", "socket", "listeners", "file"}]
  /\ seen \in [Process -> Process \cup {Nobody}]

\* What tells of daemons, and what is remembered of them, keeps its types.
LEMMA WorldTypes ==
  ASSUME TypeOK, at \in [Process -> Places], LockedWhileStarting, WorldTypeOK,
         [StartupNext]_allVars
  PROVE  WorldTypeOK'
<1> USE DEF WorldTypeOK
<1>1. ASSUME UNCHANGED world PROVE WorldTypeOK'
  BY <1>1 DEF world
<1>2. ASSUME NEW p \in Process, ProbeAnswered(p) PROVE WorldTypeOK'
  <2>1. PICK d \in Reachable : seen' = [seen EXCEPT ![p] = d]
    BY <1>2 DEF ProbeAnswered
  <2>2. d \in Process
    BY <2>1 DEF Reachable
  <2> QED BY <1>2, <2>1, <2>2 DEF ProbeAnswered
<1>3. ASSUME NEW p \in Process, AskGranted(p) PROVE WorldTypeOK'
  <2>1. PICK d \in Process : stops[d] < 2 /\ stops' = [stops EXCEPT ![d] = @ + 1]
    BY <1>3 DEF AskGranted, Reachable
  <2>2. stops' \in [Process -> 0..2]
    BY <2>1
  <2> QED BY <1>3, <2>2 DEF AskGranted
<1>4. ASSUME NEW p \in Process, BindIPv4(p) \/ BindIPv6(p) \/ Listen(p) \/ WriteState(p) \/ RenameState(p)
      PROVE  WorldTypeOK'
  BY <1>4 DEF BindIPv4, BindIPv6, Listen, WriteState, RenameState, world
<1>5. ASSUME NEW p \in Process, NEW from \in {"socket", "file"}, FailStart(p, from),
             UNCHANGED <<cast, socket, stateFile, stops, seen>>, port' \in {port, Nobody}
      PROVE  WorldTypeOK'
  <2>1. stopping' \in [Process -> {"no", "socket", "listeners", "file"}]
    BY <1>5 DEF FailStart
  <2>2. control' \subseteq Process /\ routes' \subseteq control'
    BY <1>5 DEF FailStart
  <2>3. untidy' \in BOOLEAN
    BY <1>5 DEF FailStart
  <2> QED BY <1>5, <2>1, <2>2, <2>3
<1>6. ASSUME NEW p \in Process, BindFails(p) \/ ListenFails(p) \/ WriteFails(p)
      PROVE  WorldTypeOK'
  BY <1>5, <1>6 DEF BindFails, ListenFails, WriteFails
<1>7. ASSUME NEW p \in Process, StartInterrupted(p) PROVE WorldTypeOK'
  BY <1>7 DEF StartInterrupted
<1>8. ASSUME NEW d \in Process, Signal(d) PROVE WorldTypeOK'
  BY <1>8 DEF Signal
<1>9. ASSUME NEW d \in Process, BeginStop(d) PROVE WorldTypeOK'
  <2>1. stops' \in [Process -> 0..2]
    BY <1>9 DEF BeginStop
  <2>2. untidy' \in BOOLEAN
    BY <1>9 DEF BeginStop
  <2> QED BY <1>9, <2>1, <2>2 DEF BeginStop
<1>10. ASSUME NEW d \in Process, StopAgain(d) PROVE WorldTypeOK'
  BY <1>10 DEF StopAgain
<1>11. ASSUME NEW d \in Process, RemoveSocket(d) \/ CloseListeners(d) \/ RemoveState(d)
       PROVE  WorldTypeOK'
  BY <1>11 DEF RemoveSocket, CloseListeners, RemoveState
<1>12. ASSUME NEW d \in Process, RoutesChange(d) PROVE WorldTypeOK'
  BY <1>12 DEF RoutesChange
<1>13. ASSUME NEW p \in Process, End(p) PROVE WorldTypeOK'
  BY <1>13 DEF End
<1>14. ASSUME TimePasses \/ UNCHANGED allVars PROVE UNCHANGED world
  BY <1>14 DEF TimePasses, allVars, svars
<1> QED
  BY <1>1, <1>2, <1>3, <1>4, <1>6, <1>7, <1>8, <1>9, <1>10, <1>11, <1>12, <1>13, <1>14,
     ElsewhereSteps, StartupAssumption
  DEF StartupNext, Advance, StopSteps

LEMMA TidyBefore ==
  ASSUME StartupTypeOK, PlaceFits, LockedWhileStarting, [StartupNext]_allVars, Tidy'
  PROVE  Tidy
<1>1. exited = {} /\ ~everOld
  BY LockUndisturbed DEF Tidy, Undisturbed, StartupTypeOK
<1>2. ASSUME NEW p \in Process, BindFails(p) \/ ListenFails(p) \/ WriteFails(p)
      PROVE  untidy => untidy'
  BY <1>2 DEF BindFails, ListenFails, WriteFails, FailStart
<1>3. ASSUME NEW p \in Process,
             \/ BindIPv4(p) \/ BindIPv6(p) \/ Listen(p) \/ WriteState(p) \/ RenameState(p)
             \/ StartInterrupted(p) \/ Signal(p) \/ StopSteps(p) \/ RoutesChange(p) \/ End(p)
      PROVE  untidy => untidy'
  BY <1>3 DEF BindIPv4, BindIPv6, Listen, WriteState, RenameState, StartInterrupted, Signal,
              StopSteps, BeginStop, StopAgain, RemoveSocket, CloseListeners, RemoveState,
              RoutesChange, End, world
<1>4. ASSUME NEW p \in Process, ProbeAnswered(p) \/ AskGranted(p) PROVE untidy => untidy'
  BY <1>4, AskingSteps DEF StartupTypeOK
<1>5. ASSUME UNCHANGED world \/ TimePasses \/ UNCHANGED allVars PROVE untidy => untidy'
  BY <1>5 DEF TimePasses, world, allVars, svars
<1>6. untidy => untidy'
  BY <1>2, <1>3, <1>4, <1>5, ElsewhereSteps, StartupAssumption
  DEF StartupNext, Advance, StartupTypeOK
<1> QED BY <1>1, <1>6 DEF Tidy

-----------------------------------------------------------------------------
(* One daemon.                                                             *)

\* Who is under the lock and not starting a daemon is alone if there is no
\* state file: every daemon has one, except while it is being started.
LEMMA NoStateNoDaemon ==
  ASSUME StartupTypeOK, PlaceFits, LocksStand, LockedWhileStarting, OneDaemon,
         NEW p \in Process, pc[p] = "running",
         at[p] \notin {"bind6", "listen", "write", "rename", "undo"}, stateFile \notin Process
  PROVE  \A d \in Process : ~IsDaemon(d)
<1> SUFFICES ASSUME NEW d \in Process, IsDaemon(d) PROVE FALSE
  OBVIOUS
<1>1. at[d] \in {"bind6", "listen", "write", "rename", "undo"}
  BY DEF OneDaemon
<1>2. pc[d] = "running"
  BY <1>1 DEF LockedWhileStarting, UnderLock
<1>3. p = d
  BY <1>2, OneRunner DEF StartupTypeOK
<1> QED BY <1>1, <1>3

\* A process that only goes elsewhere leaves the daemons as they are.
LEMMA ElsewhereKeeps ==
  ASSUME StartupTypeOK, PlaceFits, LocksStand, LockedWhileStarting, OneDaemon, exited = {},
         NEW p \in Process, NEW place \in Places, Elsewhere(p, place),
         UNCHANGED <<control, port, stateFile, stopping>>
  PROVE  OneDaemon'
<1>1. /\ at'[p] = place
      /\ \A q \in Process \ {p} : at'[q] = at[q]
  BY DEF Elsewhere, Goes, At, StartupTypeOK
<1>2. \A d \in Process : IsDaemon(d)' <=> IsDaemon(d)
  BY <1>1 DEF Elsewhere, IsDaemon
<1>3. ASSUME place = "bind4" PROVE \A d \in Process : ~IsDaemon(d)
  BY <1>3, NoStateNoDaemon DEF Elsewhere
<1>4. ASSUME NEW d \in Process, IsDaemon(d),
             at'[d] \notin {"bind6", "listen", "write", "rename", "undo"}
      PROVE  stateFile = d
  <2>1. CASE d = p
    BY <1>4, <2>1 DEF OneDaemon, Elsewhere, IsDaemon
  <2>2. CASE d # p
    BY <1>1, <1>4, <2>2 DEF OneDaemon
  <2> QED BY <2>1, <2>2
<1>5. ASSUME port # Nobody PROVE IsDaemon(port)' /\ stopping[port] # "file"
  BY <1>2, <1>5 DEF OneDaemon, StartupTypeOK
<1>6. ASSUME stateFile # Nobody PROVE IsDaemon(stateFile)'
  BY <1>2, <1>6 DEF OneDaemon, StartupTypeOK
<1>7. ASSUME NEW q \in Process
      PROVE  /\ at'[q] = "bind4" => \A d \in Process : ~IsDaemon(d)
             /\ at'[q] \in {"bind6", "listen"} => stopping[q] = "no"
             /\ at'[q] \in {"bind6", "listen", "undo"} => q \notin control
             /\ at'[q] \in {"bind6", "listen", "write", "rename"} => stateFile = Nobody
             /\ at'[q] \in {"write", "rename"} => q \in control
  <2>1. CASE q = p
    BY <1>1, <1>3, <2>1 DEF Elsewhere
  <2>2. CASE q # p
    BY <1>1, <2>2 DEF OneDaemon
  <2> QED BY <2>1, <2>2
<1>8. \A d, e \in Process : IsDaemon(d) /\ IsDaemon(e) => d = e
  BY DEF OneDaemon
<1>9. \A d \in control : stopping[d] = "no"
  BY DEF OneDaemon
<1> QED BY <1>2, <1>4, <1>5, <1>6, <1>7, <1>8, <1>9 DEF OneDaemon

\* So does a step that changes none of them.
LEMMA NothingKeeps ==
  ASSUME OneDaemon, UNCHANGED <<at, control, port, stateFile, stopping>>
  PROVE  OneDaemon'
BY DEF OneDaemon, IsDaemon

\* q has nothing to do with a daemon.
Uninvolved(q) ==
  /\ q \notin control /\ stopping[q] = "no"
  /\ at[q] \notin {"bind4", "bind6", "listen", "write", "rename"}

\* What OneDaemon says when p is the only one involved.
OnlyDaemon(p) ==
  /\ port # Nobody => port = p /\ IsDaemon(p) /\ stopping[p] # "file"
  /\ stateFile # Nobody => stateFile = p /\ IsDaemon(p)
  /\ p \in control => stopping[p] = "no"
  /\ IsDaemon(p) /\ at[p] \notin {"bind6", "listen", "write", "rename", "undo"} => stateFile = p
  /\ at[p] = "bind4" => ~IsDaemon(p)
  /\ at[p] \in {"bind6", "listen"} => stopping[p] = "no"
  /\ at[p] \in {"bind6", "listen", "undo"} => p \notin control
  /\ at[p] \in {"bind6", "listen", "write", "rename"} => stateFile = Nobody
  /\ at[p] \in {"write", "rename"} => p \in control

LEMMA OnlyOne ==
  ASSUME StartupTypeOK, PlaceFits, LocksStand, LockedWhileStarting, OneDaemon,
         NEW p \in Process, IsDaemon(p) \/ at[p] = "bind4"
  PROVE  OnlyDaemon(p) /\ \A q \in Process \ {p} : Uninvolved(q)
<1>1. \A q \in Process \ {p} : ~IsDaemon(q)
  BY DEF OneDaemon
<1>2. ASSUME NEW q \in Process \ {p}, at[q] = "bind4" PROVE FALSE
  <2>1. at[p] = "bind4"
    BY <1>2 DEF OneDaemon
  <2> QED BY <1>2, <2>1, OneRunner DEF LockedWhileStarting, UnderLock, StartupTypeOK
<1>3. \A q \in Process \ {p} : Uninvolved(q)
  BY <1>1, <1>2 DEF OneDaemon, IsDaemon, Uninvolved
<1>4. port # Nobody => port = p /\ IsDaemon(p) /\ stopping[p] # "file"
  BY <1>1 DEF OneDaemon, StartupTypeOK
<1>5. stateFile # Nobody => stateFile = p /\ IsDaemon(p)
  BY <1>1 DEF OneDaemon, StartupTypeOK
<1>6. OnlyDaemon(p)
  BY <1>4, <1>5 DEF OneDaemon, OnlyDaemon
<1> QED BY <1>3, <1>6

LEMMA OneFromOnly ==
  ASSUME StartupTypeOK', NEW p \in Process, OnlyDaemon(p)',
         \A q \in Process \ {p} : Uninvolved(q)'
  PROVE  OneDaemon'
<1>1. \A q \in Process \ {p} : ~IsDaemon(q)'
  BY DEF Uninvolved, IsDaemon
<1>2. port' # Nobody => IsDaemon(port)' /\ stopping'[port'] # "file"
  BY DEF OnlyDaemon
<1>3. stateFile' # Nobody => IsDaemon(stateFile)'
  BY DEF OnlyDaemon
<1>4. \A d \in control' : stopping'[d] = "no"
  BY DEF OnlyDaemon, Uninvolved, StartupTypeOK
<1>5. \A d \in Process :
        IsDaemon(d)' /\ at'[d] \notin {"bind6", "listen", "write", "rename", "undo"}
          => stateFile' = d
  BY <1>1 DEF OnlyDaemon
<1>6. ASSUME NEW q \in Process
      PROVE  /\ at'[q] = "bind4" => \A d \in Process : ~IsDaemon(d)'
             /\ at'[q] \in {"bind6", "listen"} => stopping'[q] = "no"
             /\ at'[q] \in {"bind6", "listen", "undo"} => q \notin control'
             /\ at'[q] \in {"bind6", "listen", "write", "rename"} => stateFile' = Nobody
             /\ at'[q] \in {"write", "rename"} => q \in control'
  <2>1. CASE q = p
    BY <1>1, <2>1 DEF OnlyDaemon
  <2>2. CASE q # p
    BY <2>2 DEF Uninvolved
  <2> QED BY <2>1, <2>2
<1> QED BY <1>1, <1>2, <1>3, <1>4, <1>5, <1>6 DEF OneDaemon

\* While everything is tidy there is one daemon, before each step and after.
LEMMA OneDaemonStep ==
  ASSUME StartupTypeOK, StartupTypeOK', PlaceFits, LocksStand, LockedWhileStarting, OneDaemon,
         [StartupNext]_allVars, Tidy'
  PROVE  OneDaemon'
<1>1. exited = {} /\ ~everOld /\ ~untidy
  BY TidyBefore DEF Tidy
<1>2. exited' = {} /\ ~untidy'
  BY DEF Tidy
<1>3. Nobody \notin Process
  BY StartupAssumption
<1>4. ASSUME NEW p \in Process, NEW place \in Places, Elsewhere(p, place),
             UNCHANGED <<control, port, stateFile, stopping>>
      PROVE  OneDaemon'
  BY <1>1, <1>4, ElsewhereKeeps
<1>5. ASSUME NEW p \in Process, IsDaemon(p) \/ at[p] = "bind4", OnlyDaemon(p) => OnlyDaemon(p)',
             \A q \in Process \ {p} : at'[q] = at[q],
             \A q \in Process \ {p} : stopping'[q] = stopping[q],
             \A q \in Process \ {p} : q \in control' => q \in control
      PROVE  OneDaemon'
  <2>1. OnlyDaemon(p) /\ \A q \in Process \ {p} : Uninvolved(q)
    BY <1>5, OnlyOne
  <2>2. OnlyDaemon(p)'
    BY <1>5, <2>1
  <2>3. \A q \in Process \ {p} : Uninvolved(q)'
    BY <1>5, <2>1 DEF Uninvolved
  <2> QED BY <2>2, <2>3, OneFromOnly
<1>6. ASSUME NEW p \in Process, BindIPv4(p) PROVE OneDaemon'
  <2>1. at[p] = "bind4" /\ at'[p] = "bind6" /\ port' = p /\ UNCHANGED <<control, stateFile, stopping>>
    BY <1>6 DEF BindIPv4, At, StartupTypeOK
  <2>2. OnlyDaemon(p) => OnlyDaemon(p)'
    BY <2>1, <1>3 DEF OnlyDaemon, IsDaemon
  <2>3. \A q \in Process \ {p} : at'[q] = at[q]
    BY <1>6 DEF BindIPv4, At, StartupTypeOK
  <2> QED BY <1>5, <2>1, <2>2, <2>3
<1>7. ASSUME NEW p \in Process, BindIPv6(p) PROVE OneDaemon'
  <2>1. at[p] = "bind6" /\ at'[p] = "listen" /\ UNCHANGED <<control, port, stateFile, stopping>>
    BY <1>7 DEF BindIPv6, At, StartupTypeOK, world
  <2>2. OnlyDaemon(p) => OnlyDaemon(p)'
    BY <2>1 DEF OnlyDaemon, IsDaemon
  <2>3. \A q \in Process \ {p} : at'[q] = at[q]
    BY <1>7 DEF BindIPv6, At, StartupTypeOK
  <2> QED BY <1>5, <2>1, <2>2, <2>3 DEF IsDaemon
<1>8. ASSUME NEW p \in Process, BindFails(p) PROVE OneDaemon'
  <2>1. /\ at[p] \in {"bind4", "bind6"}
        /\ (at[p] = "bind4" /\ port' = port) \/ port' = Nobody
        /\ at'[p] = "undo" /\ control' = control \ {p} /\ stopping'[p] = "file"
        /\ stateFile' = stateFile
    BY <1>8 DEF BindFails, FailStart, At, StartupTypeOK
  <2>2. OnlyDaemon(p) => OnlyDaemon(p)'
    BY <2>1 DEF OnlyDaemon, IsDaemon
  <2>3. \A q \in Process \ {p} : at'[q] = at[q] /\ stopping'[q] = stopping[q]
    BY <1>8 DEF BindFails, FailStart, At, StartupTypeOK
  <2> QED BY <1>5, <2>1, <2>2, <2>3 DEF IsDaemon
<1>9. ASSUME NEW p \in Process, Listen(p) PROVE OneDaemon'
  <2>1. /\ at[p] = "listen" /\ at'[p] = "write" /\ control' = control \cup {p}
        /\ UNCHANGED <<port, stateFile, stopping>>
    BY <1>9 DEF Listen, At, StartupTypeOK
  <2>2. OnlyDaemon(p) => OnlyDaemon(p)'
    BY <2>1 DEF OnlyDaemon, IsDaemon
  <2>3. \A q \in Process \ {p} : at'[q] = at[q]
    BY <1>9 DEF Listen, At, StartupTypeOK
  <2> QED BY <1>5, <2>1, <2>2, <2>3 DEF IsDaemon
<1>10. ASSUME NEW p \in Process, ListenFails(p) \/ WriteFails(p) PROVE OneDaemon'
  <2>1. /\ at[p] \in {"listen", "write", "rename"}
        /\ at'[p] = "undo" /\ control' = control \ {p} /\ stopping'[p] = "socket"
        /\ UNCHANGED <<port, stateFile>>
    BY <1>10 DEF ListenFails, WriteFails, FailStart, At, StartupTypeOK
  <2>2. OnlyDaemon(p) => OnlyDaemon(p)'
    BY <2>1 DEF OnlyDaemon, IsDaemon
  <2>3. \A q \in Process \ {p} : at'[q] = at[q] /\ stopping'[q] = stopping[q]
    BY <1>10 DEF ListenFails, WriteFails, FailStart, At, StartupTypeOK
  <2> QED BY <1>5, <2>1, <2>2, <2>3 DEF IsDaemon, OneDaemon
<1>11. ASSUME NEW p \in Process, WriteState(p) \/ RenameState(p) PROVE OneDaemon'
  <2>1. /\ \/ at[p] = "write" /\ at'[p] = "rename" /\ stateFile' = stateFile
           \/ at[p] = "rename" /\ at'[p] = "verify" /\ stateFile' = p
        /\ UNCHANGED <<control, port, stopping>>
    BY <1>11 DEF WriteState, RenameState, At, StartupTypeOK, world
  <2>2. OnlyDaemon(p) => OnlyDaemon(p)'
    BY <2>1 DEF OnlyDaemon, IsDaemon
  <2>3. \A q \in Process \ {p} : at'[q] = at[q]
    BY <1>11 DEF WriteState, RenameState, At, StartupTypeOK
  <2> QED BY <1>5, <2>1, <2>2, <2>3 DEF IsDaemon, OneDaemon
<1>12. ASSUME NEW p \in Process, StartInterrupted(p) PROVE FALSE
  BY <1>12 DEF StartInterrupted, OneDaemon
<1>13. ASSUME NEW d \in Process, BeginStop(d) PROVE OneDaemon'
  <2>1. at[d] \notin {"write", "rename"}
    BY <1>2, <1>13 DEF BeginStop
  <2>2. /\ d \in control /\ control' = control \ {d} /\ stopping'[d] = "socket"
        /\ UNCHANGED <<at, port, stateFile>>
    BY <1>13 DEF BeginStop, StartupTypeOK
  <2>3. OnlyDaemon(d) => OnlyDaemon(d)'
    BY <2>1, <2>2 DEF OnlyDaemon, IsDaemon
  <2>4. \A q \in Process \ {d} : stopping'[q] = stopping[q]
    BY <1>13 DEF BeginStop, StartupTypeOK
  <2> QED BY <1>5, <2>2, <2>3, <2>4 DEF IsDaemon
<1>14. ASSUME NEW d \in Process, StopAgain(d) PROVE FALSE
  BY <1>2, <1>14 DEF StopAgain
<1>15. ASSUME NEW d \in Process, RemoveSocket(d) \/ CloseListeners(d) \/ RemoveState(d)
       PROVE  OneDaemon'
  <2>1. /\ \/ stopping[d] = "socket" /\ stopping'[d] = "listeners" /\ UNCHANGED <<port, stateFile>>
           \/ /\ stopping[d] = "listeners" /\ stopping'[d] = "file"
              /\ port' = IF port = d THEN Nobody ELSE port
              /\ stateFile' = stateFile
           \/ stopping[d] = "file" /\ stopping'[d] = "no" /\ port' = port /\ stateFile' = Nobody
        /\ UNCHANGED <<at, control>>
    BY <1>15 DEF RemoveSocket, CloseListeners, RemoveState, StartupTypeOK
  <2>2. OnlyDaemon(d) => OnlyDaemon(d)'
    BY <2>1 DEF OnlyDaemon, IsDaemon
  <2>3. \A q \in Process \ {d} : stopping'[q] = stopping[q]
    BY <1>15 DEF RemoveSocket, CloseListeners, RemoveState, StartupTypeOK
  <2> QED BY <1>5, <2>1, <2>2, <2>3 DEF IsDaemon
<1>16. ASSUME NEW d \in Process, Signal(d) \/ RoutesChange(d) PROVE OneDaemon'
  BY <1>16, NothingKeeps DEF Signal, RoutesChange
<1>17. ASSUME NEW p \in Process, End(p) PROVE FALSE
  BY <1>2, <1>17 DEF End, Exit, GoTo, exited, StartupTypeOK, TypeOK
<1>18. ASSUME TimePasses \/ UNCHANGED allVars PROVE OneDaemon'
  BY <1>18, NothingKeeps DEF TimePasses, allVars, svars, world
<1>19. ASSUME NEW p \in Process, UNCHANGED world, \E place \in Places : Elsewhere(p, place)
       PROVE  OneDaemon'
  BY <1>4, <1>19 DEF world
<1>20. ASSUME NEW p \in Process, ProbeAnswered(p) \/ AskGranted(p) PROVE OneDaemon'
  BY <1>4, <1>20, AskingSteps DEF StartupTypeOK
<1> QED
  BY <1>3, <1>6, <1>7, <1>8, <1>9, <1>10, <1>11, <1>12, <1>13, <1>14, <1>15, <1>16, <1>17, <1>18,
     <1>19, <1>20, ElsewhereSteps
  DEF StartupNext, Advance, StopSteps, StartupTypeOK

-----------------------------------------------------------------------------
(* The theorems.                                                           *)

LEMMA StartupBegins == StartupInit => SInv
<1> SUFFICES ASSUME StartupInit PROVE SInv
  OBVIOUS
<1>1. TypeOK /\ PlaceFits /\ LocksStand
  BY LockBegins DEF StartupInit
<1>2. cast \in Casts /\ cast.old \in Process \cup {Nobody}
  BY StartupAssumption DEF StartupInit, Cast
<1>3. StartupTypeOK
  <2>1. routes \subseteq control
    BY DEF StartupInit
  <2>2. control \subseteq Process /\ {port, socket, stateFile} \subseteq Process \cup {Nobody}
    BY <1>2 DEF StartupInit
  <2>3. /\ at = [p \in Process |-> "out"]
        /\ stops = [p \in Process |-> 0]
        /\ stopping = [p \in Process |-> "no"]
        /\ seen = [p \in Process |-> Nobody]
        /\ untidy = FALSE
    BY DEF StartupInit
  <2>4. /\ at \in [Process -> Places]
        /\ stops \in [Process -> 0..2]
        /\ stopping \in [Process -> {"no", "socket", "listeners", "file"}]
        /\ seen \in [Process -> Process \cup {Nobody}]
    BY <2>3 DEF Places
  <2>5. untidy \in BOOLEAN
    BY <2>3
  <2> QED BY <1>1, <1>2, <2>1, <2>2, <2>4, <2>5 DEF StartupTypeOK
<1>4. LockedWhileStarting
  BY DEF StartupInit, LockedWhileStarting, UnderLock
<1>5. OneDaemon
  <2>1. /\ at = [p \in Process |-> "out"]
        /\ control = {cast.old} \ {Nobody}
        /\ port = cast.old /\ stateFile = cast.old
        /\ stopping = [p \in Process |-> "no"]
    BY DEF StartupInit
  <2> QED BY <1>2, <2>1, StartupAssumption DEF OneDaemon, IsDaemon
<1> QED BY <1>1, <1>3, <1>4, <1>5 DEF SInv

LEMMA StartupStep == SInv /\ [StartupNext]_allVars => SInv'
<1> SUFFICES ASSUME SInv, [StartupNext]_allVars PROVE SInv'
  OBVIOUS
<1>1. TypeOK' /\ PlaceFits'
  BY LockTypes DEF SInv, StartupTypeOK
<1>2. at' \in [Process -> Places] /\ LockedWhileStarting'
  BY PlacesStep DEF SInv, StartupTypeOK
<1>3. WorldTypeOK'
  BY WorldTypes DEF SInv, StartupTypeOK, WorldTypeOK
<1>4. StartupTypeOK'
  BY <1>1, <1>2, <1>3 DEF StartupTypeOK, WorldTypeOK
<1>5. Undisturbed' => LocksStand'
  BY LockUndisturbed, LockStands DEF SInv, StartupTypeOK
<1>6. ASSUME Tidy' PROVE OneDaemon'
  <2>1. Tidy
    BY <1>6, TidyBefore DEF SInv
  <2> QED BY <1>4, <1>6, <2>1, OneDaemonStep DEF SInv, Tidy, Undisturbed
<1> QED BY <1>1, <1>2, <1>4, <1>5, <1>6 DEF SInv

\* The inductive invariant of the coordination of startups.
THEOREM StartupInvariance == StartupSpec => []SInv
BY StartupBegins, StartupStep, PTL DEF StartupSpec

\* The state of the coordination keeps its types.
THEOREM StartupTypeCorrect == StartupSpec => []StartupTypeOK
<1>1. SInv => StartupTypeOK
  BY DEF SInv
<1> QED BY <1>1, StartupInvariance, PTL

\* Whoever gets as far as starting a daemon is alone: whatever is left of
\* another daemon's stop is over, however many processes call and stop.
THEOREM StartsAloneAlways == StartupSpec => []StartsAlone
<1>1. SInv => StartsAlone
  <2> SUFFICES ASSUME SInv, Tidy, NEW p \in Process
               PROVE  /\ at[p] = "bind4" => port = Nobody
                      /\ at[p] \in {"bind4", "bind6", "listen"} => control = {} /\ stateFile = Nobody
    BY DEF StartsAlone
  <2>1. OneDaemon /\ StartupTypeOK
    BY DEF SInv
  <2>2. CASE at[p] = "bind4"
    <3>1. \A d \in Process : ~IsDaemon(d)
      BY <2>1, <2>2 DEF OneDaemon
    <3>2. port = Nobody /\ stateFile = Nobody
      BY <2>1, <3>1 DEF OneDaemon, StartupTypeOK
    <3>3. control = {}
      BY <2>1, <3>1 DEF IsDaemon, StartupTypeOK
    <3> QED BY <3>2, <3>3
  <2>3. CASE at[p] \in {"bind6", "listen"}
    <3>1. p \notin control /\ stateFile = Nobody
      BY <2>1, <2>3 DEF OneDaemon
    <3>2. \A d \in Process : IsDaemon(d) => d = p
      BY <2>1, <2>3 DEF OneDaemon, IsDaemon
    <3>3. control = {}
      BY <2>1, <3>1, <3>2 DEF IsDaemon, StartupTypeOK
    <3> QED BY <2>3, <3>1, <3>3
  <2> QED BY <2>2, <2>3
<1> QED BY <1>1, StartupInvariance, PTL

\* A daemon that goes on keeps its state file.
THEOREM StateKept == StartupSpec => KeepsItsState
<1> DEFINE Kept == Tidy' => \A d \in control \cap control' : stateFile = d => stateFile' = d
<1>1. ASSUME SInv, [StartupNext]_allVars PROVE Kept
  <2> SUFFICES ASSUME Tidy', NEW d \in control, d \in control', stateFile = d
               PROVE  stateFile' = d
    OBVIOUS
  <2>1. StartupTypeOK /\ LockedWhileStarting /\ TypeOK /\ at \in [Process -> Places]
    BY <1>1 DEF SInv, StartupTypeOK
  <2>2. OneDaemon /\ ~untidy' /\ d \in Process
    BY <1>1, <2>1, TidyBefore DEF SInv, Tidy, StartupTypeOK
  <2>3. ASSUME NEW p \in Process, RenameState(p) PROVE stateFile' = d
    <3>1. p \in control /\ stateFile' = p
      BY <2>2, <2>3 DEF RenameState, OneDaemon
    <3> QED BY <2>2, <3>1 DEF OneDaemon, IsDaemon
  <2>4. ASSUME NEW p \in Process, StartInterrupted(p) PROVE FALSE
    BY <2>2, <2>4 DEF StartInterrupted, OneDaemon
  <2>5. ASSUME NEW e \in Process, StopAgain(e) PROVE FALSE
    BY <2>2, <2>5 DEF StopAgain
  <2>6. ASSUME NEW e \in Process, RemoveState(e) PROVE FALSE
    <3>1. stopping[e] = "file" /\ IsDaemon(e) /\ IsDaemon(d) /\ stopping[d] = "no"
      BY <2>2, <2>6 DEF RemoveState, OneDaemon, IsDaemon
    <3>2. e = d
      BY <2>2, <3>1 DEF OneDaemon
    <3> QED BY <3>1, <3>2
  <2>7. ASSUME NEW p \in Process,
               \/ BindIPv4(p) \/ BindIPv6(p) \/ BindFails(p) \/ Listen(p) \/ ListenFails(p)
               \/ WriteState(p) \/ WriteFails(p) \/ End(p)
               \/ Signal(p) \/ BeginStop(p) \/ RemoveSocket(p) \/ CloseListeners(p) \/ RoutesChange(p)
        PROVE  stateFile' = stateFile
    BY <2>7 DEF BindIPv4, BindIPv6, BindFails, Listen, ListenFails, WriteState, WriteFails, End,
                Signal, BeginStop, RemoveSocket, CloseListeners, RoutesChange, world
  <2>8. ASSUME NEW p \in Process, ProbeAnswered(p) \/ AskGranted(p) PROVE stateFile' = stateFile
    BY <2>1, <2>8, AskingSteps
  <2>9. ASSUME UNCHANGED world \/ TimePasses \/ UNCHANGED allVars PROVE stateFile' = stateFile
    BY <2>9 DEF TimePasses, world, allVars, svars
  <2> QED
    BY <1>1, <2>1, <2>3, <2>4, <2>5, <2>6, <2>7, <2>8, <2>9, ElsewhereSteps, StartupAssumption
    DEF StartupNext, Advance, StopSteps
<1> QED BY <1>1, StartupInvariance, PTL DEF KeepsItsState, StartupSpec

\* The state that ensureRunning returns is the one of the daemon that answered,
\* or that daemon has begun to stop.
THEOREM AnswerReturned == StartupSpec => ReturnsWhatAnswered
<1> DEFINE Returned == Tidy => \A p \in Process :
                         ReturnState(p) => stateFile = seen[p] \/ seen[p] \notin control
<1>1. SInv => Returned
  <2> SUFFICES ASSUME SInv, Tidy, NEW p \in Process, ReturnState(p), seen[p] \in control
               PROVE  stateFile = seen[p]
    OBVIOUS
  <2>1. OneDaemon /\ StartupTypeOK
    BY DEF SInv
  <2>2. stateFile # Nobody
    BY DEF ReturnState
  <2>3. stateFile \in Process /\ IsDaemon(stateFile)
    BY <2>1, <2>2 DEF OneDaemon, StartupTypeOK
  <2>4. seen[p] \in Process /\ IsDaemon(seen[p])
    BY <2>1 DEF IsDaemon, StartupTypeOK
  <2> QED BY <2>1, <2>3, <2>4 DEF OneDaemon
<1> QED BY <1>1, StartupInvariance, PTL DEF ReturnsWhatAnswered
=============================================================================
