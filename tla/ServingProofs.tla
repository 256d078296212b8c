---------------------------- MODULE ServingProofs ----------------------------
(***************************************************************************)
(* How a routed host is served, for any set of hosts, commands, exchanges  *)
(* and upstreams.                                                          *)
(*                                                                         *)
(* RouteCertificates keeps its types, serves every routed host by its      *)
(* policy, and imports all or nothing.  The commands and the daemon meet   *)
(* in one place: a read of a file, which may give anything.  So there are  *)
(* two invariants, one for each side.                                      *)
(*                                                                         *)
(* ProxyExchange keeps its types, answers every client once, and tears     *)
(* down both sides together.  The two share no state.                      *)
(***************************************************************************)
EXTENDS RouteCertificates, ProxyExchange, TLAPS

Files(F) == [F -> Command \cup {None}]

\* What CertificatesTypeOK leaves open: that asked and got hold functions.
RequestTypes ==
  \E D \in SUBSET Host :
    /\ asked \in [D -> BOOLEAN]
    /\ round \in [D -> Rounds]
    /\ got \in [D -> UNION {Files(F) : F \in SUBSET Part}]

ImportTypes ==
  /\ duty \in Duties
  /\ stage \in [Command -> {"start", "written", "aside", "swapped", "restore", "removing",
                            "done", "failed"}]
  /\ stored \in [Host -> Directory \cup {None}]
  /\ aside \in [Command -> Directory \cup {None}]
  /\ lost \in BOOLEAN

DaemonTypes ==
  /\ RequestTypes
  /\ contexts \in [Listener -> [Host -> Context \cup {None}]]
  /\ routes \in [Host -> BOOLEAN \cup {None}]
  /\ requests \in 0..MaxRequests
  /\ partly \in BOOLEAN

\* How far the reading for a host can be, given its policy.
Reading(h) ==
  /\ round[h] = "local" => Policy(h, asked[h]) = "local" /\ DOMAIN got[h] = {}
  /\ round[h] \in {"find", "read"} => Policy(h, asked[h]) = "imported"
  /\ round[h] = "ready" =>
       \/ Policy(h, asked[h]) = "local" /\ DOMAIN got[h] = {}
       \/ /\ Policy(h, asked[h]) = "imported"
          /\ DOMAIN got[h] = {"key", "chain"} /\ got[h]["key"] \in Command

\* The contexts of a host are alike, and a routed one has the context of its policy.
ServedWell(h) ==
  /\ contexts["ipv4"][h] = contexts["ipv6"][h]
  /\ routes[h] # None =>
       contexts["ipv4"][h] \in (IF Policy(h, routes[h]) = "imported" THEN Command ELSE {"local"})

DaemonInv ==
  /\ DaemonTypes
  /\ \A h \in DOMAIN asked : Reading(h)
  /\ ~partly => \A h \in Host : ServedWell(h)

\* A directory is whole or missing, in its place and aside.
AllWhole ==
  /\ \A h \in Host : stored[h] = None \/ IsWhole(stored[h])
  /\ \A c \in Command : aside[c] = None \/ IsWhole(aside[c])

\* A host that has had its import and has no directory: a command that is between
\* its two renames has the directory, and has yet to move one in or back.
Imported(h) == \E c \in Command : Of(c) = h /\ duty[c].does = "import" /\ stage[c] \in {"done", "swapped"}

InHands(h) == \E c \in Command : Of(c) = h /\ stage[c] \in {"aside", "restore"} /\ aside[c] # None

\* What holds until a removal or a kill between the renames.
Kept ==
  /\ \A c \in Command : stage[c] # "removing"
  /\ AllWhole
  /\ \A h \in Host : Imported(h) /\ stored[h] = None => InHands(h)

ImportInv == ImportTypes /\ (~lost => Kept)

Changes(c) ==
  \/ Prepare(c) \/ MoveAside(c) \/ MoveIn(c) \/ MoveInFails(c) \/ DropBackup(c)
  \/ DropFails(c) \/ Restore(c)
  \/ FindToRemove(c) \/ RemoveFile(c) \/ RemoveDirectory(c) \/ Kill(c)

DaemonStep ==
  \/ Ask \/ Reject \/ Register \/ RegisterFails
  \/ \E h \in Host : ReadFile(h) \/ EndRound(h) \/ MakeLocal(h) \/ Unregister(h)

-----------------------------------------------------------------------------
(* The commands.                                                           *)

LEMMA DutyIsOfAHost ==
  ASSUME duty \in Duties, NEW c \in Command
  PROVE  Of(c) \in Host
  BY CertificatesAssumption DEF Of, Duty

LEMMA WholeIsADirectory ==
  ASSUME NEW c \in Command
  PROVE  Whole(c) \in Directory /\ IsWhole(Whole(c)) /\ Whole(c) # None
<1>1. Whole(c) \in [Part -> Command]
  BY DEF Whole
<1>2. Whole(c) # None
  BY <1>1, CertificatesAssumption
<1> QED BY <1>1, <1>2 DEF IsWhole, Directory

LEMMA ChangeKeepsTypes ==
  ASSUME ImportTypes, NEW c \in Command, Changes(c)
  PROVE  ImportTypes'
<1> USE DutyIsOfAHost, WholeIsADirectory DEF ImportTypes, Stage, Directory
<1>1. CASE Prepare(c)          BY <1>1 DEF Prepare
<1>2. CASE MoveAside(c)        BY <1>2 DEF MoveAside
<1>3. CASE MoveIn(c)           BY <1>3 DEF MoveIn
<1>4. CASE MoveInFails(c)      BY <1>4 DEF MoveInFails
<1>5. CASE DropBackup(c)       BY <1>5 DEF DropBackup
<1>6. CASE DropFails(c)        BY <1>6 DEF DropFails
<1>7. CASE Restore(c)          BY <1>7 DEF Restore
<1>8. CASE FindToRemove(c)     BY <1>8 DEF FindToRemove
<1>9. CASE RemoveFile(c)
  <2>1. PICK f \in Part : stored[Of(c)][f] # None /\ stored' = [stored EXCEPT ![Of(c)][f] = None]
    BY <1>9 DEF RemoveFile
  <2>2. stored[Of(c)] \in Directory
    BY <1>9, <2>1 DEF RemoveFile, Free
  <2>3. [stored[Of(c)] EXCEPT ![f] = None] \in Directory
    BY <2>1, <2>2
  <2>4. stored' \in [Host -> Directory \cup {None}]
    BY <2>1, <2>3
  <2> QED BY <1>9, <2>4 DEF RemoveFile
<1>10. CASE RemoveDirectory(c) BY <1>10 DEF RemoveDirectory
<1>11. CASE Kill(c)            BY <1>11 DEF Kill
<1> QED BY <1>1, <1>2, <1>3, <1>4, <1>5, <1>6, <1>7, <1>8, <1>9, <1>10, <1>11 DEF Changes

\* What has been lost stays lost.
LEMMA LostStays ==
  ASSUME ImportTypes, NEW c \in Command, Changes(c), ~lost'
  PROVE  ~lost
  BY DEF Changes, Prepare, MoveAside, MoveIn, MoveInFails, DropBackup, DropFails, Restore,
         FindToRemove, RemoveFile, RemoveDirectory, Kill, ImportTypes

\* A removal that is going on has lost something.
LEMMA NothingIsRemoved ==
  ASSUME ImportTypes, Kept, NEW c \in Command, Changes(c), ~lost'
  PROVE  \A d \in Command : stage'[d] # "removing"
<1> USE DEF ImportTypes, Kept, Stage
<1>1. CASE Prepare(c)          BY <1>1 DEF Prepare
<1>2. CASE MoveAside(c)        BY <1>2 DEF MoveAside
<1>3. CASE MoveIn(c)           BY <1>3 DEF MoveIn
<1>4. CASE MoveInFails(c)      BY <1>4 DEF MoveInFails
<1>5. CASE DropBackup(c)       BY <1>5 DEF DropBackup
<1>6. CASE DropFails(c)        BY <1>6 DEF DropFails
<1>7. CASE Restore(c)          BY <1>7 DEF Restore
<1>8. CASE FindToRemove(c)     BY <1>8 DEF FindToRemove
<1>9. CASE RemoveFile(c)       BY <1>9 DEF RemoveFile
<1>10. CASE RemoveDirectory(c) BY <1>10 DEF RemoveDirectory
<1>11. CASE Kill(c)            BY <1>11 DEF Kill
<1> QED BY <1>1, <1>2, <1>3, <1>4, <1>5, <1>6, <1>7, <1>8, <1>9, <1>10, <1>11 DEF Changes

\* Where the directories are after a change: each is missing, or is as a whole one.
LEMMA DirectoriesStayWhole ==
  ASSUME ImportTypes, Kept, NEW c \in Command, Changes(c), ~lost'
  PROVE  AllWhole'
<1> USE DutyIsOfAHost DEF ImportTypes, Kept, Stage, AllWhole
<1>1. CASE Prepare(c)          BY <1>1 DEF Prepare, IsWhole, Whole
<1>2. CASE MoveAside(c)        BY <1>2 DEF MoveAside, IsWhole, Whole
<1>3. CASE MoveIn(c)           BY <1>3, WholeIsADirectory DEF MoveIn, IsWhole, Whole
<1>4. CASE MoveInFails(c)      BY <1>4 DEF MoveInFails, IsWhole, Whole
<1>5. CASE DropBackup(c)       BY <1>5 DEF DropBackup, IsWhole, Whole
<1>6. CASE DropFails(c)        BY <1>6 DEF DropFails, IsWhole, Whole
<1>7. CASE Restore(c)
  <2>1. CASE aside[c] # None /\ Free(Of(c))
    <3>1. \A h \in Host : stored'[h] = stored[h] \/ stored'[h] = aside[c]
      BY <1>7, <2>1 DEF Restore
    <3>2. \A d \in Command : aside'[d] = aside[d] \/ aside'[d] = None
      BY <1>7, <2>1 DEF Restore
    <3> QED BY <3>1, <3>2 DEF IsWhole
  <2>2. CASE ~(aside[c] # None /\ Free(Of(c)))
    BY <1>7, <2>2 DEF Restore, IsWhole
  <2> QED BY <2>1, <2>2
<1>8. CASE FindToRemove(c)     BY <1>8 DEF FindToRemove, IsWhole, Whole
<1>9. CASE RemoveFile(c)       BY <1>9 DEF RemoveFile
<1>10. CASE RemoveDirectory(c) BY <1>10 DEF RemoveDirectory
<1>11. CASE Kill(c)            BY <1>11 DEF Kill, IsWhole, Whole
<1> QED BY <1>1, <1>2, <1>3, <1>4, <1>5, <1>6, <1>7, <1>8, <1>9, <1>10, <1>11 DEF Changes

\* A missing directory of a host that has had its import is in somebody's hands.
LEMMA MissingIsInHands ==
  ASSUME ImportTypes, Kept, NEW c \in Command, Changes(c), ~lost',
         NEW h \in Host, Imported(h)', stored'[h] = None
  PROVE  InHands(h)'
<1> USE DutyIsOfAHost DEF ImportTypes, Kept, Stage, AllWhole, Imported, InHands, Of
<1>1. CASE Prepare(c)          BY <1>1 DEF Prepare
<1>2. CASE MoveAside(c)        BY <1>2 DEF MoveAside
<1>3. CASE MoveIn(c)           BY <1>3, WholeIsADirectory DEF MoveIn
<1>4. CASE MoveInFails(c)      BY <1>4 DEF MoveInFails
<1>5. CASE DropBackup(c)       BY <1>5 DEF DropBackup
<1>6. CASE DropFails(c)        BY <1>6 DEF DropFails
<1>7. CASE Restore(c)
  <2>1. CASE aside[c] # None /\ Free(Of(c))
    <3>1. Of(c) # h
      BY <1>7, <2>1 DEF Restore
    <3>2. stored[h] = None /\ Imported(h)
      BY <1>7, <2>1, <3>1 DEF Restore
    <3>3. PICK d \in Command : Of(d) = h /\ stage[d] \in {"aside", "restore"} /\ aside[d] # None
      BY <3>2
    <3>4. stage'[d] = stage[d] /\ aside'[d] = aside[d]
      BY <1>7, <2>1, <3>1, <3>3 DEF Restore
    <3> QED BY <1>7, <3>3, <3>4 DEF Restore
  <2>2. CASE aside[c] = None
    BY <1>7, <2>2 DEF Restore
  <2>3. CASE ~Free(Of(c))
    <3>1. Of(c) # h
      BY <1>7, <2>3 DEF Restore, Free
    <3> QED BY <1>7, <2>3, <3>1 DEF Restore
  <2> QED BY <2>1, <2>2, <2>3
<1>8. CASE FindToRemove(c)     BY <1>8 DEF FindToRemove
<1>9. CASE RemoveFile(c)       BY <1>9 DEF RemoveFile
<1>10. CASE RemoveDirectory(c) BY <1>10 DEF RemoveDirectory
<1>11. CASE Kill(c)            BY <1>11 DEF Kill
<1> QED BY <1>1, <1>2, <1>3, <1>4, <1>5, <1>6, <1>7, <1>8, <1>9, <1>10, <1>11 DEF Changes

LEMMA ChangeKeepsImportInv ==
  ASSUME ImportInv, NEW c \in Command, Changes(c)
  PROVE  ImportInv'
<1>1. ImportTypes'
  BY ChangeKeepsTypes DEF ImportInv
<1>2. ASSUME ~lost' PROVE Kept'
  <2>1. ImportTypes /\ Kept
    BY <1>2, LostStays DEF ImportInv
  <2>2. \A d \in Command : stage'[d] # "removing"
    BY <1>2, <2>1, NothingIsRemoved
  <2>3. AllWhole'
    BY <1>2, <2>1, DirectoriesStayWhole
  <2>4. \A h \in Host : Imported(h)' /\ stored'[h] = None => InHands(h)'
    BY <1>2, <2>1, MissingIsInHands
  <2> QED BY <2>2, <2>3, <2>4 DEF Kept
<1> QED BY <1>1, <1>2 DEF ImportInv

LEMMA ImportInvWhenUnchanged ==
  ASSUME ImportInv, UNCHANGED importVars
  PROVE  ImportInv'
  BY DEF ImportInv, importVars, ImportTypes, Kept, AllWhole, Imported, InHands, Of, IsWhole

-----------------------------------------------------------------------------
(* The daemon.                                                             *)

\* A reading that ends has what it asked for.
LEMMA ReadingEnds ==
  ASSUME NEW h \in DOMAIN asked, DaemonTypes, round[h] = "read",
         DOMAIN got[h] = FilesOf(round[h]), None \notin Range(got[h])
  PROVE  DOMAIN got[h] = {"key", "chain"} /\ got[h]["key"] \in Command
<1>1. DOMAIN got[h] = {"key", "chain"}
  BY DEF FilesOf
<1>2. PICK F \in SUBSET Part : got[h] \in Files(F)
  BY DEF DaemonTypes, RequestTypes
<1>3. got[h]["key"] \in Command \cup {None}
  BY <1>1, <1>2 DEF Files
<1>4. got[h]["key"] # None
  BY <1>1 DEF Range
<1> QED BY <1>1, <1>3, <1>4

\* A step of the daemon keeps what is known of the readings.
LEMMA AskKeepsReading ==
  ASSUME DaemonTypes, Ask
  PROVE  RequestTypes' /\ \A h \in DOMAIN asked' : Reading(h)'
<1>1. PICK D \in SUBSET Host : asked' \in [D -> BOOLEAN]
  BY DEF Ask
<1>2. round' \in [D -> Rounds]
  BY <1>1 DEF Ask, Rounds
<1>3. [f \in {} |-> None] \in Files({})
  BY DEF Files
<1>4. got' \in [D -> UNION {Files(F) : F \in SUBSET Part}]
  BY <1>1, <1>3 DEF Ask
<1>5. \A h \in DOMAIN asked' : Reading(h)'
  BY <1>1 DEF Ask, Reading, Policy
<1> QED BY <1>1, <1>2, <1>4, <1>5 DEF RequestTypes

LEMMA ReadFileKeepsReading ==
  ASSUME DaemonTypes, ImportTypes, NEW h \in Host, ReadFile(h), \A g \in DOMAIN asked : Reading(g)
  PROVE  RequestTypes' /\ \A g \in DOMAIN asked' : Reading(g)'
<1>1. PICK D \in SUBSET Host :
         /\ asked \in [D -> BOOLEAN] /\ round \in [D -> Rounds]
         /\ got \in [D -> UNION {Files(F) : F \in SUBSET Part}]
  BY DEF DaemonTypes, RequestTypes
<1>2. PICK f \in Unread(h) :
         got' = [got EXCEPT ![h] =
                   [g \in DOMAIN @ \cup {f} |-> IF g # f THEN @[g]
                                                ELSE IF stored[h] = None THEN None ELSE stored[h][f]]]
  BY DEF ReadFile
<1>3. f \in Part
  BY DEF Unread, FilesOf, Part
<1>4. h \in D /\ round[h] \in {"find", "read"}
  BY <1>1 DEF ReadFile
<1>5. PICK F \in SUBSET Part : got[h] \in Files(F)
  BY <1>1, <1>4
<1>6. (IF stored[h] = None THEN None ELSE stored[h][f]) \in Command \cup {None}
  BY <1>3 DEF ImportTypes, Directory
<1>7. got'[h] \in Files(F \cup {f})
  BY <1>1, <1>2, <1>4, <1>5, <1>6 DEF Files
<1>8. got' \in [D -> UNION {Files(G) : G \in SUBSET Part}]
  <2>1. F \cup {f} \in SUBSET Part
    BY <1>3
  <2> QED BY <1>1, <1>2, <1>4, <1>7, <2>1
<1>9. asked' = asked /\ round' = round
  BY DEF ReadFile
<1>10. ASSUME NEW g \in D PROVE Reading(g)'
  <2>1. CASE g = h
    BY <1>1, <1>4, <1>9, <1>10, <2>1 DEF Reading
  <2>2. CASE g # h
    BY <1>1, <1>2, <1>9, <1>10, <2>2 DEF Reading
  <2> QED BY <2>1, <2>2
<1> QED BY <1>1, <1>8, <1>9, <1>10 DEF RequestTypes

LEMMA EndRoundKeepsReading ==
  ASSUME DaemonTypes, NEW h \in Host, EndRound(h), \A g \in DOMAIN asked : Reading(g)
  PROVE  RequestTypes' /\ \A g \in DOMAIN asked' : Reading(g)'
<1>1. PICK D \in SUBSET Host :
         /\ asked \in [D -> BOOLEAN] /\ round \in [D -> Rounds]
         /\ got \in [D -> UNION {Files(F) : F \in SUBSET Part}]
  BY DEF DaemonTypes, RequestTypes
<1>2. h \in D /\ round[h] \in {"find", "read"} /\ DOMAIN got[h] = FilesOf(round[h])
  BY <1>1 DEF EndRound
<1>3. [f \in {} |-> None] \in Files({})
  BY DEF Files
<1>4. got' \in [D -> UNION {Files(F) : F \in SUBSET Part}]
  BY <1>1, <1>2, <1>3 DEF EndRound
<1>5. asked' = asked
  BY DEF EndRound
<1>6. /\ round' \in [D -> Rounds]
      /\ \A g \in D : g # h => round'[g] = round[g] /\ got'[g] = got[g]
      /\ \/ round'[h] \in {"rejected"}
         \/ round[h] = "find" /\ round'[h] = "read"
         \/ /\ round[h] = "read" /\ round'[h] = "ready" /\ got'[h] = got[h]
            /\ None \notin Range(got[h])
  BY <1>1, <1>2 DEF EndRound, Rounds
<1>7. ASSUME NEW g \in D PROVE Reading(g)'
  <2>1. CASE g # h
    BY <1>1, <1>5, <1>6, <1>7, <2>1 DEF Reading
  <2>2. CASE g = h
    <3>1. Policy(h, asked[h]) = "imported"
      BY <1>1, <1>2 DEF Reading
    <3>2. CASE round'[h] = "ready"
      BY <1>1, <1>2, <1>5, <1>6, <2>2, <3>1, <3>2, ReadingEnds DEF Reading
    <3>3. CASE round'[h] # "ready"
      BY <1>5, <1>6, <2>2, <3>1, <3>3 DEF Reading
    <3> QED BY <3>2, <3>3
  <2> QED BY <2>1, <2>2
<1> QED BY <1>1, <1>4, <1>5, <1>6, <1>7 DEF RequestTypes

LEMMA MakeLocalKeepsReading ==
  ASSUME DaemonTypes, NEW h \in Host, MakeLocal(h), \A g \in DOMAIN asked : Reading(g)
  PROVE  RequestTypes' /\ \A g \in DOMAIN asked' : Reading(g)'
<1>1. PICK D \in SUBSET Host :
         /\ asked \in [D -> BOOLEAN] /\ round \in [D -> Rounds]
         /\ got \in [D -> UNION {Files(F) : F \in SUBSET Part}]
  BY DEF DaemonTypes, RequestTypes
<1>2. /\ h \in D /\ round[h] = "local" /\ asked' = asked /\ got' = got
      /\ round' \in [D -> Rounds] /\ round'[h] \in {"ready", "rejected"}
      /\ \A g \in D : g # h => round'[g] = round[g]
  BY <1>1 DEF MakeLocal, Rounds
<1>3. ASSUME NEW g \in D PROVE Reading(g)'
  BY <1>1, <1>2, <1>3 DEF Reading
<1> QED BY <1>1, <1>2, <1>3 DEF RequestTypes

LEMMA NothingIsBeingRead ==
  ASSUME asked' = Nobody, round' = Nobody, got' = Nobody
  PROVE  RequestTypes' /\ \A g \in DOMAIN asked' : Reading(g)'
<1>1. /\ Nobody \in [{} -> BOOLEAN] /\ Nobody \in [{} -> Rounds]
      /\ Nobody \in [{} -> UNION {Files(F) : F \in SUBSET Part}]
  BY DEF Nobody
<1>2. DOMAIN asked' = {}
  BY DEF Nobody
<1>3. {} \in SUBSET Host
  OBVIOUS
<1> QED BY <1>1, <1>2, <1>3 DEF RequestTypes

\* The context that is made for a host whose files are read is that of its policy.
LEMMA MadeIsOfThePolicy ==
  ASSUME NEW h \in DOMAIN asked, Reading(h), round[h] = "ready"
  PROVE  /\ Made(h) \in Context
         /\ Made(h) \in (IF Policy(h, asked[h]) = "imported" THEN Command ELSE {"local"})
<1>1. CASE Policy(h, asked[h]) = "local" /\ DOMAIN got[h] = {}
  BY <1>1 DEF Made, Context
<1>2. CASE /\ Policy(h, asked[h]) = "imported"
           /\ DOMAIN got[h] = {"key", "chain"} /\ got[h]["key"] \in Command
  BY <1>2 DEF Made, Context
<1> QED BY <1>1, <1>2 DEF Reading

LEMMA ContextsKeepTypes ==
  ASSUME DaemonTypes, \A h \in DOMAIN asked : Reading(h), AllReady,
         NEW hosts \in SUBSET DOMAIN asked, contexts' = WithContexts(hosts)
  PROVE  contexts' \in [Listener -> [Host -> Context \cup {None}]]
<1>1. \A h \in hosts : Made(h) \in Context
  BY MadeIsOfThePolicy DEF AllReady
<1> QED BY <1>1 DEF WithContexts, DaemonTypes

LEMMA RegisterKeepsServing ==
  ASSUME DaemonTypes, \A h \in DOMAIN asked : Reading(h),
         \A h \in Host : ServedWell(h), Register, NEW h \in Host
  PROVE  ServedWell(h)'
<1>1. \A l \in Listener : contexts'[l][h] = IF h \in DOMAIN asked THEN Made(h) ELSE contexts[l][h]
  BY DEF Register, WithContexts
<1>2. routes'[h] = IF h \in DOMAIN asked THEN asked[h] ELSE routes[h]
  BY DEF Register
<1>3. CASE h \in DOMAIN asked
  <2>1. Made(h) \in (IF Policy(h, asked[h]) = "imported" THEN Command ELSE {"local"})
    BY <1>3, MadeIsOfThePolicy DEF Register, AllReady
  <2> QED BY <1>1, <1>2, <1>3, <2>1 DEF ServedWell, Listener
<1>4. CASE h \notin DOMAIN asked
  BY <1>1, <1>2, <1>4 DEF ServedWell, Listener
<1> QED BY <1>3, <1>4

LEMMA DaemonStepKeepsInv ==
  ASSUME DaemonInv, ImportTypes, DaemonStep
  PROVE  DaemonInv'
<1> USE DEF DaemonInv
<1>1. CASE Ask
  <2>1. RequestTypes' /\ \A h \in DOMAIN asked' : Reading(h)'
    BY <1>1, AskKeepsReading
  <2>2. requests' \in 0..MaxRequests
    BY <1>1, CertificatesAssumption DEF Ask, DaemonTypes
  <2> QED BY <1>1, <2>1, <2>2 DEF Ask, DaemonTypes, ServedWell
<1>2. CASE Reject
  BY <1>2, NothingIsBeingRead DEF Reject, Forgotten, DaemonTypes, ServedWell
<1>3. CASE Register
  <2>1. RequestTypes' /\ \A h \in DOMAIN asked' : Reading(h)'
    BY <1>3, NothingIsBeingRead DEF Register, Forgotten
  <2>2. contexts' \in [Listener -> [Host -> Context \cup {None}]]
    BY <1>3, ContextsKeepTypes DEF Register
  <2>3. routes' \in [Host -> BOOLEAN \cup {None}]
    BY <1>3 DEF Register, DaemonTypes, RequestTypes
  <2>4. ~partly' => \A h \in Host : ServedWell(h)'
    BY <1>3, RegisterKeepsServing DEF Register
  <2> QED BY <1>3, <2>1, <2>2, <2>3, <2>4 DEF Register, DaemonTypes
<1>4. CASE RegisterFails
  <2>1. PICK first \in SUBSET {h \in DOMAIN asked : Matches(h)} :
          contexts' = WithContexts(first) /\ partly' = (partly \/ first # {})
    BY <1>4 DEF RegisterFails
  <2>2. RequestTypes' /\ \A h \in DOMAIN asked' : Reading(h)'
    BY <1>4, NothingIsBeingRead DEF RegisterFails, Forgotten
  <2>3. contexts' \in [Listener -> [Host -> Context \cup {None}]]
    BY <1>4, <2>1, ContextsKeepTypes DEF RegisterFails
  <2>4. ASSUME ~partly', NEW h \in Host PROVE ServedWell(h)'
    <3>1. \A l \in Listener : contexts'[l][h] = contexts[l][h]
      BY <2>1, <2>4 DEF WithContexts
    <3> QED BY <1>4, <2>1, <2>4, <3>1 DEF RegisterFails, ServedWell, Listener
  <2>5. partly' \in BOOLEAN
    BY <2>1 DEF DaemonTypes
  <2> QED BY <1>4, <2>2, <2>3, <2>4, <2>5 DEF RegisterFails, DaemonTypes
<1>5. ASSUME NEW h \in Host, ReadFile(h) PROVE DaemonInv'
  BY <1>5, ReadFileKeepsReading DEF ReadFile, DaemonTypes, ServedWell
<1>6. ASSUME NEW h \in Host, EndRound(h) PROVE DaemonInv'
  BY <1>6, EndRoundKeepsReading DEF EndRound, DaemonTypes, ServedWell
<1>7. ASSUME NEW h \in Host, MakeLocal(h) PROVE DaemonInv'
  BY <1>7, MakeLocalKeepsReading DEF MakeLocal, DaemonTypes, ServedWell
<1>8. ASSUME NEW h \in Host, Unregister(h) PROVE DaemonInv'
  BY <1>8 DEF Unregister, DaemonTypes, RequestTypes, Reading, ServedWell
<1> QED BY <1>1, <1>2, <1>3, <1>4, <1>5, <1>6, <1>7, <1>8 DEF DaemonStep

LEMMA DaemonInvWhenUnchanged ==
  ASSUME DaemonInv, UNCHANGED daemonVars
  PROVE  DaemonInv'
  BY DEF DaemonInv, daemonVars, DaemonTypes, RequestTypes, Reading, ServedWell

-----------------------------------------------------------------------------
(* Together.                                                               *)

LEMMA InvHoldsAtFirst == CertificatesInit => ImportInv /\ DaemonInv
<1> SUFFICES ASSUME CertificatesInit PROVE ImportInv /\ DaemonInv
  OBVIOUS
<1>1. ImportInv
  BY DEF CertificatesInit, ImportInv, ImportTypes, Kept, AllWhole, Imported
<1>2. RequestTypes /\ \A h \in DOMAIN asked : Reading(h)
  <2>1. /\ Nobody \in [{} -> BOOLEAN] /\ Nobody \in [{} -> Rounds]
        /\ Nobody \in [{} -> UNION {Files(F) : F \in SUBSET Part}]
    BY DEF Nobody
  <2> QED BY <2>1 DEF CertificatesInit, RequestTypes
<1>3. PICK before \in {None, "local"} :
        /\ contexts = [l \in Listener |-> [h \in Host |-> before]]
        /\ routes = [h \in Host |-> IF before = None THEN None ELSE FALSE]
  BY DEF CertificatesInit
<1>4. DaemonTypes
  <2>1. contexts \in [Listener -> [Host -> Context \cup {None}]]
    BY <1>3 DEF Context
  <2>2. routes \in [Host -> BOOLEAN \cup {None}]
    BY <1>3
  <2>3. requests \in 0..MaxRequests
    <3>1. requests = 0
      BY DEF CertificatesInit
    <3> QED BY <3>1, CertificatesAssumption
  <2>4. partly \in BOOLEAN
    BY DEF CertificatesInit
  <2> QED BY <1>2, <2>1, <2>2, <2>3, <2>4 DEF DaemonTypes
<1>5. \A h \in Host : ServedWell(h)
  BY <1>3 DEF ServedWell, Listener, Policy
<1> QED BY <1>1, <1>2, <1>4, <1>5 DEF DaemonInv

LEMMA InvIsInductive ==
  ImportInv /\ DaemonInv /\ [CertificatesNext]_certificateVars => (ImportInv /\ DaemonInv)'
<1> SUFFICES ASSUME ImportInv, DaemonInv, [CertificatesNext]_certificateVars
             PROVE  ImportInv' /\ DaemonInv'
  OBVIOUS
<1>1. CASE UNCHANGED certificateVars
  BY <1>1, ImportInvWhenUnchanged, DaemonInvWhenUnchanged DEF certificateVars
<1>2. ASSUME NEW c \in Command, Changes(c) PROVE ImportInv' /\ DaemonInv'
  <2>1. UNCHANGED daemonVars
    BY <1>2 DEF Changes, Prepare, MoveAside, MoveIn, MoveInFails, DropBackup, DropFails, Restore,
                FindToRemove, RemoveFile, RemoveDirectory, Kill
  <2> QED BY <1>2, <2>1, ChangeKeepsImportInv, DaemonInvWhenUnchanged
<1>3. CASE DaemonStep
  <2>1. UNCHANGED importVars
    BY <1>3 DEF DaemonStep, Ask, Reject, Register, RegisterFails, ReadFile, EndRound, MakeLocal,
                Unregister
  <2> QED BY <1>3, <2>1, ImportInvWhenUnchanged, DaemonStepKeepsInv DEF ImportInv
<1> QED BY <1>1, <1>2, <1>3 DEF CertificatesNext, Changes, DaemonStep

LEMMA InvAlways == CertificatesSpec => [](ImportInv /\ DaemonInv)
  BY InvHoldsAtFirst, InvIsInductive, PTL DEF CertificatesSpec

\* The state of the certificates keeps its types: what is served, read and moved
\* are certificates, and requests are taken up as often as allowed.
THEOREM CertificatesTypeCorrect == CertificatesSpec => []CertificatesTypeOK
<1>1. ImportInv /\ DaemonInv => CertificatesTypeOK
  <2> SUFFICES ASSUME ImportInv, DaemonInv PROVE CertificatesTypeOK
    OBVIOUS
  <2>1. PICK D \in SUBSET Host :
          /\ asked \in [D -> BOOLEAN] /\ round \in [D -> Rounds]
          /\ got \in [D -> UNION {Files(F) : F \in SUBSET Part}]
    BY DEF DaemonInv, DaemonTypes, RequestTypes
  <2>2. DOMAIN asked \subseteq Host /\ Range(asked) \subseteq BOOLEAN
    BY <2>1 DEF Range
  <2>3. ASSUME NEW h \in DOMAIN got
        PROVE  DOMAIN got[h] \subseteq Part /\ Range(got[h]) \subseteq Command \cup {None}
    <3>1. PICK F \in SUBSET Part : got[h] \in Files(F)
      BY <2>1
    <3> QED BY <3>1 DEF Files, Range
  <2> QED BY <2>1, <2>2, <2>3 DEF CertificatesTypeOK, ImportInv, ImportTypes, DaemonInv, DaemonTypes
<1> QED BY <1>1, InvAlways, PTL

\* For any number of hosts and commands, a routed host is served by its policy, by
\* the same certificate on both addresses (daemon.ts, certificate-policy.ts).
THEOREM ServedByPolicy == CertificatesSpec => []ServesItsPolicy
<1>1. DaemonInv => ServesItsPolicy
  <2> SUFFICES ASSUME DaemonInv, ~partly, NEW h \in Host, routes[h] # None
               PROVE  /\ Served("ipv4", h) = Served("ipv6", h)
                      /\ Served("ipv4", h) \in (IF routes[h] /\ h \notin Automation THEN Command
                                                ELSE {"local"})
    BY DEF ServesItsPolicy
  <2>1. contexts["ipv4"][h] = contexts["ipv6"][h] /\ contexts["ipv4"][h] \in
          (IF Policy(h, routes[h]) = "imported" THEN Command ELSE {"local"})
    BY DEF DaemonInv, ServedWell
  <2>2. contexts["ipv4"][h] # None
    BY <2>1, CertificatesAssumption
  <2>3. Served("ipv4", h) = contexts["ipv4"][h] /\ Served("ipv6", h) = contexts["ipv4"][h]
    BY <2>1, <2>2 DEF Served
  <2> QED BY <2>1, <2>3 DEF Policy
<1> QED BY <1>1, InvAlways, PTL

\* For any number of commands that import next to each other, an import is all or
\* nothing (certificate-import.ts, importCertificate).
THEOREM AllOrNothing == CertificatesSpec => []ImportIsAllOrNothing
<1>1. ImportInv => ImportIsAllOrNothing
  <2> SUFFICES ASSUME ImportInv, ~lost, NEW h \in Host,
                      \E c \in Command : Of(c) = h /\ duty[c].does = "import" /\ stage[c] = "done",
                      \A c \in Command : Of(c) = h => stage[c] \notin {"aside", "restore"}
               PROVE  IsWhole(stored[h])
    BY DEF ImportIsAllOrNothing
  <2>1. Imported(h) /\ ~InHands(h)
    BY DEF Imported, InHands
  <2>2. stored[h] # None
    BY <2>1 DEF ImportInv, Kept
  <2> QED BY <2>2 DEF ImportInv, Kept, AllWhole
<1> QED BY <1>1, InvAlways, PTL

-----------------------------------------------------------------------------

\* How the two sides of an exchange stand to each other.
Sides(e) ==
  /\ client[e] = "absent" => reply[e] = "none" /\ upstream[e] = "none"
  /\ Gone(e) => reply[e] \in {"ended", "cut"}
  /\ Gone(e) /\ upstream[e] = "asked" => leftEarly[e]
  /\ upstream[e] = "asked" => reply[e] = "none" \/ Gone(e)
  /\ upstream[e] = "draining" => reply[e] \in {"ended", "cut"}

\* A status line goes out once, and changes the reply.
Counted(e) == reply[e] = "none" => answers[e] = 0

ExchangeInv ==
  /\ ExchangeTypeOK
  /\ \A e \in Exchange : Sides(e) /\ Counted(e)
  /\ AnsweredOnce
  /\ TornDownTogether

\* The invariant, told of one exchange at a time.
OneExchange(e) ==
  /\ Sides(e) /\ Counted(e)
  /\ answers[e] <= 1
  /\ upstream[e] = "streaming" => client[e] # "gone" \/ (kind[e] \notin OfHttp2 /\ leftEarly[e])
  /\ upstream[e] = "closed" => reply[e] \in {"ended", "cut"}

LEMMA InvByExchange == ExchangeInv <=> ExchangeTypeOK /\ \A e \in Exchange : OneExchange(e)
  BY DEF ExchangeInv, OneExchange, AnsweredOnce, TornDownTogether

\* At first nobody has come.
LEMMA ExchangeHoldsAtFirst == ExchangeInit => ExchangeInv
<1> SUFFICES ASSUME ExchangeInit PROVE ExchangeTypeOK /\ \A e \in Exchange : OneExchange(e)
  BY InvByExchange
<1>1. ExchangeTypeOK
  BY ExchangeAssumption DEF ExchangeInit, ExchangeTypeOK
<1>2. ASSUME NEW e \in Exchange PROVE OneExchange(e)
  <2>1. client[e] = "absent" /\ upstream[e] = "none" /\ reply[e] = "none" /\ answers[e] = 0
    BY DEF ExchangeInit
  <2> QED BY <2>1 DEF OneExchange, Sides, Counted, Gone
<1> QED BY <1>1, <1>2

\* An event of one exchange, and what it leaves of the others.
Event(e) ==
  \/ Arrive(e) \/ ClientSent(e) \/ ClientLeaves(e)
  \/ UpstreamAnswers(e) \/ UpstreamRejects(e) \/ UpstreamFails(e) \/ UpstreamEnds(e)

LEMMA EventKeepsTypes ==
  ASSUME ExchangeTypeOK, NEW e \in Exchange, Event(e)
  PROVE  ExchangeTypeOK'
<1> USE ExchangeAssumption DEF ExchangeTypeOK, Kind
<1>1. CASE Arrive(e)
  BY <1>1 DEF Arrive, SendDiagnostic, Respond
<1>2. CASE ClientSent(e)
  BY <1>2 DEF ClientSent
<1>3. CASE ClientLeaves(e)
  BY <1>3 DEF ClientLeaves
<1>4. CASE UpstreamAnswers(e)
  BY <1>4 DEF UpstreamAnswers, Respond
<1>5. CASE UpstreamRejects(e)
  BY <1>5 DEF UpstreamRejects, SendDiagnostic, Respond, Close
<1>6. CASE UpstreamFails(e)
  BY <1>6 DEF UpstreamFails, SendDiagnostic, Respond, Cut, Close
<1>7. CASE UpstreamEnds(e)
  BY <1>7 DEF UpstreamEnds, Cut, Close
<1> QED BY <1>1, <1>2, <1>3, <1>4, <1>5, <1>6, <1>7 DEF Event

\* No event touches another exchange.
LEMMA EventIsOfOne ==
  ASSUME ExchangeTypeOK, NEW e \in Exchange, Event(e), NEW other \in Exchange \ {e}
  PROVE  /\ kind'[other] = kind[other] /\ client'[other] = client[other]
         /\ upstream'[other] = upstream[other] /\ reply'[other] = reply[other]
         /\ answers'[other] = answers[other] /\ leftEarly'[other] = leftEarly[other]
<1> USE DEF ExchangeTypeOK, SendDiagnostic, Respond, Cut, Close
<1>1. CASE Arrive(e)          BY <1>1 DEF Arrive
<1>2. CASE ClientSent(e)      BY <1>2 DEF ClientSent
<1>3. CASE ClientLeaves(e)    BY <1>3 DEF ClientLeaves
<1>4. CASE UpstreamAnswers(e) BY <1>4 DEF UpstreamAnswers
<1>5. CASE UpstreamRejects(e) BY <1>5 DEF UpstreamRejects
<1>6. CASE UpstreamFails(e)   BY <1>6 DEF UpstreamFails
<1>7. CASE UpstreamEnds(e)    BY <1>7 DEF UpstreamEnds
<1> QED BY <1>1, <1>2, <1>3, <1>4, <1>5, <1>6, <1>7 DEF Event

\* An event keeps the invariant of its own exchange.
LEMMA EventKeepsItsOwn ==
  ASSUME ExchangeTypeOK, NEW e \in Exchange, OneExchange(e), Event(e)
  PROVE  OneExchange(e)'
<1> USE ExchangeAssumption DEF ExchangeTypeOK, OneExchange, Sides, Counted, Gone
<1>1. CASE Arrive(e)
  BY <1>1 DEF Arrive, SendDiagnostic, Respond
<1>2. CASE ClientSent(e)
  BY <1>2 DEF ClientSent
<1>3. CASE ClientLeaves(e)
  BY <1>3 DEF ClientLeaves
<1>4. CASE UpstreamAnswers(e)
  BY <1>4 DEF UpstreamAnswers, Respond, CannotRespond
<1>5. CASE UpstreamRejects(e)
  BY <1>5 DEF UpstreamRejects, SendDiagnostic, Respond, Close
<1>6. CASE UpstreamFails(e)
  BY <1>6 DEF UpstreamFails, SendDiagnostic, Respond, Cut, Close
<1>7. CASE UpstreamEnds(e)
  BY <1>7 DEF UpstreamEnds, Cut, Close
<1> QED BY <1>1, <1>2, <1>3, <1>4, <1>5, <1>6, <1>7 DEF Event

LEMMA ExchangeIsInductive == ExchangeInv /\ [ExchangeNext]_exchangeVars => ExchangeInv'
<1> SUFFICES ASSUME ExchangeInv, [ExchangeNext]_exchangeVars
             PROVE  ExchangeTypeOK' /\ \A other \in Exchange : OneExchange(other)'
  BY DEF ExchangeInv, OneExchange, AnsweredOnce, TornDownTogether
<1>1. ExchangeTypeOK /\ \A other \in Exchange : OneExchange(other)
  BY InvByExchange
<1>2. CASE UNCHANGED exchangeVars
  BY <1>1, <1>2 DEF exchangeVars, ExchangeTypeOK, OneExchange, Sides, Counted, Gone
<1>3. CASE ChangeRoute
  BY <1>1, <1>3 DEF ChangeRoute, ExchangeTypeOK, OneExchange, Sides, Counted, Gone
<1>4. ASSUME NEW e \in Exchange, Event(e)
      PROVE  ExchangeTypeOK' /\ \A other \in Exchange : OneExchange(other)'
  <2>1. ExchangeTypeOK'
    BY <1>1, <1>4, EventKeepsTypes
  <2>2. ASSUME NEW other \in Exchange PROVE OneExchange(other)'
    <3>1. CASE other = e
      BY <1>1, <1>4, <3>1, EventKeepsItsOwn
    <3>2. CASE other # e
      <4>1. /\ kind'[other] = kind[other] /\ client'[other] = client[other]
            /\ upstream'[other] = upstream[other] /\ reply'[other] = reply[other]
            /\ answers'[other] = answers[other] /\ leftEarly'[other] = leftEarly[other]
        BY <1>1, <1>4, <3>2, EventIsOfOne
      <4> QED BY <1>1, <4>1 DEF OneExchange, Sides, Counted, Gone
    <3> QED BY <3>1, <3>2
  <2> QED BY <2>1, <2>2
<1> QED BY <1>2, <1>3, <1>4 DEF ExchangeNext, Event

LEMMA ExchangeAlways == ExchangeSpec => []ExchangeInv
  BY ExchangeHoldsAtFirst, ExchangeIsInductive, PTL DEF ExchangeSpec

\* The state of the exchanges keeps its types, and only a routed upstream is
\* ever asked (proxy-server.ts).
THEOREM ExchangeTypeCorrect == ExchangeSpec => []ExchangeTypeOK
<1>1. ExchangeInv => ExchangeTypeOK
  BY DEF ExchangeInv
<1> QED BY <1>1, ExchangeAlways, PTL

\* A client is sent one status line, for any number of exchanges
\* (sendDiagnostic, respondHttp2Stream).
THEOREM OneAnswer == ExchangeSpec => []AnsweredOnce
<1>1. ExchangeInv => AnsweredOnce
  BY DEF ExchangeInv
<1> QED BY <1>1, ExchangeAlways, PTL

\* The two sides of an exchange go together, for any number of exchanges
\* (handleRequest, handleUpgrade, handleHttp2Stream).
THEOREM TearDown == ExchangeSpec => []TornDownTogether
<1>1. ExchangeInv => TornDownTogether
  BY DEF ExchangeInv
<1> QED BY <1>1, ExchangeAlways, PTL

==============================================================================
