------------------------ MODULE CertificateAuthority ------------------------
(***************************************************************************)
(* The authority that signs the certificates of local hosts, and who       *)
(* writes its files: every process that needs it makes it once             *)
(* (certificates.ts), `service install` copies it from an older namespace  *)
(* (legacy-certificate-migration.ts), `trust` and `untrust` hand it to the *)
(* operating system (trust-store.ts), `clean --ca` removes it (cli.ts).    *)
(* A leaf certificate of one host is made and read beside it.              *)
(*                                                                         *)
(* The authority lock is the lock file of StartupLock, except that a file  *)
(* that vanished while it was looked at counts as abandoned.  An authority *)
(* is told by who made it; a key and a certificate match when they belong  *)
(* to the same one.  Expiry, malformed files and the calls of openssl are  *)
(* left out, except that a call may fail.                                  *)
(***************************************************************************)
EXTENDS StartupLock

CONSTANTS
  Jobs,      \* the assignments of a command to each process
  Tools,     \* the kinds of trust store: "anchors" of a bundle, or a "store" of its own
  Legacy,    \* the authority of the older namespace
  Nothing,   \* there is no such file, record or certificate
  ToolsFail  \* may openssl and the commands of the trust store fail?

Authority == Process \cup {Legacy}

Job == {"ensure", "leaf", "migrate", "trust", "untrust", "clean"}

ASSUME AuthorityAssumption ==
  /\ Depth = 1
  /\ Jobs \subseteq [Process -> Job]
  /\ Tools \subseteq {"anchors", "store"}
  /\ Legacy \notin Process /\ Nothing \notin Authority
  /\ ToolsFail \in BOOLEAN

VARIABLES
  job,        \* per process: the command it runs
  tool,       \* the trust store of this system
  place,      \* per process: where in it
  caKey, caCert, caRecord,   \* whose ca-key.pem, ca.pem and ca.json are there
  authority,  \* per process: the authority it was told, or saw the half of
  marker,     \* is there a mark of an unfinished migration?
  migrator,   \* the process under the migration lock, if any
  leafKey, leafCert, leafChain,  \* the leaf that each file belongs to: who made it, who signed it
  anchors,    \* the authorities whose certificate is among the anchors, or in the store
  trusted,    \* the authorities that the system trusts
  unlinked,   \* per process: the files of the authority it has unlinked
  mixed,      \* history: commands that share no lock overlapped, or a lock was taken away
  torn        \* history: a process died between moving a leaf certificate and its chain

setting == <<job, tool>>
files == <<caKey, caCert, caRecord, marker, migrator>>
leafs == <<leafKey, leafCert, leafChain>>
store == <<anchors, trusted>>
history == <<unlinked, mixed, torn>>
authorityVars == <<vars, setting, place, authority, files, leafs, store, history>>

\* Places under the authority lock, of a migration, of a leaf certificate, and of `clean`.
InLock == {"statCertificate", "statKey", "renameKey", "renameCertificate", "read"}
BeforeMark == {"lookAtAuthority", "select", "mark", "finish", "throw"}
Copying == {"lookForKey", "copyKey", "lookForCertificate", "copyCertificate", "ensure", "unmark"}
Signing == {"leafKey", "leafCertificate", "leafChain"}
AboutLeaf == {"readLeaf", "sign", "checkLeaf", "useLeaf", "serving"} \cup Signing
Cleaning == {"readRecord", "unlink"}

AuthorityPlaces ==
  {"start", "lock", "failed", "done", "anchor", "refresh", "verify", "removeAnchor"}
    \cup InLock \cup BeforeMark \cup Copying \cup AboutLeaf \cup Cleaning

Leaf == [by : Process, signer : Authority]

AuthorityTypeOK ==
  /\ TypeOK
  /\ job \in Jobs
  /\ place \in [Process -> AuthorityPlaces]
  /\ {caKey, caCert, caRecord} \subseteq Authority \cup {Nothing}
  /\ authority \in [Process -> Authority \cup {Nothing}]
  /\ tool \in Tools
  /\ {marker, mixed, torn} \subseteq BOOLEAN
  /\ migrator \in Process \cup {Nothing}
  /\ {leafKey, leafCert, leafChain} \subseteq Leaf \cup {Nothing}
  /\ anchors \subseteq Authority /\ trusted \subseteq Authority
  /\ unlinked \in [Process -> SUBSET {"key", "certificate", "record"}]

AuthorityInit ==
  /\ Init
  /\ job \in Jobs /\ tool \in Tools
  /\ place = [p \in Process |-> "start"]
  /\ caKey = Nothing /\ caCert = Nothing /\ caRecord = Nothing
  /\ authority = [p \in Process |-> Nothing]
  /\ marker = FALSE /\ migrator = Nothing
  /\ leafKey = Nothing /\ leafCert = Nothing /\ leafChain = Nothing
  /\ anchors = {} /\ trusted = {}
  /\ unlinked = [p \in Process |-> {}] /\ mixed = FALSE /\ torn = FALSE

Busy(q) == place[q] \notin {"start", "failed", "done", "serving"}

\* A command of another process is under way, and `clean` is one of the two.
Overlaps(p) == \E q \in Process \ {p} : Busy(q) /\ "clean" \in {job[p], job[q]}

\* p goes from one place to another within its command, holding what it holds.
Move(p, from, to) ==
  place[p] = from /\ place' = [place EXCEPT ![p] = to] /\ UNCHANGED <<vars, setting>>

\* The command of p, or what it does under the lock, is over.
Leave(p, to) ==
  /\ place' = [place EXCEPT ![p] = to]
  /\ EndOperation(p)
  /\ UNCHANGED setting

Throw(p) == Leave(p, "failed")

\* How p goes on when it has the authority.
AndThen(p) ==
  CASE job[p] = "leaf" -> "readLeaf" [] job[p] = "migrate" -> "unmark"
    [] job[p] = "trust" -> "anchor" [] OTHER -> "done"

-----------------------------------------------------------------------------
(* #withAuthorityLock.                                                     *)

\* One daemon at a time makes leaf certificates, of a host once at a time.
Begin(p) ==
  /\ \/ job[p] \in {"ensure", "leaf", "trust"} /\ place[p] = "start"
     \/ place[p] = "ensure"
  /\ job[p] = "leaf" => \A q \in Process \ {p} : job[q] = "leaf" => ~Busy(q)
  /\ Start(p)
  /\ place' = [place EXCEPT ![p] = "lock"]
  /\ mixed' = (mixed \/ Overlaps(p))
  /\ UNCHANGED <<setting, authority, files, leafs, store, unlinked, torn>>

\* Does this step of the lock remove the file of another process that is running?
Steals(p) == file[1] # NoFile /\ file[1].owner \notin exited \cup {p} /\ file'[1] = NoFile

LockSteps(p) ==
  /\ \/ CreateLock(p) \/ LockExists(p) \/ FailWrite(p)
     \/ ReadContents(p) \/ ReadAge(p) \/ Decide(p) \/ ClearStaleLock(p)
  /\ mixed' = (mixed \/ Steals(p))
  /\ UNCHANGED <<setting, place, authority, files, leafs, store, unlinked, torn>>

\* readFile or lstat failed with ENOENT: stale, and unlinked by path.
VanishedIsStale(p) ==
  /\ pc[p] = "inspecting"
  /\ file[1] = NoFile
  /\ contents[p] = "unread" \/ age[p] = "unread"
  /\ Forget(p)
  /\ GoTo(p, "clearing")
  /\ UNCHANGED <<file, held, everOld, setting, place, authority, files, leafs, store, history>>

Enter(p) ==
  /\ WriteLock(p)
  /\ place' = [place EXCEPT ![p] = "statCertificate"]
  /\ UNCHANGED <<setting, authority, files, leafs, store, history>>

\* The lock is released whatever came of it, a failed write included.
Unlock(p) ==
  /\ ReleaseLock(p) \/ RemoveUnwritten(p)
  /\ place' = [place EXCEPT ![p] = IF @ = "lock" THEN "failed" ELSE @]
  /\ mixed' = (mixed \/ Steals(p))
  /\ UNCHANGED <<setting, authority, files, leafs, store, unlinked, torn>>

LockTimeout(p) ==
  /\ pc[p] = "trying"
  /\ GoTo(p, "idle")
  /\ place' = [place EXCEPT ![p] = "failed"]
  /\ UNCHANGED <<file, held, contents, age, everOld, setting, authority, files, leafs, store, history>>

-----------------------------------------------------------------------------
(* #ensureCertificateAuthority, under the lock.                            *)

\* Is there a certificate?  Whose is remembered.
StatCertificate(p) ==
  /\ Move(p, "statCertificate", "statKey")
  /\ authority' = [authority EXCEPT ![p] = caCert]
  /\ UNCHANGED <<files, leafs, store, history>>

\* Mistake to be caught: an incomplete authority is made anew.
RemakeIncomplete(p) ==
  /\ Move(p, "statKey", IF authority[p] # Nothing /\ caKey # Nothing THEN "read" ELSE "renameKey")
  /\ UNCHANGED <<authority, files, leafs, store, history>>

\* Is there a key?  Both: read them.  None: make them.  One: incomplete.
StatKey(p) ==
  /\ place[p] = "statKey"
  /\ CASE authority[p] # Nothing /\ caKey # Nothing -> Move(p, "statKey", "read")
       [] authority[p] = Nothing /\ caKey = Nothing -> Move(p, "statKey", "renameKey")
       [] OTHER -> Throw(p)
  /\ UNCHANGED <<authority, files, leafs, store, history>>

OpensslFails(p) ==
  /\ ToolsFail
  /\ place[p] = "renameKey"
  /\ Throw(p)
  /\ UNCHANGED <<authority, files, leafs, store, history>>

\* Made in a directory of its own, the key is moved into place first.
RenameKey(p) ==
  /\ Move(p, "renameKey", "renameCertificate")
  /\ caKey' = p
  /\ mixed' = (mixed \/ migrator # Nothing \/ marker)
  /\ UNCHANGED <<authority, caCert, caRecord, marker, migrator, leafs, store, unlinked, torn>>

RenameCertificate(p) ==
  /\ Move(p, "renameCertificate", "read")
  /\ caCert' = p
  /\ mixed' = (mixed \/ migrator # Nothing \/ marker)
  /\ UNCHANGED <<authority, caKey, caRecord, marker, migrator, leafs, store, unlinked, torn>>

\* #readCertificateAuthority checks the pair, and writes ca.json.
ReadAuthority(p) ==
  /\ place[p] = "read"
  /\ IF caKey = caCert /\ caKey # Nothing
     THEN /\ caRecord' = caCert
          /\ authority' = [authority EXCEPT ![p] = caCert]
          /\ Leave(p, AndThen(p))
     ELSE Throw(p) /\ UNCHANGED <<caRecord, authority>>
  /\ UNCHANGED <<caKey, caCert, marker, migrator, leafs, store, history>>

-----------------------------------------------------------------------------
(* #ensureLeafCertificate and the reading of what a TLS context is made of. *)

\* Nothing is running under the authority lock any more.
Unlocked(p) == pc[p] = "idle"

\* Mistake to be caught: the key is not compared with the certificate.
LeafIsSigned == leafCert # Nothing /\ leafKey # Nothing /\ leafCert.signer = caCert

LeafIsValid == leafCert # Nothing /\ leafKey = leafCert /\ leafCert.signer = caCert

\* #readLeafCertificate.  A valid certificate may be about to expire.
ReadLeaf(p) ==
  /\ Unlocked(p)
  /\ \/ LeafIsValid /\ Move(p, "readLeaf", "useLeaf")
     \/ Move(p, "readLeaf", "sign")
  /\ UNCHANGED <<authority, files, leafs, store, history>>

\* openssl signs with the key and the certificate that are there by now.
SignLeaf(p) ==
  /\ Move(p, "sign", IF caKey = caCert /\ caKey # Nothing THEN "leafKey" ELSE "failed")
  /\ authority' = [authority EXCEPT ![p] = caCert]
  /\ UNCHANGED <<files, leafs, store, history>>

NewLeaf(p) == [by |-> p, signer |-> authority[p]]

RenameLeafKey(p) ==
  /\ Move(p, "leafKey", "leafCertificate")
  /\ leafKey' = NewLeaf(p)
  /\ UNCHANGED <<authority, files, leafCert, leafChain, store, history>>

RenameLeafCertificate(p) ==
  /\ Move(p, "leafCertificate", "leafChain")
  /\ leafCert' = NewLeaf(p)
  /\ UNCHANGED <<authority, files, leafKey, leafChain, store, history>>

RenameLeafChain(p) ==
  /\ Move(p, "leafChain", "checkLeaf")
  /\ leafChain' = NewLeaf(p)
  /\ UNCHANGED <<authority, files, leafKey, leafCert, store, history>>

\* It is read again: "failed validation" when it is not valid now.
CheckLeaf(p) ==
  /\ Move(p, "checkLeaf", IF LeafIsValid THEN "useLeaf" ELSE "failed")
  /\ UNCHANGED <<authority, files, leafs, store, history>>

\* The key and the chain become a context, which a mismatch prevents.
UseLeaf(p) ==
  /\ Move(p, "useLeaf", IF leafKey = leafChain /\ leafKey # Nothing THEN "serving" ELSE "failed")
  /\ UNCHANGED <<authority, files, leafs, store, history>>

-----------------------------------------------------------------------------
(* migrateAuthority, under the migration lock.  Its lock is taken in one   *)
(* step here; a lock left by a process that has ended is cleared.          *)

LockMigration(p) ==
  /\ job[p] = "migrate" /\ migrator \in exited \cup {Nothing}
  /\ Move(p, "start", "lookAtAuthority")
  /\ migrator' = p
  /\ mixed' = (mixed \/ \E q \in Process : place[q] \in {"renameKey", "renameCertificate"})
  /\ UNCHANGED <<authority, caKey, caCert, caRecord, marker, leafs, store, unlinked, torn>>

\* A complete authority of its own needs no migration, unless one was begun.
LookAtAuthority(p) ==
  /\ Move(p, "lookAtAuthority",
          IF caKey # Nothing /\ caCert # Nothing /\ ~marker THEN "finish" ELSE "select")
  /\ UNCHANGED <<authority, files, leafs, store, history>>

\* Mistake to be caught: the migration is not marked before it copies.
CopyUnmarked(p) ==
  /\ Move(p, "select", "lookForKey")
  /\ UNCHANGED <<authority, files, leafs, store, history>>

\* The older authority validates; once marked it stays the source.
SelectSource(p) ==
  /\ Move(p, "select", IF marker THEN "lookForKey" ELSE "mark")
  /\ UNCHANGED <<authority, files, leafs, store, history>>

\* It does not validate.  With a mark, or half an authority in place, that is an error.
NoSource(p) ==
  /\ ToolsFail
  /\ Move(p, "select",
          IF marker \/ (caKey = Nothing) # (caCert = Nothing) THEN "throw" ELSE "finish")
  /\ UNCHANGED <<authority, files, leafs, store, history>>

Mark(p) ==
  /\ Move(p, "mark", "lookForKey")
  /\ marker' = TRUE
  /\ mixed' = (mixed \/ (caKey = Nothing) # (caCert = Nothing))
  /\ UNCHANGED <<authority, caKey, caCert, caRecord, migrator, leafs, store, unlinked, torn>>

\* copyMissingAuthorityFile, for the key and then for the certificate.
LookForKey(p) ==
  /\ Move(p, "lookForKey", IF caKey # Nothing THEN "lookForCertificate" ELSE "copyKey")
  /\ UNCHANGED <<authority, files, leafs, store, history>>

CopyKey(p) ==
  /\ Move(p, "copyKey", "lookForCertificate")
  /\ caKey' = Legacy
  /\ UNCHANGED <<authority, caCert, caRecord, marker, migrator, leafs, store, history>>

LookForCertificate(p) ==
  /\ Move(p, "lookForCertificate", IF caCert # Nothing THEN "ensure" ELSE "copyCertificate")
  /\ UNCHANGED <<authority, files, leafs, store, history>>

CopyCertificate(p) ==
  /\ Move(p, "copyCertificate", "ensure")
  /\ caCert' = Legacy
  /\ UNCHANGED <<authority, caKey, caRecord, marker, migrator, leafs, store, history>>

Unmark(p) ==
  /\ Unlocked(p)
  /\ Move(p, "unmark", "finish")
  /\ marker' = FALSE
  /\ UNCHANGED <<authority, caKey, caCert, caRecord, migrator, leafs, store, history>>

\* Returned or thrown, the migration lock is released.
UnlockMigration(p) ==
  /\ migrator = p /\ Unlocked(p)
  /\ \/ Move(p, "finish", "done")
     \/ Move(p, "throw", "failed")
     \/ Move(p, "failed", "failed")
  /\ migrator' = Nothing
  /\ UNCHANGED <<authority, caKey, caCert, caRecord, marker, leafs, store, history>>

-----------------------------------------------------------------------------
(* trust, untrust and clean --ca.  A "store" changes and is asked in one   *)
(* command.  "anchors" are files: one is written or removed, the bundle    *)
(* that makes the system trust is refreshed from them, and verify looks    *)
(* for the file.                                                           *)

IsTrusted(record) == record \in anchors

Changed == IF tool = "store" THEN "verify" ELSE "refresh"

\* Mistake to be caught: whatever is at the path is installed.
AnchorAnything(p) ==
  /\ Unlocked(p)
  /\ Move(p, "anchor", Changed)
  /\ anchors' = anchors \cup {caCert}
  /\ trusted' = IF tool = "store" THEN anchors' ELSE trusted
  /\ UNCHANGED <<authority, files, leafs, history>>

AddAnchor(p) ==
  /\ Unlocked(p) /\ caCert # Nothing
  /\ Move(p, "anchor", Changed)
  /\ anchors' = anchors \cup {caCert}
  /\ trusted' = IF tool = "store" THEN anchors' ELSE trusted
  /\ UNCHANGED <<authority, files, leafs, history>>

\* There is no certificate, the store refuses it, or the user does.
ChangeFails(p) ==
  /\ Unlocked(p)
  /\ \/ (ToolsFail \/ caCert = Nothing) /\ Move(p, "anchor", "failed")
     \/ ToolsFail /\ Move(p, "removeAnchor", "failed")
  /\ UNCHANGED <<authority, files, leafs, store, history>>

\* Whom to distrust is what ca.json says.
Untrust(p) ==
  /\ job[p] = "untrust"
  /\ Move(p, "start", IF caRecord = Nothing THEN "done" ELSE "removeAnchor")
  /\ authority' = [authority EXCEPT ![p] = caRecord]
  /\ mixed' = (mixed \/ Overlaps(p))
  /\ UNCHANGED <<files, leafs, store, unlinked, torn>>

RemoveAnchor(p) ==
  /\ Move(p, "removeAnchor", Changed)
  /\ anchors' = anchors \ {authority[p]}
  /\ trusted' = IF tool = "store" THEN anchors' ELSE trusted
  /\ UNCHANGED <<authority, files, leafs, history>>

Refresh(p) ==
  /\ Move(p, "refresh", "verify")
  /\ trusted' = anchors
  /\ UNCHANGED <<authority, files, leafs, anchors, history>>

RefreshFails(p) ==
  /\ ToolsFail
  /\ Move(p, "refresh", "failed")
  /\ UNCHANGED <<authority, files, leafs, store, history>>

VerifyTrust(p) ==
  /\ Move(p, "verify", IF IsTrusted(authority[p]) = (job[p] = "trust") THEN "done" ELSE "failed")
  /\ UNCHANGED <<authority, files, leafs, store, history>>

\* `clean`, when no daemon answers: the leaf certificates go first.
Clean(p) ==
  /\ job[p] = "clean"
  /\ Move(p, "start", "readRecord")
  /\ leafKey' = Nothing /\ leafCert' = Nothing /\ leafChain' = Nothing
  /\ mixed' = (mixed \/ Overlaps(p))
  /\ UNCHANGED <<authority, files, store, unlinked, torn>>

\* It refuses to go on while the authority is trusted.
AskWhetherTrusted(p) ==
  /\ Move(p, "readRecord", IF IsTrusted(caRecord) THEN "failed" ELSE "unlink")
  /\ UNCHANGED <<authority, files, leafs, store, history>>

\* The three files are unlinked side by side.
Unlink(p, which) ==
  /\ which \notin unlinked[p]
  /\ unlinked' = [unlinked EXCEPT ![p] = @ \cup {which}]
  /\ Move(p, "unlink", IF unlinked'[p] = {"key", "certificate", "record"} THEN "done" ELSE "unlink")

UnlinkAuthority(p) ==
  /\ \/ Unlink(p, "key") /\ caKey' = Nothing /\ UNCHANGED <<caCert, caRecord>>
     \/ Unlink(p, "certificate") /\ caCert' = Nothing /\ UNCHANGED <<caKey, caRecord>>
     \/ Unlink(p, "record") /\ caRecord' = Nothing /\ UNCHANGED <<caKey, caCert>>
  /\ UNCHANGED <<authority, marker, migrator, leafs, store, mixed, torn>>

-----------------------------------------------------------------------------

\* The process ends: its command stays half done.
Die(p) ==
  /\ Exit(p)
  /\ place' = [place EXCEPT ![p] = "failed"]
  /\ torn' = (torn \/ place[p] = "leafChain")
  /\ UNCHANGED <<setting, authority, files, leafs, store, unlinked, mixed>>

LockGetsOld == Age(1) /\ UNCHANGED <<setting, place, authority, files, leafs, store, history>>

Acts(p) ==
  \/ Begin(p) \/ LockSteps(p) \/ VanishedIsStale(p) \/ Enter(p) \/ Unlock(p) \/ LockTimeout(p)
  \/ StatCertificate(p) \/ StatKey(p) \/ OpensslFails(p) \/ RenameKey(p)
  \/ RenameCertificate(p) \/ ReadAuthority(p)
  \/ ReadLeaf(p) \/ SignLeaf(p) \/ RenameLeafKey(p) \/ RenameLeafCertificate(p)
  \/ RenameLeafChain(p) \/ CheckLeaf(p) \/ UseLeaf(p)
  \/ LockMigration(p) \/ LookAtAuthority(p) \/ SelectSource(p) \/ NoSource(p) \/ Mark(p)
  \/ LookForKey(p) \/ CopyKey(p) \/ LookForCertificate(p) \/ CopyCertificate(p)
  \/ Unmark(p) \/ UnlockMigration(p)
  \/ AddAnchor(p) \/ ChangeFails(p) \/ Untrust(p) \/ RemoveAnchor(p) \/ Refresh(p)
  \/ RefreshFails(p) \/ VerifyTrust(p)
  \/ Clean(p) \/ AskWhetherTrusted(p) \/ UnlinkAuthority(p)
  \/ Die(p)

AuthorityNext == (\E p \in Process : Acts(p)) \/ LockGetsOld

AuthoritySpec == AuthorityInit /\ [][AuthorityNext]_authorityVars

-----------------------------------------------------------------------------
(* Properties.                                                             *)

\* A key or a certificate of an authority is never replaced by another one, in
\* particular not when a crash has left half of a pair; only `clean` removes it.
\* certificates.spec.ts: "never overwrites an incomplete CA pair".  That holds
\* as long as no lock is taken away from a process that runs, no authority is
\* made during a migration, and no migration finds half an authority.
NeverReplaced ==
  [][~mixed' => /\ caKey \in Authority => caKey' \in {caKey, Nothing}
                /\ caCert \in Authority => caCert' \in {caCert, Nothing}]_authorityVars

\* Wherever a migration was killed, a later one can go on: with the mark there is
\* nothing in place but what it copies, and half of that is never without the mark.
MigrationResumes ==
  ~mixed /\ (\A p \in Process : job[p] # "clean") =>
    /\ marker => {caKey, caCert} \subseteq {Legacy, Nothing}
    /\ caKey # caCert /\ Legacy \in {caKey, caCert} => marker

\* A leaf certificate that was found valid or just made can be used, wherever an
\* earlier daemon was killed, except between the last two of its three files.
LeafCanBeUsed ==
  [][\A p \in Process :
       ~mixed /\ ~torn /\ UseLeaf(p)
         => place'[p] = "serving" /\ leafCert.signer = caCert]_authorityVars

\* README: "`clean --ca` refuses to remove CA files until the exact CA fingerprint
\* is no longer trusted."
RemovesOnlyUntrusted ==
  [][~mixed' /\ caCert # Nothing /\ caCert' = Nothing => caCert \notin trusted]_authorityVars
=============================================================================
