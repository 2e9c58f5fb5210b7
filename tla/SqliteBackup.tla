---------------------------- MODULE SqliteBackup ----------------------------
\* Offline backup and restore of the SQLite deployment,
\* src/persistence/sqlite/backup.rs.  A snapshot pairs the database with
\* the request-log spool: an accepted request event lives in the spool
\* until it is ingested into the database, so a pair that is not one
\* instant loses billed events.  The gateway, the administrator commands
\* (database only) and the backup exclude each other by file locks only.
\*
\* A snapshot's files may be damaged at any time, also while it is being
\* restored; backup and restore may die between any two steps.
EXTENDS Integers

CONSTANTS
    Events,         \* request events
    Snapshots,      \* snapshot directories
    Restorers,      \* restore commands, all with the same destination
    MaxRevision,    \* bound: administrator commits
    MaxDamage       \* bound: damages of snapshot files

VARIABLES
    db,             \* committed database: events and revision
    spool,          \* events in the spool
    accepted,       \* events ever accepted
    locks,          \* locks[l]: holder of the database or spool locks
    gateway,        \* the gateway is running
    admin,          \* an administrator command is running
    backup,         \* the backup command: step and snapshot
    snap,           \* snap[s]: files of the snapshot
    must,           \* must[s]: events accepted when its manifest was written
    restore,        \* restore[r]: step, snapshot and staging directory
    dest,           \* content of the restore destination
    damage          \* damages so far

vars == <<db, spool, accepted, locks, gateway, admin, backup, snap, must,
          restore, dest, damage>>

Nothing == [none |-> TRUE]
Free == "free"
Idle == "idle"

NoFiles == [dir |-> FALSE, main |-> Nothing, wal |-> Nothing, spool |-> Nothing,
            damaged |-> {}, manifest |-> Nothing]
NoBackup == [step |-> Idle, at |-> CHOOSE s \in Snapshots : TRUE]
NoRestore == [step |-> Idle, at |-> CHOOSE s \in Snapshots : TRUE, files |-> Nothing]

Init ==
    /\ db = [events |-> {}, rev |-> 0]
    /\ spool = {} /\ accepted = {}
    /\ locks = [l \in {"db", "spool"} |-> Free]
    /\ gateway = FALSE /\ admin = FALSE
    /\ backup = NoBackup
    /\ snap = [s \in Snapshots |-> NoFiles]
    /\ must = [s \in Snapshots |-> {}]
    /\ restore = [r \in Restorers |-> NoRestore]
    /\ dest = Nothing /\ damage = 0

--------------------
\* The writers the snapshot must exclude.

\* serve: the database is claimed first, the spool opened after it.
GatewayStart ==
    /\ ~gateway
    /\ \A l \in DOMAIN locks : locks[l] = Free
    /\ gateway' = TRUE
    /\ locks' = [l \in DOMAIN locks |-> "gateway"]
    /\ UNCHANGED <<db, spool, accepted, admin, backup, snap, must, restore, dest, damage>>

\* The gateway's request log: accepted into the spool, ingested into the
\* database, then acknowledged; a stop or a crash may come between.
Accept(e) ==
    /\ gateway /\ e \notin accepted
    /\ accepted' = accepted \cup {e}
    /\ spool' = spool \cup {e}
    /\ UNCHANGED <<db, locks, gateway, admin, backup, snap, must, restore, dest, damage>>

Ingest(e) ==
    /\ gateway /\ e \in spool \ db.events
    /\ db' = [db EXCEPT !.events = @ \cup {e}]
    /\ UNCHANGED <<spool, accepted, locks, gateway, admin, backup, snap, must, restore, dest, damage>>

Acknowledge(e) ==
    /\ gateway /\ e \in spool \cap db.events
    /\ spool' = spool \ {e}
    /\ UNCHANGED <<db, accepted, locks, gateway, admin, backup, snap, must, restore, dest, damage>>

GatewayStop ==
    /\ gateway
    /\ gateway' = FALSE
    /\ locks' = [l \in DOMAIN locks |-> IF locks[l] = "gateway" THEN Free ELSE locks[l]]
    /\ UNCHANGED <<db, spool, accepted, admin, backup, snap, must, restore, dest, damage>>

\* bootstrap-admin, reset-admin-password: claim the database, commit, exit.
AdminStart ==
    /\ ~admin
    /\ locks["db"] = Free
    /\ locks' = [locks EXCEPT !["db"] = "admin"]
    /\ admin' = TRUE
    /\ UNCHANGED <<db, spool, accepted, gateway, backup, snap, must, restore, dest, damage>>

AdminCommit ==
    /\ admin
    /\ db.rev < MaxRevision
    /\ db' = [db EXCEPT !.rev = @ + 1]
    /\ UNCHANGED <<spool, accepted, locks, gateway, admin, backup, snap, must, restore, dest, damage>>

AdminExit ==
    /\ admin
    /\ admin' = FALSE
    /\ locks' = [locks EXCEPT !["db"] = IF @ = "admin" THEN Free ELSE @]
    /\ UNCHANGED <<db, spool, accepted, gateway, backup, snap, must, restore, dest, damage>>

--------------------
\* backup::create.

\* The destination is new; verify_database opens, checks and checkpoints the
\* database, and its lease stays with the process after the close.
BackupVerify(s) ==
    /\ backup.step = Idle
    /\ ~snap[s].dir
    /\ locks["db"] = Free
    /\ locks' = [locks EXCEPT !["db"] = "backup"]
    /\ backup' = [step |-> "verified", at |-> s]
    /\ UNCHANGED <<db, spool, accepted, gateway, admin, snap, must, restore, dest, damage>>

\* Mutant of Keeps: the claim ends with the verification.
KeepsSpool == {"spool"}

\* The locks the command keeps while it copies: _owner and the spool's.
Keeps == {"db", "spool"}

\* collect: the spool's locks are taken, or the backup is refused.
BackupCollect ==
    /\ backup.step = "verified"
    /\ IF locks["spool"] = Free
       THEN /\ locks' = [l \in DOMAIN locks |-> IF l \in Keeps THEN "backup" ELSE
                                                IF locks[l] = "backup" THEN Free ELSE locks[l]]
            /\ backup' = [backup EXCEPT !.step = "main"]
            /\ snap' = [snap EXCEPT ![backup.at].dir = TRUE]
       ELSE /\ locks' = [l \in DOMAIN locks |-> IF locks[l] = "backup" THEN Free ELSE locks[l]]
            /\ backup' = NoBackup
            /\ UNCHANGED snap
    /\ UNCHANGED <<db, spool, accepted, gateway, admin, must, restore, dest, damage>>

\* collect: the files of every directory under the spool.
SpoolFiles == spool

After == [main |-> "wal", wal |-> "spool", spool |-> "manifest"]

\* copy_file, one file at a time: the main database, its write-ahead log, the
\* spool's files.
BackupCopy ==
    /\ backup.step \in DOMAIN After
    /\ LET s == backup.at IN
       snap' = CASE backup.step = "main" -> [snap EXCEPT ![s].main = db]
                 [] backup.step = "wal" -> [snap EXCEPT ![s].wal = db]
                 [] OTHER -> [snap EXCEPT ![s].spool = [events |-> SpoolFiles]]
    /\ backup' = [backup EXCEPT !.step = After[@]]
    /\ UNCHANGED <<db, spool, accepted, locks, gateway, admin, must, restore, dest, damage>>

\* The manifest, written last, lists every file with its digest.
BackupManifest ==
    LET s == backup.at IN
    /\ backup.step = "manifest"
    /\ snap' = [snap EXCEPT ![s].manifest =
                  [main |-> snap[s].main, wal |-> snap[s].wal, spool |-> snap[s].spool]]
    /\ must' = [must EXCEPT ![s] = accepted]
    /\ backup' = NoBackup
    /\ locks' = [l \in DOMAIN locks |-> IF locks[l] = "backup" THEN Free ELSE locks[l]]
    /\ UNCHANGED <<db, spool, accepted, gateway, admin, restore, dest, damage>>

BackupDies ==
    /\ backup.step # Idle
    /\ backup' = NoBackup
    /\ locks' = [l \in DOMAIN locks |-> IF locks[l] = "backup" THEN Free ELSE locks[l]]
    /\ UNCHANGED <<db, spool, accepted, gateway, admin, snap, must, restore, dest, damage>>

\* A file of a snapshot changes after its digest was taken.
Damage(s) ==
    /\ damage < MaxDamage
    /\ \E f \in {"main", "spool"} :
         /\ snap[s][f] # Nothing
         /\ snap' = [snap EXCEPT ![s].damaged = @ \cup {f}]
    /\ damage' = damage + 1
    /\ UNCHANGED <<db, spool, accepted, locks, gateway, admin, backup, must, restore, dest>>

--------------------
\* backup::restore.

Files(s) == [main |-> snap[s].main, wal |-> snap[s].wal, spool |-> snap[s].spool]

\* The digests of the snapshot's files are the manifest's.
DigestsAgree(s) == snap[s].damaged = {} /\ Files(s) = snap[s].manifest

\* try_lock_exclusive on the snapshot directory, held to the end.
SnapshotFree(s) ==
    /\ \A r \in Restorers : restore[r].step = Idle \/ restore[r].at # s
    /\ ~(backup.step # Idle /\ backup.at = s)

\* The manifest is there, names exactly the files that are there, and every
\* digest agrees.
Verified(s) == snap[s].manifest # Nothing /\ DigestsAgree(s)

\* The snapshot is locked and verified before anything is created.  (A refused
\* restore changes nothing.)
RestoreVerify(r, s) ==
    /\ restore[r].step = Idle
    /\ dest = Nothing
    /\ SnapshotFree(s)
    /\ Verified(s)
    /\ restore' = [restore EXCEPT ![r] = [step |-> "verified", at |-> s, files |-> Nothing]]
    /\ UNCHANGED <<db, spool, accepted, locks, gateway, admin, backup, snap, must, dest, damage>>

\* copied.sha256 = expected.sha256 for every file.
CopyAgrees(s) == DigestsAgree(s)

\* Everything is copied to a new staging directory; a file that changed since
\* the verification ends the restore.
RestoreCopy(r) ==
    /\ restore[r].step = "verified"
    /\ LET s == restore[r].at IN
       restore' = [restore EXCEPT ![r] =
                     IF CopyAgrees(s) THEN [step |-> "staged", at |-> s,
                                              files |-> [content |-> Files(s), damaged |-> snap[s].damaged]]
                     ELSE NoRestore]
    /\ UNCHANGED <<db, spool, accepted, locks, gateway, admin, backup, snap, must, dest, damage>>

\* verify-sqlite-restore in a child process opens the staged database.
RestoreCheck(r) ==
    /\ restore[r].step = "staged"
    /\ restore' = [restore EXCEPT ![r].step = "checked"]
    /\ UNCHANGED <<db, spool, accepted, locks, gateway, admin, backup, snap, must, dest, damage>>

\* Mutant of Publishable: a plain rename.
PublishableAlways == TRUE

\* RENAME_NOREPLACE: the destination still does not exist.
Publishable == dest = Nothing

\* The staging directory is renamed to the destination, or stays where it is.
RestorePublish(r) ==
    /\ restore[r].step = "checked"
    /\ dest' = IF Publishable
               THEN [from |-> restore[r].at, files |-> restore[r].files] ELSE dest
    /\ restore' = [restore EXCEPT ![r] = NoRestore]
    /\ UNCHANGED <<db, spool, accepted, locks, gateway, admin, backup, snap, must, damage>>

RestoreDies(r) ==
    /\ restore[r].step # Idle
    /\ restore' = [restore EXCEPT ![r] = NoRestore]
    /\ UNCHANGED <<db, spool, accepted, locks, gateway, admin, backup, snap, must, dest, damage>>

Next ==
    \/ GatewayStart \/ GatewayStop \/ AdminStart \/ AdminCommit \/ AdminExit
    \/ \E e \in Events : Accept(e) \/ Ingest(e) \/ Acknowledge(e)
    \/ BackupCollect \/ BackupCopy \/ BackupManifest \/ BackupDies
    \/ \E s \in Snapshots : BackupVerify(s) \/ Damage(s)
    \/ \E r \in Restorers :
         \/ \E s \in Snapshots : RestoreVerify(r, s)
         \/ RestoreCopy(r) \/ RestoreCheck(r) \/ RestorePublish(r) \/ RestoreDies(r)

Spec == Init /\ [][Next]_vars

--------------------
\* Properties.

\* create: the database files of a snapshot with a manifest are of one
\* revision; no administrator command commits between two copies.
SnapshotIsOneRevision ==
    \A s \in Snapshots : LET m == snap[s].manifest IN m # Nothing => m.main = m.wal

\* create: every event accepted when the snapshot was taken is in its database
\* or in its spool: the pair loses no billed request.
SnapshotIsComplete ==
    \A s \in Snapshots : LET m == snap[s].manifest IN
        m # Nothing => must[s] \subseteq m.main.events \cup m.spool.events

\* restore: what stands at the destination is exactly what the manifest of its
\* snapshot describes, whatever happened to the snapshot's files before or
\* during the restore, and whichever command died.
RestoredIsSnapshot ==
    dest # Nothing => dest.files = [content |-> snap[dest.from].manifest, damaged |-> {}]

\* restore: a destination that exists is never replaced, by whichever restore.
DestinationKept == dest # Nothing => dest' = dest

\* What a snapshot and a restore promise together.
BackupSound == SnapshotIsOneRevision /\ SnapshotIsComplete /\ RestoredIsSnapshot

--------------------
\* The inductive invariant behind BackupSound.

Databases == [events: SUBSET Events, rev: Nat]
Contents == [main: Databases \cup {Nothing}, wal: Databases \cup {Nothing},
             spool: [events: SUBSET Events] \cup {Nothing}]
Directories == [dir: BOOLEAN, main: Databases \cup {Nothing}, wal: Databases \cup {Nothing},
                spool: [events: SUBSET Events] \cup {Nothing},
                damaged: SUBSET {"main", "spool"}, manifest: Contents \cup {Nothing}]
Copying == {"main", "wal", "spool", "manifest"}

TypeOK ==
    /\ db \in Databases /\ spool \subseteq Events /\ accepted \subseteq Events
    /\ locks \in [{"db", "spool"} -> {Free, "gateway", "admin", "backup"}]
    /\ gateway \in BOOLEAN /\ admin \in BOOLEAN
    /\ backup \in [step: {"verified"} \cup Copying, at: Snapshots] \cup {NoBackup}
    /\ snap \in [Snapshots -> Directories] /\ must \in [Snapshots -> SUBSET Events]
    /\ restore \in [Restorers ->
          [step: {"verified"}, at: Snapshots, files: {Nothing}] \cup
          [step: {"staged", "checked"}, at: Snapshots,
           files: [content: Contents, damaged: SUBSET {"main", "spool"}]] \cup {NoRestore}]

\* Whoever may write the database or the spool holds its locks.
Excluded ==
    /\ gateway => locks["db"] = "gateway" /\ locks["spool"] = "gateway"
    /\ admin => locks["db"] = "admin"
    /\ backup.step # Idle => locks["db"] = "backup"
    /\ backup.step \in Copying => locks["spool"] = "backup"

\* An accepted event is in the spool until it is in the database.
NothingLost == accepted \subseteq db.events \cup spool

\* What was copied is still what is there.
CopiedIsCurrent ==
    backup.step # Idle =>
      /\ snap[backup.at].manifest = Nothing
      /\ backup.step \in Copying => snap[backup.at].dir
      /\ backup.step \in {"wal", "spool", "manifest"} => snap[backup.at].main = db
      /\ backup.step \in {"spool", "manifest"} => snap[backup.at].wal = db
      /\ backup.step = "manifest" => snap[backup.at].spool = [events |-> spool]

\* A manifest describes the files beside it, and they never change again but by
\* damage.
ManifestDescribes ==
    \A s \in Snapshots : snap[s].manifest # Nothing =>
      /\ snap[s].dir /\ snap[s].manifest = Files(s)
      /\ snap[s].main = snap[s].wal
      /\ must[s] \subseteq snap[s].main.events \cup snap[s].spool.events

\* A restore holds a snapshot with a manifest and has staged what it describes.
StagedIsSnapshot ==
    \A r \in Restorers : restore[r].step # Idle =>
      /\ snap[restore[r].at].manifest # Nothing
      /\ restore[r].step \in {"staged", "checked"} =>
           restore[r].files = [content |-> snap[restore[r].at].manifest, damaged |-> {}]

RestoredStays ==
    dest # Nothing =>
      /\ dest.from \in Snapshots /\ snap[dest.from].manifest # Nothing
      /\ dest.files = [content |-> snap[dest.from].manifest, damaged |-> {}]

BackupInv ==
    /\ TypeOK /\ Excluded /\ NothingLost /\ CopiedIsCurrent /\ ManifestDescribes
    /\ StagedIsSnapshot /\ RestoredStays
=============================================================================
