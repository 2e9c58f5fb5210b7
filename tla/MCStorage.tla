------------------------------ MODULE MCStorage ------------------------------
\* The storage components on small instances: the request-log spool under
\* power loss and under crashes, the migrations of a shared PostgreSQL
\* database, the ownership of a SQLite file, and backup and restore.  They
\* share no state, so a behaviour exercises one of them (`part') and the
\* variables of the others rest.
EXTENDS RequestLogSpool

CONSTANTS
  r1, r2,                  \* request ids, restores
  release, older, branch,  \* binaries with different manifests
  old, new, t1, t2,        \* processes of two releases, the writers of one
  e1, e2, s1, s2           \* events, snapshots

VARIABLES
  part,  \* the component that this behaviour exercises
  \* SchemaMigrations
  applied, sound, advisory, stage, batch, starts,
  \* SqliteOwnership
  at, content, marker, holder, proc, conn, tx, late, fileIds,
  \* SqliteBackup
  db, spool, accepted, locks, gateway, admin, backup, snap, must, restore, dest, damage

\* The release, an older one, and a branch whose third migration is another file.
Manifests ==
  [p \in {release, older, branch} |->
     CASE p = release -> [v \in 1..5 |-> "a"]
       [] p = older -> [v \in 1..3 |-> "a"]
       [] p = branch -> [v \in 1..3 |-> IF v = 3 THEN "b" ELSE "a"]]

\* Crashes that lose nothing written, a database that accepts two frames at once.
SpoolCrash == INSTANCE RequestLogSpool WITH
  Ids <- Ids, MaxUnits <- 3, Threshold <- 2, BatchSize <- 2, QueueCap <- 1,
  PowerLoss <- FALSE, MaxCrashes <- 2, MaxFaults <- 1

\* Three binaries and two barriers; batch 1 ends before the enum value is used.
Schema == INSTANCE SchemaMigrations WITH
  Processes <- {release, older, branch}, Manifest <- Manifests, Barriers <- {2},
  EnumUsers <- {3, 4}, Hooked <- {4, 5}, MaxStarts <- 3, lock <- advisory, pc <- stage

\* Two processes of different releases; the newer one has two writers.
Owner == INSTANCE SqliteOwnership WITH
  Processes <- {old, new}, Tasks <- {t1, t2}, ProcessOf <- [t \in {t1, t2} |-> new],
  Migrations <- [p \in {old, new} |-> IF p = old THEN 1 ELSE 3], MaxIds <- 2,
  MaxReplaced <- 2, ids <- fileIds

\* Two events, one snapshot, two restores into one destination.
Backup == INSTANCE SqliteBackup WITH
  Events <- {e1, e2}, Snapshots <- {s1}, Restorers <- {r1, r2}, MaxRevision <- 1,
  MaxDamage <- 1

\* Two snapshots to restore from.
Restore == INSTANCE SqliteBackup WITH
  Events <- {e1}, Snapshots <- {s1, s2}, Restorers <- {r1, r2}, MaxRevision <- 1,
  MaxDamage <- 1

ASSUME SpoolCrash!SpoolAssumption /\ Schema!ManifestAssumption
ASSUME Owner!OwnershipAssumption

--------------------
\* The variables of a component that is not exercised.
Off == <<>>

schemaVars == <<applied, sound, advisory, stage, batch, starts>>
SchemaOff ==
  /\ applied = Off /\ sound = Off /\ advisory = Off /\ stage = Off /\ batch = Off
  /\ starts = Off

ownerVars == <<at, content, marker, holder, proc, conn, tx, late, fileIds>>
OwnerOff ==
  /\ at = Off /\ content = Off /\ marker = Off /\ holder = Off /\ proc = Off
  /\ conn = Off /\ tx = Off /\ late = Off /\ fileIds = Off

backupVars == <<db, spool, accepted, locks, gateway, admin, backup, snap, must, restore, dest, damage>>
BackupOff ==
  /\ db = Off /\ spool = Off /\ accepted = Off /\ locks = Off /\ gateway = Off
  /\ admin = Off /\ backup = Off /\ snap = Off /\ must = Off /\ restore = Off
  /\ dest = Off /\ damage = Off

allVars == <<part, vars, schemaVars, ownerVars, backupVars>>

SuiteInit ==
  \/ /\ part = "power" /\ Init /\ SchemaOff /\ OwnerOff /\ BackupOff
  \/ /\ part = "crash" /\ SpoolCrash!Init /\ SchemaOff /\ OwnerOff /\ BackupOff
  \/ /\ part = "migrations" /\ Schema!Init /\ Init /\ OwnerOff /\ BackupOff
  \/ /\ part = "owner" /\ Owner!Init /\ Init /\ SchemaOff /\ BackupOff
  \/ /\ part = "backup" /\ Backup!Init /\ Init /\ SchemaOff /\ OwnerOff
  \/ /\ part = "restore" /\ Restore!Init /\ Init /\ SchemaOff /\ OwnerOff

SuiteNext ==
  \/ /\ part = "power" /\ Next
     /\ UNCHANGED <<part, schemaVars, ownerVars, backupVars>>
  \/ /\ part = "crash" /\ SpoolCrash!Next
     /\ UNCHANGED <<part, schemaVars, ownerVars, backupVars>>
  \/ /\ part = "migrations" /\ Schema!Next
     /\ UNCHANGED <<part, vars, ownerVars, backupVars>>
  \/ /\ part = "owner" /\ Owner!Next
     /\ UNCHANGED <<part, vars, schemaVars, backupVars>>
  \/ /\ part = "backup" /\ Backup!Next
     /\ UNCHANGED <<part, vars, schemaVars, ownerVars>>
  \/ /\ part = "restore" /\ Restore!Next
     /\ UNCHANGED <<part, vars, schemaVars, ownerVars>>

SuiteSpec == SuiteInit /\ [][SuiteNext]_allVars

--------------------
\* Crashes of the process alone: what SpoolSound says of power losses holds of
\* them too, after which the directory also opens again; and a SQLite file is
\* written by the process that owns it, keeps its identity, and its history is
\* whole (DatabaseLifetime).
CrashSound ==
  /\ part = "crash" => SpoolCrash!SpoolSound
  /\ part = "owner" => Owner!OwnershipSound

\* Whatever binaries start, stop and crash around one database, its schema is
\* an initial part of one manifest cut at a barrier, no start fails half way,
\* and whoever serves finds its own schema (run_migrations).
SchemaSound == part = "migrations" => Schema!SchemaSound

\* A snapshot is one revision of the database with every event that was accepted
\* before it was taken, in the spool or in the database, and what a restore
\* installs is that snapshot, undamaged.
BackupSound ==
  /\ part = "backup" => Backup!BackupSound
  /\ part = "restore" => Restore!BackupSound

\* Refusing instead of replacing: a binary that is older than the schema never
\* starts to serve, and a restore never replaces a destination that exists.
RefusesToReplace ==
  [][/\ part = "migrations" => Schema!OlderRefuses
     /\ part = "backup" => Backup!DestinationKept
     /\ part = "restore" => Restore!DestinationKept]_allVars
=============================================================================
