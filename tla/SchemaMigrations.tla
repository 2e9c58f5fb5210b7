-------------------------- MODULE SchemaMigrations --------------------------
\* The PostgreSQL migration runner, src/persistence/migrations.rs.  Every
\* gateway process runs it before it serves.  Several processes, built
\* from different commits, may start against one database: an upgrade, a
\* rollback, a branch whose migration 3 is another file.
\*
\* A process takes the session-level advisory lock, then repeats: begin a
\* transaction, read the applied history, apply the pending migrations up
\* to and including the next commit barrier, commit.  A migration whose
\* hook finds data it cannot carry over (an invalid legacy credential, a
\* refused capability cutover) rolls the whole batch back.  PostgreSQL
\* refuses to use an enum value in the transaction that added it, which is
\* what the barriers are for.
EXTENDS Integers, FiniteSets, FiniteSetsExt, FiniteSetTheorems,
        WellFoundedInduction, TLAPS

CONSTANTS
    Processes,      \* gateway processes, one binary each
    Manifest,       \* [Processes -> [1..n -> checksum]]: the embedded migrations
    Barriers,       \* COMMIT_BARRIERS: versions that add an enum value
    EnumUsers,      \* versions whose SQL uses an enum value added earlier
    Hooked,         \* versions whose hook may refuse the stored data
    MaxStarts       \* bound: starts of one process

Nothing == "none"

\* A manifest numbers its migrations from 1 without holes.
ManifestAssumption ==
    /\ Processes # {} /\ Nothing \notin Processes
    /\ Barriers \subseteq Nat
    /\ \A p \in Processes : /\ IsFiniteSet(DOMAIN Manifest[p])
                            /\ DOMAIN Manifest[p] = 1..Cardinality(DOMAIN Manifest[p])

VARIABLES
    applied,        \* committed _sqlx_migrations: [version -> checksum]
    sound,          \* the stored data passes the hooks
    lock,           \* holder of the advisory lock, or Nothing
    pc,             \* pc[p]: "stopped" | "waiting" | "ready" | "applying" |
                    \*        "unlocking" | "serving" | "refused" | "broken"
    batch,          \* batch[p]: versions applied in p's open transaction
    starts          \* starts[p]

vars == <<applied, sound, lock, pc, batch, starts>>

--------------------
\* What the runner reads.

Versions(p) == DOMAIN Manifest[p]

\* validate_applied_migrations: every applied version is one of this binary's.
HistoryKnown(p) == DOMAIN applied \subseteq Versions(p)

\* The pending filter's checksum comparison for versions already applied.
ChecksumsMatch(p) ==
    \A v \in DOMAIN applied \cap Versions(p) : applied[v] = Manifest[p][v]

Pending(p) == Versions(p) \ DOMAIN applied

\* Mutant of NextBatch: each migration commits on its own.
NextBatchSingle(p) == IF Pending(p) = {} THEN {} ELSE {Min(Pending(p))}

\* The pending versions up to and including the first barrier.
NextBatch(p) ==
    LET stops == Pending(p) \cap Barriers
    IN  IF stops = {} THEN Pending(p) ELSE {v \in Pending(p) : v <= Min(stops)}

HasMore(p) == Cardinality(NextBatch(p)) < Cardinality(Pending(p))

--------------------
Init ==
    /\ applied = [v \in {} |-> Nothing]
    /\ sound \in BOOLEAN
    /\ lock = Nothing
    /\ pc = [p \in Processes |-> "stopped"]
    /\ batch = [p \in Processes |-> {}]
    /\ starts = [p \in Processes |-> 0]

\* main.rs: a process starts and asks for a pooled connection.
Start(p) ==
    /\ pc[p] \in {"stopped", "refused"}
    /\ starts[p] < MaxStarts
    /\ pc' = [pc EXCEPT ![p] = "waiting"]
    /\ starts' = [starts EXCEPT ![p] = @ + 1]
    /\ UNCHANGED <<applied, sound, lock, batch>>

\* run_migrations: connection.lock() waits for the session-level lock.
Lock(p) ==
    /\ pc[p] = "waiting"
    /\ lock = Nothing
    /\ lock' = p
    /\ pc' = [pc EXCEPT ![p] = "ready"]
    /\ UNCHANGED <<applied, sound, batch, starts>>

Accepts(p) == HistoryKnown(p) /\ ChecksumsMatch(p)

\* A transaction begins and reads the history it will extend.
Begin(p) ==
    /\ pc[p] = "ready"
    /\ IF Accepts(p)
       THEN /\ pc' = [pc EXCEPT ![p] = "applying"]
            /\ batch' = [batch EXCEPT ![p] = NextBatch(p)]
            /\ UNCHANGED <<lock>>
       ELSE /\ pc' = [pc EXCEPT ![p] = "refused"]
            /\ lock' = Nothing
            /\ UNCHANGED batch
    /\ UNCHANGED <<applied, sound, starts>>

\* The hook of some migration of the batch refuses the data.
HookRefuses(p) == ~sound /\ batch[p] \cap Hooked # {}

\* PostgreSQL's rule (external): an enum value added by a barrier of this very
\* transaction cannot be used in it.
EnumUnusable(p) ==
    \E b \in batch[p] \cap Barriers : \E v \in batch[p] \cap EnumUsers : b < v

\* Another process committed a version of this batch: the primary key of
\* _sqlx_migrations (external) refuses the second row.
Duplicate(p) == batch[p] \cap DOMAIN applied # {}

BatchFails(p) == HookRefuses(p) \/ EnumUnusable(p) \/ Duplicate(p)

\* A migration of the batch fails: the transaction is rolled back and the lock
\* released, in that order; main.rs leaves with the error.
Rollback(p) ==
    /\ pc[p] = "applying"
    /\ BatchFails(p)
    /\ pc' = [pc EXCEPT ![p] = IF HookRefuses(p) THEN "refused" ELSE "broken"]
    /\ batch' = [batch EXCEPT ![p] = {}]
    /\ lock' = Nothing
    /\ UNCHANGED <<applied, sound, starts>>

\* The batch is committed; the loop goes on while versions are pending.
Commit(p) ==
    /\ pc[p] = "applying"
    /\ ~BatchFails(p)
    /\ applied' = [v \in DOMAIN applied \cup batch[p] |->
                     IF v \in DOMAIN applied THEN applied[v] ELSE Manifest[p][v]]
    /\ pc' = [pc EXCEPT ![p] = IF HasMore(p) THEN "ready" ELSE "unlocking"]
    /\ batch' = [batch EXCEPT ![p] = {}]
    /\ UNCHANGED <<sound, lock, starts>>

\* connection.unlock(), then the process goes on to serve.
Unlock(p) ==
    /\ pc[p] = "unlocking"
    /\ lock' = Nothing
    /\ pc' = [pc EXCEPT ![p] = "serving"]
    /\ UNCHANGED <<applied, sound, batch, starts>>

\* The process dies: the connection drops, and with it the open transaction
\* and the session-level lock.
Crash(p) ==
    /\ pc[p] \notin {"stopped", "refused", "broken"}
    /\ pc' = [pc EXCEPT ![p] = "stopped"]
    /\ batch' = [batch EXCEPT ![p] = {}]
    /\ lock' = IF lock = p THEN Nothing ELSE lock
    /\ UNCHANGED <<applied, sound, starts>>

\* The operator repairs the rows the error names.
Repair ==
    /\ ~sound
    /\ sound' = TRUE
    /\ UNCHANGED <<applied, lock, pc, batch, starts>>

Step(p) == Lock(p) \/ Begin(p) \/ Rollback(p) \/ Commit(p) \/ Unlock(p)

Next ==
    \/ Repair
    \/ \E p \in Processes : Start(p) \/ Step(p) \/ Crash(p)

Spec == Init /\ [][Next]_vars

\* A started process runs; another process's lock is handed on by PostgreSQL
\* in queue order, so a waiting process is served even if others come and go.
FairSpec ==
    /\ Spec
    /\ \A p \in Processes : WF_vars(Begin(p) \/ Rollback(p) \/ Commit(p) \/ Unlock(p))
    /\ \A p \in Processes : SF_vars(Lock(p))

--------------------
\* Properties.

\* run_locked_migrations: the stored history is at all times an initial part
\* of one binary's manifest.  No interleaving of different binaries, crashes
\* and refusals ever mixes two manifests or leaves a hole.
OneHistory ==
    \E p \in Processes :
        \E n \in 0..Cardinality(Versions(p)) :
            /\ DOMAIN applied = 1..n
            /\ \A v \in 1..n : applied[v] = Manifest[p][v]

\* apply_next_migration_batch: what is committed ends at a barrier or at the
\* end of some binary's manifest.  The hooks of migrations 64 to 68 rewrite the
\* topology in the same transaction as everything around them, so a refusal or
\* a crash never leaves a database between two of them.
WholeBatches ==
    LET n == Cardinality(DOMAIN applied)
    IN  n \in {0} \cup Barriers \cup {Cardinality(Versions(p)) : p \in Processes}

\* COMMIT_BARRIERS: no run of migrations fails because a new enum value is used
\* before its transaction has committed, nor because two runners apply one
\* version at the same time.
NeverBroken == \A p \in Processes : pc[p] # "broken"

\* run_migrations: a process that serves finds its complete manifest applied,
\* unchanged, whoever applied it; a newer binary may have gone further.
ServesItsSchema ==
    \A p \in Processes :
        pc[p] = "serving" => \A v \in Versions(p) :
            v \in DOMAIN applied /\ applied[v] = Manifest[p][v]

\* Whatever binaries start, stop and crash around one database.
SchemaSound == OneHistory /\ WholeBatches /\ NeverBroken /\ ServesItsSchema

\* validate_applied_migrations: a process that passed its checks never starts to
\* serve on a history that is longer than its manifest: an older binary refuses
\* to start on an upgraded database.
OlderRefuses ==
    \A p \in Processes : pc[p] # "serving" /\ pc'[p] = "serving"
      => DOMAIN applied = Versions(p)

--------------------
\* Proofs, for any number of processes and any manifests.

Places == {"stopped", "waiting", "ready", "applying", "unlocking", "serving",
           "refused", "broken"}
Holding == {"ready", "applying", "unlocking"}

Types == /\ pc \in [Processes -> Places] /\ DOMAIN batch = Processes

\* Who works on the history holds the advisory lock.
LockHeld == \A p \in Processes : pc[p] \in Holding => lock = p

\* The history is complete for p.
Complete(p) == DOMAIN applied = Versions(p) /\ \A v \in Versions(p) : applied[v] = Manifest[p][v]

\* While p holds the lock, what it read stays what is stored.
ReadIsCurrent ==
    \A p \in Processes :
        /\ pc[p] = "applying" => Accepts(p) /\ batch[p] = NextBatch(p)
        /\ pc[p] = "unlocking" => Complete(p)

MigrationInv ==
    /\ Types /\ LockHeld /\ ReadIsCurrent
    /\ OneHistory /\ WholeBatches /\ NeverBroken /\ ServesItsSchema

\* A set of natural numbers has a least one.
LEMMA LeastNatural ==
  ASSUME NEW T, T \subseteq Nat, T # {} PROVE Min(T) \in T /\ \A y \in T : Min(T) <= y
<1> DEFINE R == OpToRel(<, Nat)
<1>1. IsWellFoundedOn(R, Nat) BY NatLessThanWellFounded, Zenon
<1>2. \A x, y \in Nat : <<y, x>> \in R <=> y < x BY DEF OpToRel
<1> HIDE DEF R
<1>3. PICK x \in T : \A y \in T : ~ (<<y, x>> \in R) BY <1>1, WFMin, Zenon
<1>4. ASSUME NEW y \in T PROVE x <= y
  <2>1. x \in Nat /\ y \in Nat OBVIOUS
  <2>2. ~ (y < x) BY <1>2, <1>3, <2>1, Zenon
  <2> QED BY <2>1, <2>2
<1> QED BY <1>4 DEF Min

\* The versions of a binary.
LEMMA VersionsFrom1 ==
  ASSUME ManifestAssumption, NEW p \in Processes
  PROVE  /\ IsFiniteSet(Versions(p)) /\ Cardinality(Versions(p)) \in Nat
         /\ Versions(p) = 1..Cardinality(Versions(p))
BY FS_CardinalityType DEF ManifestAssumption, Versions

\* The next batch continues the history without a hole, up to the next barrier or
\* to the end, and uses no enum value that it adds.
LEMMA BatchIsSegment ==
  ASSUME ManifestAssumption, NEW p \in Processes, NEW n \in Nat,
         DOMAIN applied = 1..n, n <= Cardinality(Versions(p))
  PROVE  /\ NextBatch(p) \subseteq Versions(p) /\ NextBatch(p) \cap DOMAIN applied = {}
         /\ \A b \in NextBatch(p) \cap Barriers : \A v \in NextBatch(p) : v <= b
         /\ \E m \in n..Cardinality(Versions(p)) :
              /\ DOMAIN applied \cup NextBatch(p) = 1..m
              /\ m \in Barriers \/ m = Cardinality(Versions(p))
              /\ ~HasMore(p) => m = Cardinality(Versions(p))
<1> DEFINE N == Cardinality(Versions(p))
           stops == Pending(p) \cap Barriers
<1>1. N \in Nat /\ Versions(p) = 1..N /\ IsFiniteSet(Versions(p)) BY VersionsFrom1
<1>2. Pending(p) = (n + 1)..N BY <1>1 DEF Pending
<1>3. NextBatch(p) = IF stops = {} THEN Pending(p) ELSE {v \in Pending(p) : v <= Min(stops)}
  BY DEF NextBatch
<1>4. stops \subseteq Nat /\ (stops # {} => Min(stops) \in stops /\ \A b \in stops : Min(stops) <= b)
  <2>1. stops \subseteq Nat BY DEF ManifestAssumption
  <2> QED BY <2>1, LeastNatural
<1> HIDE DEF N
<1>5. NextBatch(p) \subseteq Pending(p) /\ Pending(p) \subseteq Versions(p) /\ Pending(p) \cap DOMAIN applied = {}
  BY <1>3 DEF Pending
<1>6. \A b \in NextBatch(p) \cap Barriers : \A v \in NextBatch(p) : v <= b
  <2> SUFFICES ASSUME NEW b \in NextBatch(p) \cap Barriers, NEW v \in NextBatch(p) PROVE v <= b
    OBVIOUS
  <2>1. b \in stops /\ b \in Nat /\ v \in Nat BY <1>1, <1>2, <1>5
  <2>2. v <= Min(stops) /\ Min(stops) <= b /\ Min(stops) \in Nat BY <2>1, <1>3, <1>4
  <2> QED BY <2>1, <2>2
<1>7. ~HasMore(p) => NextBatch(p) = Pending(p)
  <2>1. IsFiniteSet(Pending(p)) /\ NextBatch(p) \in SUBSET Pending(p) BY <1>1, <1>5, FS_Subset
  <2>2. /\ Cardinality(NextBatch(p)) \in Nat /\ Cardinality(Pending(p)) \in Nat
        /\ Cardinality(NextBatch(p)) <= Cardinality(Pending(p))
    BY <2>1, FS_Subset, FS_CardinalityType
  <2>3. Cardinality(Pending(p)) = Cardinality(NextBatch(p)) => Pending(p) = NextBatch(p)
    BY <2>1, FS_Subset
  <2> QED BY <2>2, <2>3 DEF HasMore
<1>8. CASE stops = {}
  <2>1. DOMAIN applied \cup NextBatch(p) = 1..N BY <1>1, <1>2, <1>3, <1>8 DEF N
  <2> QED BY <1>1, <1>5, <1>6, <2>1 DEF N
<1>9. CASE stops # {}
  <2> DEFINE m == Min(stops)
  <2>1. m \in Nat /\ m \in Barriers /\ m \in (n + 1)..N BY <1>2, <1>4, <1>9
  <2>2. NextBatch(p) = {v \in (n + 1)..N : v <= m} BY <1>2, <1>3, <1>9
  <2> HIDE DEF m
  <2>3. DOMAIN applied \cup NextBatch(p) = 1..m BY <1>1, <2>1, <2>2
  <2>4. ~HasMore(p) => m = N
    <3> SUFFICES ASSUME NextBatch(p) = Pending(p) PROVE m = N BY <1>7
    <3>1. N \in (n + 1)..N BY <1>1, <2>1
    <3>2. N \in NextBatch(p) BY <1>2, <3>1
    <3>3. N <= m BY <2>2, <3>2
    <3> QED BY <1>1, <2>1, <3>3
  <2> QED BY <1>1, <1>5, <1>6, <2>1, <2>3, <2>4 DEF N
<1> QED BY <1>8, <1>9

\* A history that a binary accepts is an initial part of its manifest.
LEMMA HistoryFits ==
  ASSUME ManifestAssumption, OneHistory, NEW p \in Processes, Accepts(p)
  PROVE  /\ \E n \in 0..Cardinality(Versions(p)) : DOMAIN applied = 1..n
         /\ \A v \in DOMAIN applied : applied[v] = Manifest[p][v]
<1>1. PICK n \in Nat : DOMAIN applied = 1..n BY VersionsFrom1 DEF OneHistory
<1>3. DOMAIN applied \subseteq Versions(p) /\ \A v \in DOMAIN applied : applied[v] = Manifest[p][v]
  BY DEF Accepts, HistoryKnown, ChecksumsMatch
<1>4. Cardinality(Versions(p)) \in Nat /\ Versions(p) = 1..Cardinality(Versions(p))
  BY VersionsFrom1
<1>5. n \in Nat /\ n <= Cardinality(Versions(p))
  <2>1. n \in Nat OBVIOUS
  <2>2. CASE n = 0 BY <1>4, <2>2
  <2>3. CASE n # 0
    <3>1. n \in 1..n BY <2>1, <2>3
    <3>2. n \in 1..Cardinality(Versions(p)) BY <1>1, <1>3, <1>4, <3>1, Zenon
    <3> QED BY <1>4, <2>1, <3>2
  <2> QED BY <2>1, <2>2, <2>3
<1> QED BY <1>1, <1>3, <1>4, <1>5

\* A commit extends the history in place.
LEMMA CommitExtends ==
  ASSUME ManifestAssumption, MigrationInv, NEW p \in Processes, Commit(p)
  PROVE  /\ OneHistory' /\ WholeBatches'
         /\ DOMAIN applied \subseteq DOMAIN applied'
         /\ \A v \in DOMAIN applied : applied'[v] = applied[v]
         /\ ~HasMore(p) => Complete(p)'
<1>1. Accepts(p) /\ batch[p] = NextBatch(p) BY DEF Commit, MigrationInv, ReadIsCurrent
<1>2. PICK n \in 0..Cardinality(Versions(p)) : DOMAIN applied = 1..n
  BY <1>1, HistoryFits DEF MigrationInv
<1>3. \A v \in DOMAIN applied : applied[v] = Manifest[p][v] BY <1>1, HistoryFits DEF MigrationInv
<1>4. /\ Cardinality(Versions(p)) \in Nat /\ Versions(p) = 1..Cardinality(Versions(p))
      /\ n \in Nat /\ n <= Cardinality(Versions(p))
  BY <1>2, VersionsFrom1
<1>5. PICK m \in n..Cardinality(Versions(p)) :
         /\ DOMAIN applied \cup NextBatch(p) = 1..m
         /\ m \in Barriers \/ m = Cardinality(Versions(p))
         /\ ~HasMore(p) => m = Cardinality(Versions(p))
  BY <1>2, <1>4, BatchIsSegment
<1>6. m \in 0..Cardinality(Versions(p)) /\ m \in Nat BY <1>4, <1>5
<1>7. applied' = [v \in 1..m |-> IF v \in DOMAIN applied THEN applied[v] ELSE Manifest[p][v]]
  BY <1>1, <1>5 DEF Commit
<1>8. DOMAIN applied' = 1..m /\ \A v \in 1..m : applied'[v] = Manifest[p][v] BY <1>3, <1>7
<1>9. OneHistory' BY <1>6, <1>8 DEF OneHistory, Versions
<1>10. Cardinality(1..m) = m BY <1>6, FS_Interval
<1>11. WholeBatches' BY <1>5, <1>8, <1>10 DEF WholeBatches, Versions
<1>12. ~HasMore(p) => Complete(p)' BY <1>4, <1>5, <1>8 DEF Complete, Versions
<1>13. DOMAIN applied \subseteq 1..m BY <1>5
<1> QED BY <1>7, <1>8, <1>9, <1>11, <1>12, <1>13

\* A step of p other than a commit changes nothing that others rely on.
LEMMA StepKeepsRest ==
  ASSUME MigrationInv, NEW p \in Processes,
         Start(p) \/ Lock(p) \/ Begin(p) \/ Rollback(p) \/ Unlock(p) \/ Crash(p)
  PROVE  /\ applied' = applied
         /\ pc' = [pc EXCEPT ![p] = pc'[p]] /\ pc'[p] \in Places
         /\ DOMAIN batch' = Processes
         /\ \A q \in Processes : q # p => batch'[q] = batch[q]
         /\ lock' \in {lock, p} \/ (lock' = Nothing /\ lock = p)
         /\ lock' = lock \/ lock \in {p, Nothing}
         /\ pc'[p] \in Holding => lock' = p
<1> USE DEF MigrationInv, Types, LockHeld, Holding, Places
<1>1. CASE Start(p) BY <1>1 DEF Start
<1>2. CASE Lock(p) BY <1>2 DEF Lock
<1>3. CASE Begin(p) BY <1>3 DEF Begin
<1>4. CASE Rollback(p) BY <1>4 DEF Rollback
<1>5. CASE Unlock(p) BY <1>5 DEF Unlock
<1>6. CASE Crash(p) BY <1>6 DEF Crash
<1> QED BY <1>1, <1>2, <1>3, <1>4, <1>5, <1>6

\* Every step but a commit preserves the invariant.
LEMMA StepQuiet ==
  ASSUME ManifestAssumption, MigrationInv, NEW p \in Processes,
         Start(p) \/ Lock(p) \/ Begin(p) \/ Rollback(p) \/ Unlock(p) \/ Crash(p)
  PROVE  MigrationInv'
<1>1. /\ applied' = applied
      /\ pc' = [pc EXCEPT ![p] = pc'[p]] /\ pc'[p] \in Places
      /\ DOMAIN batch' = Processes
      /\ \A q \in Processes : q # p => batch'[q] = batch[q]
      /\ lock' = lock \/ lock \in {p, Nothing}
      /\ pc'[p] \in Holding => lock' = p
  BY StepKeepsRest
<1>2. \A q \in Processes : q # p => pc'[q] = pc[q] BY <1>1 DEF MigrationInv, Types
<1>3. Types' BY <1>1 DEF MigrationInv, Types
<1>4. LockHeld' BY <1>1, <1>2 DEF MigrationInv, LockHeld, ManifestAssumption
<1>5. OneHistory' /\ WholeBatches' BY <1>1 DEF MigrationInv, OneHistory, WholeBatches, Versions
<1>6. /\ pc'[p] = "applying" => Accepts(p) /\ batch'[p] = NextBatch(p)
      /\ pc'[p] = "unlocking" => Complete(p)
  BY <1>1 DEF MigrationInv, Types, Start, Lock, Begin, Rollback, Unlock, Crash
<1>7. ReadIsCurrent'
  <2> SUFFICES ASSUME NEW q \in Processes
               PROVE  /\ pc'[q] = "applying" => Accepts(q) /\ batch'[q] = NextBatch(q)
                      /\ pc'[q] = "unlocking" => Complete(q)
    BY <1>1 DEF ReadIsCurrent, Accepts, HistoryKnown, ChecksumsMatch, Versions, NextBatch,
      Pending, Complete
  <2> QED BY <1>1, <1>2, <1>6 DEF MigrationInv, ReadIsCurrent
<1>8. pc'[p] # "broken"
  <2>1. CASE Rollback(p)
    <3>1. pc[p] = "applying" /\ batch[p] = NextBatch(p) /\ Accepts(p)
      BY <2>1 DEF Rollback, MigrationInv, ReadIsCurrent
    <3>2. PICK n \in 0..Cardinality(Versions(p)) : DOMAIN applied = 1..n
      BY <3>1, HistoryFits DEF MigrationInv
    <3>3. n \in Nat /\ n <= Cardinality(Versions(p)) /\ Versions(p) \subseteq Nat
      BY <3>2, VersionsFrom1
    <3>4. /\ NextBatch(p) \cap DOMAIN applied = {} /\ NextBatch(p) \subseteq Nat
          /\ \A b \in NextBatch(p) \cap Barriers : \A v \in NextBatch(p) : v <= b
      BY <3>2, <3>3, BatchIsSegment
    <3>5. ~Duplicate(p) BY <3>1, <3>4 DEF Duplicate
    <3>6. ~EnumUnusable(p)
      <4> SUFFICES ASSUME NEW b \in batch[p] \cap Barriers, NEW v \in batch[p] \cap EnumUsers, b < v
                   PROVE  FALSE
        BY DEF EnumUnusable
      <4>1. v <= b /\ b \in Nat /\ v \in Nat BY <3>1, <3>4
      <4> QED BY <4>1
    <3>7. HookRefuses(p) BY <2>1, <3>5, <3>6 DEF Rollback, BatchFails
    <3> QED BY <2>1, <3>7 DEF Rollback, MigrationInv, Types
  <2>2. CASE ~Rollback(p)
    BY <2>2 DEF MigrationInv, Types, NeverBroken, Start, Lock, Begin, Unlock, Crash
  <2> QED BY <2>1, <2>2
<1>9. NeverBroken' BY <1>2, <1>8 DEF MigrationInv, NeverBroken
<1>10. pc'[p] = "serving" => Complete(p)
  BY DEF MigrationInv, Types, ReadIsCurrent, Start, Lock, Begin, Rollback, Unlock, Crash
<1>11. ServesItsSchema'
  <2> SUFFICES ASSUME NEW q \in Processes, pc'[q] = "serving", NEW v \in Versions(q)
               PROVE  v \in DOMAIN applied /\ applied[v] = Manifest[q][v]
    BY <1>1 DEF ServesItsSchema, Versions
  <2>1. CASE q = p BY <1>10, <2>1 DEF Complete
  <2>2. CASE q # p BY <1>2, <2>2 DEF MigrationInv, ServesItsSchema
  <2> QED BY <2>1, <2>2
<1> QED BY <1>3, <1>4, <1>5, <1>7, <1>9, <1>11 DEF MigrationInv

\* A commit preserves the invariant: nobody else is between reading the history
\* and writing it.
LEMMA StepCommit ==
  ASSUME ManifestAssumption, MigrationInv, NEW p \in Processes, Commit(p) PROVE MigrationInv'
<1>1. /\ pc' = [pc EXCEPT ![p] = IF HasMore(p) THEN "ready" ELSE "unlocking"]
      /\ batch' = [batch EXCEPT ![p] = {}] /\ lock' = lock /\ pc[p] = "applying"
  BY DEF Commit
<1>2. lock = p /\ \A q \in Processes : q # p => pc[q] \notin Holding /\ pc'[q] = pc[q]
  BY <1>1 DEF MigrationInv, Types, LockHeld, Holding
<1>3. /\ OneHistory' /\ WholeBatches'
      /\ DOMAIN applied \subseteq DOMAIN applied'
      /\ \A v \in DOMAIN applied : applied'[v] = applied[v]
      /\ ~HasMore(p) => Complete(p)'
  BY CommitExtends
<1>4. pc'[p] \in Holding /\ pc'[p] # "applying" /\ (pc'[p] = "unlocking" => ~HasMore(p))
  BY <1>1 DEF MigrationInv, Types, Holding
<1>5. Types' /\ NeverBroken' BY <1>1, <1>2, <1>4 DEF MigrationInv, Types, Places, NeverBroken
<1>6. LockHeld' BY <1>1, <1>2 DEF LockHeld
<1>7. ReadIsCurrent' BY <1>2, <1>3, <1>4 DEF ReadIsCurrent, Holding
<1>8. ServesItsSchema'
  <2> SUFFICES ASSUME NEW q \in Processes, pc'[q] = "serving", NEW v \in Versions(q)
               PROVE  v \in DOMAIN applied' /\ applied'[v] = Manifest[q][v]
    BY DEF ServesItsSchema, Versions
  <2>1. q # p BY <1>4 DEF Holding
  <2>2. v \in DOMAIN applied /\ applied[v] = Manifest[q][v]
    BY <1>2, <2>1 DEF MigrationInv, ServesItsSchema
  <2> QED BY <1>3, <2>2
<1> QED BY <1>3, <1>5, <1>6, <1>7, <1>8 DEF MigrationInv

\* For any binaries, barriers, crashes and refusals: whoever works on the history
\* holds the lock, and what it read is what is stored.
THEOREM MigrationInvariant ==
  ASSUME ManifestAssumption PROVE Spec => []MigrationInv
<1>1. Init => MigrationInv
  <2> SUFFICES ASSUME Init PROVE MigrationInv OBVIOUS
  <2>1. DOMAIN applied = {} /\ 1..0 = {} /\ Cardinality({}) = 0 BY FS_EmptySet DEF Init
  <2>2. PICK p \in Processes : TRUE BY DEF ManifestAssumption
  <2>3. 0 \in 0..Cardinality(Versions(p)) BY VersionsFrom1
  <2>4. OneHistory BY <2>1, <2>3 DEF OneHistory
  <2>5. WholeBatches BY <2>1 DEF WholeBatches
  <2> QED
    BY <2>4, <2>5 DEF Init, MigrationInv, Types, Places, Holding, LockHeld, ReadIsCurrent,
      NeverBroken, ServesItsSchema
<1>2. MigrationInv /\ [Next]_vars => MigrationInv'
  <2> SUFFICES ASSUME MigrationInv, [Next]_vars PROVE MigrationInv' OBVIOUS
  <2>1. ASSUME UNCHANGED <<applied, lock, pc, batch>> PROVE MigrationInv'
    <3>1. Types' /\ LockHeld' /\ NeverBroken'
      BY <2>1 DEF MigrationInv, Types, LockHeld, NeverBroken
    <3>2. OneHistory' /\ WholeBatches' /\ ServesItsSchema'
      BY <2>1 DEF MigrationInv, OneHistory, WholeBatches, ServesItsSchema, Versions
    <3>3. ASSUME NEW p \in Processes
          PROVE  /\ pc'[p] = "applying" => Accepts(p)' /\ batch'[p] = NextBatch(p)'
                 /\ pc'[p] = "unlocking" => Complete(p)'
      <4>1. Accepts(p)' = Accepts(p) /\ NextBatch(p)' = NextBatch(p) /\ Complete(p)' = Complete(p)
        BY <2>1 DEF Accepts, HistoryKnown, ChecksumsMatch, NextBatch, Pending, Versions, Complete
      <4> QED BY <2>1, <4>1 DEF MigrationInv, ReadIsCurrent
    <3>4. ReadIsCurrent' BY <3>3 DEF ReadIsCurrent
    <3> QED BY <3>1, <3>2, <3>4 DEF MigrationInv
  <2>2. CASE Repair \/ UNCHANGED vars BY <2>1, <2>2 DEF Repair, vars
  <2>3. CASE \E p \in Processes : Start(p) \/ Step(p) \/ Crash(p)
    BY <2>3, StepQuiet, StepCommit DEF Step
  <2> QED BY <2>2, <2>3 DEF Next
<1> QED BY <1>1, <1>2, PTL DEF Spec

\* run_migrations, whatever binaries share the database: the history is an initial
\* part of one manifest and ends at a barrier or at the end of a manifest, no
\* batch fails for want of a barrier, and who serves finds its own schema.
THEOREM SchemaStaysWhole ==
  ASSUME ManifestAssumption PROVE Spec => []SchemaSound
<1>1. MigrationInv => SchemaSound BY DEF MigrationInv, SchemaSound
<1> QED BY <1>1, MigrationInvariant, PTL

\* validate_applied_migrations: an older binary never starts to serve on a history
\* that is longer than its manifest.
THEOREM OlderAlwaysRefuses ==
  ASSUME ManifestAssumption PROVE Spec => [][OlderRefuses]_vars
<1>1. MigrationInv /\ [Next]_vars => [OlderRefuses]_vars
  <2> SUFFICES ASSUME MigrationInv, Next, NEW p \in Processes, pc[p] # "serving", pc'[p] = "serving"
               PROVE  DOMAIN applied = Versions(p)
    BY DEF OlderRefuses
  <2>1. PICK q \in Processes : Start(q) \/ Step(q) \/ Crash(q) BY DEF Next, Repair
  <2>2. Unlock(p)
    BY <2>1 DEF MigrationInv, Types, Start, Step, Crash, Lock, Begin, Rollback, Commit, Unlock
  <2> QED BY <2>2 DEF Unlock, MigrationInv, ReadIsCurrent, Complete
<1> QED BY <1>1, MigrationInvariant, PTL DEF Spec

=============================================================================
