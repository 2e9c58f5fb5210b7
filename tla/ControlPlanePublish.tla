------------------------ MODULE ControlPlanePublish ------------------------
\* The serialized publication of the control plane
\* (application/control_plane.rs) over the prepared changes of
\* persistence/control_plane_write.rs and sqlite/control_plane.rs.
\*
\* Every gateway process has one gate.  Holding it, a management write
\* opens a serializable transaction, checks its actor, applies the
\* mutation, compiles the complete pending configuration, commits change
\* and audit together and then publishes what it compiled; a reload reads,
\* compiles and publishes.  Publication replaces the upstream registry,
\* the routing runtime and the snapshot one after the other while requests
\* go on.  The Console client may disconnect, and so drop the handler at
\* an await; the commit may succeed and its answer be lost; a process may
\* crash and start again.
\*
\* A configuration is [rows, admins]: a few switches that are only jointly
\* valid (Valid) and the users who may administer.  The database is the
\* sequence of configurations committed so far, with who committed them.
EXTENDS Integers, Sequences, TLAPS

CONSTANTS Gateways, Actors, Rows,
          MaxWrites, MaxFaults   \* bounds: committed writes; drops and crashes

VARIABLES db,        \* the committed versions, oldest first
          op,        \* op[g][t]: what the management write or the reload of g does
          registry,  \* registry[g], routing[g], snap[g]: the version each of
          routing,   \*   the three runtimes of g was last reconciled with
          snap,
          faults

vars == <<db, op, registry, routing, snap, faults>>

Tasks == {"write", "reload"}
Latest == Len(db)
Idle == [kind |-> "idle"]

\* What the compilation and validate_candidate accept, in one word: some row is
\* still on.  No single row decides it.
Valid(c) == \E r \in Rows : c.rows[r]

Init ==
  /\ db = <<[config |-> [rows |-> [r \in Rows |-> TRUE], admins |-> Actors], by |-> "bootstrap"]>>
  /\ op = [g \in Gateways |-> [t \in Tasks |-> Idle]]
  /\ registry = [g \in Gateways |-> 1] /\ routing = [g \in Gateways |-> 1]
  /\ snap = [g \in Gateways |-> 1]
  /\ faults = 0

Hold(g, t, o) == op' = [op EXCEPT ![g][t] = o]
Runtimes == <<registry, routing, snap>>

\* The serial mutex of the process.
GateFree(g, t) == op[g] = [u \in Tasks |-> Idle]

--------------------
\* The transactions of management writes.

\* What a write may ask for: a row switched, a user demoted or promoted, or
\* (manual_reload) nothing but the audit entry.
Changes ==
  [what : {"row"}, row : Rows, on : BOOLEAN] \cup [what : {"admin"}, user : Actors, on : BOOLEAN]
    \cup [what : {"nothing"}]

Applied(change, c) ==
  CASE change.what = "row" -> [c EXCEPT !.rows[change.row] = change.on]
    [] change.what = "admin" ->
         [c EXCEPT !.admins = IF change.on THEN @ \cup {change.user} ELSE @ \ {change.user}]
    [] OTHER -> c

\* admin_write: the actor is an active administrator, in the transaction.
AdminWrite(actor, c) == actor \in c.admins

\* The gate is taken and the change prepared on the version the transaction
\* sees; a refused actor rolls back.  A system transition (automatic disable
\* and recovery) has no actor and only switches a row.
Prepare(g, actor) ==
  /\ GateFree(g, "write") /\ Latest <= MaxWrites
  /\ actor # "system" => AdminWrite(actor, db[Latest].config)
  /\ \E change \in Changes :
       /\ actor = "system" => change.what = "row"
       /\ Hold(g, "write", [kind |-> "prepared", change |-> change, base |-> Latest, by |-> actor])
  /\ UNCHANGED <<db, registry, routing, snap, faults>>

\* runtime_records, compile and validate_candidate on the pending records: a
\* candidate that does not compile drops the change.
Compile(g) ==
  LET o == op[g]["write"]
  IN  /\ o.kind = "prepared"
      /\ Hold(g, "write", IF Valid(Applied(o.change, db[o.base].config))
                          THEN [o EXCEPT !.kind = "compiled"] ELSE Idle)
      /\ UNCHANGED <<db, registry, routing, snap, faults>>

\* Mutant of Serializable: the transaction commits whatever came between.
ReadCommitted(o) == TRUE

\* manual_reload writes nothing that anyone reads.
WritesConfig(o) == o.change.what # "nothing"

\* Two writers that have both read the whole configuration conflict: the one that
\* commits second fails.  A manual reload may commit, as if it had come first.
Serializable(o) == WritesConfig(o) => o.base = Latest

Committed(o) ==
  IF WritesConfig(o) THEN Append(db, [config |-> Applied(o.change, db[Latest].config), by |-> o.by])
  ELSE db

Candidate(o) == IF WritesConfig(o) THEN o.base + 1 ELSE o.base

\* Only a successful commit leads to the publication of the candidate.
AfterCommit(o, ok) == IF ok THEN [kind |-> "publish", version |-> Candidate(o)] ELSE Idle

\* change.commit(): audit and change in one transaction; it fails on a conflict
\* or because the database does.
Commit(g) ==
  LET o == op[g]["write"]
  IN  /\ o.kind = "compiled"
      /\ db' = IF Serializable(o) THEN Committed(o) ELSE db
      /\ Hold(g, "write", AfterCommit(o, Serializable(o)))
      /\ UNCHANGED <<registry, routing, snap, faults>>

CommitFails(g) ==
  LET o == op[g]["write"]
  IN  /\ o.kind = "compiled" /\ faults < MaxFaults
      /\ Hold(g, "write", AfterCommit(o, FALSE))
      /\ faults' = faults + 1
      /\ UNCHANGED <<db, registry, routing, snap>>

\* The commit takes effect but its caller never learns: the connection is lost
\* or the handler was dropped while it waited.  Nothing is published.
CommitUnseen(g) ==
  LET o == op[g]["write"]
  IN  /\ o.kind = "compiled" /\ Serializable(o) /\ faults < MaxFaults
      /\ db' = Committed(o)
      /\ Hold(g, "write", Idle)
      /\ faults' = faults + 1
      /\ UNCHANGED Runtimes

\* The handler is dropped, or the database fails, before the commit.
Abandon(g, t) ==
  /\ op[g][t].kind \in {"prepared", "compiled", "loaded"} /\ faults < MaxFaults
  /\ Hold(g, t, Idle)
  /\ faults' = faults + 1
  /\ UNCHANGED <<db, registry, routing, snap>>

--------------------
\* Reloads and publication.

\* reload: the records of one snapshot of the database.
Load(g) ==
  /\ GateFree(g, "reload")
  /\ Hold(g, "reload", [kind |-> "loaded", version |-> Latest])
  /\ UNCHANGED <<db, registry, routing, snap, faults>>

\* A configuration that does not compile keeps the previous snapshot.
CompileLoaded(g) ==
  LET o == op[g]["reload"]
  IN  /\ o.kind = "loaded"
      /\ Hold(g, "reload", IF Valid(db[o.version].config) THEN [o EXCEPT !.kind = "publish"] ELSE Idle)
      /\ UNCHANGED <<db, registry, routing, snap, faults>>

\* publish: registry.reconcile, then update_policy and reconcile of the routing
\* runtime, then replace_snapshot.  It never awaits, so it is never dropped.
PublishRegistry(g, t) ==
  /\ op[g][t].kind = "publish"
  /\ registry' = [registry EXCEPT ![g] = op[g][t].version]
  /\ Hold(g, t, [op[g][t] EXCEPT !.kind = "publishRouting"])
  /\ UNCHANGED <<db, routing, snap, faults>>

PublishRouting(g, t) ==
  /\ op[g][t].kind = "publishRouting"
  /\ routing' = [routing EXCEPT ![g] = op[g][t].version]
  /\ Hold(g, t, [op[g][t] EXCEPT !.kind = "publishSnapshot"])
  /\ UNCHANGED <<db, registry, snap, faults>>

PublishSnapshot(g, t) ==
  /\ op[g][t].kind = "publishSnapshot"
  /\ snap' = [snap EXCEPT ![g] = op[g][t].version]
  /\ Hold(g, t, Idle)
  /\ UNCHANGED <<db, registry, routing, faults>>

\* The process dies and starts again: serve_connected compiles what the
\* database holds before it listens.
Restart(g) ==
  /\ faults < MaxFaults /\ Valid(db[Latest].config)
  /\ op' = [op EXCEPT ![g] = [t \in Tasks |-> Idle]]
  /\ registry' = [registry EXCEPT ![g] = Latest]
  /\ routing' = [routing EXCEPT ![g] = Latest]
  /\ snap' = [snap EXCEPT ![g] = Latest]
  /\ faults' = faults + 1
  /\ UNCHANGED db

--------------------
\* What a process does by itself once the gate is taken.
Progress(g) ==
  \/ Compile(g) \/ Commit(g) \/ CompileLoaded(g)
  \/ \E t \in Tasks : PublishRegistry(g, t) \/ PublishRouting(g, t) \/ PublishSnapshot(g, t)

\* Mutant of Tick: the reloader gives up after the first failure of any kind.
TickOnce(g) == faults = 0 /\ Load(g)

\* ControlPlaneReloader::run: an error is logged and the next tick comes.
Tick(g) == Load(g)

Next ==
  \E g \in Gateways :
    \/ Progress(g) \/ Tick(g) \/ CommitFails(g) \/ CommitUnseen(g) \/ Restart(g)
    \/ \E t \in Tasks : Abandon(g, t)
    \/ \E a \in Actors \cup {"system"} : Prepare(g, a)

Spec == Init /\ [][Next]_vars

\* The reloader ticks for ever and the gate is a fair mutex; a holder goes on.
Fairness == \A g \in Gateways : WF_vars(Progress(g)) /\ SF_vars(Tick(g))

FairSpec == Spec /\ Fairness

--------------------
\* Properties.

\* Every committed configuration compiles, although writers of several
\* processes each validate only their own pending candidate: a restart can
\* always load what it finds.
CommittedCompiles == \A n \in 1 .. Len(db) : Valid(db[n].config)

\* Whoever committed a change was an administrator of the very configuration
\* the change replaced: a demotion in between is never overtaken.
ActorWasActive ==
  \A n \in 2 .. Len(db) : db[n].by # "system" => db[n].by \in db[n - 1].config.admins

\* No runtime of a process is ever given a configuration the database does not
\* hold: neither an uncommitted candidate nor one whose commit failed.
PublishedIsCommitted ==
  \A g \in Gateways : {registry[g], routing[g], snap[g]} \subseteq 1 .. Len(db)

\* A request reads the snapshot and then asks routing and registry: whatever
\* snapshot is visible, both have been reconciled with it or a newer one.
ReconciledFirst ==
  \A g \in Gateways : snap[g] <= routing[g] /\ snap[g] <= registry[g]

\* What is committed compiles, was written by an administrator who still was
\* one, and is what the gateways publish, registries first.
PublishSound ==
  CommittedCompiles /\ ActorWasActive /\ PublishedIsCommitted /\ ReconciledFirst

\* A periodic read never publishes an older configuration over a newer one.
SnapshotMovesForward ==
  \A g \in Gateways : snap'[g] >= snap[g] /\ routing'[g] >= routing[g]

\* A change whose publication was lost - the client left during the commit, the
\* answer did not arrive, another process wrote it - still reaches every
\* process.
ChangesArrive ==
  \A n \in 1 .. MaxWrites + 1 : \A g \in Gateways : (Len(db) >= n) ~> (snap[g] >= n)

--------------------
\* Proofs, for any number of gateways, administrators, rows and faults.

Configs == [rows : [Rows -> BOOLEAN], admins : SUBSET Actors]
Versions == [config : Configs, by : Actors \cup {"system", "bootstrap"}]

\* A sequence of committed versions, each of which compiles and was written by
\* an administrator of the one before it.
Sound(d) ==
  /\ d \in Seq(Versions) /\ Len(d) >= 1
  /\ \A n \in 1 .. Len(d) : Valid(d[n].config)
  /\ \A n \in 2 .. Len(d) : d[n].by # "system" => d[n].by \in d[n - 1].config.admins

Grows(d, e) == Len(d) <= Len(e) /\ \A n \in 1 .. Len(d) : e[n] = d[n]

Publishing == {"loaded", "publish", "publishRouting", "publishSnapshot"}

\* What an operation holds agrees with the versions it was computed from, and is
\* not older than what the runtimes of its process show.
Fits(o, d, reg, rout, sn) ==
  \/ o = Idle
  \/ /\ o \in [kind : {"prepared", "compiled"}, change : Changes, base : 1 .. Len(d),
               by : Actors \cup {"system"}]
     /\ reg <= o.base /\ rout <= o.base /\ sn <= o.base
     /\ o.by # "system" => o.by \in d[o.base].config.admins
     /\ o.kind = "compiled" => Valid(Applied(o.change, d[o.base].config))
  \/ /\ o \in [kind : Publishing, version : 1 .. Len(d)]
     /\ reg <= o.version /\ rout <= o.version /\ sn <= o.version
     /\ o.kind # "loaded" => Valid(d[o.version].config)
     /\ o.kind = "publishRouting" => reg = o.version
     /\ o.kind = "publishSnapshot" => reg = o.version /\ rout = o.version

\* One process: its gate admits one operation, and the snapshot is the last of
\* the three runtimes to move.
Process(x, d, reg, rout, sn) ==
  /\ DOMAIN x = Tasks
  /\ x["write"] = Idle \/ x["reload"] = Idle
  /\ Fits(x["write"], d, reg, rout, sn) /\ Fits(x["reload"], d, reg, rout, sn)
  /\ reg \in 1 .. Len(d) /\ rout \in 1 .. Len(d) /\ sn \in 1 .. Len(d)
  /\ sn <= reg /\ sn <= rout

PublishInv ==
  /\ Sound(db)
  /\ DOMAIN op = Gateways /\ DOMAIN registry = Gateways
  /\ DOMAIN routing = Gateways /\ DOMAIN snap = Gateways
  /\ \A g \in Gateways : Process(op[g], db, registry[g], routing[g], snap[g])

\* A change leads from a configuration to a configuration.
LEMMA AppliedType ==
  ASSUME NEW change \in Changes, NEW c \in Configs PROVE Applied(change, c) \in Configs
<1>1. CASE change.what = "row"
  <2>1. change.row \in Rows /\ change.on \in BOOLEAN BY <1>1 DEF Changes
  <2> QED BY <1>1, <2>1 DEF Applied, Configs
<1>2. CASE change.what = "admin"
  <2>1. change.user \in Actors BY <1>2 DEF Changes
  <2> QED BY <1>2, <2>1 DEF Applied, Configs
<1>3. CASE change.what \notin {"row", "admin"} BY <1>3 DEF Applied
<1> QED BY <1>1, <1>2, <1>3

\* What an operation holds stays right when others commit.
LEMMA FitsGrows ==
  ASSUME NEW o, NEW d, NEW e, NEW reg, NEW rout, NEW sn,
         Len(d) \in Nat, Len(e) \in Nat, Grows(d, e), Fits(o, d, reg, rout, sn)
  PROVE  Fits(o, e, reg, rout, sn)
<1>1. CASE o = Idle BY <1>1 DEF Fits
<1>2. CASE /\ o \in [kind : {"prepared", "compiled"}, change : Changes, base : 1 .. Len(d),
                    by : Actors \cup {"system"}]
           /\ reg <= o.base /\ rout <= o.base /\ sn <= o.base
           /\ o.by # "system" => o.by \in d[o.base].config.admins
           /\ o.kind = "compiled" => Valid(Applied(o.change, d[o.base].config))
  <2>1. o.base \in 1 .. Len(d) /\ o.base \in 1 .. Len(e) /\ e[o.base] = d[o.base]
    BY <1>2 DEF Grows
  <2>2. o \in [kind : {"prepared", "compiled"}, change : Changes, base : 1 .. Len(e),
               by : Actors \cup {"system"}]
    BY <1>2, <2>1
  <2> QED BY <1>2, <2>1, <2>2 DEF Fits
<1>3. CASE /\ o \in [kind : Publishing, version : 1 .. Len(d)]
           /\ reg <= o.version /\ rout <= o.version /\ sn <= o.version
           /\ o.kind # "loaded" => Valid(d[o.version].config)
           /\ o.kind = "publishRouting" => reg = o.version
           /\ o.kind = "publishSnapshot" => reg = o.version /\ rout = o.version
  <2>1. o.version \in 1 .. Len(d) /\ o.version \in 1 .. Len(e) /\ e[o.version] = d[o.version]
    BY <1>3 DEF Grows
  <2>2. o \in [kind : Publishing, version : 1 .. Len(e)] BY <1>3, <2>1
  <2> QED BY <1>3, <2>1, <2>2 DEF Fits
<1> QED BY <1>1, <1>2, <1>3 DEF Fits

\* A process stays right when others commit.
LEMMA ProcessGrows ==
  ASSUME NEW x, NEW d, NEW e, NEW reg, NEW rout, NEW sn,
         Len(d) \in Nat, Len(e) \in Nat, Grows(d, e), Process(x, d, reg, rout, sn)
  PROVE  Process(x, e, reg, rout, sn)
<1>1. Fits(x["write"], e, reg, rout, sn) /\ Fits(x["reload"], e, reg, rout, sn)
  BY FitsGrows DEF Process
<1>2. \A n \in 1 .. Len(d) : n \in 1 .. Len(e) BY DEF Grows
<1> QED BY <1>1, <1>2 DEF Process

\* change.commit() of a transaction that met no conflict: what was compiled is what
\* is committed, and its actor is still an administrator.
LEMMA CommitSound ==
  ASSUME Sound(db), NEW o, NEW reg, NEW rout, NEW sn, Fits(o, db, reg, rout, sn),
         o # Idle, o.kind = "compiled", Serializable(o), WritesConfig(o)
  PROVE  Sound(Committed(o)) /\ Grows(db, Committed(o)) /\ Len(Committed(o)) = o.base + 1
<1> DEFINE v == [config |-> Applied(o.change, db[Latest].config), by |-> o.by]
<1>1. /\ o \in [kind : {"prepared", "compiled"}, change : Changes, base : 1 .. Len(db),
                by : Actors \cup {"system"}]
      /\ o.by # "system" => o.by \in db[o.base].config.admins
      /\ Valid(Applied(o.change, db[o.base].config))
  BY DEF Fits, Publishing
<1>2. o.base = Latest /\ Latest = Len(db) /\ Len(db) \in Nat /\ Len(db) >= 1
  BY DEF Serializable, Latest, Sound
<1>3. o.change \in Changes /\ o.by \in Actors \cup {"system"} BY <1>1
<1>4. db[Latest].config \in Configs
  <2>1. db \in Seq(Versions) /\ Latest \in 1 .. Len(db) BY <1>2 DEF Sound
  <2>2. db[Latest] \in Versions BY <2>1
  <2> QED BY <2>2 DEF Versions
<1>5. v \in Versions BY <1>3, <1>4, AppliedType DEF Versions
<1>6. Valid(v.config) /\ (v.by # "system" => v.by \in db[Len(db)].config.admins) BY <1>1, <1>2
<1>7. Committed(o) = Append(db, v) BY DEF Committed
<1> HIDE DEF v
<1>8. /\ Append(db, v) \in Seq(Versions) /\ Len(Append(db, v)) = Len(db) + 1
      /\ \A n \in 1 .. Len(db) : Append(db, v)[n] = db[n]
      /\ Append(db, v)[Len(db) + 1] = v
  BY <1>5 DEF Sound
<1>9. \A n \in 1 .. Len(db) + 1 : n \in 1 .. Len(db) \/ n = Len(db) + 1 BY <1>2
<1>10. \A n \in 1 .. Len(Append(db, v)) : Valid(Append(db, v)[n].config)
  BY <1>6, <1>8, <1>9 DEF Sound
<1>11. ASSUME NEW n \in 2 .. Len(Append(db, v)), Append(db, v)[n].by # "system"
       PROVE  Append(db, v)[n].by \in Append(db, v)[n - 1].config.admins
  <2>1. n - 1 \in 1 .. Len(db) /\ Append(db, v)[n - 1] = db[n - 1] BY <1>2, <1>8
  <2>2. CASE n = Len(db) + 1 BY <1>2, <1>6, <1>8, <1>11, <2>1, <2>2
  <2>3. CASE n # Len(db) + 1
    <3>1. n \in 2 .. Len(db) /\ n \in 1 .. Len(db) BY <1>2, <1>8, <2>3
    <3> QED BY <1>8, <1>11, <2>1, <3>1 DEF Sound
  <2> QED BY <2>2, <2>3
<1>12. Sound(Append(db, v)) BY <1>2, <1>8, <1>10, <1>11 DEF Sound
<1>13. Grows(db, Append(db, v)) BY <1>2, <1>8 DEF Grows
<1> QED BY <1>2, <1>7, <1>8, <1>12, <1>13

\* An operation that moves on leaves the others alone.
LEMMA HoldEffect ==
  ASSUME PublishInv, NEW g \in Gateways, NEW t \in Tasks, NEW o, Hold(g, t, o)
  PROVE  /\ DOMAIN op' = Gateways /\ DOMAIN op'[g] = Tasks
         /\ op'[g][t] = o /\ \A u \in Tasks : u # t => op'[g][u] = op[g][u]
         /\ \A h \in Gateways : h # g => op'[h] = op[h]
<1>1. DOMAIN op = Gateways /\ DOMAIN op[g] = Tasks BY DEF PublishInv, Process
<1> QED BY <1>1 DEF Hold

\* A step of one process preserves the invariant of the others.
LEMMA OthersKept ==
  ASSUME PublishInv, NEW g \in Gateways, Sound(db'), Grows(db, db'),
         DOMAIN op' = Gateways, DOMAIN registry' = Gateways,
         DOMAIN routing' = Gateways, DOMAIN snap' = Gateways,
         \A h \in Gateways : h # g => /\ op'[h] = op[h] /\ registry'[h] = registry[h]
                                     /\ routing'[h] = routing[h] /\ snap'[h] = snap[h],
         Process(op'[g], db', registry'[g], routing'[g], snap'[g])
  PROVE  PublishInv'
<1>1. Len(db) \in Nat /\ Len(db') \in Nat BY DEF PublishInv, Sound
<1>2. ASSUME NEW h \in Gateways PROVE Process(op'[h], db', registry'[h], routing'[h], snap'[h])
  <2>1. CASE h = g BY <2>1
  <2>2. CASE h # g
    <3>1. Process(op[h], db', registry[h], routing[h], snap[h])
      BY <1>1, ProcessGrows DEF PublishInv
    <3> QED BY <2>2, <3>1
  <2> QED BY <2>1, <2>2
<1> QED BY <1>2 DEF PublishInv

\* A step that publishes nothing preserves the invariant.
LEMMA HoldKeeps ==
  ASSUME PublishInv, NEW g \in Gateways, NEW t \in Tasks, NEW o, Hold(g, t, o),
         Sound(db'), Grows(db, db'), UNCHANGED Runtimes,
         Fits(o, db', registry[g], routing[g], snap[g]),
         o = Idle \/ \A u \in Tasks : u # t => op[g][u] = Idle
  PROVE  PublishInv'
<1>1. /\ DOMAIN op' = Gateways /\ DOMAIN op'[g] = Tasks
      /\ op'[g][t] = o /\ \A u \in Tasks : u # t => op'[g][u] = op[g][u]
      /\ \A h \in Gateways : h # g => op'[h] = op[h]
  BY HoldEffect
<1>2. registry' = registry /\ routing' = routing /\ snap' = snap BY DEF Runtimes
<1>3. Process(op[g], db', registry[g], routing[g], snap[g]) BY ProcessGrows DEF PublishInv, Sound
<1>4. t = "write" \/ t = "reload" BY DEF Tasks
<1>5. op'[g]["write"] = Idle \/ op'[g]["reload"] = Idle BY <1>1, <1>3, <1>4 DEF Process, Tasks
<1>6. \A u \in Tasks : Fits(op'[g][u], db', registry[g], routing[g], snap[g])
  BY <1>1, <1>3 DEF Process, Tasks
<1>7. Process(op'[g], db', registry'[g], routing'[g], snap'[g])
  BY <1>1, <1>2, <1>3, <1>5, <1>6 DEF Process, Tasks
<1> QED BY <1>1, <1>2, <1>7, OthersKept DEF PublishInv

\* A database that is not written stays as it is.
LEMMA Unchanged ==
  ASSUME Sound(db), db' = db PROVE Sound(db') /\ Grows(db, db')
BY DEF Sound, Grows

\* The gate is held by one operation.
LEMMA GateExclusive ==
  ASSUME PublishInv, NEW g \in Gateways, NEW t \in Tasks, op[g][t] # Idle
  PROVE  \A u \in Tasks : u # t => op[g][u] = Idle
BY DEF PublishInv, Process, Tasks

\* The steps of a management write preserve the invariant.
LEMMA StepWrite ==
  ASSUME PublishInv, NEW g \in Gateways,
         \/ \E a \in Actors \cup {"system"} : Prepare(g, a)
         \/ Compile(g) \/ Commit(g) \/ CommitFails(g) \/ CommitUnseen(g)
  PROVE  PublishInv'
<1> DEFINE o == op[g]["write"]
<1>1. Sound(db) /\ Len(db) \in Nat /\ Len(db) >= 1 BY DEF PublishInv, Sound
<1>2. Fits(o, db, registry[g], routing[g], snap[g]) /\ "write" \in Tasks
  BY DEF PublishInv, Process, Tasks
<1>3. Idle.kind = "idle" /\ \A d, a, b, c : Fits(Idle, d, a, b, c) BY DEF Idle, Fits
<1>4. CASE \E a \in Actors \cup {"system"} : Prepare(g, a)
  <2>1. PICK a \in Actors \cup {"system"} : Prepare(g, a) BY <1>4
  <2>2. PICK change \in Changes :
          Hold(g, "write", [kind |-> "prepared", change |-> change, base |-> Latest, by |-> a])
    BY <2>1 DEF Prepare
  <2> DEFINE n == [kind |-> "prepared", change |-> change, base |-> Latest, by |-> a]
  <2>3. UNCHANGED Runtimes /\ db' = db /\ op[g] = [u \in Tasks |-> Idle]
    BY <2>1 DEF Prepare, Runtimes, GateFree
  <2>4. a # "system" => a \in db[Latest].config.admins BY <2>1 DEF Prepare, AdminWrite
  <2>5. Latest \in 1 .. Len(db) BY <1>1 DEF Latest
  <2>6. n \in [kind : {"prepared", "compiled"}, change : Changes, base : 1 .. Len(db),
               by : Actors \cup {"system"}]
    BY <2>5
  <2>7. registry[g] <= Latest /\ routing[g] <= Latest /\ snap[g] <= Latest
    BY <1>1 DEF PublishInv, Process, Latest
  <2>8. Fits(n, db', registry[g], routing[g], snap[g]) BY <2>3, <2>4, <2>6, <2>7 DEF Fits
  <2> HIDE DEF n
  <2>9. Hold(g, "write", n) BY <2>2 DEF n
  <2> QED BY <1>1, <1>2, <2>3, <2>8, <2>9, Unchanged, HoldKeeps
<1>5. ASSUME o.kind \in {"prepared", "compiled"}
      PROVE  /\ o # Idle
             /\ o \in [kind : {"prepared", "compiled"}, change : Changes, base : 1 .. Len(db),
                       by : Actors \cup {"system"}]
             /\ registry[g] <= o.base /\ routing[g] <= o.base /\ snap[g] <= o.base
             /\ o.by # "system" => o.by \in db[o.base].config.admins
             /\ o.kind = "compiled" => Valid(Applied(o.change, db[o.base].config))
             /\ \A u \in Tasks : u # "write" => op[g][u] = Idle
  <2>1. o # Idle BY <1>3, <1>5
  <2> HIDE DEF o
  <2>2. /\ o \in [kind : {"prepared", "compiled"}, change : Changes, base : 1 .. Len(db),
                  by : Actors \cup {"system"}]
        /\ registry[g] <= o.base /\ routing[g] <= o.base /\ snap[g] <= o.base
        /\ o.by # "system" => o.by \in db[o.base].config.admins
        /\ o.kind = "compiled" => Valid(Applied(o.change, db[o.base].config))
    BY <1>2, <1>5, <2>1 DEF Fits, Publishing
  <2> QED BY <1>2, <2>1, <2>2, GateExclusive DEF o
<1>6. CASE Compile(g)
  <2>1. o.kind = "prepared" /\ UNCHANGED Runtimes /\ db' = db BY <1>6 DEF Compile, Runtimes
  <2>2. CASE Valid(Applied(o.change, db[o.base].config))
    <3> DEFINE n == [kind |-> "compiled", change |-> o.change, base |-> o.base, by |-> o.by]
    <3>1. [o EXCEPT !.kind = "compiled"] = n BY <1>5, <2>1
    <3>2. Hold(g, "write", n) BY <1>6, <2>2, <3>1 DEF Compile
    <3>3. n \in [kind : {"prepared", "compiled"}, change : Changes, base : 1 .. Len(db),
                 by : Actors \cup {"system"}]
      BY <1>5, <2>1
    <3>4. Fits(n, db', registry[g], routing[g], snap[g]) BY <1>5, <2>1, <2>2, <3>3 DEF Fits
    <3> HIDE DEF n
    <3> QED BY <1>1, <1>2, <1>5, <2>1, <3>2, <3>4, Unchanged, HoldKeeps
  <2>3. CASE ~Valid(Applied(o.change, db[o.base].config))
    <3>1. Hold(g, "write", Idle) BY <1>6, <2>3 DEF Compile
    <3> QED BY <1>1, <1>2, <1>3, <2>1, <3>1, Unchanged, HoldKeeps
  <2> QED BY <2>2, <2>3
<1>7. ASSUME o.kind = "compiled", UNCHANGED Runtimes, Serializable(o), db' = Committed(o)
      PROVE  /\ Sound(db') /\ Grows(db, db')
             /\ Fits([kind |-> "publish", version |-> Candidate(o)], db', registry[g],
                     routing[g], snap[g])
  <2> DEFINE n == [kind |-> "publish", version |-> Candidate(o)]
  <2>1. o # Idle /\ o.base \in 1 .. Len(db) BY <1>5, <1>7
  <2>2. registry[g] <= o.base /\ routing[g] <= o.base /\ snap[g] <= o.base
    BY <1>5, <1>7
  <2> HIDE DEF o
  <2>3. /\ registry[g] \in 1 .. Len(db) /\ routing[g] \in 1 .. Len(db) /\ snap[g] \in 1 .. Len(db)
    BY DEF PublishInv, Process
  <2>4. /\ Sound(db') /\ Grows(db, db') /\ Candidate(o) \in 1 .. Len(db')
        /\ o.base <= Candidate(o)
    <3>1. CASE WritesConfig(o)
      <4>1. Sound(db') /\ Grows(db, db') /\ Len(db') = o.base + 1
        BY <1>1, <1>2, <1>7, <2>1, <3>1, CommitSound
      <4> QED BY <2>1, <3>1, <4>1 DEF Candidate
    <3>2. CASE ~WritesConfig(o)
      <4>1. db' = db /\ Candidate(o) = o.base BY <1>7, <3>2 DEF Committed, Candidate
      <4> QED BY <1>1, <2>1, <4>1, Unchanged
    <3> QED BY <3>1, <3>2
  <2>5. n \in [kind : Publishing, version : 1 .. Len(db')] /\ n.version = Candidate(o) /\ n.kind = "publish"
    BY <2>4 DEF Publishing
  <2>6. Valid(db'[n.version].config) BY <2>4, <2>5 DEF Sound
  <2>7. registry[g] <= n.version /\ routing[g] <= n.version /\ snap[g] <= n.version
    BY <1>1, <2>1, <2>2, <2>3, <2>4, <2>5
  <2> HIDE DEF n
  <2>8. Fits(n, db', registry[g], routing[g], snap[g]) BY <2>5, <2>6, <2>7 DEF Fits
  <2> QED BY <2>4, <2>8 DEF n
<1>8. CASE Commit(g)
  <2>1. o.kind = "compiled" /\ UNCHANGED Runtimes BY <1>8 DEF Commit, Runtimes
  <2>2. CASE Serializable(o)
    <3>1. db' = Committed(o) /\ Hold(g, "write", [kind |-> "publish", version |-> Candidate(o)])
      BY <1>8, <2>2 DEF Commit, AfterCommit
    <3> DEFINE n == [kind |-> "publish", version |-> Candidate(o)]
    <3>2. /\ Sound(db') /\ Grows(db, db') /\ Fits(n, db', registry[g], routing[g], snap[g])
          /\ \A u \in Tasks : u # "write" => op[g][u] = Idle
      BY <1>5, <1>7, <2>1, <2>2, <3>1
    <3>3. Hold(g, "write", n) BY <3>1
    <3> HIDE DEF n
    <3> QED BY <1>2, <2>1, <3>2, <3>3, HoldKeeps
  <2>3. CASE ~Serializable(o)
    <3>1. db' = db /\ Hold(g, "write", Idle) BY <1>8, <2>3 DEF Commit, AfterCommit
    <3> QED BY <1>1, <1>2, <1>3, <2>1, <3>1, Unchanged, HoldKeeps
  <2> QED BY <2>2, <2>3
<1>9. CASE CommitFails(g)
  <2>1. UNCHANGED Runtimes /\ db' = db /\ Hold(g, "write", Idle)
    BY <1>9 DEF CommitFails, Runtimes, AfterCommit
  <2> QED BY <1>1, <1>2, <1>3, <2>1, Unchanged, HoldKeeps
<1>10. CASE CommitUnseen(g)
  <2>1. /\ o.kind = "compiled" /\ Serializable(o) /\ db' = Committed(o)
        /\ UNCHANGED Runtimes /\ Hold(g, "write", Idle)
    BY <1>10 DEF CommitUnseen, Runtimes
  <2>2. Sound(db') /\ Grows(db, db') BY <1>7, <2>1
  <2> QED BY <1>2, <1>3, <2>1, <2>2, HoldKeeps
<1> QED BY <1>4, <1>6, <1>8, <1>9, <1>10

\* The steps of a reload up to its publication, and its loss, preserve the
\* invariant.
LEMMA StepReload ==
  ASSUME PublishInv, NEW g \in Gateways,
         Load(g) \/ CompileLoaded(g) \/ \E t \in Tasks : Abandon(g, t)
  PROVE  PublishInv'
<1> DEFINE o == op[g]["reload"]
<1>1. Sound(db) /\ Len(db) \in Nat /\ Len(db) >= 1 BY DEF PublishInv, Sound
<1>2. Fits(o, db, registry[g], routing[g], snap[g]) /\ "reload" \in Tasks
  BY DEF PublishInv, Process, Tasks
<1>3. Idle.kind = "idle" /\ \A d, a, b, c : Fits(Idle, d, a, b, c) BY DEF Idle, Fits
<1>4. registry[g] \in 1 .. Len(db) /\ routing[g] \in 1 .. Len(db) /\ snap[g] \in 1 .. Len(db)
  BY DEF PublishInv, Process
<1>5. CASE Load(g)
  <2> DEFINE n == [kind |-> "loaded", version |-> Latest]
  <2>1. UNCHANGED Runtimes /\ db' = db /\ op[g] = [u \in Tasks |-> Idle] /\ Hold(g, "reload", n)
    BY <1>5 DEF Load, Runtimes, GateFree
  <2>2. n \in [kind : Publishing, version : 1 .. Len(db)] /\ n.version = Len(db) /\ n.kind = "loaded"
    BY <1>1 DEF Publishing, Latest
  <2> HIDE DEF n
  <2>3. registry[g] <= n.version /\ routing[g] <= n.version /\ snap[g] <= n.version
    BY <1>1, <1>4, <2>2
  <2>4. Fits(n, db', registry[g], routing[g], snap[g]) BY <2>1, <2>2, <2>3 DEF Fits
  <2> QED BY <1>1, <1>2, <2>1, <2>4, Unchanged, HoldKeeps
<1>6. CASE CompileLoaded(g)
  <2>1. o.kind = "loaded" /\ UNCHANGED Runtimes /\ db' = db BY <1>6 DEF CompileLoaded, Runtimes
  <2>2. o # Idle BY <1>3, <2>1
  <2>3. /\ o \in [kind : Publishing, version : 1 .. Len(db)]
        /\ registry[g] <= o.version /\ routing[g] <= o.version /\ snap[g] <= o.version
    <3> HIDE DEF o
    <3> QED BY <1>2, <2>1, <2>2 DEF Fits
  <2>4. \A u \in Tasks : u # "reload" => op[g][u] = Idle BY <1>2, <2>2, GateExclusive
  <2>5. CASE Valid(db[o.version].config)
    <3> DEFINE n == [kind |-> "publish", version |-> o.version]
    <3>1. [o EXCEPT !.kind = "publish"] = n BY <2>3
    <3>2. Hold(g, "reload", n) BY <1>6, <2>5, <3>1 DEF CompileLoaded
    <3>3. n \in [kind : Publishing, version : 1 .. Len(db)] /\ n.version = o.version /\ n.kind = "publish"
      BY <2>3 DEF Publishing
    <3> HIDE DEF n
    <3>4. Fits(n, db', registry[g], routing[g], snap[g]) BY <2>1, <2>3, <2>5, <3>3 DEF Fits
    <3> QED BY <1>1, <1>2, <2>1, <2>4, <3>2, <3>4, Unchanged, HoldKeeps
  <2>6. CASE ~Valid(db[o.version].config)
    <3>1. Hold(g, "reload", Idle) BY <1>6, <2>6 DEF CompileLoaded
    <3> QED BY <1>1, <1>2, <1>3, <2>1, <3>1, Unchanged, HoldKeeps
  <2> QED BY <2>5, <2>6
<1>7. CASE \E t \in Tasks : Abandon(g, t)
  <2>1. PICK t \in Tasks : Abandon(g, t) BY <1>7
  <2>2. UNCHANGED Runtimes /\ db' = db /\ Hold(g, t, Idle) BY <2>1 DEF Abandon, Runtimes
  <2> QED BY <1>1, <1>3, <2>2, Unchanged, HoldKeeps
<1> QED BY <1>5, <1>6, <1>7

\* What an operation that is being published holds.
LEMMA PublishingFits ==
  ASSUME PublishInv, NEW g \in Gateways, NEW t \in Tasks,
         op[g][t].kind \in {"publish", "publishRouting", "publishSnapshot"}
  PROVE  LET o == op[g][t]
         IN  /\ o \in [kind : Publishing, version : 1 .. Len(db)]
             /\ registry[g] <= o.version /\ routing[g] <= o.version /\ snap[g] <= o.version
             /\ Valid(db[o.version].config)
             /\ o.kind = "publishRouting" => registry[g] = o.version
             /\ o.kind = "publishSnapshot" => registry[g] = o.version /\ routing[g] = o.version
             /\ \A u \in Tasks : u # t => op[g][u] = Idle
<1> DEFINE o == op[g][t]
<1>1. Fits(o, db, registry[g], routing[g], snap[g]) BY DEF PublishInv, Process, Tasks
<1>2. o # Idle BY DEF Idle
<1>3. \A u \in Tasks : u # t => op[g][u] = Idle BY <1>2, GateExclusive
<1>4. o.kind \in {"publish", "publishRouting", "publishSnapshot"} OBVIOUS
<1> HIDE DEF o
<1>5. /\ o \in [kind : Publishing, version : 1 .. Len(db)]
      /\ registry[g] <= o.version /\ routing[g] <= o.version /\ snap[g] <= o.version
      /\ Valid(db[o.version].config)
      /\ o.kind = "publishRouting" => registry[g] = o.version
      /\ o.kind = "publishSnapshot" => registry[g] = o.version /\ routing[g] = o.version
  BY <1>1, <1>2, <1>4 DEF Fits
<1> QED BY <1>3, <1>5 DEF o

\* A process that publishes moves one runtime at a time, the snapshot last.
LEMMA PublishKeeps ==
  ASSUME PublishInv, NEW g \in Gateways, NEW t \in Tasks, NEW n, Hold(g, t, n), db' = db,
         \A u \in Tasks : u # t => op[g][u] = Idle,
         NEW reg \in 1 .. Len(db), NEW rout \in 1 .. Len(db), NEW sn \in 1 .. Len(db),
         sn <= reg, sn <= rout, Fits(n, db, reg, rout, sn),
         DOMAIN registry' = Gateways, DOMAIN routing' = Gateways, DOMAIN snap' = Gateways,
         registry'[g] = reg, routing'[g] = rout, snap'[g] = sn,
         \A h \in Gateways : h # g => /\ registry'[h] = registry[h] /\ routing'[h] = routing[h]
                                     /\ snap'[h] = snap[h]
  PROVE  PublishInv'
<1>1. /\ DOMAIN op' = Gateways /\ DOMAIN op'[g] = Tasks
      /\ op'[g][t] = n /\ \A u \in Tasks : u # t => op'[g][u] = op[g][u]
      /\ \A h \in Gateways : h # g => op'[h] = op[h]
  BY HoldEffect
<1>2. Sound(db') /\ Grows(db, db') BY Unchanged DEF PublishInv
<1>3. \A d, a, b, c : Fits(Idle, d, a, b, c) BY DEF Fits
<1>4. Fits(op'[g]["write"], db, reg, rout, sn) /\ Fits(op'[g]["reload"], db, reg, rout, sn)
  BY <1>1, <1>3 DEF Tasks
<1>5. op'[g]["write"] = Idle \/ op'[g]["reload"] = Idle BY <1>1 DEF Tasks
<1>6. Process(op'[g], db', registry'[g], routing'[g], snap'[g]) BY <1>1, <1>4, <1>5 DEF Process
<1> QED BY <1>1, <1>2, <1>6, OthersKept

\* The three steps of publish preserve the invariant.
LEMMA StepPublish ==
  ASSUME PublishInv, NEW g \in Gateways, NEW t \in Tasks,
         PublishRegistry(g, t) \/ PublishRouting(g, t) \/ PublishSnapshot(g, t)
  PROVE  PublishInv'
<1> DEFINE o == op[g][t]
<1>1. o.kind \in {"publish", "publishRouting", "publishSnapshot"}
  BY DEF PublishRegistry, PublishRouting, PublishSnapshot
<1>2. /\ o \in [kind : Publishing, version : 1 .. Len(db)]
      /\ registry[g] <= o.version /\ routing[g] <= o.version /\ snap[g] <= o.version
      /\ Valid(db[o.version].config)
      /\ o.kind = "publishRouting" => registry[g] = o.version
      /\ o.kind = "publishSnapshot" => registry[g] = o.version /\ routing[g] = o.version
      /\ \A u \in Tasks : u # t => op[g][u] = Idle
  BY <1>1, PublishingFits
<1>3. /\ registry[g] \in 1 .. Len(db) /\ routing[g] \in 1 .. Len(db) /\ snap[g] \in 1 .. Len(db)
      /\ snap[g] <= registry[g] /\ snap[g] <= routing[g]
  BY DEF PublishInv, Process
<1>4. o.version \in 1 .. Len(db) /\ Len(db) \in Nat BY <1>2 DEF PublishInv, Sound
<1>5. DOMAIN registry = Gateways /\ DOMAIN routing = Gateways /\ DOMAIN snap = Gateways
  BY DEF PublishInv
<1>6. CASE PublishRegistry(g, t)
  <2> DEFINE n == [kind |-> "publishRouting", version |-> o.version]
  <2>1. [o EXCEPT !.kind = "publishRouting"] = n BY <1>2
  <2>2. /\ Hold(g, t, n) /\ db' = db /\ registry' = [registry EXCEPT ![g] = o.version]
        /\ routing' = routing /\ snap' = snap
    BY <1>6, <2>1 DEF PublishRegistry
  <2>3. n \in [kind : Publishing, version : 1 .. Len(db)] /\ n.version = o.version /\ n.kind = "publishRouting"
    BY <1>4 DEF Publishing
  <2> HIDE DEF n
  <2>4. Fits(n, db, o.version, routing[g], snap[g]) BY <1>2, <1>4, <2>3 DEF Fits
  <2> HIDE DEF o
  <2> QED BY <1>2, <1>3, <1>4, <1>5, <2>2, <2>4, PublishKeeps
<1>7. CASE PublishRouting(g, t)
  <2> DEFINE n == [kind |-> "publishSnapshot", version |-> o.version]
  <2>1. [o EXCEPT !.kind = "publishSnapshot"] = n BY <1>2
  <2>2. /\ Hold(g, t, n) /\ db' = db /\ routing' = [routing EXCEPT ![g] = o.version]
        /\ registry' = registry /\ snap' = snap /\ o.kind = "publishRouting"
    BY <1>7, <2>1 DEF PublishRouting
  <2>3. n \in [kind : Publishing, version : 1 .. Len(db)] /\ n.version = o.version /\ n.kind = "publishSnapshot"
    BY <1>4 DEF Publishing
  <2> HIDE DEF n
  <2>4. Fits(n, db, registry[g], o.version, snap[g]) BY <1>2, <1>4, <2>2, <2>3 DEF Fits
  <2> HIDE DEF o
  <2> QED BY <1>2, <1>3, <1>4, <1>5, <2>2, <2>4, PublishKeeps
<1>8. CASE PublishSnapshot(g, t)
  <2>1. /\ Hold(g, t, Idle) /\ db' = db /\ snap' = [snap EXCEPT ![g] = o.version]
        /\ registry' = registry /\ routing' = routing /\ o.kind = "publishSnapshot"
    BY <1>8 DEF PublishSnapshot
  <2>2. Fits(Idle, db, registry[g], routing[g], o.version) BY DEF Fits
  <2>3. o.version <= registry[g] /\ o.version <= routing[g] BY <1>2, <1>4, <2>1
  <2> HIDE DEF o
  <2> QED BY <1>2, <1>3, <1>4, <1>5, <2>1, <2>2, <2>3, PublishKeeps
<1> QED BY <1>6, <1>7, <1>8

\* serve_connected starts from the newest version.
LEMMA StepRestart ==
  ASSUME PublishInv, NEW g \in Gateways, Restart(g) PROVE PublishInv'
<1>1. Sound(db) /\ Len(db) \in Nat /\ Len(db) >= 1 /\ db' = db BY DEF PublishInv, Sound, Restart
<1>2. Latest \in 1 .. Len(db) /\ Latest <= Latest BY <1>1 DEF Latest
<1>3. /\ DOMAIN op' = Gateways /\ op'[g] = [t \in Tasks |-> Idle]
      /\ DOMAIN registry' = Gateways /\ DOMAIN routing' = Gateways /\ DOMAIN snap' = Gateways
      /\ registry'[g] = Latest /\ routing'[g] = Latest /\ snap'[g] = Latest
      /\ \A h \in Gateways : h # g => /\ op'[h] = op[h] /\ registry'[h] = registry[h]
                                     /\ routing'[h] = routing[h] /\ snap'[h] = snap[h]
  BY DEF PublishInv, Restart
<1>4. Fits(Idle, db, Latest, Latest, Latest) BY DEF Fits
<1>5. Process(op'[g], db', registry'[g], routing'[g], snap'[g])
  BY <1>1, <1>2, <1>3, <1>4 DEF Process, Tasks
<1> QED BY <1>1, <1>3, <1>5, Unchanged, OthersKept

\* What there is to configure: without a row no configuration compiles, and
\* the installation could not have started.
PublishAssumption == Rows # {}

\* The invariant holds of the installation that has just started.
LEMMA PublishInit ==
  ASSUME PublishAssumption, Init PROVE PublishInv
<1> DEFINE c == [rows |-> [r \in Rows |-> TRUE], admins |-> Actors]
           v == [config |-> c, by |-> "bootstrap"]
<1>1. c \in Configs /\ Valid(c) /\ v.config = c BY DEF Configs, Valid, PublishAssumption
<1>2. v \in Versions BY <1>1 DEF Versions
<1>3. db = <<v>> BY DEF Init
<1> HIDE DEF v, c
<1>4. db \in Seq(Versions) /\ Len(db) = 1 /\ db[1] = v BY <1>2, <1>3
<1>5. Sound(db) BY <1>1, <1>4 DEF Sound
<1>6. \A d, a, b, e : Fits(Idle, d, a, b, e) BY DEF Fits
<1>7. ASSUME NEW g \in Gateways PROVE Process(op[g], db, registry[g], routing[g], snap[g])
  BY <1>4, <1>6 DEF Init, Process, Tasks
<1> QED BY <1>5, <1>7 DEF PublishInv, Init

\* A step that changes nothing preserves the invariant.
LEMMA PublishStutter ==
  ASSUME PublishInv, UNCHANGED vars PROVE PublishInv'
BY DEF PublishInv, vars

\* Every step preserves the invariant.
LEMMA PublishStep ==
  ASSUME PublishInv, Next PROVE PublishInv'
<1>1. PICK g \in Gateways :
        \/ Progress(g) \/ Tick(g) \/ CommitFails(g) \/ CommitUnseen(g) \/ Restart(g)
        \/ \E t \in Tasks : Abandon(g, t)
        \/ \E a \in Actors \cup {"system"} : Prepare(g, a)
  BY DEF Next
<1>2. CASE \/ \E a \in Actors \cup {"system"} : Prepare(g, a)
           \/ Compile(g) \/ Commit(g) \/ CommitFails(g) \/ CommitUnseen(g)
  BY <1>2, StepWrite
<1>3. CASE Load(g) \/ CompileLoaded(g) \/ \E t \in Tasks : Abandon(g, t) BY <1>3, StepReload
<1>4. CASE \E t \in Tasks : PublishRegistry(g, t) \/ PublishRouting(g, t) \/ PublishSnapshot(g, t)
  BY <1>4, StepPublish
<1>5. CASE Restart(g) BY <1>5, StepRestart
<1> QED BY <1>1, <1>2, <1>3, <1>4, <1>5 DEF Progress, Tick

\* The gate admits one operation per process, what an operation holds agrees
\* with the versions it was computed from, and the database is a history of
\* configurations that compile.
THEOREM PublishInvariant == PublishAssumption /\ Spec => []PublishInv
<1>1. PublishAssumption /\ Init => PublishInv BY PublishInit
<1>2. PublishInv /\ [Next]_vars => PublishInv' BY PublishStep, PublishStutter
<1> QED BY <1>1, <1>2, PTL DEF Spec

\* However many processes write, are dropped, lose the answer of a commit or
\* crash: what is committed compiles and was written by an administrator of the
\* configuration it replaced, nothing uncommitted is published, and a visible
\* snapshot never runs ahead of the routing runtime and the upstream registry.
THEOREM PublishAlwaysSound ==
  PublishAssumption /\ Spec => []PublishSound
<1>1. PublishInv => CommittedCompiles /\ ActorWasActive
  BY DEF PublishInv, Sound, CommittedCompiles, ActorWasActive
<1>2. PublishInv => PublishedIsCommitted /\ ReconciledFirst
  BY DEF PublishInv, Process, PublishedIsCommitted, ReconciledFirst
<1>3. PublishInv => PublishSound BY <1>1, <1>2 DEF PublishSound
<1> QED BY <1>3, PublishInvariant, PTL

\* A reload, a late publication or a restart never takes a process back to an
\* older routing runtime or snapshot.
THEOREM PublishMovesForward == PublishAssumption /\ Spec => [][SnapshotMovesForward]_vars
<1>1. ASSUME PublishInv, Next PROVE SnapshotMovesForward
  <2>1. PICK g \in Gateways :
          \/ Progress(g) \/ Tick(g) \/ CommitFails(g) \/ CommitUnseen(g) \/ Restart(g)
          \/ \E t \in Tasks : Abandon(g, t)
          \/ \E a \in Actors \cup {"system"} : Prepare(g, a)
    BY <1>1 DEF Next
  <2>2. \A h \in Gateways : snap[h] \in 1 .. Len(db) /\ routing[h] \in 1 .. Len(db)
    BY <1>1 DEF PublishInv, Process
  <2>3. Len(db) \in Nat /\ DOMAIN snap = Gateways /\ DOMAIN routing = Gateways
    BY <1>1 DEF PublishInv, Sound
  <2>4. CASE snap' = snap /\ routing' = routing BY <2>2, <2>3, <2>4 DEF SnapshotMovesForward
  <2>5. ASSUME NEW t \in Tasks, PublishRouting(g, t) PROVE SnapshotMovesForward
    <3>1. routing[g] <= op[g][t].version BY <1>1, <2>5, PublishingFits DEF PublishRouting
    <3>2. snap' = snap /\ routing' = [routing EXCEPT ![g] = op[g][t].version]
      BY <2>5 DEF PublishRouting
    <3>3. op[g][t].version \in 1 .. Len(db) BY <1>1, <2>5, PublishingFits DEF PublishRouting
    <3> QED BY <2>2, <2>3, <3>1, <3>2, <3>3 DEF SnapshotMovesForward
  <2>6. ASSUME NEW t \in Tasks, PublishSnapshot(g, t) PROVE SnapshotMovesForward
    <3>1. snap[g] <= op[g][t].version BY <1>1, <2>6, PublishingFits DEF PublishSnapshot
    <3>2. routing' = routing /\ snap' = [snap EXCEPT ![g] = op[g][t].version]
      BY <2>6 DEF PublishSnapshot
    <3>3. op[g][t].version \in 1 .. Len(db) BY <1>1, <2>6, PublishingFits DEF PublishSnapshot
    <3> QED BY <2>2, <2>3, <3>1, <3>2, <3>3 DEF SnapshotMovesForward
  <2>7. CASE Restart(g)
    <3>1. /\ snap' = [snap EXCEPT ![g] = Len(db)] /\ routing' = [routing EXCEPT ![g] = Len(db)]
      BY <2>7 DEF Restart, Latest
    <3> QED BY <2>2, <2>3, <3>1 DEF SnapshotMovesForward
  <2>8. \/ snap' = snap /\ routing' = routing
        \/ \E t \in Tasks : PublishRouting(g, t)
        \/ \E t \in Tasks : PublishSnapshot(g, t)
        \/ Restart(g)
    BY <2>1 DEF Progress, Tick, Load, Compile, Commit, CompileLoaded, PublishRegistry,
      CommitFails, CommitUnseen, Abandon, Prepare, Runtimes
  <2> QED BY <2>4, <2>5, <2>6, <2>7, <2>8
<1> QED BY <1>1, PublishInvariant, PTL DEF Spec

=============================================================================
