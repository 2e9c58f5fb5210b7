-------------------------- MODULE QueuedRequestLog --------------------------
\* The queue-based request-log worker, which embedders of the library use
\* in place of the durable spool:
\*   src/application/request_log.rs        the sink,
\*   src/workers/mod.rs                    insert and settlement workers,
\*   src/persistence/sqlite/pipeline.rs    the transactions they run.
\*
\* An accepted event lives in memory until its batch is written: financial
\* facts in one transaction, query logs in a second.  EventIds of written rows
\* are hinted to the settlement worker; a lost hint is made up for by its
\* periodic scan of durable work.  A call that times out may have
\* committed.  Another process may settle the same rows.  A fact and its
\* credential attribution are written together and are one row here.
EXTENDS Integers, Sequences, FiniteSets, Functions, FiniteSetsExt

CONSTANTS
  Events,        \* [id, user, key, cost, fits, valid]; fits: the columns hold
                 \* "both" fact and log, the "fact" only, or "neither"
  Users, Keys, OwnerOf,
  Capacity,      \* of the sink's channel
  BatchSize,     \* REQUEST_LOG_BATCH_SIZE
  Tasks,         \* insert tasks, REQUEST_LOG_INSERT_CONCURRENCY of them
  HintCapacity,  \* SETTLEMENT_NOTIFICATION_CAPACITY
  RecoverySize,  \* SETTLEMENT_RECOVERY_BATCH_SIZE
  AmountMax,     \* largest amount a column holds
  NoRow,
  MaxFails       \* bound on errors and timeouts

Unpriced == -1   \* amount_state is neither priced nor zero_by_policy
EventIds == {e.id : e \in Events}

QueueAssumption ==
  /\ IsFiniteSet(Events) /\ IsFiniteSet(Tasks)
  /\ \A e, f \in Events : e.id = f.id => e = f
  /\ OwnerOf \in [Keys -> Users]
  /\ {Capacity, BatchSize, HintCapacity, RecoverySize} \subseteq Nat \ {0}

VARIABLES
  unsent,     \* events of requests that have not ended
  queue,      \* the sink's channel
  accepted,   \* history: events the sink took
  phase,      \* insert worker: "run", "drain", "abort", "ended"
  task,       \* [stage, batch, cur, rest] of each insert task
  hints,      \* settlement notifications
  settler,    \* [stage, ids] of the settlement worker
  fact, logs, pending, receipts, used, balance,   \* the database
  published,  \* quota use known to admission
  troubled,   \* history: an error, a timeout or a deadline met
  fails

db == <<fact, logs, pending, receipts, used, balance>>
vars == <<unsent, queue, accepted, phase, task, hints, settler, fact, logs,
          pending, receipts, used, balance, published, troubled, fails>>

Idle == [stage |-> "idle", whole |-> FALSE, batch |-> {}, cur |-> {}, rest |-> {}]

Init ==
  /\ unsent = Events /\ queue = <<>> /\ accepted = {}
  /\ phase = "run" /\ task = [t \in Tasks |-> Idle]
  /\ hints = <<>> /\ settler = [stage |-> "idle", ids |-> {}]
  /\ fact = [i \in EventIds |-> NoRow] /\ logs = [i \in EventIds |-> NoRow]
  /\ pending = {} /\ receipts = [i \in EventIds |-> Unpriced]
  /\ used = [k \in Keys |-> 0] /\ balance = [u \in Users |-> 0]
  /\ published = [k \in Keys |-> 0]
  /\ troubled = FALSE /\ fails = 0

Fails == fails < MaxFails /\ fails' = fails + 1 /\ troubled' = TRUE

--------------------
\* The sink and the insert worker

\* try_record: a full or closed channel drops the event.
TryRecord(e) ==
  /\ e \in unsent /\ unsent' = unsent \ {e}
  /\ IF phase = "run" /\ Len(queue) < Capacity
     THEN queue' = Append(queue, e) /\ accepted' = accepted \cup {e}
     ELSE UNCHANGED <<queue, accepted>>
  /\ UNCHANGED <<phase, task, hints, settler, db, published, troubled, fails>>

\* recv_many, and a task for what it returned.
Receive(t) ==
  /\ phase \in {"run", "drain"} /\ task[t] = Idle /\ queue # <<>>
  /\ LET n == IF Len(queue) < BatchSize THEN Len(queue) ELSE BatchSize
         B == Range(SubSeq(queue, 1, n))
     IN /\ task' = [task EXCEPT ![t] =
                      [stage |-> "record", whole |-> TRUE, batch |-> B, cur |-> B, rest |-> {}]]
        /\ queue' = SubSeq(queue, n + 1, Len(queue))
  /\ UNCHANGED <<unsent, accepted, phase, hints, settler, db, published,
                 troubled, fails>>

\* shutdown: the channel is closed and what it holds is drained.
Shutdown ==
  /\ phase = "run" /\ phase' = "drain"
  /\ UNCHANGED <<unsent, queue, accepted, task, hints, settler, db, published,
                 troubled, fails>>

AllIdle == \A t \in Tasks : task[t] = Idle

\* The worker returns; its sender of hints is dropped.
InsertEnds ==
  /\ \/ phase = "drain" /\ queue = <<>> /\ UNCHANGED queue
     \/ phase = "abort" /\ queue' = <<>>
  /\ AllIdle /\ phase' = "ended"
  /\ UNCHANGED <<unsent, accepted, task, hints, settler, db, published, troubled,
                 fails>>

\* The drain deadline: tasks are aborted, and what is queued is lost.
DrainDeadline ==
  /\ phase = "drain" /\ Fails /\ phase' = "abort"
  /\ UNCHANGED <<unsent, queue, accepted, task, hints, settler, db, published>>

--------------------
\* persist_batch and persist_event

IdsOf(B) == {e.id : e \in B}

\* column_text: an amount the column cannot hold is an error.
Encodes(B) == \A e \in B : e.fits # "neither"

\* The log has columns the fact does not have.
LogEncodes(B) == \A e \in B : e.valid => e.fits = "both"

\* FactRow::matches
SameFact(e, row) ==
  /\ e.user = row.user /\ e.key = row.key /\ e.cost = row.cost

\* write_facts
WriteFacts(B) ==
  LET new == {e \in B : fact[e.id] = NoRow}
  IN /\ fact' = [i \in EventIds |-> IF i \in IdsOf(new)
                               THEN CHOOSE e \in new : e.id = i ELSE fact[i]]
     /\ pending' = pending \cup {e.id : e \in {f \in new : f.cost # Unpriced}}

\* The next event to insert individually, if any.
Individually(rest) ==
  IF rest = {} THEN Idle
  ELSE LET e == CHOOSE f \in rest : TRUE
       IN [stage |-> "record", whole |-> FALSE, batch |-> {e}, cur |-> {e}, rest |-> rest \ {e}]

\* A batch that fails is retried event by event, even a batch of one; an event
\* inserted individually is given up.
AfterError(t) ==
  IF task[t].whole THEN Individually(task[t].batch)
  ELSE Individually(task[t].rest)

\* record_batch commits; its accepted events are to be projected.
Record(t) ==
  /\ phase # "abort" /\ task[t].stage = "record" /\ Encodes(task[t].cur)
  /\ WriteFacts(task[t].cur)
  /\ task' = [task EXCEPT ![t].stage = "project",
                          ![t].cur = {e \in @ : SameFact(e, fact'[e.id])}]
  /\ UNCHANGED <<unsent, queue, accepted, phase, hints, settler, logs, receipts,
                 used, balance, published, troubled, fails>>

\* An event that does not encode fails its whole batch.
RecordRefused(t) ==
  /\ phase # "abort" /\ task[t].stage = "record" /\ ~Encodes(task[t].cur)
  /\ task' = [task EXCEPT ![t] = AfterError(t)]
  /\ UNCHANGED <<unsent, queue, accepted, phase, hints, settler, db, published,
                 troubled, fails>>

\* project_batch inserts what has no log yet.
WriteLogs(B) ==
  LET ok == {e \in B : e.valid /\ logs[e.id] = NoRow}
  IN logs' = [i \in EventIds |-> IF i \in IdsOf(ok)
                            THEN CHOOSE e \in ok : e.id = i ELSE logs[i]]

\* Inserted, or stored and equal.
Projected(B) == {e \in B : e.valid /\ logs'[e.id] = e}

\* queue_settlement: a hint that finds the channel full is dropped.
QueueSettlement(ids) ==
  hints' = IF ids = {} \/ Len(hints) >= HintCapacity THEN hints
           ELSE Append(hints, ids)

Project(t) ==
  /\ phase # "abort" /\ task[t].stage = "project" /\ LogEncodes(task[t].cur)
  /\ WriteLogs(task[t].cur)
  /\ QueueSettlement(IdsOf(Projected(task[t].cur)))
  /\ task' = [task EXCEPT ![t] = Individually(task[t].rest)]
  /\ UNCHANGED <<unsent, queue, accepted, phase, settler, fact, pending, receipts,
                 used, balance, published, troubled, fails>>

\* The facts stay, and are found again by the retry.
ProjectRefused(t) ==
  /\ phase # "abort" /\ task[t].stage = "project" /\ ~LogEncodes(task[t].cur)
  /\ task' = [task EXCEPT ![t] = AfterError(t)]
  /\ UNCHANGED <<unsent, queue, accepted, phase, hints, settler, db, published,
                 troubled, fails>>

\* The transaction in progress commits or not.
Undecided(t) ==
  \/ UNCHANGED <<fact, pending, logs>>
  \/ /\ task[t].stage = "record" /\ Encodes(task[t].cur)
     /\ WriteFacts(task[t].cur) /\ UNCHANGED logs
  \/ /\ task[t].stage = "project" /\ LogEncodes(task[t].cur)
     /\ WriteLogs(task[t].cur) /\ UNCHANGED <<fact, pending>>

\* The database reports an error, and the transaction is rolled back.
InsertFails(t) ==
  /\ Fails /\ phase # "abort" /\ task[t] # Idle
  /\ task' = [task EXCEPT ![t] = AfterError(t)]
  /\ UNCHANGED <<unsent, queue, accepted, phase, hints, settler, db, published>>

\* A timeout is not retried.
InsertTimesOut(t) ==
  /\ Fails /\ phase # "abort" /\ task[t] # Idle /\ Undecided(t)
  /\ task' = [task EXCEPT ![t] = Individually(task[t].rest)]
  /\ UNCHANGED <<unsent, queue, accepted, phase, hints, settler, receipts, used,
                 balance, published>>

\* abort_all
TaskAborted(t) ==
  /\ phase = "abort" /\ task[t] # Idle /\ Undecided(t)
  /\ task' = [task EXCEPT ![t] = Idle]
  /\ UNCHANGED <<unsent, queue, accepted, phase, hints, settler, receipts, used,
                 balance, published, troubled, fails>>

--------------------
\* The settlement worker

\* A receipt does not exist and the key belongs to the charged user.
Mine(i) == /\ fact[i] # NoRow /\ fact[i].cost # Unpriced
           /\ OwnerOf[fact[i].key] = fact[i].user

\* Mutant of Claims: a receipt does not keep a fact from being claimed.
ClaimsAny(S) == {i \in S : Mine(i)}

\* The receipts the transaction inserts.
Claims(S) == {i \in S : Mine(i) /\ receipts[i] = Unpriced}

UserCost(C, u) == MapThenSumSet(LAMBDA i : fact[i].cost, {i \in C : fact[i].user = u})
KeyCost(C, k) == MapThenSumSet(LAMBDA i : fact[i].cost, {i \in C : fact[i].key = k})

\* Checked arithmetic: one account out of range aborts the transaction.
Fits(C) ==
  /\ \A u \in Users : balance[u] - UserCost(C, u) >= -AmountMax
  /\ \A k \in Keys : used[k] + KeyCost(C, k) <= AmountMax

\* settle_batch, up to its commit.
SettleRows(S) ==
  LET C == Claims(S)
  IN /\ Fits(C)
     /\ receipts' = [i \in EventIds |-> IF i \in C THEN fact[i].cost ELSE receipts[i]]
     /\ balance' = [u \in Users |-> balance[u] - UserCost(C, u)]
     /\ used' = [k \in Keys |-> used[k] + KeyCost(C, k)]
     /\ pending' = pending \ C

\* settle_pending reads eligible work from a snapshot.
Scan(S) ==
  /\ S \subseteq {i \in pending : Mine(i)}
  /\ LET n == Cardinality({i \in pending : Mine(i)})
     IN Cardinality(S) = IF n < RecoverySize THEN n ELSE RecoverySize

TakeHint ==
  /\ settler.stage = "idle" /\ hints # <<>>
  /\ settler' = [stage |-> "settle", ids |-> Head(hints)] /\ hints' = Tail(hints)
  /\ UNCHANGED <<unsent, queue, accepted, phase, task, db, published, troubled, fails>>

\* The recovery interval ticks while there is something to settle.
Tick ==
  /\ settler.stage = "idle"
  /\ \E S \in SUBSET pending :
       S # {} /\ Scan(S) /\ settler' = [stage |-> "settle", ids |-> S]
  /\ UNCHANGED <<unsent, queue, accepted, phase, task, hints, db, published,
                 troubled, fails>>

\* The channel of hints is closed and empty.
SettlerDrains ==
  /\ settler.stage = "idle" /\ hints = <<>> /\ phase = "ended"
  /\ settler' = [settler EXCEPT !.stage = "reconcile"]
  /\ UNCHANGED <<unsent, queue, accepted, phase, task, hints, db, published,
                 troubled, fails>>

\* reconcile_all_settlements, one slice.
ReconcileScan ==
  /\ settler.stage = "reconcile"
  /\ \E S \in SUBSET pending :
       /\ Scan(S)
       /\ settler' = IF S = {} THEN [stage |-> "done", ids |-> {}]
                     ELSE [stage |-> "reconciling", ids |-> S]
  /\ UNCHANGED <<unsent, queue, accepted, phase, task, hints, db, published,
                 troubled, fails>>

\* A full slice may have left more.
AfterSettle ==
  [stage |-> IF settler.stage = "settle" THEN "idle"
             ELSE IF Cardinality(settler.ids) < RecoverySize THEN "done"
             ELSE "reconcile",
   ids |-> {}]

\* An error or a timeout ends reconciliation.
AfterFailure ==
  [stage |-> IF settler.stage = "settle" THEN "idle" ELSE "done", ids |-> {}]

SettlerBusy == settler.stage \in {"settle", "reconciling"}

\* The outcomes arrive and admission is told of every settled key.
Settle ==
  /\ SettlerBusy /\ SettleRows(settler.ids)
  /\ published' = [k \in Keys |-> IF \E i \in Claims(settler.ids) : fact[i].key = k
                                  THEN used'[k] ELSE published[k]]
  /\ settler' = AfterSettle
  /\ UNCHANGED <<unsent, queue, accepted, phase, task, hints, fact, logs, troubled,
                 fails>>

\* An account would leave its range.
SettleRefused ==
  /\ SettlerBusy /\ ~Fits(Claims(settler.ids))
  /\ settler' = AfterFailure /\ troubled' = TRUE
  /\ UNCHANGED <<unsent, queue, accepted, phase, task, hints, db, published, fails>>

\* An error, or a timeout after which the transaction may have committed.
SettleFails ==
  /\ Fails /\ SettlerBusy
  /\ SettleRows(settler.ids) \/ UNCHANGED <<receipts, balance, used, pending>>
  /\ settler' = AfterFailure
  /\ UNCHANGED <<unsent, queue, accepted, phase, task, hints, fact, logs, published>>

\* shutdown gives up on its workers.
JoinTimeout ==
  /\ Fails /\ phase # "run" /\ settler.stage # "done"
  /\ phase' = IF phase = "ended" THEN phase ELSE "abort"
  /\ \/ SettlerBusy /\ SettleRows(settler.ids)
     \/ UNCHANGED <<receipts, balance, used, pending>>
  /\ settler' = [stage |-> "done", ids |-> {}]
  /\ UNCHANGED <<unsent, queue, accepted, task, hints, fact, logs, published>>

\* Another process settles the same work.
OtherSettles(i) ==
  /\ i \in pending /\ Mine(i) /\ SettleRows({i})
  /\ UNCHANGED <<unsent, queue, accepted, phase, task, hints, settler, fact, logs,
                 published, troubled, fails>>

--------------------
Stopped == phase = "ended" /\ settler.stage = "done"

Workers ==
  \/ InsertEnds \/ TakeHint \/ Tick \/ SettlerDrains \/ ReconcileScan
  \/ Settle \/ SettleRefused
  \/ \E t \in Tasks : \/ Receive(t) \/ Record(t) \/ RecordRefused(t) \/ Project(t)
                      \/ ProjectRefused(t) \/ TaskAborted(t)

Next ==
  \/ Workers \/ Shutdown \/ DrainDeadline \/ SettleFails \/ JoinTimeout
  \/ \E e \in Events : TryRecord(e)
  \/ \E t \in Tasks : InsertFails(t) \/ InsertTimesOut(t)
  \/ \E i \in EventIds : OtherSettles(i)

Spec == Init /\ [][Next]_vars

\* The runtime polls every task; a refused transaction may be refused again.
FairSpec ==
  /\ Spec
  /\ WF_vars(InsertEnds) /\ WF_vars(TakeHint) /\ WF_vars(Settle \/ SettleRefused)
  /\ SF_vars(Tick) /\ WF_vars(SettlerDrains) /\ WF_vars(ReconcileScan)
  /\ \A t \in Tasks : WF_vars(Receive(t) \/ Record(t) \/ RecordRefused(t)
                              \/ Project(t) \/ ProjectRefused(t) \/ TaskAborted(t))
--------------------
TypeOK ==
  /\ unsent \subseteq Events /\ queue \in Seq(Events) /\ accepted \subseteq Events
  /\ phase \in {"run", "drain", "abort", "ended"}
  /\ \A t \in Tasks : /\ task[t].stage \in {"idle", "record", "project"}
                      /\ task[t].cur \subseteq task[t].batch
                      /\ task[t].rest \subseteq Events
  /\ hints \in Seq(SUBSET EventIds) /\ settler.ids \subseteq EventIds
  /\ pending \subseteq EventIds /\ receipts \in [EventIds -> Int]

\* Receipts alone move money: what a user has paid and a key has used is the
\* sum of the receipts, whatever batches fail half way, are retried event by
\* event, or are settled by two processes.
MoneyFollowsReceipts ==
  LET paid == {i \in EventIds : receipts[i] # Unpriced}
  IN /\ \A u \in Users : balance[u] = -UserCost(paid, u)
     /\ \A k \in Keys : used[k] = KeyCost(paid, k)

\* Pending work is work without a receipt, and a billable fact without one is
\* pending: a retry of a batch whose facts were written and settled meanwhile
\* neither resurrects work nor loses it.
PendingIsUnpaid ==
  pending = {i \in EventIds : /\ fact[i] # NoRow /\ fact[i].cost # Unpriced
                         /\ receipts[i] = Unpriced}

\* "Shutdown closes insertion acceptance, drains accepted events": without
\* errors, timeouts or deadlines a stopped worker has stored the fact of every
\* accepted event that encodes, whatever its batch-mates are, and its log
\* unless its status is invalid.
StopDrains ==
  Stopped /\ ~troubled =>
    \A e \in accepted :
      /\ e.fits # "neither" => fact[e.id] = e
      /\ e.fits = "both" /\ e.valid => logs[e.id] = e

\* "... then lets settlement consume all hints and reconcile any durable rows
\* whose hint was dropped": such a stop leaves no eligible fact unsettled.
StopSettles == Stopped /\ ~troubled => \A i \in pending : ~Mine(i)

\* Admission never counts use that is not durable.
PublishedIsDurable == \A k \in Keys : published[k] <= used[k]

\* A requested shutdown ends.
StopEnds == (phase = "drain") ~> Stopped

=============================================================================
