-------------------------- MODULE RequestLogLedger --------------------------
\* The database half of the request-log pipeline, from the ingress table
\* to the balances:
\*   src/workers/durable_request_log.rs  metering, projection and
\*                                       settlement workers,
\*   src/persistence/metering.rs, postgres_control_plane.rs and
\*   sqlite/pipeline.rs                  the transactions they run.
\*
\* Several gateways may share the database; each runs the three workers,
\* none of which locks the rows it loads.  One action is one transaction:
\* unique keys and row locks make each of them atomic at its commit.  A
\* transaction whose answer is lost may have committed.  An event is a
\* record of what the tables tell apart.
EXTENDS Integers, FiniteSets, Functions

CONSTANTS
  Ids,        \* request-log UUIDs
  Users,
  Keys,       \* API keys
  OwnerOf,    \* api_keys.user_id
  Events,     \* terminal events that spools deliver, possibly several times
  Legacy,     \* facts that the migrations derived from older logs
  Gateways,
  Metering, Projecting, Settling,  \* gateways whose worker of a kind may run
  BatchSize,  \* projection_batch_size and settlement_batch_size
  NoEvent,    \* no row
  SlowRetries,\* a deferral lasts longer than the work that is due
  MaxRows,    \* bound on ingress rows ever written
  MaxGrants,  \* bound on balance changes by an administrator
  MaxFails    \* bound on failing transactions and dying gateways, or Unbounded

Unbounded == -1
NoCred == "unknown"       \* upstream_credential is absent
NoAttr == "none"
InvalidView == 0          \* response status out of range
Unpriced == -1            \* amount_state unknown, invalid or not_applicable

EventSpace ==
  [id: Ids, user: Users, key: Keys, cost: Nat \cup {Unpriced}, cred: STRING,
   view: Nat, decodes: BOOLEAN]

ASSUME LedgerAssumption ==
  /\ IsFiniteSet(Ids) /\ IsFiniteSet(Gateways)
  /\ OwnerOf \in [Keys -> Users]
  /\ Events \subseteq EventSpace /\ Legacy \subseteq EventSpace
  /\ NoEvent \notin EventSpace /\ \A e \in Events : e.cred # NoAttr
  /\ SlowRetries \in BOOLEAN
  /\ \A e, f \in Legacy : e.id = f.id => e = f
  /\ Metering \cup Projecting \cup Settling \subseteq Gateways
  /\ BatchSize \in Nat \ {0} /\ MaxRows \in Nat /\ MaxGrants \in Nat
  /\ MaxFails \in Nat \cup {Unbounded}

VARIABLES
  \* request_log_ingest; the event of a deleted row stays in ev as history
  nextSeq,     \* next value of the sequence
  ev,          \* event of each row
  rows,        \* rows that exist
  metered,     \* metered_at is set
  mTried,      \* metering_attempt_count > 0
  mLater,      \* metering_next_attempt_at is in the future
  pTried, pLater,  \* attempt_count and next_attempt_at
  \* request_metering_facts and what hangs on it
  fact,        \* event the fact was taken from
  attr,        \* request_credential_attributions
  pending,     \* request_settlement_pending
  receipts,    \* request_settlements: amount claimed
  logs,        \* request_logs
  balance, used,   \* users.balance_amount, api_keys.quota_used_amount
  version,     \* users.updated_at
  \* administrator
  seen,        \* balance and version shown in the console
  granted,     \* what administrators meant to add to each balance
  \* workers of each gateway
  mWork,       \* rows the metering worker has still to materialize
  mSolo,       \* one by one
  mDefer,      \* rows it is about to defer
  pWork, pSolo, pDefer,    \* the same for the projection worker
  ack,         \* rows it is about to delete
  scan,        \* ids the settlement worker has read from pending
  \* history and bounds
  charged,     \* how often each request has been charged
  fails

ingress == <<nextSeq, ev, rows, metered>>
meterRetry == <<mTried, mLater>>
projRetry == <<pTried, pLater>>
facts == <<fact, attr, pending>>
accounts == <<receipts, balance, used, version, charged>>
admin == <<seen, granted>>
meterWorker == <<mWork, mSolo, mDefer>>
projWorker == <<pWork, pSolo, pDefer, ack>>
vars == <<nextSeq, ev, rows, metered, mTried, mLater, pTried, pLater, fact,
          attr, pending, receipts, logs, balance, used, version, seen, granted,
          mWork, mSolo, mDefer, pWork, pSolo, pDefer, ack, scan, charged, fails>>

Seqs == 1..MaxRows
Billable(e) == e.cost # Unpriced      \* amount_state priced or zero_by_policy
LegacyIds == {e.id : e \in Legacy}
LegacyOf(i) == CHOOSE e \in Legacy : e.id = i

TypeOK ==
  /\ nextSeq \in 1..(MaxRows + 1) /\ ev \in [Seqs -> Events \cup {NoEvent}]
  /\ rows \subseteq Seqs /\ metered \subseteq Seqs
  /\ mTried \subseteq Seqs /\ mLater \subseteq Seqs
  /\ pTried \subseteq Seqs /\ pLater \subseteq Seqs
  /\ fact \in [Ids -> Events \cup Legacy \cup {NoEvent}]
  /\ attr \in [Ids -> STRING]
  /\ pending \subseteq Ids
  /\ receipts \in [Ids -> Nat \cup {Unpriced}]
  /\ logs \in [Ids -> Events \cup Legacy \cup {NoEvent}]
  /\ balance \in [Users -> Int] /\ used \in [Keys -> Int]
  /\ version \in [Users -> Nat]
  /\ seen \in [Users -> [balance: Int, version: Nat]]
  /\ granted \in [Users -> Nat]
  /\ mWork \in [Gateways -> SUBSET Seqs] /\ mSolo \in [Gateways -> BOOLEAN]
  /\ mDefer \in [Gateways -> SUBSET Seqs]
  /\ pWork \in [Gateways -> SUBSET Seqs] /\ pSolo \in [Gateways -> BOOLEAN]
  /\ pDefer \in [Gateways -> SUBSET Seqs] /\ ack \in [Gateways -> SUBSET Seqs]
  /\ scan \in [Gateways -> SUBSET Ids]
  /\ charged \in [Ids -> Nat] /\ fails \in Nat

\* Something fails, which the bound allows.
Failure ==
  \/ MaxFails = Unbounded /\ UNCHANGED fails
  \/ fails < MaxFails /\ fails' = fails + 1

Init ==
  /\ nextSeq = 1 /\ ev = [s \in Seqs |-> NoEvent]
  /\ rows = {} /\ metered = {}
  /\ mTried = {} /\ mLater = {} /\ pTried = {} /\ pLater = {}
  /\ fact = [i \in Ids |-> IF i \in LegacyIds THEN LegacyOf(i) ELSE NoEvent]
  /\ attr = [i \in Ids |-> NoAttr]
  /\ pending = {i \in LegacyIds : Billable(LegacyOf(i))}
  /\ receipts = [i \in Ids |-> Unpriced]
  /\ logs = fact
  /\ balance = [u \in Users |-> 0] /\ used = [k \in Keys |-> 0]
  /\ version = [u \in Users |-> 0]
  /\ seen = [u \in Users |-> [balance |-> 0, version |-> 0]]
  /\ granted = [u \in Users |-> 0]
  /\ mWork = [g \in Gateways |-> {}] /\ mSolo = [g \in Gateways |-> FALSE]
  /\ mDefer = [g \in Gateways |-> {}]
  /\ pWork = [g \in Gateways |-> {}] /\ pSolo = [g \in Gateways |-> FALSE]
  /\ pDefer = [g \in Gateways |-> {}] /\ ack = [g \in Gateways |-> {}]
  /\ scan = [g \in Gateways |-> {}]
  /\ charged = [i \in Ids |-> 0] /\ fails = 0

--------------------
\* accept_batch: a spool delivers an event, for the first time or again.
\* Duplicates are allowed here.
Accept(e) ==
  /\ nextSeq <= MaxRows
  /\ ev' = [ev EXCEPT ![nextSeq] = e]
  /\ rows' = rows \cup {nextSeq}
  /\ nextSeq' = nextSeq + 1
  /\ UNCHANGED <<metered, meterRetry, projRetry, facts, accounts, logs, admin,
                 meterWorker, projWorker, scan, fails>>

\* LIMIT over ORDER BY sequence.
Oldest(R) == {s \in R : Cardinality({t \in R : t < s}) < BatchSize}

\* Loaded rows are handled together, or in order one by one.
Part(W, solo) == IF solo THEN {s \in W : \A t \in W : s <= t} ELSE W

--------------------
\* The metering worker

\* load_pending, and the decoding of its rows.
MeterLoad(g) ==
  /\ g \in Metering /\ mWork[g] = {} /\ mDefer[g] = {}
  /\ LET R == Oldest({s \in rows : s \notin metered /\ s \notin mLater})
         ok == {s \in R : ev[s].decodes}
     IN /\ R # {}
        /\ mWork' = [mWork EXCEPT ![g] = ok]
        /\ mDefer' = [mDefer EXCEPT ![g] = R \ ok]
        /\ mSolo' = [mSolo EXCEPT ![g] = ok \cap mTried # {}]
  /\ UNCHANGED <<ingress, meterRetry, projRetry, facts, accounts, logs, admin,
                 projWorker, scan, fails>>

IdsOf(S) == {ev[s].id : s \in S}

\* first[i] is the row of S from which an insert for id i takes its values.
FirstOf(S, first) ==
  \A i \in IdsOf(S) : /\ ev[first[i]].id = i
                      /\ \A s \in S : ev[s].id = i => first[i] <= s

\* The columns of request_metering_facts.
SameFact(e, f) == /\ e.user = f.user /\ e.key = f.key /\ e.cost = f.cost

Inserted(S) == {i \in IdsOf(S) : fact[i] = NoEvent}

\* Only a new fact takes a known credential; a fact older than the
\* attribution table may only be declared unknown.
Attributes(s, S) ==
  /\ SameFact(fact'[ev[s].id], ev[s])
  /\ ev[s].id \in Inserted(S) \/ ev[s].cred = NoCred

\* write_facts
WriteFacts(S) ==
  \E first \in [IdsOf(S) -> S] :
    /\ FirstOf(S, first)
    /\ fact' = [i \in Ids |-> IF i \in Inserted(S) THEN ev[first[i]] ELSE fact[i]]
    /\ pending' = pending \cup {i \in Inserted(S) : Billable(fact'[i])}
    /\ attr' \in [Ids -> {attr[i] : i \in Ids} \cup {ev[s].cred : s \in S}]
    /\ \A i \in Ids :
         LET A == {s \in S : ev[s].id = i /\ Attributes(s, S)}
         IN IF attr[i] # NoAttr \/ A = {}
            THEN attr'[i] = attr[i]
            ELSE \E s \in A : (\A t \in A : s <= t) /\ attr'[i] = ev[s].cred

\* MeteringWriteOutcome::Accepted
Accepted(s) == SameFact(fact'[ev[s].id], ev[s]) /\ attr'[ev[s].id] = ev[s].cred

\* materialize: facts, pending settlements and metered_at in one transaction.
MaterializeRows(S) ==
  /\ WriteFacts(S)
  /\ metered' = metered \cup {s \in S \cap rows : Accepted(s)}

\* The answer arrives: conflicting rows are to be deferred.
Materialize(g) ==
  /\ mWork[g] # {} /\ mDefer[g] = {}
  /\ LET S == Part(mWork[g], mSolo[g])
     IN /\ MaterializeRows(S)
        /\ mWork' = [mWork EXCEPT ![g] = @ \ S]
        /\ mDefer' = [mDefer EXCEPT ![g] = {s \in S : ~Accepted(s)}]
  /\ UNCHANGED <<nextSeq, ev, rows, meterRetry, projRetry, accounts, logs, admin,
                 mSolo, projWorker, scan, fails>>

\* It fails or times out, and may have committed in the second case.
MaterializeFails(g) ==
  /\ Failure
  /\ mWork[g] # {} /\ mDefer[g] = {}
  /\ LET S == Part(mWork[g], mSolo[g])
     IN /\ MaterializeRows(S) \/ UNCHANGED <<facts, metered>>
        /\ mWork' = [mWork EXCEPT ![g] = @ \ S]
        /\ mDefer' = [mDefer EXCEPT ![g] = S]
  /\ UNCHANGED <<nextSeq, ev, rows, meterRetry, projRetry, accounts, logs, admin,
                 mSolo, projWorker, scan>>

\* Mutant of MeterDefer: the row stays due.
MeterDeferNoDelay(g) ==
  /\ mDefer[g] # {}
  /\ mTried' = mTried \cup (mDefer[g] \cap (rows \ metered))
  /\ UNCHANGED mLater
  /\ mDefer' = [mDefer EXCEPT ![g] = {}]
  /\ UNCHANGED <<ingress, projRetry, facts, accounts, logs, admin, mWork, mSolo,
                 projWorker, scan, fails>>

\* defer_metering touches rows that are not metered.
MeterDefer(g) ==
  /\ mDefer[g] # {}
  /\ mTried' = mTried \cup (mDefer[g] \cap (rows \ metered))
  /\ mLater' = mLater \cup (mDefer[g] \cap (rows \ metered))
  /\ mDefer' = [mDefer EXCEPT ![g] = {}]
  /\ UNCHANGED <<ingress, projRetry, facts, accounts, logs, admin, mWork, mSolo,
                 projWorker, scan, fails>>

\* It fails as well, and the rows stay due.
MeterDeferFails(g) ==
  /\ Failure
  /\ mDefer[g] # {}
  /\ mDefer' = [mDefer EXCEPT ![g] = {}]
  /\ UNCHANGED <<ingress, meterRetry, projRetry, facts, accounts, logs, admin,
                 mWork, mSolo, projWorker, scan>>

\* The time of the next attempt comes.
MeterDue(s) ==
  /\ s \in mLater
  /\ SlowRetries => rows \subseteq metered \cup mLater
  /\ mLater' = mLater \ {s}
  /\ UNCHANGED <<ingress, mTried, projRetry, facts, accounts, logs, admin,
                 meterWorker, projWorker, scan, fails>>

--------------------
\* The projection worker

ProjLoad(g) ==
  /\ g \in Projecting /\ pWork[g] = {} /\ ack[g] = {} /\ pDefer[g] = {}
  /\ LET R == Oldest({s \in rows \cap metered : s \notin pLater})
         ok == {s \in R : ev[s].decodes}
     IN /\ R # {}
        /\ pWork' = [pWork EXCEPT ![g] = ok]
        /\ pDefer' = [pDefer EXCEPT ![g] = R \ ok]
  /\ pSolo' = [pSolo EXCEPT ![g] = FALSE]
  /\ UNCHANGED <<ingress, meterRetry, projRetry, facts, accounts, logs, admin,
                 meterWorker, ack, scan, fails>>

\* project_batch: the first valid event of an id without a log is inserted.
InsertLogs(S) ==
  LET V == {s \in S : ev[s].view # InvalidView}
  IN \E first \in [IdsOf(V) -> V] :
       /\ FirstOf(V, first)
       /\ logs' = [i \in Ids |-> IF i \in IdsOf(V) /\ logs[i] = NoEvent
                                 THEN ev[first[i]] ELSE logs[i]]

\* StoredRequestLog::matches compares everything but the credential.
SameLog(e, f) == SameFact(e, f) /\ e.view = f.view

\* Inserted or ExactDuplicate; other rows conflict or have an invalid status.
Projected(s) == ev[s].view # InvalidView /\ SameLog(logs'[ev[s].id], ev[s])

\* Rows that did not decode are deferred before the others are projected.
Project(g) ==
  /\ pWork[g] # {} /\ (pSolo[g] \/ pDefer[g] = {})
  /\ LET S == Part(pWork[g], pSolo[g])
     IN /\ InsertLogs(S)
        /\ pWork' = [pWork EXCEPT ![g] = @ \ S]
        /\ ack' = [ack EXCEPT ![g] = @ \cup {s \in S : Projected(s)}]
        /\ pDefer' = [pDefer EXCEPT ![g] = @ \cup {s \in S : ~Projected(s)}]
  /\ UNCHANGED <<ingress, meterRetry, projRetry, facts, accounts, admin,
                 meterWorker, pSolo, scan, fails>>

\* An error or a timeout, after which the insert may be there.  After an error
\* a batch with a row that failed before is projected row by row.
ProjectFails(g) ==
  /\ Failure
  /\ pWork[g] # {} /\ (pSolo[g] \/ pDefer[g] = {})
  /\ LET S == Part(pWork[g], pSolo[g])
     IN /\ InsertLogs(S) \/ UNCHANGED logs
        /\ \/ /\ ~pSolo[g] /\ pWork[g] \cap pTried # {}
              /\ pSolo' = [pSolo EXCEPT ![g] = TRUE]
              /\ UNCHANGED <<pWork, pDefer>>
           \/ /\ pWork' = [pWork EXCEPT ![g] = @ \ S]
              /\ pDefer' = [pDefer EXCEPT ![g] = @ \cup S]
              /\ UNCHANGED pSolo
  /\ UNCHANGED <<ingress, meterRetry, projRetry, facts, accounts, admin,
                 meterWorker, ack, scan>>

\* The trigger on deletes from request_log_ingest.
MayDelete(s) ==
  s \in metered /\ fact[ev[s].id] # NoEvent /\ logs[ev[s].id] # NoEvent

\* acknowledge_ingest
Acknowledge(g) ==
  /\ pWork[g] = {} /\ ack[g] # {}
  /\ \A s \in ack[g] \cap rows \cap metered : MayDelete(s)
  /\ rows' = rows \ (ack[g] \cap metered)
  /\ ack' = [ack EXCEPT ![g] = {}]
  /\ UNCHANGED <<nextSeq, ev, metered, meterRetry, projRetry, facts, accounts,
                 logs, admin, meterWorker, pWork, pSolo, pDefer, scan, fails>>

\* It fails: the rows stay and are projected again.
AcknowledgeFails(g) ==
  /\ Failure
  /\ pWork[g] = {} /\ ack[g] # {}
  /\ ack' = [ack EXCEPT ![g] = {}]
  /\ UNCHANGED <<ingress, meterRetry, projRetry, facts, accounts, logs, admin,
                 meterWorker, pWork, pSolo, pDefer, scan>>

\* defer_rows
ProjDefer(g) ==
  /\ pWork[g] = {} \/ ~pSolo[g]
  /\ ack[g] = {} /\ pDefer[g] # {}
  /\ pTried' = pTried \cup (pDefer[g] \cap rows)
  /\ pLater' = pLater \cup (pDefer[g] \cap rows)
  /\ pDefer' = [pDefer EXCEPT ![g] = {}]
  /\ UNCHANGED <<ingress, meterRetry, facts, accounts, logs, admin, meterWorker,
                 pWork, pSolo, ack, scan, fails>>

ProjDeferFails(g) ==
  /\ Failure
  /\ pWork[g] = {} \/ ~pSolo[g]
  /\ ack[g] = {} /\ pDefer[g] # {}
  /\ pDefer' = [pDefer EXCEPT ![g] = {}]
  /\ UNCHANGED <<ingress, meterRetry, projRetry, facts, accounts, logs, admin,
                 meterWorker, pWork, pSolo, ack, scan>>

ProjDue(s) ==
  /\ s \in pLater
  /\ SlowRetries => rows \cap metered \subseteq pLater
  /\ pLater' = pLater \ {s}
  /\ UNCHANGED <<ingress, meterRetry, pTried, facts, accounts, logs, admin,
                 meterWorker, projWorker, scan, fails>>

--------------------
\* The settlement worker

\* Ids whose fact has an amount and belongs to the owner of its key.
Eligible(i) ==
  fact[i] # NoEvent /\ Billable(fact[i]) /\ OwnerOf[fact[i].key] = fact[i].user

\* settle_pending's query, a transaction of its own.
SettleScan(g) ==
  /\ g \in Settling /\ scan[g] = {}
  /\ LET E == {i \in pending : Eligible(i)}
     IN \E S \in SUBSET E :
          /\ S # {} /\ (Cardinality(S) = BatchSize \/ S = E)
          /\ Cardinality(S) <= BatchSize
          /\ scan' = [scan EXCEPT ![g] = S]
  /\ UNCHANGED <<ingress, meterRetry, projRetry, facts, accounts, logs, admin,
                 meterWorker, projWorker, fails>>

\* Mutant of Claims: existing receipts are claimed again.
ClaimsAgain(S) == {i \in S : Eligible(i)}

\* The receipts this transaction inserts: the claim.
Claims(S) == {i \in S : Eligible(i) /\ receipts[i] = Unpriced}

\* The sum of the values of f.
Total(f) == FoldFunction(+, 0, f)

OfUser(C, u) == {i \in C : fact[i].user = u}
OfKey(C, k) == {i \in C : fact[i].key = k}

\* The account updates, once per user and key, and the end of pending work.
MoveMoney(C) ==
  /\ balance' = [u \in Users |->
       IF OfUser(C, u) = {} THEN balance[u]
       ELSE balance[u] - Total([i \in OfUser(C, u) |-> fact[i].cost])]
  /\ used' = [k \in Keys |->
       IF OfKey(C, k) = {} THEN used[k]
       ELSE used[k] + Total([i \in OfKey(C, k) |-> fact[i].cost])]
  /\ pending' = pending \ C
  /\ charged' = [i \in Ids |-> IF i \in C THEN charged[i] + 1 ELSE charged[i]]

\* Every update of a user moves updated_at.
Touch(C) ==
  version' = [u \in Users |-> IF OfUser(C, u) = {} THEN version[u]
                              ELSE version[u] + 1]

\* settle_batch moves money for new receipts only.
Settle(C) ==
  /\ receipts' = [i \in Ids |-> IF i \in C THEN fact[i].cost ELSE receipts[i]]
  /\ MoveMoney(C) /\ Touch(C)

\* It commits, whether or not its answer arrives.
SettleBatch(g) ==
  /\ scan[g] # {}
  /\ Settle(Claims(scan[g]))
  /\ scan' = [scan EXCEPT ![g] = {}]
  /\ UNCHANGED <<ingress, meterRetry, projRetry, fact, attr, logs, admin,
                 meterWorker, projWorker, fails>>

\* An error rolls the claims back with the account updates.
SettleFails(g) ==
  /\ Failure
  /\ scan[g] # {}
  /\ scan' = [scan EXCEPT ![g] = {}]
  /\ UNCHANGED <<ingress, meterRetry, projRetry, facts, accounts, logs, admin,
                 meterWorker, projWorker>>

--------------------
\* Administration and failures

\* The console shows a balance.
AdminRead(u) ==
  /\ seen' = [seen EXCEPT ![u] = [balance |-> balance[u], version |-> version[u]]]
  /\ UNCHANGED <<ingress, meterRetry, projRetry, facts, accounts, logs, granted,
                 meterWorker, projWorker, scan, fails>>

\* Mutant of AdminSet: updated_at is not compared.
AdminSetBlind(u) ==
  /\ granted[u] < MaxGrants
  /\ balance' = [balance EXCEPT ![u] = seen[u].balance + 1]
  /\ version' = [version EXCEPT ![u] = @ + 1]
  /\ granted' = [granted EXCEPT ![u] = @ + 1]
  /\ UNCHANGED <<ingress, meterRetry, projRetry, facts, receipts, used, charged,
                 logs, seen, meterWorker, projWorker, scan, fails>>

\* A balance one above the one shown is written, unless updated_at has moved.
AdminSet(u) ==
  /\ granted[u] < MaxGrants
  /\ version[u] = seen[u].version
  /\ balance' = [balance EXCEPT ![u] = seen[u].balance + 1]
  /\ version' = [version EXCEPT ![u] = @ + 1]
  /\ granted' = [granted EXCEPT ![u] = @ + 1]
  /\ UNCHANGED <<ingress, meterRetry, projRetry, facts, receipts, used, charged,
                 logs, seen, meterWorker, projWorker, scan, fails>>

\* A gateway dies: whatever its workers had loaded is forgotten.
Crash(g) ==
  /\ Failure
  /\ mWork' = [mWork EXCEPT ![g] = {}] /\ mDefer' = [mDefer EXCEPT ![g] = {}]
  /\ mSolo' = [mSolo EXCEPT ![g] = FALSE]
  /\ pWork' = [pWork EXCEPT ![g] = {}] /\ pDefer' = [pDefer EXCEPT ![g] = {}]
  /\ pSolo' = [pSolo EXCEPT ![g] = FALSE] /\ ack' = [ack EXCEPT ![g] = {}]
  /\ scan' = [scan EXCEPT ![g] = {}]
  /\ UNCHANGED <<ingress, meterRetry, projRetry, facts, accounts, logs, admin>>

--------------------
Worker(g) ==
  \/ MeterLoad(g) \/ Materialize(g) \/ MaterializeFails(g)
  \/ MeterDefer(g) \/ MeterDeferFails(g)
  \/ ProjLoad(g) \/ Project(g) \/ ProjectFails(g)
  \/ Acknowledge(g) \/ AcknowledgeFails(g) \/ ProjDefer(g) \/ ProjDeferFails(g)
  \/ SettleScan(g) \/ SettleBatch(g) \/ SettleFails(g) \/ Crash(g)

Next ==
  \/ \E e \in Events : Accept(e)
  \/ \E g \in Gateways : Worker(g)
  \/ \E s \in Seqs : MeterDue(s) \/ ProjDue(s)
  \/ \E u \in Users : AdminRead(u) \/ AdminSet(u)

Spec == Init /\ [][Next]_vars

\* The metering and settlement workers of a gateway that runs are polled forever,
\* a transaction that is retried forever succeeds at some time, and the time of
\* a deferral passes.  Billing needs nothing of the projection worker.
FairSpec ==
  /\ Spec
  /\ \A g \in Gateways :
       /\ SF_vars(MeterLoad(g)) /\ SF_vars(Materialize(g))
       /\ SF_vars(MeterDefer(g))
       /\ SF_vars(SettleScan(g)) /\ SF_vars(SettleBatch(g))
  /\ \A s \in Seqs : SF_vars(MeterDue(s))

--------------------
\* Properties

Settled == {i \in Ids : receipts[i] # Unpriced}

\* Money: a balance is what administrators granted less the receipts of the
\* user, and a key's quota is the sum of its receipts.  settle_batch only moves
\* money for receipts it inserted, and an administrator's absolute balance is
\* refused when a settlement has moved updated_at since it was read.
MoneyConserved ==
  /\ \A u \in Users :
       balance[u] = granted[u] - Total([i \in OfUser(Settled, u) |-> receipts[i]])
  /\ \A k \in Keys :
       used[k] = Total([i \in OfKey(Settled, k) |-> receipts[i]])

\* No request is charged twice, however often its event is replayed, scanned
\* or settled by several gateways, and it is charged what its fact says.
ChargedOnce ==
  \A i \in Ids : /\ charged[i] = IF i \in Settled THEN 1 ELSE 0
                 /\ i \in Settled => receipts[i] = fact[i].cost

\* Every billable fact waits for its settlement or has a receipt, never both:
\* a replay does not resurrect settled work, a rollback does not lose it.
BillableTracked ==
  \A i \in Ids :
    IF fact[i] # NoEvent /\ Billable(fact[i])
    THEN (i \in pending) <=> (i \notin Settled)
    ELSE i \notin pending /\ i \notin Settled

\* An ingress row disappears only when exactly its event is in the facts, the
\* attribution and the log.
RowsKeptUntilRecorded ==
  \A s \in 1..(nextSeq - 1) :
    \/ s \in rows
    \/ /\ SameFact(fact[ev[s].id], ev[s]) /\ attr[ev[s].id] = ev[s].cred
       /\ SameLog(logs[ev[s].id], ev[s])

\* A request is paid once and stays in the tables until it is recorded.
PaidOnce == ChargedOnce /\ BillableTracked /\ RowsKeptUntilRecorded

\* The ledger implements Billing.
B == INSTANCE Billing WITH
       NoBill <- NoEvent, Total <- Total,
       bill <- [i \in Ids |-> IF fact[i] # NoEvent /\ Billable(fact[i])
                              THEN fact[i] ELSE NoEvent],
       paid <- Settled

BillingSpec == B!Spec

--------------------
\* The inductive invariant behind ChargedOnce, BillableTracked,
\* RowsKeptUntilRecorded and BillingSpec

Written == 1..(nextSeq - 1)

\* Types of what the invariant is about.
TableTypes ==
  /\ nextSeq \in 1..(MaxRows + 1)
  /\ ev \in [Seqs -> Events \cup {NoEvent}]
  /\ \A s \in Written : ev[s] \in Events
  /\ rows \subseteq Written /\ metered \subseteq Written
  /\ fact \in [Ids -> EventSpace \cup {NoEvent}]
  /\ pending \subseteq Ids
  /\ receipts \in [Ids -> Nat \cup {Unpriced}]
  /\ logs \in [Ids -> EventSpace \cup {NoEvent}]
  /\ charged \in [Ids -> Nat]

WorkerTypes ==
  /\ mWork \in [Gateways -> SUBSET Written]
  /\ pWork \in [Gateways -> SUBSET Written]
  /\ ack \in [Gateways -> SUBSET Written]
  /\ scan \in [Gateways -> SUBSET Ids]

Recorded(s) ==
  /\ fact[ev[s].id] # NoEvent /\ SameFact(fact[ev[s].id], ev[s])
  /\ attr[ev[s].id] = ev[s].cred

Logged(s) == logs[ev[s].id] # NoEvent /\ SameLog(logs[ev[s].id], ev[s])

\* metered_at says that the event of the row is recorded.
MeteredInv == \A s \in metered : Recorded(s)

\* The projection worker only holds metered rows, and only acknowledges rows
\* whose log is there.
ProjectionInv ==
  \A g \in Gateways : /\ pWork[g] \subseteq metered /\ ack[g] \subseteq metered
                      /\ \A s \in ack[g] : Logged(s)

DeletedInv == \A s \in Written : s \notin rows => Recorded(s) /\ Logged(s)

\* An updated_at that has not moved stands for a balance that has not.
VersionInv ==
  /\ version \in [Users -> Nat] /\ DOMAIN seen = Users /\ DOMAIN balance = Users
  /\ \A u \in Users : /\ seen[u].version \in Nat
                      /\ seen[u].version <= version[u]
                      /\ version[u] = seen[u].version
                           => balance[u] = seen[u].balance

LedgerInv ==
  /\ TableTypes /\ WorkerTypes /\ MeteredInv /\ ProjectionInv /\ DeletedInv
  /\ ChargedOnce /\ BillableTracked

=============================================================================
