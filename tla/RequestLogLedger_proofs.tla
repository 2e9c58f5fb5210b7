---------------------- MODULE RequestLogLedger_proofs ----------------------
\* Proofs about RequestLogLedger, for any number of gateways, requests,
\* deliveries of the same event, failing transactions and crashes.  Every
\* step preserves LedgerInv; a step of the ledger is then a step of
\* Billing or leaves its state alone.
EXTENDS RequestLogLedger, Sequences, FiniteSetTheorems, WellFoundedInduction, TLAPS

\* Rows that a worker takes from its batch belong to the batch.
LEMMA PartSubset == ASSUME NEW W, NEW b PROVE Part(W, b) \subseteq W
BY DEF Part

\* What write_facts leaves alone and what it adds.
LEMMA WriteFactsEffect ==
  ASSUME TableTypes, NEW S, S \subseteq Written, WriteFacts(S)
  PROVE  /\ fact' \in [Ids -> EventSpace \cup {NoEvent}]
         /\ \A i \in Ids : fact[i] # NoEvent => fact'[i] = fact[i]
         /\ \A s \in S : ev[s].id \in Ids /\ fact'[ev[s].id] # NoEvent
         /\ \A i \in Ids : attr[i] # NoAttr => attr'[i] = attr[i]
         /\ pending' = pending \cup {i \in Ids : /\ fact[i] = NoEvent
                                                 /\ fact'[i] # NoEvent
                                                 /\ Billable(fact'[i])}
<1>1. \A s \in S : ev[s] \in EventSpace /\ ev[s].id \in Ids
  BY LedgerAssumption DEF TableTypes, EventSpace
<1>2. IdsOf(S) \subseteq Ids BY <1>1 DEF IdsOf
<1>3. PICK first \in [IdsOf(S) -> S] :
        /\ FirstOf(S, first)
        /\ fact' = [i \in Ids |-> IF i \in Inserted(S) THEN ev[first[i]] ELSE fact[i]]
        /\ pending' = pending \cup {i \in Inserted(S) : Billable(fact'[i])}
        /\ attr' \in [Ids -> {attr[i] : i \in Ids} \cup {ev[s].cred : s \in S}]
        /\ \A i \in Ids :
             LET A == {s \in S : ev[s].id = i /\ Attributes(s, S)}
             IN IF attr[i] # NoAttr \/ A = {}
                THEN attr'[i] = attr[i]
                ELSE \E s \in A : (\A t \in A : s <= t) /\ attr'[i] = ev[s].cred
  BY DEF WriteFacts
<1>4. \A i \in Inserted(S) : i \in Ids /\ fact[i] = NoEvent /\ ev[first[i]] \in EventSpace
  BY <1>1, <1>2, <1>3 DEF Inserted
<1>5. fact' \in [Ids -> EventSpace \cup {NoEvent}] BY <1>3, <1>4 DEF TableTypes
<1>6. \A i \in Ids : fact[i] # NoEvent => fact'[i] = fact[i] BY <1>3, <1>4
<1>7. \A s \in S : ev[s].id \in Ids /\ fact'[ev[s].id] # NoEvent
  BY <1>1, <1>3, <1>4, LedgerAssumption DEF Inserted, IdsOf
<1>9. \A i \in Ids : attr[i] # NoAttr => attr'[i] = attr[i] BY <1>3
<1>10. \A i \in Ids : (i \in Inserted(S)) <=> (fact[i] = NoEvent /\ fact'[i] # NoEvent)
  BY <1>3, <1>4, LedgerAssumption
<1>11. Inserted(S) \subseteq Ids BY <1>2 DEF Inserted
<1> QED BY <1>3, <1>5, <1>6, <1>7, <1>9, <1>10, <1>11

\* What project_batch leaves alone and what it adds.
LEMMA InsertLogsEffect ==
  ASSUME TableTypes, NEW S, S \subseteq Written, InsertLogs(S)
  PROVE  /\ logs' \in [Ids -> EventSpace \cup {NoEvent}]
         /\ \A i \in Ids : logs[i] # NoEvent => logs'[i] = logs[i]
         /\ \A s \in S : ev[s].view # InvalidView => logs'[ev[s].id] # NoEvent
<1> DEFINE V == {s \in S : ev[s].view # InvalidView}
<1>1. \A s \in V : ev[s] \in EventSpace /\ ev[s].id \in Ids
  BY LedgerAssumption DEF TableTypes, EventSpace
<1>2. PICK first \in [IdsOf(V) -> V] :
        /\ FirstOf(V, first)
        /\ logs' = [i \in Ids |-> IF i \in IdsOf(V) /\ logs[i] = NoEvent
                                  THEN ev[first[i]] ELSE logs[i]]
  BY DEF InsertLogs
<1>3. \A i \in IdsOf(V) : ev[first[i]] \in EventSpace BY <1>1, <1>2
<1>4. \A s \in V : ev[s].id \in IdsOf(V) BY DEF IdsOf
<1>5. logs' \in [Ids -> EventSpace \cup {NoEvent}] BY <1>2, <1>3 DEF TableTypes
<1>6. \A s \in V : logs'[ev[s].id] # NoEvent BY <1>1, <1>2, <1>3, <1>4, LedgerAssumption
<1> QED BY <1>2, <1>5, <1>6

tables == <<nextSeq, ev, rows, metered, fact, attr, pending, receipts, logs,
            charged>>

\* The steps that change a table of the invariant.
MeterStep(S) == /\ MaterializeRows(S)
                /\ UNCHANGED <<nextSeq, ev, rows, receipts, logs, charged>>
LogStep(S) == /\ InsertLogs(S)
              /\ UNCHANGED <<nextSeq, ev, rows, metered, fact, attr, pending,
                             receipts, charged>>

\* Everything else leaves the tables alone.
LEMMA StepKinds ==
  ASSUME LedgerInv, [Next]_vars
  PROVE  \/ UNCHANGED tables
         \/ \E e \in Events : Accept(e)
         \/ \E g \in Gateways : \E S \in SUBSET mWork[g] : MeterStep(S)
         \/ \E g \in Gateways : \E S \in SUBSET pWork[g] : LogStep(S)
         \/ \E g \in Gateways : Acknowledge(g)
         \/ \E g \in Gateways : SettleBatch(g)
<1> USE DEF tables, ingress, facts, accounts, vars
<1>1. CASE \E g \in Gateways : Materialize(g) \/ MaterializeFails(g)
  <2>1. PICK g \in Gateways : Materialize(g) \/ MaterializeFails(g) BY <1>1
  <2>2. Part(mWork[g], mSolo[g]) \in SUBSET mWork[g] BY PartSubset
  <2> QED BY <2>1, <2>2 DEF Materialize, MaterializeFails, MeterStep
<1>2. CASE \E g \in Gateways : Project(g) \/ ProjectFails(g)
  <2>1. PICK g \in Gateways : Project(g) \/ ProjectFails(g) BY <1>2
  <2>2. Part(pWork[g], pSolo[g]) \in SUBSET pWork[g] BY PartSubset
  <2> QED BY <2>1, <2>2 DEF Project, ProjectFails, LogStep
<1>3. CASE \E g \in Gateways : \/ MeterLoad(g) \/ MeterDefer(g)
                               \/ MeterDeferFails(g) \/ ProjLoad(g)
                               \/ AcknowledgeFails(g) \/ ProjDefer(g)
                               \/ ProjDeferFails(g) \/ SettleScan(g)
                               \/ SettleFails(g) \/ Crash(g)
  BY <1>3 DEF MeterLoad, MeterDefer, MeterDeferFails, ProjLoad, AcknowledgeFails, ProjDefer,
    ProjDeferFails, SettleScan, SettleFails, Crash
<1>4. CASE \E s \in Seqs : MeterDue(s) \/ ProjDue(s) BY <1>4 DEF MeterDue, ProjDue
<1>5. CASE \E u \in Users : AdminRead(u) \/ AdminSet(u) BY <1>5 DEF AdminRead, AdminSet
<1>6. CASE UNCHANGED vars BY <1>6
<1> QED BY <1>1, <1>2, <1>3, <1>4, <1>5, <1>6 DEF Next, Worker

\* Rows are written once and keep their event.
LEMMA WrittenGrows ==
  ASSUME LedgerInv, [Next]_vars
  PROVE  Written \subseteq Written' /\ \A s \in Written : ev'[s] = ev[s]
<1> USE DEF LedgerInv, TableTypes, Written, tables
<1>1. CASE \E e \in Events : Accept(e) BY <1>1, LedgerAssumption DEF Accept, Seqs
<1>2. CASE ev' = ev /\ nextSeq' = nextSeq BY <1>2
<1> QED BY <1>1, <1>2, StepKinds DEF MeterStep, LogStep, Acknowledge, SettleBatch, ingress

LEMMA StepTables ==
  ASSUME LedgerInv, [Next]_vars PROVE TableTypes'
<1> USE DEF LedgerInv, TableTypes, WorkerTypes, Written
<1>1. CASE UNCHANGED tables BY <1>1 DEF tables
<1>2. CASE \E e \in Events : Accept(e)
  <2>1. PICK e \in Events : Accept(e) BY <1>2
  <2>2. /\ nextSeq \in Seqs /\ ev' = [ev EXCEPT ![nextSeq] = e]
        /\ rows' = rows \cup {nextSeq} /\ nextSeq' = nextSeq + 1
        /\ UNCHANGED <<metered, fact, attr, pending, receipts, logs, charged>>
    BY <2>1, LedgerAssumption DEF Accept, Seqs, facts, accounts
  <2>3. /\ nextSeq' \in 1..(MaxRows + 1)
        /\ rows' \subseteq Written' /\ metered' \subseteq Written'
    BY <2>2, LedgerAssumption DEF Seqs
  <2>4. ev' \in [Seqs -> Events \cup {NoEvent}] /\ \A s \in Written' : ev'[s] \in Events
    BY <2>2, LedgerAssumption DEF Seqs
  <2> QED BY <2>2, <2>3, <2>4
<1>3. CASE \E g \in Gateways : \E S \in SUBSET mWork[g] : MeterStep(S)
  <2>0. PICK g \in Gateways : \E S \in SUBSET mWork[g] : MeterStep(S) BY <1>3
  <2>1. PICK S \in SUBSET mWork[g] : MeterStep(S) BY <2>0
  <2>2. S \subseteq Written BY <2>1
  <2>3. WriteFacts(S) /\ metered' \subseteq metered \cup S BY <2>1 DEF MeterStep, MaterializeRows
  <2>4. /\ fact' \in [Ids -> EventSpace \cup {NoEvent}]
        /\ pending' \subseteq Ids
    BY <2>2, <2>3, WriteFactsEffect
  <2> QED BY <2>1, <2>2, <2>3, <2>4 DEF MeterStep
<1>4. CASE \E g \in Gateways : \E S \in SUBSET pWork[g] : LogStep(S)
  <2>0. PICK g \in Gateways : \E S \in SUBSET pWork[g] : LogStep(S) BY <1>4
  <2>1. PICK S \in SUBSET pWork[g] : LogStep(S) BY <2>0
  <2>2. logs' \in [Ids -> EventSpace \cup {NoEvent}] BY <2>1, InsertLogsEffect DEF LogStep
  <2> QED BY <2>1, <2>2 DEF LogStep
<1>5. CASE \E g \in Gateways : Acknowledge(g) BY <1>5 DEF Acknowledge, facts, accounts
<1>6. CASE \E g \in Gateways : SettleBatch(g)
  <2>1. PICK g \in Gateways : SettleBatch(g) BY <1>6
  <2>2. \A i \in Claims(scan[g]) : fact[i].cost \in Nat
    BY LedgerAssumption DEF Claims, Eligible, Billable, EventSpace
  <2> QED BY <2>1, <2>2 DEF SettleBatch, Settle, MoveMoney, ingress
<1> QED BY <1>1, <1>2, <1>3, <1>4, <1>5, <1>6, StepKinds

LEMMA StepWorkerTypes ==
  ASSUME LedgerInv, [Next]_vars PROVE WorkerTypes'
<1> USE DEF WorkerTypes, meterWorker, projWorker, vars
<1>1. WorkerTypes /\ TableTypes /\ Written \subseteq Written' BY WrittenGrows DEF LedgerInv
<1>2. \A R : Oldest(R) \subseteq R BY DEF Oldest
<1>3. CASE \E g \in Gateways : MeterLoad(g)
  <2>1. PICK g \in Gateways : MeterLoad(g) BY <1>3
  <2> DEFINE R == Oldest({s \in rows : s \notin metered /\ s \notin mLater})
             ok == {s \in R : ev[s].decodes}
  <2>2. ok \subseteq Written' BY <1>1, <1>2 DEF TableTypes
  <2>3. mWork' = [mWork EXCEPT ![g] = ok] /\ UNCHANGED <<projWorker, scan>> BY <2>1 DEF MeterLoad
  <2> QED BY <1>1, <2>2, <2>3
<1>4. CASE \E g \in Gateways : ProjLoad(g)
  <2>1. PICK g \in Gateways : ProjLoad(g) BY <1>4
  <2> DEFINE R == Oldest({s \in rows \cap metered : s \notin pLater})
             ok == {s \in R : ev[s].decodes}
  <2>2. ok \subseteq Written' BY <1>1, <1>2 DEF TableTypes
  <2>3. pWork' = [pWork EXCEPT ![g] = ok] /\ UNCHANGED <<meterWorker, ack, scan>>
    BY <2>1 DEF ProjLoad
  <2> QED BY <1>1, <2>2, <2>3
<1>5. CASE \E g \in Gateways : Materialize(g) \/ MaterializeFails(g)
  <2>1. PICK g \in Gateways : Materialize(g) \/ MaterializeFails(g) BY <1>5
  <2>2. /\ mWork' = [mWork EXCEPT ![g] = @ \ Part(mWork[g], mSolo[g])]
        /\ UNCHANGED <<projWorker, scan>>
    BY <2>1 DEF Materialize, MaterializeFails
  <2> QED BY <1>1, <2>2
<1>6. CASE \E g \in Gateways : Project(g)
  <2>1. PICK g \in Gateways : Project(g) BY <1>6
  <2> DEFINE S == Part(pWork[g], pSolo[g])
             T == {s \in S : Projected(s)}
  <2>2. /\ pWork' = [pWork EXCEPT ![g] = @ \ S]
        /\ ack' = [ack EXCEPT ![g] = @ \cup T]
        /\ UNCHANGED <<meterWorker, scan>>
    BY <2>1 DEF Project
  <2>3. T \subseteq Written' BY <1>1, PartSubset
  <2> HIDE DEF T, S
  <2> QED BY <1>1, <2>2, <2>3
<1>7. CASE \E g \in Gateways : ProjectFails(g)
  <2>1. PICK g \in Gateways : ProjectFails(g) BY <1>7
  <2>2. /\ \/ pWork' = [pWork EXCEPT ![g] = @ \ Part(pWork[g], pSolo[g])]
           \/ pWork' = pWork
        /\ UNCHANGED <<meterWorker, ack, scan>>
    BY <2>1 DEF ProjectFails
  <2> QED BY <1>1, <2>2
<1>8. CASE \E g \in Gateways : Acknowledge(g) \/ AcknowledgeFails(g)
  BY <1>1, <1>8 DEF Acknowledge, AcknowledgeFails
<1>9. CASE \E g \in Gateways : SettleScan(g)
  <2>1. PICK g \in Gateways : SettleScan(g) BY <1>9
  <2>2. \E S \in SUBSET pending : scan' = [scan EXCEPT ![g] = S] BY <2>1 DEF SettleScan
  <2>3. UNCHANGED <<meterWorker, projWorker>> BY <2>1 DEF SettleScan
  <2> QED BY <1>1, <2>2, <2>3 DEF TableTypes
<1>10. CASE \E g \in Gateways : SettleBatch(g) \/ SettleFails(g) \/ Crash(g)
  BY <1>1, <1>10 DEF SettleBatch, SettleFails, Crash
<1>11. CASE \/ \E g \in Gateways : \/ MeterDefer(g) \/ MeterDeferFails(g)
                                   \/ ProjDefer(g) \/ ProjDeferFails(g)
            \/ \E e \in Events : Accept(e)
            \/ \E s \in Seqs : MeterDue(s) \/ ProjDue(s)
            \/ \E u \in Users : AdminRead(u) \/ AdminSet(u)
            \/ UNCHANGED vars
  <2>1. UNCHANGED <<mWork, pWork, ack, scan>>
    BY <1>11 DEF MeterDefer, MeterDeferFails, ProjDefer, ProjDeferFails, Accept, MeterDue,
      ProjDue, AdminRead, AdminSet
  <2> QED BY <1>1, <2>1
<1> QED BY <1>3, <1>4, <1>5, <1>6, <1>7, <1>8, <1>9, <1>10, <1>11 DEF Next, Worker

\* Facts, attributions and logs are written once.
LEMMA NeverRewritten ==
  ASSUME LedgerInv, [Next]_vars
  PROVE  \A i \in Ids : /\ fact[i] # NoEvent => fact'[i] = fact[i]
                        /\ attr[i] # NoAttr => attr'[i] = attr[i]
                        /\ logs[i] # NoEvent => logs'[i] = logs[i]
<1> USE DEF LedgerInv, WorkerTypes
<1>1. CASE \E g \in Gateways : \E S \in SUBSET mWork[g] : MeterStep(S)
  <2>1. PICK g \in Gateways : \E S \in SUBSET mWork[g] : MeterStep(S) BY <1>1
  <2>2. PICK S \in SUBSET mWork[g] : MeterStep(S) BY <2>1
  <2>3. S \subseteq Written /\ WriteFacts(S) /\ logs' = logs
    BY <2>2 DEF MeterStep, MaterializeRows
  <2> QED BY <2>3, WriteFactsEffect
<1>2. CASE \E g \in Gateways : \E S \in SUBSET pWork[g] : LogStep(S)
  <2>1. PICK g \in Gateways : \E S \in SUBSET pWork[g] : LogStep(S) BY <1>2
  <2>2. PICK S \in SUBSET pWork[g] : LogStep(S) BY <2>1
  <2>3. S \subseteq Written /\ InsertLogs(S) /\ UNCHANGED <<fact, attr>> BY <2>2 DEF LogStep
  <2> QED BY <2>3, InsertLogsEffect
<1>3. CASE UNCHANGED <<fact, attr, logs>> BY <1>3
<1> QED BY <1>1, <1>2, <1>3, StepKinds DEF tables, Accept, Acknowledge, SettleBatch, facts

\* So a recorded or logged row stays so.
LEMMA StaysRecorded ==
  ASSUME LedgerInv, [Next]_vars, NEW s \in Written
  PROVE  (Recorded(s) => Recorded(s)') /\ (Logged(s) => Logged(s)')
<1>1. ev'[s] = ev[s] /\ ev[s].id \in Ids /\ ev[s].cred # NoAttr
  BY WrittenGrows, LedgerAssumption DEF LedgerInv, TableTypes, EventSpace
<1> QED BY <1>1, NeverRewritten DEF Recorded, Logged, SameFact, SameLog

LEMMA StepMetered ==
  ASSUME LedgerInv, [Next]_vars PROVE MeteredInv'
<1>1. \A s \in metered : Recorded(s)' BY StaysRecorded DEF LedgerInv, TableTypes, MeteredInv
<1>2. CASE \E g \in Gateways : \E S \in SUBSET mWork[g] : MeterStep(S)
  <2>1. PICK g \in Gateways : \E S \in SUBSET mWork[g] : MeterStep(S) BY <1>2
  <2>2. PICK S \in SUBSET mWork[g] : MeterStep(S) BY <2>1
  <2>3. S \subseteq Written BY <2>2 DEF LedgerInv, WorkerTypes
  <2>4. /\ WriteFacts(S) /\ ev' = ev
        /\ metered' = metered \cup {s \in S \cap rows : Accepted(s)}
    BY <2>2 DEF MeterStep, MaterializeRows
  <2>5. \A s \in S : fact'[ev[s].id] # NoEvent BY <2>3, <2>4, WriteFactsEffect DEF LedgerInv
  <2> QED BY <1>1, <2>4, <2>5 DEF MeteredInv, Recorded, Accepted
<1>3. CASE metered' = metered BY <1>1, <1>3 DEF MeteredInv
<1> QED BY <1>2, <1>3, StepKinds DEF tables, Accept, LogStep, Acknowledge, SettleBatch, ingress

LEMMA MeteredGrows ==
  ASSUME LedgerInv, [Next]_vars PROVE metered \subseteq metered'
BY StepKinds DEF tables, Accept, MeterStep, MaterializeRows, LogStep, Acknowledge, SettleBatch,
  ingress

LEMMA StepProjection ==
  ASSUME LedgerInv, [Next]_vars PROVE ProjectionInv'
<1> USE DEF ProjectionInv, projWorker, vars
<1>1. /\ pWork \in [Gateways -> SUBSET Written] /\ ack \in [Gateways -> SUBSET Written]
      /\ metered \subseteq metered'
      /\ \A g \in Gateways : /\ pWork[g] \subseteq metered' /\ ack[g] \subseteq metered'
                             /\ \A s \in ack[g] : Logged(s)'
  BY MeteredGrows, StaysRecorded DEF LedgerInv, WorkerTypes
<1>2. CASE \E g \in Gateways : ProjLoad(g)
  <2>1. PICK g \in Gateways : ProjLoad(g) BY <1>2
  <2> DEFINE R == Oldest({s \in rows \cap metered : s \notin pLater})
             ok == {s \in R : ev[s].decodes}
  <2>2. ok \subseteq metered' BY <1>1 DEF Oldest
  <2>3. pWork' = [pWork EXCEPT ![g] = ok] /\ UNCHANGED ack BY <2>1 DEF ProjLoad
  <2> QED BY <1>1, <2>2, <2>3
<1>3. CASE \E g \in Gateways : Project(g)
  <2>1. PICK g \in Gateways : Project(g) BY <1>3
  <2> DEFINE S == Part(pWork[g], pSolo[g])
             T == {s \in S : Projected(s)}
  <2>2. /\ pWork' = [pWork EXCEPT ![g] = @ \ S]
        /\ ack' = [ack EXCEPT ![g] = @ \cup T]
        /\ InsertLogs(S) /\ ev' = ev
    BY <2>1 DEF Project, ingress
  <2>3. S \subseteq Written /\ T \subseteq metered' BY <1>1, PartSubset
  <2>4. \A s \in S : ev[s].view # InvalidView => logs'[ev[s].id] # NoEvent
    BY <2>2, <2>3, InsertLogsEffect DEF LedgerInv
  <2>5. \A s \in T : Logged(s)' BY <2>2, <2>4 DEF Projected, Logged
  <2> HIDE DEF T, S
  <2> QED BY <1>1, <2>2, <2>3, <2>5
<1>4. CASE \E g \in Gateways : ProjectFails(g)
  <2>1. PICK g \in Gateways : ProjectFails(g) BY <1>4
  <2>2. /\ \/ pWork' = [pWork EXCEPT ![g] = @ \ Part(pWork[g], pSolo[g])]
           \/ pWork' = pWork
        /\ UNCHANGED ack
    BY <2>1 DEF ProjectFails
  <2> QED BY <1>1, <2>2
<1>5. CASE \E g \in Gateways : Acknowledge(g) \/ AcknowledgeFails(g)
  BY <1>1, <1>5 DEF Acknowledge, AcknowledgeFails
<1>6. CASE \E g \in Gateways : Crash(g) BY <1>1, <1>6 DEF Crash
<1>7. CASE UNCHANGED <<pWork, ack>> BY <1>1, <1>7
<1>8. ASSUME NEW g \in Gateways,
             \/ MeterLoad(g) \/ Materialize(g) \/ MaterializeFails(g)
             \/ MeterDefer(g) \/ MeterDeferFails(g) \/ ProjDefer(g)
             \/ ProjDeferFails(g) \/ SettleScan(g) \/ SettleBatch(g) \/ SettleFails(g)
      PROVE  UNCHANGED <<pWork, ack>>
  BY <1>8 DEF MeterLoad, Materialize, MaterializeFails, MeterDefer, MeterDeferFails, ProjDefer,
    ProjDeferFails, SettleScan, SettleBatch, SettleFails
<1>9. CASE \/ \E e \in Events : Accept(e)
           \/ \E s \in Seqs : MeterDue(s) \/ ProjDue(s)
           \/ \E u \in Users : AdminRead(u) \/ AdminSet(u)
           \/ UNCHANGED vars
  BY <1>7, <1>9 DEF Accept, MeterDue, ProjDue, AdminRead, AdminSet
<1> QED BY <1>2, <1>3, <1>4, <1>5, <1>6, <1>7, <1>8, <1>9 DEF Next, Worker

LEMMA StepDeleted ==
  ASSUME LedgerInv, [Next]_vars PROVE DeletedInv'
<1>1. \A s \in Written : s \notin rows => Recorded(s)' /\ Logged(s)'
  BY StaysRecorded DEF LedgerInv, DeletedInv
<1>2. CASE \E g \in Gateways : Acknowledge(g)
  <2>1. PICK g \in Gateways : Acknowledge(g) BY <1>2
  <2>2. rows' = rows \ (ack[g] \cap metered) /\ Written' = Written
    BY <2>1 DEF Acknowledge, Written
  <2>3. \A s \in ack[g] \cap metered : s \in Written /\ Recorded(s) /\ Logged(s)
    BY DEF LedgerInv, TableTypes, ProjectionInv, MeteredInv
  <2>4. \A s \in ack[g] \cap metered : Recorded(s)' /\ Logged(s)' BY <2>3, StaysRecorded
  <2> QED BY <1>1, <2>2, <2>4 DEF DeletedInv
<1>3. CASE \E e \in Events : Accept(e)
  <2>1. rows' = rows \cup {nextSeq} /\ nextSeq' = nextSeq + 1 BY <1>3 DEF Accept
  <2>2. Written' = Written \cup {nextSeq}
    BY <2>1, LedgerAssumption DEF LedgerInv, TableTypes, Written
  <2> QED BY <1>1, <2>1, <2>2 DEF DeletedInv
<1>4. CASE UNCHANGED <<rows, nextSeq>> BY <1>1, <1>4 DEF DeletedInv, Written
<1> QED BY <1>2, <1>3, <1>4, StepKinds DEF tables, MeterStep, LogStep, SettleBatch, ingress

\* A settlement claims unpaid billable requests and pays each of them once.
LEMMA SettleEffect ==
  ASSUME LedgerInv, NEW g \in Gateways, SettleBatch(g)
  PROVE  /\ Claims(scan[g]) \subseteq Ids
         /\ \A i \in Claims(scan[g]) :
              /\ fact[i] # NoEvent /\ Billable(fact[i]) /\ fact[i].cost \in Nat
              /\ i \notin Settled
         /\ \A i \in Ids : receipts'[i] = IF i \in Claims(scan[g])
                                          THEN fact[i].cost ELSE receipts[i]
         /\ \A i \in Ids : charged'[i] = IF i \in Claims(scan[g])
                                         THEN charged[i] + 1 ELSE charged[i]
         /\ pending' = pending \ Claims(scan[g])
         /\ fact' = fact
<1>1. Claims(scan[g]) \subseteq Ids BY DEF Claims, LedgerInv, WorkerTypes
<1>2. \A i \in Claims(scan[g]) :
        fact[i] # NoEvent /\ Billable(fact[i]) /\ i \notin Settled
  BY DEF Claims, Eligible, Settled
<1>3. \A i \in Claims(scan[g]) : fact[i].cost \in Nat
  BY <1>1, <1>2 DEF LedgerInv, TableTypes, EventSpace, Billable
<1> QED BY <1>1, <1>2, <1>3 DEF SettleBatch, Settle, MoveMoney

LEMMA StepCharged ==
  ASSUME LedgerInv, [Next]_vars PROVE ChargedOnce'
<1>1. CASE \E g \in Gateways : SettleBatch(g)
  <2>1. PICK g \in Gateways : SettleBatch(g) BY <1>1
  <2>2. SUFFICES ASSUME NEW i \in Ids
                 PROVE  /\ charged'[i] = IF i \in Settled' THEN 1 ELSE 0
                        /\ i \in Settled' => receipts'[i] = fact'[i].cost
    BY DEF ChargedOnce
  <2>3. /\ charged[i] = IF i \in Settled THEN 1 ELSE 0
        /\ i \in Settled => receipts[i] = fact[i].cost
    BY DEF LedgerInv, ChargedOnce
  <2>4. CASE i \in Claims(scan[g]) BY <2>1, <2>3, <2>4, SettleEffect DEF Settled, Unpriced
  <2>5. CASE i \notin Claims(scan[g]) BY <2>1, <2>3, <2>5, SettleEffect DEF Settled
  <2> QED BY <2>4, <2>5
<1>2. CASE UNCHANGED <<receipts, charged>>
  <2>1. \A i \in Settled : fact'[i] = fact[i]
    BY NeverRewritten DEF LedgerInv, BillableTracked, Settled
  <2> QED BY <1>2, <2>1 DEF LedgerInv, ChargedOnce, Settled
<1> QED BY <1>1, <1>2, StepKinds DEF tables, Accept, MeterStep, LogStep, Acknowledge, accounts

LEMMA StepBillable ==
  ASSUME LedgerInv, [Next]_vars PROVE BillableTracked'
<1>1. CASE \E g \in Gateways : SettleBatch(g)
  <2>1. PICK g \in Gateways : SettleBatch(g) BY <1>1
  <2>2. Settled' = Settled \cup Claims(scan[g]) BY <2>1, SettleEffect DEF Settled, Unpriced
  <2> QED BY <2>1, <2>2, SettleEffect DEF LedgerInv, BillableTracked
<1>2. CASE \E g \in Gateways : \E S \in SUBSET mWork[g] : MeterStep(S)
  <2>1. PICK g \in Gateways : \E S \in SUBSET mWork[g] : MeterStep(S) BY <1>2
  <2>2. PICK S \in SUBSET mWork[g] : MeterStep(S) BY <2>1
  <2>3. S \subseteq Written /\ WriteFacts(S) /\ Settled' = Settled
    BY <2>2 DEF MeterStep, MaterializeRows, LedgerInv, WorkerTypes, Settled
  <2>4. /\ \A i \in Ids : fact[i] # NoEvent => fact'[i] = fact[i]
        /\ pending' = pending \cup {i \in Ids : /\ fact[i] = NoEvent
                                                /\ fact'[i] # NoEvent
                                                /\ Billable(fact'[i])}
    BY <2>3, WriteFactsEffect DEF LedgerInv
  <2> QED BY <2>3, <2>4 DEF LedgerInv, BillableTracked
<1>3. CASE UNCHANGED <<fact, pending, receipts>> BY <1>3 DEF LedgerInv, BillableTracked, Settled
<1> QED BY <1>1, <1>2, <1>3, StepKinds DEF tables, Accept, LogStep, Acknowledge, accounts, facts

LEMMA InitLedger == Init => LedgerInv
<1> SUFFICES ASSUME Init PROVE LedgerInv OBVIOUS
<1>1. \A i \in LegacyIds : i \in Ids /\ LegacyOf(i) \in EventSpace
  BY LedgerAssumption DEF LegacyIds, LegacyOf, EventSpace
<1>2. Written = {} BY DEF Init, Written
<1>3. fact \in [Ids -> EventSpace \cup {NoEvent}] /\ pending \subseteq Ids BY <1>1 DEF Init
<1>4. /\ nextSeq \in 1..(MaxRows + 1) /\ ev \in [Seqs -> Events \cup {NoEvent}]
      /\ receipts \in [Ids -> Nat \cup {Unpriced}] /\ charged \in [Ids -> Nat]
  BY LedgerAssumption DEF Init
<1>5. TableTypes BY <1>2, <1>3, <1>4 DEF TableTypes, Init
<1>6. WorkerTypes /\ MeteredInv /\ ProjectionInv /\ DeletedInv
  BY <1>2 DEF Init, WorkerTypes, MeteredInv, ProjectionInv, DeletedInv
<1>7. Settled = {} /\ ChargedOnce BY DEF Init, Settled, ChargedOnce
<1>8. BillableTracked BY <1>1, <1>7, LedgerAssumption DEF Init, BillableTracked
<1> QED BY <1>5, <1>6, <1>7, <1>8 DEF LedgerInv

LEMMA StepLedger == LedgerInv /\ [Next]_vars => LedgerInv'
BY StepTables, StepWorkerTypes, StepMetered, StepProjection, StepDeleted, StepCharged,
  StepBillable DEF LedgerInv

\* LedgerInv is inductive.
THEOREM LedgerInvariant == Spec => []LedgerInv
BY InitLedger, StepLedger, PTL DEF Spec

\* However often an event is delivered, scanned or settled, and whatever
\* transaction fails or commits unseen, a request is charged at most once and
\* what its first fact says.
THEOREM ChargedAtMostOnce == Spec => []ChargedOnce
<1>1. LedgerInv => ChargedOnce BY DEF LedgerInv
<1> QED BY <1>1, LedgerInvariant, PTL

\* Every billable fact is pending or settled, and never both.
THEOREM BillableAlwaysTracked == Spec => []BillableTracked
<1>1. LedgerInv => BillableTracked BY DEF LedgerInv
<1> QED BY <1>1, LedgerInvariant, PTL

\* The projection worker deletes an ingress row only when its event is in the
\* facts, the attributions and the logs.
THEOREM RowsKept == Spec => []RowsKeptUntilRecorded
<1>1. LedgerInv => RowsKeptUntilRecorded
  BY DEF LedgerInv, DeletedInv, RowsKeptUntilRecorded, Written, Recorded, Logged
<1> QED BY <1>1, LedgerInvariant, PTL

\* Every request is paid once: the three together, whatever the gateways, the
\* failing transactions and the deaths.
THEOREM PaidOnceAlways == Spec => []PaidOnce
<1>1. ChargedOnce /\ BillableTracked /\ RowsKeptUntilRecorded => PaidOnce BY DEF PaidOnce
<1> QED BY <1>1, ChargedAtMostOnce, BillableAlwaysTracked, RowsKept, PTL

\* The balance of an administrator's page is current if its updated_at is.
THEOREM VersionInvariant == Spec => []VersionInv
<1> USE DEF VersionInv
<1>1. Init => VersionInv BY DEF Init
<1>2. VersionInv /\ [Next]_vars => VersionInv'
  <2> SUFFICES ASSUME VersionInv, [Next]_vars PROVE VersionInv' OBVIOUS
  <2>1. CASE \E g \in Gateways : SettleBatch(g)
    <3>1. PICK g \in Gateways : SettleBatch(g) BY <2>1
    <3> DEFINE C == Claims(scan[g])
    <3>2. /\ seen' = seen
          /\ balance' = [u \in Users |->
               IF OfUser(C, u) = {} THEN balance[u]
               ELSE balance[u] - Total([i \in OfUser(C, u) |-> fact[i].cost])]
          /\ version' = [u \in Users |-> IF OfUser(C, u) = {} THEN version[u]
                                         ELSE version[u] + 1]
      BY <3>1 DEF SettleBatch, Settle, MoveMoney, Touch, admin
    <3> HIDE DEF C
    <3>3. version' \in [Users -> Nat] /\ DOMAIN seen' = Users /\ DOMAIN balance' = Users BY <3>2
    <3>4. ASSUME NEW u \in Users
          PROVE  /\ seen'[u].version \in Nat /\ seen'[u].version <= version'[u]
                 /\ version'[u] = seen'[u].version => balance'[u] = seen'[u].balance
      <4>1. \/ balance'[u] = balance[u] /\ version'[u] = version[u]
            \/ version'[u] = version[u] + 1
        BY <3>2
      <4>2. /\ version[u] \in Nat /\ seen[u].version \in Nat /\ seen'[u] = seen[u]
            /\ seen[u].version <= version[u]
            /\ version[u] = seen[u].version => balance[u] = seen[u].balance
        BY <3>2
      <4> HIDE DEF VersionInv
      <4> QED BY <4>1, <4>2
    <3> QED BY <3>3, <3>4
  <2>2. CASE \E u \in Users : AdminRead(u) BY <2>2 DEF AdminRead, accounts
  <2>3. CASE \E u \in Users : AdminSet(u)
    <3>1. PICK u \in Users : AdminSet(u) BY <2>3
    <3>2. /\ seen' = seen /\ version' = [version EXCEPT ![u] = @ + 1]
          /\ balance' = [balance EXCEPT ![u] = seen[u].balance + 1]
      BY <3>1 DEF AdminSet
    <3>3. version' \in [Users -> Nat] /\ DOMAIN seen' = Users /\ DOMAIN balance' = Users BY <3>2
    <3>4. version'[u] = version[u] + 1 BY <3>2
    <3>5. \A v \in Users : v = u \/ (version'[v] = version[v] /\ balance'[v] = balance[v]) BY <3>2
    <3>6. ASSUME NEW v \in Users
          PROVE  /\ seen'[v].version \in Nat /\ seen'[v].version <= version'[v]
                 /\ version'[v] = seen'[v].version => balance'[v] = seen'[v].balance
      <4>1. \/ version'[v] = version[v] + 1
            \/ version'[v] = version[v] /\ balance'[v] = balance[v]
        BY <3>4, <3>5
      <4>2. /\ version[v] \in Nat /\ seen[v].version \in Nat /\ seen'[v] = seen[v]
            /\ seen[v].version <= version[v]
            /\ version[v] = seen[v].version => balance[v] = seen[v].balance
        BY <3>2
      <4> HIDE DEF VersionInv
      <4> QED BY <4>1, <4>2
    <3> QED BY <3>3, <3>6
  <2>4. CASE UNCHANGED <<balance, version, seen>> BY <2>4
  <2>5. ASSUME NEW g \in Gateways, Worker(g), ~SettleBatch(g)
        PROVE  UNCHANGED <<balance, version, seen>>
    BY <2>5 DEF Worker, MeterLoad, Materialize, MaterializeFails, MeterDefer, MeterDeferFails,
      ProjLoad, Project, ProjectFails, Acknowledge, AcknowledgeFails, ProjDefer, ProjDeferFails,
      SettleScan, SettleFails, Crash, accounts, admin
  <2>6. CASE \/ \E e \in Events : Accept(e)
             \/ \E s \in Seqs : MeterDue(s) \/ ProjDue(s)
             \/ UNCHANGED vars
    BY <2>4, <2>6 DEF Accept, MeterDue, ProjDue, accounts, admin, vars
  <2> QED BY <2>1, <2>2, <2>3, <2>4, <2>5, <2>6 DEF Next
<1> QED BY <1>1, <1>2, PTL DEF Spec

\* The bills of Billing.
Bill == [i \in Ids |-> IF fact[i] # NoEvent /\ Billable(fact[i]) THEN fact[i]
                       ELSE NoEvent]

\* A step of the ledger issues bills, pays a set of them, grants, or changes
\* nothing that Billing knows of.
LEMMA StepBilling ==
  ASSUME LedgerInv, VersionInv, [Next]_vars PROVE [B!Next]_(B!vars)
<1>1. ASSUME UNCHANGED <<receipts, balance, used>> PROVE B!Issue
  <2>1. Settled' = Settled BY <1>1 DEF Settled
  <2>2. \A i \in Ids : Bill[i] # NoEvent => Bill'[i] = Bill[i] BY NeverRewritten DEF Bill
  <2>3. DOMAIN Bill' = Ids BY DEF Bill
  <2> QED BY <1>1, <2>1, <2>2, <2>3 DEF B!Issue, Bill
<1>2. CASE \E g \in Gateways : SettleBatch(g)
  <2>1. PICK g \in Gateways : SettleBatch(g) BY <1>2
  <2> DEFINE C == Claims(scan[g])
  <2>2. C \in SUBSET (Ids \ Settled) BY <2>1, SettleEffect
  <2>3. \A i \in C : Bill[i] = fact[i] /\ Bill[i] # NoEvent BY <2>1, SettleEffect DEF Bill
  <2>4. Settled' = Settled \cup C BY <2>1, SettleEffect DEF Settled, Unpriced
  <2>5. Bill' = Bill BY <2>1, SettleEffect DEF Bill
  <2>6. \A u : B!UserBills(C, u) = OfUser(C, u) BY <2>3 DEF B!UserBills, OfUser, Bill
  <2>7. \A k : B!KeyBills(C, k) = OfKey(C, k) BY <2>3 DEF B!KeyBills, OfKey, Bill
  <2>8. \A u : [i \in OfUser(C, u) |-> Bill[i].cost] = [i \in OfUser(C, u) |-> fact[i].cost]
    BY <2>3 DEF OfUser
  <2>9. \A k : [i \in OfKey(C, k) |-> Bill[i].cost] = [i \in OfKey(C, k) |-> fact[i].cost]
    BY <2>3 DEF OfKey
  <2>10. balance' = [u \in Users |->
           IF B!UserBills(C, u) = {} THEN balance[u]
           ELSE balance[u] - Total([i \in B!UserBills(C, u) |-> Bill[i].cost])]
    BY <2>1, <2>6, <2>8 DEF SettleBatch, Settle, MoveMoney
  <2>11. used' = [k \in Keys |->
           IF B!KeyBills(C, k) = {} THEN used[k]
           ELSE used[k] + Total([i \in B!KeyBills(C, k) |-> Bill[i].cost])]
    BY <2>1, <2>7, <2>9 DEF SettleBatch, Settle, MoveMoney
  <2>12. B!Pay BY <2>2, <2>3, <2>4, <2>5, <2>10, <2>11 DEF B!Pay, Bill
  <2> QED BY <2>12 DEF B!Next
<1>3. CASE \E u \in Users : AdminSet(u)
  <2>1. PICK u \in Users : AdminSet(u) BY <1>3
  <2>2. seen[u].balance = balance[u] BY <2>1 DEF AdminSet, VersionInv
  <2>3. /\ balance' = [balance EXCEPT ![u] = balance[u] + 1]
        /\ UNCHANGED <<fact, receipts, used>>
    BY <2>1, <2>2 DEF AdminSet, facts
  <2>4. Bill' = Bill /\ Settled' = Settled BY <2>3 DEF Bill, Settled
  <2>5. B!Grant BY <2>3, <2>4 DEF B!Grant, Bill
  <2> QED BY <2>5 DEF B!Next
<1>4. ASSUME NEW g \in Gateways, Worker(g), ~SettleBatch(g)
      PROVE  UNCHANGED <<receipts, balance, used>>
  BY <1>4 DEF Worker, MeterLoad, Materialize, MaterializeFails, MeterDefer, MeterDeferFails,
    ProjLoad, Project, ProjectFails, Acknowledge, AcknowledgeFails, ProjDefer, ProjDeferFails,
    SettleScan, SettleFails, Crash, accounts
<1>5. CASE \/ \E e \in Events : Accept(e)
           \/ \E s \in Seqs : MeterDue(s) \/ ProjDue(s)
           \/ \E u \in Users : AdminRead(u)
           \/ UNCHANGED vars
  BY <1>1, <1>5 DEF Accept, MeterDue, ProjDue, AdminRead, accounts, vars, B!Next
<1> QED BY <1>1, <1>2, <1>3, <1>4, <1>5 DEF Next, B!Next

\* The pipeline implements Billing: each request has at most one bill, which
\* never changes and is paid at most once, and nothing but payments and grants
\* moves money.
THEOREM LedgerImplementsBilling == Spec => BillingSpec
<1>1. Init => B!Init BY DEF Init, B!Init, Settled
<1> QED BY <1>1, StepBilling, LedgerInvariant, VersionInvariant, PTL DEF Spec, BillingSpec, B!Spec

--------------------
\* Hosted: CodexQuotaWindows, the periods to which the recorded costs of a
\* Codex credential are charged.  It shares no state with the ledger.

CONSTANTS
  Starts, Lengths, Usages, Reported, Times, Tolerance, MatchWindow, MaxEvents, MaxPeriods, None

VARIABLES periods, events

Qta == INSTANCE CodexQuotaWindows

\* The module counts with the Cardinality of FiniteSets.
LEMMA SameCount == ASSUME NEW S PROVE Qta!Cardinality(S) = Cardinality(S)
BY DEF Qta!Cardinality, Cardinality

\* The constants as the arithmetic needs them.
LEMMA Numbers ==
  ASSUME Qta!WindowsAssumption
  PROVE  /\ Starts \subseteq Nat /\ Lengths \subseteq Nat \ {0} /\ Usages \subseteq Nat
         /\ Times \subseteq Nat /\ Tolerance \in Nat /\ MatchWindow \in Nat
         /\ None \notin Nat /\ None \notin Qta!Reasons
BY DEF Qta!WindowsAssumption, Qta!Reasons

\* A period that an answer opens.
LEMMA OpenedIs ==
  ASSUME Qta!WindowsAssumption, NEW o \in Qta!Observations, NEW at \in Nat
  PROVE  /\ Qta!Opened(o, at) \in Qta!Periods /\ Qta!PeriodSound(Qta!Opened(o, at))
         /\ Qta!Opened(o, at).start = o.start /\ Qta!Opened(o, at).length = o.length
         /\ Qta!Opened(o, at).reset = o.start + o.length
         /\ Qta!Opened(o, at).initial = o.used /\ Qta!Opened(o, at).last = o.used
         /\ Qta!Opened(o, at).seen = at /\ Qta!Opened(o, at).ended = None /\ Qta!Opened(o, at).reason = None
<1>1. o.start \in Nat /\ o.length \in Lengths /\ o.length \in Nat /\ o.used \in Usages
    BY Numbers DEF Qta!Observations
<1>2. None # "openai_official" BY Numbers DEF Qta!Reasons
<1> DEFINE r == o.start + o.length
<1>3. r \in Nat BY <1>1
<1>4. Qta!Opened(o, at) = [start |-> o.start, length |-> o.length, reset |-> r, initial |-> o.used,
                       last |-> o.used, seen |-> at, ended |-> None, reason |-> None]
    BY DEF Qta!Opened, Qta!ResetAt
<1> HIDE DEF r
<1>5. /\ Qta!Opened(o, at) \in Qta!Periods
      /\ Qta!Opened(o, at).start = o.start /\ Qta!Opened(o, at).length = o.length
      /\ Qta!Opened(o, at).reset = r
      /\ Qta!Opened(o, at).initial = o.used /\ Qta!Opened(o, at).last = o.used
      /\ Qta!Opened(o, at).seen = at /\ Qta!Opened(o, at).ended = None /\ Qta!Opened(o, at).reason = None
    BY <1>1, <1>3, <1>4 DEF Qta!Periods
<1>6. Qta!PeriodSound(Qta!Opened(o, at)) BY <1>2, <1>5 DEF Qta!PeriodSound, Qta!Hidden, r
<1> QED BY <1>5, <1>6 DEF r

\* The open period after an answer about it.
LEMMA AnsweredIs ==
  ASSUME NEW c \in Qta!Periods, NEW o \in Qta!Observations, NEW at \in Nat
  PROVE  /\ Qta!Answered(c, o, at) \in Qta!Periods
         /\ Qta!Answered(c, o, at).start = c.start /\ Qta!Answered(c, o, at).length = c.length
         /\ Qta!Answered(c, o, at).reset = c.reset /\ Qta!Answered(c, o, at).initial = c.initial
         /\ Qta!Answered(c, o, at).seen = at /\ Qta!Answered(c, o, at).last = o.used
         /\ Qta!Answered(c, o, at).ended = c.ended /\ Qta!Answered(c, o, at).reason = c.reason
<1>1. o.used \in Usages BY DEF Qta!Observations
<1> DEFINE b == [c EXCEPT !.last = o.used]
<1>2. /\ b \in Qta!Periods /\ b.start = c.start /\ b.length = c.length /\ b.reset = c.reset
      /\ b.initial = c.initial /\ b.last = o.used /\ b.ended = c.ended /\ b.reason = c.reason
    BY <1>1 DEF Qta!Periods
<1>3. Qta!Answered(c, o, at) = [b EXCEPT !.seen = at] BY DEF Qta!Answered
<1> HIDE DEF b
<1> QED BY <1>2, <1>3 DEF Qta!Periods

\* A period that another one ends.
LEMMA ClosedIs ==
  ASSUME NEW c \in Qta!Periods, NEW why \in Qta!Reasons, NEW at \in Nat
  PROVE  /\ Qta!Closed(c, why, at) \in Qta!Periods
         /\ Qta!Closed(c, why, at).start = c.start /\ Qta!Closed(c, why, at).length = c.length
         /\ Qta!Closed(c, why, at).reset = c.reset /\ Qta!Closed(c, why, at).initial = c.initial
         /\ Qta!Closed(c, why, at).seen = c.seen /\ Qta!Closed(c, why, at).last = c.last
         /\ Qta!Closed(c, why, at).ended = at /\ Qta!Closed(c, why, at).reason = why
<1> DEFINE b == [c EXCEPT !.reason = why]
<1>2. /\ b \in Qta!Periods /\ b.start = c.start /\ b.length = c.length /\ b.reset = c.reset
      /\ b.initial = c.initial /\ b.last = c.last /\ b.seen = c.seen /\ b.reason = why
    BY DEF Qta!Periods
<1>3. Qta!Closed(c, why, at) = [b EXCEPT !.ended = at] BY DEF Qta!Closed
<1> HIDE DEF b
<1> QED BY <1>2, <1>3 DEF Qta!Periods

\* An unused period whose start has moved.
LEMMA RestartedIs ==
  ASSUME Qta!WindowsAssumption, NEW c \in Qta!Periods, NEW o \in Qta!Observations, NEW at \in Nat
  PROVE  /\ Qta!Restarted(c, o, at) \in Qta!Periods /\ Qta!PeriodSound(Qta!Restarted(c, o, at))
         /\ Qta!Restarted(c, o, at).start = o.start /\ Qta!Restarted(c, o, at).seen = at
         /\ Qta!Restarted(c, o, at).ended = None /\ Qta!Restarted(c, o, at).reason = None
<1> DEFINE b == Qta!Opened(o, at)
<1>1. /\ b \in Qta!Periods /\ Qta!PeriodSound(b) /\ b.start = o.start /\ b.seen = at
      /\ b.ended = None /\ b.reason = None
    BY OpenedIs
<1>2. Qta!Restarted(c, o, at) = [b EXCEPT !.initial = c.initial] BY DEF Qta!Restarted
<1> HIDE DEF b
<1>3. /\ Qta!Restarted(c, o, at) \in Qta!Periods /\ Qta!Restarted(c, o, at).start = b.start
      /\ Qta!Restarted(c, o, at).seen = at /\ Qta!Restarted(c, o, at).reset = b.reset
      /\ Qta!Restarted(c, o, at).length = b.length
      /\ Qta!Restarted(c, o, at).ended = None /\ Qta!Restarted(c, o, at).reason = None
    BY <1>1, <1>2 DEF Qta!Periods
<1>4. None # "openai_official" BY Numbers DEF Qta!Reasons
<1>5. Qta!PeriodSound(Qta!Restarted(c, o, at)) BY <1>1, <1>3, <1>4 DEF Qta!PeriodSound, Qta!Hidden
<1> QED BY <1>1, <1>3, <1>5

\* What precedes a period precedes what starts later.
LEMMA Carries ==
  ASSUME Qta!WindowsAssumption, NEW p, NEW q, NEW r, p.start \in Nat, p.ended \in Nat,
         q.start \in Nat, r.start \in Nat, Qta!Precedes(p, q), q.start <= r.start
  PROVE  Qta!Precedes(p, r)
<1> DEFINE ps == p.start
           pe == p.ended
           qs == q.start
           rs == r.start
<1>1. /\ ps \in Nat /\ pe \in Nat /\ qs \in Nat /\ rs \in Nat /\ qs <= rs /\ Tolerance \in Nat
      /\ ps + Tolerance < qs /\ pe <= qs + Tolerance /\ (p.reason # "natural" => pe <= qs)
    BY Numbers DEF Qta!Precedes
<1> HIDE DEF ps, pe, qs, rs
<1>2. ps + Tolerance < rs /\ pe <= rs + Tolerance /\ (p.reason # "natural" => pe <= rs) BY <1>1
<1> QED BY <1>2 DEF Qta!Precedes, ps, pe, rs

\* The open period is replaced by one that starts no earlier.
LEMMA Replacing ==
  ASSUME Qta!WindowsAssumption, NEW ps, Qta!History(ps), Qta!Open(ps), NEW p \in Qta!Periods, Qta!PeriodSound(p),
         p.ended = None, Qta!Current(ps).start <= p.start
  PROVE  /\ Qta!History([ps EXCEPT ![Len(ps)] = p])
         /\ Qta!Manual([ps EXCEPT ![Len(ps)] = p]) = Qta!Manual(ps)
         /\ Len([ps EXCEPT ![Len(ps)] = p]) = Len(ps)
         /\ [ps EXCEPT ![Len(ps)] = p][Len(ps)] = p
         /\ \A i \in 1..Len(ps) : i # Len(ps) => [ps EXCEPT ![Len(ps)] = p][i] = ps[i]
<1> DEFINE n == Len(ps)
           qs == [ps EXCEPT ![n] = p]
<1>1. ps \in Seq(Qta!Periods) /\ n \in Nat /\ n > 0 /\ n \in 1..n BY DEF Qta!History, Qta!Open
<1>2. /\ qs \in Seq(Qta!Periods) /\ Len(qs) = n /\ qs[n] = p
      /\ \A i \in 1..n : i # n => qs[i] = ps[i]
    BY <1>1
<1> HIDE DEF qs, n
<1>3. \A i \in 1..n : Qta!PeriodSound(ps[i]) /\ (ps[i].ended = None <=> i = n)
  BY DEF Qta!History, n
<1>4. \A i, j \in 1..n : i < j => Qta!Precedes(ps[i], ps[j]) BY DEF Qta!History, n
<1>5. \A i \in 1..n : Qta!PeriodSound(qs[i]) /\ (qs[i].ended = None <=> i = n) BY <1>2, <1>3
<1>6. \A i, j \in 1..n : i < j => Qta!Precedes(qs[i], qs[j])
  <2> SUFFICES ASSUME NEW i \in 1..n, NEW j \in 1..n, i < j PROVE Qta!Precedes(qs[i], qs[j])
      OBVIOUS
  <2>1. i # n /\ qs[i] = ps[i] /\ Qta!Precedes(ps[i], ps[j]) BY <1>1, <1>2, <1>4
  <2>2. CASE j # n BY <1>2, <2>1, <2>2
  <2>3. CASE j = n
    <3>1. ps[j].start <= p.start BY <2>3 DEF Qta!Current, n
    <3>2. ps[i] \in Qta!Periods /\ ps[j] \in Qta!Periods /\ ps[i].ended # None
      BY <1>1, <1>3, <2>1 DEF n
    <3>3. ps[i].ended \in Nat /\ ps[i].start \in Nat /\ ps[j].start \in Nat /\ p.start \in Nat
        BY <3>2 DEF Qta!Periods
    <3>4. Qta!Precedes(ps[i], p) BY <2>1, <3>1, <3>3, Carries
    <3> QED BY <1>2, <2>1, <2>3, <3>4
  <2> QED BY <2>2, <2>3
<1>7. Qta!History(qs) BY <1>2, <1>5, <1>6 DEF Qta!History
<1>8. Qta!Manual(qs) = Qta!Manual(ps)
  <2>1. ps[n].reason = None /\ p.reason = None BY <1>1, <1>3 DEF Qta!PeriodSound
  <2>2. None # "manual" BY Numbers DEF Qta!Reasons
  <2>3. \A i \in 1..n : qs[i].reason = "manual" <=> ps[i].reason = "manual" BY <1>2, <2>1, <2>2
  <2> QED BY <1>2, <2>3 DEF Qta!Manual, n
<1> QED BY <1>2, <1>7, <1>8 DEF n, qs

\* The open period ends and another one begins.
LEMMA Succeeding ==
  ASSUME Qta!WindowsAssumption, NEW ps, Qta!History(ps), Qta!Open(ps), NEW c \in Qta!Periods, Qta!PeriodSound(c),
         c.ended \in Nat, c.reason \in Qta!Reasons, c.start = Qta!Current(ps).start,
         NEW p \in Qta!Periods, Qta!PeriodSound(p), p.ended = None, Qta!Precedes(c, p)
  PROVE  /\ Qta!History(Append([ps EXCEPT ![Len(ps)] = c], p))
         /\ Qta!Manual(Append([ps EXCEPT ![Len(ps)] = c], p)) =
              IF c.reason = "manual" THEN Qta!Manual(ps) \cup {Len(ps)} ELSE Qta!Manual(ps)
         /\ Len(ps) \notin Qta!Manual(ps)
         /\ Len(Append([ps EXCEPT ![Len(ps)] = c], p)) = Len(ps) + 1
         /\ Append([ps EXCEPT ![Len(ps)] = c], p)[Len(ps)] = c
         /\ \A i \in 1..Len(ps) : i # Len(ps) => Append([ps EXCEPT ![Len(ps)] = c], p)[i] = ps[i]
<1> DEFINE n == Len(ps)
           bs == [ps EXCEPT ![n] = c]
           qs == Append(bs, p)
<1>1. ps \in Seq(Qta!Periods) /\ n \in Nat /\ n > 0 /\ n \in 1..n BY DEF Qta!History, Qta!Open
<1>2. /\ bs \in Seq(Qta!Periods) /\ Len(bs) = n /\ bs[n] = c
      /\ \A i \in 1..n : i # n => bs[i] = ps[i]
    BY <1>1
<1> HIDE DEF bs, n
<1>3. /\ qs \in Seq(Qta!Periods) /\ Len(qs) = n + 1 /\ qs[n + 1] = p
      /\ \A i \in 1..n : qs[i] = bs[i]
    BY <1>1, <1>2
<1> HIDE DEF qs
<1>4. qs[n] = c /\ \A i \in 1..n : i # n => qs[i] = ps[i] BY <1>1, <1>2, <1>3
<1>5. \A i \in 1..n : Qta!PeriodSound(ps[i]) /\ (ps[i].ended = None <=> i = n)
  BY DEF Qta!History, n
<1>6. \A i, j \in 1..n : i < j => Qta!Precedes(ps[i], ps[j]) BY DEF Qta!History, n
<1>7. \A i \in 1..(n + 1) : i \in 1..n \/ i = n + 1 BY <1>1
<1>8. \A i \in 1..(n + 1) : Qta!PeriodSound(qs[i]) /\ (qs[i].ended = None <=> i = n + 1)
  <2> SUFFICES ASSUME NEW i \in 1..(n + 1)
               PROVE  Qta!PeriodSound(qs[i]) /\ (qs[i].ended = None <=> i = n + 1)
      OBVIOUS
  <2>1. CASE i = n + 1 BY <1>3, <2>1
  <2>2. CASE i = n BY <1>1, <1>4, <2>2, Numbers
  <2>3. CASE i \in 1..n /\ i # n
    <3>1. i # n + 1 BY <1>1, <2>3
    <3> QED BY <1>4, <1>5, <2>3, <3>1
  <2> QED BY <1>7, <2>1, <2>2, <2>3
<1>9. \A i, j \in 1..(n + 1) : i < j => Qta!Precedes(qs[i], qs[j])
  <2> SUFFICES ASSUME NEW i \in 1..(n + 1), NEW j \in 1..(n + 1), i < j PROVE Qta!Precedes(qs[i], qs[j])
      OBVIOUS
  <2>1. i \in 1..n BY <1>1
  <2>2. CASE i = n
    <3>1. j = n + 1 BY <1>1, <2>2
    <3> QED BY <1>3, <1>4, <2>2, <3>1
  <2>3. CASE i # n
    <3>1. qs[i] = ps[i] /\ Qta!Precedes(ps[i], ps[n]) BY <1>1, <1>4, <1>6, <2>1, <2>3
    <3>2. ps[i] \in Qta!Periods /\ ps[n] \in Qta!Periods /\ ps[i].ended # None
        BY <1>1, <1>5, <2>1, <2>3 DEF n
    <3>3. /\ ps[i].ended \in Nat /\ ps[i].start \in Nat /\ ps[n].start \in Nat /\ p.start \in Nat
          /\ c.start = ps[n].start /\ Tolerance \in Nat
        BY <3>2, Numbers DEF Qta!Periods, Qta!Current, n
    <3>4. CASE j \in 1..n /\ j # n BY <1>4, <1>6, <2>1, <3>1, <3>4
    <3>5. CASE j = n
      <4>1. c.start \in Nat /\ ps[n].start <= c.start BY <3>3
      <4>2. Qta!Precedes(ps[i], c) BY <3>1, <3>3, <4>1, Carries
      <4> QED BY <1>4, <3>1, <3>5, <4>2
    <3>6. CASE j = n + 1
      <4> DEFINE cs == c.start
                 pt == p.start
      <4>1. cs \in Nat /\ pt \in Nat /\ Tolerance \in Nat /\ cs + Tolerance < pt
        BY <3>3 DEF Qta!Precedes
      <4> HIDE DEF cs, pt
      <4>2. cs <= pt BY <4>1
      <4>3. ps[n].start <= p.start BY <3>3, <4>2 DEF cs, pt
      <4>4. Qta!Precedes(ps[i], p) BY <3>1, <3>3, <4>3, Carries
      <4> QED BY <1>3, <3>1, <3>6, <4>4
    <3> QED BY <1>7, <3>4, <3>5, <3>6
  <2> QED BY <2>2, <2>3
<1>10. Qta!History(qs) BY <1>3, <1>8, <1>9 DEF Qta!History
<1>11. None # "manual" /\ ps[n].reason = None /\ p.reason = None
    BY <1>1, <1>5, Numbers DEF Qta!PeriodSound, Qta!Reasons
<1>12. n \notin Qta!Manual(ps) BY <1>11 DEF Qta!Manual
<1>13. Qta!Manual(ps) = {i \in 1..n : ps[i].reason = "manual"} BY DEF Qta!Manual, n
<1>14. Qta!Manual(qs) = {i \in 1..(n + 1) : qs[i].reason = "manual"} BY <1>3 DEF Qta!Manual
<1>15. Qta!Manual(qs) = IF c.reason = "manual" THEN Qta!Manual(ps) \cup {n} ELSE Qta!Manual(ps)
  <2>1. \A i \in 1..(n + 1) : qs[i].reason = "manual" <=>
          (i \in 1..n /\ i # n /\ ps[i].reason = "manual") \/ (i = n /\ c.reason = "manual")
    <3> SUFFICES ASSUME NEW i \in 1..(n + 1)
                 PROVE  qs[i].reason = "manual" <=>
                          (i \in 1..n /\ i # n /\ ps[i].reason = "manual")
                            \/ (i = n /\ c.reason = "manual")
        OBVIOUS
    <3>1. CASE i = n + 1
      <4>1. i \notin 1..n /\ i # n BY <1>1, <3>1
      <4> QED BY <1>3, <1>11, <3>1, <4>1
    <3>2. CASE i = n BY <1>4, <3>2
    <3>3. CASE i \in 1..n /\ i # n BY <1>4, <3>3
    <3> QED BY <1>7, <3>1, <3>2, <3>3
  <2>2. n \in 1..(n + 1) /\ 1..n \subseteq 1..(n + 1) BY <1>1
  <2> QED BY <1>11, <1>13, <1>14, <2>1, <2>2
<1> QED BY <1>3, <1>4, <1>10, <1>12, <1>15 DEF n, qs, bs

\* The first period of a kind.
LEMMA Beginning ==
  ASSUME Qta!WindowsAssumption, NEW ps, Qta!History(ps), ~Qta!Open(ps), NEW p \in Qta!Periods, Qta!PeriodSound(p),
         p.ended = None
  PROVE  /\ Len(ps) = 0 /\ Qta!History(Append(ps, p))
         /\ Qta!Manual(ps) = {} /\ Qta!Manual(Append(ps, p)) = {}
<1>1. ps \in Seq(Qta!Periods) /\ Len(ps) \in Nat BY DEF Qta!History
<1>2. Len(ps) = 0
  <2>1. Len(ps) > 0 => Len(ps) \in 1..Len(ps) BY <1>1
  <2> QED BY <1>1, <2>1 DEF Qta!History, Qta!Open
<1> DEFINE qs == Append(ps, p)
<1>3. qs \in Seq(Qta!Periods) /\ Len(qs) = 1 /\ qs[1] = p BY <1>1, <1>2
<1> HIDE DEF qs
<1>4. \A i \in 1..1 : i = 1 OBVIOUS
<1>5. Qta!History(qs) BY <1>3, <1>4 DEF Qta!History
<1>6. p.reason # "manual" BY Numbers DEF Qta!PeriodSound, Qta!Reasons
<1>7. Qta!Manual(ps) = {} /\ Qta!Manual(qs) = {} BY <1>2, <1>3, <1>4, <1>6 DEF Qta!Manual
<1> QED BY <1>2, <1>5, <1>7 DEF qs

\* A set of positions has a greatest one.
LEMMA NewestIs ==
  ASSUME NEW m \in Nat, NEW s \in SUBSET (1..m), s # {} PROVE Qta!Newest(s) \in s
<1> DEFINE t == {x \in Nat : \E i \in s : x = m - i}
<1>1. t \subseteq Nat /\ t # {}
  <2>1. PICK i \in s : TRUE OBVIOUS
  <2>2. m - i \in Nat BY <2>1
  <2> QED BY <2>1, <2>2
<1>2. PICK x \in t : \A y \in t : ~(<<y, x>> \in OpToRel(<, Nat))
  BY <1>1, NatLessThanWellFounded, WFMin
<1>3. PICK i \in s : x = m - i BY <1>2
<1>4. \A j \in s : j <= i
  <2> SUFFICES ASSUME NEW j \in s PROVE j <= i OBVIOUS
  <2>1. m - j \in t OBVIOUS
  <2>2. <<m - j, x>> \notin OpToRel(<, Nat) BY <1>2, <2>1
  <2>3. ~(m - j < x) BY <1>1, <1>2, <2>1, <2>2 DEF OpToRel
  <2>4. m \in Nat /\ i \in Nat /\ j \in Nat OBVIOUS
  <2> QED BY <1>3, <2>3, <2>4
<1> QED BY <1>3, <1>4 DEF Qta!Newest

\* A credit claimed for one more window.
LEMMA ClaimedIs ==
  ASSUME NEW e \in Qta!Events, NEW k \in Qta!WindowKinds, k \notin e.applied,
         e.windows > Cardinality(e.applied)
  PROVE  /\ Qta!Claimed(e, k) \in Qta!Events
         /\ Qta!Claimed(e, k).applied = e.applied \cup {k}
         /\ Cardinality(Qta!Claimed(e, k).applied) <= Qta!Claimed(e, k).windows
<1>1. e.applied \in SUBSET Qta!WindowKinds /\ e.windows \in Nat BY DEF Qta!Events
<1>2. IsFiniteSet(Qta!WindowKinds)
  <2>1. IsFiniteSet({}) BY FS_EmptySet
  <2>2. IsFiniteSet({} \cup {"primary"}) BY <2>1, FS_AddElement
  <2>3. IsFiniteSet(({} \cup {"primary"}) \cup {"secondary"}) BY <2>2, FS_AddElement
  <2>4. Qta!WindowKinds = ({} \cup {"primary"}) \cup {"secondary"} BY DEF Qta!WindowKinds
  <2> QED BY <2>3, <2>4
<1>3. IsFiniteSet(e.applied) BY <1>1, <1>2, FS_Subset
<1>4. Cardinality(e.applied \cup {k}) = Cardinality(e.applied) + 1 BY <1>3, FS_AddElement
<1>5. Cardinality(e.applied) \in Nat BY <1>3, FS_CardinalityType
<1>6. /\ Qta!Claimed(e, k) \in Qta!Events /\ Qta!Claimed(e, k).windows = e.windows
      /\ Qta!Claimed(e, k).applied = e.applied \cup {k}
    BY <1>1 DEF Qta!Claimed, Qta!Events
<1> DEFINE x == Cardinality(e.applied)
           w == e.windows
<1>7. x \in Nat /\ w \in Nat /\ w > x BY <1>1, <1>5
<1>8. Cardinality(Qta!Claimed(e, k).applied) = x + 1 /\ Qta!Claimed(e, k).windows = w
  BY <1>4, <1>6
<1> HIDE DEF x, w
<1> QED BY <1>6, <1>7, <1>8

\* A kind claims a credit.
ClaimsAt(es, fs, k, i, start) ==
    /\ Qta!Redeemed(es) /\ k \in Qta!WindowKinds /\ i \in 1..Len(es) /\ Qta!Claimable(es[i], k, start)
    /\ DOMAIN fs = 1..Len(es) /\ Len(fs) = Len(es) /\ fs = [j \in 1..Len(es) |-> fs[j]]
    /\ fs[i] = Qta!Claimed(es[i], k) /\ \A j \in 1..Len(es) : j # i => fs[j] = es[j]

\* A credit claimed for a kind counts for that kind only.
LEMMA Claiming ==
  ASSUME NEW es, NEW fs, NEW k, NEW i, NEW start, ClaimsAt(es, fs, k, i, start)
  PROVE  /\ Qta!Redeemed(fs)
         /\ i \notin Qta!ClaimedFor(es, k)
         /\ Qta!ClaimedFor(fs, k) = Qta!ClaimedFor(es, k) \cup {i}
         /\ \A l \in Qta!WindowKinds : l # k => Qta!ClaimedFor(fs, l) = Qta!ClaimedFor(es, l)
<1> DEFINE c == Qta!Claimed(es[i], k)
           n == Len(es)
<1> USE DEF ClaimsAt
<1>1. es \in Seq(Qta!Events) /\ n \in Nat /\ es[i] \in Qta!Events BY DEF Qta!Redeemed
<1>2. /\ c \in Qta!Events /\ c.applied = es[i].applied \cup {k}
      /\ Cardinality(c.applied) <= c.windows
    BY <1>1, ClaimedIs, SameCount DEF Qta!Claimable
<1>3. fs[i] = c OBVIOUS
<1> HIDE DEF c
<1>4. /\ fs \in Seq(Qta!Events) /\ Len(fs) = n /\ fs[i] = c
      /\ \A j \in 1..n : j # i => fs[j] = es[j]
  <2>1. \A j \in 1..n : fs[j] \in Qta!Events BY <1>1, <1>2, <1>3
  <2> QED BY <1>1, <1>3, <2>1
<1> HIDE DEF n
<1>5. Qta!Redeemed(fs) BY <1>2, <1>4, SameCount DEF Qta!Redeemed, n
<1>6. i \notin Qta!ClaimedFor(es, k) BY DEF Qta!ClaimedFor, Qta!Claimable
<1>7. Qta!ClaimedFor(fs, k) = Qta!ClaimedFor(es, k) \cup {i} BY <1>2, <1>4 DEF Qta!ClaimedFor, n
<1>8. \A l \in Qta!WindowKinds : l # k => Qta!ClaimedFor(fs, l) = Qta!ClaimedFor(es, l)
  <2> SUFFICES ASSUME NEW l \in Qta!WindowKinds, l # k PROVE Qta!ClaimedFor(fs, l) = Qta!ClaimedFor(es, l)
      OBVIOUS
  <2>1. \A j \in 1..n : l \in fs[j].applied <=> l \in es[j].applied BY <1>2, <1>4
  <2> QED BY <1>4, <2>1 DEF Qta!ClaimedFor, n
<1> QED BY <1>5, <1>6, <1>7, <1>8

\* The history and the credits of a kind agree, and finite sets count them.
Agree(ps, es, k) == Cardinality(Qta!Manual(ps)) = Cardinality(Qta!ClaimedFor(es, k))

\* One more manual reset and one more claimed credit still agree.
LEMMA CountsGrow ==
  ASSUME NEW ps, NEW es, NEW qs, NEW fs, NEW k, Len(ps) \in Nat, Len(es) \in Nat, Agree(ps, es, k),
         NEW i, i \notin Qta!Manual(ps), Qta!Manual(qs) = Qta!Manual(ps) \cup {i},
         NEW j, j \notin Qta!ClaimedFor(es, k), Qta!ClaimedFor(fs, k) = Qta!ClaimedFor(es, k) \cup {j}
  PROVE  Agree(qs, fs, k)
<1>1. IsFiniteSet(1..Len(ps)) /\ IsFiniteSet(1..Len(es)) BY FS_Interval
<1>2. IsFiniteSet(Qta!Manual(ps)) BY <1>1, FS_Subset DEF Qta!Manual
<1>3. IsFiniteSet(Qta!ClaimedFor(es, k)) BY <1>1, FS_Subset DEF Qta!ClaimedFor
<1>4. Cardinality(Qta!Manual(qs)) = Cardinality(Qta!Manual(ps)) + 1 BY <1>2, FS_AddElement
<1>5. Cardinality(Qta!ClaimedFor(fs, k)) = Cardinality(Qta!ClaimedFor(es, k)) + 1
  BY <1>3, FS_AddElement
<1> QED BY <1>4, <1>5 DEF Agree

\* What an answer may do to the periods of its kind that were there.
Kept(ps, qs) ==
    \A i \in 1..Len(ps) : /\ qs[i].seen >= ps[i].seen
                          /\ ps[i].last > 0 => qs[i].start = ps[i].start /\ qs[i].reset = ps[i].reset

\* Periods that do not change are kept.
LEMMA KeptSame ==
  ASSUME NEW ps \in Seq(Qta!Periods) PROVE Kept(ps, ps)
<1> SUFFICES ASSUME NEW i \in 1..Len(ps) PROVE ps[i].seen >= ps[i].seen BY DEF Kept
<1>1. ps[i] \in Qta!Periods OBVIOUS
<1>2. ps[i].seen \in Nat BY <1>1 DEF Qta!Periods
<1> QED BY <1>2

\* An answer about another window than the open one starts beyond the tolerance.
LEMMA Transition ==
  ASSUME Qta!WindowsAssumption, NEW c \in Qta!Periods, NEW o \in Qta!Observations, ~Qta!SamePeriod(c, o)
  PROVE  c.start + Tolerance < o.start
<1> DEFINE x == c.start
           y == o.start
<1>1. x \in Nat /\ y \in Nat /\ Tolerance \in Nat BY Numbers DEF Qta!Periods, Qta!Observations
<1>2. ~(y <= x + Tolerance) BY DEF Qta!SamePeriod
<1> HIDE DEF x, y
<1>3. x + Tolerance < y BY <1>1, <1>2
<1> QED BY <1>3 DEF x, y

\* The period that such an answer closes, and the one it opens.
LEMMA Closing ==
  ASSUME Qta!WindowsAssumption, NEW c \in Qta!Periods, Qta!PeriodSound(c), NEW o \in Qta!Observations,
         NEW at \in Nat, ~Qta!SamePeriod(c, o), NEW why \in Qta!Reasons,
         why = "natural" <=> Qta!Natural(c, o),
         why = "openai_official" => ~(c.initial = 0 /\ c.last = 0),
         NEW end, end = (IF Qta!Natural(c, o) THEN c.reset ELSE o.start)
  PROVE  /\ Qta!Closed(c, why, end) \in Qta!Periods /\ Qta!PeriodSound(Qta!Closed(c, why, end))
         /\ Qta!Closed(c, why, end).ended \in Nat /\ Qta!Closed(c, why, end).start = c.start
         /\ Qta!Closed(c, why, end).reset = c.reset /\ Qta!Closed(c, why, end).seen = c.seen
         /\ Qta!Closed(c, why, end).reason = why
         /\ Qta!Precedes(Qta!Closed(c, why, end), Qta!Opened(o, at))
<1> DEFINE x == c.start
           y == o.start
           l == c.length
           r == c.reset
           d == Qta!Closed(c, why, end)
           n == Qta!Opened(o, at)
<1>1. /\ x \in Nat /\ y \in Nat /\ Tolerance \in Nat /\ r \in Nat /\ l \in Nat \ {0}
    BY Numbers DEF Qta!Periods, Qta!Observations
<1>2. x + Tolerance < y /\ r = x + l BY Transition DEF Qta!PeriodSound
<1>3. Qta!Natural(c, o) <=> y + Tolerance >= r BY DEF Qta!Natural
<1>4. end = (IF Qta!Natural(c, o) THEN r ELSE y) OBVIOUS
<1> HIDE DEF x, y, l, r
<1>5. end \in Nat /\ end > x BY <1>1, <1>2, <1>4
<1>6. end <= y + Tolerance /\ (why # "natural" => end <= y) BY <1>1, <1>3, <1>4
<1>7. /\ d \in Qta!Periods /\ d.start = x /\ d.length = l /\ d.reset = r /\ d.initial = c.initial
      /\ d.seen = c.seen /\ d.last = c.last /\ d.ended = end /\ d.reason = why
    BY <1>5, ClosedIs DEF x, l, r
<1>8. n.start = y BY OpenedIs DEF y
<1> HIDE DEF d, n
<1>9. None \notin Nat /\ None \notin Qta!Reasons BY Numbers
<1>10. Qta!PeriodSound(d) BY <1>2, <1>5, <1>7, <1>9 DEF Qta!PeriodSound, Qta!Hidden
<1>11. Qta!Precedes(d, n) BY <1>2, <1>6, <1>7, <1>8 DEF Qta!Precedes
<1> QED BY <1>5, <1>7, <1>10, <1>11 DEF d, n, x, r

\* reconcile_codex_quota_window keeps the history of one kind and its account.
LEMMA ReconciledIs ==
  ASSUME Qta!WindowsAssumption, NEW ps, Qta!History(ps), NEW es, Qta!Redeemed(es), NEW k \in Qta!WindowKinds,
         Agree(ps, es, k), NEW o \in Qta!Observations, NEW at \in Nat
  PROVE  /\ Qta!History(Qta!Reconciled(ps, es, k, o, at).ps) /\ Qta!Redeemed(Qta!Reconciled(ps, es, k, o, at).es)
         /\ Agree(Qta!Reconciled(ps, es, k, o, at).ps, Qta!Reconciled(ps, es, k, o, at).es, k)
         /\ \A l \in Qta!WindowKinds : l # k =>
              Qta!ClaimedFor(Qta!Reconciled(ps, es, k, o, at).es, l) = Qta!ClaimedFor(es, l)
         /\ Kept(ps, Qta!Reconciled(ps, es, k, o, at).ps)
<1> DEFINE r == Qta!Reconciled(ps, es, k, o, at)
           c == Qta!Current(ps)
           n == Len(ps)
           natural == Qta!Natural(c, o)
           claims == IF natural THEN {} ELSE Qta!Claims(es, k, o.start)
           reason == CASE natural -> "natural"
                       [] claims # {} -> "manual"
                       [] OTHER -> "openai_official"
           end == IF natural THEN c.reset ELSE o.start
           new == Qta!Opened(o, at)
<1>1. ps \in Seq(Qta!Periods) /\ n \in Nat /\ es \in Seq(Qta!Events) /\ Len(es) \in Nat
    BY DEF Qta!History, Qta!Redeemed
<1>2. new \in Qta!Periods /\ Qta!PeriodSound(new) /\ new.ended = None /\ new.start = o.start
    BY OpenedIs
<1>3. CASE ~Qta!Open(ps)
  <2>1. r = [ps |-> Append(ps, new), es |-> es] BY <1>3 DEF Qta!Reconciled
  <2> HIDE DEF r, new
  <2>2. r.ps = Append(ps, new) /\ r.es = es BY <2>1
  <2>3. n = 0 /\ Qta!History(r.ps) /\ Qta!Manual(r.ps) = Qta!Manual(ps)
    BY <1>2, <1>3, <2>2, Beginning
  <2>4. Agree(r.ps, r.es, k) BY <2>2, <2>3 DEF Agree
  <2>5. Kept(ps, r.ps) BY <2>3 DEF Kept
  <2> QED BY <2>2, <2>3, <2>4, <2>5 DEF r
<1>4. ASSUME Qta!Open(ps) PROVE c \in Qta!Periods /\ Qta!PeriodSound(c) /\ c.ended = None /\ n \in 1..n
  <2>1. n \in 1..n BY <1>1, <1>4 DEF Qta!Open
  <2> QED BY <1>1, <1>4, <2>1 DEF Qta!History, Qta!Current, Qta!Open
<1>5. CASE Qta!Open(ps) /\ Qta!Late(c, at)
  <2>1. r = [ps |-> ps, es |-> es] BY <1>5 DEF Qta!Reconciled
  <2> HIDE DEF r
  <2>2. r.ps = ps /\ r.es = es BY <2>1
  <2>3. Kept(ps, r.ps) BY <1>1, <2>2, KeptSame
  <2> QED BY <2>2, <2>3 DEF r
<1>6. ASSUME Qta!Open(ps), ~Qta!Late(c, at), NEW p \in Qta!Periods, Qta!PeriodSound(p), p.ended = None,
             c.start <= p.start, p.seen = at, c.last > 0 => p.start = c.start /\ p.reset = c.reset,
             r.ps = [ps EXCEPT ![n] = p], r.es = es
      PROVE  /\ Qta!History(r.ps) /\ Qta!Redeemed(r.es) /\ Agree(r.ps, r.es, k) /\ Kept(ps, r.ps)
             /\ \A l \in Qta!WindowKinds : l # k => Qta!ClaimedFor(r.es, l) = Qta!ClaimedFor(es, l)
  <2> HIDE DEF r
  <2>1. /\ Qta!History(r.ps) /\ Qta!Manual(r.ps) = Qta!Manual(ps) /\ r.ps[n] = p
        /\ \A i \in 1..n : i # n => r.ps[i] = ps[i]
      BY <1>6, Replacing
  <2>2. Agree(r.ps, r.es, k) BY <1>6, <2>1 DEF Agree
  <2>3. c.seen \in Nat /\ ~(at < c.seen) BY <1>4, <1>6 DEF Qta!Late, Qta!Periods
  <2>4. at >= c.seen BY <2>3
  <2>5. \A i \in 1..n : ps[i].seen \in Nat
    <3>1. \A i \in 1..n : ps[i] \in Qta!Periods BY <1>1
    <3> QED BY <3>1 DEF Qta!Periods
  <2>6. Kept(ps, r.ps)
    <3> SUFFICES ASSUME NEW i \in 1..n
                 PROVE  /\ r.ps[i].seen >= ps[i].seen
                        /\ ps[i].last > 0 => /\ r.ps[i].start = ps[i].start
                                             /\ r.ps[i].reset = ps[i].reset
        BY DEF Kept
    <3>1. CASE i = n BY <1>6, <2>1, <2>4, <3>1 DEF Qta!Current
    <3>2. CASE i # n
      <4>1. r.ps[i] = ps[i] BY <2>1, <3>2
      <4> QED BY <2>5, <4>1
    <3> QED BY <3>1, <3>2
  <2> QED BY <1>6, <2>1, <2>2, <2>6
<1>7. CASE Qta!Open(ps) /\ ~Qta!Late(c, at) /\ Qta!SamePeriod(c, o)
  <2> DEFINE p == Qta!Answered(c, o, at)
  <2>1. r = [ps |-> [ps EXCEPT ![n] = p], es |-> es] BY <1>7 DEF Qta!Reconciled
  <2>2. /\ p \in Qta!Periods /\ p.start = c.start /\ p.length = c.length /\ p.reset = c.reset
        /\ p.initial = c.initial /\ p.seen = at /\ p.ended = c.ended /\ p.reason = c.reason
      BY <1>4, <1>7, AnsweredIs
  <2> HIDE DEF p, r
  <2>3. r.ps = [ps EXCEPT ![n] = p] /\ r.es = es BY <2>1
  <2>4. Qta!PeriodSound(p)
    <3>1. c.reason = None BY <1>4, <1>7 DEF Qta!PeriodSound
    <3>2. None # "openai_official" BY Numbers DEF Qta!Reasons
    <3> QED BY <1>4, <1>7, <2>2, <3>1, <3>2 DEF Qta!PeriodSound, Qta!Hidden
  <2>5. c.start \in Nat BY <1>4, <1>7 DEF Qta!Periods
  <2>6. c.start <= p.start BY <2>2, <2>5
  <2> QED BY <1>4, <1>6, <1>7, <2>2, <2>3, <2>4, <2>6 DEF r
<1>8. CASE Qta!Open(ps) /\ ~Qta!Late(c, at) /\ ~Qta!SamePeriod(c, o)
  <2> DEFINE closed == Qta!Closed(c, reason, end)
             rebased == Qta!Rebased(c, natural, claims)
             qs == IF rebased THEN [ps EXCEPT ![n] = Qta!Restarted(c, o, at)]
                   ELSE Append([ps EXCEPT ![n] = closed], new)
             ks == IF claims = {} THEN es ELSE [es EXCEPT ![Qta!Newest(claims)] = Qta!Claimed(@, k)]
  <2>1. r = [ps |-> qs, es |-> ks] BY <1>8 DEF Qta!Reconciled
  <2>2. r.ps = qs /\ r.es = ks
    <3> HIDE DEF r, qs, ks
    <3> QED BY <2>1
  <2> HIDE DEF r
  <2>3. c \in Qta!Periods /\ Qta!PeriodSound(c) /\ c.ended = None /\ n \in 1..n BY <1>4, <1>8
  <2>4. c.start + Tolerance < o.start BY <1>8, <2>3, Transition
  <2>5. CASE rebased
    <3> DEFINE p == Qta!Restarted(c, o, at)
    <3>1. claims = {} /\ c.last = 0 BY <2>5 DEF Qta!Rebased
    <3>2. r.ps = [ps EXCEPT ![n] = p] /\ r.es = es BY <2>2, <2>5, <3>1
    <3>3. /\ p \in Qta!Periods /\ Qta!PeriodSound(p) /\ p.start = o.start /\ p.seen = at /\ p.ended = None
        BY <2>3, RestartedIs
    <3> HIDE DEF p
    <3> DEFINE x == c.start
               y == o.start
    <3>4. x \in Nat /\ y \in Nat /\ Tolerance \in Nat /\ x + Tolerance < y
        BY <2>3, <2>4, Numbers DEF Qta!Periods, Qta!Observations
    <3> HIDE DEF x, y
    <3>5. x <= y BY <3>4
    <3>6. c.start <= p.start BY <3>3, <3>5 DEF x, y
    <3>7. ~(c.last > 0) BY <3>1
    <3> QED BY <1>6, <1>8, <3>2, <3>3, <3>6, <3>7 DEF r
  <2>6. CASE ~rebased
    <3>1. reason \in Qta!Reasons /\ (reason = "natural" <=> natural) BY DEF Qta!Reasons
    <3>2. reason = "openai_official" => ~(c.initial = 0 /\ c.last = 0) BY <2>6 DEF Qta!Rebased
    <3>3. reason = "manual" <=> claims # {} OBVIOUS
    <3> DEFINE why == reason
               stop == end
               d == Qta!Closed(c, why, stop)
    <3>4. why \in Qta!Reasons /\ (why = "natural" <=> Qta!Natural(c, o)) BY <3>1
    <3>5. why = "openai_official" => ~(c.initial = 0 /\ c.last = 0) BY <3>2
    <3>6. stop = (IF Qta!Natural(c, o) THEN c.reset ELSE o.start) OBVIOUS
    <3>7. r.ps = Append([ps EXCEPT ![n] = d], new) BY <2>2, <2>6
    <3>8. why = "manual" <=> claims # {} BY <3>3
    <3>9. r.es = IF claims = {} THEN es ELSE [es EXCEPT ![Qta!Newest(claims)] = Qta!Claimed(@, k)]
      BY <2>2
    <3>10. claims \subseteq 1..Len(es) /\ \A i \in claims : Qta!Claimable(es[i], k, o.start)
      BY DEF Qta!Claims
    <3> HIDE DEF why, stop, claims, new
    <3>11. /\ d \in Qta!Periods /\ Qta!PeriodSound(d) /\ d.ended \in Nat /\ d.start = c.start
           /\ d.reset = c.reset /\ d.seen = c.seen /\ d.reason = why /\ Qta!Precedes(d, new)
        BY <1>8, <2>3, <3>4, <3>5, <3>6, Closing DEF new
    <3> HIDE DEF d
    <3>16. d.reason \in Qta!Reasons /\ d.start = Qta!Current(ps).start BY <3>4, <3>11
    <3>17. Qta!PeriodSound(new) /\ new \in Qta!Periods /\ new.ended = None BY <1>2 DEF new
    <3>12. /\ Qta!History(r.ps) /\ n \notin Qta!Manual(ps)
           /\ Qta!Manual(r.ps) = (IF why = "manual" THEN Qta!Manual(ps) \cup {n} ELSE Qta!Manual(ps))
           /\ r.ps[n] = d /\ \A i \in 1..n : i # n => r.ps[i] = ps[i]
      <4>1. /\ Qta!History(Append([ps EXCEPT ![Len(ps)] = d], new)) /\ Len(ps) \notin Qta!Manual(ps)
            /\ Qta!Manual(Append([ps EXCEPT ![Len(ps)] = d], new)) =
                 IF d.reason = "manual" THEN Qta!Manual(ps) \cup {Len(ps)} ELSE Qta!Manual(ps)
            /\ Append([ps EXCEPT ![Len(ps)] = d], new)[Len(ps)] = d
            /\ \A i \in 1..Len(ps) :
                 i # Len(ps) => Append([ps EXCEPT ![Len(ps)] = d], new)[i] = ps[i]
          BY <1>8, <3>11, <3>16, <3>17, Succeeding
      <4> QED BY <3>7, <3>11, <4>1
    <3>13. Kept(ps, r.ps)
      <4>1. \A i \in 1..n : ps[i].seen \in Nat
        <5>1. \A i \in 1..n : ps[i] \in Qta!Periods BY <1>1
        <5> QED BY <5>1 DEF Qta!Periods
      <4> SUFFICES ASSUME NEW i \in 1..n
                   PROVE  /\ r.ps[i].seen >= ps[i].seen
                          /\ ps[i].last > 0 => /\ r.ps[i].start = ps[i].start
                                               /\ r.ps[i].reset = ps[i].reset
          BY DEF Kept
      <4>2. /\ r.ps[i].seen = ps[i].seen /\ r.ps[i].start = ps[i].start
            /\ r.ps[i].reset = ps[i].reset
        <5>1. CASE i = n BY <3>11, <3>12, <5>1 DEF Qta!Current
        <5>2. CASE i # n BY <3>12, <5>2
        <5> QED BY <5>1, <5>2
      <4> QED BY <4>1, <4>2
    <3>14. CASE claims = {}
      <4>1. r.es = es /\ Qta!Manual(r.ps) = Qta!Manual(ps) BY <3>8, <3>9, <3>12, <3>14
      <4> QED BY <3>12, <3>13, <4>1 DEF r, Agree
    <3>15. CASE claims # {}
      <4> DEFINE j == Qta!Newest(claims)
      <4>1. j \in claims BY <1>1, <3>10, <3>15, NewestIs
      <4>2. r.es = [es EXCEPT ![j] = Qta!Claimed(es[j], k)] BY <3>9, <3>15
      <4> HIDE DEF j
      <4>3. j \in 1..Len(es) /\ Qta!Claimable(es[j], k, o.start) BY <3>10, <4>1
      <4>4. /\ Qta!Redeemed(r.es) /\ j \notin Qta!ClaimedFor(es, k)
            /\ Qta!ClaimedFor(r.es, k) = Qta!ClaimedFor(es, k) \cup {j}
            /\ \A l \in Qta!WindowKinds : l # k => Qta!ClaimedFor(r.es, l) = Qta!ClaimedFor(es, l)
        <5>1. Len(es) \in Nat /\ es \in Seq(Qta!Events) /\ j \in 1..Len(es) BY <1>1, <4>3
        <5> DEFINE fs == r.es
        <5>2. /\ DOMAIN fs = 1..Len(es) /\ Len(fs) = Len(es) /\ fs[j] = Qta!Claimed(es[j], k)
              /\ fs = [i \in 1..Len(es) |-> fs[i]]
              /\ \A i \in 1..Len(es) : i # j => fs[i] = es[i]
            BY <4>2, <5>1
        <5> HIDE DEF fs
        <5>3. /\ Qta!Redeemed(fs) /\ j \notin Qta!ClaimedFor(es, k)
              /\ Qta!ClaimedFor(fs, k) = Qta!ClaimedFor(es, k) \cup {j}
              /\ \A l \in Qta!WindowKinds : l # k => Qta!ClaimedFor(fs, l) = Qta!ClaimedFor(es, l)
          <6> DEFINE s == o.start
          <6>1. Qta!Claimable(es[j], k, s) BY <4>3
          <6> HIDE DEF s
          <6>2. Qta!Redeemed(es) /\ k \in Qta!WindowKinds OBVIOUS
          <6>3. ClaimsAt(es, fs, k, j, s) BY <5>1, <5>2, <6>1, <6>2 DEF ClaimsAt
          <6> QED BY <6>3, Claiming
        <5> QED BY <5>3 DEF fs
      <4>5. Qta!Manual(r.ps) = Qta!Manual(ps) \cup {n} BY <3>8, <3>12, <3>15
      <4>6. Agree(r.ps, r.es, k) BY <1>1, <3>12, <4>4, <4>5, CountsGrow
      <4> QED BY <3>12, <3>13, <4>4, <4>6 DEF r
    <3> QED BY <3>14, <3>15
  <2> QED BY <2>5, <2>6
<1> QED BY <1>3, <1>5, <1>7, <1>8

\* An answer about one kind, or none.
LEMMA AnswerIs ==
  ASSUME Qta!WindowsAssumption, NEW ps, Qta!History(ps), NEW es, Qta!Redeemed(es), NEW k \in Qta!WindowKinds,
         Agree(ps, es, k), NEW o \in Qta!Observations \cup {None}, NEW at \in Nat,
         NEW r, r = (IF o = None THEN [ps |-> ps, es |-> es] ELSE Qta!Reconciled(ps, es, k, o, at))
  PROVE  /\ Qta!History(r.ps) /\ Qta!Redeemed(r.es) /\ Agree(r.ps, r.es, k) /\ Kept(ps, r.ps)
         /\ \A l \in Qta!WindowKinds : l # k => Qta!ClaimedFor(r.es, l) = Qta!ClaimedFor(es, l)
<1>1. CASE o = None
  <2>1. r.ps = ps /\ r.es = es BY <1>1
  <2>2. Kept(ps, r.ps) BY <2>1, KeptSame DEF Qta!History
  <2> QED BY <2>1, <2>2
<1>2. CASE o # None
  <2>1. r = Qta!Reconciled(ps, es, k, o, at) /\ o \in Qta!Observations BY <1>2
  <2> QED BY <2>1, ReconciledIs
<1> QED BY <1>1, <1>2

\* reconcile_codex_quota_windows keeps both histories and the account, and what
\* newer answers recorded.
LEMMA ReconcileKeeps ==
  ASSUME Qta!WindowsAssumption, Qta!WindowsInv, NEW o1 \in Qta!Observations \cup {None},
         NEW o2 \in Qta!Observations \cup {None}, NEW at \in Nat, Qta!ReconcileWindows(o1, o2, at)
  PROVE  Qta!WindowsInv' /\ Qta!UsageIsNewest
<1> DEFINE one == IF o1 = None THEN [ps |-> periods["primary"], es |-> events]
                  ELSE Qta!Reconciled(periods["primary"], events, "primary", o1, at)
           two == IF o2 = None THEN [ps |-> periods["secondary"], es |-> one.es]
                  ELSE Qta!Reconciled(periods["secondary"], one.es, "secondary", o2, at)
<1>1. periods' = [primary |-> one.ps, secondary |-> two.ps] /\ events' = two.es
    BY DEF Qta!ReconcileWindows
<1>2. /\ "primary" \in Qta!WindowKinds /\ "secondary" \in Qta!WindowKinds /\ "primary" # "secondary"
      /\ \A k \in Qta!WindowKinds : k = "primary" \/ k = "secondary"
    BY DEF Qta!WindowKinds
<1>3. /\ \A k \in Qta!WindowKinds : Qta!History(periods[k]) /\ Agree(periods[k], events, k)
      /\ Qta!Redeemed(events)
    BY SameCount DEF Qta!WindowsInv, Qta!ManualResetsAccounted, Agree
<1>4. /\ Qta!History(one.ps) /\ Qta!Redeemed(one.es) /\ Agree(one.ps, one.es, "primary")
      /\ Kept(periods["primary"], one.ps)
      /\ Qta!ClaimedFor(one.es, "secondary") = Qta!ClaimedFor(events, "secondary")
  <2> DEFINE r == one
             k == "primary"
             ps == periods[k]
  <2>1. r = (IF o1 = None THEN [ps |-> ps, es |-> events] ELSE Qta!Reconciled(ps, events, k, o1, at))
      OBVIOUS
  <2>2. Qta!History(ps) /\ Agree(ps, events, k) /\ k \in Qta!WindowKinds BY <1>2, <1>3
  <2> HIDE DEF r, ps, one, two
  <2>3. /\ Qta!History(r.ps) /\ Qta!Redeemed(r.es) /\ Agree(r.ps, r.es, k) /\ Kept(ps, r.ps)
        /\ \A l \in Qta!WindowKinds : l # k => Qta!ClaimedFor(r.es, l) = Qta!ClaimedFor(events, l)
      BY <1>3, <2>1, <2>2, AnswerIs
  <2> QED BY <1>2, <2>3 DEF r, ps
<1> HIDE DEF one
<1>5. /\ Qta!History(two.ps) /\ Qta!Redeemed(two.es) /\ Agree(two.ps, two.es, "secondary")
      /\ Kept(periods["secondary"], two.ps)
      /\ Qta!ClaimedFor(two.es, "primary") = Qta!ClaimedFor(one.es, "primary")
  <2> DEFINE r == two
             k == "secondary"
             ps == periods[k]
             es == one.es
  <2>1. r = (IF o2 = None THEN [ps |-> ps, es |-> es] ELSE Qta!Reconciled(ps, es, k, o2, at))
      OBVIOUS
  <2>2. /\ Qta!History(ps) /\ k \in Qta!WindowKinds /\ Qta!Redeemed(es)
        /\ Agree(ps, es, k)
      BY <1>2, <1>3, <1>4 DEF Agree
  <2> HIDE DEF r, ps, two, es
  <2>3. /\ Qta!History(r.ps) /\ Qta!Redeemed(r.es) /\ Agree(r.ps, r.es, k) /\ Kept(ps, r.ps)
        /\ \A l \in Qta!WindowKinds : l # k => Qta!ClaimedFor(r.es, l) = Qta!ClaimedFor(es, l)
      BY <2>1, <2>2, AnswerIs
  <2> QED BY <1>2, <2>3 DEF r, ps, es
<1> HIDE DEF two
<1>6. periods'["primary"] = one.ps /\ periods'["secondary"] = two.ps BY <1>1
<1>7. \A k \in Qta!WindowKinds : /\ Qta!History(periods'[k]) /\ Agree(periods'[k], events', k)
                             /\ Kept(periods[k], periods'[k])
    BY <1>1, <1>2, <1>4, <1>5, <1>6 DEF Agree
<1>8. Qta!Redeemed(events') BY <1>1, <1>5
<1>9. periods' \in [Qta!WindowKinds -> Seq(Qta!Periods)]
  <2>1. one.ps \in Seq(Qta!Periods) /\ two.ps \in Seq(Qta!Periods) BY <1>4, <1>5 DEF Qta!History
  <2> QED BY <1>1, <2>1 DEF Qta!WindowKinds
<1>10. Qta!WindowsInv'
  <2>1. \A k \in Qta!WindowKinds :
          Cardinality(Qta!Manual(periods'[k])) = Cardinality(Qta!ClaimedFor(events', k))
      BY <1>7 DEF Agree
  <2>2. \A i \in 1..Len(events') : Cardinality(events'[i].applied) <= events'[i].windows
      BY <1>8, SameCount DEF Qta!Redeemed
  <2>3. Qta!ManualResetsAccounted' BY <2>1, <2>2, SameCount DEF Qta!ManualResetsAccounted
  <2> QED BY <1>7, <1>8, <1>9, <2>3 DEF Qta!WindowsInv
<1>11. Qta!UsageIsNewest
  <2> SUFFICES ASSUME NEW k \in Qta!WindowKinds, NEW i \in Qta!Indexes(k)
               PROVE  /\ periods'[k][i].seen >= periods[k][i].seen
                      /\ periods[k][i].last > 0 =>
                           /\ periods'[k][i].start = periods[k][i].start
                           /\ periods'[k][i].reset = periods[k][i].reset
      BY DEF Qta!UsageIsNewest
  <2>1. i \in 1..Len(periods[k]) BY DEF Qta!Indexes
  <2>2. Kept(periods[k], periods'[k]) BY <1>7
  <2> QED BY <2>1, <2>2 DEF Kept
<1> QED BY <1>10, <1>11

\* record_codex_quota_reset_transaction adds a credit that no window has claimed.
LEMMA ResetKeeps ==
  ASSUME Qta!WindowsAssumption, Qta!WindowsInv, NEW at \in Times, NEW windows \in 0..2,
         Qta!RecordReset(at, windows)
  PROVE  Qta!WindowsInv'
<1> DEFINE n == Len(events)
           e == [at |-> at, windows |-> windows, applied |-> {}]
<1>1. /\ events \in Seq(Qta!Events) /\ n \in Nat
      /\ \A i \in 1..n : Cardinality(events[i].applied) <= events[i].windows
    BY SameCount DEF Qta!WindowsInv, Qta!Redeemed
<1>2. events' = Append(events, e) /\ periods' = periods BY DEF Qta!RecordReset
<1>3. e \in Qta!Events /\ e.applied = {} /\ e.windows \in Nat BY Numbers DEF Qta!Events
<1> HIDE DEF e
<1>4. /\ events' \in Seq(Qta!Events) /\ Len(events') = n + 1 /\ events'[n + 1] = e
      /\ \A i \in 1..n : events'[i] = events[i]
    BY <1>1, <1>2, <1>3
<1> HIDE DEF n
<1>5. \A i \in 1..(n + 1) : i \in 1..n \/ i = n + 1 BY <1>1
<1>6. Cardinality({}) = 0 BY FS_EmptySet
<1>7. Cardinality(e.applied) <= e.windows BY <1>3, <1>6
<1>8. \A i \in 1..Len(events') : Cardinality(events'[i].applied) <= events'[i].windows
  <2> SUFFICES ASSUME NEW i \in 1..(n + 1)
               PROVE  Cardinality(events'[i].applied) <= events'[i].windows
      BY <1>4
  <2>1. CASE i = n + 1 BY <1>4, <1>7, <2>1
  <2>2. CASE i \in 1..n BY <1>1, <1>4, <2>2
  <2> QED BY <1>5, <2>1, <2>2
<1>9. Qta!Redeemed(events') BY <1>4, <1>8, SameCount DEF Qta!Redeemed
<1>10. \A k \in Qta!WindowKinds : Qta!ClaimedFor(events', k) = Qta!ClaimedFor(events, k)
  <2> SUFFICES ASSUME NEW k \in Qta!WindowKinds PROVE Qta!ClaimedFor(events', k) = Qta!ClaimedFor(events, k)
      OBVIOUS
  <2>1. Qta!ClaimedFor(events', k) = {i \in 1..(n + 1) : k \in events'[i].applied}
      BY <1>4 DEF Qta!ClaimedFor
  <2>2. Qta!ClaimedFor(events, k) = {i \in 1..n : k \in events[i].applied}
    BY DEF Qta!ClaimedFor, n
  <2>3. k \notin events'[n + 1].applied BY <1>3, <1>4
  <2>4. 1..n \subseteq 1..(n + 1) BY <1>1
  <2> QED BY <1>4, <1>5, <2>1, <2>2, <2>3, <2>4
<1>11. Qta!ManualResetsAccounted'
    BY <1>2, <1>8, <1>10, SameCount DEF Qta!WindowsInv, Qta!ManualResetsAccounted
<1> QED BY <1>2, <1>9, <1>11 DEF Qta!WindowsInv

\* Every step keeps the invariant, and what newer answers recorded.
LEMMA WindowsStep ==
  ASSUME Qta!WindowsAssumption, Qta!WindowsInv, [Qta!Next]_(Qta!vars)
  PROVE  Qta!WindowsInv' /\ [Qta!UsageIsNewest]_(Qta!vars)
<1>1. ASSUME NEW o1 \in Qta!Answers("primary"), NEW o2 \in Qta!Answers("secondary"), NEW at \in Times,
             Qta!Observe(o1, o2, at)
      PROVE  Qta!WindowsInv' /\ Qta!UsageIsNewest
  <2>1. o1 \in Qta!Observations \cup {None} /\ o2 \in Qta!Observations \cup {None}
    BY <1>1 DEF Qta!Answers
  <2>2. at \in Nat /\ Qta!ReconcileWindows(o1, o2, at) BY <1>1, Numbers DEF Qta!Observe
  <2> QED BY <2>1, <2>2, ReconcileKeeps
<1>2. ASSUME NEW at \in Times, NEW windows \in 0..2, Qta!RecordReset(at, windows)
      PROVE  Qta!WindowsInv' /\ Qta!UsageIsNewest
  <2>1. Qta!WindowsInv' BY <1>2, ResetKeeps
  <2>2. \A k \in Qta!WindowKinds : Kept(periods[k], periods'[k])
      BY <1>2, KeptSame DEF Qta!RecordReset, Qta!WindowsInv
  <2>3. Qta!UsageIsNewest
    <3> SUFFICES ASSUME NEW k \in Qta!WindowKinds, NEW i \in Qta!Indexes(k)
                 PROVE  /\ periods'[k][i].seen >= periods[k][i].seen
                        /\ periods[k][i].last > 0 =>
                             /\ periods'[k][i].start = periods[k][i].start
                             /\ periods'[k][i].reset = periods[k][i].reset
        BY DEF Qta!UsageIsNewest
    <3>1. i \in 1..Len(periods[k]) BY DEF Qta!Indexes
    <3> QED BY <2>2, <3>1 DEF Kept
  <2> QED BY <2>1, <2>3
<1>3. CASE UNCHANGED Qta!vars
  <2>1. periods' = periods /\ events' = events BY <1>3 DEF Qta!vars
  <2> QED BY <1>3, <2>1 DEF Qta!WindowsInv, Qta!ManualResetsAccounted
<1> QED BY <1>1, <1>2, <1>3 DEF Qta!Next

\* The periods of the invariant follow each other.
LEMMA HistoryFollows ==
  ASSUME Qta!WindowsAssumption, Qta!WindowsInv PROVE Qta!PeriodsFollow
<1> SUFFICES ASSUME NEW k \in Qta!WindowKinds, NEW i \in Qta!Indexes(k)
             PROVE  /\ (periods[k][i].ended = None) <=> (i = Len(periods[k]))
                    /\ periods[k][i].start < periods[k][i].reset
                    /\ periods[k][i].ended # None => periods[k][i].ended > periods[k][i].start
                    /\ i > 1 => periods[k][i - 1].start < periods[k][i].start
    BY DEF Qta!PeriodsFollow
<1> DEFINE ps == periods[k]
           p == ps[i]
<1>1. Qta!History(ps) BY DEF Qta!WindowsInv
<1>2. i \in 1..Len(ps) BY DEF Qta!Indexes
<1> HIDE DEF ps
<1>3. ps \in Seq(Qta!Periods) /\ p \in Qta!Periods /\ Qta!PeriodSound(p) /\ (p.ended = None <=> i = Len(ps))
    BY <1>1, <1>2 DEF Qta!History
<1>4. p.start < p.reset
  <2> DEFINE x == p.start
             l == p.length
             y == p.reset
  <2>1. x \in Nat /\ l \in Nat \ {0} /\ y = x + l
    BY <1>3, Numbers DEF Qta!Periods, Qta!PeriodSound
  <2> HIDE DEF x, l, y
  <2>2. x < y BY <2>1
  <2> QED BY <2>2 DEF x, y
<1>5. ASSUME i > 1 PROVE ps[i - 1].start < p.start
  <2>1. i - 1 \in 1..Len(ps) /\ i - 1 < i BY <1>2, <1>3, <1>5
  <2>2. Qta!Precedes(ps[i - 1], p) BY <1>1, <1>2, <2>1 DEF Qta!History
  <2>3. ps[i - 1] \in Qta!Periods BY <1>3, <2>1
  <2> DEFINE x == ps[i - 1].start
             y == p.start
  <2>4. x \in Nat /\ y \in Nat /\ Tolerance \in Nat /\ x + Tolerance < y
      BY <1>3, <2>2, <2>3, Numbers DEF Qta!Periods, Qta!Precedes
  <2> HIDE DEF x, y
  <2>5. x < y BY <2>4
  <2> QED BY <2>5 DEF x, y
<1>6. p.ended # None => p.ended > p.start BY <1>3 DEF Qta!PeriodSound
<1> QED BY <1>3, <1>4, <1>5, <1>6 DEF ps

\* A request is charged to one of its periods, or to two around a natural reset.
LEMMA HistoryCharges ==
  ASSUME Qta!WindowsAssumption, Qta!WindowsInv PROVE Qta!CostsCountedOnce
<1> SUFFICES ASSUME NEW k \in Qta!WindowKinds, NEW i \in Qta!Indexes(k), NEW j \in Qta!Indexes(k), i < j,
                    NEW x \in Starts, Qta!Charged(periods[k][i], x), Qta!Charged(periods[k][j], x)
             PROVE  /\ j = i + 1 /\ periods[k][i].reason = "natural"
                    /\ periods[k][i].ended <= x + Tolerance
    BY DEF Qta!CostsCountedOnce
<1> DEFINE ps == periods[k]
           p == ps[i]
           q == ps[j]
<1>1. Qta!History(ps) BY DEF Qta!WindowsInv
<1>2. i \in 1..Len(ps) /\ j \in 1..Len(ps) BY DEF Qta!Indexes
<1>3. Qta!Charged(p, x) /\ Qta!Charged(q, x) OBVIOUS
<1> HIDE DEF ps
<1>4. /\ ps \in Seq(Qta!Periods) /\ p \in Qta!Periods /\ q \in Qta!Periods /\ Qta!Precedes(p, q)
      /\ (p.ended = None <=> i = Len(ps))
    BY <1>1, <1>2 DEF Qta!History
<1>5. i # Len(ps) BY <1>2, <1>4
<1>6. p.ended \in Nat /\ p.ended # None BY <1>4, <1>5 DEF Qta!Periods
<1> DEFINE s == p.start
           e == p.ended
           t == q.start
<1>7. /\ s \in Nat /\ e \in Nat /\ t \in Nat /\ x \in Nat /\ Tolerance \in Nat
      /\ e <= t + Tolerance /\ (p.reason # "natural" => e <= t) /\ s + Tolerance < t
    BY <1>4, <1>6, Numbers DEF Qta!Periods, Qta!Precedes
<1>8. x < e /\ t <= x BY <1>3, <1>6 DEF Qta!Charged, Qta!CostEnd
<1> HIDE DEF s, e, t
<1>9. p.reason = "natural" /\ e <= x + Tolerance BY <1>7, <1>8
<1>10. j = i + 1
  <2> SUFFICES ASSUME j # i + 1 PROVE FALSE OBVIOUS
  <2>1. i + 1 \in 1..Len(ps) /\ i < i + 1 /\ i + 1 < j BY <1>2, <1>4
  <2> DEFINE m == ps[i + 1]
             u == m.start
  <2>2. Qta!Precedes(p, m) /\ Qta!Precedes(m, q) /\ m \in Qta!Periods
    BY <1>1, <1>2, <1>4, <2>1 DEF Qta!History
  <2> HIDE DEF m
  <2>3. u \in Nat /\ e <= u + Tolerance /\ u + Tolerance < t
    BY <2>2 DEF Qta!Periods, Qta!Precedes, e, t
  <2> HIDE DEF u
  <2> QED BY <1>7, <1>8, <2>3
<1> QED BY <1>9, <1>10 DEF e, ps

\* For any sequence of answers, late, repeated or imprecise, and of redeemed
\* credits: the stored periods are sound one by one and precede each other, and
\* credits and manual resets agree.
THEOREM WindowsInvariant == Qta!WindowsAssumption /\ Qta!Spec => []Qta!WindowsInv
<1> SUFFICES ASSUME Qta!WindowsAssumption PROVE Qta!Spec => []Qta!WindowsInv OBVIOUS
<1>1. Qta!Init => Qta!WindowsInv
  <2> SUFFICES ASSUME Qta!Init PROVE Qta!WindowsInv OBVIOUS
  <2>1. periods = [k \in Qta!WindowKinds |-> <<>>] /\ events = <<>> BY DEF Qta!Init
  <2>2. periods \in [Qta!WindowKinds -> Seq(Qta!Periods)] BY <2>1
  <2>3. \A k \in Qta!WindowKinds : Qta!History(periods[k]) BY <2>1 DEF Qta!History
  <2>4. Qta!Redeemed(events) BY <2>1 DEF Qta!Redeemed
  <2>5. Qta!ManualResetsAccounted BY <2>1 DEF Qta!ManualResetsAccounted, Qta!Manual,
      Qta!ClaimedFor
  <2> QED BY <2>2, <2>3, <2>4, <2>5 DEF Qta!WindowsInv
<1>2. Qta!WindowsInv /\ [Qta!Next]_(Qta!vars) => Qta!WindowsInv' BY WindowsStep
<1> QED BY <1>1, <1>2, PTL DEF Qta!Spec

\* The reconstructed history is sound: its periods follow each other, a cost is
\* charged once except within the tolerance before a natural reset, every manual
\* reset has claimed a redeemed credit of its own, and no period with usage is
\* hidden (reconcile_codex_quota_windows, window_cost).
THEOREM WindowsAlwaysSound == Qta!WindowsAssumption /\ Qta!Spec => []Qta!WindowsSound
<1> SUFFICES ASSUME Qta!WindowsAssumption PROVE Qta!Spec => []Qta!WindowsSound OBVIOUS
<1>1. Qta!WindowsInv => Qta!WindowsSound
  <2> SUFFICES ASSUME Qta!WindowsInv PROVE Qta!WindowsSound OBVIOUS
  <2>1. Qta!NothingHidden BY DEF Qta!WindowsInv, Qta!NothingHidden, Qta!Indexes, Qta!History,
      Qta!PeriodSound
  <2>2. Qta!ManualResetsAccounted BY DEF Qta!WindowsInv
  <2> QED BY <2>1, <2>2, HistoryFollows, HistoryCharges DEF Qta!WindowsSound
<1>2. Qta!Spec => []Qta!WindowsInv BY WindowsInvariant
<1> QED BY <1>1, <1>2, PTL

\* A late answer never takes back what a newer one recorded, and a period with
\* usage is never moved (reconcile_codex_quota_window).
THEOREM UsageAlwaysNewest == Qta!WindowsAssumption /\ Qta!Spec => [][Qta!UsageIsNewest]_(Qta!vars)
<1> SUFFICES ASSUME Qta!WindowsAssumption PROVE Qta!Spec => [][Qta!UsageIsNewest]_(Qta!vars)
    OBVIOUS
<1>1. Qta!WindowsInv /\ [Qta!Next]_(Qta!vars) => [Qta!UsageIsNewest]_(Qta!vars) BY WindowsStep
<1>2. Qta!Spec => []Qta!WindowsInv BY WindowsInvariant
<1> QED BY <1>1, <1>2, PTL DEF Qta!Spec

--------------------
\* Hosted: ConnectorPlugins, the packages, settings and running images of
\* connector plugins.  The theorems are about the specification of
\* ConnectorPlugins with its own constants; it shares no state with the
\* components above.

CONSTANTS
  Procs, Digests, Jobs, Schema, Sound, MaxRetained, MaxRev, MaxTokens, Faults

VARIABLES
  administrator, art, st, cfg, job, disk, staged, loaded, attempted, snap, up, req, form, grant,
  issued, started, faults

Pl == INSTANCE ConnectorPlugins WITH MaxGrants <- MaxTokens, admin <- administrator

\* The module counts with the operators of FiniteSets.
LEMMA PluginCounts == ASSUME NEW S PROVE Pl!Cardinality(S) = Cardinality(S)
BY DEF Pl!Cardinality, Cardinality

LEMMA PluginFinite == ASSUME NEW S PROVE Pl!IsFiniteSet(S) <=> IsFiniteSet(S)
BY DEF Pl!IsFiniteSet, IsFiniteSet

Requests == {Pl!NoReq} \cup Pl!Wants \cup [step: {"install"}] \cup Pl!Saving \cup Pl!Deleting
States == Pl!StateRow \cup {None}
Configs == Pl!SettingsRow \cup {None}

\* The constants as the proofs need them.
LEMMA PluginConstants ==
  ASSUME Pl!PluginAssumption
  PROVE  /\ \A d \in Digests : Schema[d] \in Nat
         /\ None \notin Digests /\ None \notin Pl!Values /\ None \notin Pl!Etag /\ None \notin Pl!StateRow
         /\ None \notin Pl!Document /\ None \notin Pl!SettingsRow /\ None \notin Pl!Active /\ None \notin Pl!Form
BY DEF Pl!PluginAssumption

\* The parts of the state that the proof looks at.
LEMMA PluginTyped ==
  ASSUME Pl!PluginInv
  PROVE  /\ art \in [Digests -> {"absent", "live", "deleted"}]
         /\ st \in States /\ cfg \in Configs
         /\ job \in [Jobs -> Pl!JobRow \cup {Pl!NoJob}] /\ staged \in [Procs -> SUBSET Jobs]
         /\ loaded \in [Procs -> SUBSET Digests] /\ snap \in [Procs -> Pl!Active \cup {None}]
         /\ up \in [Procs -> BOOLEAN] /\ grant \in [Procs -> BOOLEAN]
         /\ req \in [Procs -> Requests]
         /\ form \in [Procs -> Pl!Form \cup {None}]
         /\ issued \in Nat /\ started \in Nat
BY DEF Pl!PluginInv, Pl!PluginTypes, Requests, States, Configs

--------------------
\* Parts that a step leaves alone

RowsDone ==
  /\ Pl!RowsSound' /\ Pl!GenerationNamesContent'
  /\ \A q \in Procs : Pl!SnapSound(q)' /\ Pl!FormSound(q)' /\ Pl!ReqSound(q)'
StagedDone == \A q \in Procs : Pl!StagedSound(q)'

\* The invariant from its parts.
LEMMA Whole ==
  ASSUME Pl!PluginTypes', RowsDone, StagedDone, Pl!Paid' PROVE Pl!PluginInv'
BY DEF Pl!PluginInv, RowsDone, StagedDone

\* Uploads and jobs that do not change stay accounted for.
LEMMA StagedStill ==
  ASSUME Pl!PluginInv, staged' = staged, job' = job, up' = up PROVE StagedDone
<1> SUFFICES ASSUME NEW q \in Procs PROVE Pl!StagedSound(q)' BY DEF StagedDone
<1>1. Pl!StagedSound(q) BY DEF Pl!PluginInv
<1> QED BY <1>1 DEF Pl!StagedSound

\* So do tokens that nobody issues or uses.
LEMMA PaidStill ==
  ASSUME Pl!PluginInv, grant' = grant, issued' = issued, started' = started PROVE Pl!Paid'
BY DEF Pl!PluginInv, Pl!Paid

\* The plugin's rows stay, advance by one revision or come into being.
CfgMoves ==
  \/ cfg' = cfg
  \/ cfg' \in Pl!SettingsRow /\ (cfg # None => cfg'.rev = cfg.rev + 1)
Moves ==
  \/ st' = st /\ cfg' = cfg
  \/ st # None /\ st' \in Pl!StateRow /\ st'.rev = st.rev + 1 /\ CfgMoves
  \/ st = None /\ st' \in Pl!StateRow /\ cfg' = cfg

\* A process that publishes nothing keeps a sound snapshot while the rows move.
LEMMA OthersSnap ==
  ASSUME Pl!PluginAssumption, Pl!PluginInv, NEW q \in Procs, Moves,
         snap'[q] = snap[q], up'[q] = up[q], loaded[q] \subseteq loaded'[q]
  PROVE  Pl!SnapSound(q)'
<1>1. Pl!SnapSound(q) BY DEF Pl!PluginInv
<1>2. CASE snap[q] = None BY <1>2 DEF Pl!SnapSound
<1>3. CASE snap[q] # None
  <2>1. snap[q] \in Pl!Active BY <1>3, PluginTyped
  <2>2. snap[q].rev \in Nat BY <2>1 DEF Pl!Active
  <2>3. /\ up[q] /\ snap[q].digest \in loaded[q] /\ st # None /\ snap[q].rev <= st.rev
      BY <1>1, <1>3 DEF Pl!SnapSound
  <2>4. st.rev \in Nat BY <2>3, PluginTyped DEF States, Pl!StateRow
  <2>5. CASE st' = st /\ cfg' = cfg BY <1>1, <1>3, <2>3, <2>5 DEF Pl!SnapSound
  <2>6. CASE st' \in Pl!StateRow /\ st'.rev = st.rev + 1
    <3>1. snap[q].rev <= st'.rev /\ snap[q].rev # st'.rev BY <2>2, <2>3, <2>4, <2>6
    <3>2. st' # None BY <2>6, PluginConstants
    <3> QED BY <1>3, <2>3, <3>1, <3>2 DEF Pl!SnapSound
  <2> QED BY <2>3, <2>5, <2>6 DEF Moves
<1> QED BY <1>2, <1>3

\* So does a browser that loads nothing.
LEMMA OthersForm ==
  ASSUME Pl!PluginAssumption, Pl!PluginInv, NEW q \in Procs, Moves, form'[q] = form[q]
  PROVE  Pl!FormSound(q)'
<1>1. Pl!FormSound(q) BY DEF Pl!PluginInv
<1>2. CASE cfg' = cfg BY <1>1, <1>2 DEF Pl!FormSound
<1>3. CASE cfg' \in Pl!SettingsRow /\ (cfg # None => cfg'.rev = cfg.rev + 1)
  <2> SUFFICES ASSUME form[q] # None, form[q].settings # None
               PROVE  /\ cfg' # None /\ form[q].settings[1] <= cfg'.rev
                      /\ form[q].settings[1] # cfg'.rev
      BY DEF Pl!FormSound
  <2>1. cfg # None /\ form[q].settings[1] <= cfg.rev BY <1>1 DEF Pl!FormSound
  <2>2. form[q] \in Pl!Form BY PluginTyped
  <2>3. form[q].settings \in Pl!Etag BY <2>2 DEF Pl!Form
  <2>4. form[q].settings[1] \in Nat BY <2>3 DEF Pl!Etag
  <2>5. cfg.rev \in Nat BY <2>1, PluginTyped DEF Configs, Pl!SettingsRow
  <2>6. cfg' # None BY <1>3, PluginConstants
  <2> QED BY <1>3, <2>1, <2>4, <2>5, <2>6
<1> QED BY <1>2, <1>3 DEF Moves, CfgMoves

\* A save under way, in words of its record.
SaveSound(p) ==
  /\ req[p].op # "delete" =>
       /\ req[p].doc # None => req[p].digest # None /\ req[p].doc.schema = Schema[req[p].digest]
       /\ (req[p].doc = None /\ req[p].digest # None /\ req[p].rev = st.rev) =>
            Schema[req[p].digest] = 0 \/ st.digest = req[p].digest
  /\ req[p].op = "settings" =>
       /\ req[p].doc # None
       /\ req[p].rev = st.rev => /\ cfg # None /\ form[p] # None
                                 /\ form[p].seen = cfg.val

\* The two parts of what is known of a request.
LEMMA ReqSoundIs ==
  ASSUME NEW p
  PROVE  /\ Pl!ReqSound(p) <=>
              (req[p] # Pl!NoReq =>
                 /\ up[p]
                 /\ req[p].step = "commit" => st # None /\ req[p].rev <= st.rev /\ SaveSound(p))
         /\ Pl!ReqSound(p)' <=>
              (req'[p] # Pl!NoReq =>
                 /\ up'[p]
                 /\ req'[p].step = "commit" => st' # None /\ req'[p].rev <= st'.rev /\ SaveSound(p)')
BY DEF Pl!ReqSound, SaveSound

\* What a request that is about to commit looks like.
LEMMA CommitIs ==
  ASSUME Pl!PluginInv, NEW p \in Procs, req[p].step = "commit"
  PROVE  /\ req[p] \in Pl!Saving \cup Pl!Deleting /\ req[p].rev \in Nat /\ req[p] # Pl!NoReq
         /\ st \in Pl!StateRow /\ st.rev \in Nat /\ req[p].rev <= st.rev /\ up[p] /\ SaveSound(p)
<1>1. req[p] \in Requests BY PluginTyped
<1>2. req[p] # Pl!NoReq BY DEF Pl!NoReq
<1>3. req[p] \notin Pl!Wants /\ req[p] \notin [step: {"install"}] BY DEF Pl!Wants
<1>4. req[p] \in Pl!Saving \cup Pl!Deleting BY <1>1, <1>2, <1>3 DEF Requests
<1>5. req[p].rev \in Nat BY <1>4 DEF Pl!Saving, Pl!Deleting
<1>6. Pl!ReqSound(p) BY DEF Pl!PluginInv
<1>7. st # None /\ req[p].rev <= st.rev /\ up[p] /\ SaveSound(p) BY <1>2, <1>6, ReqSoundIs
<1>8. st \in Pl!StateRow BY <1>7, PluginTyped DEF States
<1>9. st.rev \in Nat BY <1>8 DEF Pl!StateRow
<1> QED BY <1>2, <1>4, <1>5, <1>7, <1>8, <1>9

\* A request that takes no step stays sound while the rows move.
LEMMA OthersReq ==
  ASSUME Pl!PluginAssumption, Pl!PluginInv, NEW q \in Procs, Moves, req'[q] = req[q],
         form'[q] = form[q], up'[q] = up[q]
  PROVE  Pl!ReqSound(q)'
<1>1. Pl!ReqSound(q) BY DEF Pl!PluginInv
<1>2. CASE req[q].step # "commit" BY <1>1, <1>2, ReqSoundIs
<1>3. CASE req[q].step = "commit"
  <2>1. /\ req[q].rev \in Nat /\ st.rev \in Nat /\ req[q].rev <= st.rev /\ up[q] /\ SaveSound(q)
        /\ st \in Pl!StateRow
      BY <1>3, CommitIs
  <2>2. st # None BY <2>1, PluginConstants
  <2>3. CASE st' = st /\ cfg' = cfg
    <3>1. SaveSound(q)' BY <2>1, <2>3 DEF SaveSound
    <3> QED BY <2>1, <2>2, <2>3, <3>1, ReqSoundIs
  <2>4. CASE st' \in Pl!StateRow /\ st'.rev = st.rev + 1
    <3>1. req[q].rev <= st'.rev /\ req[q].rev # st'.rev BY <2>1, <2>4
    <3>2. st' # None BY <2>4, PluginConstants
    <3>3. SaveSound(q)' BY <2>1, <3>1 DEF SaveSound
    <3> QED BY <2>1, <3>1, <3>2, <3>3, ReqSoundIs
  <2> QED BY <2>2, <2>3, <2>4 DEF Moves
<1> QED BY <1>2, <1>3

\* Snapshots stay, go, or are of the present revision.
SnapsMove ==
  \A q \in Procs : \/ snap'[q] = snap[q] \/ snap'[q] = None
                   \/ snap'[q] # None /\ snap'[q].rev = st'.rev

\* Snapshots of the same generation stay equal.
LEMMA NamesKept ==
  ASSUME Pl!PluginInv, SnapsMove, \A q \in Procs : Pl!SnapSound(q)'
  PROVE  Pl!GenerationNamesContent'
<1> SUFFICES ASSUME NEW p \in Procs, NEW q \in Procs, snap'[p] # None, snap'[q] # None,
                    snap'[p].digest = snap'[q].digest, snap'[p].rev = snap'[q].rev
             PROVE  snap'[p].val = snap'[q].val
    BY DEF Pl!GenerationNamesContent
<1>1. CASE snap'[p].rev = st'.rev
  <2>1. Pl!SnapSound(p)' /\ Pl!SnapSound(q)' OBVIOUS
  <2>2. /\ IF Schema[st'.digest] = 0 THEN snap'[p].val = None
           ELSE cfg' # None /\ snap'[p].val = cfg'.val
        /\ IF Schema[st'.digest] = 0 THEN snap'[q].val = None
           ELSE cfg' # None /\ snap'[q].val = cfg'.val
      BY <1>1, <2>1 DEF Pl!SnapSound
  <2> QED BY <2>2
<1>2. CASE snap'[p].rev # st'.rev
  <2>1. snap'[p] = snap[p] /\ snap'[q] = snap[q] BY <1>2 DEF SnapsMove
  <2> QED BY <2>1 DEF Pl!PluginInv, Pl!GenerationNamesContent
<1> QED BY <1>1, <1>2

\* Nothing of the plugin's rows, images and requests changes.
LEMMA RowsStill ==
  ASSUME Pl!PluginAssumption, Pl!PluginInv, art' = art, st' = st, cfg' = cfg, snap' = snap, form' = form,
         req' = req, up' = up, loaded' = loaded
  PROVE  RowsDone
<1>1. Moves BY DEF Moves
<1>2. \A q \in Procs : Pl!SnapSound(q)' BY <1>1, OthersSnap
<1>3. \A q \in Procs : Pl!FormSound(q)' BY <1>1, OthersForm
<1>4. \A q \in Procs : Pl!ReqSound(q)' BY <1>1, OthersReq
<1>5. Pl!GenerationNamesContent' BY <1>2, NamesKept DEF SnapsMove
<1>6. Pl!RowsSound' BY DEF Pl!PluginInv, Pl!RowsSound, Pl!SelectedIsInstalled,
    Pl!StoredSettingsFit, Pl!Live, Pl!Fits
<1> QED BY <1>2, <1>3, <1>4, <1>5, <1>6 DEF RowsDone

--------------------
\* Images

\* An image that is loaded stays loaded.
LEMMA LoadGrows ==
  ASSUME Pl!PluginInv, NEW p \in Procs, NEW d \in Digests, Pl!Load(p, d)
  PROVE  /\ loaded' \in [Procs -> SUBSET Digests]
         /\ \A q \in Procs : loaded[q] \subseteq loaded'[q]
         /\ Pl!Loads(p, d) => d \in loaded'[p]
<1>1. loaded \in [Procs -> SUBSET Digests] BY PluginTyped
<1>2. loaded' = [loaded EXCEPT ![p] = IF Pl!Loads(p, d) THEN loaded[p] \cup {d} ELSE loaded[p]]
    BY DEF Pl!Load
<1>3. CASE Pl!Loads(p, d)
  <2>1. loaded' = [loaded EXCEPT ![p] = loaded[p] \cup {d}] BY <1>2, <1>3
  <2> QED BY <1>1, <2>1
<1>4. CASE ~Pl!Loads(p, d)
  <2>1. loaded' = [loaded EXCEPT ![p] = loaded[p]] BY <1>2, <1>4
  <2> QED BY <1>1, <1>4, <2>1
<1> QED BY <1>3, <1>4

\* Compiling loads the selected image at most.
LEMMA SelectedGrows ==
  ASSUME Pl!PluginInv, NEW p \in Procs, NEW s, NEW arts \in SUBSET Digests, Pl!LoadSelected(p, s, arts)
  PROVE  /\ loaded' \in [Procs -> SUBSET Digests]
         /\ \A q \in Procs : loaded[q] \subseteq loaded'[q]
         /\ (s # None /\ s.enabled /\ s.digest \in arts /\ Pl!Loads(p, s.digest))
               => s.digest \in loaded'[p]
<1>1. loaded \in [Procs -> SUBSET Digests] BY PluginTyped
<1>2. CASE Pl!Loadless /\ ~(s # None /\ s.enabled /\ s.digest \in arts)
    BY <1>1, <1>2 DEF Pl!Loadless
<1>3. CASE s # None /\ s.enabled /\ s.digest \in arts
  <2>1. PICK d \in Digests : d = s.digest BY <1>3
  <2>2. Pl!Load(p, d) BY <1>3, <2>1 DEF Pl!LoadSelected
  <2> QED BY <2>1, <2>2, LoadGrows
<1> QED BY <1>2, <1>3 DEF Pl!LoadSelected

\* The generation that the records describe.
LEMMA GenerationIs ==
  ASSUME Pl!PluginAssumption, NEW p \in Procs, NEW s \in States, NEW c \in Configs,
         NEW arts \in SUBSET Digests, NEW g, g = Pl!Generation(p, s, c, arts)
  PROVE  /\ g \in Pl!Active \cup {None}
         /\ g # None => /\ s # None /\ s.enabled /\ s.digest \in arts /\ Pl!Loads(p, s.digest)
                        /\ g.digest = s.digest /\ g.rev = s.rev
                        /\ IF Schema[s.digest] = 0 THEN g.val = None
                           ELSE c # None /\ g.val = c.val
         /\ (s # None /\ s.enabled /\ s.digest \in arts /\ Pl!Loads(p, s.digest) /\ Pl!Fits(s.digest, c))
              => g # None /\ g.rev = s.rev
<1> DEFINE v == IF Schema[s.digest] = 0 THEN None ELSE c.val
           runs == s # None /\ s.enabled /\ s.digest \in arts /\ Pl!Loads(p, s.digest) /\ Pl!Fits(s.digest, c)
<1>1. CASE ~runs
  <2>1. g = None BY <1>1 DEF Pl!Generation
  <2> QED BY <1>1, <2>1
<1>2. CASE runs
  <2>1. g = [digest |-> s.digest, rev |-> s.rev, val |-> v] BY <1>2 DEF Pl!Generation
  <2>2. s \in Pl!StateRow BY <1>2 DEF States
  <2>3. s.rev \in Nat /\ s.digest \in Digests BY <1>2, <2>2 DEF Pl!StateRow
  <2>4. Schema[s.digest] # 0 => c # None BY <1>2 DEF Pl!Fits
  <2>5. c # None => c.val \in Pl!Values BY DEF Configs, Pl!SettingsRow
  <2>6. v \in Pl!Values \cup {None} BY <2>4, <2>5
  <2>7. IF Schema[s.digest] = 0 THEN v = None ELSE c # None /\ v = c.val BY <2>4
  <2> HIDE DEF v
  <2>8. g \in Pl!Active /\ g.digest = s.digest /\ g.rev = s.rev /\ g.val = v
      BY <2>1, <2>3, <2>6 DEF Pl!Active
  <2>9. g # None BY <2>8, PluginConstants
  <2> QED BY <1>2, <2>7, <2>8, <2>9
<1> QED BY <1>1, <1>2

\* A process publishes what the records describe after the step.
Publishes(p, s, c, arts) ==
  /\ s = st' /\ c = cfg' /\ st' \in States /\ cfg' \in Configs
  /\ snap' = [snap EXCEPT ![p] = Pl!Generation(p, s, c, arts)]
  /\ \A q \in Procs : loaded[q] \subseteq loaded'[q]
  /\ (s # None /\ s.enabled /\ s.digest \in arts /\ Pl!Loads(p, s.digest)) => s.digest \in loaded'[p]
  /\ up'[p] /\ \A q \in Procs : q # p => up'[q] = up[q]

\* What a process publishes is what the records say.
LEMMA PublishKeeps ==
  ASSUME Pl!PluginAssumption, Pl!PluginInv, NEW p \in Procs, Moves, NEW s, NEW c,
         NEW arts \in SUBSET Digests, Publishes(p, s, c, arts)
  PROVE  /\ snap' \in [Procs -> Pl!Active \cup {None}] /\ Pl!GenerationNamesContent'
         /\ \A q \in Procs : Pl!SnapSound(q)'
<1>1. PICK g : g = Pl!Generation(p, s, c, arts) OBVIOUS
<1>2. /\ s = st' /\ c = cfg' /\ s \in States /\ c \in Configs /\ snap' = [snap EXCEPT ![p] = g]
      /\ \A q \in Procs : loaded[q] \subseteq loaded'[q]
      /\ (s # None /\ s.enabled /\ s.digest \in arts /\ Pl!Loads(p, s.digest)) => s.digest \in loaded'[p]
      /\ up'[p] /\ \A q \in Procs : q # p => up'[q] = up[q]
    BY <1>1 DEF Publishes
<1>3. /\ g \in Pl!Active \cup {None}
      /\ g # None => /\ s # None /\ s.enabled /\ s.digest \in arts /\ Pl!Loads(p, s.digest)
                     /\ g.digest = s.digest /\ g.rev = s.rev
                     /\ IF Schema[s.digest] = 0 THEN g.val = None
                        ELSE c # None /\ g.val = c.val
    BY <1>1, <1>2, GenerationIs
<1>4. snap \in [Procs -> Pl!Active \cup {None}] BY PluginTyped
<1>5. /\ snap' \in [Procs -> Pl!Active \cup {None}] /\ snap'[p] = g
      /\ \A q \in Procs : q # p => snap'[q] = snap[q]
    BY <1>2, <1>3, <1>4
<1>6. Pl!SnapSound(p)'
  <2> SUFFICES ASSUME g # None PROVE Pl!SnapSound(p)' BY <1>5 DEF Pl!SnapSound
  <2>1. s \in Pl!StateRow BY <1>2, <1>3 DEF States
  <2>2. s.rev <= s.rev BY <2>1 DEF Pl!StateRow
  <2> QED BY <1>2, <1>3, <1>5, <2>2 DEF Pl!SnapSound
<1>7. \A q \in Procs : q # p => Pl!SnapSound(q)' BY <1>2, <1>5, OthersSnap
<1>8. \A q \in Procs : Pl!SnapSound(q)' BY <1>6, <1>7
<1>9. SnapsMove BY <1>2, <1>3, <1>5 DEF SnapsMove
<1> QED BY <1>5, <1>8, <1>9, NamesKept

\* The artifacts that are installed.
LEMMA LiveIs == Pl!Live \in SUBSET Digests
BY DEF Pl!Live

\* The coordinator's reload.
LEMMA ReloadKeeps ==
  ASSUME Pl!PluginAssumption, Pl!PluginInv, NEW p \in Procs, Pl!Reload(p) PROVE Pl!PluginInv'
<1>1. /\ up[p] /\ snap' = [snap EXCEPT ![p] = Pl!Generation(p, st, cfg, Pl!Live)] /\ Pl!LoadSelected(p, st, Pl!Live)
      /\ UNCHANGED <<req, art, st, cfg, administrator, job, staged, up, form, grant, issued, started>>
    BY DEF Pl!Reload, Pl!Free, Pl!db, Pl!rest
<1>2. PICK s \in States : s = st BY PluginTyped
<1>3. PICK c \in Configs : c = cfg BY PluginTyped
<1>4. PICK arts \in SUBSET Digests : arts = Pl!Live BY LiveIs
<1>5. /\ loaded' \in [Procs -> SUBSET Digests]
      /\ \A q \in Procs : loaded[q] \subseteq loaded'[q]
      /\ (s # None /\ s.enabled /\ s.digest \in arts /\ Pl!Loads(p, s.digest)) => s.digest \in loaded'[p]
    BY <1>1, <1>2, <1>4, SelectedGrows
<1>6. Publishes(p, s, c, arts) BY <1>1, <1>2, <1>3, <1>4, <1>5 DEF Publishes
<1>7. Moves BY <1>1 DEF Moves
<1>8. /\ snap' \in [Procs -> Pl!Active \cup {None}] /\ Pl!GenerationNamesContent'
      /\ \A q \in Procs : Pl!SnapSound(q)'
    BY <1>6, <1>7, PublishKeeps
<1>9. \A q \in Procs : Pl!FormSound(q)' BY <1>1, <1>7, OthersForm
<1>10. \A q \in Procs : Pl!ReqSound(q)' BY <1>1, <1>7, OthersReq
<1>11. Pl!RowsSound' BY <1>1 DEF Pl!PluginInv, Pl!RowsSound, Pl!SelectedIsInstalled,
    Pl!StoredSettingsFit, Pl!Live, Pl!Fits
<1>12. RowsDone BY <1>8, <1>9, <1>10, <1>11 DEF RowsDone
<1>13. StagedDone BY <1>1, StagedStill
<1>14. Pl!Paid' BY <1>1, PaidStill
<1>15. Pl!PluginTypes'
  <2>1. UNCHANGED <<req, art, st, cfg, job, staged, up, form, grant, issued, started>> BY <1>1
  <2> QED BY <1>5, <1>8, <2>1 DEF Pl!PluginTypes, Pl!PluginInv
<1> QED BY <1>12, <1>13, <1>14, <1>15, Whole

--------------------
\* Requests

\* One process's request changes, and images may have been loaded for it.
ReqChange(p, r) ==
  /\ req' = [req EXCEPT ![p] = r]
  /\ art' = art /\ st' = st /\ cfg' = cfg /\ snap' = snap /\ form' = form /\ up' = up
  /\ \A q \in Procs : loaded[q] \subseteq loaded'[q]

\* A request moves on.
LEMMA ReqKeeps ==
  ASSUME Pl!PluginAssumption, Pl!PluginInv, NEW p \in Procs, NEW r \in Requests, ReqChange(p, r),
         Pl!ReqSound(p)'
  PROVE  RowsDone /\ req' \in [Procs -> Requests]
<1>1. /\ art' = art /\ st' = st /\ cfg' = cfg /\ snap' = snap /\ form' = form /\ up' = up
      /\ \A q \in Procs : loaded[q] \subseteq loaded'[q]
    BY DEF ReqChange
<1>2. req' \in [Procs -> Requests] /\ \A q \in Procs : q # p => req'[q] = req[q]
    BY PluginTyped DEF ReqChange
<1>3. Moves BY <1>1 DEF Moves
<1>4. \A q \in Procs : Pl!SnapSound(q)' BY <1>1, <1>3, OthersSnap
<1>5. \A q \in Procs : Pl!FormSound(q)' BY <1>1, <1>3, OthersForm
<1>6. \A q \in Procs : q # p => Pl!ReqSound(q)' BY <1>1, <1>2, <1>3, OthersReq
<1>7. Pl!GenerationNamesContent' BY <1>1, <1>4, NamesKept DEF SnapsMove
<1>8. Pl!RowsSound' BY <1>1 DEF Pl!PluginInv, Pl!RowsSound, Pl!SelectedIsInstalled,
    Pl!StoredSettingsFit, Pl!Live, Pl!Fits
<1> QED BY <1>2, <1>4, <1>5, <1>6, <1>7, <1>8 DEF RowsDone

\* The tokens that sessions hold.
Grants == {p \in Procs : grant[p]}

\* There are at most as many tokens as processes.
LEMMA GrantsCounted ==
  ASSUME Pl!PluginAssumption
  PROVE  /\ IsFiniteSet(Procs) /\ IsFiniteSet(Grants) /\ Cardinality(Grants) \in Nat
<1>1. IsFiniteSet(Procs) BY PluginFinite DEF Pl!PluginAssumption
<1>2. Grants \subseteq Procs BY DEF Grants
<1>3. IsFiniteSet(Grants) BY <1>1, <1>2, FS_Subset
<1> QED BY <1>1, <1>3, FS_CardinalityType

\* detail and settings: the Console shows the etags of the rows.
LEMMA ViewKeeps ==
  ASSUME Pl!PluginAssumption, Pl!PluginInv, NEW p \in Procs, Pl!View(p) PROVE Pl!PluginInv'
<1> DEFINE e == <<st.rev, st.digest>>
           g == IF cfg = None THEN None ELSE <<cfg.rev, st.digest>>
           v == IF cfg = None THEN None ELSE cfg.val
           f == [state |-> e, settings |-> g, seen |-> v]
<1>1. /\ st # None /\ form' = [form EXCEPT ![p] = f]
      /\ UNCHANGED <<job, staged, up, grant, issued, started, snap, req, art, st, cfg, loaded>>
    BY DEF Pl!View, Pl!etag, Pl!db, Pl!image
<1>2. st \in Pl!StateRow BY <1>1, PluginTyped DEF States
<1>3. st.rev \in Nat /\ st.digest \in Digests \cup {None} BY <1>2 DEF Pl!StateRow
<1>4. cfg # None => cfg.rev \in Nat /\ cfg.val \in Pl!Values
  BY PluginTyped DEF Configs, Pl!SettingsRow
<1>5. e \in Pl!Etag /\ g \in Pl!Etag \cup {None} /\ v \in Pl!Values \cup {None}
  BY <1>3, <1>4 DEF Pl!Etag
<1>6. /\ g # None => cfg # None /\ g[1] = cfg.rev /\ v = cfg.val
      /\ cfg # None => v = cfg.val
    OBVIOUS
<1> HIDE DEF e, g, v
<1>7. f \in Pl!Form /\ f.settings = g /\ f.seen = v BY <1>5 DEF Pl!Form
<1>8. f # None BY <1>7, PluginConstants
<1> HIDE DEF f
<1>9. /\ form' \in [Procs -> Pl!Form \cup {None}] /\ form'[p] = f
      /\ \A q \in Procs : q # p => form'[q] = form[q]
    BY <1>1, <1>7, PluginTyped
<1>10. Moves BY <1>1 DEF Moves
<1>11. Pl!FormSound(p)'
  <2>1. g # None => g[1] <= cfg.rev BY <1>4, <1>6
  <2> QED BY <1>1, <1>6, <1>7, <1>9, <2>1 DEF Pl!FormSound
<1>12. Pl!ReqSound(p)'
  <2>1. Pl!ReqSound(p) BY DEF Pl!PluginInv
  <2>2. SaveSound(p) => SaveSound(p)' BY <1>1, <1>6, <1>7, <1>8, <1>9 DEF SaveSound
  <2> QED BY <1>1, <2>1, <2>2, ReqSoundIs
<1>13. \A q \in Procs : Pl!SnapSound(q)' BY <1>1, <1>10, OthersSnap
<1>14. \A q \in Procs : q # p => Pl!FormSound(q)' BY <1>9, <1>10, OthersForm
<1>15. \A q \in Procs : q # p => Pl!ReqSound(q)' BY <1>1, <1>9, <1>10, OthersReq
<1>16. Pl!GenerationNamesContent' BY <1>1, <1>13, NamesKept DEF SnapsMove
<1>17. Pl!RowsSound' BY <1>1 DEF Pl!PluginInv, Pl!RowsSound, Pl!SelectedIsInstalled,
    Pl!StoredSettingsFit, Pl!Live, Pl!Fits
<1>18. RowsDone BY <1>11, <1>12, <1>13, <1>14, <1>15, <1>16, <1>17 DEF RowsDone
<1>19. StagedDone BY <1>1, StagedStill
<1>20. Pl!Paid' BY <1>1, PaidStill
<1>21. Pl!PluginTypes'
  <2>1. UNCHANGED <<job, staged, up, grant, issued, started, snap, req, art, st, cfg, loaded>>
    BY <1>1
  <2> QED BY <1>9, <2>1 DEF Pl!PluginTypes, Pl!PluginInv
<1> QED BY <1>18, <1>19, <1>20, <1>21, Whole

\* authorize_plugin_management
LEMMA ReauthorizeKeeps ==
  ASSUME Pl!PluginAssumption, Pl!PluginInv, NEW p \in Procs, Pl!Reauthorize(p) PROVE Pl!PluginInv'
<1>1. /\ grant' = [grant EXCEPT ![p] = TRUE] /\ issued' = issued + 1
      /\ UNCHANGED <<job, staged, up, form, started, snap, req, art, st, cfg, loaded>>
    BY DEF Pl!Reauthorize, Pl!db, Pl!image
<1>2. RowsDone BY <1>1, RowsStill
<1>3. StagedDone BY <1>1, StagedStill
<1>4. grant' \in [Procs -> BOOLEAN] /\ issued' \in Nat BY <1>1, PluginTyped
<1>5. Pl!Paid'
  <2>1. Grants' = Grants \cup {p} BY <1>1, PluginTyped DEF Grants
  <2>2. Cardinality(Grants') \in Nat /\ Cardinality(Grants') <= Cardinality(Grants) + 1
    <3>1. IsFiniteSet(Grants) /\ Cardinality(Grants) \in Nat BY GrantsCounted
    <3>2. Cardinality(Grants \cup {p}) = IF p \in Grants THEN Cardinality(Grants)
                                         ELSE Cardinality(Grants) + 1
        BY <3>1, FS_AddElement
    <3> QED BY <2>1, <3>1, <3>2
  <2> DEFINE n == Cardinality(Grants)
             m == Cardinality(Grants')
  <2>3. n \in Nat BY GrantsCounted
  <2>4. started + n <= issued BY PluginCounts DEF Pl!PluginInv, Pl!Paid, Grants
  <2>5. m \in Nat /\ m <= n + 1 BY <2>2
  <2> HIDE DEF n, m
  <2>6. started' + m <= issued' BY <1>1, <2>3, <2>4, <2>5, PluginTyped
  <2> QED BY <2>6, PluginCounts DEF Pl!Paid, m, Grants
<1>6. Pl!PluginTypes'
  <2>1. UNCHANGED <<job, staged, up, form, started, snap, req, art, st, cfg, loaded>> BY <1>1
  <2> QED BY <1>4, <2>1 DEF Pl!PluginTypes, Pl!PluginInv
<1> QED BY <1>2, <1>3, <1>5, <1>6, Whole

\* A token is used or lost.
LEMMA GrantGoes ==
  ASSUME Pl!PluginAssumption, Pl!PluginInv, NEW p \in Procs, grant' = [grant EXCEPT ![p] = FALSE],
         issued' = issued
  PROVE  /\ grant' \in [Procs -> BOOLEAN]
         /\ started' = started => Pl!Paid'
         /\ grant[p] /\ started' = started + 1 => Pl!Paid'
<1>1. grant' \in [Procs -> BOOLEAN] BY PluginTyped
<1>2. Grants' = Grants \ {p} BY PluginTyped DEF Grants
<1> DEFINE n == Cardinality(Grants)
           m == Cardinality(Grants')
<1>3. IsFiniteSet(Grants) /\ n \in Nat BY GrantsCounted
<1>4. m = IF p \in Grants THEN n - 1 ELSE n BY <1>2, <1>3, FS_RemoveElement
<1>5. p \in Grants <=> grant[p] BY DEF Grants
<1>6. IsFiniteSet(Grants') BY <1>2, <1>3, FS_RemoveElement
<1>7. m \in Nat BY <1>6, FS_CardinalityType
<1>8. started + n <= issued BY PluginCounts DEF Pl!PluginInv, Pl!Paid, Grants
<1>9. m <= n /\ (grant[p] => m = n - 1) BY <1>3, <1>4, <1>5, <1>7
<1>10. Pl!Paid' <=> started' + m <= issued' BY PluginCounts DEF Pl!Paid, Grants
<1> HIDE DEF n, m
<1>11. started \in Nat /\ issued \in Nat BY PluginTyped
<1> QED BY <1>1, <1>3, <1>7, <1>8, <1>9, <1>10, <1>11

\* consume_plugin_authorization pays for the request.
LEMMA AuthorizeKeeps ==
  ASSUME Pl!PluginAssumption, Pl!PluginInv, NEW p \in Procs, NEW op \in Pl!Wants \cup [step: {"install"}],
         Pl!Authorize(p, op)
  PROVE  Pl!PluginInv'
<1>1. /\ up[p] /\ grant[p] /\ grant' = [grant EXCEPT ![p] = FALSE] /\ started' = started + 1
      /\ req' = IF administrator THEN [req EXCEPT ![p] = op] ELSE req
      /\ UNCHANGED <<job, staged, up, form, issued, snap, art, st, cfg, loaded>>
    BY DEF Pl!Authorize, Pl!Consumed, Pl!db, Pl!image
<1>2. RowsDone /\ req' \in [Procs -> Requests]
  <2>1. CASE ~administrator
    <3>1. req' = req BY <1>1, <2>1
    <3> QED BY <1>1, <3>1, RowsStill, PluginTyped
  <2>2. CASE administrator
    <3>1. op \in Requests BY DEF Requests
    <3>2. op.step # "commit" BY DEF Pl!Wants
    <3>3. ReqChange(p, op) BY <1>1, <2>2 DEF ReqChange
    <3>4. req'[p] = op BY <1>1, <2>2, PluginTyped
    <3>5. Pl!ReqSound(p)' BY <1>1, <3>2, <3>4, ReqSoundIs
    <3> QED BY <3>1, <3>3, <3>5, ReqKeeps
  <2> QED BY <2>1, <2>2
<1>3. StagedDone BY <1>1, StagedStill
<1>4. grant' \in [Procs -> BOOLEAN] /\ Pl!Paid' BY <1>1, GrantGoes
<1>5. started' \in Nat BY <1>1, PluginTyped
<1>6. Pl!PluginTypes'
  <2>1. UNCHANGED <<job, staged, up, form, issued, snap, art, st, cfg, loaded>> BY <1>1
  <2> QED BY <1>2, <1>4, <1>5, <2>1 DEF Pl!PluginTypes, Pl!PluginInv, Requests
<1> QED BY <1>2, <1>3, <1>4, <1>6, Whole

\* A step of one request.
LEMMA PrepareWhole ==
  ASSUME Pl!PluginAssumption, Pl!PluginInv, NEW p \in Procs, NEW r \in Requests, ReqChange(p, r),
         Pl!ReqSound(p)', loaded' \in [Procs -> SUBSET Digests],
         UNCHANGED <<job, staged, grant, issued, started>>
  PROVE  Pl!PluginInv'
<1>1. RowsDone /\ req' \in [Procs -> Requests] BY ReqKeeps
<1>2. UNCHANGED <<art, st, cfg, snap, form, up>> BY DEF ReqChange
<1>3. StagedDone BY <1>2, StagedStill
<1>4. Pl!Paid' BY PaidStill
<1>5. Pl!PluginTypes' BY <1>1, <1>2 DEF Pl!PluginTypes, Pl!PluginInv, Requests
<1> QED BY <1>1, <1>3, <1>4, <1>5, Whole

\* A request that is given up.
LEMMA DroppedSound ==
  ASSUME Pl!PluginInv, NEW p \in Procs, req' = [req EXCEPT ![p] = Pl!NoReq]
  PROVE  Pl!ReqSound(p)' /\ Pl!NoReq \in Requests
<1>1. req'[p] = Pl!NoReq BY PluginTyped
<1> QED BY <1>1 DEF Pl!ReqSound, Requests

\* The document that a selected image runs with.
LEMMA MigratedIs ==
  ASSUME Pl!PluginAssumption, Pl!PluginInv, NEW d \in Digests, st \in Pl!StateRow
  PROVE  /\ Pl!Migrated(d) \in Pl!Document \cup {None}
         /\ Pl!Migrated(d) = None <=> Schema[d] = 0
         /\ Pl!Migrated(d) # None => Pl!Migrated(d).schema = Schema[d]
<1>1. Schema[d] \in Nat /\ None \notin Pl!Document BY PluginConstants
<1>2. CASE Schema[d] = 0 BY <1>2 DEF Pl!Migrated
<1>3. CASE Schema[d] # 0
  <2>1. PICK v \in Pl!Values : Pl!Migrated(d) = [schema |-> Schema[d], val |-> v]
    <3>1. CASE cfg = None
      <4>1. <<None, 0>> \in Pl!Values BY DEF Pl!Values
      <4>2. Pl!Migrated(d) = [schema |-> Schema[d], val |-> <<None, 0>>]
        BY <1>3, <3>1 DEF Pl!Migrated
      <4> QED BY <4>1, <4>2
    <3>2. CASE cfg # None /\ cfg.schema = Schema[d]
      <4>1. cfg.val \in Pl!Values BY <3>2, PluginTyped DEF Configs, Pl!SettingsRow
      <4>2. Pl!Migrated(d) = [schema |-> Schema[d], val |-> cfg.val] BY <1>3, <3>2 DEF Pl!Migrated
      <4> QED BY <4>1, <4>2
    <3>3. CASE cfg # None /\ cfg.schema # Schema[d]
      <4>1. <<None, st.rev>> \in Pl!Values BY DEF Pl!Values, Pl!StateRow
      <4>2. Pl!Migrated(d) = [schema |-> Schema[d], val |-> <<None, st.rev>>]
        BY <1>3, <3>3 DEF Pl!Migrated
      <4> QED BY <4>1, <4>2
    <3> QED BY <3>1, <3>2, <3>3
  <2>2. Pl!Migrated(d) \in Pl!Document /\ Pl!Migrated(d).schema = Schema[d]
    BY <1>1, <2>1 DEF Pl!Document
  <2> QED BY <1>1, <1>3, <2>2
<1> QED BY <1>2, <1>3

\* save_plugin_state up to the transaction.
LEMMA PrepareStateKeeps ==
  ASSUME Pl!PluginAssumption, Pl!PluginInv, NEW p \in Procs, Pl!PrepareState(p)
  PROVE  Pl!PluginInv'
<1> DEFINE w == req[p]
           check == w.digest # None /\ (w.enabled \/ st.digest # w.digest)
           ok == /\ st # None /\ form[p] # None
                 /\ form[p].state = Pl!etag(st.rev, st.digest)
                 /\ check => w.digest \in Pl!Live /\ Pl!Loads(p, w.digest)
                 /\ w.enabled => w.digest # None
           doc == IF check THEN Pl!Migrated(w.digest) ELSE None
           r == [step |-> "commit", op |-> "state", rev |-> st.rev,
                 enabled |-> w.enabled, digest |-> w.digest, doc |-> doc]
<1>1. /\ w.step = "state"
      /\ UNCHANGED <<snap, art, st, cfg, job, staged, up, form, grant, issued, started>>
    BY DEF Pl!PrepareState, Pl!db, Pl!rest
<1>2. w \in [step: {"state"}, enabled: BOOLEAN, digest: Digests \cup {None}]
  <2>1. w \in Requests BY PluginTyped
  <2>2. w # Pl!NoReq /\ w \notin Pl!Saving /\ w \notin Pl!Deleting /\ w \notin [step: {"install"}]
      BY <1>1 DEF Pl!NoReq, Pl!Saving, Pl!Deleting
  <2> QED BY <1>1, <2>1, <2>2 DEF Requests, Pl!Wants
<1>3. w.enabled \in BOOLEAN /\ w.digest \in Digests \cup {None} BY <1>2
<1>4. /\ loaded' \in [Procs -> SUBSET Digests]
      /\ \A q \in Procs : loaded[q] \subseteq loaded'[q]
  <2>1. CASE Pl!Loadless BY <2>1, PluginTyped DEF Pl!Loadless
  <2>2. CASE ~Pl!Loadless
    <3>1. w.digest \in Pl!Live /\ Pl!Load(p, w.digest) BY <2>2 DEF Pl!PrepareState
    <3>2. PICK d \in Digests : d = w.digest BY <3>1 DEF Pl!Live
    <3> QED BY <3>1, <3>2, LoadGrows
  <2> QED BY <2>1, <2>2
<1>5. CASE req' = [req EXCEPT ![p] = Pl!NoReq]
  <2>1. ReqChange(p, Pl!NoReq) BY <1>1, <1>4, <1>5 DEF ReqChange
  <2>2. UNCHANGED <<job, staged, grant, issued, started>> BY <1>1
  <2> QED BY <1>4, <1>5, <2>1, <2>2, DroppedSound, PrepareWhole
<1>6. CASE st # None /\ req' = [req EXCEPT ![p] = r]
  <2>1. st \in Pl!StateRow BY <1>6, PluginTyped DEF States
  <2>2. st.rev \in Nat BY <2>1 DEF Pl!StateRow
  <2>3. check => w.digest \in Digests BY <1>3
  <2>4. /\ doc \in Pl!Document \cup {None}
        /\ doc # None => w.digest # None /\ doc.schema = Schema[w.digest]
        /\ (doc = None /\ w.digest # None) => Schema[w.digest] = 0 \/ st.digest = w.digest
    <3>1. CASE check
      <4>1. PICK d \in Digests : d = w.digest BY <2>3, <3>1
      <4>2. doc = Pl!Migrated(d) BY <3>1, <4>1
      <4> QED BY <2>1, <3>1, <4>1, <4>2, MigratedIs
    <3>2. CASE ~check
      <4>1. doc = None BY <3>2
      <4> QED BY <3>2, <4>1
    <3> QED BY <3>1, <3>2
  <2>5. PICK e \in Nat : e = st.rev BY <2>2
  <2>6. PICK b \in BOOLEAN : b = w.enabled BY <1>3
  <2>7. PICK d \in Digests \cup {None} : d = w.digest BY <1>3
  <2>8. r = [step |-> "commit", op |-> "state", rev |-> e, enabled |-> b, digest |-> d, doc |-> doc]
      BY <2>5, <2>6, <2>7
  <2> HIDE DEF doc
  <2>9. r \in Pl!Saving /\ r.step = "commit" /\ r.op = "state" /\ r.rev = e /\ r.digest = d /\ r.doc = doc
      BY <2>4, <2>8 DEF Pl!Saving
  <2> HIDE DEF r
  <2>10. req'[p] = r BY <1>6, PluginTyped
  <2>11. up[p]
    <3>1. Pl!ReqSound(p) /\ w # Pl!NoReq BY <1>1 DEF Pl!PluginInv, Pl!NoReq
    <3> QED BY <3>1, ReqSoundIs
  <2>12. SaveSound(p)' BY <1>1, <2>4, <2>7, <2>9, <2>10 DEF SaveSound
  <2>13. Pl!ReqSound(p)'
    <3>1. r.rev <= st'.rev BY <1>1, <2>2, <2>5, <2>9
    <3> QED BY <1>1, <1>6, <2>9, <2>10, <2>11, <2>12, <3>1, ReqSoundIs
  <2>14. ReqChange(p, r) BY <1>1, <1>4, <1>6 DEF ReqChange
  <2>15. UNCHANGED <<job, staged, grant, issued, started>> BY <1>1
  <2>16. r \in Requests BY <2>9 DEF Requests
  <2> QED BY <1>4, <2>13, <2>14, <2>15, <2>16, PrepareWhole
<1> QED BY <1>5, <1>6 DEF Pl!PrepareState, Pl!Drop

\* save_plugin_settings up to the transaction.
LEMMA PrepareSettingsKeeps ==
  ASSUME Pl!PluginAssumption, Pl!PluginInv, NEW p \in Procs, Pl!PrepareSettings(p)
  PROVE  Pl!PluginInv'
<1> DEFINE v == <<p, st.rev>>
           doc == [schema |-> req[p].schema, val |-> v]
           r == [step |-> "commit", op |-> "settings", rev |-> st.rev,
                 enabled |-> st.enabled, digest |-> st.digest, doc |-> doc]
           found == /\ st # None /\ cfg # None /\ form[p] # None
                    /\ form[p].settings = Pl!etag(cfg.rev, st.digest) /\ st.digest # None
<1>1. /\ req[p].step = "settings"
      /\ UNCHANGED <<snap, art, st, cfg, job, staged, up, form, grant, issued, started>>
    BY DEF Pl!PrepareSettings, Pl!db, Pl!rest
<1>2. req[p] \in [step: {"settings"}, schema: {Schema[d] : d \in Digests} \ {0}]
  <2>1. req[p] \in Requests BY PluginTyped
  <2>2. /\ req[p] # Pl!NoReq /\ req[p] \notin Pl!Saving /\ req[p] \notin Pl!Deleting
        /\ req[p] \notin [step: {"install"}]
      BY <1>1 DEF Pl!NoReq, Pl!Saving, Pl!Deleting
  <2> QED BY <1>1, <2>1, <2>2 DEF Requests, Pl!Wants
<1>3. req[p].schema \in Nat BY <1>2, PluginConstants
<1>4. found \/ (Pl!Drop(p) /\ Pl!Loadless) BY DEF Pl!PrepareSettings
<1>5. /\ loaded' \in [Procs -> SUBSET Digests]
      /\ \A q \in Procs : loaded[q] \subseteq loaded'[q]
  <2>1. CASE Pl!Loadless BY <2>1, PluginTyped DEF Pl!Loadless
  <2>2. CASE ~Pl!Loadless
    <3>1. st # None /\ st.digest # None /\ Pl!Load(p, st.digest) BY <2>2 DEF Pl!PrepareSettings
    <3>2. PICK d \in Digests : d = st.digest BY <3>1, PluginTyped DEF States, Pl!StateRow
    <3> QED BY <3>1, <3>2, LoadGrows
  <2> QED BY <2>1, <2>2
<1>6. CASE req' = [req EXCEPT ![p] = Pl!NoReq]
  <2>1. ReqChange(p, Pl!NoReq) BY <1>1, <1>5, <1>6 DEF ReqChange
  <2>2. UNCHANGED <<job, staged, grant, issued, started>> BY <1>1
  <2> QED BY <1>5, <1>6, <2>1, <2>2, DroppedSound, PrepareWhole
<1>7. CASE found /\ Schema[st.digest] = req[p].schema /\ req' = [req EXCEPT ![p] = r]
  <2>1. st \in Pl!StateRow BY <1>7, PluginTyped DEF States
  <2>2. st.rev \in Nat /\ st.enabled \in BOOLEAN /\ st.digest \in Digests
    BY <1>7, <2>1 DEF Pl!StateRow
  <2>3. v \in Pl!Values BY <2>2 DEF Pl!Values
  <2>4. PICK x \in Nat : x = req[p].schema BY <1>3
  <2> HIDE DEF v
  <2>5. doc \in Pl!Document /\ doc.schema = x BY <2>3, <2>4 DEF Pl!Document
  <2>6. doc # None BY <2>5, PluginConstants
  <2> HIDE DEF doc
  <2>7. PICK e \in Nat : e = st.rev BY <2>2
  <2>8. PICK b \in BOOLEAN : b = st.enabled BY <2>2
  <2>9. PICK d \in Digests : d = st.digest BY <2>2
  <2>10. r = [step |-> "commit", op |-> "settings", rev |-> e, enabled |-> b, digest |-> d, doc |-> doc]
      BY <2>7, <2>8, <2>9
  <2>11. r \in Pl!Saving /\ r.step = "commit" /\ r.op = "settings" /\ r.rev = e /\ r.digest = d /\ r.doc = doc
      BY <2>5, <2>10 DEF Pl!Saving
  <2> HIDE DEF r
  <2>12. req'[p] = r BY <1>7, PluginTyped
  <2>13. up[p]
    <3>1. Pl!ReqSound(p) /\ req[p] # Pl!NoReq BY <1>1 DEF Pl!PluginInv, Pl!NoReq
    <3> QED BY <3>1, ReqSoundIs
  <2>14. form[p].seen = cfg.val
    <3>1. cfg.rev \in Nat BY <1>7, PluginTyped DEF Configs, Pl!SettingsRow
    <3>2. form[p].settings = <<cfg.rev, st.digest>> BY <1>7 DEF Pl!etag
    <3>3. form[p].settings \in Pl!Etag BY <2>2, <3>1, <3>2 DEF Pl!Etag
    <3>4. form[p].settings # None /\ form[p].settings[1] = cfg.rev BY <3>2, <3>3, PluginConstants
    <3>5. Pl!FormSound(p) BY DEF Pl!PluginInv
    <3> QED BY <1>7, <3>4, <3>5 DEF Pl!FormSound
  <2>15. d # None BY PluginConstants
  <2>16. SaveSound(p)'
      BY <1>1, <1>7, <2>4, <2>5, <2>6, <2>9, <2>11, <2>12, <2>14, <2>15 DEF SaveSound
  <2>17. Pl!ReqSound(p)'
    <3>1. r.rev <= st'.rev BY <1>1, <2>2, <2>7, <2>11
    <3> QED BY <1>1, <1>7, <2>11, <2>12, <2>13, <2>16, <3>1, ReqSoundIs
  <2>18. ReqChange(p, r) BY <1>1, <1>5, <1>7 DEF ReqChange
  <2>19. UNCHANGED <<job, staged, grant, issued, started>> BY <1>1
  <2>20. r \in Requests BY <2>11 DEF Requests
  <2> QED BY <1>5, <2>17, <2>18, <2>19, <2>20, PrepareWhole
<1>8. \/ req' = [req EXCEPT ![p] = Pl!NoReq]
      \/ found /\ Schema[st.digest] = req[p].schema /\ req' = [req EXCEPT ![p] = r]
  <2>1. CASE ~found BY <1>4, <2>1 DEF Pl!Drop
  <2>2. CASE found
    <3>1. req' = IF Pl!Loads(p, st.digest) /\ Schema[st.digest] = req[p].schema
                   THEN [req EXCEPT ![p] = r] ELSE [req EXCEPT ![p] = Pl!NoReq]
        BY <2>2 DEF Pl!PrepareSettings
    <3> QED BY <2>2, <3>1
  <2> QED BY <2>1, <2>2
<1> QED BY <1>6, <1>7, <1>8

\* delete_plugin_artifact up to the transaction.
LEMMA PrepareDeleteKeeps ==
  ASSUME Pl!PluginAssumption, Pl!PluginInv, NEW p \in Procs, Pl!PrepareDelete(p)
  PROVE  Pl!PluginInv'
<1> DEFINE r == [step |-> "commit", op |-> "delete", rev |-> st.rev, digest |-> req[p].digest]
<1>1. /\ req[p].step = "delete"
      /\ UNCHANGED <<snap, art, st, cfg, job, staged, up, form, grant, issued, started, loaded>>
      /\ req' = [req EXCEPT ![p] = Pl!NoReq] \/ (st # None /\ req' = [req EXCEPT ![p] = r])
    BY DEF Pl!PrepareDelete, Pl!Drop, Pl!db, Pl!rest, Pl!image
<1>2. req[p] \in [step: {"delete"}, digest: Digests]
  <2>1. req[p] \in Requests BY PluginTyped
  <2>2. /\ req[p] # Pl!NoReq /\ req[p] \notin Pl!Saving /\ req[p] \notin Pl!Deleting
        /\ req[p] \notin [step: {"install"}]
      BY <1>1 DEF Pl!NoReq, Pl!Saving, Pl!Deleting
  <2> QED BY <1>1, <2>1, <2>2 DEF Requests, Pl!Wants
<1>3. /\ loaded' \in [Procs -> SUBSET Digests]
      /\ \A q \in Procs : loaded[q] \subseteq loaded'[q]
    BY <1>1, PluginTyped
<1>4. UNCHANGED <<job, staged, grant, issued, started>> BY <1>1
<1>5. CASE req' = [req EXCEPT ![p] = Pl!NoReq]
  <2>1. ReqChange(p, Pl!NoReq) BY <1>1, <1>3, <1>5 DEF ReqChange
  <2> QED BY <1>3, <1>4, <1>5, <2>1, DroppedSound, PrepareWhole
<1>6. CASE st # None /\ req' = [req EXCEPT ![p] = r]
  <2>1. st.rev \in Nat BY <1>6, PluginTyped DEF States, Pl!StateRow
  <2>2. PICK e \in Nat : e = st.rev BY <2>1
  <2>3. PICK d \in Digests : d = req[p].digest BY <1>2
  <2>4. r = [step |-> "commit", op |-> "delete", rev |-> e, digest |-> d] BY <2>2, <2>3
  <2>5. r \in Pl!Deleting /\ r.step = "commit" /\ r.op = "delete" /\ r.rev = e
    BY <2>4 DEF Pl!Deleting
  <2> HIDE DEF r
  <2>6. req'[p] = r BY <1>6, PluginTyped
  <2>7. up[p]
    <3>1. Pl!ReqSound(p) /\ req[p] # Pl!NoReq BY <1>1 DEF Pl!PluginInv, Pl!NoReq
    <3> QED BY <3>1, ReqSoundIs
  <2>8. SaveSound(p)' BY <2>5, <2>6 DEF SaveSound
  <2>9. Pl!ReqSound(p)'
    <3>1. r.rev <= st'.rev BY <1>1, <2>1, <2>2, <2>5
    <3> QED BY <1>1, <1>6, <2>6, <2>7, <2>8, <3>1, ReqSoundIs
  <2>10. ReqChange(p, r) BY <1>1, <1>3, <1>6 DEF ReqChange
  <2>11. r \in Requests BY <2>5 DEF Requests
  <2> QED BY <1>3, <1>4, <2>9, <2>10, <2>11, PrepareWhole
<1> QED BY <1>1, <1>5, <1>6

--------------------
\* Transactions

\* The row of the settings that a save leaves.
LEMMA StoredIs ==
  ASSUME Pl!PluginAssumption, Pl!PluginInv, NEW r \in Pl!Saving
  PROVE  /\ Pl!Stored(r) \in Configs
         /\ cfg' = Pl!Stored(r) => CfgMoves
         /\ r.doc = None => Pl!Stored(r) = cfg
         /\ r.doc # None => Pl!Stored(r) # None /\ Pl!Stored(r).schema = r.doc.schema
<1>1. cfg \in Configs /\ None \notin Pl!SettingsRow BY PluginTyped, PluginConstants
<1>2. CASE r.doc = None BY <1>1, <1>2 DEF Pl!Stored, CfgMoves
<1>3. CASE r.doc # None
  <2>1. r.doc \in Pl!Document BY <1>3 DEF Pl!Saving
  <2>2. PICK x \in Nat : x = r.doc.schema BY <2>1 DEF Pl!Document
  <2>3. PICK v \in Pl!Values : v = r.doc.val BY <2>1 DEF Pl!Document
  <2>4. CASE cfg # None /\ r.op = "state" /\ r.doc = [schema |-> cfg.schema, val |-> cfg.val]
    <3>1. Pl!Stored(r) = cfg BY <1>3, <2>4 DEF Pl!Stored
    <3>2. r.doc.schema = cfg.schema BY <2>4
    <3> QED BY <1>1, <1>3, <2>4, <3>1, <3>2 DEF CfgMoves
  <2>5. CASE cfg = None
    <3>1. Pl!Stored(r) = [schema |-> x, val |-> v, rev |-> 1]
      BY <1>3, <2>2, <2>3, <2>5 DEF Pl!Stored
    <3>2. Pl!Stored(r) \in Pl!SettingsRow /\ Pl!Stored(r).schema = x BY <3>1 DEF Pl!SettingsRow
    <3> QED BY <1>1, <1>3, <2>2, <2>5, <3>2 DEF CfgMoves, Configs
  <2>6. CASE cfg # None /\ ~(r.op = "state" /\ r.doc = [schema |-> cfg.schema, val |-> cfg.val])
    <3>1. cfg.rev \in Nat BY <1>1, <2>6 DEF Configs, Pl!SettingsRow
    <3>2. PICK n \in Nat : n = cfg.rev + 1 BY <3>1
    <3>3. Pl!Stored(r) = [schema |-> x, val |-> v, rev |-> n]
        BY <1>3, <2>2, <2>3, <2>6, <3>2 DEF Pl!Stored
    <3>4. Pl!Stored(r) \in Pl!SettingsRow /\ Pl!Stored(r).schema = x /\ Pl!Stored(r).rev = n
        BY <3>3 DEF Pl!SettingsRow
    <3> QED BY <1>1, <1>3, <2>2, <2>6, <3>2, <3>4 DEF CfgMoves, Configs
  <2> QED BY <2>4, <2>5, <2>6
<1> QED BY <1>2, <1>3

\* A save whose transaction commits.
SaveCommits(p, r) ==
  /\ r = req[p] /\ Pl!SaveAllowed(r) /\ req' = [req EXCEPT ![p] = Pl!NoReq]
  /\ st' = Pl!Saved(r) /\ cfg' = Pl!Stored(r) /\ snap' = [snap EXCEPT ![p] = Pl!Published(p, r)]
  /\ Pl!LoadSelected(p, Pl!Saved(r), Pl!Live)
  /\ UNCHANGED <<art, job, staged, up, form, grant, issued, started>>

\* The state that a save leaves.
LEMMA SavedIs ==
  ASSUME Pl!PluginInv, NEW r \in Pl!Saving, st \in Pl!StateRow
  PROVE  /\ Pl!Saved(r) \in Pl!StateRow /\ Pl!Saved(r).rev = st.rev + 1
         /\ Pl!Saved(r).digest = r.digest /\ Pl!Saved(r).enabled = r.enabled
<1>1. st.rev \in Nat BY DEF Pl!StateRow
<1>2. PICK n \in Nat : n = st.rev + 1 BY <1>1
<1>3. PICK d \in Digests \cup {None} : d = r.digest BY DEF Pl!Saving
<1>4. PICK b \in BOOLEAN : b = r.enabled BY DEF Pl!Saving
<1>5. Pl!Saved(r) = [enabled |-> b, digest |-> d, rev |-> n] BY <1>2, <1>3, <1>4 DEF Pl!Saved
<1> QED BY <1>2, <1>3, <1>4, <1>5 DEF Pl!StateRow

\* A save that commits and is published.
LEMMA SaveKeeps ==
  ASSUME Pl!PluginAssumption, Pl!PluginInv, NEW p \in Procs, NEW r \in Pl!Saving, SaveCommits(p, r)
  PROVE  Pl!PluginInv'
<1>1. /\ r = req[p] /\ Pl!SaveAllowed(r) /\ req' = [req EXCEPT ![p] = Pl!NoReq]
      /\ st' = Pl!Saved(r) /\ cfg' = Pl!Stored(r) /\ snap' = [snap EXCEPT ![p] = Pl!Published(p, r)]
      /\ Pl!LoadSelected(p, Pl!Saved(r), Pl!Live)
      /\ UNCHANGED <<art, job, staged, up, form, grant, issued, started>>
    BY DEF SaveCommits
<1>2. req[p].step = "commit" BY <1>1 DEF Pl!Saving
<1>3. st \in Pl!StateRow /\ up[p] /\ SaveSound(p) BY <1>2, CommitIs
<1>4. /\ Pl!Saved(r) \in Pl!StateRow /\ Pl!Saved(r).rev = st.rev + 1
      /\ Pl!Saved(r).digest = r.digest /\ Pl!Saved(r).enabled = r.enabled
    BY <1>3, SavedIs
<1>5. PICK s \in Pl!StateRow : s = Pl!Saved(r) BY <1>4
<1>6. /\ Pl!Stored(r) \in Configs /\ CfgMoves
      /\ r.doc = None => Pl!Stored(r) = cfg
      /\ r.doc # None => Pl!Stored(r) # None /\ Pl!Stored(r).schema = r.doc.schema
    BY <1>1, StoredIs
<1>7. PICK c \in Configs : c = Pl!Stored(r) BY <1>6
<1>8. st # None /\ s # None BY <1>3, PluginConstants
<1>9. Moves BY <1>1, <1>3, <1>4, <1>6, <1>8 DEF Moves
<1>10. PICK arts \in SUBSET Digests : arts = Pl!Live BY LiveIs
<1>11. /\ loaded' \in [Procs -> SUBSET Digests]
       /\ \A q \in Procs : loaded[q] \subseteq loaded'[q]
       /\ (s # None /\ s.enabled /\ s.digest \in arts /\ Pl!Loads(p, s.digest)) => s.digest \in loaded'[p]
    BY <1>1, <1>5, <1>10, SelectedGrows
<1>12. Publishes(p, s, c, arts)
    BY <1>1, <1>3, <1>5, <1>7, <1>10, <1>11 DEF Publishes, Pl!Published, Pl!Candidate, States
<1>13. /\ snap' \in [Procs -> Pl!Active \cup {None}] /\ Pl!GenerationNamesContent'
       /\ \A q \in Procs : Pl!SnapSound(q)'
    BY <1>9, <1>12, PublishKeeps
<1>14. \A q \in Procs : Pl!FormSound(q)' BY <1>1, <1>9, OthersForm
<1>15. req' \in [Procs -> Requests] /\ \A q \in Procs : q # p => req'[q] = req[q]
    BY <1>1, PluginTyped DEF Requests
<1>16. \A q \in Procs : q # p => Pl!ReqSound(q)' BY <1>1, <1>9, <1>15, OthersReq
<1>17. Pl!ReqSound(p)' BY <1>1, DroppedSound
<1>18. Pl!RowsSound'
  <2>1. r.digest # None => r.digest \in Pl!Live BY <1>1 DEF Pl!SaveAllowed
  <2>2. st.rev = r.rev BY <1>1 DEF Pl!SaveAllowed, Pl!Matches
  <2>3. Pl!SelectedIsInstalled' BY <1>1, <1>4, <2>1 DEF Pl!SelectedIsInstalled, Pl!Live
  <2>4. ASSUME r.digest # None, Schema[r.digest] # 0 PROVE c # None /\ c.schema = Schema[r.digest]
    <3>1. r.op # "delete" BY DEF Pl!Saving
    <3>2. CASE r.doc # None BY <1>1, <1>3, <1>6, <1>7, <3>1, <3>2 DEF SaveSound
    <3>3. CASE r.doc = None
      <4>1. st.digest = r.digest BY <1>1, <1>3, <2>2, <2>4, <3>1, <3>3 DEF SaveSound
      <4>2. Pl!Fits(st.digest, cfg) BY <1>8, <2>4, <4>1 DEF Pl!PluginInv, Pl!RowsSound,
          Pl!StoredSettingsFit
      <4> QED BY <1>6, <1>7, <2>4, <3>3, <4>1, <4>2 DEF Pl!Fits
    <3> QED BY <3>2, <3>3
  <2>5. Pl!StoredSettingsFit' BY <1>1, <1>4, <1>7, <2>4 DEF Pl!StoredSettingsFit, Pl!Fits
  <2> QED BY <1>1, <1>5, <1>8, <2>3, <2>5 DEF Pl!RowsSound
<1>19. RowsDone BY <1>13, <1>14, <1>16, <1>17, <1>18 DEF RowsDone
<1>20. StagedDone BY <1>1, StagedStill
<1>21. Pl!Paid' BY <1>1, PaidStill
<1>22. Pl!PluginTypes'
  <2>1. UNCHANGED <<art, job, staged, up, form, grant, issued, started>> BY <1>1
  <2>2. st' \in Pl!StateRow \cup {None} /\ cfg' \in Pl!SettingsRow \cup {None}
      BY <1>1, <1>4, <1>6 DEF Configs
  <2> QED BY <1>11, <1>13, <1>15, <2>1, <2>2 DEF Pl!PluginTypes, Pl!PluginInv, Requests
<1> QED BY <1>19, <1>20, <1>21, <1>22, Whole

\* A transaction that is refused.
LEMMA RefusedWrite ==
  ASSUME Pl!PluginAssumption, Pl!PluginInv, NEW p \in Procs, req' = [req EXCEPT ![p] = Pl!NoReq],
         UNCHANGED <<art, st, cfg, snap, job, staged, up, form, grant, issued, started>>,
         loaded' \in [Procs -> SUBSET Digests], \A q \in Procs : loaded[q] \subseteq loaded'[q]
  PROVE  Pl!PluginInv'
<1>1. ReqChange(p, Pl!NoReq) BY DEF ReqChange
<1>2. UNCHANGED <<job, staged, grant, issued, started>> OBVIOUS
<1> QED BY <1>1, <1>2, DroppedSound, PrepareWhole

\* The transaction of a save.
LEMMA CommitSaveKeeps ==
  ASSUME Pl!PluginAssumption, Pl!PluginInv, NEW p \in Procs, Pl!CommitSave(p) PROVE Pl!PluginInv'
<1>1. /\ req[p].step = "commit" /\ req[p].op \in {"state", "settings"}
      /\ req' = [req EXCEPT ![p] = Pl!NoReq]
      /\ UNCHANGED <<art, job, staged, up, form, grant, issued, started>>
    BY DEF Pl!CommitSave, Pl!Drop, Pl!rest
<1>2. req[p] \in Pl!Saving BY <1>1, CommitIs DEF Pl!Deleting
<1>3. PICK r \in Pl!Saving : r = req[p] BY <1>2
<1>4. CASE administrator /\ Pl!SaveAllowed(r) /\ Pl!CandidateAccepted(p, r)
  <2>1. SaveCommits(p, r) BY <1>1, <1>3, <1>4 DEF Pl!CommitSave, SaveCommits
  <2> QED BY <2>1, SaveKeeps
<1>5. CASE ~(administrator /\ Pl!SaveAllowed(r) /\ Pl!CandidateAccepted(p, r))
  <2>1. UNCHANGED <<st, cfg, snap>> BY <1>3, <1>5 DEF Pl!CommitSave
  <2>2. /\ loaded' \in [Procs -> SUBSET Digests]
        /\ \A q \in Procs : loaded[q] \subseteq loaded'[q]
    <3>1. CASE Pl!Loadless BY <3>1, PluginTyped DEF Pl!Loadless
    <3>2. CASE ~Pl!Loadless
      <4>1. Pl!LoadSelected(p, Pl!Saved(r), Pl!Live) BY <1>3, <3>2 DEF Pl!CommitSave
      <4>2. PICK s : s = Pl!Saved(r) OBVIOUS
      <4>3. PICK arts \in SUBSET Digests : arts = Pl!Live BY LiveIs
      <4> QED BY <4>1, <4>2, <4>3, SelectedGrows
    <3> QED BY <3>1, <3>2
  <2>3. UNCHANGED <<art, st, cfg, snap, job, staged, up, form, grant, issued, started>>
    BY <1>1, <2>1
  <2> QED BY <1>1, <2>2, <2>3, RefusedWrite
<1> QED BY <1>4, <1>5

\* The transaction of a deletion.
LEMMA CommitDeleteKeeps ==
  ASSUME Pl!PluginAssumption, Pl!PluginInv, NEW p \in Procs, Pl!CommitDelete(p)
  PROVE  Pl!PluginInv'
<1>1. /\ req[p].step = "commit" /\ req[p].op = "delete" /\ req' = [req EXCEPT ![p] = Pl!NoReq]
      /\ UNCHANGED <<cfg, job, staged, up, form, grant, issued, started>>
    BY DEF Pl!CommitDelete, Pl!Drop, Pl!rest
<1>2. req[p] \in Pl!Deleting /\ st \in Pl!StateRow /\ up[p] BY <1>1, CommitIs DEF Pl!Saving
<1>3. PICK d \in Digests : d = req[p].digest BY <1>2 DEF Pl!Deleting
<1>4. CASE ~(administrator /\ Pl!DeleteAllowed(req[p]))
  <2>1. UNCHANGED <<st, art, snap>> /\ Pl!Loadless BY <1>4 DEF Pl!CommitDelete
  <2>2. /\ loaded' \in [Procs -> SUBSET Digests]
        /\ \A q \in Procs : loaded[q] \subseteq loaded'[q]
      BY <2>1, PluginTyped DEF Pl!Loadless
  <2>3. UNCHANGED <<art, st, cfg, snap, job, staged, up, form, grant, issued, started>>
    BY <1>1, <2>1
  <2> QED BY <1>1, <2>2, <2>3, RefusedWrite
<1>5. CASE administrator /\ Pl!DeleteAllowed(req[p])
  <2>1. st # None /\ st.rev \in Nat /\ st.digest # d
      BY <1>2, <1>3, <1>5, PluginConstants DEF Pl!DeleteAllowed, Pl!StateRow
  <2>2. PICK n \in Nat : n = st.rev + 1 BY <2>1
  <2>3. PICK s : s = [st EXCEPT !.rev = n] OBVIOUS
  <2>4. /\ s \in Pl!StateRow /\ s.rev = st.rev + 1 /\ s.digest = st.digest /\ s.enabled = st.enabled
      BY <1>2, <2>2, <2>3 DEF Pl!StateRow
  <2>5. s # None BY <2>4, PluginConstants
  <2>6. PICK arts \in SUBSET Digests : arts = Pl!Live \ {d} BY LiveIs
  <2>7. PICK c \in Configs : c = cfg BY PluginTyped
  <2>8. /\ st' = s /\ art' = [art EXCEPT ![d] = "deleted"]
        /\ snap' = [snap EXCEPT ![p] = Pl!Generation(p, s, c, arts)]
        /\ Pl!LoadSelected(p, st, arts)
      BY <1>3, <1>5, <2>2, <2>3, <2>6, <2>7 DEF Pl!CommitDelete
  <2>9. PICK s0 \in Pl!StateRow : s0 = st BY <1>2
  <2>10. /\ loaded' \in [Procs -> SUBSET Digests]
         /\ \A q \in Procs : loaded[q] \subseteq loaded'[q]
         /\ (s0 # None /\ s0.enabled /\ s0.digest \in arts /\ Pl!Loads(p, s0.digest))
               => s0.digest \in loaded'[p]
      BY <2>8, <2>9, SelectedGrows
  <2>11. Moves BY <1>1, <2>1, <2>4, <2>8 DEF Moves, CfgMoves
  <2>12. Publishes(p, s, c, arts)
    <3>1. (s # None /\ s.enabled /\ s.digest \in arts /\ Pl!Loads(p, s.digest)) => s.digest \in loaded'[p]
        BY <2>1, <2>4, <2>9, <2>10
    <3> QED BY <1>1, <1>2, <2>4, <2>7, <2>8, <2>10, <3>1 DEF Publishes, States
  <2>13. /\ snap' \in [Procs -> Pl!Active \cup {None}] /\ Pl!GenerationNamesContent'
         /\ \A q \in Procs : Pl!SnapSound(q)'
      BY <2>11, <2>12, PublishKeeps
  <2>14. \A q \in Procs : Pl!FormSound(q)' BY <1>1, <2>11, OthersForm
  <2>15. req' \in [Procs -> Requests] /\ \A q \in Procs : q # p => req'[q] = req[q]
      BY <1>1, PluginTyped DEF Requests
  <2>16. \A q \in Procs : q # p => Pl!ReqSound(q)' BY <1>1, <2>11, <2>15, OthersReq
  <2>17. Pl!ReqSound(p)' BY <1>1, DroppedSound
  <2>18. art' \in [Digests -> {"absent", "live", "deleted"}] /\ \A x \in Digests : x # d => art'[x] = art[x]
      BY <2>8, PluginTyped
  <2>19. Pl!RowsSound'
    <3>1. Pl!RowsSound BY DEF Pl!PluginInv
    <3>2. Pl!SelectedIsInstalled'
      <4> SUFFICES ASSUME s.digest # None PROVE s.digest \in Pl!Live'
          BY <2>8 DEF Pl!SelectedIsInstalled
      <4>1. st.digest \in Pl!Live BY <2>1, <2>4, <3>1 DEF Pl!RowsSound, Pl!SelectedIsInstalled
      <4> QED BY <2>1, <2>4, <2>18, <4>1 DEF Pl!Live
    <3>3. Pl!StoredSettingsFit' BY <1>1, <2>1, <2>4, <2>8, <3>1 DEF Pl!RowsSound,
        Pl!StoredSettingsFit, Pl!Fits
    <3> QED BY <2>5, <2>8, <3>2, <3>3 DEF Pl!RowsSound
  <2>20. RowsDone BY <2>13, <2>14, <2>16, <2>17, <2>19 DEF RowsDone
  <2>21. StagedDone BY <1>1, StagedStill
  <2>22. Pl!Paid' BY <1>1, PaidStill
  <2>23. Pl!PluginTypes'
    <3>1. UNCHANGED <<cfg, job, staged, up, form, grant, issued, started>> BY <1>1
    <3>2. st' \in Pl!StateRow BY <2>4, <2>8
    <3> QED BY <2>10, <2>13, <2>15, <2>18, <3>1, <3>2 DEF Pl!PluginTypes, Pl!PluginInv, Requests
  <2> QED BY <2>20, <2>21, <2>22, <2>23, Whole
<1> QED BY <1>4, <1>5

--------------------
\* Packages and jobs

\* A step that changes nothing that the invariant is about.
LEMMA QuietStep ==
  ASSUME Pl!PluginAssumption, Pl!PluginInv,
         UNCHANGED <<art, st, cfg, job, staged, loaded, snap, up, req, form, grant, issued, started>>
  PROVE  Pl!PluginInv'
<1>1. RowsDone BY RowsStill
<1>2. StagedDone BY StagedStill
<1>3. Pl!Paid' BY PaidStill
<1>4. Pl!PluginTypes' BY DEF Pl!PluginTypes, Pl!PluginInv
<1> QED BY <1>1, <1>2, <1>3, <1>4, Whole

\* An artifact is registered.
LEMMA RegisteredRows ==
  ASSUME Pl!PluginAssumption, Pl!PluginInv, NEW d \in Digests, Pl!Registered(d),
         UNCHANGED <<cfg, snap, req, form, up, loaded>>
  PROVE  /\ RowsDone /\ art' \in [Digests -> {"absent", "live", "deleted"}]
         /\ st' \in Pl!StateRow \cup {None}
<1> DEFINE s == [enabled |-> FALSE, digest |-> None, rev |-> 1]
<1>1. art' = [art EXCEPT ![d] = "live"] /\ st' = IF st = None THEN s ELSE st BY DEF Pl!Registered
<1>2. s \in Pl!StateRow /\ s.digest = None BY DEF Pl!StateRow
<1> HIDE DEF s
<1>3. st \in Pl!StateRow \cup {None} BY PluginTyped DEF States
<1>4. Moves BY <1>1, <1>2 DEF Moves
<1>5. art' \in [Digests -> {"absent", "live", "deleted"}] /\ \A x \in Digests : art[x] = "live" => art'[x] = "live"
    BY <1>1, PluginTyped
<1>6. \A q \in Procs : Pl!SnapSound(q)' BY <1>4, OthersSnap
<1>7. \A q \in Procs : Pl!FormSound(q)' BY <1>4, OthersForm
<1>8. \A q \in Procs : Pl!ReqSound(q)' BY <1>4, OthersReq
<1>9. Pl!GenerationNamesContent' BY <1>6, NamesKept DEF SnapsMove
<1>10. Pl!RowsSound'
  <2>1. Pl!RowsSound BY DEF Pl!PluginInv
  <2>2. CASE st = None
    <3>1. st' = s /\ s # None BY <1>1, <1>2, <2>2, PluginConstants
    <3> QED BY <1>2, <3>1 DEF Pl!RowsSound, Pl!SelectedIsInstalled, Pl!StoredSettingsFit
  <2>3. CASE st # None
    <3>1. st' = st BY <1>1, <2>3
    <3>2. Pl!SelectedIsInstalled' BY <1>5, <2>1, <3>1 DEF Pl!RowsSound, Pl!SelectedIsInstalled,
        Pl!Live
    <3>3. Pl!StoredSettingsFit' BY <2>1, <3>1 DEF Pl!RowsSound, Pl!StoredSettingsFit, Pl!Fits
    <3> QED BY <2>3, <3>1, <3>2, <3>3 DEF Pl!RowsSound
  <2> QED BY <2>2, <2>3
<1> QED BY <1>1, <1>2, <1>3, <1>5, <1>6, <1>7, <1>8, <1>9, <1>10 DEF RowsDone

\* discover_plugin_directory registers what it does not know.
LEMMA DiscoverKeeps ==
  ASSUME Pl!PluginAssumption, Pl!PluginInv, NEW p \in Procs, NEW d \in Digests, Pl!Discover(p, d)
  PROVE  Pl!PluginInv'
<1>1. /\ Pl!Registered(d) /\ UNCHANGED <<cfg, snap, req, form, up, loaded>>
      /\ UNCHANGED <<job, staged, grant, issued, started>>
    BY DEF Pl!Discover, Pl!image, Pl!rest
<1>2. /\ RowsDone /\ art' \in [Digests -> {"absent", "live", "deleted"}]
      /\ st' \in Pl!StateRow \cup {None}
    BY <1>1, RegisteredRows
<1>3. StagedDone BY <1>1, StagedStill
<1>4. Pl!Paid' BY <1>1, PaidStill
<1>5. Pl!PluginTypes' BY <1>1, <1>2 DEF Pl!PluginTypes, Pl!PluginInv
<1> QED BY <1>2, <1>3, <1>4, <1>5, Whole

\* What becomes of the file when a job moves on: it is discarded, kept by a
\* job that needs it, or was gone already.
Holding == {"opening", "handler", "claim", "unpack", "orphan"}
FileGoes(j, at) ==
  \/ Pl!Discarded(j)
  \/ staged' = staged /\ at \in Holding
  \/ staged' = staged /\ up[job[j].proc] /\ job[j].at \notin Holding

Stages == Holding \cup {"register", "finish", "fail", "gone"}
Statuses == {"none", "queued", "running"} \cup Pl!Ended

\* A job that exists.
LEMMA JobIs ==
  ASSUME Pl!PluginInv, NEW j \in Jobs, job[j] # Pl!NoJob
  PROVE  job[j] \in Pl!JobRow /\ job[j].proc \in Procs /\ job[j].digest \in Digests
         /\ job[j].status \in Statuses /\ job[j].at \in Stages
<1>1. job[j] \in Pl!JobRow BY PluginTyped
<1> QED BY <1>1 DEF Pl!JobRow, Pl!Accounted, Statuses, Stages, Holding

\* A job moves on and its file with it.
LEMMA JobMoves ==
  ASSUME Pl!PluginInv, NEW j \in Jobs, job[j] # Pl!NoJob, NEW at \in Stages, NEW status \in Statuses,
         Pl!Move(j, at, status), FileGoes(j, at), up' = up
  PROVE  /\ job' \in [Jobs -> Pl!JobRow \cup {Pl!NoJob}] /\ staged' \in [Procs -> SUBSET Jobs]
         /\ StagedDone
<1>1. job[j].proc \in Procs /\ job[j].digest \in Digests BY JobIs
<1>2. PICK p \in Procs : p = job[j].proc BY <1>1
<1>3. PICK d \in Digests : d = job[j].digest BY <1>1
<1>4. PICK r : r = [status |-> status, proc |-> p, digest |-> d, at |-> at] OBVIOUS
<1>5. r \in Pl!JobRow /\ r.proc = p /\ r.at = at
  BY <1>4 DEF Pl!JobRow, Pl!Accounted, Stages, Holding, Statuses
<1>6. r # Pl!NoJob BY <1>5 DEF Pl!NoJob, Stages, Holding
<1>7. job' = [job EXCEPT ![j] = r] BY <1>2, <1>3, <1>4 DEF Pl!Move
<1>8. /\ job' \in [Jobs -> Pl!JobRow \cup {Pl!NoJob}] /\ job'[j] = r
      /\ \A k \in Jobs : k # j => job'[k] = job[k]
    BY <1>5, <1>7, PluginTyped
<1>9. /\ staged' \in [Procs -> SUBSET Jobs] /\ \A q \in Procs : staged'[q] \subseteq staged[q]
      /\ Pl!Discarded(j) => j \notin staged'[p]
  <2>1. staged \in [Procs -> SUBSET Jobs] BY PluginTyped
  <2>2. CASE Pl!Discarded(j)
    <3>1. staged' = [staged EXCEPT ![p] = staged[p] \ {j}] BY <1>2, <2>2 DEF Pl!Discarded
    <3> QED BY <2>1, <3>1
  <2>3. CASE staged' = staged /\ ~Pl!Discarded(j) BY <2>1, <2>3
  <2> QED BY <2>2, <2>3 DEF FileGoes
<1>10. ASSUME NEW q \in Procs PROVE Pl!StagedSound(q)'
  <2> SUFFICES ASSUME NEW k \in staged'[q]
               PROVE  job'[k] # Pl!NoJob /\ job'[k].proc = q /\ (up[q] => job'[k].at \in Holding)
      BY DEF Pl!StagedSound, Pl!Accounted, Holding
  <2>1. k \in staged[q] /\ k \in Jobs BY <1>9
  <2>2. Pl!StagedSound(q) BY DEF Pl!PluginInv
  <2>3. job[k] # Pl!NoJob /\ job[k].proc = q /\ (up[q] => job[k].at \in Holding)
      BY <2>1, <2>2 DEF Pl!StagedSound, Pl!Accounted, Holding
  <2>4. CASE k # j BY <1>8, <2>1, <2>3, <2>4
  <2>5. CASE k = j
    <3>1. q = p BY <1>2, <2>3, <2>5
    <3>2. ~Pl!Discarded(j) BY <1>9, <2>5, <3>1
    <3>3. up[q] => at \in Holding BY <1>2, <2>3, <2>5, <3>1, <3>2 DEF FileGoes
    <3> QED BY <1>5, <1>6, <1>8, <2>5, <3>1, <3>3
  <2> QED BY <2>4, <2>5
<1> QED BY <1>8, <1>9, <1>10 DEF StagedDone

\* A job's step that leaves the plugin's rows alone.
LEMMA JobKeeps ==
  ASSUME Pl!PluginAssumption, Pl!PluginInv, NEW j \in Jobs, job[j] # Pl!NoJob, NEW at \in Stages,
         NEW status \in Statuses, Pl!Move(j, at, status), FileGoes(j, at),
         UNCHANGED <<art, st, cfg, loaded, snap, up, req, form, grant, issued, started>>
  PROVE  Pl!PluginInv'
<1>1. /\ job' \in [Jobs -> Pl!JobRow \cup {Pl!NoJob}] /\ staged' \in [Procs -> SUBSET Jobs]
      /\ StagedDone
    BY JobMoves
<1>2. RowsDone BY RowsStill
<1>3. Pl!Paid' BY PaidStill
<1>4. Pl!PluginTypes' BY <1>1 DEF Pl!PluginTypes, Pl!PluginInv
<1> QED BY <1>1, <1>2, <1>3, <1>4, Whole

\* begin_plugin_job
LEMMA BeginJobKeeps ==
  ASSUME Pl!PluginAssumption, Pl!PluginInv, NEW j \in Jobs, Pl!BeginJob(j) PROVE Pl!PluginInv'
<1>1. /\ job[j] # Pl!NoJob
      /\ UNCHANGED <<art, st, cfg, loaded, snap, up, req, form, grant, issued, started>>
    BY DEF Pl!BeginJob, Pl!db, Pl!image
<1>2. PICK at \in Stages, status \in Statuses : Pl!Move(j, at, status) /\ FileGoes(j, at)
  <2>1. CASE administrator
    <3>1. Pl!Move(j, "claim", "queued") /\ FileGoes(j, "claim")
      BY <2>1 DEF Pl!BeginJob, FileGoes, Holding
    <3> QED BY <3>1 DEF Stages, Holding, Statuses
  <2>2. CASE ~administrator
    <3>1. Pl!Move(j, "gone", "none") /\ FileGoes(j, "gone") BY <2>2 DEF Pl!BeginJob, FileGoes
    <3> QED BY <3>1 DEF Stages, Holding, Statuses
  <2> QED BY <2>1, <2>2
<1> QED BY <1>1, <1>2, JobKeeps

\* The file is open.
LEMMA OpenedKeeps ==
  ASSUME Pl!PluginAssumption, Pl!PluginInv, NEW j \in Jobs, NEW b \in BOOLEAN, Pl!Opened(j, b)
  PROVE  Pl!PluginInv'
<1>1. /\ job[j] # Pl!NoJob /\ staged' = staged
      /\ UNCHANGED <<art, st, cfg, loaded, snap, up, req, form, grant, issued, started>>
    BY DEF Pl!Opened, Pl!At, Pl!db, Pl!image
<1>2. PICK at \in {"handler", "orphan"} : Pl!Move(j, at, "none") BY DEF Pl!Opened
<1>3. /\ FileGoes(j, at) /\ at \in Stages /\ "none" \in Statuses
    BY <1>1 DEF FileGoes, Stages, Holding, Statuses
<1> QED BY <1>1, <1>2, <1>3, JobKeeps

\* The client is gone before the handler ends.
LEMMA DropUploadKeeps ==
  ASSUME Pl!PluginAssumption, Pl!PluginInv, NEW j \in Jobs, NEW b \in BOOLEAN, Pl!DropUpload(j, b)
  PROVE  Pl!PluginInv'
<1>1. /\ job[j] # Pl!NoJob
      /\ UNCHANGED <<art, st, cfg, loaded, snap, up, req, form, grant, issued, started>>
    BY DEF Pl!DropUpload, Pl!db, Pl!image
<1>2. PICK status \in Statuses : Pl!Move(j, "gone", status) BY DEF Pl!DropUpload, Statuses
<1>3. FileGoes(j, "gone") /\ "gone" \in Stages BY DEF Pl!DropUpload, FileGoes, Stages, Holding
<1> QED BY <1>1, <1>2, <1>3, JobKeeps

\* claim_job
LEMMA ClaimKeeps ==
  ASSUME Pl!PluginAssumption, Pl!PluginInv, NEW j \in Jobs, Pl!Claim(j) PROVE Pl!PluginInv'
<1>1. /\ job[j] # Pl!NoJob
      /\ UNCHANGED <<art, st, cfg, loaded, snap, up, req, form, grant, issued, started>>
    BY DEF Pl!Claim, Pl!At, Pl!db, Pl!image
<1>2. PICK at \in Stages, status \in Statuses : Pl!Move(j, at, status) /\ FileGoes(j, at)
  <2>1. CASE administrator /\ job[j].status = "queued"
    <3>1. Pl!Move(j, "unpack", "running") /\ FileGoes(j, "unpack")
      BY <2>1 DEF Pl!Claim, FileGoes, Holding
    <3> QED BY <3>1 DEF Stages, Holding, Statuses
  <2>2. CASE ~(administrator /\ job[j].status = "queued")
    <3>1. Pl!Move(j, "fail", job[j].status) /\ FileGoes(j, "fail") BY <2>2 DEF Pl!Claim, FileGoes
    <3>2. job[j].status \in Statuses BY <1>1, JobIs
    <3> QED BY <3>1, <3>2 DEF Stages, Holding
  <2> QED BY <2>1, <2>2
<1> QED BY <1>1, <1>2, JobKeeps

\* install_archive
LEMMA UnpackKeeps ==
  ASSUME Pl!PluginAssumption, Pl!PluginInv, NEW j \in Jobs, NEW b \in BOOLEAN, Pl!Unpack(j, b)
  PROVE  Pl!PluginInv'
<1>1. /\ job[j] # Pl!NoJob
      /\ UNCHANGED <<art, st, cfg, loaded, snap, up, req, form, grant, issued, started>>
    BY DEF Pl!Unpack, Pl!At, Pl!db
<1>2. PICK at \in Stages : Pl!Move(j, at, "running") BY DEF Pl!Unpack, Stages, Holding
<1>3. FileGoes(j, at) /\ "running" \in Statuses BY DEF Pl!Unpack, FileGoes, Statuses
<1> QED BY <1>1, <1>2, <1>3, JobKeeps

\* finish_job
LEMMA FinishJobKeeps ==
  ASSUME Pl!PluginAssumption, Pl!PluginInv, NEW j \in Jobs, Pl!FinishJob(j) PROVE Pl!PluginInv'
<1>1. /\ job[j] # Pl!NoJob
      /\ UNCHANGED <<art, st, cfg, loaded, snap, up, req, form, grant, issued, started>>
    BY DEF Pl!FinishJob, Pl!At, Pl!db, Pl!image
<1>2. PICK at \in Stages, status \in Statuses : Pl!Move(j, at, status)
  <2>1. job[j].status \in Statuses BY <1>1, JobIs
  <2>2. Pl!Move(j, "gone", "succeeded") \/ Pl!Move(j, "fail", job[j].status) BY DEF Pl!FinishJob
  <2>3. "succeeded" \in Statuses /\ "gone" \in Stages /\ "fail" \in Stages
    BY DEF Statuses, Pl!Ended, Stages, Holding
  <2> QED BY <2>1, <2>2, <2>3
<1>3. FileGoes(j, at) BY DEF Pl!FinishJob, Pl!At, FileGoes, Holding
<1> QED BY <1>1, <1>2, <1>3, JobKeeps

\* fail_job, or its loss.
LEMMA FailJobKeeps ==
  ASSUME Pl!PluginAssumption, Pl!PluginInv, NEW j \in Jobs, NEW b \in BOOLEAN, Pl!FailJob(j, b)
  PROVE  Pl!PluginInv'
<1>1. /\ job[j] # Pl!NoJob
      /\ UNCHANGED <<art, st, cfg, loaded, snap, up, req, form, grant, issued, started>>
    BY DEF Pl!FailJob, Pl!At, Pl!db, Pl!image
<1>2. PICK status \in Statuses : Pl!Move(j, "gone", status)
  <2>1. job[j].status \in Statuses BY <1>1, JobIs
  <2>2. Pl!Failed(j) \in Statuses BY <2>1 DEF Pl!Failed, Statuses, Pl!Ended
  <2>3. Pl!Move(j, "gone", job[j].status) \/ Pl!Move(j, "gone", Pl!Failed(j)) BY DEF Pl!FailJob
  <2> QED BY <2>1, <2>2, <2>3
<1>3. FileGoes(j, "gone") /\ "gone" \in Stages BY DEF Pl!FailJob, Pl!At, FileGoes, Holding, Stages
<1> QED BY <1>1, <1>2, <1>3, JobKeeps

\* RegisterPluginArtifact
LEMMA RegisterKeeps ==
  ASSUME Pl!PluginAssumption, Pl!PluginInv, NEW j \in Jobs, Pl!Register(j) PROVE Pl!PluginInv'
<1>1. /\ job[j] # Pl!NoJob
      /\ UNCHANGED <<cfg, loaded, snap, up, req, form, grant, issued, started>>
    BY DEF Pl!Register, Pl!At, Pl!image
<1>2. PICK at \in Stages : Pl!Move(j, at, "running") BY DEF Pl!Register, Stages, Holding
<1>3. FileGoes(j, at) /\ "running" \in Statuses
  BY DEF Pl!Register, Pl!At, FileGoes, Holding, Statuses
<1>4. /\ job' \in [Jobs -> Pl!JobRow \cup {Pl!NoJob}] /\ staged' \in [Procs -> SUBSET Jobs]
      /\ StagedDone
    BY <1>1, <1>2, <1>3, JobMoves
<1>5. /\ RowsDone /\ art' \in [Digests -> {"absent", "live", "deleted"}]
      /\ st' \in Pl!StateRow \cup {None}
  <2>1. CASE administrator
    <3>1. PICK d \in Digests : d = job[j].digest BY <1>1, JobIs
    <3>2. Pl!Registered(d) BY <2>1, <3>1 DEF Pl!Register
    <3> QED BY <1>1, <3>2, RegisteredRows
  <2>2. CASE ~administrator
    <3>1. art' = art /\ st' = st BY <2>2 DEF Pl!Register
    <3>2. RowsDone BY <1>1, <3>1, RowsStill
    <3> QED BY <3>1, <3>2, PluginTyped DEF States
  <2> QED BY <2>1, <2>2
<1>6. Pl!Paid' BY <1>1, PaidStill
<1>7. Pl!PluginTypes' BY <1>1, <1>4, <1>5 DEF Pl!PluginTypes, Pl!PluginInv
<1> QED BY <1>4, <1>5, <1>6, <1>7, Whole

\* install: an upload is staged.
LEMMA UploadKeeps ==
  ASSUME Pl!PluginAssumption, Pl!PluginInv, NEW p \in Procs, NEW j \in Jobs, NEW d \in Digests,
         Pl!Upload(p, j, d)
  PROVE  Pl!PluginInv'
<1>1. /\ job[j] = Pl!NoJob /\ staged' = [staged EXCEPT ![p] = staged[p] \cup {j}]
      /\ job' = [job EXCEPT ![j] = [status |-> "none", proc |-> p, digest |-> d, at |-> "opening"]]
      /\ req' = [req EXCEPT ![p] = Pl!NoReq]
      /\ UNCHANGED <<art, st, cfg, loaded, snap, up, form, grant, issued, started>>
    BY DEF Pl!Upload, Pl!Drop, Pl!db, Pl!image
<1>2. PICK r : r = [status |-> "none", proc |-> p, digest |-> d, at |-> "opening"] OBVIOUS
<1>3. r \in Pl!JobRow /\ r.proc = p /\ r.at = "opening" BY <1>2 DEF Pl!JobRow, Pl!Accounted
<1>4. r # Pl!NoJob BY <1>3 DEF Pl!NoJob
<1>5. /\ job' \in [Jobs -> Pl!JobRow \cup {Pl!NoJob}] /\ job'[j] = r
      /\ \A k \in Jobs : k # j => job'[k] = job[k]
    BY <1>1, <1>2, <1>3, PluginTyped
<1>6. /\ staged' \in [Procs -> SUBSET Jobs] /\ staged'[p] = staged[p] \cup {j}
      /\ \A q \in Procs : q # p => staged'[q] = staged[q]
    BY <1>1, PluginTyped
<1>7. StagedDone
  <2> SUFFICES ASSUME NEW q \in Procs, NEW k \in staged'[q]
               PROVE  job'[k] # Pl!NoJob /\ job'[k].proc = q /\ (up[q] => job'[k].at \in Holding)
      BY <1>1 DEF StagedDone, Pl!StagedSound, Pl!Accounted, Holding
  <2>1. CASE k = j
    <3>1. Pl!StagedSound(q) BY DEF Pl!PluginInv
    <3>2. j \notin staged[q] BY <1>1, <3>1 DEF Pl!StagedSound
    <3>3. q = p BY <1>6, <2>1, <3>2
    <3> QED BY <1>3, <1>4, <1>5, <2>1, <3>3 DEF Holding
  <2>2. CASE k # j
    <3>1. k \in staged[q] /\ k \in Jobs BY <1>6, <2>2
    <3>2. Pl!StagedSound(q) BY DEF Pl!PluginInv
    <3> QED BY <1>5, <2>2, <3>1, <3>2 DEF Pl!StagedSound, Pl!Accounted, Holding
  <2> QED BY <2>1, <2>2
<1>8. RowsDone /\ req' \in [Procs -> Requests]
  <2>1. ReqChange(p, Pl!NoReq) BY <1>1 DEF ReqChange
  <2> QED BY <1>1, <2>1, DroppedSound, ReqKeeps
<1>9. Pl!Paid' BY <1>1, PaidStill
<1>10. Pl!PluginTypes' BY <1>1, <1>5, <1>6, <1>8 DEF Pl!PluginTypes, Pl!PluginInv, Requests
<1> QED BY <1>7, <1>8, <1>9, <1>10, Whole

--------------------
\* Crashes and starts

\* A job's row with another place or status.
LEMMA RowPlaced ==
  ASSUME NEW r \in Pl!JobRow
  PROVE  LET a == [r EXCEPT !.at = "gone"]
             s == [r EXCEPT !.status = "failed"]
         IN  /\ a \in Pl!JobRow /\ a.proc = r.proc /\ a.at = "gone" /\ a # Pl!NoJob
             /\ s \in Pl!JobRow /\ s.proc = r.proc /\ s.at = r.at /\ s.status = "failed" /\ s # Pl!NoJob
<1> DEFINE a == [r EXCEPT !.at = "gone"]
           s == [r EXCEPT !.status = "failed"]
<1>1. a \in Pl!JobRow /\ a.proc = r.proc /\ a.at = "gone" BY DEF Pl!JobRow, Pl!Ended
<1>2. s \in Pl!JobRow /\ s.proc = r.proc /\ s.at = r.at /\ s.status = "failed"
  BY DEF Pl!JobRow, Pl!Ended
<1>3. r.at # "new" BY DEF Pl!JobRow, Pl!Accounted
<1>4. a # Pl!NoJob /\ s # Pl!NoJob BY <1>1, <1>2, <1>3 DEF Pl!NoJob
<1> QED BY <1>1, <1>2, <1>4

\* A process dies: its staging directory and the rows of its jobs stay.
LEMMA CrashKeeps ==
  ASSUME Pl!PluginAssumption, Pl!PluginInv, NEW p \in Procs, Pl!Crash(p) PROVE Pl!PluginInv'
<1>1. /\ up' = [up EXCEPT ![p] = FALSE] /\ loaded' = [loaded EXCEPT ![p] = {}]
      /\ snap' = [snap EXCEPT ![p] = None] /\ req' = [req EXCEPT ![p] = Pl!NoReq]
      /\ form' = [form EXCEPT ![p] = None] /\ grant' = [grant EXCEPT ![p] = FALSE]
      /\ UNCHANGED <<staged, issued, started, art, st, cfg>>
    BY DEF Pl!Crash, Pl!db
<1>2. /\ up' \in [Procs -> BOOLEAN] /\ ~up'[p] /\ \A q \in Procs : q # p => up'[q] = up[q]
    BY <1>1, PluginTyped
<1>3. /\ loaded' \in [Procs -> SUBSET Digests] /\ \A q \in Procs : q # p => loaded'[q] = loaded[q]
    BY <1>1, PluginTyped
<1>4. /\ snap' \in [Procs -> Pl!Active \cup {None}] /\ snap'[p] = None
      /\ \A q \in Procs : q # p => snap'[q] = snap[q]
    BY <1>1, PluginTyped
<1>5. /\ req' \in [Procs -> Requests] /\ req'[p] = Pl!NoReq
      /\ \A q \in Procs : q # p => req'[q] = req[q]
    BY <1>1, PluginTyped DEF Requests
<1>6. /\ form' \in [Procs -> Pl!Form \cup {None}] /\ form'[p] = None
      /\ \A q \in Procs : q # p => form'[q] = form[q]
    BY <1>1, PluginTyped
<1>7. grant' \in [Procs -> BOOLEAN] /\ Pl!Paid' BY <1>1, GrantGoes
<1>8. ASSUME NEW j \in Jobs
      PROVE  /\ job'[j] \in Pl!JobRow \cup {Pl!NoJob}
             /\ job[j] # Pl!NoJob => job'[j] # Pl!NoJob /\ job'[j].proc = job[j].proc
             /\ job[j] # Pl!NoJob /\ job[j].proc # p => job'[j] = job[j]
  <2>1. job'[j] = IF job[j] = Pl!NoJob \/ job[j].proc # p THEN job[j] ELSE [job[j] EXCEPT !.at = "gone"]
      BY DEF Pl!Crash
  <2>2. CASE job[j] = Pl!NoJob \/ job[j].proc # p BY <2>1, <2>2, PluginTyped
  <2>3. CASE job[j] # Pl!NoJob /\ job[j].proc = p
    <3>1. PICK r \in Pl!JobRow : r = job[j] BY <2>3, JobIs
    <3>2. job'[j] = [r EXCEPT !.at = "gone"] BY <2>1, <2>3, <3>1
    <3> QED BY <2>3, <3>1, <3>2, RowPlaced
  <2> QED BY <2>2, <2>3
<1>9. job' \in [Jobs -> Pl!JobRow \cup {Pl!NoJob}]
  <2>1. job' = [j \in Jobs |-> job'[j]] BY DEF Pl!Crash
  <2> QED BY <1>8, <2>1
<1>10. StagedDone
  <2> SUFFICES ASSUME NEW q \in Procs, NEW k \in staged[q]
               PROVE  job'[k] # Pl!NoJob /\ job'[k].proc = q /\ (up'[q] => job'[k].at \in Holding)
      BY <1>1 DEF StagedDone, Pl!StagedSound, Pl!Accounted, Holding
  <2>1. Pl!StagedSound(q) BY DEF Pl!PluginInv
  <2>2. k \in Jobs BY PluginTyped
  <2>3. job[k] # Pl!NoJob /\ job[k].proc = q /\ (up[q] => job[k].at \in Holding)
      BY <2>1 DEF Pl!StagedSound, Pl!Accounted, Holding
  <2>4. CASE q = p BY <1>2, <1>8, <2>2, <2>3, <2>4
  <2>5. CASE q # p BY <1>2, <1>8, <2>2, <2>3, <2>5
  <2> QED BY <2>4, <2>5
<1>11. Moves BY <1>1 DEF Moves
<1>12. \A q \in Procs : Pl!SnapSound(q)'
  <2>1. Pl!SnapSound(p)' BY <1>4 DEF Pl!SnapSound
  <2>2. \A q \in Procs : q # p => Pl!SnapSound(q)' BY <1>2, <1>3, <1>4, <1>11, OthersSnap
  <2> QED BY <2>1, <2>2
<1>13. \A q \in Procs : Pl!FormSound(q)'
  <2>1. Pl!FormSound(p)' BY <1>6 DEF Pl!FormSound
  <2>2. \A q \in Procs : q # p => Pl!FormSound(q)' BY <1>6, <1>11, OthersForm
  <2> QED BY <2>1, <2>2
<1>14. \A q \in Procs : Pl!ReqSound(q)'
  <2>1. Pl!ReqSound(p)' BY <1>5 DEF Pl!ReqSound
  <2>2. \A q \in Procs : q # p => Pl!ReqSound(q)' BY <1>2, <1>5, <1>6, <1>11, OthersReq
  <2> QED BY <2>1, <2>2
<1>15. Pl!GenerationNamesContent' BY <1>4, <1>12, NamesKept DEF SnapsMove
<1>16. Pl!RowsSound' BY <1>1 DEF Pl!PluginInv, Pl!RowsSound, Pl!SelectedIsInstalled,
    Pl!StoredSettingsFit, Pl!Live, Pl!Fits
<1>17. RowsDone BY <1>12, <1>13, <1>14, <1>15, <1>16 DEF RowsDone
<1>18. Pl!PluginTypes'
  <2>1. UNCHANGED <<staged, issued, started, art, st, cfg>> BY <1>1
  <2> QED BY <1>2, <1>3, <1>4, <1>5, <1>6, <1>7, <1>9, <2>1 DEF Pl!PluginTypes, Pl!PluginInv,
      Requests
<1> QED BY <1>7, <1>10, <1>17, <1>18, Whole

\* Startup discards abandoned uploads and interrupts unfinished jobs.
LEMMA StartKeeps ==
  ASSUME Pl!PluginAssumption, Pl!PluginInv, NEW p \in Procs, Pl!Start(p) PROVE Pl!PluginInv'
<1>1. /\ ~up[p] /\ up' = [up EXCEPT ![p] = TRUE] /\ staged' = [staged EXCEPT ![p] = {}]
      /\ snap' = [snap EXCEPT ![p] = Pl!Generation(p, st, cfg, Pl!Live)] /\ Pl!LoadSelected(p, st, Pl!Live)
      /\ UNCHANGED <<req, art, st, cfg, form, grant, issued, started>>
    BY DEF Pl!Start, Pl!db
<1>2. PICK s \in States : s = st BY PluginTyped
<1>3. PICK c \in Configs : c = cfg BY PluginTyped
<1>4. PICK arts \in SUBSET Digests : arts = Pl!Live BY LiveIs
<1>5. /\ loaded' \in [Procs -> SUBSET Digests]
      /\ \A q \in Procs : loaded[q] \subseteq loaded'[q]
      /\ (s # None /\ s.enabled /\ s.digest \in arts /\ Pl!Loads(p, s.digest)) => s.digest \in loaded'[p]
    BY <1>1, <1>2, <1>4, SelectedGrows
<1>6. /\ up' \in [Procs -> BOOLEAN] /\ up'[p] /\ \A q \in Procs : q # p => up'[q] = up[q]
    BY <1>1, PluginTyped
<1>7. Publishes(p, s, c, arts) BY <1>1, <1>2, <1>3, <1>4, <1>5, <1>6 DEF Publishes
<1>8. Moves BY <1>1 DEF Moves
<1>9. /\ snap' \in [Procs -> Pl!Active \cup {None}] /\ Pl!GenerationNamesContent'
      /\ \A q \in Procs : Pl!SnapSound(q)'
    BY <1>7, <1>8, PublishKeeps
<1>10. \A q \in Procs : Pl!FormSound(q)' BY <1>1, <1>8, OthersForm
<1>11. \A q \in Procs : Pl!ReqSound(q)'
  <2>1. Pl!ReqSound(p) BY DEF Pl!PluginInv
  <2>2. req[p] = Pl!NoReq BY <1>1, <2>1 DEF Pl!ReqSound
  <2>3. Pl!ReqSound(p)' BY <1>1, <2>2 DEF Pl!ReqSound
  <2>4. \A q \in Procs : q # p => Pl!ReqSound(q)' BY <1>1, <1>6, <1>8, OthersReq
  <2> QED BY <2>3, <2>4
<1>12. Pl!RowsSound' BY <1>1 DEF Pl!PluginInv, Pl!RowsSound, Pl!SelectedIsInstalled,
    Pl!StoredSettingsFit, Pl!Live, Pl!Fits
<1>13. RowsDone BY <1>9, <1>10, <1>11, <1>12 DEF RowsDone
<1>14. ASSUME NEW j \in Jobs
       PROVE  /\ job'[j] \in Pl!JobRow \cup {Pl!NoJob}
              /\ job[j] # Pl!NoJob => job'[j] # Pl!NoJob /\ job'[j].proc = job[j].proc /\ job'[j].at = job[j].at
  <2>1. job'[j] = IF job[j] = Pl!NoJob THEN Pl!NoJob ELSE
                    IF Pl!interrupt_jobs(j) THEN [job[j] EXCEPT !.status = "failed"] ELSE job[j]
      BY DEF Pl!Start
  <2>2. CASE job[j] = Pl!NoJob \/ ~Pl!interrupt_jobs(j) BY <2>1, <2>2, PluginTyped
  <2>3. CASE job[j] # Pl!NoJob /\ Pl!interrupt_jobs(j)
    <3>1. PICK r \in Pl!JobRow : r = job[j] BY <2>3, JobIs
    <3>2. job'[j] = [r EXCEPT !.status = "failed"] BY <2>1, <2>3, <3>1
    <3> QED BY <2>3, <3>1, <3>2, RowPlaced
  <2> QED BY <2>2, <2>3
<1>15. job' \in [Jobs -> Pl!JobRow \cup {Pl!NoJob}]
  <2>1. job' = [j \in Jobs |-> job'[j]] BY DEF Pl!Start
  <2> QED BY <1>14, <2>1
<1>16. /\ staged' \in [Procs -> SUBSET Jobs] /\ staged'[p] = {}
       /\ \A q \in Procs : q # p => staged'[q] = staged[q]
    BY <1>1, PluginTyped
<1>17. StagedDone
  <2> SUFFICES ASSUME NEW q \in Procs, NEW k \in staged'[q]
               PROVE  job'[k] # Pl!NoJob /\ job'[k].proc = q /\ (up'[q] => job'[k].at \in Holding)
      BY DEF StagedDone, Pl!StagedSound, Pl!Accounted, Holding
  <2>1. q # p BY <1>16
  <2>2. k \in staged[q] /\ k \in Jobs BY <1>16, <2>1
  <2>3. Pl!StagedSound(q) BY DEF Pl!PluginInv
  <2>4. job[k] # Pl!NoJob /\ job[k].proc = q /\ (up[q] => job[k].at \in Holding)
      BY <2>2, <2>3 DEF Pl!StagedSound, Pl!Accounted, Holding
  <2> QED BY <1>6, <1>14, <2>1, <2>2, <2>4
<1>18. Pl!Paid' BY <1>1, PaidStill
<1>19. Pl!PluginTypes'
  <2>1. UNCHANGED <<req, art, st, cfg, form, grant, issued, started>> BY <1>1
  <2> QED BY <1>5, <1>6, <1>9, <1>15, <1>16, <2>1 DEF Pl!PluginTypes, Pl!PluginInv
<1> QED BY <1>13, <1>17, <1>18, <1>19, Whole

--------------------
\* The theorems

\* Nothing is installed.
LEMMA PluginInitially ==
  ASSUME Pl!PluginAssumption, Pl!Init PROVE Pl!PluginInv
<1>1. Pl!PluginTypes BY DEF Pl!Init, Pl!PluginTypes, Pl!NoReq
<1>2. Pl!RowsSound /\ Pl!GenerationNamesContent
    BY DEF Pl!Init, Pl!RowsSound, Pl!SelectedIsInstalled, Pl!StoredSettingsFit,
      Pl!GenerationNamesContent
<1>3. Pl!Paid
  <2>1. {p \in Procs : grant[p]} = {} BY DEF Pl!Init
  <2>2. Cardinality({p \in Procs : grant[p]}) = 0 BY <2>1, FS_EmptySet
  <2>3. started = 0 /\ issued = 0 BY DEF Pl!Init
  <2> QED BY <2>2, <2>3, PluginCounts DEF Pl!Paid
<1>4. \A p \in Procs : Pl!SnapSound(p) /\ Pl!FormSound(p) /\ Pl!ReqSound(p) /\ Pl!StagedSound(p)
    BY DEF Pl!Init, Pl!SnapSound, Pl!FormSound, Pl!ReqSound, Pl!StagedSound
<1> QED BY <1>1, <1>2, <1>3, <1>4 DEF Pl!PluginInv

\* Every step keeps the invariant.
LEMMA PluginStep ==
  ASSUME Pl!PluginAssumption, Pl!PluginInv, [Pl!Next]_(Pl!vars) PROVE Pl!PluginInv'
<1>1. ASSUME NEW p \in Procs, Pl!Reload(p) PROVE Pl!PluginInv' BY <1>1, ReloadKeeps
<1>2. ASSUME NEW p \in Procs, Pl!View(p) PROVE Pl!PluginInv' BY <1>2, ViewKeeps
<1>3. ASSUME NEW p \in Procs, Pl!Reauthorize(p) PROVE Pl!PluginInv' BY <1>3, ReauthorizeKeeps
<1>4. ASSUME NEW p \in Procs, NEW w \in Pl!Wants \cup [step: {"install"}], Pl!Authorize(p, w)
      PROVE  Pl!PluginInv'
    BY <1>4, AuthorizeKeeps
<1>5. ASSUME NEW p \in Procs, Pl!PrepareState(p) PROVE Pl!PluginInv' BY <1>5, PrepareStateKeeps
<1>6. ASSUME NEW p \in Procs, Pl!PrepareSettings(p) PROVE Pl!PluginInv'
  BY <1>6, PrepareSettingsKeeps
<1>7. ASSUME NEW p \in Procs, Pl!PrepareDelete(p) PROVE Pl!PluginInv' BY <1>7, PrepareDeleteKeeps
<1>8. ASSUME NEW p \in Procs, Pl!CommitSave(p) PROVE Pl!PluginInv' BY <1>8, CommitSaveKeeps
<1>9. ASSUME NEW p \in Procs, Pl!CommitDelete(p) PROVE Pl!PluginInv' BY <1>9, CommitDeleteKeeps
<1>10. ASSUME NEW p \in Procs, Pl!Crash(p) PROVE Pl!PluginInv' BY <1>10, CrashKeeps
<1>11. ASSUME NEW p \in Procs, Pl!Start(p) PROVE Pl!PluginInv' BY <1>11, StartKeeps
<1>12. ASSUME NEW p \in Procs, NEW d \in Digests, Pl!Import(p, d) \/ Pl!RemoveFiles(p, d) PROVE Pl!PluginInv'
    BY <1>12, QuietStep DEF Pl!Import, Pl!RemoveFiles, Pl!db, Pl!rest
<1>13. ASSUME NEW p \in Procs, NEW d \in Digests, Pl!Discover(p, d) PROVE Pl!PluginInv'
    BY <1>13, DiscoverKeeps
<1>14. ASSUME NEW p \in Procs, NEW j \in Jobs, NEW d \in Digests, Pl!Upload(p, j, d) PROVE Pl!PluginInv'
    BY <1>14, UploadKeeps
<1>15. ASSUME NEW j \in Jobs, Pl!BeginJob(j) PROVE Pl!PluginInv' BY <1>15, BeginJobKeeps
<1>16. ASSUME NEW j \in Jobs, Pl!Claim(j) PROVE Pl!PluginInv' BY <1>16, ClaimKeeps
<1>17. ASSUME NEW j \in Jobs, Pl!Register(j) PROVE Pl!PluginInv' BY <1>17, RegisterKeeps
<1>18. ASSUME NEW j \in Jobs, Pl!FinishJob(j) PROVE Pl!PluginInv' BY <1>18, FinishJobKeeps
<1>19. ASSUME NEW j \in Jobs, NEW b \in BOOLEAN, Pl!Opened(j, b) \/ Pl!DropUpload(j, b)
       PROVE  Pl!PluginInv'
    BY <1>19, OpenedKeeps, DropUploadKeeps
<1>20. ASSUME NEW j \in Jobs, NEW b \in BOOLEAN, Pl!Unpack(j, b) PROVE Pl!PluginInv'
  BY <1>20, UnpackKeeps
<1>21. ASSUME NEW j \in Jobs, NEW b \in BOOLEAN, Pl!FailJob(j, b) PROVE Pl!PluginInv'
  BY <1>21, FailJobKeeps
<1>22. CASE Pl!Demote BY <1>22, QuietStep DEF Pl!Demote, Pl!db, Pl!image
<1>23. CASE UNCHANGED Pl!vars BY <1>23, QuietStep DEF Pl!vars
<1> QED
    BY <1>1, <1>2, <1>3, <1>4, <1>5, <1>6, <1>7, <1>8, <1>9, <1>10, <1>11, <1>12, <1>13, <1>14,
       <1>15, <1>16, <1>17, <1>18, <1>19, <1>20, <1>21, <1>22, <1>23
    DEF Pl!Next

\* For any processes, images and uploads, and any interleaving of their steps, crashes
\* included: what a process runs is loaded and, if of the present revision, is what the rows
\* say; a save under way fits its image; a staged upload is being opened, has an
\* owner, or is of a handler dropped while it opened it (control_plane/plugins.rs,
\* persistence/plugins.rs, connector_plugins).
THEOREM PluginInvariant == Pl!PluginAssumption /\ Pl!Spec => []Pl!PluginInv
<1> SUFFICES ASSUME Pl!PluginAssumption PROVE Pl!Spec => []Pl!PluginInv OBVIOUS
<1>1. Pl!Init => Pl!PluginInv BY PluginInitially
<1>2. Pl!PluginInv /\ [Pl!Next]_(Pl!vars) => Pl!PluginInv' BY PluginStep
<1> QED BY <1>1, <1>2, PTL DEF Pl!Spec

\* The invariant is what administrators rely on.
LEMMA PluginInvSound ==
  ASSUME Pl!PluginAssumption, Pl!PluginInv PROVE Pl!PluginsSound
<1>1. Pl!SelectedIsInstalled /\ Pl!StoredSettingsFit /\ Pl!GenerationNamesContent
  BY DEF Pl!PluginInv, Pl!RowsSound
<1>2. Pl!WritesWithinGrants
  <2> DEFINE n == Cardinality(Grants)
  <2>1. n \in Nat BY GrantsCounted
  <2>2. started + n <= issued BY PluginCounts DEF Pl!PluginInv, Pl!Paid, Grants
  <2> HIDE DEF n
  <2> QED BY <2>1, <2>2, PluginTyped DEF Pl!WritesWithinGrants
<1>3. Pl!StagingAccounted BY DEF Pl!PluginInv, Pl!StagingAccounted, Pl!StagedSound
<1> QED BY <1>1, <1>2, <1>3 DEF Pl!PluginsSound

\* The selected artifact is installed and its stored settings are of its schema, however
\* saves, upgrades and deletions of several processes race; one generation names one
\* configuration; every write was paid for with a password; no upload stays behind in a
\* running process but that of a handler dropped at open().await (save_plugin_state,
\* delete_artifact, consume_plugin_authorization, StagedUpload).
THEOREM PluginsAlwaysSound == Pl!PluginAssumption /\ Pl!Spec => []Pl!PluginsSound
<1> SUFFICES ASSUME Pl!PluginAssumption PROVE Pl!Spec => []Pl!PluginsSound OBVIOUS
<1>1. Pl!PluginInv => Pl!PluginsSound BY PluginInvSound
<1> QED BY <1>1, PluginInvariant, PTL

--------------------
\* What no step does

\* Steps that write and publish nothing.
LEMMA PlainSteps ==
  ASSUME UNCHANGED <<art, st, cfg, snap, up>> PROVE Pl!PluginSteps
<1>1. Pl!SettingsNotLost /\ Pl!EnabledRuns BY DEF Pl!SettingsNotLost, Pl!EnabledRuns
<1>2. Pl!ActiveSurvivesReload BY DEF Pl!ActiveSurvivesReload
<1>3. Pl!DeletedNotRevived BY DEF Pl!DeletedNotRevived
<1>4. Pl!NoZombieJobs BY DEF Pl!NoZombieJobs
<1> QED BY <1>1, <1>2, <1>3, <1>4 DEF Pl!PluginSteps

\* A reload of the same selection finds it again.
LEMMA ReloadSteps ==
  ASSUME Pl!PluginAssumption, Pl!PluginInv, NEW p \in Procs, Pl!Reload(p) PROVE Pl!PluginSteps
<1>1. /\ snap' = [snap EXCEPT ![p] = Pl!Generation(p, st, cfg, Pl!Live)]
      /\ UNCHANGED <<req, art, st, cfg, up>>
    BY DEF Pl!Reload, Pl!db, Pl!rest
<1>2. Pl!SettingsNotLost /\ Pl!EnabledRuns /\ Pl!DeletedNotRevived /\ Pl!NoZombieJobs
    BY <1>1 DEF Pl!SettingsNotLost, Pl!EnabledRuns, Pl!DeletedNotRevived, Pl!NoZombieJobs
<1>3. Pl!ActiveSurvivesReload
  <2> SUFFICES ASSUME NEW q \in Procs, snap[q] # None, snap'[q] = None,
                      [digest |-> st.digest, rev |-> st.rev]
                        = [digest |-> snap[q].digest, rev |-> snap[q].rev]
               PROVE  FALSE
      BY DEF Pl!ActiveSurvivesReload
  <2>1. q = p BY <1>1, PluginTyped
  <2>2. st.digest = snap[p].digest /\ st.rev = snap[p].rev BY <2>1
  <2>3. Pl!SnapSound(p) BY DEF Pl!PluginInv
  <2>4. st # None /\ st.enabled /\ st.digest \in loaded[p] BY <2>1, <2>2, <2>3 DEF Pl!SnapSound
  <2>5. st.digest \in Digests BY <2>4, PluginTyped
  <2>6. st.digest # None BY <2>5, PluginConstants
  <2>7. st.digest \in Pl!Live /\ Pl!Fits(st.digest, cfg)
      BY <2>4, <2>6 DEF Pl!PluginInv, Pl!RowsSound, Pl!SelectedIsInstalled, Pl!StoredSettingsFit
  <2>8. Pl!Loads(p, st.digest) BY <2>4 DEF Pl!Loads, Pl!Resolve
  <2>9. PICK s \in States : s = st BY PluginTyped
  <2>10. PICK c \in Configs : c = cfg BY PluginTyped
  <2>11. PICK arts \in SUBSET Digests : arts = Pl!Live BY LiveIs
  <2>12. PICK g : g = Pl!Generation(p, s, c, arts) OBVIOUS
  <2>13. s # None /\ s.enabled /\ s.digest \in arts /\ Pl!Loads(p, s.digest) /\ Pl!Fits(s.digest, c)
      BY <2>4, <2>7, <2>8, <2>9, <2>10, <2>11
  <2>14. g # None BY <2>12, <2>13, GenerationIs
  <2>15. snap'[p] = g BY <1>1, <2>9, <2>10, <2>11, <2>12, PluginTyped
  <2> QED BY <2>1, <2>14, <2>15
<1> QED BY <1>2, <1>3 DEF Pl!PluginSteps

\* A request that is about to commit is not yet answered.
LEMMA OnlyOwnCommit ==
  ASSUME Pl!PluginInv, NEW p \in Procs, NEW q \in Procs, req' = [req EXCEPT ![p] = Pl!NoReq],
         req[q].step = "commit", req'[q] = Pl!NoReq
  PROVE  q = p
<1>1. req[q] # Pl!NoReq BY CommitIs
<1> QED BY <1>1, PluginTyped

\* A save replaces what its author saw and runs what it enables.
LEMMA SaveSteps ==
  ASSUME Pl!PluginAssumption, Pl!PluginInv, NEW p \in Procs, NEW r \in Pl!Saving, SaveCommits(p, r),
         Pl!CandidateAccepted(p, r)
  PROVE  Pl!PluginSteps
<1>1. /\ r = req[p] /\ Pl!SaveAllowed(r) /\ req' = [req EXCEPT ![p] = Pl!NoReq]
      /\ st' = Pl!Saved(r) /\ cfg' = Pl!Stored(r) /\ snap' = [snap EXCEPT ![p] = Pl!Candidate(p, r)]
      /\ UNCHANGED <<art, up>>
    BY DEF SaveCommits, Pl!Published
<1>2. req[p].step = "commit" BY <1>1 DEF Pl!Saving
<1>3. st \in Pl!StateRow /\ st.rev \in Nat /\ SaveSound(p) BY <1>2, CommitIs
<1>4. /\ Pl!Saved(r) \in Pl!StateRow /\ Pl!Saved(r).rev = st.rev + 1
      /\ Pl!Saved(r).digest = r.digest /\ Pl!Saved(r).enabled = r.enabled
    BY <1>3, SavedIs
<1>5. Pl!SettingsNotLost
  <2> SUFFICES ASSUME NEW q \in Procs, req[q].step = "commit", req'[q] = Pl!NoReq, req[q].op = "settings"
               PROVE  form[q].seen = cfg.val
      BY DEF Pl!SettingsNotLost
  <2>1. q = p BY <1>1, OnlyOwnCommit
  <2>2. req[p].rev = st.rev BY <1>1 DEF Pl!SaveAllowed, Pl!Matches
  <2> QED BY <1>3, <2>1, <2>2 DEF SaveSound
<1>6. Pl!EnabledRuns
  <2> SUFFICES ASSUME NEW q \in Procs, req[q].step = "commit", req'[q] = Pl!NoReq, st'.enabled
               PROVE  snap'[q] # None /\ snap'[q].rev = st'.rev
      BY DEF Pl!EnabledRuns
  <2>1. q = p BY <1>1, OnlyOwnCommit
  <2>2. Pl!Candidate(p, r) # None BY <1>1, <1>4 DEF Pl!CandidateAccepted
  <2>3. PICK s \in States : s = Pl!Saved(r) BY <1>4 DEF States
  <2>4. PICK c \in Configs : c = Pl!Stored(r) BY <1>1, StoredIs
  <2>5. PICK arts \in SUBSET Digests : arts = Pl!Live BY LiveIs
  <2>6. PICK g : g = Pl!Generation(p, s, c, arts) OBVIOUS
  <2>7. g = Pl!Candidate(p, r) BY <2>3, <2>4, <2>5, <2>6 DEF Pl!Candidate
  <2>8. g.rev = s.rev
    <3>1. g # None BY <2>2, <2>7
    <3>2. g # None => g.rev = s.rev BY <2>6, GenerationIs
    <3> QED BY <3>1, <3>2
  <2>9. snap'[p] = g BY <1>1, <2>7, PluginTyped
  <2> QED BY <1>1, <2>1, <2>2, <2>3, <2>7, <2>8, <2>9
<1>7. st' # st
  <2>1. st'.rev # st.rev BY <1>1, <1>3, <1>4
  <2> QED BY <2>1
<1>8. Pl!ActiveSurvivesReload /\ Pl!DeletedNotRevived /\ Pl!NoZombieJobs
    BY <1>1, <1>7 DEF Pl!ActiveSurvivesReload, Pl!DeletedNotRevived, Pl!NoZombieJobs
<1> QED BY <1>5, <1>6, <1>8 DEF Pl!PluginSteps

\* The transaction of a save, refused or not.
LEMMA CommitSaveSteps ==
  ASSUME Pl!PluginAssumption, Pl!PluginInv, NEW p \in Procs, Pl!CommitSave(p) PROVE Pl!PluginSteps
<1>1. /\ req[p].step = "commit" /\ req[p].op \in {"state", "settings"}
      /\ req' = [req EXCEPT ![p] = Pl!NoReq]
      /\ UNCHANGED <<art, job, staged, up, form, grant, issued, started>>
    BY DEF Pl!CommitSave, Pl!Drop, Pl!rest
<1>2. req[p] \in Pl!Saving BY <1>1, CommitIs DEF Pl!Deleting
<1>3. PICK r \in Pl!Saving : r = req[p] BY <1>2
<1>4. CASE administrator /\ Pl!SaveAllowed(r) /\ Pl!CandidateAccepted(p, r)
  <2>1. SaveCommits(p, r) BY <1>1, <1>3, <1>4 DEF Pl!CommitSave, SaveCommits
  <2> QED BY <1>4, <2>1, SaveSteps
<1>5. CASE ~(administrator /\ Pl!SaveAllowed(r) /\ Pl!CandidateAccepted(p, r))
  <2>1. UNCHANGED <<st, cfg, snap>> BY <1>3, <1>5 DEF Pl!CommitSave
  <2> QED BY <1>1, <2>1, PlainSteps
<1> QED BY <1>4, <1>5

\* A deletion enables nothing.
LEMMA CommitDeleteSteps ==
  ASSUME Pl!PluginAssumption, Pl!PluginInv, NEW p \in Procs, Pl!CommitDelete(p)
  PROVE  Pl!PluginSteps
<1>1. /\ req[p].step = "commit" /\ req[p].op = "delete" /\ req' = [req EXCEPT ![p] = Pl!NoReq]
      /\ UNCHANGED <<cfg, up>>
    BY DEF Pl!CommitDelete, Pl!Drop, Pl!rest
<1>2. req[p] \in Pl!Deleting /\ st \in Pl!StateRow BY <1>1, CommitIs DEF Pl!Saving
<1>3. CASE ~(administrator /\ Pl!DeleteAllowed(req[p]))
  <2>1. UNCHANGED <<st, art, snap>> BY <1>3 DEF Pl!CommitDelete
  <2> QED BY <1>1, <2>1, PlainSteps
<1>4. CASE administrator /\ Pl!DeleteAllowed(req[p])
  <2>1. PICK d \in Digests : d = req[p].digest BY <1>2 DEF Pl!Deleting
  <2>2. st.rev \in Nat BY <1>2 DEF Pl!StateRow
  <2>3. PICK n \in Nat : n = st.rev + 1 BY <2>2
  <2>4. st' = [st EXCEPT !.rev = n] /\ art' = [art EXCEPT ![d] = "deleted"]
      BY <1>4, <2>1, <2>3 DEF Pl!CommitDelete
  <2>5. st'.rev = n BY <1>2, <2>4 DEF Pl!StateRow
  <2>6. st' # st BY <2>2, <2>3, <2>5
  <2>7. Pl!SettingsNotLost BY <1>1 DEF Pl!SettingsNotLost
  <2>8. Pl!EnabledRuns
    <3> SUFFICES ASSUME NEW q \in Procs, req[q].step = "commit", req'[q] = Pl!NoReq, req[q].op # "delete"
                 PROVE  FALSE
        BY DEF Pl!EnabledRuns
    <3> QED BY <1>1, OnlyOwnCommit
  <2>9. Pl!DeletedNotRevived BY <2>4, PluginTyped DEF Pl!DeletedNotRevived
  <2>10. Pl!ActiveSurvivesReload /\ Pl!NoZombieJobs
    BY <1>1, <2>6 DEF Pl!ActiveSurvivesReload, Pl!NoZombieJobs
  <2> QED BY <2>7, <2>8, <2>9, <2>10 DEF Pl!PluginSteps
<1> QED BY <1>3, <1>4

\* A crash publishes nothing.
LEMMA CrashSteps ==
  ASSUME Pl!PluginInv, NEW p \in Procs, Pl!Crash(p) PROVE Pl!PluginSteps
<1>1. /\ up' = [up EXCEPT ![p] = FALSE] /\ snap' = [snap EXCEPT ![p] = None]
      /\ UNCHANGED <<art, st, cfg>>
    BY DEF Pl!Crash, Pl!db
<1>2. Pl!SettingsNotLost /\ Pl!EnabledRuns /\ Pl!DeletedNotRevived
    BY <1>1 DEF Pl!SettingsNotLost, Pl!EnabledRuns, Pl!DeletedNotRevived
<1>3. Pl!ActiveSurvivesReload BY <1>1, PluginTyped DEF Pl!ActiveSurvivesReload
<1>4. Pl!NoZombieJobs BY <1>1, PluginTyped DEF Pl!NoZombieJobs
<1> QED BY <1>2, <1>3, <1>4 DEF Pl!PluginSteps

\* After a start no job of an earlier life is pending.
LEMMA StartSteps ==
  ASSUME Pl!PluginInv, NEW p \in Procs, Pl!Start(p) PROVE Pl!PluginSteps
<1>1. /\ ~up[p] /\ up' = [up EXCEPT ![p] = TRUE]
      /\ snap' = [snap EXCEPT ![p] = Pl!Generation(p, st, cfg, Pl!Live)]
      /\ UNCHANGED <<art, st, cfg>>
    BY DEF Pl!Start, Pl!db
<1>2. Pl!SettingsNotLost /\ Pl!EnabledRuns /\ Pl!DeletedNotRevived
    BY <1>1 DEF Pl!SettingsNotLost, Pl!EnabledRuns, Pl!DeletedNotRevived
<1>3. Pl!ActiveSurvivesReload
  <2>1. Pl!SnapSound(p) BY DEF Pl!PluginInv
  <2>2. snap[p] = None BY <1>1, <2>1 DEF Pl!SnapSound
  <2>3. \A q \in Procs : q # p => snap'[q] = snap[q] BY <1>1, PluginTyped
  <2> QED BY <2>2, <2>3 DEF Pl!ActiveSurvivesReload
<1>4. Pl!NoZombieJobs
  <2> SUFFICES ASSUME NEW j \in Jobs, job'[j] # Pl!NoJob
               PROVE  job'[j].status \in Pl!Ended \cup {"none"}
      BY DEF Pl!NoZombieJobs
  <2>1. job'[j] = IF job[j] = Pl!NoJob THEN Pl!NoJob ELSE
                    IF Pl!interrupt_jobs(j) THEN [job[j] EXCEPT !.status = "failed"] ELSE job[j]
      BY DEF Pl!Start
  <2>2. job[j] # Pl!NoJob BY <2>1
  <2>3. PICK r \in Pl!JobRow : r = job[j] BY <2>2, JobIs
  <2>4. CASE Pl!interrupt_jobs(j)
    <3>1. job'[j] = [r EXCEPT !.status = "failed"] BY <2>1, <2>2, <2>3, <2>4
    <3>2. job'[j].status = "failed" BY <3>1, RowPlaced
    <3> QED BY <3>2 DEF Pl!Ended
  <2>5. CASE ~Pl!interrupt_jobs(j)
    <3>1. job'[j] = job[j] /\ job[j].status \notin {"queued", "running"}
        BY <2>1, <2>2, <2>5 DEF Pl!interrupt_jobs
    <3>2. job[j].status \in Statuses BY <2>2, JobIs
    <3> QED BY <3>1, <3>2 DEF Statuses
  <2> QED BY <2>4, <2>5
<1> QED BY <1>2, <1>3, <1>4 DEF Pl!PluginSteps

\* Finding the files of a deleted artifact does not bring it back.
LEMMA DiscoverSteps ==
  ASSUME Pl!PluginInv, NEW p \in Procs, NEW d \in Digests, Pl!Discover(p, d) PROVE Pl!PluginSteps
<1>1. /\ art[d] = "absent" /\ art' = [art EXCEPT ![d] = "live"]
      /\ UNCHANGED <<cfg, snap, req, up>>
    BY DEF Pl!Discover, Pl!Undiscovered, Pl!Registered, Pl!rest
<1>2. Pl!EnabledRuns
  <2> SUFFICES ASSUME NEW q \in Procs, req[q].step = "commit", req'[q] = Pl!NoReq PROVE FALSE
      BY DEF Pl!EnabledRuns
  <2>1. req[q] # Pl!NoReq BY CommitIs
  <2> QED BY <1>1, <2>1
<1>3. Pl!SettingsNotLost /\ Pl!ActiveSurvivesReload /\ Pl!NoZombieJobs
    BY <1>1 DEF Pl!SettingsNotLost, Pl!ActiveSurvivesReload, Pl!NoZombieJobs
<1>4. Pl!DeletedNotRevived BY <1>1, PluginTyped DEF Pl!DeletedNotRevived
<1> QED BY <1>2, <1>3, <1>4 DEF Pl!PluginSteps

\* Only an installation brings a deleted artifact back.
LEMMA RegisterSteps ==
  ASSUME Pl!PluginInv, NEW j \in Jobs, Pl!Register(j) PROVE Pl!PluginSteps
<1>1. UNCHANGED <<cfg, snap, req, up>> /\ Pl!At(j, "register") BY DEF Pl!Register
<1>2. CASE ~administrator
  <2>1. UNCHANGED <<art, st>> BY <1>2 DEF Pl!Register
  <2> QED BY <1>1, <2>1, PlainSteps
<1>3. CASE administrator
  <2>1. job[j] # Pl!NoJob BY <1>1 DEF Pl!At
  <2>2. PICK d \in Digests : d = job[j].digest BY <2>1, JobIs
  <2>3. art' = [art EXCEPT ![d] = "live"] /\ Pl!Move(j, "finish", "running")
      BY <1>3, <2>2 DEF Pl!Register, Pl!Registered
  <2>4. job'[j].at = "finish" BY <2>3, PluginTyped DEF Pl!Move
  <2>5. Pl!DeletedNotRevived BY <1>1, <2>2, <2>3, <2>4, PluginTyped DEF Pl!DeletedNotRevived
  <2>6. Pl!EnabledRuns
    <3> SUFFICES ASSUME NEW q \in Procs, req[q].step = "commit", req'[q] = Pl!NoReq PROVE FALSE
        BY DEF Pl!EnabledRuns
    <3>1. req[q] # Pl!NoReq BY CommitIs
    <3> QED BY <1>1, <3>1
  <2>7. Pl!SettingsNotLost /\ Pl!ActiveSurvivesReload /\ Pl!NoZombieJobs
      BY <1>1 DEF Pl!SettingsNotLost, Pl!ActiveSurvivesReload, Pl!NoZombieJobs
  <2> QED BY <2>5, <2>6, <2>7 DEF Pl!PluginSteps
<1> QED BY <1>2, <1>3

\* Every step respects them.
LEMMA PluginNoStep ==
  ASSUME Pl!PluginAssumption, Pl!PluginInv, Pl!Next PROVE Pl!PluginSteps
<1>1. ASSUME NEW p \in Procs, Pl!Reload(p) PROVE Pl!PluginSteps BY <1>1, ReloadSteps
<1>2. ASSUME NEW p \in Procs, Pl!View(p) PROVE Pl!PluginSteps
  BY <1>2, PlainSteps DEF Pl!View, Pl!db
<1>3. ASSUME NEW p \in Procs, Pl!Reauthorize(p) PROVE Pl!PluginSteps
  BY <1>3, PlainSteps DEF Pl!Reauthorize, Pl!db
<1>4. ASSUME NEW p \in Procs, NEW w \in Pl!Wants \cup [step: {"install"}], Pl!Authorize(p, w)
      PROVE  Pl!PluginSteps
    BY <1>4, PlainSteps DEF Pl!Authorize, Pl!db
<1>5. ASSUME NEW p \in Procs, Pl!PrepareState(p) \/ Pl!PrepareSettings(p) \/ Pl!PrepareDelete(p)
      PROVE  Pl!PluginSteps
    BY <1>5, PlainSteps DEF Pl!PrepareState, Pl!PrepareSettings, Pl!PrepareDelete, Pl!db, Pl!rest
<1>6. ASSUME NEW p \in Procs, Pl!CommitSave(p) PROVE Pl!PluginSteps BY <1>6, CommitSaveSteps
<1>7. ASSUME NEW p \in Procs, Pl!CommitDelete(p) PROVE Pl!PluginSteps BY <1>7, CommitDeleteSteps
<1>8. ASSUME NEW p \in Procs, Pl!Crash(p) PROVE Pl!PluginSteps BY <1>8, CrashSteps
<1>9. ASSUME NEW p \in Procs, Pl!Start(p) PROVE Pl!PluginSteps BY <1>9, StartSteps
<1>10. ASSUME NEW p \in Procs, NEW d \in Digests, Pl!Import(p, d) \/ Pl!RemoveFiles(p, d) PROVE Pl!PluginSteps
    BY <1>10, PlainSteps DEF Pl!Import, Pl!RemoveFiles, Pl!db, Pl!rest
<1>11. ASSUME NEW p \in Procs, NEW d \in Digests, Pl!Discover(p, d) PROVE Pl!PluginSteps
    BY <1>11, DiscoverSteps
<1>12. ASSUME NEW p \in Procs, NEW j \in Jobs, NEW d \in Digests, Pl!Upload(p, j, d) PROVE Pl!PluginSteps
    BY <1>12, PlainSteps DEF Pl!Upload, Pl!db
<1>13. ASSUME NEW j \in Jobs, Pl!BeginJob(j) \/ Pl!Claim(j) \/ Pl!FinishJob(j) PROVE Pl!PluginSteps
    BY <1>13, PlainSteps DEF Pl!BeginJob, Pl!Claim, Pl!FinishJob, Pl!db
<1>14. ASSUME NEW j \in Jobs, Pl!Register(j) PROVE Pl!PluginSteps BY <1>14, RegisterSteps
<1>15. ASSUME NEW j \in Jobs, NEW b \in BOOLEAN,
             Pl!Opened(j, b) \/ Pl!DropUpload(j, b) \/ Pl!Unpack(j, b) \/ Pl!FailJob(j, b)
       PROVE  Pl!PluginSteps
    BY <1>15, PlainSteps DEF Pl!Opened, Pl!DropUpload, Pl!Unpack, Pl!FailJob, Pl!db
<1>16. CASE Pl!Demote BY <1>16, PlainSteps DEF Pl!Demote, Pl!db
<1> QED
    BY <1>1, <1>2, <1>3, <1>4, <1>5, <1>6, <1>7, <1>8, <1>9, <1>10, <1>11, <1>12, <1>13, <1>14,
       <1>15, <1>16
    DEF Pl!Next

\* Settings are replaced only by somebody who saw them, a plugin that was just enabled runs
\* in the generation saved, a reload keeps what runs even if its files are gone, a deleted
\* artifact comes back only by an installation, and no job of an earlier life is pending
\* after a start (commit_plugin_change, resolve, discover, interrupt_jobs).
THEOREM PluginStepsAlways == Pl!PluginAssumption /\ Pl!Spec => [][Pl!PluginSteps]_(Pl!vars)
<1> SUFFICES ASSUME Pl!PluginAssumption PROVE Pl!Spec => [][Pl!PluginSteps]_(Pl!vars) OBVIOUS
<1>1. Pl!PluginInv /\ [Pl!Next]_(Pl!vars) => [Pl!PluginSteps]_(Pl!vars) BY PluginNoStep
<1> QED BY <1>1, PluginInvariant, PTL DEF Pl!Spec

--------------------
\* Hosted: RequestForwarding, what of a client request reaches an upstream.  The
\* theorems are about the specification of RequestForwarding with its own constants;
\* it shares no state with the components above.

CONSTANTS
  Channels, Setups, ClientHeaders, Declarable, ClientBodies, PluginNames, Paths

VARIABLES
  interface, phase, declares, admitted, sentBody, rewritten, fastFilter, visited, chosen,
  setup, draft, head, altered, onWire

Fw == INSTANCE RequestForwarding WITH
  path <- interface, pc <- phase, conn <- declares, kept <- admitted, original <- sentBody,
  touched <- rewritten, fast <- fastFilter, tried <- visited, at <- chosen, cfg <- setup,
  body <- draft, headers <- head, changed <- altered, wire <- onWire, Configs <- Setups

\* A set of natural numbers has a least one.
LEMMA LeastOf ==
  ASSUME NEW S, S \subseteq Nat, S # {} PROVE \E x \in S : \A y \in S : x <= y
<1> DEFINE R == OpToRel(<, Nat)
<1>1. IsWellFoundedOn(R, Nat) BY NatLessThanWellFounded, Zenon
<1>2. \A x, y \in Nat : <<y, x>> \in R <=> y < x BY DEF OpToRel
<1> HIDE DEF R
<1>3. PICK x \in S : \A y \in S : ~ (<<y, x>> \in R) BY <1>1, WFMin, Zenon
<1>4. \A y \in S : ~(y < x) BY <1>2, <1>3
<1> QED BY <1>4

\* An operation changes its own names only.
LEMMA OpIs ==
  ASSUME NEW h, Fw!IsMap(h), NEW o \in Fw!HeaderOps, NEW ch
  PROVE  /\ Fw!IsMap(Fw!ApplyOp(h, o, ch))
         /\ \A n \in Fw!Names \ Fw!OpNames(o) : Fw!ApplyOp(h, o, ch)[n] = h[n]
         /\ o.op = "set" => Fw!ApplyOp(h, o, ch)[o.name] = {Fw!Value("plan", ch)}
         /\ o.op = "remove" => Fw!ApplyOp(h, o, ch)[o.name] = {}
         /\ o.op = "rename" /\ o.name # o.to =>
              /\ Fw!ApplyOp(h, o, ch)[o.name] = {}
              /\ Fw!ApplyOp(h, o, ch)[o.to] = h[o.to] \cup h[o.name]
<1>1. o.name \in Fw!Names /\ o.to \in Fw!Names /\ o.op \in {"set", "remove", "rename"}
  BY DEF Fw!HeaderOps
<1>2. CASE o.op = "set" BY <1>1, <1>2 DEF Fw!ApplyOp, Fw!Insert, Fw!IsMap, Fw!OpNames
<1>3. CASE o.op = "remove" BY <1>1, <1>3 DEF Fw!ApplyOp, Fw!Without, Fw!IsMap, Fw!OpNames
<1>4. CASE o.op = "rename" BY <1>1, <1>4 DEF Fw!ApplyOp, Fw!Without, Fw!IsMap, Fw!OpNames
<1> QED BY <1>1, <1>2, <1>3, <1>4

\* g is what the first k operations make of h.
Means(g, h, plan, k, ch) ==
  /\ Fw!IsMap(g)
  /\ \A n \in Fw!Names :
       /\ (\A i \in 1..k : n \notin Fw!OpNames(plan[i])) => g[n] = h[n]
       /\ \A i \in 1..k : n \in Fw!OpNames(plan[i]) => g[n] = Fw!ApplyOp(h, plan[i], ch)[n]

\* Names of different operations differ, so the next one finds its own as they were.
LEMMA MeansStep ==
  ASSUME NEW h, Fw!IsMap(h), NEW plan \in Seq(Fw!HeaderOps), Fw!Compiles(plan), NEW ch,
         NEW k \in 1..Len(plan), NEW g, Means(g, h, plan, k - 1, ch)
  PROVE  Means(Fw!ApplyOp(g, plan[k], ch), h, plan, k, ch)
<1> DEFINE o == plan[k] f == Fw!ApplyOp(g, o, ch)
<1>1. o \in Fw!HeaderOps /\ Fw!IsMap(g) /\ DOMAIN plan = 1..Len(plan) /\ Len(plan) \in Nat
  BY DEF Means
<1>2. /\ o.name \in Fw!Names /\ o.to \in Fw!Names /\ o.op \in {"set", "remove", "rename"}
      /\ (o.op # "rename" => o.to = o.name) /\ (o.op = "rename" => o.name # o.to)
  BY <1>1 DEF Fw!HeaderOps, Fw!Compiles
<1>3. \A i \in 1..(k - 1) : Fw!OpNames(plan[i]) \cap Fw!OpNames(o) = {} BY <1>1 DEF Fw!Compiles
<1>4. \A n \in Fw!OpNames(o) : g[n] = h[n]
  <2> SUFFICES ASSUME NEW n \in Fw!OpNames(o) PROVE g[n] = h[n] OBVIOUS
  <2>1. n \in Fw!Names BY <1>2 DEF Fw!OpNames
  <2>2. \A i \in 1..(k - 1) : n \notin Fw!OpNames(plan[i]) BY <1>3
  <2> QED BY <2>1, <2>2 DEF Means
<1>5. /\ Fw!IsMap(f) /\ \A n \in Fw!Names \ Fw!OpNames(o) : f[n] = g[n] BY <1>1, OpIs
<1>6. \A n \in Fw!OpNames(o) : f[n] = Fw!ApplyOp(h, o, ch)[n]
  <2>1. g[o.name] = h[o.name] /\ g[o.to] = h[o.to] BY <1>4 DEF Fw!OpNames
  <2>2. Fw!OpNames(o) = {o.name, o.to} BY DEF Fw!OpNames
  <2>3. CASE o.op = "set" BY <1>1, <1>2, <2>2, <2>3 DEF Fw!ApplyOp, Fw!Insert, Fw!IsMap
  <2>4. CASE o.op = "remove" BY <1>1, <1>2, <2>2, <2>4 DEF Fw!ApplyOp, Fw!Without, Fw!IsMap
  <2>5. CASE o.op = "rename" BY <1>1, <1>2, <2>1, <2>2, <2>5 DEF Fw!ApplyOp, Fw!Without, Fw!IsMap
  <2> QED BY <1>2, <2>3, <2>4, <2>5
<1>7. 1..k = (1..(k - 1)) \cup {k} BY <1>1
<1> HIDE DEF f
<1>8. ASSUME NEW n \in Fw!Names
      PROVE  /\ (\A i \in 1..k : n \notin Fw!OpNames(plan[i])) => f[n] = h[n]
             /\ \A i \in 1..k : n \in Fw!OpNames(plan[i]) => f[n] = Fw!ApplyOp(h, plan[i], ch)[n]
  <2>1. CASE n \in Fw!OpNames(o) BY <1>3, <1>6, <1>7, <2>1
  <2>2. CASE n \notin Fw!OpNames(o) BY <1>5, <1>7, <2>2 DEF Means
  <2> QED BY <2>1, <2>2
<1>9. Means(f, h, plan, k, ch) BY <1>5, <1>8 DEF Means
<1> QED BY <1>9 DEF f

\* The meaning of a plan is one map.
LEMMA MeansUnique ==
  ASSUME NEW h, NEW plan, NEW k \in Nat, NEW ch, NEW f, NEW g,
         Means(f, h, plan, k, ch), Means(g, h, plan, k, ch)
  PROVE  f = g
<1>1. \A n \in Fw!Names : f[n] = g[n] BY DEF Means
<1> QED BY <1>1 DEF Means, Fw!IsMap

\* ApplyPlan gives every name what the operation on it makes of the original map. The
\* function that recursion chooses exists, since the meaning satisfies its equation, and
\* is the meaning at the first k operations for every k, by the least k where it is not.
LEMMA PlanMeans ==
  ASSUME NEW h, Fw!IsMap(h), NEW plan \in Seq(Fw!HeaderOps), Fw!Compiles(plan), NEW ch
  PROVE  Means(Fw!ApplyPlan(h, plan, ch), h, plan, Len(plan), ch)
<1> DEFINE K == 0..Len(plan)
           By(k, n) == CHOOSE i \in 1..k : n \in Fw!OpNames(plan[i])
           G(k) == [n \in Fw!Names |-> IF \E i \in 1..k : n \in Fw!OpNames(plan[i])
                                    THEN Fw!ApplyOp(h, plan[By(k, n)], ch)[n] ELSE h[n]]
           F == [k \in K |-> G(k)]
           R(r) == r = [k \in K |-> IF k = 0 THEN h ELSE Fw!ApplyOp(r[k - 1], plan[k], ch)]
<1>0. Len(plan) \in Nat /\ DOMAIN plan = 1..Len(plan) OBVIOUS
<1>1. ASSUME NEW k \in K PROVE Means(F[k], h, plan, k, ch)
  <2>1. F[k] = G(k) OBVIOUS
  <2>2. Fw!IsMap(G(k)) BY DEF Fw!IsMap
  <2>3. ASSUME NEW n \in Fw!Names, NEW i \in 1..k, n \in Fw!OpNames(plan[i])
        PROVE  G(k)[n] = Fw!ApplyOp(h, plan[i], ch)[n]
    <3>1. By(k, n) \in 1..k /\ n \in Fw!OpNames(plan[By(k, n)]) BY <2>3
    <3>2. By(k, n) = i BY <1>0, <2>3, <3>1 DEF Fw!Compiles
    <3> QED BY <2>3, <3>2
  <2>4. \A n \in Fw!Names : (\A i \in 1..k : n \notin Fw!OpNames(plan[i])) => G(k)[n] = h[n]
      OBVIOUS
  <2> HIDE DEF G, F
  <2> QED BY <2>1, <2>2, <2>3, <2>4 DEF Means
<1>2. F[0] = h
  <2>1. Means(h, h, plan, 0, ch) BY DEF Means
  <2> HIDE DEF F
  <2> QED BY <1>0, <1>1, <2>1, MeansUnique
<1>3. ASSUME NEW k \in K, k # 0 PROVE F[k] = Fw!ApplyOp(F[k - 1], plan[k], ch)
  <2>1. k \in 1..Len(plan) /\ k - 1 \in K /\ k \in Nat BY <1>0, <1>3
  <2> HIDE DEF F
  <2>2. Means(F[k - 1], h, plan, k - 1, ch) BY <1>1, <2>1
  <2>3. Means(Fw!ApplyOp(F[k - 1], plan[k], ch), h, plan, k, ch) BY <2>1, <2>2, MeansStep
  <2> QED BY <1>1, <2>1, <2>3, MeansUnique
<1>4. R(F)
  <2>1. F = [k \in K |-> F[k]] OBVIOUS
  <2> HIDE DEF F
  <2> QED BY <1>2, <1>3, <2>1
<1> HIDE DEF F
<1>5. PICK run : R(run) /\ Fw!ApplyPlan(h, plan, ch) = run[Len(plan)]
  <2>1. R(CHOOSE r : R(r)) BY <1>4, Zenon
  <2>2. Fw!ApplyPlan(h, plan, ch) = (CHOOSE r : R(r))[Len(plan)] BY DEF Fw!ApplyPlan
  <2> QED BY <2>1, <2>2, Zenon
<1>6. \A k \in K : Means(run[k], h, plan, k, ch)
  <2> DEFINE Bad == {k \in K : ~Means(run[k], h, plan, k, ch)}
  <2>1. CASE Bad = {} BY <2>1
  <2>2. CASE Bad # {}
    <3>0. Bad \subseteq Nat BY <1>0
    <3>1. PICK k \in Bad : \A j \in Bad : k <= j
      <4> HIDE DEF Bad
      <4> QED BY <2>2, <3>0, LeastOf
    <3>2. k # 0
      <4>1. Means(h, h, plan, 0, ch) BY DEF Means
      <4>2. 0 \in K BY <1>0
      <4>3. run[0] = h BY <1>5, <4>2
      <4> QED BY <4>1, <4>3
    <3>3. k - 1 \in K /\ k - 1 \notin Bad /\ k \in 1..Len(plan) BY <1>0, <3>1, <3>2
    <3>4. run[k] = Fw!ApplyOp(run[k - 1], plan[k], ch) BY <1>5, <3>2
    <3>5. Means(run[k - 1], h, plan, k - 1, ch) BY <3>3
    <3>6. Means(run[k], h, plan, k, ch) BY <3>3, <3>4, <3>5, MeansStep
    <3> QED BY <3>6
  <2> QED BY <2>1, <2>2
<1> QED BY <1>0, <1>5, <1>6

\* So the order of the operations does not matter.
LEMMA PlanOrder ==
  ASSUME NEW h, Fw!IsMap(h), NEW plan \in Seq(Fw!HeaderOps), Fw!Compiles(plan), NEW ch,
         NEW o \in Fw!Orders(plan)
  PROVE  Fw!ApplyPlan(h, Fw!Reordered(plan, o), ch) = Fw!ApplyPlan(h, plan, ch)
<1> DEFINE q == Fw!Reordered(plan, o)
<1>0. /\ Len(plan) \in Nat /\ DOMAIN plan = 1..Len(plan) /\ \A i \in DOMAIN plan : o[i] \in DOMAIN plan
      /\ \A i, j \in DOMAIN plan : o[i] = o[j] => i = j
      /\ \A j \in DOMAIN plan : \E i \in DOMAIN plan : o[i] = j
  BY DEF Fw!Orders
<1>1. /\ q \in Seq(Fw!HeaderOps) /\ Len(q) = Len(plan) /\ DOMAIN q = DOMAIN plan
      /\ \A i \in DOMAIN plan : q[i] = plan[o[i]]
  BY <1>0 DEF Fw!Reordered
<1> HIDE DEF q
<1>2. Fw!Compiles(q)
  <2>1. \A i \in DOMAIN q : q[i] = plan[o[i]] /\ o[i] \in DOMAIN plan BY <1>0, <1>1
  <2>2. ASSUME NEW i \in DOMAIN q, NEW j \in DOMAIN q, i # j
        PROVE  Fw!OpNames(q[i]) \cap Fw!OpNames(q[j]) = {}
    <3>1. o[i] # o[j] BY <1>0, <1>1, <2>2
    <3>2. Fw!OpNames(plan[o[i]]) \cap Fw!OpNames(plan[o[j]]) = {} BY <2>1, <3>1 DEF Fw!Compiles
    <3> QED BY <2>1, <3>2
  <2> QED BY <2>1, <2>2 DEF Fw!Compiles
<1>3. Means(Fw!ApplyPlan(h, q, ch), h, q, Len(plan), ch) BY <1>1, <1>2, PlanMeans
<1>4. Means(Fw!ApplyPlan(h, q, ch), h, plan, Len(plan), ch)
  <2> DEFINE g == Fw!ApplyPlan(h, q, ch)
  <2> HIDE DEF g
  <2>1. Fw!IsMap(g) BY <1>3 DEF g, Means
  <2>2. ASSUME NEW n \in Fw!Names, \A i \in 1..Len(plan) : n \notin Fw!OpNames(plan[i])
        PROVE  g[n] = h[n]
    <3>1. \A i \in 1..Len(plan) : n \notin Fw!OpNames(q[i]) BY <1>0, <1>1, <2>2
    <3> QED BY <1>3, <3>1 DEF g, Means
  <2>3. ASSUME NEW n \in Fw!Names, NEW j \in 1..Len(plan), n \in Fw!OpNames(plan[j])
        PROVE  g[n] = Fw!ApplyOp(h, plan[j], ch)[n]
    <3>1. PICK i \in 1..Len(plan) : o[i] = j BY <1>0
    <3>2. n \in Fw!OpNames(q[i]) /\ q[i] = plan[j] BY <1>0, <1>1, <2>3, <3>1
    <3> QED BY <1>3, <3>2 DEF g, Means
  <2>4. Means(g, h, plan, Len(plan), ch) BY <2>1, <2>2, <2>3 DEF Means
  <2> QED BY <2>4 DEF g
<1> QED BY <1>0, <1>4, PlanMeans, MeansUnique DEF q

\* A planned value was there before, is the plan's own, or was renamed between names
\* that are neither protected nor declared hop-by-hop.
LEMMA PlanValues ==
  ASSUME NEW h, Fw!IsMap(h), NEW plan \in Seq(Fw!HeaderOps), Fw!Compiles(plan), NEW ch,
         NEW c, Fw!PlanAllowed(c, h, plan)
  PROVE  LET g == Fw!ApplyPlan(h, plan, ch)
             Free(n) == ~Fw!RequestProtected(n) /\ n \notin Fw!TransformConnectionNames(c, h)
         IN /\ Fw!IsMap(g)
            /\ \A n \in Fw!Names : ~Free(n) => g[n] = h[n]
            /\ \A n \in Fw!Names : \A v \in g[n] :
                 \/ v \in h[n] \/ v = Fw!Value("plan", ch)
                 \/ \E m \in Fw!Names : Free(n) /\ Free(m) /\ v \in h[m]
<1> DEFINE g == Fw!ApplyPlan(h, plan, ch)
           Free(n) == ~Fw!RequestProtected(n) /\ n \notin Fw!TransformConnectionNames(c, h)
<1>0. Len(plan) \in Nat /\ DOMAIN plan = 1..Len(plan) OBVIOUS
<1>1. Means(g, h, plan, Len(plan), ch) BY PlanMeans
<1> HIDE DEF g
<1>2. \A i \in DOMAIN plan : \A n \in Fw!OpNames(plan[i]) : Free(n) BY DEF Fw!PlanAllowed
<1> HIDE DEF Free
<1>3. \A n \in Fw!Names : ~Free(n) => g[n] = h[n] BY <1>0, <1>1, <1>2 DEF Means
<1>4. ASSUME NEW n \in Fw!Names, NEW v \in g[n]
      PROVE  \/ v \in h[n] \/ v = Fw!Value("plan", ch)
             \/ \E m \in Fw!Names : Free(n) /\ Free(m) /\ v \in h[m]
  <2>1. CASE \A i \in 1..Len(plan) : n \notin Fw!OpNames(plan[i]) BY <1>1, <2>1 DEF Means
  <2>2. ASSUME NEW i \in 1..Len(plan), n \in Fw!OpNames(plan[i])
        PROVE  \/ v \in h[n] \/ v = Fw!Value("plan", ch)
               \/ \E m \in Fw!Names : Free(n) /\ Free(m) /\ v \in h[m]
    <3> DEFINE o == plan[i] f == Fw!ApplyOp(h, o, ch)
    <3>1. o \in Fw!HeaderOps BY <1>0
    <3>2. /\ o.name \in Fw!Names /\ o.to \in Fw!Names /\ o.op \in {"set", "remove", "rename"}
          /\ (o.op # "rename" => o.to = o.name) /\ (o.op = "rename" => o.name # o.to)
      BY <1>0, <3>1 DEF Fw!HeaderOps, Fw!Compiles
    <3>3. v \in f[n] BY <1>1, <2>2 DEF Means
    <3>4. Free(o.name) /\ Free(o.to) /\ (n = o.name \/ n = o.to)
      BY <1>0, <1>2, <2>2 DEF Fw!OpNames
    <3>5. CASE o.op = "set" BY <3>2, <3>3, <3>4, <3>5 DEF Fw!ApplyOp, Fw!Insert, Fw!IsMap
    <3>6. CASE o.op = "remove" BY <3>2, <3>3, <3>4, <3>6 DEF Fw!ApplyOp, Fw!Without, Fw!IsMap
    <3>7. CASE o.op = "rename" BY <3>2, <3>3, <3>4, <3>7 DEF Fw!ApplyOp, Fw!Without, Fw!IsMap
    <3> QED BY <3>2, <3>5, <3>6, <3>7
  <2> QED BY <2>1, <2>2
<1>5. Fw!IsMap(g) BY <1>1 DEF Means
<1> QED BY <1>3, <1>4, <1>5 DEF g, Free

\* Nothing has been received.
LEMMA InitFits == Fw!Init => Fw!ForwardInv
BY DEF Fw!Init, Fw!ForwardInv, Fw!OriginalFits, Fw!ClientBody, Fw!Fields

\* The public policy keeps allowed and declared names, and Connection with them.
LEMMA ReceiveKeeps ==
  ASSUME Fw!ForwardingAssumption, Fw!ForwardInv, Fw!Receive PROVE Fw!ForwardInv'
<1>1. PICK names \in ClientHeaders, fields \in ClientBodies,
           declared \in SUBSET Declarable, text \in BOOLEAN, decoded \in BOOLEAN :
        LET c == [names |-> declared, text |-> text]
            raw == [n \in Fw!Names |-> IF n \in names THEN {Fw!Value("client", n)} ELSE {}]
            filtered == Fw!FastFilter(Fw!ApplyBodyPolicy(fields), fastFilter)
        IN /\ declared # {} => "connection" \in names
           /\ IF \E f \in fields : Fw!Disposition(f) = "reject"
                THEN phase' = "refused" /\ UNCHANGED <<declares, admitted, sentBody, rewritten>>
                ELSE /\ declares' = c
                     /\ admitted' = Fw!Without(Fw!FilterClientHeaders(c, raw), Fw!IngressRemoves(interface))
                     /\ sentBody' = Fw!ClientBody(filtered) /\ phase' = "route"
  BY DEF Fw!Receive
<1>2. interface \in Fw!Public /\ UNCHANGED <<interface, fastFilter, setup, draft, head, chosen, altered, onWire>>
  BY DEF Fw!Receive
<1>3. CASE phase' = "refused" BY <1>1, <1>2, <1>3 DEF Fw!ForwardInv, Fw!OriginalFits
<1>4. CASE phase' = "route"
  <2> DEFINE c == [names |-> declared, text |-> text]
             raw == [n \in Fw!Names |-> IF n \in names THEN {Fw!Value("client", n)} ELSE {}]
             filtered == Fw!FastFilter(Fw!ApplyBodyPolicy(fields), fastFilter)
  <2>1. /\ declares' = c /\ sentBody' = Fw!ClientBody(filtered)
        /\ admitted' = Fw!Without(Fw!FilterClientHeaders(c, raw), Fw!IngressRemoves(interface))
        /\ declared # {} => "connection" \in names
    BY <1>1, <1>4
  <2>2. admitted' = [n \in Fw!Names |-> IF /\ n \in names /\ (n \in Fw!Allowed \/ n \in Fw!PolicyConnectionNames(c))
                                    /\ n \notin Fw!IngressRemoves(interface)
                                 THEN {Fw!Value("client", n)} ELSE {}]
    BY <2>1 DEF Fw!FilterClientHeaders, Fw!Without, Fw!HeaderAction, Fw!Allowed
  <2>3. Fw!KeptFits'
    <3>1. declares'.names = declared /\ Fw!PolicyConnectionNames(c) \subseteq declared
      BY <2>1 DEF Fw!PolicyConnectionNames
    <3>2. /\ "connection" \in Fw!Names /\ "connection" \in Fw!Allowed
          /\ "connection" \notin Fw!IngressRemoves(interface)
      BY DEF Fw!Names, Fw!Allowed, Fw!IngressRemoves
    <3> HIDE DEF c
    <3> QED BY <1>2, <2>1, <2>2, <3>1, <3>2 DEF Fw!KeptFits, Fw!IsMap, Fw!Admits
  <2>4. "moderation" \notin filtered /\ (fastFilter => "service_tier" \notin filtered)
    BY DEF Fw!FastFilter, Fw!ApplyBodyPolicy, Fw!Disposition
  <2> HIDE DEF filtered
  <2>5. Fw!OriginalFits' BY <1>2, <2>1, <2>4 DEF Fw!OriginalFits, Fw!ClientBody, Fw!Fields
  <2> QED BY <1>4, <2>3, <2>5 DEF Fw!ForwardInv
<1> QED BY <1>1, <1>3, <1>4

\* The probe and the model discovery start from one header of the host.
LEMMA InternalKeeps == ASSUME Fw!ForwardInv, Fw!StartInternal PROVE Fw!ForwardInv'
<1>1. admitted' = Fw!Insert(Fw!NoHeaders, "content-type", Fw!Value("host", "host")) /\ phase' = "route"
      /\ UNCHANGED <<interface, declares, sentBody, rewritten, fastFilter, visited, chosen, setup, draft, head, altered, onWire>>
  BY DEF Fw!StartInternal
<1>2. declares.names = {} BY DEF Fw!ForwardInv, Fw!StartInternal, Fw!NoConn
<1>3. Fw!KeptFits' BY <1>1, <1>2 DEF Fw!KeptFits, Fw!IsMap, Fw!Insert, Fw!NoHeaders, Fw!Names
<1> QED BY <1>1, <1>3 DEF Fw!ForwardInv, Fw!OriginalFits

\* Every attempt starts from what the ingress kept.
LEMMA AttemptKeeps == ASSUME Fw!ForwardInv, Fw!Attempt PROVE Fw!ForwardInv'
<1>1. /\ setup' \in Fw!AcceptedConfigs /\ draft' = sentBody /\ head' = admitted /\ phase' = "body"
      /\ UNCHANGED <<interface, declares, admitted, sentBody, rewritten, fastFilter, onWire>> /\ phase = "route"
  BY DEF Fw!Attempt, Fw!ingress
<1> QED BY <1>1 DEF Fw!ForwardInv, Fw!OriginalFits, Fw!KeptFits, Fw!Admits

\* A plugin may change the input only.
LEMMA PrepareKeeps ==
  ASSUME Fw!ForwardingAssumption, Fw!ForwardInv, Fw!PrepareBody PROVE Fw!ForwardInv'
<1> DEFINE planned == Fw!ApplyJsonPlan(Fw!RewriteModel(draft, setup, chosen), setup.json, chosen)
<1>1. /\ phase = "body" /\ phase' \in {"plan", "failed"} /\ draft = sentBody
      /\ UNCHANGED <<interface, declares, admitted, sentBody, rewritten, fastFilter, visited, chosen, setup, head, onWire>>
  BY DEF Fw!PrepareBody, Fw!ingress, Fw!attempt, Fw!ForwardInv
<1>2. Fw!KeptFits' /\ Fw!OriginalFits' /\ Fw!OriginalFits /\ setup' \in Fw!AcceptedConfigs /\ head' = admitted'
  BY <1>1 DEF Fw!ForwardInv, Fw!OriginalFits, Fw!KeptFits, Fw!Admits
<1>3. ASSUME phase' = "plan" PROVE Fw!BodyFits'
  <2>1. PICK b \in Fw!PluginBodies(planned, chosen) \cup {planned} :
          draft' = b /\ Fw!PluginBodyAccepted(planned, b)
    BY <1>3 DEF Fw!PrepareBody
  <2>2. "model" \notin setup.json.add \cup setup.json.remove
    BY <1>1 DEF Fw!ForwardInv, Fw!AcceptedConfigs, Fw!ConfigAccepted, Fw!JsonPlanCompiles
  <2>3. /\ planned = [f \in Fw!Fields |-> planned[f]]
        /\ \A f \in Fw!Fields : planned[f] \in {Fw!Value("plan", chosen), Fw!Absent, sentBody[f], Fw!Value("route", chosen)}
        /\ planned["model"] = IF setup.alias THEN Fw!Value("route", chosen) ELSE sentBody["model"]
        /\ \A f \in Fw!Fields : f # "model" /\ f \notin setup.json.add => planned[f] \in {Fw!Absent, sentBody[f]}
    <3> DEFINE r == Fw!RewriteModel(draft, setup, chosen)
    <3>1. /\ \A f \in Fw!Fields : r[f] = IF f = "model" /\ setup.alias THEN Fw!Value("route", chosen) ELSE sentBody[f]
      BY <1>1, <1>2 DEF Fw!RewriteModel, Fw!Fields, Fw!OriginalFits
    <3> HIDE DEF r
    <3>2. planned = [f \in Fw!Fields |-> IF f \in setup.json.add THEN Fw!Value("plan", chosen)
                                     ELSE IF f \in setup.json.remove THEN Fw!Absent ELSE r[f]]
      BY DEF Fw!ApplyJsonPlan, r
    <3> HIDE DEF planned
    <3> QED BY <2>2, <3>1, <3>2 DEF Fw!Fields
  <2> HIDE DEF planned
  <2>4. /\ b = [f \in Fw!Fields |-> b[f]] /\ b["moderation"] = planned["moderation"]
        /\ \A f \in Fw!Fields : b[f] \in {Fw!Value("plugin", chosen), Fw!Absent, planned[f]}
        /\ b["model"] = planned["model"] /\ b["service_tier"] = planned["service_tier"]
    BY <2>1, <2>3 DEF Fw!PluginBodies, Fw!PluginBodyAccepted, Fw!Fields
  <2>5. \A f \in Fw!Fields : Fw!Local(b[f])
    BY <1>2, <2>3, <2>4 DEF Fw!Local, Fw!Value, Fw!Absent, Fw!OriginalFits
  <2>6. b["service_tier"].by # "plugin"
    BY <1>2, <2>3, <2>4 DEF Fw!Value, Fw!Absent, Fw!OriginalFits, Fw!Fields
  <2>7. /\ (fastFilter /\ "service_tier" \notin setup.json.add => b["service_tier"] = Fw!Absent)
        /\ ("moderation" \notin setup.json.add => b["moderation"] = Fw!Absent)
    BY <1>2, <2>3, <2>4 DEF Fw!OriginalFits, Fw!Fields
  <2> QED BY <1>1, <2>1, <2>3, <2>4, <2>5, <2>6, <2>7 DEF Fw!BodyFits, Fw!Local
<1> QED BY <1>1, <1>2, <1>3 DEF Fw!ForwardInv

\* What is declared stays under its own name until it is removed, and the client's
\* credential does too.
LEMMA PlanHeadersKeeps ==
  ASSUME Fw!ForwardingAssumption, Fw!ForwardInv, Fw!PlanHeaders PROVE Fw!ForwardInv'
<1> DEFINE clean == IF altered THEN Fw!RemoveEntityHeaders(head) ELSE head
           planned == Fw!ApplyPlan(clean, setup.headers, chosen)
           Free(n) == ~Fw!RequestProtected(n) /\ n \notin declares.names
<1>1. /\ phase = "plan" /\ phase' \in {"connector", "failed"} /\ head = admitted
      /\ UNCHANGED <<interface, declares, admitted, sentBody, rewritten, fastFilter, visited, chosen, setup, draft, altered, onWire>>
      /\ setup \in Fw!AcceptedConfigs /\ Fw!BodyFits /\ Fw!KeptFits /\ Fw!OriginalFits
  BY DEF Fw!PlanHeaders, Fw!ForwardInv, Fw!ingress, Fw!attempt
<1>2. Fw!KeptFits' /\ Fw!OriginalFits' /\ Fw!BodyFits' /\ setup' \in Fw!AcceptedConfigs
  BY <1>1 DEF Fw!OriginalFits, Fw!KeptFits, Fw!BodyFits, Fw!Local, Fw!Admits
<1>3. ASSUME phase' = "connector" PROVE Fw!HeadersFit' /\ head'["authorization"] = {}
  <2>1. /\ Fw!PlanAllowed(declares, clean, setup.headers)
        /\ head' = CASE interface = "websocket" -> Fw!ForwardWebSocketHeaders(declares, planned)
                        [] interface \in Fw!Public \ {"websocket"} -> Fw!ForwardHeaders(declares, planned)
                        [] OTHER -> planned
    BY <1>3 DEF Fw!PlanHeaders
  <2>2. /\ Fw!IsMap(clean) /\ clean["connection"] = admitted["connection"]
        /\ \A n \in Fw!Names : \A v \in clean[n] : v \in admitted[n] /\ (altered => n # "digest")
    BY <1>1 DEF Fw!KeptFits, Fw!IsMap, Fw!RemoveEntityHeaders, Fw!Without, Fw!Names, Fw!Allowed,
      Fw!HopByHopNames
  <2>3. setup.headers \in Seq(Fw!HeaderOps) /\ Fw!Compiles(setup.headers)
    BY <1>1 DEF Fw!ForwardingAssumption, Fw!AcceptedConfigs, Fw!ConfigAccepted
  <2>4. Fw!TransformConnectionNames(declares, clean) = declares.names
    BY <1>1, <2>2 DEF Fw!TransformConnectionNames, Fw!KeptFits
  <2> HIDE DEF clean
  <2>5. /\ Fw!IsMap(planned)
        /\ \A n \in Fw!Names : ~Free(n) => planned[n] = clean[n]
        /\ \A n \in Fw!Names : \A v \in planned[n] :
             \/ v \in clean[n] \/ v = Fw!Value("plan", chosen)
             \/ \E m \in Fw!Names : Free(n) /\ Free(m) /\ v \in clean[m]
    BY <2>1, <2>2, <2>3, <2>4, PlanValues
  <2> HIDE DEF planned
  <2>6. CASE interface \in Fw!Public
    <3>1. /\ Fw!IsMap(head')
          /\ \A n \in Fw!Names : \A v \in head'[n] :
               /\ v \in planned[n] /\ n \notin declares.names
               /\ n \notin Fw!HopByHopNames \cup Fw!ExplicitlyIgnored \cup {"host", "authorization", "accept-encoding"}
          /\ head'["authorization"] = {}
      <4>1. Fw!TransformConnectionNames(declares, planned) = declares.names
        <5>1. "connection" \in Fw!Names /\ ~Free("connection")
          BY DEF Fw!Names, Fw!Allowed, Fw!RequestProtected, Fw!HopByHop, Fw!HopByHopNames
        <5> HIDE DEF Free
        <5>2. planned["connection"] = admitted["connection"] BY <2>2, <2>5, <5>1
        <5> QED BY <1>1, <5>2 DEF Fw!TransformConnectionNames, Fw!KeptFits
      <4>2. "authorization" \in Fw!Names BY DEF Fw!Names, Fw!Allowed
      <4> QED BY <2>1, <2>5, <2>6, <4>1, <4>2 DEF Fw!ForwardHeaders, Fw!ForwardWebSocketHeaders,
          Fw!Without, Fw!IsMap, Fw!Public
    <3>2. ASSUME NEW n \in Fw!Names, NEW v \in head'[n] PROVE Fw!Clean(v) /\ Fw!Local(v) /\ v.by # "context"
      <4>1. ASSUME NEW m \in Fw!Names, v \in clean[m], m \notin declares.names, m = n \/ Free(m)
            PROVE  Fw!Clean(v) /\ Fw!Local(v) /\ v.by # "context"
        <5>1. v \in admitted[m] /\ (altered => m # "digest") BY <2>2, <4>1
        <5>2. CASE v = Fw!Value("host", "host") BY <5>2 DEF Fw!Clean, Fw!Local, Fw!Value
        <5>3. CASE v = Fw!Value("client", m) /\ m \in Fw!Allowed
          <6>1. m \notin {"forwarded", "authorization", "cookie"}
            BY <3>1, <4>1, <5>3 DEF Fw!RequestProtected, Fw!Allowed, Fw!ExplicitlyIgnored
          <6> QED BY <4>1, <5>1, <5>3, <6>1 DEF Fw!Clean, Fw!Local, Fw!Value, Fw!ExplicitlyIgnored
        <5> QED BY <1>1, <4>1, <5>1, <5>2, <5>3 DEF Fw!KeptFits, Fw!Admits
      <4>2. CASE v = Fw!Value("plan", chosen) BY <4>2 DEF Fw!Clean, Fw!Local, Fw!Value
      <4>3. v \in planned[n] /\ n \notin declares.names BY <3>1
      <4> QED BY <2>5, <4>1, <4>2, <4>3
    <3> QED BY <1>1, <3>1, <3>2 DEF Fw!HeadersFit, Fw!Clean, Fw!Local, Fw!Returned
  <2>7. CASE interface \notin Fw!Public
    <3>1. head' = planned BY <2>1, <2>7 DEF Fw!Public
    <3>2. \A n \in Fw!Names : \A v \in clean[n] : v = Fw!Value("host", "host") /\ n = "content-type"
      BY <1>1, <2>2, <2>7 DEF Fw!KeptFits
    <3>3. \A n \in Fw!Names : \A v \in planned[n] : v \in {Fw!Value("host", "host"), Fw!Value("plan", chosen)}
      BY <2>5, <3>2
    <3>4. \A n \in Fw!Names : \A v \in planned[n] : Fw!Clean(v) /\ Fw!Local(v) /\ v.by # "context"
      BY <3>3 DEF Fw!Clean, Fw!Local, Fw!Value
    <3>5. "authorization" \in Fw!Names /\ ~Free("authorization")
      BY DEF Fw!Names, Fw!Allowed, Fw!RequestProtected
    <3>6. planned["authorization"] = {} BY <2>5, <3>2, <3>5
    <3> QED BY <1>1, <2>5, <3>1, <3>4, <3>6 DEF Fw!HeadersFit, Fw!Clean, Fw!Local, Fw!Returned
  <2> QED BY <2>6, <2>7
<1> QED BY <1>1, <1>2, <1>3 DEF Fw!ForwardInv

\* A plugin sees and copies clean values, a Codex plugin also those of its context;
\* the credential is the channel's.
LEMMA InjectKeeps ==
  ASSUME Fw!ForwardingAssumption, Fw!ForwardInv, Fw!InjectHeaders PROVE Fw!ForwardInv'
<1> DEFINE own == Fw!Value("credential", chosen)
           Fit(h) == Fw!IsMap(h) /\ \A n \in Fw!Names : \A v \in h[n] :
                       Fw!Clean(v) /\ Fw!Local(v) /\ Fw!Returned(n, v)
<1>1. /\ phase = "connector" /\ phase' \in {"send", "failed"} /\ Fit(head) /\ head["authorization"] = {}
      /\ UNCHANGED <<interface, declares, admitted, sentBody, rewritten, fastFilter, visited, chosen, setup, draft, altered, onWire>>
      /\ setup \in Fw!AcceptedConfigs /\ Fw!BodyFits /\ Fw!KeptFits /\ Fw!OriginalFits
  BY DEF Fw!InjectHeaders, Fw!ForwardInv, Fw!HeadersFit, Fw!ingress, Fw!attempt
<1>2. Fw!KeptFits' /\ Fw!OriginalFits' /\ Fw!BodyFits' /\ setup' \in Fw!AcceptedConfigs
  BY <1>1 DEF Fw!OriginalFits, Fw!KeptFits, Fw!BodyFits, Fw!Local, Fw!Admits
<1>3. /\ setup.auth.kind \in {"none", "bearer", "header"}
      /\ setup.auth.kind = "header" => setup.auth.name \in Fw!Names \ {"authorization"}
  BY <1>1 DEF Fw!ForwardingAssumption, Fw!AcceptedConfigs, Fw!ConfigAccepted, Fw!AuthCompiles,
    Fw!RequestProtected
<1>4. "authorization" \in Fw!Names /\ "account" \in Fw!Names BY DEF Fw!Names, Fw!Allowed
<1>5. Fw!Clean(own) /\ Fw!Local(own) /\ \A n : Fw!Returned(n, own)
  BY DEF Fw!Clean, Fw!Local, Fw!Returned, Fw!Value
<1>6. ASSUME NEW h, Fit(h), h["authorization"] = {}, setup.connector # "codex"
      PROVE  Fit(Fw!InjectAuth(h, setup.auth, chosen)) /\ Fw!Authenticated(Fw!InjectAuth(h, setup.auth, chosen), setup, chosen)
  <2> HIDE DEF own
  <2>1. CASE setup.auth.kind = "none"
    <3>1. Fw!InjectAuth(h, setup.auth, chosen) = h BY <2>1 DEF Fw!InjectAuth
    <3> QED BY <1>6, <2>1, <3>1 DEF Fw!Authenticated
  <2>2. CASE setup.auth.kind = "bearer"
    <3>1. Fw!InjectAuth(h, setup.auth, chosen) = [h EXCEPT !["authorization"] = {own}]
      BY <2>2 DEF Fw!InjectAuth, Fw!Insert, own
    <3> QED BY <1>4, <1>5, <1>6, <2>2, <3>1 DEF Fw!Authenticated, Fw!IsMap, own
  <2>3. CASE setup.auth.kind = "header"
    <3>1. Fw!InjectAuth(h, setup.auth, chosen) = [h EXCEPT ![setup.auth.name] = {own}]
      BY <2>3 DEF Fw!InjectAuth, Fw!Insert, own
    <3> QED BY <1>3, <1>4, <1>5, <1>6, <2>3, <3>1 DEF Fw!Authenticated, Fw!IsMap, own
  <2> QED BY <1>3, <2>1, <2>2, <2>3
<1>7. ASSUME NEW p \in Fw!PluginPlans(head, admitted, setup, chosen), Fw!PluginPlanAccepted(p)
      PROVE  Fit(Fw!ApplyPluginPlan(head, p, chosen))
  <2> DEFINE g == Fw!ApplyPluginPlan(head, p, chosen)
             mine == Fw!Value("plugin", chosen)
             Fits(v) == /\ Fw!Clean(v) /\ Fw!Local(v)
                        /\ v.by = "context" => setup.connector = "codex" /\ v.tag \in Fw!Admits
  <2>1. Fits(mine) /\ Fits(own) BY DEF Fw!Clean, Fw!Local, Fw!Value
  <2>2. Fw!IsMap(g) BY DEF Fw!ApplyPluginPlan, Fw!IsMap
  <2>3. \A n \in Fw!Names : \A w \in admitted[n] : w.by = "client" => w.tag \in Fw!Admits
    BY <1>1 DEF Fw!KeptFits, Fw!Value
  <2>4. setup.connector = "codex" => \A t \in Fw!Admits : Fits(Fw!Value("context", t))
    BY DEF Fw!Clean, Fw!Local, Fw!Value
  <2>5. \A n \in Fw!Names : \A v \in head[n] : Fits(v) BY <1>1 DEF Fw!Returned
  <2> HIDE DEF g, mine, own, Fits
  <2>6. ASSUME NEW x \in p.set PROVE Fits(x[2])
    <3>1. \/ x[2] \in {mine, own} \/ \E n \in Fw!Names : x[2] \in head[n]
          \/ /\ setup.connector = "codex"
             /\ \E n \in Fw!Names : \E w \in admitted[n] :
                  w.by = "client" /\ x[2] = Fw!Value("context", w.tag)
      BY <1>7 DEF Fw!PluginPlans, mine, own
    <3> QED BY <2>1, <2>3, <2>4, <2>5, <3>1
  <2>7. ASSUME NEW n \in Fw!Names, NEW v \in g[n]
        PROVE  Fw!Clean(v) /\ Fw!Local(v) /\ Fw!Returned(n, v)
    <3>1. CASE \E x \in p.set : x[1] = n
      <4>1. PICK x \in p.set : x[1] = n /\ v = x[2] BY <2>7, <3>1 DEF Fw!ApplyPluginPlan, g
      <4>2. ~Fw!ConnectorForbidden(n) BY <1>7, <4>1 DEF Fw!PluginPlanAccepted, Fw!PluginSetNames
      <4> QED BY <2>6, <4>1, <4>2 DEF Fits, Fw!Returned
    <3>2. CASE v = own BY <1>5, <3>2
    <3>3. CASE v \in head[n] BY <1>1, <3>3
    <3>4. (\E x \in p.set : x[1] = n) \/ v = own \/ v \in head[n]
      BY <2>7 DEF Fw!ApplyPluginPlan, Fw!Without, g, own
    <3> QED BY <3>1, <3>2, <3>3, <3>4
  <2> QED BY <2>2, <2>7 DEF g
<1>8. ASSUME phase' = "send" PROVE Fit(head') /\ Fw!Authenticated(head', setup, chosen)
  <2>1. CASE setup.connector = "openai"
    <3>1. head' = Fw!InjectAuth(head, setup.auth, chosen) BY <2>1 DEF Fw!InjectHeaders
    <3> HIDE DEF Fit
    <3> QED BY <1>1, <1>6, <2>1, <3>1
  <2>2. CASE setup.connector # "openai"
    <3>1. PICK p \in Fw!PluginPlans(head, admitted, setup, chosen) :
            LET updated == Fw!ApplyPluginPlan(head, p, chosen)
            IN /\ Fw!PluginPlanAccepted(p)
               /\ setup.connector = "codex" => Fw!CredentialHeadersMatch(updated, chosen)
               /\ head' = IF setup.connector = "codex" THEN updated
                             ELSE Fw!ExternalHeaders(head, p, setup, chosen)
      BY <1>8, <2>2 DEF Fw!InjectHeaders
    <3> DEFINE updated == Fw!ApplyPluginPlan(head, p, chosen)
    <3>2. Fit(updated) BY <1>7, <3>1
    <3> HIDE DEF updated
    <3>3. CASE setup.connector = "codex"
      BY <3>1, <3>2, <3>3 DEF Fw!CredentialHeadersMatch, Fw!Authenticated, updated
    <3>4. CASE setup.connector # "codex"
      <4> DEFINE h == Fw!Without(updated, {"authorization"})
      <4>1. Fit(h) /\ h["authorization"] = {} BY <1>4, <3>2 DEF Fw!Without, Fw!IsMap
      <4>2. head' = Fw!InjectAuth(h, setup.auth, chosen)
        BY <3>1, <3>4 DEF Fw!ExternalHeaders, updated
      <4> HIDE DEF h, Fit
      <4> QED BY <1>6, <3>4, <4>1, <4>2
    <3> QED BY <3>3, <3>4
  <2> QED BY <2>1, <2>2
<1>9. ASSUME phase' = "send" PROVE Fw!HeadersFit' /\ Fw!Authenticated(head, setup, chosen)'
  BY <1>1, <1>8, <1>9 DEF Fw!HeadersFit, Fw!Clean, Fw!Local, Fw!Returned, Fw!Admits
<1> QED BY <1>1, <1>2, <1>9 DEF Fw!ForwardInv

\* The host's own headers do not touch the credential, Content-Type apart.
LEMMA SendKeeps == ASSUME Fw!ForwardingAssumption, Fw!ForwardInv, Fw!Send PROVE Fw!ForwardInv'
<1> DEFINE host == Fw!Value("host", "host")
           h == onWire'.headers
<1>1. /\ phase = "send" /\ phase' = "sent" /\ Fw!HeadersFit /\ Fw!Authenticated(head, setup, chosen)
      /\ UNCHANGED <<interface, declares, admitted, sentBody, rewritten, fastFilter, visited, chosen, setup, draft, head, altered>>
      /\ setup \in Fw!AcceptedConfigs /\ Fw!BodyFits /\ Fw!KeptFits /\ Fw!OriginalFits
  BY DEF Fw!Send, Fw!ForwardInv, Fw!ingress, Fw!attempt
<1>2. Fw!KeptFits' /\ Fw!OriginalFits' BY <1>1 DEF Fw!OriginalFits, Fw!KeptFits, Fw!Admits
<1>3. /\ onWire'.channel = chosen /\ onWire'.cfg = setup /\ onWire'.body = draft /\ onWire'.changed = altered
  BY DEF Fw!Send
<1>4. \A n \in Fw!Names : \/ h[n] = (IF n # "cookie" /\ Fw!ConnectorForbidden(n) THEN {} ELSE head[n])
                          \/ n \in {"content-encoding", "accept-encoding"} /\ h[n] \in {{}, {host}}
                          \/ /\ n = "content-type" /\ setup.zstd /\ interface = "responses"
                             /\ h[n] = {host}
  <2> DEFINE clean == Fw!Sanitize(head)
  <2>1. clean = [n \in Fw!Names |-> IF n # "cookie" /\ Fw!ConnectorForbidden(n) THEN {} ELSE head[n]]
    BY DEF Fw!Sanitize, Fw!Without
  <2> HIDE DEF clean
  <2>2. \/ h = clean \/ h = Fw!Insert(Fw!Without(clean, {"content-encoding"}), "accept-encoding", host)
        \/ h = Fw!Insert(Fw!Insert(clean, "content-encoding", host), "accept-encoding", host)
        \/ /\ setup.zstd /\ interface = "responses"
           /\ h = Fw!Insert(Fw!Insert(Fw!Insert(clean, "content-encoding", host), "content-type", host),
                         "accept-encoding", host)
    BY DEF Fw!Send, Fw!Encoded, clean
  <2> QED BY <2>1, <2>2 DEF Fw!Insert, Fw!Without
<1>5. \A n \in Fw!Names : \A v \in h[n] : v = host \/ (Fw!Clean(v) /\ Fw!Local(v))
  BY <1>1, <1>4 DEF Fw!HeadersFit
<1>6. /\ "authorization" \in Fw!Names /\ "account" \in Fw!Names /\ "forwarded" \in Fw!Names
      /\ ~Fw!ConnectorForbidden("authorization") /\ ~Fw!ConnectorForbidden("account")
      /\ Fw!ConnectorForbidden("forwarded")
  BY DEF Fw!Names, Fw!Allowed, Fw!ConnectorForbidden, Fw!RequestProtected, Fw!HopByHop,
    Fw!HopByHopNames, Fw!ExplicitlyIgnored
<1>7. h["authorization"] = head["authorization"] /\ h["account"] = head["account"] /\ h["forwarded"] = {}
  BY <1>4, <1>6
<1>8. setup.auth.kind = "header" /\ setup.connector # "codex" /\ ~Fw!HeaderTaken(setup)
        => h[setup.auth.name] = head[setup.auth.name]
  <2> SUFFICES ASSUME setup.auth.kind = "header", setup.connector # "codex", ~Fw!HeaderTaken(setup)
               PROVE  h[setup.auth.name] = head[setup.auth.name]
    OBVIOUS
  <2> DEFINE n == setup.auth.name
  <2>1. /\ n \in Fw!Names /\ (n = "cookie" \/ ~Fw!RequestProtected(n))
        /\ n # "sec-websocket" /\ n \notin Fw!ExplicitlyIgnored
    BY <1>1 DEF Fw!ForwardingAssumption, Fw!AcceptedConfigs, Fw!ConfigAccepted, Fw!AuthCompiles
  <2>2. ~(n = "content-type" /\ setup.zstd /\ interface = "responses") BY DEF Fw!HeaderTaken
  <2> HIDE DEF n
  <2>3. n \notin {"content-encoding", "accept-encoding"} /\ (n = "cookie" \/ ~Fw!ConnectorForbidden(n))
    BY <2>1 DEF Fw!RequestProtected, Fw!ConnectorForbidden
  <2> QED BY <1>4, <2>1, <2>2, <2>3 DEF n
<1>9. ASSUME Fw!HeaderTaken(setup) PROVE Fw!CredentialIsTheChannels'
  <2>1. "content-type" \in Fw!Names BY DEF Fw!Names, Fw!Allowed
  <2>2. h = Fw!Insert(Fw!Insert(Fw!Insert(Fw!Sanitize(head), "content-encoding", host),
                               "content-type", host), "accept-encoding", host)
    BY <1>9 DEF Fw!HeaderTaken, Fw!Send, Fw!Encoded
  <2>3. h["content-type"] = {host} BY <2>1, <2>2 DEF Fw!Insert, Fw!Sanitize, Fw!Without
  <2>4. h["authorization"] = {} BY <1>1, <1>7, <1>9 DEF Fw!Authenticated, Fw!HeaderTaken
  <2> QED BY <1>1, <1>3, <1>9, <2>3, <2>4 DEF Fw!CredentialIsTheChannels, Fw!HeaderTaken
<1>10. ASSUME ~Fw!HeaderTaken(setup) PROVE Fw!CredentialIsTheChannels'
  <2>1. Fw!Authenticated(h, setup, chosen) BY <1>1, <1>7, <1>8, <1>10 DEF Fw!Authenticated
  <2> QED BY <1>1, <1>3, <1>10, <2>1 DEF Fw!CredentialIsTheChannels, Fw!HeaderTaken
<1> HIDE DEF h
<1>11. \A n \in Fw!Names : \A v \in h[n] : v.by = "client" => Fw!Clean(v) BY <1>5 DEF Fw!Value
<1>12. \A n \in Fw!Names : \A v \in h[n] : Fw!Local(v) BY <1>5 DEF Fw!Local, Fw!Value
<1>13. Fw!DeclaredStaysHome' /\ Fw!ForwardingMetadataStaysHome' /\ Fw!ClientCredentialStaysHome' /\ Fw!DigestsDescribeTheBody'
  <2>1. Fw!WireValues' = UNION {h[n] : n \in Fw!Names} BY DEF Fw!WireValues, h
  <2>2. \A v \in Fw!WireValues' : v.by = "client" => Fw!Clean(v) BY <1>11, <2>1
  <2>3. \A v \in Fw!WireValues' : v.by = "client" =>
          /\ v.tag \notin declares.names \cup Fw!ExplicitlyIgnored \cup {"authorization", "cookie"}
          /\ altered => v.tag # "digest"
    BY <2>2 DEF Fw!Clean
  <2>4. \A n \in Fw!ExplicitlyIgnored : onWire'.headers[n] = {}
    BY <1>7 DEF Fw!ExplicitlyIgnored, h
  <2> QED BY <1>1, <1>3, <2>3, <2>4 DEF Fw!DeclaredStaysHome, Fw!ForwardingMetadataStaysHome,
      Fw!ClientCredentialStaysHome, Fw!DigestsDescribeTheBody
<1>14. Fw!AttemptsAreIndependent'
  <2>1. \A v \in Fw!WireValues' : Fw!Local(v) BY <1>12 DEF Fw!WireValues, h
  <2>2. \A f \in Fw!Fields : Fw!Local(onWire'.body[f]) BY <1>1, <1>3 DEF Fw!BodyFits
  <2> QED BY <1>3, <2>1, <2>2 DEF Fw!AttemptsAreIndependent, Fw!Local
<1>15. Fw!SelectionKept' BY <1>1, <1>3 DEF Fw!SelectionKept, Fw!BodyFits
<1>16. Fw!PlanHasOneMeaning' BY <1>1 DEF Fw!PlanHasOneMeaning
<1>17. Fw!ContextThroughCodexOnly'
  <2>1. \A n \in Fw!Names : \A v \in h[n] : v = host \/ v \in head[n] BY <1>4
  <2>2. host.by # "context" BY DEF Fw!Value
  <2> HIDE DEF host
  <2>3. \A n \in Fw!Names : \A v \in h[n] : Fw!Returned(n, v)
    BY <1>1, <2>1, <2>2 DEF Fw!HeadersFit, Fw!Returned
  <2> QED BY <1>1, <1>3, <2>3 DEF Fw!ContextThroughCodexOnly, Fw!Returned, Fw!Admits, h
<1> QED BY <1>1, <1>2, <1>9, <1>10, <1>13, <1>14, <1>15, <1>16, <1>17 DEF Fw!ForwardInv,
    Fw!RequestSound

\* Every step keeps the invariant.
LEMMA ForwardNext == ASSUME Fw!ForwardingAssumption, Fw!ForwardInv, [Fw!Next]_(Fw!vars) PROVE Fw!ForwardInv'
<1>1. CASE UNCHANGED Fw!vars
  <2>1. UNCHANGED <<interface, declares, admitted, sentBody, rewritten, fastFilter, visited, chosen, setup, draft, head, altered, onWire, phase>>
    BY <1>1 DEF Fw!vars
  <2>2. (Fw!RequestSound => Fw!RequestSound')
    BY <2>1 DEF Fw!RequestSound, Fw!DeclaredStaysHome, Fw!ForwardingMetadataStaysHome,
      Fw!ClientCredentialStaysHome, Fw!HeaderTaken, Fw!CredentialIsTheChannels,
      Fw!DigestsDescribeTheBody, Fw!AttemptsAreIndependent, Fw!SelectionKept,
      Fw!PlanHasOneMeaning, Fw!WireValues, Fw!Sent, Fw!ContextThroughCodexOnly, Fw!Admits
  <2> QED BY <2>1, <2>2 DEF Fw!ForwardInv, Fw!OriginalFits, Fw!KeptFits, Fw!BodyFits,
      Fw!HeadersFit, Fw!Clean, Fw!Local, Fw!Returned, Fw!Admits
<1>2. CASE Fw!Retry BY <1>2 DEF Fw!Retry, Fw!ForwardInv, Fw!OriginalFits, Fw!KeptFits, Fw!ingress,
    Fw!Admits
<1> QED BY <1>1, <1>2, ReceiveKeeps, InternalKeeps, AttemptKeeps, PrepareKeeps, PlanHeadersKeeps,
    InjectKeeps, SendKeeps DEF Fw!Next

\* What a request holds at each stage between ingress and upstream.
THEOREM ForwardInvariant == Fw!ForwardingAssumption /\ Fw!Spec => []Fw!ForwardInv
<1> SUFFICES ASSUME Fw!ForwardingAssumption PROVE Fw!Spec => []Fw!ForwardInv OBVIOUS
<1>1. Fw!ForwardInv /\ [Fw!Next]_(Fw!vars) => Fw!ForwardInv' BY ForwardNext
<1> QED BY <1>1, InitFits, PTL DEF Fw!Spec

\* For any channels, configurations, plans, plugins, client headers and bodies: what a
\* client declares hop-by-hop, its gateway key, its cookies and forwarding metadata are
\* not forwarded, renamed or copied from the headers a plugin is shown; what the ingress
\* kept comes back only from the context of a Codex plugin, under a permitted name; the upstream sees the credential of
\* the channel it belongs to and nothing of an earlier attempt; no digest describes a body
\* that was changed; the selected model and the Fast filter survive the plugin; and a
\* plan that compiles means the same in every order (proxy.rs forward_headers,
\* transforms/mod.rs apply_header_plan_in_scope, connector.rs inject_headers).
THEOREM RequestsAlwaysSound == Fw!ForwardingAssumption /\ Fw!Spec => []Fw!RequestSound
<1> SUFFICES ASSUME Fw!ForwardingAssumption PROVE Fw!Spec => []Fw!RequestSound OBVIOUS
<1>1. Fw!ForwardInv => Fw!RequestSound
  <2> SUFFICES ASSUME Fw!ForwardInv PROVE Fw!RequestSound OBVIOUS
  <2>1. CASE phase = "sent" BY <2>1 DEF Fw!ForwardInv
  <2>2. Fw!PlanHasOneMeaning
    <3> SUFFICES ASSUME phase = "plan" PROVE Fw!PlanHasOneMeaning BY DEF Fw!PlanHasOneMeaning
    <3>1. Fw!IsMap(head) /\ setup.headers \in Seq(Fw!HeaderOps) /\ Fw!Compiles(setup.headers)
      BY DEF Fw!ForwardInv, Fw!KeptFits, Fw!ForwardingAssumption, Fw!AcceptedConfigs,
        Fw!ConfigAccepted
    <3> QED BY <3>1, PlanOrder DEF Fw!PlanHasOneMeaning
  <2>3. CASE phase # "sent"
    BY <2>2, <2>3 DEF Fw!RequestSound, Fw!DeclaredStaysHome, Fw!ForwardingMetadataStaysHome,
      Fw!SelectionKept, Fw!Sent, Fw!ClientCredentialStaysHome, Fw!CredentialIsTheChannels,
      Fw!DigestsDescribeTheBody, Fw!AttemptsAreIndependent, Fw!ContextThroughCodexOnly
  <2> QED BY <2>1, <2>3
<1> QED BY <1>1, ForwardInvariant, PTL
=============================================================================
