------------------------------- MODULE MCLive -------------------------------
\* What must eventually happen, on small instances of every component that
\* waits for something: a behaviour exercises one of them.
EXTENDS Integers, FiniteSets, Sequences, TLC

CONSTANTS
  None, i1, i2, g1, g2, u1, u2, k1, k2, t1, t2, q1, q2, c1, c2, c3,
  release, older, branch, public

VARIABLES
  part,  \* the component that this behaviour exercises
  \* RequestLogSpool
  spoolLog, torn, durable, spoolIntent, slot, ckpt, ckptMaybe, inbox, spoolPhase, ids,
  retained, failed, wEnd, spoolEnd, ckptMem, synced, pressure, spoolPc, cur, owed,
  wake, ing, reader, batchEnd, life, saved, unknown, replays, crashes, spoolFaults,
  \* RequestLogLedger
  nextSeq, ev, rows, metered, mTried, mLater, pTried, pLater, ledgerFact, attr,
  ledgerPending, ledgerReceipts, ledgerLogs, ledgerBalance, ledgerUsed, version,
  ledgerSeen, granted, mWork, mSolo, mDefer, pWork, pSolo, pDefer, ack, scan, charged,
  ledgerFails,
  \* QueuedRequestLog
  unsent, queue, accepted, queuedPhase, queuedTask, hints, settler, queuedFact,
  queuedLogs, queuedPending, queuedReceipts, queuedUsed, queuedBalance, published,
  troubled, queuedFails,
  \* SchemaMigrations
  applied, sound, migrationLock, migrationPc, batch, starts,
  \* SpendLeaderboard
  clock, facts, boardLock, work, periods, entries, counted, aborts, report,
  \* ChannelSelection
  health, cursor, selectionPc, input, tier, pos, allow, selectionSeen, ticket, total,
  picked, hit, wasDown, flaps, selects,
  \* CodexCredential
  codexDb, codexIntent, codexLock, qlock, codexTask, mem, good, codexIssued, now,
  replayed, credits, left,
  \* ProxyRequest
  proxyPc, admission, proxyLease, ctx, proxyAttempted, proxyAttempt, dispatched,
  answer, proxyStream, proxyClient, events, journal, reports, proxyUp, binding, env,
  \* GatewayShutdown
  shutdownPhase, active, conn, woken, server, main, drained,
  \* ControlPlanePublish
  publishDb, op, registry, routing, publishSnap, publishFaults,
  \* ConnectorPlugins
  admin, pluginsArt, pluginsSt, cfg, job, disk, staged, loaded, pluginsAttempted,
  pluginsSnap, pluginsUp, req, pluginsForm, grant, pluginsIssued, started,
  pluginsFaults,
  \* ImageEditBody
  imageBodyPhase, imageBodyClient, edit, imageBodyAttempt, model, fields, obj, using,
  received, imageBodyStream, active_files, active_bytes, storage_failures_total,
  imageBodyFaults

Unbounded == -1
OneOwner == [k \in {"k1"} |-> "alice"]
Row(r, u, d) ==
  [id |-> r, user |-> u, key |-> "k1", cost |-> 1, cred |-> "c1", view |-> 1,
   decodes |-> d]
MixedEvents == {Row("r1", "alice", TRUE), Row("r2", "alice", FALSE), Row("r3", "bob", TRUE)}

KeyOwner == (k1 :> u1) @@ (k2 :> u2)
Paid(n, u, k, c) ==
  [id |-> n, user |-> u, key |-> k, cost |-> c, fits |-> "both", valid |-> TRUE]
QueueEvents == {Paid(1, u1, k1, 1), Paid(2, u2, k2, 2)}

Manifests == [p \in {release, older, branch} |->
  CASE p = release -> [v \in 1..5 |-> "a"]
    [] p = older -> [v \in 1..3 |-> "a"]
    [] p = branch -> [v \in 1..3 |-> IF v = 3 THEN "b" ELSE "a"]]

TwoTiers == <<[strategy |-> "WeightedRandom", cands |-> <<c1, c2>>],
              [strategy |-> "WeightedRoundRobin", cands |-> <<c3>>]>>
Weights == c1 :> 1 @@ c2 :> 2 @@ c3 :> 3
Own == c1 :> "x" @@ c2 :> "y" @@ c3 :> "z"
Ask(a, p, q) == [allowed |-> a, preferred |-> p, pin |-> q, retired |-> FALSE]
MixedInputs ==
  {Ask({c1, c2, c3}, c2, None), Ask({c1, c2, c3}, None, c3)}

CodexBudget ==
  [refresh |-> 1, quota |-> 0, reset |-> 0, edit |-> 1, import |-> 1, crash |-> 1]
Kinds == c1 :> "open" @@ c3 :> "codex"

Part(n, s, v, f) == [name |-> n, size |-> s, val |-> v, file |-> f]
SomeBodies ==
  {<<Part("model", 1, "alias", FALSE), Part("image", 2, "", TRUE)>>,
   <<Part("image", 2, "", TRUE), Part("model", 1, "alias", FALSE), Part("mask", 1, "", TRUE)>>}
Dispositions == [n \in {"model", "image", "image[]", "mask", "moderation", "extra"} |->
  CASE n = "moderation" -> "ignore" [] n = "extra" -> "reject" [] OTHER -> "allow"]

\* A gateway that may crash once.
Spool == INSTANCE RequestLogSpool WITH
  Ids <- {i1, i2}, MaxUnits <- 4, Threshold <- 1, BatchSize <- 1, QueueCap <- 1,
  PowerLoss <- FALSE, MaxCrashes <- 1, MaxFaults <- 0, log <- spoolLog,
  intent <- spoolIntent, phase <- spoolPhase, end <- spoolEnd, pc <- spoolPc,
  faults <- spoolFaults

\* A good row, one that does not decode, one of a foreign key; crashes for ever.
Ledger == INSTANCE RequestLogLedger WITH
  Ids <- {"r1", "r2", "r3"}, Users <- {"alice", "bob"}, Keys <- {"k1"},
  OwnerOf <- OneOwner, Events <- MixedEvents, Legacy <- {}, Gateways <- {g1},
  Metering <- {g1}, Projecting <- {}, Settling <- {g1}, BatchSize <- 1,
  NoEvent <- None, SlowRetries <- TRUE, MaxRows <- 3, MaxGrants <- 0,
  MaxFails <- Unbounded, fact <- ledgerFact, pending <- ledgerPending,
  receipts <- ledgerReceipts, logs <- ledgerLogs, balance <- ledgerBalance,
  used <- ledgerUsed, seen <- ledgerSeen, fails <- ledgerFails

\* Two paid requests and one failing operation.
Queued == INSTANCE QueuedRequestLog WITH
  Users <- {u1, u2}, Keys <- {k1, k2}, OwnerOf <- KeyOwner, Events <- QueueEvents,
  Tasks <- {t1}, Capacity <- 2, BatchSize <- 2, HintCapacity <- 1, RecoverySize <- 1,
  AmountMax <- 9, NoRow <- None, MaxFails <- 1, phase <- queuedPhase,
  task <- queuedTask, fact <- queuedFact, logs <- queuedLogs, pending <- queuedPending,
  receipts <- queuedReceipts, used <- queuedUsed, balance <- queuedBalance,
  fails <- queuedFails

\* A release, an older one and a branch on one database.
Migration == INSTANCE SchemaMigrations WITH
  Processes <- {release, older, branch}, Manifest <- Manifests, Barriers <- {2},
  EnumUsers <- {3, 4}, Hooked <- {4, 5}, MaxStarts <- 2, lock <- migrationLock,
  pc <- migrationPc

\* Two gateways refresh the leaderboard.
Board == INSTANCE SpendLeaderboard WITH
  Backend <- "postgres", Gateways <- {g1, g2}, Users <- {1}, Costs <- {1},
  DayTicks <- 2, Offset <- 1, WeekDays <- 2, MonthStarts <- {0, 3, 6}, Limit <- 2,
  AskedStarts <- {}, MaxTime <- 1, MaxFacts <- 1, MaxAborts <- 1, lock <- boardLock

\* Two selections while a channel goes up and down.
Selection == INSTANCE ChannelSelection WITH
  Requests <- {q1, q2}, Candidates <- {c1, c2, c3}, None <- None, Tiers <- TwoTiers,
  Weight <- Weights, ChannelOf <- Own, Inputs <- MixedInputs, MaxFlaps <- 1,
  MaxSelects <- 2, pc <- selectionPc, seen <- selectionSeen

\* A refresh, an edit, an import and a crash.
Codex == INSTANCE CodexCredential WITH
  Backend <- "postgres", Tasks <- {t1, t2}, None <- None, MaxToken <- 2, MaxTime <- 0,
  Budget <- CodexBudget, db <- codexDb, intent <- codexIntent, lock <- codexLock,
  task <- codexTask, issued <- codexIssued

\* A request that may be retried once.
Proxy == INSTANCE ProxyRequest WITH
  Candidates <- {c1, c3}, Kind <- Kinds, None <- None, MaxRetries <- 1,
  Retryable <- TRUE, MaxFrames <- 1, MaxEnv <- 1, pc <- proxyPc, lease <- proxyLease,
  attempted <- proxyAttempted, attempt <- proxyAttempt, stream <- proxyStream,
  client <- proxyClient, up <- proxyUp

\* Two connections of a gateway that is told to stop.
Shutdown == INSTANCE GatewayShutdown WITH
  Conns <- {q1, q2}, Listeners <- {public}, Public <- public, phase <- shutdownPhase

\* Two gateways and an administrator.
Publish == INSTANCE ControlPlanePublish WITH
  Gateways <- {g1, g2}, Actors <- {"admin"}, Rows <- {"row"}, MaxWrites <- 1,
  MaxFaults <- 1, db <- publishDb, snap <- publishSnap, faults <- publishFaults

\* One installation and one fault.
Plugins == INSTANCE ConnectorPlugins WITH
  Procs <- {g1}, Digests <- {"d1"}, Sound <- {"d1"}, Jobs <- {"j1"},
  Schema <- [d \in {"d1"} |-> 1], None <- None, MaxRetained <- 1, MaxRev <- 2,
  MaxGrants <- 2, Faults <- 1, art <- pluginsArt, st <- pluginsSt,
  attempted <- pluginsAttempted, snap <- pluginsSnap, up <- pluginsUp,
  form <- pluginsForm, issued <- pluginsIssued, faults <- pluginsFaults

\* Image edits that are sent up to twice.
ImageBody == INSTANCE ImageEditBody WITH
  Bodies <- SomeBodies, Disposition <- Dispositions,
  UpstreamModels <- {"alias", "real"}, memory_bytes <- 3, max_body_bytes <- 5,
  max_file_bytes <- 2, MAX_IMAGE_EDIT_IMAGES <- 2, Overhead <- 4, MaxAttempts <- 2,
  Faults <- 0, phase <- imageBodyPhase, client <- imageBodyClient,
  attempt <- imageBodyAttempt, stream <- imageBodyStream, faults <- imageBodyFaults

--------------------
\* The variables of a component that is not exercised.
Off == <<>>

spoolVars == <<spoolLog, torn, durable, spoolIntent, slot, ckpt, ckptMaybe, inbox, spoolPhase, ids,
               retained, failed, wEnd, spoolEnd, ckptMem, synced, pressure, spoolPc, cur, owed,
               wake, ing, reader, batchEnd, life, saved, unknown, replays, crashes, spoolFaults>>
SpoolOff ==
  /\ spoolLog = Off /\ torn = Off /\ durable = Off /\ spoolIntent = Off
  /\ slot = Off /\ ckpt = Off /\ ckptMaybe = Off /\ inbox = Off /\ spoolPhase = Off
  /\ ids = Off /\ retained = Off /\ failed = Off /\ wEnd = Off /\ spoolEnd = Off
  /\ ckptMem = Off /\ synced = Off /\ pressure = Off /\ spoolPc = Off /\ cur = Off
  /\ owed = Off /\ wake = Off /\ ing = Off /\ reader = Off /\ batchEnd = Off
  /\ life = Off /\ saved = Off /\ unknown = Off /\ replays = Off /\ crashes = Off
  /\ spoolFaults = Off

ledgerVars == <<nextSeq, ev, rows, metered, mTried, mLater, pTried, pLater, ledgerFact, attr,
                ledgerPending, ledgerReceipts, ledgerLogs, ledgerBalance, ledgerUsed, version,
                ledgerSeen, granted, mWork, mSolo, mDefer, pWork, pSolo, pDefer, ack, scan, charged,
                ledgerFails>>
LedgerOff ==
  /\ nextSeq = Off /\ ev = Off /\ rows = Off /\ metered = Off /\ mTried = Off
  /\ mLater = Off /\ pTried = Off /\ pLater = Off /\ ledgerFact = Off /\ attr = Off
  /\ ledgerPending = Off /\ ledgerReceipts = Off /\ ledgerLogs = Off
  /\ ledgerBalance = Off /\ ledgerUsed = Off /\ version = Off /\ ledgerSeen = Off
  /\ granted = Off /\ mWork = Off /\ mSolo = Off /\ mDefer = Off /\ pWork = Off
  /\ pSolo = Off /\ pDefer = Off /\ ack = Off /\ scan = Off /\ charged = Off
  /\ ledgerFails = Off

queuedVars == <<unsent, queue, accepted, queuedPhase, queuedTask, hints, settler, queuedFact,
                queuedLogs, queuedPending, queuedReceipts, queuedUsed, queuedBalance, published,
                troubled, queuedFails>>
QueuedOff ==
  /\ unsent = Off /\ queue = Off /\ accepted = Off /\ queuedPhase = Off
  /\ queuedTask = Off /\ hints = Off /\ settler = Off /\ queuedFact = Off
  /\ queuedLogs = Off /\ queuedPending = Off /\ queuedReceipts = Off
  /\ queuedUsed = Off /\ queuedBalance = Off /\ published = Off /\ troubled = Off
  /\ queuedFails = Off

migrationVars == <<applied, sound, migrationLock, migrationPc, batch, starts>>
MigrationOff ==
  /\ applied = Off /\ sound = Off /\ migrationLock = Off /\ migrationPc = Off
  /\ batch = Off /\ starts = Off

boardVars == <<clock, facts, boardLock, work, periods, entries, counted, aborts, report>>
BoardOff ==
  /\ clock = Off /\ facts = Off /\ boardLock = Off /\ work = Off /\ periods = Off
  /\ entries = Off /\ counted = Off /\ aborts = Off /\ report = Off

selectionVars == <<health, cursor, selectionPc, input, tier, pos, allow, selectionSeen, ticket, total,
                   picked, hit, wasDown, flaps, selects>>
SelectionOff ==
  /\ health = Off /\ cursor = Off /\ selectionPc = Off /\ input = Off /\ tier = Off
  /\ pos = Off /\ allow = Off /\ selectionSeen = Off /\ ticket = Off /\ total = Off
  /\ picked = Off /\ hit = Off /\ wasDown = Off /\ flaps = Off /\ selects = Off

codexVars == <<codexDb, codexIntent, codexLock, qlock, codexTask, mem, good, codexIssued, now,
               replayed, credits, left>>
CodexOff ==
  /\ codexDb = Off /\ codexIntent = Off /\ codexLock = Off /\ qlock = Off
  /\ codexTask = Off /\ mem = Off /\ good = Off /\ codexIssued = Off /\ now = Off
  /\ replayed = Off /\ credits = Off /\ left = Off

proxyVars == <<proxyPc, admission, proxyLease, ctx, proxyAttempted, proxyAttempt, dispatched,
               answer, proxyStream, proxyClient, events, journal, reports, proxyUp, binding, env>>
ProxyOff ==
  /\ proxyPc = Off /\ admission = Off /\ proxyLease = Off /\ ctx = Off
  /\ proxyAttempted = Off /\ proxyAttempt = Off /\ dispatched = Off /\ answer = Off
  /\ proxyStream = Off /\ proxyClient = Off /\ events = Off /\ journal = Off
  /\ reports = Off /\ proxyUp = Off /\ binding = Off /\ env = Off

shutdownVars == <<shutdownPhase, active, conn, woken, server, main, drained>>
ShutdownOff ==
  /\ shutdownPhase = Off /\ active = Off /\ conn = Off /\ woken = Off
  /\ server = Off /\ main = Off /\ drained = Off

publishVars == <<publishDb, op, registry, routing, publishSnap, publishFaults>>
PublishOff ==
  /\ publishDb = Off /\ op = Off /\ registry = Off /\ routing = Off
  /\ publishSnap = Off /\ publishFaults = Off

pluginsVars == <<admin, pluginsArt, pluginsSt, cfg, job, disk, staged, loaded, pluginsAttempted,
                 pluginsSnap, pluginsUp, req, pluginsForm, grant, pluginsIssued, started,
                 pluginsFaults>>
PluginsOff ==
  /\ admin = Off /\ pluginsArt = Off /\ pluginsSt = Off /\ cfg = Off /\ job = Off
  /\ disk = Off /\ staged = Off /\ loaded = Off /\ pluginsAttempted = Off
  /\ pluginsSnap = Off /\ pluginsUp = Off /\ req = Off /\ pluginsForm = Off
  /\ grant = Off /\ pluginsIssued = Off /\ started = Off /\ pluginsFaults = Off

imageBodyVars == <<imageBodyPhase, imageBodyClient, edit, imageBodyAttempt, model, fields, obj, using,
                   received, imageBodyStream, active_files, active_bytes, storage_failures_total,
                   imageBodyFaults>>
ImageBodyOff ==
  /\ imageBodyPhase = Off /\ imageBodyClient = Off /\ edit = Off
  /\ imageBodyAttempt = Off /\ model = Off /\ fields = Off /\ obj = Off
  /\ using = Off /\ received = Off /\ imageBodyStream = Off /\ active_files = Off
  /\ active_bytes = Off /\ storage_failures_total = Off /\ imageBodyFaults = Off

allVars == <<part, spoolVars, ledgerVars, queuedVars, migrationVars, boardVars, selectionVars, codexVars, proxyVars, shutdownVars, publishVars, pluginsVars, imageBodyVars>>

SuiteInit ==
  \/ /\ part = "spool" /\ Spool!Init /\ LedgerOff /\ QueuedOff /\ MigrationOff
     /\ BoardOff /\ SelectionOff /\ CodexOff /\ ProxyOff /\ ShutdownOff
     /\ PublishOff /\ PluginsOff /\ ImageBodyOff
  \/ /\ part = "ledger" /\ Ledger!Init /\ SpoolOff /\ QueuedOff /\ MigrationOff
     /\ BoardOff /\ SelectionOff /\ CodexOff /\ ProxyOff /\ ShutdownOff
     /\ PublishOff /\ PluginsOff /\ ImageBodyOff
  \/ /\ part = "queue" /\ Queued!Init /\ SpoolOff /\ LedgerOff /\ MigrationOff
     /\ BoardOff /\ SelectionOff /\ CodexOff /\ ProxyOff /\ ShutdownOff
     /\ PublishOff /\ PluginsOff /\ ImageBodyOff
  \/ /\ part = "schema" /\ Migration!Init /\ SpoolOff /\ LedgerOff /\ QueuedOff
     /\ BoardOff /\ SelectionOff /\ CodexOff /\ ProxyOff /\ ShutdownOff
     /\ PublishOff /\ PluginsOff /\ ImageBodyOff
  \/ /\ part = "board" /\ Board!Init /\ SpoolOff /\ LedgerOff /\ QueuedOff
     /\ MigrationOff /\ SelectionOff /\ CodexOff /\ ProxyOff /\ ShutdownOff
     /\ PublishOff /\ PluginsOff /\ ImageBodyOff
  \/ /\ part = "selection" /\ Selection!Init /\ SpoolOff /\ LedgerOff /\ QueuedOff
     /\ MigrationOff /\ BoardOff /\ CodexOff /\ ProxyOff /\ ShutdownOff
     /\ PublishOff /\ PluginsOff /\ ImageBodyOff
  \/ /\ part = "codex" /\ Codex!Init /\ SpoolOff /\ LedgerOff /\ QueuedOff
     /\ MigrationOff /\ BoardOff /\ SelectionOff /\ ProxyOff /\ ShutdownOff
     /\ PublishOff /\ PluginsOff /\ ImageBodyOff
  \/ /\ part = "proxy" /\ Proxy!Init /\ SpoolOff /\ LedgerOff /\ QueuedOff
     /\ MigrationOff /\ BoardOff /\ SelectionOff /\ CodexOff /\ ShutdownOff
     /\ PublishOff /\ PluginsOff /\ ImageBodyOff
  \/ /\ part = "shutdown" /\ Shutdown!Init /\ SpoolOff /\ LedgerOff /\ QueuedOff
     /\ MigrationOff /\ BoardOff /\ SelectionOff /\ CodexOff /\ ProxyOff
     /\ PublishOff /\ PluginsOff /\ ImageBodyOff
  \/ /\ part = "publish" /\ Publish!Init /\ SpoolOff /\ LedgerOff /\ QueuedOff
     /\ MigrationOff /\ BoardOff /\ SelectionOff /\ CodexOff /\ ProxyOff
     /\ ShutdownOff /\ PluginsOff /\ ImageBodyOff
  \/ /\ part = "plugins" /\ Plugins!Init /\ SpoolOff /\ LedgerOff /\ QueuedOff
     /\ MigrationOff /\ BoardOff /\ SelectionOff /\ CodexOff /\ ProxyOff
     /\ ShutdownOff /\ PublishOff /\ ImageBodyOff
  \/ /\ part = "image" /\ ImageBody!Init /\ SpoolOff /\ LedgerOff /\ QueuedOff
     /\ MigrationOff /\ BoardOff /\ SelectionOff /\ CodexOff /\ ProxyOff
     /\ ShutdownOff /\ PublishOff /\ PluginsOff

SuiteNext ==
  \/ /\ part = "spool" /\ Spool!Next
     /\ UNCHANGED <<part, ledgerVars, queuedVars, migrationVars, boardVars, selectionVars, codexVars, proxyVars, shutdownVars, publishVars, pluginsVars, imageBodyVars>>
  \/ /\ part = "ledger" /\ Ledger!Next
     /\ UNCHANGED <<part, spoolVars, queuedVars, migrationVars, boardVars, selectionVars, codexVars, proxyVars, shutdownVars, publishVars, pluginsVars, imageBodyVars>>
  \/ /\ part = "queue" /\ Queued!Next
     /\ UNCHANGED <<part, spoolVars, ledgerVars, migrationVars, boardVars, selectionVars, codexVars, proxyVars, shutdownVars, publishVars, pluginsVars, imageBodyVars>>
  \/ /\ part = "schema" /\ Migration!Next
     /\ UNCHANGED <<part, spoolVars, ledgerVars, queuedVars, boardVars, selectionVars, codexVars, proxyVars, shutdownVars, publishVars, pluginsVars, imageBodyVars>>
  \/ /\ part = "board" /\ Board!Next
     /\ UNCHANGED <<part, spoolVars, ledgerVars, queuedVars, migrationVars, selectionVars, codexVars, proxyVars, shutdownVars, publishVars, pluginsVars, imageBodyVars>>
  \/ /\ part = "selection" /\ Selection!Next
     /\ UNCHANGED <<part, spoolVars, ledgerVars, queuedVars, migrationVars, boardVars, codexVars, proxyVars, shutdownVars, publishVars, pluginsVars, imageBodyVars>>
  \/ /\ part = "codex" /\ Codex!Next
     /\ UNCHANGED <<part, spoolVars, ledgerVars, queuedVars, migrationVars, boardVars, selectionVars, proxyVars, shutdownVars, publishVars, pluginsVars, imageBodyVars>>
  \/ /\ part = "proxy" /\ Proxy!Next
     /\ UNCHANGED <<part, spoolVars, ledgerVars, queuedVars, migrationVars, boardVars, selectionVars, codexVars, shutdownVars, publishVars, pluginsVars, imageBodyVars>>
  \/ /\ part = "shutdown" /\ Shutdown!Next
     /\ UNCHANGED <<part, spoolVars, ledgerVars, queuedVars, migrationVars, boardVars, selectionVars, codexVars, proxyVars, publishVars, pluginsVars, imageBodyVars>>
  \/ /\ part = "publish" /\ Publish!Next
     /\ UNCHANGED <<part, spoolVars, ledgerVars, queuedVars, migrationVars, boardVars, selectionVars, codexVars, proxyVars, shutdownVars, pluginsVars, imageBodyVars>>
  \/ /\ part = "plugins" /\ Plugins!Next
     /\ UNCHANGED <<part, spoolVars, ledgerVars, queuedVars, migrationVars, boardVars, selectionVars, codexVars, proxyVars, shutdownVars, publishVars, imageBodyVars>>
  \/ /\ part = "image" /\ ImageBody!Next
     /\ UNCHANGED <<part, spoolVars, ledgerVars, queuedVars, migrationVars, boardVars, selectionVars, codexVars, proxyVars, shutdownVars, publishVars, pluginsVars>>

SuiteSpec == SuiteInit /\ [][SuiteNext]_allVars

--------------------
\* Fairness.  Every task of the program that can run does: threads that hold
\* a mutex go on, the runtime polls every task, timers fire, every wait of a
\* request whose body was read has a timeout, and a process that died is started
\* again.  Strong fairness is asked of what is tried again and again.

SpoolRuns ==
  /\ WF_spoolVars(part = "spool" /\ Spool!Open)
  /\ WF_spoolVars(part = "spool" /\ Spool!RecoveryDone)
  /\ WF_spoolVars(part = "spool" /\ Spool!RecoveryFailed)
  /\ WF_spoolVars(part = "spool" /\ Spool!WriterStep)
  /\ WF_spoolVars(part = "spool" /\ (Spool!IngestRead
       \/ Spool!Checkpoint
       \/ Spool!IngestDrained
       \/ Spool!Wake))
  /\ \A i \in {i1, i2} : WF_spoolVars(part = "spool" /\ Spool!Notify(i))
  /\ \A i \in {i1, i2} :
       WF_spoolVars(part = "spool" /\ spoolPhase = "recovering" /\ Spool!AppendReserved(i))
  /\ SF_spoolVars(part = "spool" /\ Spool!CompactBegin)
  /\ SF_spoolVars(part = "spool" /\ Spool!CompactSkip)
  /\ SF_spoolVars(part = "spool" /\ Spool!Accept)

LedgerRuns ==
  /\ SF_ledgerVars(part = "ledger" /\ (\E s \in rows : ev[s].id = "r1" /\ Ledger!MeterDue(s)))
  /\ SF_ledgerVars(part = "ledger" /\ Ledger!MeterLoad(g1))
  /\ SF_ledgerVars(part = "ledger" /\ Ledger!Materialize(g1))
  /\ SF_ledgerVars(part = "ledger" /\ Ledger!MeterDefer(g1))
  /\ SF_ledgerVars(part = "ledger" /\ Ledger!SettleScan(g1))
  /\ SF_ledgerVars(part = "ledger" /\ Ledger!SettleBatch(g1))

QueuedRuns ==
  /\ WF_queuedVars(part = "queue" /\ Queued!InsertEnds)
  /\ WF_queuedVars(part = "queue" /\ Queued!TakeHint)
  /\ WF_queuedVars(part = "queue" /\ (Queued!Settle \/ Queued!SettleRefused))
  /\ WF_queuedVars(part = "queue" /\ Queued!SettlerDrains)
  /\ WF_queuedVars(part = "queue" /\ Queued!ReconcileScan)
  /\ WF_queuedVars(part = "queue" /\ (Queued!Receive(t1)
       \/ Queued!Record(t1)
       \/ Queued!RecordRefused(t1)
       \/ Queued!Project(t1)
       \/ Queued!ProjectRefused(t1)
       \/ Queued!TaskAborted(t1)))
  /\ SF_queuedVars(part = "queue" /\ Queued!Tick)

MigrationRuns ==
  /\ \A i \in {release, older, branch} :
       WF_migrationVars(part = "schema" /\ (Migration!Begin(i)
       \/ Migration!Rollback(i)
       \/ Migration!Commit(i)
       \/ Migration!Unlock(i)))
  /\ \A i \in {release, older, branch} :
       SF_migrationVars(part = "schema" /\ Migration!Lock(i))

BoardRuns ==
  /\ \A i \in {g1, g2} : WF_boardVars(part = "board" /\ Board!Refresh(i))

SelectionRuns ==
  /\ \A i \in {q1, q2} : WF_selectionVars(part = "selection" /\ Selection!Selecting(i))

CodexRuns ==
  /\ \A i \in {t1, t2} : WF_codexVars(part = "codex" /\ Codex!Call(i))
  /\ \A i \in {t1, t2} : WF_codexVars(part = "codex" /\ Codex!Maintain(i))

ProxyRuns ==
  /\ WF_proxyVars(part = "proxy" /\ Proxy!Handled)

\* hyper polls a response body as the client takes it: its timers run only then.
ClientTakes ==
  /\ WF_proxyVars(part = "proxy" /\ Proxy!Delivered)

ShutdownRuns ==
  /\ \A i \in {q1, q2} : WF_shutdownVars(part = "shutdown" /\ Shutdown!Session(i))
  /\ WF_shutdownVars(part = "shutdown" /\ Shutdown!Server(public))
  /\ WF_shutdownVars(part = "shutdown" /\ Shutdown!Main)

DeadlineRuns ==
  /\ WF_shutdownVars(part = "shutdown" /\ (Shutdown!Deadline \/ Shutdown!ForcedTimeout))

PublishRuns ==
  /\ \A i \in {g1, g2} : WF_publishVars(part = "publish" /\ Publish!Progress(i))
  /\ \A i \in {g1, g2} : SF_publishVars(part = "publish" /\ Publish!Tick(i))

PluginsRuns ==
  /\ WF_pluginsVars(part = "plugins" /\ Plugins!Claim("j1"))
  /\ WF_pluginsVars(part = "plugins" /\ (\E b \in BOOLEAN : Plugins!Unpack("j1", b)))
  /\ WF_pluginsVars(part = "plugins" /\ Plugins!FinishJob("j1"))
  /\ WF_pluginsVars(part = "plugins" /\ Plugins!FailJob("j1", FALSE))
  /\ WF_pluginsVars(part = "plugins" /\ Plugins!CommitSave(g1))
  /\ WF_pluginsVars(part = "plugins" /\ Plugins!CommitDelete(g1))
  /\ SF_pluginsVars(part = "plugins" /\ Plugins!Register("j1"))

ImageBodyRuns ==
  /\ WF_imageBodyVars(part = "image" /\ ImageBody!Open)
  /\ \A i \in 1..2 : WF_imageBodyVars(part = "image" /\ ImageBody!Pull(i))
  /\ \A i \in 1..2 : WF_imageBodyVars(part = "image" /\ ImageBody!Close(i))

\* Every event of an admitted request, once in its slot, and every event whose
\* append succeeded, reaches the database, although the gateway may crash, if
\* accept_batch, which is retried for ever, is answered at some time.
EventuallyIngested ==
  SpoolRuns =>
    (part = "spool" /\ i1 \in saved \cup owed) ~> (part = "spool" /\ i1 \in inbox)

\* Work that waits for a transaction, a hint, a lock or a ticker is done: money
\* owed by an account that can pay is collected although gateways crash for ever
\* and rows that cannot be decoded or belong to a foreign key stand before it; a
\* queued request is settled unless its worker stops; a starting process gets to
\* migrate or is refused; every fact reaches the leaderboard.
WorkIsDone ==
  /\ LedgerRuns =>
       (part = "ledger" /\ \E s \in rows : ev[s].id = "r1")
         ~> (part = "ledger" /\ "r1" \in Ledger!Settled)
  /\ QueuedRuns /\ MigrationRuns /\ BoardRuns =>
       (CASE part = "queue" -> 1 \in queuedPending /\ Queued!Mine(1)
          [] part = "schema" -> migrationPc[older] = "waiting"
          [] part = "board" -> Len(facts) = 1
          [] OTHER -> FALSE)
       ~>
       (CASE part = "queue" -> 1 \notin queuedPending \/ Queued!Stopped
          [] part = "schema" -> migrationPc[older] \in {"serving", "refused", "stopped", "broken"}
          [] part = "board" -> counted = 1
          [] OTHER -> FALSE)

ProxyReleased == proxyPc = "done" /\ ~admission /\ proxyLease = None

\* A request whose body has arrived ends: it is routed or refused although
\* channels change under it, its body is opened for every attempt, and although
\* the upstream may never answer it is answered, or its response begins; and it
\* gives its admission and its channel back once the client has taken the
\* response or gone.
RequestsEnd ==
  /\ SelectionRuns /\ ImageBodyRuns /\ ProxyRuns =>
       (CASE part = "selection" -> selectionPc[q1] \notin {"idle", "held", "none"}
          [] part = "image" -> imageBodyPhase = "prepared"
          [] part = "proxy" -> proxyPc \in {"prepare", "send", "json"}
          [] OTHER -> FALSE)
       ~>
       (CASE part = "selection" -> selectionPc[q1] \in {"idle", "held", "none"}
          [] part = "image" -> imageBodyPhase # "prepared"
          [] part = "proxy" -> proxyPc = "stream" \/ ProxyReleased
          [] OTHER -> FALSE)
  /\ ProxyRuns /\ ClientTakes =>
       (part = "proxy" /\ proxyPc \notin {"idle", "admitted"}) ~> (part = "proxy" /\ ProxyReleased)

\* What was begun comes to its end: a drain in any case by its deadline, and
\* before it once nothing streams, unless the last session ended between the two
\* loads of the count; the sessions of a forced close; the stop of the
\* request-log worker; an installation's job unless a fault takes its last write.
StopsEnd ==
  /\ ShutdownRuns =>
       [](/\ part = "shutdown" /\ main # "serving"
          /\ [](part = "shutdown" /\ \A c \in {q1, q2} : conn[c] # "forwarding")
          => <>(part = "shutdown" /\ (main \in {"stopped", "overrun"} \/ Shutdown!OnlyDeadline)))
  /\ ShutdownRuns /\ DeadlineRuns =>
       (part = "shutdown" /\ main # "serving") ~> (part = "shutdown" /\ main \in {"stopped", "overrun"})
  /\ ShutdownRuns /\ QueuedRuns /\ PluginsRuns =>
       (CASE part = "shutdown" -> main = "forced"
          [] part = "queue" -> queuedPhase = "drain"
          [] part = "plugins" -> job["j1"] # Plugins!NoJob /\ job["j1"].status = "running"
          [] OTHER -> FALSE)
       ~>
       (CASE part = "shutdown" -> \A c \in {q1, q2} : conn[c] \notin Shutdown!Guarded
          [] part = "queue" -> Queued!Stopped
          [] part = "plugins" -> job["j1"].status \in Plugins!Ended \/ pluginsFaults = 1
          [] OTHER -> FALSE)

\* What changed reaches those who work by it: a committed configuration every
\* process although its publication was lost, and the row of a credential the
\* runtime although reloads overtake each other.
ChangesArrive ==
  /\ PublishRuns =>
       (part = "publish" /\ Len(publishDb) = 2) ~> (part = "publish" /\ publishSnap[g1] = 2)
  /\ CodexRuns => <>[](part = "codex" => mem = Codex!View(codexDb))
=============================================================================
