------------------------------ MODULE MCLedger ------------------------------
\* What turns request events into money, on small instances: the ledger of
\* the spooled pipeline (the money, the ingress rows, two projectors), the
\* older queue-based worker, and the spend leaderboard on either database.
EXTENDS RequestLogLedger, TLC

CONSTANTS
  g1, g2,          \* gateways
  u1, u2, k1, k2,  \* users and their keys
  t1, t2           \* writer tasks of the queue

VARIABLES
  part,  \* the component that this behaviour exercises
  \* QueuedRequestLog
  unsent, queue, accepted, phase, task, hints, settler, qFact, qLogs, qPending,
  qReceipts, qUsed, qBalance, published, troubled, qFails,
  \* SpendLeaderboard
  clock, spends, lock, work, periods, entries, counted, aborts, report

Ev(i, c, cr, v) ==
  [id |-> i, user |-> "alice", key |-> "k1", cost |-> c, cred |-> cr, view |-> v,
   decodes |-> TRUE]
OwnerIsAlice == [k \in Keys |-> "alice"]
\* Two priced requests of one key.
PricedEvents == {Ev("r1", 1, "c1", 1), Ev("r2", 2, "unknown", 1)}
\* Deliveries of r1 that differ in amount or in what only the log shows, and a
\* request without amount and with an invalid status.
ConflictEvents ==
  {Ev("r1", 1, "c1", 1), Ev("r1", 1, "c1", 2), Ev("r1", 2, "c1", 1),
   Ev("r2", Unpriced, "unknown", InvalidView)}
\* A log older than the attribution table is delivered again.
LegacyFacts == {Ev("r2", 1, "unknown", 1)}
ReplayEvents ==
  ConflictEvents \cup LegacyFacts \cup {Ev("r2", 1, "c1", 1)}

Queued(i, u, k, c, f, v) ==
  [id |-> i, user |-> u, key |-> k, cost |-> c, fits |-> f, valid |-> v]
Owners == (k1 :> u1) @@ (k2 :> u2)
\* Two paid requests of one key, the log of one of which does not encode, one
\* that does not encode at all, one whose key has changed hands.
MixedEvents ==
  {Queued(1, u1, k1, 1, "both", TRUE), Queued(2, u1, k1, 2, "fact", TRUE),
   Queued(3, u2, k2, 1, "neither", TRUE), Queued(4, u1, k2, 1, "both", TRUE)}
\* Paid requests of two users, one with an invalid status, one unpriced.
PaidEvents ==
  {Queued(1, u1, k1, 1, "both", TRUE), Queued(2, u2, k2, 2, "both", FALSE),
   Queued(3, u1, k1, 2, "both", TRUE), Queued(4, u2, k2, Unpriced, "both", TRUE)}

\* Two gateways materialize the same rows.
Meters == INSTANCE RequestLogLedger WITH
  Ids <- Ids, Users <- Users, Keys <- Keys, OwnerOf <- OwnerOf, Events <- PricedEvents,
  Legacy <- {}, Gateways <- Gateways, Metering <- {g1, g2}, Projecting <- {},
  Settling <- {g1}, BatchSize <- 2, NoEvent <- NoEvent, SlowRetries <- FALSE,
  MaxRows <- 2, MaxGrants <- 0, MaxFails <- 1

\* Three rows through one worker, conflicting deliveries of one request.
Rows == INSTANCE RequestLogLedger WITH
  Ids <- Ids, Users <- Users, Keys <- Keys, OwnerOf <- OwnerOf,
  Events <- ConflictEvents, Legacy <- {}, Gateways <- {g1}, Metering <- {g1},
  Projecting <- {g1}, Settling <- {}, BatchSize <- 2, NoEvent <- NoEvent,
  SlowRetries <- TRUE, MaxRows <- 3, MaxGrants <- 0, MaxFails <- 1

\* Two projectors, and a log older than the attribution table is delivered again.
Replay == INSTANCE RequestLogLedger WITH
  Ids <- Ids, Users <- Users, Keys <- Keys, OwnerOf <- OwnerOf, Events <- ReplayEvents,
  Legacy <- LegacyFacts, Gateways <- Gateways, Metering <- {g1},
  Projecting <- {g1, g2}, Settling <- {}, BatchSize <- 2, NoEvent <- NoEvent,
  SlowRetries <- TRUE, MaxRows <- 2, MaxGrants <- 0, MaxFails <- 1

\* Two writer tasks, and events that encode only in part.
Mixed == INSTANCE QueuedRequestLog WITH
  Events <- MixedEvents, Users <- {u1, u2}, Keys <- {k1, k2}, OwnerOf <- Owners,
  Capacity <- 3, BatchSize <- 2, Tasks <- {t1, t2}, HintCapacity <- 1,
  RecoverySize <- 2, AmountMax <- 9, NoRow <- NoEvent, MaxFails <- 0, fact <- qFact,
  logs <- qLogs, pending <- qPending, receipts <- qReceipts, used <- qUsed,
  balance <- qBalance, fails <- qFails

\* An account reaches its limit; the hints overflow.
Paid == INSTANCE QueuedRequestLog WITH
  Events <- PaidEvents, Users <- {u1, u2}, Keys <- {k1, k2}, OwnerOf <- Owners,
  Capacity <- 2, BatchSize <- 2, Tasks <- {t1}, HintCapacity <- 1, RecoverySize <- 1,
  AmountMax <- 2, NoRow <- NoEvent, MaxFails <- 1, fact <- qFact, logs <- qLogs,
  pending <- qPending, receipts <- qReceipts, used <- qUsed, balance <- qBalance,
  fails <- qFails

\* Two gateways refresh the leaderboard of one PostgreSQL database.
Shared == INSTANCE SpendLeaderboard WITH
  Backend <- "postgres", Gateways <- {g1, g2}, Users <- {1, 2}, Costs <- {1, 2},
  DayTicks <- 2, Offset <- 1, WeekDays <- 2, MonthStarts <- {0, 3, 6}, Limit <- 3,
  AskedStarts <- {0}, MaxTime <- 0, MaxFacts <- 2, MaxAborts <- 1, facts <- spends

\* One gateway on SQLite, whose refresh is one transaction.
Single == INSTANCE SpendLeaderboard WITH
  Backend <- "sqlite", Gateways <- {g1}, Users <- {1, 2}, Costs <- {1}, DayTicks <- 2,
  Offset <- 1, WeekDays <- 2, MonthStarts <- {0, 3, 6}, Limit <- 3, AskedStarts <- {0},
  MaxTime <- 2, MaxFacts <- 2, MaxAborts <- 1, facts <- spends

ASSUME Meters!LedgerAssumption /\ Rows!LedgerAssumption /\ Replay!LedgerAssumption
ASSUME Mixed!QueueAssumption /\ Paid!QueueAssumption
ASSUME Shared!CalendarSound /\ Single!CalendarSound

--------------------
\* The variables of a component that is not exercised.
Off == <<>>

mixedVars == <<unsent, queue, accepted, phase, task, hints, settler, qFact, qLogs, qPending,
               qReceipts, qUsed, qBalance, published, troubled, qFails>>
MixedOff ==
  /\ unsent = Off /\ queue = Off /\ accepted = Off /\ phase = Off /\ task = Off
  /\ hints = Off /\ settler = Off /\ qFact = Off /\ qLogs = Off /\ qPending = Off
  /\ qReceipts = Off /\ qUsed = Off /\ qBalance = Off /\ published = Off
  /\ troubled = Off /\ qFails = Off

sharedVars == <<clock, spends, lock, work, periods, entries, counted, aborts, report>>
SharedOff ==
  /\ clock = Off /\ spends = Off /\ lock = Off /\ work = Off /\ periods = Off
  /\ entries = Off /\ counted = Off /\ aborts = Off /\ report = Off

allVars == <<part, vars, mixedVars, sharedVars>>

SuiteInit ==
  \/ /\ part = "money" /\ Init /\ MixedOff /\ SharedOff
  \/ /\ part = "meters" /\ Meters!Init /\ MixedOff /\ SharedOff
  \/ /\ part = "rows" /\ Rows!Init /\ MixedOff /\ SharedOff
  \/ /\ part = "replay" /\ Replay!Init /\ MixedOff /\ SharedOff
  \/ /\ part = "queue" /\ Mixed!Init /\ Init /\ SharedOff
  \/ /\ part = "paid" /\ Paid!Init /\ Init /\ SharedOff
  \/ /\ part = "shared" /\ Shared!Init /\ Init /\ MixedOff
  \/ /\ part = "single" /\ Single!Init /\ Init /\ MixedOff

SuiteNext ==
  \/ /\ part = "money" /\ Next
     /\ UNCHANGED <<part, mixedVars, sharedVars>>
  \/ /\ part = "meters" /\ Meters!Next
     /\ UNCHANGED <<part, mixedVars, sharedVars>>
  \/ /\ part = "rows" /\ Rows!Next
     /\ UNCHANGED <<part, mixedVars, sharedVars>>
  \/ /\ part = "replay" /\ Replay!Next
     /\ UNCHANGED <<part, mixedVars, sharedVars>>
  \/ /\ part = "queue" /\ Mixed!Next
     /\ UNCHANGED <<part, vars, sharedVars>>
  \/ /\ part = "paid" /\ Paid!Next
     /\ UNCHANGED <<part, vars, sharedVars>>
  \/ /\ part = "shared" /\ Shared!Next
     /\ UNCHANGED <<part, vars, mixedVars>>
  \/ /\ part = "single" /\ Single!Next
     /\ UNCHANGED <<part, vars, mixedVars>>

SuiteSpec == SuiteInit /\ [][SuiteNext]_allVars

--------------------
\* Balances and quotas are what the receipts and the administrators' grants add
\* up to, in the ledger and in the queue-based worker; there, work that is
\* pending is unpaid, what was published is stored, and a stop settles what was
\* accepted.
MoneyFollows ==
  /\ part \in {"money", "meters", "rows", "replay"} => MoneyConserved
  /\ part = "queue" => /\ Mixed!MoneyFollowsReceipts /\ Mixed!PendingIsUnpaid
                       /\ Mixed!StopDrains /\ Mixed!PublishedIsDurable
  /\ part = "paid" => Paid!MoneyFollowsReceipts /\ Paid!StopSettles

\* The leaderboard shows what was spent: totals are the sums of their entries,
\* entries those of the facts a refresh has counted, ranks follow the totals, and
\* a page read while another gateway refreshes still adds up.
LeaderboardSound ==
  /\ part = "shared" => Shared!RanksAreExact /\ Shared!ReportAddsUp
  /\ part = "single" => /\ Single!TotalsMatchEntries /\ Single!SnapshotIsFacts
                        /\ Single!ReportAddsUp

\* No refresh, aborted or repeated, by whichever gateway, takes back spending
\* that an entry of the leaderboard already shows.
SpendingOnlyGrows == [][part = "shared" => Shared!SpendingOnlyGrows]_allVars
=============================================================================
