-------------------------- MODULE SpendLeaderboard --------------------------
\* The leaderboard of user spending: a worker on every gateway rebuilds
\* the snapshots of local days, weeks and months from the metering facts
\* (refresh_spend_leaderboard_snapshots, workers/spend_leaderboard.rs)
\* while facts arrive and the Console reads the snapshots
\* (spend_leaderboard).  PostgreSQL takes an advisory lock and reads facts
\* in one statement of a read-committed transaction; SQLite holds the only
\* writer throughout.
\*
\* An option is a set of at most one element.  Time is counted in ticks
\* of which DayTicks make a day; local days begin Offset ticks early.
EXTENDS Integers, Sequences, FiniteSets, FiniteSetsExt

CONSTANTS
    Backend,      \* "postgres", "sqlite"
    Gateways,     \* the processes that run the worker
    Users,        \* user ids, a set of numbers so that they are ordered
    Costs,        \* the costs of facts
    DayTicks, Offset,
    WeekDays,     \* the days of a week
    MonthStarts,  \* the local days on which months begin
    Limit,        \* how many entries the Console asks for
    AskedStarts,  \* the local days it asks for
    MaxTime, MaxFacts, MaxAborts

CalendarSound ==
    /\ {DayTicks, WeekDays, Limit} \subseteq Nat \ {0}
    /\ Offset \in 0..DayTicks - 1
    /\ 0 \in MonthStarts /\ \E m \in MonthStarts : m * DayTicks > MaxTime + Offset

VARIABLES
    clock,
    facts,      \* request_metering_facts, in the order of their commits
    lock,       \* the gateway that holds the refresh lock, an option
    work,       \* the refresh of each gateway: step, time it began, rows, facts read
    periods,    \* spend_leaderboard_periods: <<period, start>> to its row
    entries,    \* spend_leaderboard_entries: <<period, start, user>> to its row
    counted,    \* how many facts the committed snapshots were built from
    aborts,
    report      \* what a Console request has read

vars == <<clock, facts, lock, work, periods, entries, counted, aborts, report>>

--------------------
\* The calendar.
Periods == {"day", "week", "month"}

LocalDay(t) == (t + Offset) \div DayTicks

\* date_trunc of the local time; SpendLeaderboardPeriod::current_start_at
StartOf(p, day) ==
    CASE p = "day" -> day
      [] p = "week" -> day - (day % WeekDays)
      [] OTHER -> Max({m \in MonthStarts : m <= day})

\* SpendLeaderboardPeriod::end_after
EndAfter(p, start) ==
    CASE p = "day" -> start + 1
      [] p = "week" -> start + WeekDays
      [] OTHER -> Min({m \in MonthStarts : m > start})

\* SpendLeaderboardPeriod::is_valid_start
ValidStart(p, start) ==
    /\ p = "week" => start % WeekDays = 0
    /\ p = "month" => start \in MonthStarts

--------------------
\* The aggregation.
Client(fs) == {i \in DOMAIN fs : fs[i].client}

RowKeys(fs) ==
    {<<p, StartOf(p, LocalDay(fs[i].time)), fs[i].user>> : p \in Periods, i \in Client(fs)}

OfKey(fs, k) ==
    {i \in Client(fs) : fs[i].user = k[3] /\ StartOf(k[1], LocalDay(fs[i].time)) = k[2]}

CostOf(f) == IF f.cost = {} THEN 0 ELSE CHOOSE c \in f.cost : TRUE

SumOf(fs, is) == MapThenSumSet(LAMBDA i : CostOf(fs[i]), is)

Priced(fs, is) == {i \in is : fs[i].cost # {}}

\* the rows of a refresh: one for each user with a priced request in a period
Rows(fs) ==
    [k \in {r \in RowKeys(fs) : Priced(fs, OfKey(fs, r)) # {}} |->
        [requests |-> Cardinality(OfKey(fs, k)),
         priced |-> Cardinality(Priced(fs, OfKey(fs, k))),
         cost |-> SumOf(fs, OfKey(fs, k))]]

\* ORDER BY cost_amount DESC, request_count DESC, user_id
Precedes(rows, a, b) ==
    \/ rows[a].cost > rows[b].cost
    \/ rows[a].cost = rows[b].cost /\ rows[a].requests > rows[b].requests
    \/ rows[a].cost = rows[b].cost /\ rows[a].requests = rows[b].requests /\ a[3] < b[3]

Rank(rows, k) ==
    1 + Cardinality({o \in DOMAIN rows : o[1] = k[1] /\ o[2] = k[2] /\ Precedes(rows, o, k)})

Overlay(f, g) == [k \in DOMAIN f \union DOMAIN g |-> IF k \in DOMAIN g THEN g[k] ELSE f[k]]

--------------------
Idle == [step |-> "idle", began |-> 0, rows |-> <<>>, read |-> 0]

NoReport == [step |-> "none", period |-> "day", start |-> 0, total |-> 0, refreshed |-> FALSE,
             entries |-> {}, previous |-> {}, next |-> {}]

Init ==
    /\ clock = 0 /\ facts = <<>>
    /\ lock = {} /\ work = [g \in Gateways |-> Idle]
    /\ periods = <<>> /\ entries = <<>>
    /\ counted = 0 /\ aborts = 0
    /\ report = NoReport

Tick ==
    /\ clock < MaxTime /\ clock' = clock + 1
    /\ UNCHANGED <<facts, lock, work, periods, entries, counted, aborts, report>>

\* a request that started at any time up to now becomes a fact
AddFact(u, t, c, client) ==
    /\ Len(facts) < MaxFacts /\ t <= clock
    /\ Backend = "sqlite" => lock = {}
    /\ facts' = Append(facts, [user |-> u, time |-> t, cost |-> c, client |-> client])
    /\ UNCHANGED <<clock, lock, work, periods, entries, counted, aborts, report>>

\* Mutant of Begin: the lock is not asked for.
BeginUnlocked(g) ==
    /\ work[g].step = "idle"
    /\ lock' = {g}
    /\ work' = [work EXCEPT ![g] = [Idle EXCEPT !.step = "begun", !.began = clock]]
    /\ UNCHANGED <<clock, facts, periods, entries, counted, aborts, report>>

\* the worker's tick: the transaction begins with the lock, or another
\* gateway has it and this tick does nothing
Begin(g) ==
    /\ work[g].step = "idle" /\ lock = {}
    /\ lock' = {g}
    /\ work' = [work EXCEPT ![g] = [Idle EXCEPT !.step = "begun", !.began = clock]]
    /\ UNCHANGED <<clock, facts, periods, entries, counted, aborts, report>>

\* the temporary table: one statement reads all facts committed by now
ReadFacts(g) ==
    /\ work[g].step = "begun"
    /\ work' = [work EXCEPT ![g].step = "read", ![g].rows = Rows(facts), ![g].read = Len(facts)]
    /\ UNCHANGED <<clock, facts, lock, periods, entries, counted, aborts, report>>

CurrentPeriods(began) ==
    [k \in {<<p, StartOf(p, LocalDay(began))>> : p \in Periods} |->
        [end |-> EndAfter(k[1], k[2]),
         total |-> IF k \in DOMAIN periods THEN periods[k].total ELSE 0]]

RowPeriods(rows) ==
    [k \in {<<r[1], r[2]>> : r \in DOMAIN rows} |->
        [end |-> EndAfter(k[1], k[2]),
         total |-> MapThenSumSet(LAMBDA r : rows[r].cost,
                                 {r \in DOMAIN rows : <<r[1], r[2]>> = k})]]

\* the entries of the refresh; an upsert that only spares rows that are equal
RankedRows(rows) ==
    [k \in DOMAIN rows |->
        [rank |-> Rank(rows, k), requests |-> rows[k].requests,
         priced |-> rows[k].priced, cost |-> rows[k].cost]]

\* Mutant of Commit: the totals are those of the current periods only.
CommitCurrent(g) ==
    /\ work[g].step = "read"
    /\ periods' = Overlay(Overlay(RowPeriods(work[g].rows), periods), CurrentPeriods(work[g].began))
    /\ entries' = Overlay(entries, RankedRows(work[g].rows))
    /\ counted' = work[g].read
    /\ lock' = {} /\ work' = [work EXCEPT ![g] = Idle]
    /\ UNCHANGED <<clock, facts, aborts, report>>

\* the upserts of periods and entries become visible together
Commit(g) ==
    /\ work[g].step = "read"
    /\ periods' = Overlay(Overlay(periods, CurrentPeriods(work[g].began)),
                          RowPeriods(work[g].rows))
    /\ entries' = Overlay(entries, RankedRows(work[g].rows))
    /\ counted' = work[g].read
    /\ lock' = {} /\ work' = [work EXCEPT ![g] = Idle]
    /\ UNCHANGED <<clock, facts, aborts, report>>

\* a statement fails, the process dies or shutdown aborts the task
Abort(g) ==
    /\ work[g].step # "idle" /\ aborts < MaxAborts
    /\ aborts' = aborts + 1
    /\ lock' = {} /\ work' = [work EXCEPT ![g] = Idle]
    /\ UNCHANGED <<clock, facts, periods, entries, counted, report>>

--------------------
\* spend_leaderboard: the row of the period, the first entries by rank, the
\* neighbouring periods
PeriodPart(p, s) ==
    IF <<p, s>> \in DOMAIN periods
    THEN [total |-> periods[<<p, s>>].total, refreshed |-> TRUE]
    ELSE [total |-> 0, refreshed |-> FALSE]

EntryPart(p, s) ==
    LET here == {k \in DOMAIN entries : k[1] = p /\ k[2] = s}
        before(k) == {o \in here : entries[o].rank < entries[k].rank}
    IN {[user |-> k[3], rank |-> entries[k].rank, cost |-> entries[k].cost] :
            k \in {r \in here : Cardinality(before(r)) < Limit}}

Previous(p, s) ==
    LET starts == {k[2] : k \in {q \in DOMAIN periods : q[1] = p /\ q[2] < s}}
    IN IF starts = {} THEN {} ELSE {Max(starts)}

Following(p, s) ==
    LET starts == {k[2] : k \in {q \in DOMAIN periods : q[1] = p /\ q[2] > s}}
    IN IF starts = {} THEN {} ELSE {Min(starts)}

ReadPeriod(p, s) ==
    /\ Backend = "postgres" /\ report.step \in {"none", "done"} /\ ValidStart(p, s)
    /\ report' = [NoReport EXCEPT !.step = "period", !.period = p, !.start = s,
                                  !.total = PeriodPart(p, s).total,
                                  !.refreshed = PeriodPart(p, s).refreshed]
    /\ UNCHANGED <<clock, facts, lock, work, periods, entries, counted, aborts>>

ReadEntries ==
    /\ report.step = "period"
    /\ report' = [report EXCEPT !.step = "entries",
                                !.entries = EntryPart(report.period, report.start)]
    /\ UNCHANGED <<clock, facts, lock, work, periods, entries, counted, aborts>>

ReadNeighbours ==
    /\ report.step = "entries"
    /\ report' = [report EXCEPT !.step = "done",
                                !.previous = Previous(report.period, report.start),
                                !.next = Following(report.period, report.start)]
    /\ UNCHANGED <<clock, facts, lock, work, periods, entries, counted, aborts>>

\* SQLite reads all of it in one transaction
ReadReport(p, s) ==
    /\ Backend = "sqlite" /\ ValidStart(p, s)
    /\ report' = [step |-> "done", period |-> p, start |-> s,
                  total |-> PeriodPart(p, s).total, refreshed |-> PeriodPart(p, s).refreshed,
                  entries |-> EntryPart(p, s),
                  previous |-> Previous(p, s), next |-> Following(p, s)]
    /\ UNCHANGED <<clock, facts, lock, work, periods, entries, counted, aborts>>

Refresh(g) == Begin(g) \/ ReadFacts(g) \/ Commit(g)

Read == \/ \E p \in Periods, s \in AskedStarts : ReadPeriod(p, s) \/ ReadReport(p, s)
        \/ ReadEntries \/ ReadNeighbours

Next ==
    \/ Tick
    \/ \E u \in Users, t \in 0..MaxTime, c \in {{}} \union {{n} : n \in Costs}, b \in BOOLEAN :
           AddFact(u, t, c, b)
    \/ \E g \in Gateways : Refresh(g) \/ Abort(g)
    \/ Read

Spec == Init /\ [][Next]_vars

\* every gateway's ticker keeps firing
FairSpec == Spec /\ \A g \in Gateways : WF_vars(Refresh(g))

--------------------
TypeOK ==
    /\ Cardinality(lock) <= 1 /\ lock \subseteq Gateways
    /\ counted \in 0..Len(facts)
    /\ \A k \in DOMAIN entries : entries[k].priced \in 1..entries[k].requests

\* The total of every period is the sum of its entries: totals and entries
\* come from one reading of the facts, also when a period has ended, when
\* facts arrive late and when a refresh is aborted.
TotalsMatchEntries ==
    \A k \in DOMAIN periods :
        periods[k].total = MapThenSumSet(LAMBDA e : entries[e].cost,
                                         {e \in DOMAIN entries : <<e[1], e[2]>> = k})

\* The ranks of a period are 1 to the number of its users, without gaps or
\* ties, and follow the amounts.
RanksAreExact ==
    \A e \in DOMAIN entries :
        LET peers == {o \in DOMAIN entries : o[1] = e[1] /\ o[2] = e[2]}
        IN /\ {entries[o].rank : o \in peers} = 1..Cardinality(peers)
           /\ \A o \in peers : entries[o].rank < entries[e].rank => entries[o].cost >= entries[e].cost

\* The snapshots are what the facts they were built from say: the spending
\* of a user between the local midnights that bound a period, no request
\* counted in two periods of one kind and probes counted in none.
SnapshotIsFacts ==
    \A p \in Periods, s \in 0..LocalDay(MaxTime), u \in Users :
        ValidStart(p, s) =>
            LET mine == {i \in 1..counted : /\ facts[i].client /\ facts[i].user = u
                                            /\ LocalDay(facts[i].time) \in s..EndAfter(p, s) - 1}
                priced == {i \in mine : facts[i].cost # {}}
            IN IF priced = {} THEN <<p, s, u>> \notin DOMAIN entries
               ELSE /\ <<p, s, u>> \in DOMAIN entries
                    /\ entries[<<p, s, u>>].cost = SumOf(facts, priced)
                    /\ entries[<<p, s, u>>].requests = Cardinality(mine)

\* What a user is shown to have spent in a period never shrinks: a refresh
\* that read earlier facts cannot overwrite one that read later ones (the
\* advisory lock, or the single writer).
SpendingOnlyGrows ==
    \A k \in DOMAIN entries : k \in DOMAIN entries' /\ entries'[k].cost >= entries[k].cost

\* A report lists the leading users in order.  Its total is the sum of what
\* it lists when all users fit; PostgreSQL reads the total first and the
\* entries in a later statement, so there the entries may be ahead of the
\* total, never behind it.
ReportAddsUp ==
    report.step = "done" =>
        LET listed == MapThenSumSet(LAMBDA e : e.cost, report.entries)
        IN /\ {e.rank : e \in report.entries} = 1..Cardinality(report.entries)
           /\ Cardinality(report.entries) < Limit =>
                IF Backend = "sqlite" THEN listed = report.total ELSE listed >= report.total
=============================================================================
