-------------------------- MODULE CodexQuotaWindows -------------------------
\* The history of a Codex credential's quota windows.  Each quota answer
\* reports, for the primary and the secondary window, the percentage used,
\* the window's length and its reset time; from such answers, which arrive
\* late, repeated or with jitter, the gateway reconstructs the periods,
\* decides why one ended (naturally, by a credit redeemed from the
\* console, or by the provider) and sums the cost of each.
\*
\* Every action is one transaction under the credential's row lock.
EXTENDS Naturals, Sequences, FiniteSets

CONSTANTS
    Starts,     \* times at which a reported window may have started
    Lengths,    \* window_seconds the provider reports
    Usages,     \* used_percent
    Reported,   \* the kinds of windows the provider reports
    Times,      \* times at which answers are dated and credits redeemed
    Tolerance,  \* QUOTA_WINDOW_IDENTITY_TOLERANCE
    MatchWindow,\* MANUAL_RESET_MATCH_WINDOW
    MaxEvents,  \* bound: credits redeemed
    MaxPeriods, \* bound: periods of a kind
    None

WindowsAssumption ==
    /\ Starts \subseteq Nat /\ Lengths \subseteq Nat \ {0} /\ Usages \subseteq 0..100
    /\ Reported \subseteq {"primary", "secondary"}
    /\ Times \subseteq Nat /\ {Tolerance, MatchWindow, MaxEvents, MaxPeriods} \subseteq Nat
    /\ None \notin Nat /\ None \notin {"natural", "manual", "openai_official"}

WindowKinds == {"primary", "secondary"}

VARIABLES
    periods,  \* per kind, codex_quota_window_periods in the order of insertion
    events    \* codex_quota_reset_events, in the order of requested_at, id

vars == <<periods, events>>

\* ObservedCodexQuotaWindow; reset_at is start + length
Observations == [start: Starts, length: Lengths, used: Usages]
ResetAt(o) == o.start + o.length
Reasons == {"natural", "manual", "openai_official"}
Periods == [start: Nat, length: Lengths, reset: Nat, initial: Usages, last: Usages,
            seen: Nat, ended: Nat \cup {None}, reason: Reasons \cup {None}]
Events == [at: Nat, windows: 0..2, applied: SUBSET WindowKinds]

TypeOK ==
    /\ periods \in [WindowKinds -> Seq(Periods)]
    /\ events \in Seq(Events)

Init ==
    /\ periods = [k \in WindowKinds |-> <<>>]
    /\ events = <<>>

Open(ps) == Len(ps) > 0 /\ ps[Len(ps)].ended = None
Current(ps) == ps[Len(ps)]
Opened(o, at) ==
    [start |-> o.start, length |-> o.length, reset |-> ResetAt(o), initial |-> o.used,
     last |-> o.used, seen |-> at, ended |-> None, reason |-> None]

\* the open period after an answer about it, when another one ends it, and when
\* it turns out to have started later
Answered(c, o, at) == [c EXCEPT !.last = o.used, !.seen = at]
Closed(c, why, at) == [c EXCEPT !.reason = why, !.ended = at]
Restarted(c, o, at) == [Opened(o, at) EXCEPT !.initial = c.initial]

Within(x, y, d) == x <= y + d /\ y <= x + d

\* same_period, and an answer about a window that had started before the current
SamePeriod(c, o) ==
    \/ c.length = o.length /\ Within(c.reset, ResetAt(o), Tolerance)
    \/ o.start <= c.start + Tolerance

\* natural_boundary
Natural(c, o) == o.start + Tolerance >= c.reset

\* claim_manual_codex_quota_reset: an event near the transition, which this kind
\* has not claimed and whose windows are not all claimed
Claimable(e, k, start) ==
    /\ e.windows > Cardinality(e.applied)
    /\ Within(e.at, start, MatchWindow)
    /\ k \notin e.applied
Claims(es, k, start) == {i \in 1..Len(es) : Claimable(es[i], k, start)}
Claimed(e, k) == [e EXCEPT !.applied = e.applied \cup {k}]
Newest(s) == CHOOSE i \in s : \A j \in s : j <= i

\* an unused window whose start still moves is not a period of its own
Rebased(c, natural, claims) ==
    c.initial = 0 /\ c.last = 0 /\ ~natural /\ claims = {}

Late(c, at) == at < c.seen

\* reconcile_codex_quota_window for one kind: the periods and events after it
Reconciled(ps, es, k, o, at) ==
    LET c == Current(ps)
        n == Len(ps)
        natural == Natural(c, o)
        claims == IF natural THEN {} ELSE Claims(es, k, o.start)
        reason == CASE natural -> "natural"
                    [] claims # {} -> "manual"
                    [] OTHER -> "openai_official"
        closed == Closed(c, reason, IF natural THEN c.reset ELSE o.start)
    IN  CASE ~Open(ps) -> [ps |-> Append(ps, Opened(o, at)), es |-> es]
          [] Open(ps) /\ Late(c, at) -> [ps |-> ps, es |-> es]
          [] Open(ps) /\ ~Late(c, at) /\ SamePeriod(c, o) ->
               [ps |-> [ps EXCEPT ![n] = Answered(c, o, at)], es |-> es]
          [] OTHER ->
               [ps |-> IF Rebased(c, natural, claims)
                       THEN [ps EXCEPT ![n] = Restarted(c, o, at)]
                       ELSE Append([ps EXCEPT ![n] = closed], Opened(o, at)),
                es |-> IF claims = {} THEN es
                       ELSE [es EXCEPT ![Newest(claims)] = Claimed(@, k)]]

\* reconcile_codex_quota_windows: primary, then secondary, in one transaction
ReconcileWindows(o1, o2, at) ==
    LET one == IF o1 = None THEN [ps |-> periods["primary"], es |-> events]
               ELSE Reconciled(periods["primary"], events, "primary", o1, at)
        two == IF o2 = None THEN [ps |-> periods["secondary"], es |-> one.es]
               ELSE Reconciled(periods["secondary"], one.es, "secondary", o2, at)
    IN  /\ periods' = [primary |-> one.ps, secondary |-> two.ps]
        /\ events' = two.es

\* observed_codex_quota_window: each kind is complete or absent, else refused
Observe(o1, o2, at) ==
    /\ \A k \in WindowKinds : Len(periods[k]) < MaxPeriods
    /\ ReconcileWindows(o1, o2, at)

\* record_codex_quota_reset_transaction, dated by its request
RecordReset(at, windows) ==
    /\ Len(events) < MaxEvents
    /\ \A i \in 1..Len(events) : events[i].at <= at
    /\ events' = Append(events, [at |-> at, windows |-> windows, applied |-> {}])
    /\ UNCHANGED periods

Answers(k) == {None} \cup IF k \in Reported THEN Observations ELSE {}

Next ==
    \/ \E o1 \in Answers("primary"), o2 \in Answers("secondary"), at \in Times :
         Observe(o1, o2, at)
    \/ \E at \in Times, windows \in 0..2 : RecordReset(at, windows)

Spec == Init /\ [][Next]_vars

--------------------
\* The views

\* window_cost: the requests whose cost a period is charged with
CostEnd(p) == IF p.ended = None THEN p.reset ELSE p.ended
Charged(p, x) == p.start <= x /\ x < CostEnd(p)

\* codex_quota_window_history leaves out unused periods the provider ended
Hidden(p) == p.reason = "openai_official" /\ p.initial = 0 /\ p.last = 0

--------------------
\* Properties

Indexes(k) == 1..Len(periods[k])

\* The periods of a kind follow each other: one is open, the last; the others
\* have ended after they started, and start times grow, so that no answer, late
\* or jittered, ever violates the table's unique and CHECK constraints and is
\* lost with its transaction.
PeriodsFollow ==
    \A k \in WindowKinds : \A i \in Indexes(k) : LET p == periods[k][i] IN
        /\ (p.ended = None) <=> (i = Len(periods[k]))
        /\ p.start < p.reset
        /\ p.ended # None => p.ended > p.start
        /\ i > 1 => periods[k][i - 1].start < p.start

\* A request's cost is charged to at most one period of a kind, except within
\* the tolerance before a natural reset.
CostsCountedOnce ==
    \A k \in WindowKinds : \A i, j \in Indexes(k) : i < j =>
        \A x \in Starts : (Charged(periods[k][i], x) /\ Charged(periods[k][j], x)) =>
            /\ j = i + 1
            /\ periods[k][i].reason = "natural"
            /\ periods[k][i].ended <= x + Tolerance

Manual(ps) == {i \in 1..Len(ps) : ps[i].reason = "manual"}
ClaimedFor(es, k) == {i \in 1..Len(es) : k \in es[i].applied}

\* Every period that counts as ended by a console reset has claimed one redeemed
\* credit of its own, and no credit is claimed for more windows than it reset.
ManualResetsAccounted ==
    /\ \A k \in WindowKinds :
         Cardinality(Manual(periods[k])) = Cardinality(ClaimedFor(events, k))
    /\ \A i \in 1..Len(events) : Cardinality(events[i].applied) <= events[i].windows

\* No period with usage is hidden from the history, and none is hidden because
\* it was rebased away: what the views leave out was never recorded by this code.
NothingHidden ==
    \A k \in WindowKinds : \A i \in Indexes(k) : ~Hidden(periods[k][i])

\* A period's usage is that of its newest answer: it never goes back to an older
\* one, and usage already recorded is not erased.
UsageIsNewest ==
    \A k \in WindowKinds : \A i \in Indexes(k) :
      LET p == periods[k][i]
          q == periods'[k][i]
      IN  /\ q.seen >= p.seen
          /\ p.last > 0 => (q.start = p.start /\ q.reset = p.reset)

\* The history of both windows, together.
WindowsSound ==
    PeriodsFollow /\ CostsCountedOnce /\ ManualResetsAccounted /\ NothingHidden

--------------------
\* The inductive invariant behind WindowsSound

\* A period as it is stored: its reset follows from its start, it is open and
\* without a reason or has ended after it started, and it is not hidden.
PeriodSound(p) ==
    /\ p.reset = p.start + p.length
    /\ p.ended = None <=> p.reason = None
    /\ p.ended # None => p.ended > p.start
    /\ ~Hidden(p)

\* A period and a later one: they start further apart than the tolerance, and
\* only a natural end may lie within the tolerance after the later start.
Precedes(p, q) ==
    /\ p.start + Tolerance < q.start
    /\ p.ended <= q.start + Tolerance
    /\ p.reason # "natural" => p.ended <= q.start

History(ps) ==
    /\ ps \in Seq(Periods)
    /\ \A i \in 1..Len(ps) : PeriodSound(ps[i]) /\ (ps[i].ended = None <=> i = Len(ps))
    /\ \A i, j \in 1..Len(ps) : i < j => Precedes(ps[i], ps[j])

Redeemed(es) ==
    /\ es \in Seq(Events)
    /\ \A i \in 1..Len(es) : Cardinality(es[i].applied) <= es[i].windows

WindowsInv ==
    /\ periods \in [WindowKinds -> Seq(Periods)]
    /\ \A k \in WindowKinds : History(periods[k])
    /\ Redeemed(events) /\ ManualResetsAccounted
=============================================================================
