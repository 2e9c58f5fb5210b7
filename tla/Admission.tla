------------------------------ MODULE Admission ------------------------------
\* Request admission of src/admission/mod.rs: the soft quota, the requests
\* per minute and the concurrency of an API key, kept per process and
\* independently of the snapshots.  A mutex makes every call atomic.
\*
\* A request brings the limits of the snapshot it authenticated with, which
\* may be older or newer than those of other requests, and the usage that
\* this snapshot was loaded with.  Settlements report the total of a key
\* after the transaction that computed it, so reports may overtake each
\* other.
EXTENDS Integers, FiniteSets, Functions

CONSTANTS
  Keys, Requests, None,
  Limits,       \* limits of a key in the snapshots
  Window,       \* the RPM window, in ticks of the clock
  Second,       \* ticks of one second
  MaxTime,      \* bound on the clock
  MaxTotal      \* bound on the usage of a key

Unlimited == -1
NoReport == -1

ASSUME AdmissionAssumption ==
  /\ IsFiniteSet(Requests) /\ None \notin Keys
  /\ Limits \subseteq [rpm: Nat \cup {Unlimited}, concurrent: Nat \cup {Unlimited},
                       quota: Nat \cup {Unlimited}]
  /\ Second \in Nat \ {0} /\ Window \in Nat \ {0} /\ Window % Second = 0
  /\ MaxTime \in Nat /\ MaxTotal \in Nat

VARIABLES
  now,
  state,        \* KeyState of the keys that have one
  settled,      \* settled_quota_used
  holder,       \* key of the lease a request holds
  \* environment and history
  total,        \* quota_used_amount in the database
  told,         \* largest total reported for a key
  terms,        \* limits a lease was granted under
  log,          \* admissions at each time
  advice        \* when the last rate limited request may come back

vars == <<now, state, settled, holder, total, told, terms, log, advice>>

KeyState == [start: Nat, count: Nat, inFlight: Nat]
Times == 0..MaxTime
NoTerms == [rpm |-> Unlimited, concurrent |-> Unlimited, quota |-> Unlimited]

TypeOK ==
  /\ now \in Times
  /\ DOMAIN state \subseteq Keys
  /\ \A k \in DOMAIN state : state[k] \in KeyState /\ state[k].start <= now
  /\ settled \in [Keys -> Nat \cup {NoReport}]
  /\ holder \in [Requests -> Keys \cup {None}]
  /\ total \in [Keys -> 0..MaxTotal] /\ told \in [Keys -> 0..MaxTotal]
  /\ terms \in [Requests -> Limits \cup {NoTerms}]
  /\ log \in [Keys -> [Times -> Nat]]
  /\ advice \in [Keys -> [window: Int, again: Int]]

Init ==
  /\ now = 0 /\ state = [k \in {} |-> None]
  /\ settled = [k \in Keys |-> NoReport] /\ holder = [r \in Requests |-> None]
  /\ total = [k \in Keys |-> 0] /\ told = [k \in Keys |-> 0]
  /\ terms = [r \in Requests |-> NoTerms]
  /\ log = [k \in Keys |-> [t \in Times |-> 0]]
  /\ advice = [k \in Keys |-> [window |-> -Window, again |-> 0]]

Bigger(a, b) == IF a >= b THEN a ELSE b

\* Mutant of Retained: a busy state is dropped when its window ends.
RetainedWindow(k) == now - state[k].start <= Window

\* What the sweep at the beginning of admit leaves.
Retained(k) == state[k].inFlight > 0 \/ now - state[k].start <= Window

\* quota_exhausted_at, with the larger of the two totals the process knows of
QuotaExhausted(k, limit, used) ==
  limit.quota # Unlimited /\ Bigger(settled[k], used) >= limit.quota

\* The key's state when its limits are applied: a new window if the old is over.
Opened(k) ==
  IF k \notin DOMAIN state \/ ~Retained(k)
  THEN [start |-> now, count |-> 0, inFlight |-> 0]
  ELSE IF now - state[k].start >= Window
       THEN [state[k] EXCEPT !.start = now, !.count = 0]
       ELSE state[k]

RateLimited(s, limit) == limit.rpm # Unlimited /\ s.count >= limit.rpm

\* Mutant of ConcurrentLimited: off by one.
ConcurrentLimitedLate(s, limit) ==
  limit.concurrent # Unlimited /\ s.inFlight > limit.concurrent

ConcurrentLimited(s, limit) ==
  limit.concurrent # Unlimited /\ s.inFlight >= limit.concurrent

\* The sweep, and the state of k if it gets one.
Swept == {k \in DOMAIN state : Retained(k)}
Store(k, s) == state' = [q \in Swept \cup {k} |-> IF q = k THEN s ELSE state[q]]

RejectQuota(k, limit, used) ==
  /\ QuotaExhausted(k, limit, used)
  /\ state' = Restrict(state, Swept)
  /\ UNCHANGED <<now, settled, holder, total, told, terms, log, advice>>

\* Whole seconds until the window ends, rounded up.
retry_after(reset) ==
  (reset - now) \div Second + (IF (reset - now) % Second # 0 THEN 1 ELSE 0)

RejectRate(k, limit, used) ==
  LET s == Opened(k)
  IN /\ ~QuotaExhausted(k, limit, used) /\ RateLimited(s, limit)
     /\ Store(k, s)
     /\ advice' = [advice EXCEPT ![k] =
          [window |-> s.start,
           again |-> now + Second * retry_after(s.start + Window)]]
     /\ UNCHANGED <<now, settled, holder, total, told, terms, log>>

\* It has taken its place in the window all the same.
RejectConcurrent(k, limit, used) ==
  LET s == Opened(k)
  IN /\ ~QuotaExhausted(k, limit, used) /\ ~RateLimited(s, limit)
     /\ ConcurrentLimited(s, limit)
     /\ Store(k, [s EXCEPT !.count = @ + 1])
     /\ UNCHANGED <<now, settled, holder, total, told, terms, log, advice>>

Admit(r, k, limit, used) ==
  LET s == Opened(k)
  IN /\ holder[r] = None
     /\ ~QuotaExhausted(k, limit, used) /\ ~RateLimited(s, limit)
     /\ ~ConcurrentLimited(s, limit)
     /\ Store(k, [start |-> s.start, count |-> s.count + 1,
                  inFlight |-> s.inFlight + 1])
     /\ holder' = [holder EXCEPT ![r] = k]
     /\ terms' = [terms EXCEPT ![r] = limit]
     /\ log' = [log EXCEPT ![k][now] = @ + 1]
     /\ UNCHANGED <<now, settled, total, told, advice>>

\* The lease ends; it expects the state of its key to be there.
Drop(r) ==
  LET k == holder[r]
      s == [state[k] EXCEPT !.inFlight = Bigger(@ - 1, 0)]
  IN /\ k # None
     /\ state' = IF s.inFlight = 0 /\ now - s.start > Window
                 THEN Restrict(state, DOMAIN state \ {k})
                 ELSE [state EXCEPT ![k] = s]
     /\ holder' = [holder EXCEPT ![r] = None]
     /\ terms' = [terms EXCEPT ![r] = NoTerms]
     /\ UNCHANGED <<now, settled, total, told, log, advice>>

\* Some gateway settles a request of the key.
Use(k) ==
  /\ total[k] < MaxTotal
  /\ total' = [total EXCEPT ![k] = @ + 1]
  /\ UNCHANGED <<now, state, settled, holder, told, terms, log, advice>>

\* record_settled_quota_usage only moves upward.
record_settled_quota_usage(k, t) ==
  settled' = [settled EXCEPT ![k] = Bigger(@, t)]

\* A total that was current at some time arrives.
Report(k, t) ==
  /\ record_settled_quota_usage(k, t)
  /\ told' = [told EXCEPT ![k] = Bigger(@, t)]
  /\ UNCHANGED <<now, state, holder, total, terms, log, advice>>

Tick ==
  /\ now < MaxTime
  /\ now' = now + 1
  /\ UNCHANGED <<state, settled, holder, total, told, terms, log, advice>>

Next ==
  \/ \E k \in Keys, limit \in Limits : \E used \in 0..total[k] :
       \/ RejectQuota(k, limit, used) \/ RejectRate(k, limit, used)
       \/ RejectConcurrent(k, limit, used)
       \/ \E r \in Requests : Admit(r, k, limit, used)
  \/ \E r \in Requests : Drop(r)
  \/ \E k \in Keys : Use(k) \/ \E t \in 0..total[k] : Report(k, t)
  \/ Tick

Spec == Init /\ [][Next]_vars

--------------------
\* Properties

Leases(k) == {r \in Requests : holder[r] = k}

\* The in-flight count is the number of leases, and a key with a lease has a
\* state: the sweep of another request never takes it away, and Drop's expect
\* does not panic.
LeasesCounted ==
  \A k \in Keys :
    Cardinality(Leases(k)) = IF k \in DOMAIN state THEN state[k].inFlight ELSE 0

\* Whatever is dropped, swept and created again, at most twice the limit is
\* admitted in any span of the length of the window (a fixed window lets two
\* bursts meet at its border).
MaxRpm == CHOOSE n \in {limit.rpm : limit \in Limits} :
            \A limit \in Limits : limit.rpm <= n
RateHolds ==
  \A k \in Keys, t \in Times :
    FoldFunctionOnSet(+, 0, log[k], {u \in Times : t <= u /\ u < t + Window})
      <= 2 * MaxRpm

Granted(r) == holder[r] = None /\ holder'[r] # None

\* A lease is granted under a limit only if fewer leases are alive, those
\* granted under older or unlimited terms included.
ConcurrencyStep ==
  \A r \in Requests :
    Granted(r) /\ terms'[r].concurrent # Unlimited
      => Cardinality(Leases(holder'[r])) < terms'[r].concurrent

\* Once a total has been reported, no request is admitted that this total
\* excludes, although older totals and older snapshots arrive after it.
QuotaStep ==
  \A r \in Requests :
    Granted(r) /\ terms'[r].quota # Unlimited /\ told[holder'[r]] > 0
      => told[holder'[r]] < terms'[r].quota

\* Both limits hold whenever a request is admitted.
LimitsHold == [][ConcurrencyStep /\ QuotaStep]_vars

\* Who waits as long as Retry-After says meets a new window.
RetryAfterSuffices == \A k \in Keys : advice[k].again >= advice[k].window + Window

\* The leases of a key are counted, and its refused requests told when to return.
LeasesSound == LeasesCounted /\ RetryAfterSuffices

--------------------
\* The inductive invariant behind the theorems

InFlight(k) == IF k \in DOMAIN state THEN state[k].inFlight ELSE 0

AdmissionTypes ==
  /\ DOMAIN state \subseteq Keys
  /\ state \in [DOMAIN state -> [start: Nat, count: Nat, inFlight: Nat]]
  /\ now \in Nat
  /\ holder \in [Requests -> Keys \cup {None}]
  /\ DOMAIN terms = Requests /\ total \in [Keys -> Nat]
  /\ settled \in [Keys -> Nat \cup {NoReport}] /\ told \in [Keys -> Nat]

\* What the process has been told is what it remembers.
ToldIsSettled ==
  \A k \in Keys : settled[k] = told[k] \/ (told[k] = 0 /\ settled[k] = NoReport)

AdmissionInv == AdmissionTypes /\ LeasesCounted /\ ToldIsSettled

RetryInv == advice \in [Keys -> [window: Int, again: Int]] /\ RetryAfterSuffices

=============================================================================
