-------------------------- MODULE Admission_proofs --------------------------
\* Proofs about Admission, for any limits, number of requests and order of
\* the reports.
EXTENDS Admission, Sequences, FiniteSetTheorems, TLAPS

LEMMA InitAdmission == Init => AdmissionInv
<1> SUFFICES ASSUME Init PROVE AdmissionInv OBVIOUS
<1>1. AdmissionTypes BY AdmissionAssumption DEF Init, AdmissionTypes
<1>2. \A k \in Keys : Leases(k) = {} /\ k \notin DOMAIN state
  BY AdmissionAssumption DEF Init, Leases
<1>3. LeasesCounted BY <1>2, FS_EmptySet DEF LeasesCounted
<1>4. ToldIsSettled BY DEF Init, ToldIsSettled
<1> QED BY <1>1, <1>3, <1>4 DEF AdmissionInv

\* The state a request finds or opens keeps the in-flight count of its key.
LEMMA OpenedKeeps ==
  ASSUME AdmissionInv, NEW k \in Keys
  PROVE  /\ Opened(k) \in [start: Nat, count: Nat, inFlight: Nat]
         /\ Opened(k).inFlight = InFlight(k)
<1> USE DEF AdmissionInv, AdmissionTypes
<1>1. CASE k \notin DOMAIN state BY <1>1 DEF Opened, InFlight
<1>2. CASE k \in DOMAIN state /\ ~Retained(k)
  <2>1. state[k].inFlight = 0 BY <1>2 DEF Retained
  <2> QED BY <1>2, <2>1 DEF Opened, InFlight
<1>3. CASE k \in DOMAIN state /\ Retained(k)
  <2>1. state[k] \in [start: Nat, count: Nat, inFlight: Nat] BY <1>3
  <2> QED BY <1>3, <2>1 DEF Opened, InFlight
<1> QED BY <1>1, <1>2, <1>3

\* The sweep takes idle states only.
LEMMA StoreEffect ==
  ASSUME AdmissionInv, NEW k \in Keys, NEW s \in [start: Nat, count: Nat, inFlight: Nat],
         Store(k, s)
  PROVE  /\ DOMAIN state' \subseteq Keys
         /\ state' \in [DOMAIN state' -> [start: Nat, count: Nat, inFlight: Nat]]
         /\ InFlight(k)' = s.inFlight
         /\ \A q \in Keys \ {k} : InFlight(q)' = InFlight(q)
<1> USE DEF AdmissionInv, AdmissionTypes
<1>1. state' = [q \in Swept \cup {k} |-> IF q = k THEN s ELSE state[q]] BY DEF Store
<1>2. Swept \subseteq DOMAIN state BY DEF Swept
<1>3. DOMAIN state' = Swept \cup {k} BY <1>1
<1>4. state' \in [DOMAIN state' -> [start: Nat, count: Nat, inFlight: Nat]] BY <1>1, <1>2, <1>3
<1>5. \A q \in DOMAIN state : q \notin Swept => state[q].inFlight = 0 BY DEF Swept, Retained
<1>6. \A q \in Keys \ {k} : InFlight(q)' = InFlight(q) BY <1>1, <1>2, <1>5 DEF InFlight
<1>7. InFlight(k)' = s.inFlight BY <1>1 DEF InFlight
<1> QED BY <1>2, <1>3, <1>4, <1>6, <1>7

\* The count in terms of InFlight.
LEMMA CountedBy ==
  LeasesCounted <=> \A k \in Keys : Cardinality(Leases(k)) = InFlight(k)
BY DEF LeasesCounted, InFlight

LEMMA FiniteLeases == \A k : IsFiniteSet(Leases(k))
BY FS_Subset, AdmissionAssumption DEF Leases

LEMMA StepAdmit ==
  ASSUME AdmissionInv, NEW r \in Requests, NEW k \in Keys, NEW limit, NEW used,
         Admit(r, k, limit, used)
  PROVE  AdmissionInv'
<1> DEFINE s == Opened(k)
           t == [start |-> s.start, count |-> s.count + 1, inFlight |-> s.inFlight + 1]
<1>1. /\ holder[r] = None /\ holder' = [holder EXCEPT ![r] = k] /\ Store(k, t)
      /\ terms' = [terms EXCEPT ![r] = limit]
      /\ UNCHANGED <<now, settled, total, told>>
  BY DEF Admit
<1>2. s \in [start: Nat, count: Nat, inFlight: Nat] /\ s.inFlight = InFlight(k) BY OpenedKeeps
<1> HIDE DEF s
<1>3. t \in [start: Nat, count: Nat, inFlight: Nat] /\ t.inFlight = InFlight(k) + 1
  <2>1. s.count + 1 \in Nat /\ s.inFlight + 1 \in Nat BY <1>2
  <2> QED BY <1>2, <2>1
<1> HIDE DEF t
<1>4. /\ DOMAIN state' \subseteq Keys
      /\ state' \in [DOMAIN state' -> [start: Nat, count: Nat, inFlight: Nat]]
      /\ InFlight(k)' = InFlight(k) + 1
      /\ \A q \in Keys \ {k} : InFlight(q)' = InFlight(q)
  BY <1>1, <1>3, StoreEffect
<1>5. AdmissionTypes' BY <1>1, <1>4 DEF AdmissionInv, AdmissionTypes
<1>6. Leases(k)' = Leases(k) \cup {r} /\ r \notin Leases(k)
  BY <1>1, AdmissionAssumption DEF Leases, AdmissionInv, AdmissionTypes
<1>7. \A q \in Keys \ {k} : Leases(q)' = Leases(q)
  BY <1>1, AdmissionAssumption DEF Leases, AdmissionInv, AdmissionTypes
<1>8. Cardinality(Leases(k)') = Cardinality(Leases(k)) + 1 BY <1>6, FiniteLeases, FS_AddElement
<1>9. \A q \in Keys : Cardinality(Leases(q)') = InFlight(q)'
  BY <1>4, <1>7, <1>8, CountedBy DEF AdmissionInv
<1>10. LeasesCounted' BY <1>9 DEF LeasesCounted, InFlight
<1> QED BY <1>1, <1>5, <1>10 DEF AdmissionInv, ToldIsSettled

LEMMA StepDrop ==
  ASSUME AdmissionInv, NEW r \in Requests, Drop(r) PROVE AdmissionInv'
<1> DEFINE States == [start: Nat, count: Nat, inFlight: Nat]
<1>1. PICK k \in Keys : k = holder[r] BY DEF Drop, AdmissionInv, AdmissionTypes
<1> DEFINE s == [state[k] EXCEPT !.inFlight = Bigger(@ - 1, 0)]
<1>2. /\ holder' = [holder EXCEPT ![r] = None]
      /\ terms' = [terms EXCEPT ![r] = NoTerms]
      /\ state' = IF s.inFlight = 0 /\ now - s.start > Window
                  THEN Restrict(state, DOMAIN state \ {k})
                  ELSE [state EXCEPT ![k] = s]
      /\ UNCHANGED <<now, settled, total, told>>
  BY <1>1 DEF Drop
<1>3. Leases(k)' = Leases(k) \ {r} /\ r \in Leases(k)
  BY <1>1, <1>2, AdmissionAssumption DEF Leases, AdmissionInv, AdmissionTypes
<1>4. \A q \in Keys \ {k} : Leases(q)' = Leases(q)
  BY <1>1, <1>2, AdmissionAssumption DEF Leases, AdmissionInv, AdmissionTypes
<1>5. /\ Cardinality(Leases(k)') = Cardinality(Leases(k)) - 1
      /\ Cardinality(Leases(k)) \in Nat /\ Cardinality(Leases(k)) # 0
  BY <1>3, FiniteLeases, FS_RemoveElement, FS_CardinalityType, FS_EmptySet
<1>6. k \in DOMAIN state /\ state[k] \in States /\ state[k].inFlight = Cardinality(Leases(k))
  BY <1>5 DEF AdmissionInv, AdmissionTypes, LeasesCounted
<1>7. s \in States /\ s.inFlight = state[k].inFlight - 1
  <2>1. Bigger(state[k].inFlight - 1, 0) = state[k].inFlight - 1 /\ state[k].inFlight - 1 \in Nat
    BY <1>5, <1>6 DEF Bigger
  <2>2. s = [start |-> state[k].start, count |-> state[k].count,
             inFlight |-> state[k].inFlight - 1]
    BY <1>6, <2>1
  <2> HIDE DEF s
  <2> QED BY <1>6, <2>1, <2>2
<1> HIDE DEF s, States
<1>8. state \in [DOMAIN state -> States] /\ DOMAIN state \subseteq Keys
  BY DEF States, AdmissionInv, AdmissionTypes
<1>9. CASE s.inFlight = 0 /\ now - s.start > Window
  <2>1. state' = [q \in DOMAIN state \ {k} |-> state[q]] BY <1>2, <1>9 DEF Restrict
  <2>2. DOMAIN state' \subseteq Keys /\ state' \in [DOMAIN state' -> States] BY <1>8, <2>1
  <2>3. AdmissionTypes' BY <1>1, <1>2, <2>2 DEF States, AdmissionInv, AdmissionTypes
  <2>4. InFlight(k)' = 0 /\ \A q \in Keys \ {k} : InFlight(q)' = InFlight(q) BY <2>1 DEF InFlight
  <2>5. \A q \in Keys : Cardinality(Leases(q)') = InFlight(q)'
    BY <1>4, <1>5, <1>6, <1>7, <1>9, <2>4, CountedBy DEF AdmissionInv
  <2> QED BY <1>2, <2>3, <2>5 DEF AdmissionInv, LeasesCounted, InFlight, ToldIsSettled
<1>10. CASE ~(s.inFlight = 0 /\ now - s.start > Window)
  <2>1. state' = [state EXCEPT ![k] = s] BY <1>2, <1>10
  <2>2. DOMAIN state' \subseteq Keys /\ state' \in [DOMAIN state' -> States] BY <1>7, <1>8, <2>1
  <2>3. AdmissionTypes' BY <1>1, <1>2, <2>2 DEF States, AdmissionInv, AdmissionTypes
  <2>4. InFlight(k)' = s.inFlight /\ \A q \in Keys \ {k} : InFlight(q)' = InFlight(q)
    BY <1>6, <2>1 DEF InFlight
  <2>5. \A q \in Keys : Cardinality(Leases(q)') = InFlight(q)'
    BY <1>4, <1>5, <1>6, <1>7, <2>4, CountedBy DEF AdmissionInv
  <2> QED BY <1>2, <2>3, <2>5 DEF AdmissionInv, LeasesCounted, InFlight, ToldIsSettled
<1> QED BY <1>9, <1>10

\* A rejected request stores at most the state of its key.
LEMMA StepReject ==
  ASSUME AdmissionInv, NEW k \in Keys, NEW limit, NEW used,
         \/ RejectQuota(k, limit, used) \/ RejectRate(k, limit, used)
         \/ RejectConcurrent(k, limit, used)
  PROVE  AdmissionInv'
<1> DEFINE States == [start: Nat, count: Nat, inFlight: Nat]
<1>1. UNCHANGED <<now, settled, holder, total, told, terms>>
  BY DEF RejectQuota, RejectRate, RejectConcurrent
<1>2. /\ DOMAIN state' \subseteq Keys /\ state' \in [DOMAIN state' -> States]
      /\ \A q \in Keys : InFlight(q)' = InFlight(q)
  <2>1. CASE RejectQuota(k, limit, used)
    <3>1. Swept \subseteq DOMAIN state /\ state' = [q \in Swept |-> state[q]]
      BY <2>1 DEF RejectQuota, Restrict, Swept
    <3>2. \A q \in DOMAIN state : q \notin Swept => state[q].inFlight = 0
      BY DEF Swept, Retained, AdmissionInv, AdmissionTypes
    <3> QED BY <3>1, <3>2 DEF InFlight, AdmissionInv, AdmissionTypes
  <2>2. CASE RejectRate(k, limit, used)
    <3>1. Store(k, Opened(k)) BY <2>2 DEF RejectRate
    <3> QED BY <3>1, OpenedKeeps, StoreEffect
  <2>3. CASE RejectConcurrent(k, limit, used)
    <3> DEFINE s == Opened(k)
               t == [s EXCEPT !.count = @ + 1]
    <3>1. Store(k, t) BY <2>3 DEF RejectConcurrent
    <3>2. s \in States /\ s.inFlight = InFlight(k) BY OpenedKeeps
    <3> HIDE DEF s
    <3>3. s.count + 1 \in Nat BY <3>2
    <3>4. t = [start |-> s.start, count |-> s.count + 1, inFlight |-> s.inFlight] BY <3>2
    <3> HIDE DEF t
    <3>5. t \in States /\ t.inFlight = InFlight(k) BY <3>2, <3>3, <3>4
    <3> QED BY <3>1, <3>5, StoreEffect
  <2> QED BY <2>1, <2>2, <2>3
<1>3. \A q \in Keys : Leases(q)' = Leases(q) BY <1>1 DEF Leases
<1>4. \A q \in Keys : Cardinality(Leases(q)') = InFlight(q)'
  BY <1>2, <1>3, CountedBy DEF AdmissionInv
<1> QED
  BY <1>1, <1>2, <1>4 DEF AdmissionInv, AdmissionTypes, LeasesCounted, InFlight, ToldIsSettled

LEMMA StepAdmission == ASSUME AdmissionInv, [Next]_vars PROVE AdmissionInv'
<1>1. ASSUME UNCHANGED <<state, holder, terms>>, now' \in Nat, total' \in [Keys -> Nat],
             settled' \in [Keys -> Nat \cup {NoReport}], told' \in [Keys -> Nat],
             ToldIsSettled'
      PROVE  AdmissionInv'
  BY <1>1 DEF AdmissionInv, AdmissionTypes, LeasesCounted, Leases
<1> USE DEF AdmissionInv, AdmissionTypes
<1>2. ASSUME NEW k \in Keys, Use(k) PROVE AdmissionInv' BY <1>1, <1>2 DEF Use, ToldIsSettled
<1>3. ASSUME NEW k \in Keys, NEW t \in 0..total[k], Report(k, t) PROVE AdmissionInv'
  <2>1. t \in Nat OBVIOUS
  <2>2. /\ settled' = [settled EXCEPT ![k] = Bigger(settled[k], t)]
        /\ told' = [told EXCEPT ![k] = Bigger(told[k], t)]
        /\ UNCHANGED <<now, state, holder, total, terms>>
    BY <1>3 DEF Report, record_settled_quota_usage
  <2>3. Bigger(settled[k], t) \in Nat /\ Bigger(told[k], t) \in Nat BY <2>1 DEF Bigger, NoReport
  <2>4. settled' \in [Keys -> Nat \cup {NoReport}] /\ told' \in [Keys -> Nat] BY <2>2, <2>3
  <2>5. Bigger(settled[k], t) = Bigger(told[k], t) BY <2>1 DEF Bigger, ToldIsSettled, NoReport
  <2>6. settled'[k] = told'[k] BY <2>2, <2>5
  <2>7. \A q \in Keys \ {k} : settled'[q] = settled[q] /\ told'[q] = told[q] BY <2>2
  <2>8. ToldIsSettled' BY <2>6, <2>7 DEF ToldIsSettled
  <2> QED BY <1>1, <2>2, <2>4, <2>8
<1>4. CASE Tick \/ UNCHANGED vars BY <1>1, <1>4 DEF Tick, vars, ToldIsSettled
<1> HIDE DEF AdmissionInv
<1> QED BY <1>2, <1>3, <1>4, StepAdmit, StepDrop, StepReject DEF Next

\* AdmissionInv is inductive.
THEOREM AdmissionInvariant == Spec => []AdmissionInv
BY InitAdmission, StepAdmission, PTL DEF Spec

\* Only admit grants leases, under the limit and usage the request brings.
LEMMA GrantedByAdmit ==
  ASSUME AdmissionInv, [Next]_vars, NEW r \in Requests, Granted(r)
  PROVE  \E k \in Keys, limit \in Limits : \E used \in 0..total[k] :
           Admit(r, k, limit, used)
<1>1. \A q \in Requests, k \in Keys : \A limit, used :
        Admit(q, k, limit, used) /\ q # r => holder'[r] = holder[r]
  BY DEF Admit, AdmissionInv, AdmissionTypes
<1>2. \A q \in Requests : Drop(q) => holder'[r] = None \/ holder'[r] = holder[r]
  BY DEF Drop, AdmissionInv, AdmissionTypes
<1>3. \A k \in Keys : \A limit, used :
        \/ RejectQuota(k, limit, used) \/ RejectRate(k, limit, used)
        \/ RejectConcurrent(k, limit, used)
        => holder' = holder
  BY DEF RejectQuota, RejectRate, RejectConcurrent
<1>4. \A k \in Keys : Use(k) \/ (\E t \in 0..total[k] : Report(k, t)) => holder' = holder
  BY DEF Use, Report
<1>5. Tick \/ UNCHANGED vars => holder' = holder BY DEF Tick, vars
<1> QED BY <1>1, <1>2, <1>3, <1>4, <1>5 DEF Next, Granted

\* A limit on concurrency counts every lease of the key, under whatever terms
\* it was granted.
LEMMA ConcurrencyAlwaysHolds ==
  ASSUME AdmissionInv, [Next]_vars PROVE ConcurrencyStep
<1> SUFFICES ASSUME NEW r \in Requests, Granted(r),
                    terms'[r].concurrent # Unlimited
             PROVE  Cardinality(Leases(holder'[r])) < terms'[r].concurrent
  BY DEF ConcurrencyStep
<1>1. PICK k \in Keys, limit \in Limits : \E used \in 0..total[k] :
        Admit(r, k, limit, used)
  BY GrantedByAdmit
<1>2. /\ holder' = [holder EXCEPT ![r] = k] /\ terms' = [terms EXCEPT ![r] = limit]
      /\ ~ConcurrentLimited(Opened(k), limit)
  BY <1>1 DEF Admit
<1>3. holder'[r] = k /\ terms'[r] = limit BY <1>2 DEF AdmissionInv, AdmissionTypes
<1>4. limit.concurrent \in Nat BY <1>3, AdmissionAssumption
<1>5. Opened(k).inFlight \in Nat /\ Opened(k).inFlight = Cardinality(Leases(k))
  BY OpenedKeeps, CountedBy DEF AdmissionInv
<1> QED BY <1>2, <1>3, <1>4, <1>5 DEF ConcurrentLimited

\* A total the process has been told of is never forgotten for an older one,
\* neither a late report nor the usage of an old snapshot.
LEMMA QuotaAlwaysHolds ==
  ASSUME AdmissionInv, [Next]_vars PROVE QuotaStep
<1> SUFFICES ASSUME NEW r \in Requests, Granted(r),
                    terms'[r].quota # Unlimited, told[holder'[r]] > 0
             PROVE  told[holder'[r]] < terms'[r].quota
  BY DEF QuotaStep
<1>1. PICK k \in Keys, limit \in Limits : \E used \in 0..total[k] :
        Admit(r, k, limit, used)
  BY GrantedByAdmit
<1>2. PICK used \in 0..total[k] : Admit(r, k, limit, used) BY <1>1
<1>3. /\ holder' = [holder EXCEPT ![r] = k] /\ terms' = [terms EXCEPT ![r] = limit]
      /\ ~QuotaExhausted(k, limit, used)
  BY <1>2 DEF Admit
<1>4. holder'[r] = k /\ terms'[r] = limit BY <1>3 DEF AdmissionInv, AdmissionTypes
<1>5. limit.quota \in Nat BY <1>4, AdmissionAssumption
<1>6. settled[k] = told[k] /\ told[k] \in Nat
  BY <1>4 DEF AdmissionInv, AdmissionTypes, ToldIsSettled
<1>7. used \in Nat BY DEF AdmissionInv, AdmissionTypes
<1> QED BY <1>3, <1>4, <1>5, <1>6, <1>7 DEF QuotaExhausted, Bigger

\* No step admits a request beyond the concurrency or the quota it brings.
THEOREM LimitsAlwaysHold == Spec => LimitsHold
<1>1. AdmissionInv /\ [Next]_vars => [ConcurrencyStep /\ QuotaStep]_vars
  BY ConcurrencyAlwaysHolds, QuotaAlwaysHolds
<1> QED BY <1>1, AdmissionInvariant, PTL DEF Spec, LimitsHold

\* Rounding up never falls short.
LEMMA RoundedUp ==
  ASSUME NEW d \in Int, NEW s \in Nat \ {0}
  PROVE  s * (d \div s + (IF d % s # 0 THEN 1 ELSE 0)) >= d
<1>1. d = s * (d \div s) + (d % s) /\ d % s \in 0..(s - 1) /\ d \div s \in Int OBVIOUS
<1>2. s * (d \div s + 1) = s * (d \div s) + s BY <1>1
<1> QED BY <1>1, <1>2

\* A refused request is told a time at which its window is over, because the
\* seconds that are left are rounded up.
LEMMA StepRetry ==
  ASSUME AdmissionInv, RetryInv, [Next]_vars PROVE RetryInv'
<1>1. ASSUME NEW k \in Keys, NEW limit, NEW used, RejectRate(k, limit, used) PROVE RetryInv'
  <2> DEFINE reset == Opened(k).start + Window
             next == [window |-> Opened(k).start, again |-> now + Second * retry_after(reset)]
  <2>1. advice' = [advice EXCEPT ![k] = next] BY <1>1 DEF RejectRate
  <2>2. /\ Opened(k).start \in Nat /\ now \in Nat /\ Window \in Nat
        /\ Second \in Nat \ {0}
    BY OpenedKeeps, AdmissionAssumption DEF AdmissionInv, AdmissionTypes
  <2> DEFINE d == reset - now
  <2>3. d \in Int BY <2>2
  <2>4. Second * retry_after(reset) >= d /\ retry_after(reset) \in Int
    <3>1. retry_after(reset) = d \div Second + (IF d % Second # 0 THEN 1 ELSE 0)
      BY DEF retry_after
    <3> HIDE DEF d
    <3>2. retry_after(reset) \in Int BY <2>2, <2>3, <3>1
    <3> QED BY <2>2, <2>3, <3>1, <3>2, RoundedUp
  <2> HIDE DEF d
  <2>5. Second * retry_after(reset) \in Int BY <2>2, <2>4
  <2>6. next.again >= next.window + Window /\ next.again \in Int /\ next.window \in Int
    <3>1. now + Second * retry_after(reset) >= Opened(k).start + Window
      BY <2>2, <2>3, <2>4, <2>5 DEF d
    <3> QED BY <2>2, <2>5, <3>1
  <2>7. next \in [window: Int, again: Int] BY <2>6
  <2> HIDE DEF next
  <2> QED BY <2>1, <2>6, <2>7 DEF RetryInv, RetryAfterSuffices
<1>2. ASSUME NEW k \in Keys, NEW limit, NEW used,
             RejectQuota(k, limit, used) \/ RejectConcurrent(k, limit, used)
      PROVE  advice' = advice
  BY <1>2 DEF RejectQuota, RejectConcurrent
<1>3. ASSUME NEW r \in Requests, NEW k \in Keys, NEW limit, NEW used,
             Admit(r, k, limit, used)
      PROVE  advice' = advice
  BY <1>3 DEF Admit
<1>4. ASSUME NEW r \in Requests, Drop(r) PROVE advice' = advice BY <1>4 DEF Drop
<1>5. ASSUME NEW k \in Keys, Use(k) \/ \E t \in 0..total[k] : Report(k, t) PROVE advice' = advice
  BY <1>5 DEF Use, Report
<1>6. Tick \/ UNCHANGED vars => advice' = advice BY DEF Tick, vars
<1>7. CASE advice' = advice BY <1>7 DEF RetryInv, RetryAfterSuffices
<1> QED BY <1>1, <1>2, <1>3, <1>4, <1>5, <1>6, <1>7 DEF Next

\* The leases of a key are counted exactly, Drop finds the state it expects, and
\* whoever waits as long as Retry-After says meets a new window.
THEOREM LeasesAlwaysSound == Spec => []LeasesSound
<1>1. Init => RetryInv BY AdmissionAssumption DEF Init, RetryInv, RetryAfterSuffices
<1>2. AdmissionInv /\ RetryInv /\ [Next]_vars => RetryInv' BY StepRetry
<1>3. AdmissionInv /\ RetryInv => LeasesSound BY DEF AdmissionInv, RetryInv, LeasesSound
<1> QED BY <1>1, <1>2, <1>3, AdmissionInvariant, PTL DEF Spec

\* A window never starts in the future.
LEMMA StartedBefore ==
  ASSUME AdmissionInv, TypeOK, NEW k \in Keys, NEW s \in KeyState, s.start <= now,
         Store(k, s)
  PROVE  /\ DOMAIN state' \subseteq Keys
         /\ \A q \in DOMAIN state' : state'[q] \in KeyState /\ state'[q].start <= now
<1>1. state' = [q \in Swept \cup {k} |-> IF q = k THEN s ELSE state[q]] BY DEF Store
<1>2. Swept \subseteq DOMAIN state BY DEF Swept
<1> QED BY <1>1, <1>2 DEF TypeOK

LEMMA OpenedBefore ==
  ASSUME AdmissionInv, TypeOK, NEW k \in Keys
  PROVE  Opened(k) \in KeyState /\ Opened(k).start <= now
<1>1. now \in Nat BY DEF AdmissionInv, AdmissionTypes
<1>2. CASE k \notin DOMAIN state \/ ~Retained(k) BY <1>1, <1>2 DEF Opened, KeyState
<1>3. CASE k \in DOMAIN state /\ Retained(k)
  <2>1. state[k] \in KeyState /\ state[k].start <= now BY <1>3 DEF TypeOK
  <2>2. CASE now - state[k].start >= Window
    <3>1. Opened(k) = [state[k] EXCEPT !.start = now, !.count = 0] BY <1>3, <2>2 DEF Opened
    <3>2. Opened(k) = [start |-> now, count |-> 0, inFlight |-> state[k].inFlight]
      BY <2>1, <3>1 DEF KeyState
    <3> QED BY <1>1, <2>1, <3>2 DEF KeyState
  <2>3. CASE ~(now - state[k].start >= Window) BY <1>3, <2>1, <2>3 DEF Opened
  <2> QED BY <2>2, <2>3
<1> QED BY <1>2, <1>3

\* The variables keep their types, whatever is admitted, refused or reported.
THEOREM AdmissionTypeOK == Spec => []TypeOK
<1>1. Init => TypeOK BY AdmissionAssumption DEF Init, TypeOK, Times
<1>2. ASSUME AdmissionInv, TypeOK, [Next]_vars PROVE TypeOK'
  <2> DEFINE S == /\ DOMAIN state' \subseteq Keys
                  /\ \A q \in DOMAIN state' : state'[q] \in KeyState /\ state'[q].start <= now
  <2>1. ASSUME NEW k \in Keys, NEW limit \in Limits, NEW used \in 0..total[k],
               RejectQuota(k, limit, used)
        PROVE  TypeOK'
    <3>1. state' = [q \in Swept |-> state[q]] /\ Swept \subseteq DOMAIN state
      BY <2>1 DEF RejectQuota, Restrict, Swept
    <3>2. S BY <1>2, <3>1 DEF TypeOK
    <3> QED BY <1>2, <2>1, <3>2 DEF RejectQuota, TypeOK
  <2>2. ASSUME NEW k \in Keys, NEW limit \in Limits, NEW used \in 0..total[k],
               RejectRate(k, limit, used)
        PROVE  TypeOK'
    <3>1. Store(k, Opened(k)) /\ UNCHANGED <<now, settled, holder, total, told, terms, log>>
      BY <2>2 DEF RejectRate
    <3>2. S BY <1>2, <3>1, OpenedBefore, StartedBefore
    <3>3. advice' \in [Keys -> [window: Int, again: Int]]
      <4>1. Opened(k).start \in Int /\ now \in Int /\ Second \in Int /\ Window \in Int
            /\ Second # 0 /\ Second > 0
        BY <1>2, OpenedBefore, AdmissionAssumption DEF KeyState, TypeOK, Times
      <4>2. retry_after(Opened(k).start + Window) \in Int BY <4>1 DEF retry_after
      <4>3. now + Second * retry_after(Opened(k).start + Window) \in Int BY <4>1, <4>2
      <4>4. advice' = [advice EXCEPT ![k] =
              [window |-> Opened(k).start,
               again |-> now + Second * retry_after(Opened(k).start + Window)]]
        BY <2>2 DEF RejectRate
      <4> QED BY <1>2, <4>1, <4>3, <4>4 DEF TypeOK
    <3> QED BY <1>2, <3>1, <3>2, <3>3 DEF TypeOK
  <2>3. ASSUME NEW k \in Keys, NEW limit \in Limits, NEW used \in 0..total[k],
               RejectConcurrent(k, limit, used)
        PROVE  TypeOK'
    <3> DEFINE s == Opened(k)
               t == [s EXCEPT !.count = @ + 1]
    <3>1. /\ Store(k, t)
          /\ UNCHANGED <<now, settled, holder, total, told, terms, log, advice>>
      BY <2>3 DEF RejectConcurrent
    <3>2. s \in KeyState /\ s.start <= now BY <1>2, OpenedBefore
    <3> HIDE DEF s
    <3>3. t \in KeyState /\ t.start <= now BY <3>2 DEF KeyState
    <3> HIDE DEF t
    <3>4. S BY <1>2, <3>1, <3>3, StartedBefore
    <3> QED BY <1>2, <3>1, <3>4 DEF TypeOK
  <2>4. ASSUME NEW r \in Requests, NEW k \in Keys, NEW limit \in Limits,
               NEW used \in 0..total[k], Admit(r, k, limit, used)
        PROVE  TypeOK'
    <3> DEFINE s == Opened(k)
               t == [start |-> s.start, count |-> s.count + 1, inFlight |-> s.inFlight + 1]
    <3>1. /\ Store(k, t) /\ holder' = [holder EXCEPT ![r] = k]
          /\ terms' = [terms EXCEPT ![r] = limit] /\ log' = [log EXCEPT ![k][now] = @ + 1]
          /\ UNCHANGED <<now, settled, total, told, advice>>
      BY <2>4 DEF Admit
    <3>2. s \in KeyState /\ s.start <= now BY <1>2, OpenedBefore
    <3> HIDE DEF s
    <3>3. t \in KeyState /\ t.start <= now BY <3>2 DEF KeyState
    <3> HIDE DEF t
    <3>4. S BY <1>2, <3>1, <3>3, StartedBefore
    <3>5. log' \in [Keys -> [Times -> Nat]] BY <1>2, <3>1 DEF TypeOK
    <3> QED BY <1>2, <3>1, <3>4, <3>5 DEF TypeOK
  <2>5. ASSUME NEW r \in Requests, Drop(r) PROVE TypeOK'
    <3>1. PICK k \in Keys : k = holder[r] BY <1>2, <2>5 DEF Drop, TypeOK
    <3> DEFINE s == [state[k] EXCEPT !.inFlight = Bigger(@ - 1, 0)]
    <3>2. /\ holder' = [holder EXCEPT ![r] = None]
          /\ terms' = [terms EXCEPT ![r] = NoTerms]
          /\ \/ state' = Restrict(state, DOMAIN state \ {k})
             \/ state' = [state EXCEPT ![k] = s]
          /\ UNCHANGED <<now, settled, total, told, log, advice>>
      BY <2>5, <3>1 DEF Drop
    <3>3. k \in DOMAIN state => s \in KeyState /\ s.start <= now
      <4> SUFFICES ASSUME k \in DOMAIN state PROVE s \in KeyState /\ s.start <= now OBVIOUS
      <4>1. state[k] \in KeyState /\ state[k].start <= now BY <1>2 DEF TypeOK
      <4>2. Bigger(state[k].inFlight - 1, 0) \in Nat BY <4>1 DEF Bigger, KeyState
      <4> QED BY <4>1, <4>2 DEF KeyState
    <3> HIDE DEF s
    <3>4. S BY <1>2, <3>2, <3>3 DEF TypeOK, Restrict
    <3> QED BY <1>2, <3>2, <3>4 DEF TypeOK
  <2>6. ASSUME NEW k \in Keys, Use(k) PROVE TypeOK'
    <3>1. total' \in [Keys -> 0..MaxTotal] BY <1>2, <2>6, AdmissionAssumption DEF Use, TypeOK
    <3> QED BY <1>2, <2>6, <3>1 DEF Use, TypeOK
  <2>7. ASSUME NEW k \in Keys, NEW t \in 0..total[k], Report(k, t) PROVE TypeOK'
    <3>1. t \in 0..MaxTotal BY <1>2, AdmissionAssumption DEF TypeOK
    <3>2. Bigger(settled[k], t) \in Nat /\ Bigger(told[k], t) \in 0..MaxTotal
      BY <1>2, <3>1, AdmissionAssumption DEF TypeOK, Bigger, NoReport
    <3>3. /\ settled' = [settled EXCEPT ![k] = Bigger(settled[k], t)]
          /\ told' = [told EXCEPT ![k] = Bigger(told[k], t)]
          /\ UNCHANGED <<now, state, holder, total, terms, log, advice>>
      BY <2>7 DEF Report, record_settled_quota_usage
    <3>4. settled' \in [Keys -> Nat \cup {NoReport}] /\ told' \in [Keys -> 0..MaxTotal]
      BY <1>2, <3>2, <3>3 DEF TypeOK
    <3> QED BY <1>2, <3>3, <3>4 DEF TypeOK
  <2>8. CASE Tick
    <3>1. /\ now' \in Times /\ now' > now /\ now \in Nat
          /\ UNCHANGED <<state, settled, holder, total, told, terms, log, advice>>
      BY <1>2, <2>8, AdmissionAssumption DEF Tick, TypeOK, Times
    <3>2. \A q \in DOMAIN state : state[q].start <= now' BY <1>2, <3>1 DEF TypeOK, KeyState, Times
    <3> QED BY <1>2, <3>1, <3>2 DEF TypeOK
  <2>9. CASE UNCHANGED vars BY <1>2, <2>9 DEF vars, TypeOK
  <2> QED BY <1>2, <2>1, <2>2, <2>3, <2>4, <2>5, <2>6, <2>7, <2>8, <2>9 DEF Next
<1> QED BY <1>1, <1>2, AdmissionInvariant, PTL DEF Spec

--------------------
\* Hosted: ProxyRequest, the request that holds an admission.  The two
\* components share no state; the theorems are about the specification of
\* ProxyRequest with its own constants.

CONSTANTS Candidates, Kind, MaxRetries, Retryable, MaxFrames, MaxEnv

VARIABLES
  pc, admission, lease, ctx, attempted, attempt, dispatched, answer, stream, client,
  events, journal, reports, up, binding, env

Px == INSTANCE ProxyRequest

USE DEF Px!Terminals, Px!Statuses

\* A context of the guard: it is about the candidate of the lease.
Ours(c) == c \in Px!Contexts /\ c.cand = lease.cand /\ c.usage \subseteq {lease.cand}

\* A request that was not admitted satisfies the invariant.
LEMMA ProxyInitial == Px!ProxyAssumption /\ Px!Init => Px!ProxyInv
<1> SUFFICES ASSUME Px!ProxyAssumption, Px!Init PROVE Px!ProxyInv OBVIOUS
<1>0. MaxRetries \in Nat BY DEF Px!ProxyAssumption
<1>1. Px!TypeOK
  <2>1. answer \in [Candidates -> Px!Statuses \cup {None}] BY DEF Px!Init
  <2>2. attempt \in 1..(MaxRetries + 1) BY <1>0 DEF Px!Init
  <2>3. binding \in Candidates \cup {None} BY DEF Px!Init
  <2>4. dispatched \in Seq(Candidates) BY DEF Px!Init
  <2>5. events \in Seq([outcome: Px!Outcomes \cup {"rejected", "noHealthy"},
                       cand: Candidates \cup {None}, usage: SUBSET Candidates])
      BY DEF Px!Init
  <2>6. admission \in BOOLEAN /\ journal \in BOOLEAN BY DEF Px!Init
  <2>7. lease \in Px!Leases \cup {None} /\ ctx \in Px!Contexts \cup {None} /\ stream \in Px!Streams \cup {None}
      BY DEF Px!Init
  <2>8. /\ pc \in {"idle", "admitted", "prepare", "send", "json", "stream", "done"}
        /\ client \in {"open", "refused", "eof", "error", "gone"}
      BY DEF Px!Init
  <2>9. attempted \subseteq Candidates /\ reports \subseteq Candidates /\ up \subseteq Candidates
      BY DEF Px!Init
  <2> QED BY <2>1, <2>2, <2>3, <2>4, <2>5, <2>6, <2>7, <2>8, <2>9 DEF Px!TypeOK
<1>2. Px!Early BY DEF Px!Init, Px!Early
<1>3. Px!Guarded BY DEF Px!Init, Px!Guarded
<1>4. Px!Tried BY DEF Px!Init, Px!Tried, Px!ReportsTrue
<1>5. Px!Streamed BY DEF Px!Init, Px!Streamed
<1>6. Px!Recorded BY DEF Px!Init, Px!Recorded
<1> QED BY <1>1, <1>2, <1>3, <1>4, <1>5, <1>6 DEF Px!ProxyInv

\* CompletionGuard::finish takes the context and records exactly one event.
LEMMA FinishRecords ==
  ASSUME Px!ProxyAssumption, Px!TypeOK, lease \in Px!Leases, events = <<>>,
         NEW c \in Px!Contexts, NEW o \in Px!Outcomes, Px!Finish(c, o)
  PROVE  /\ ctx' = None
         /\ events' \in Seq([outcome: Px!Outcomes \cup {"rejected", "noHealthy"},
                             cand: Candidates \cup {None}, usage: SUBSET Candidates])
         /\ Len(events') = 1 /\ DOMAIN events' = {1}
         /\ events'[1] = Px!Event(o, c.cand, c.usage)
         /\ events'[1].outcome = o /\ events'[1].cand = c.cand /\ events'[1].usage = c.usage
         /\ binding' \in Candidates \cup {None}
<1>1. c # None BY DEF Px!ProxyAssumption
<1>2. /\ ctx' = None /\ events' = Append(events, Px!Event(o, c.cand, c.usage))
      /\ binding' = Px!Rebound(o, c.preserve)
    BY <1>1 DEF Px!Finish
<1>3. Px!Event(o, c.cand, c.usage) \in [outcome: Px!Outcomes \cup {"rejected", "noHealthy"},
                             cand: Candidates \cup {None}, usage: SUBSET Candidates]
    BY DEF Px!Event, Px!Contexts
<1>4. binding' \in Candidates \cup {None}
  <2>1. Px!Failed(lease) \in Candidates \cup {None} BY DEF Px!Failed, Px!TypeOK
  <2>2. lease.cand \in Candidates BY DEF Px!Leases
  <2>3. CASE o = "succeeded" BY <1>2, <2>2, <2>3 DEF Px!Rebound, Px!Evicts
  <2>4. CASE o # "succeeded" /\ Px!Evicts(o) /\ ~c.preserve BY <1>2, <2>1, <2>4 DEF Px!Rebound
  <2>5. CASE o # "succeeded" /\ ~(Px!Evicts(o) /\ ~c.preserve)
    BY <1>2, <2>5 DEF Px!Rebound, Px!TypeOK
  <2> QED BY <2>3, <2>4, <2>5
<1>5. /\ Len(events') = 1 /\ events'[1] = Px!Event(o, c.cand, c.usage) /\ DOMAIN events' = {1}
      /\ events' \in Seq([outcome: Px!Outcomes \cup {"rejected", "noHealthy"},
                             cand: Candidates \cup {None}, usage: SUBSET Candidates])
  <2> HIDE DEF Px!Event
  <2> QED BY <1>2, <1>3
<1>6. events'[1].outcome = o /\ events'[1].cand = c.cand /\ events'[1].usage = c.usage
    BY <1>5 DEF Px!Event
<1> QED BY <1>2, <1>4, <1>5, <1>6

\* An error path that ends the request through finish keeps the invariant.
LEMMA EndsRecorded ==
  ASSUME Px!ProxyAssumption, Px!ProxyInv, pc \in {"prepare", "send", "json", "stream"}, ctx # None,
         NEW c, Ours(c), NEW o \in Px!Outcomes, Px!Finish(c, o), Px!Drop,
         client' \in {"open", "refused", "eof", "error", "gone"},
         attempted \subseteq attempted', attempted' \subseteq Candidates,
         UNCHANGED <<attempt, dispatched, journal, up>>,
         answer' \in [Candidates -> Px!Statuses \cup {None}], reports' \subseteq Candidates,
         \A d \in Candidates : answer'[d] # None => d \in attempted',
         \A d \in reports' : answer'[d] \in {"retry", "bad"},
         o \notin {"client", "unavailable", "cancelled"} => pc # "prepare",
         o = "succeeded" => answer'[lease.cand] = "ok"
  PROVE  Px!ProxyInv'
<1>1. /\ lease \in Px!Leases /\ journal /\ events = <<>> /\ Px!TypeOK /\ Px!Tried
      /\ pc # "prepare" => dispatched # <<>> /\ dispatched[Len(dispatched)] = lease.cand
      /\ pc = "prepare" => lease.cand \notin attempted
    BY DEF Px!ProxyInv, Px!Guarded
<1>2. /\ ctx' = None
      /\ events' \in Seq([outcome: Px!Outcomes \cup {"rejected", "noHealthy"},
                          cand: Candidates \cup {None}, usage: SUBSET Candidates])
      /\ Len(events') = 1 /\ DOMAIN events' = {1}
      /\ events'[1].outcome = o /\ events'[1].cand = lease.cand
      /\ events'[1].usage \subseteq {lease.cand}
      /\ binding' \in Candidates \cup {None}
    BY <1>1, FinishRecords DEF Ours
<1>3. /\ pc' = "done" /\ admission' = FALSE /\ lease' = None /\ stream' = None BY DEF Px!Drop
<1>4. Px!TypeOK' BY <1>1, <1>2, <1>3 DEF Px!TypeOK
<1>5. Px!Tried' BY <1>1, <1>3 DEF Px!Tried, Px!ReportsTrue, Px!TypeOK
<1>6. Px!EventFits(events[1])'
  <2>1. ASSUME NEW j \in DOMAIN dispatched, dispatched[j] = lease.cand PROVE j = Len(dispatched)
    <3>1. j \in 1..Len(dispatched) /\ dispatched \in Seq(Candidates) BY <1>1 DEF Px!TypeOK
    <3>2. dispatched[j] \in attempted BY <1>1 DEF Px!Tried
    <3>3. pc # "prepare" BY <1>1, <2>1, <3>2
    <3>4. Len(dispatched) \in DOMAIN dispatched BY <3>1
    <3> QED BY <1>1, <2>1, <3>1, <3>3, <3>4 DEF Px!Tried
  <2> QED BY <1>1, <1>2, <2>1 DEF Px!EventFits
<1>7. Px!Recorded' BY <1>1, <1>2, <1>3, <1>6 DEF Px!Recorded
<1>8. Px!Early' /\ Px!Guarded' /\ Px!Streamed' BY <1>3 DEF Px!Early, Px!Guarded, Px!Streamed
<1> QED BY <1>4, <1>5, <1>7, <1>8 DEF Px!ProxyInv

\* The request ends without an event of its own: before the guard exists, or
\* after the guard has recorded its event.
LEMMA EndsQuietly ==
  ASSUME Px!ProxyAssumption, Px!ProxyInv, ctx = None, pc # "done",
         Px!Recorded', pc' = "done", admission' = FALSE, ctx' = None, lease' = None,
         stream' \in Px!Streams \cup {None},
         client' \in {"open", "refused", "eof", "error", "gone"},
         events' \in Seq([outcome: Px!Outcomes \cup {"rejected", "noHealthy"},
                          cand: Candidates \cup {None}, usage: SUBSET Candidates]),
         UNCHANGED <<attempted, attempt, dispatched, answer, journal, reports, binding, up>>
  PROVE  Px!ProxyInv'
<1>1. Px!TypeOK' BY DEF Px!ProxyInv, Px!TypeOK
<1>2. Px!Tried' BY DEF Px!ProxyInv, Px!Tried, Px!ReportsTrue, Px!TypeOK
<1>3. Px!Early' /\ Px!Guarded' /\ Px!Streamed' BY DEF Px!Early, Px!Guarded, Px!Streamed
<1> QED BY <1>1, <1>2, <1>3 DEF Px!ProxyInv

\* A step that changes nothing of the request but where it is, before the guard.
LEMMA AdmitKeeps == ASSUME Px!ProxyAssumption, Px!ProxyInv, Px!Admit PROVE Px!ProxyInv'
<1>1. pc = "idle" BY DEF Px!Admit
<1>2. UNCHANGED <<lease, attempted, attempt, ctx, dispatched, answer, stream, events, journal,
                  reports, binding, up>>
    BY DEF Px!Admit, Px!route, Px!outside
<1>3. /\ Px!TypeOK /\ Px!Tried /\ Px!Recorded /\ lease = None /\ ctx = None /\ attempted = {} /\ attempt = 1
      /\ dispatched = <<>> /\ ~journal /\ events = <<>> /\ client = "open"
    BY <1>1 DEF Px!ProxyInv, Px!Early
<1>4. \/ pc' = "admitted" /\ admission' = TRUE /\ UNCHANGED client
      \/ pc' = "done" /\ client' = "refused" /\ UNCHANGED admission
    BY DEF Px!Admit
<1>5. Px!TypeOK' BY <1>2, <1>3, <1>4 DEF Px!TypeOK
<1>6. Px!Tried' BY <1>1, <1>2, <1>3, <1>4 DEF Px!Tried, Px!ReportsTrue
<1>7. Px!Recorded' BY <1>2, <1>3, <1>4 DEF Px!Recorded
<1>8. Px!Early' /\ Px!Guarded' /\ Px!Streamed'
  BY <1>2, <1>3, <1>4 DEF Px!Early, Px!Guarded, Px!Streamed
<1> QED BY <1>5, <1>6, <1>7, <1>8 DEF Px!ProxyInv

\* A refused body and a rejected or unroutable request end before they have a lease.
LEMMA RejectKeeps ==
  ASSUME Px!ProxyAssumption, Px!ProxyInv,
         Px!RejectBody \/ Px!Unroutable("rejected") \/ Px!Unroutable("noHealthy")
  PROVE  Px!ProxyInv'
<1>1. /\ pc = "admitted" /\ pc' = "done" /\ admission' = FALSE /\ client' = "refused"
      /\ UNCHANGED <<lease, attempted, attempt, ctx, dispatched, answer, stream, journal,
                     reports, binding, up>>
    BY DEF Px!RejectBody, Px!Unroutable, Px!route, Px!outside
<1>2. /\ Px!TypeOK /\ lease = None /\ ctx = None /\ dispatched = <<>> /\ ~journal /\ events = <<>>
    BY <1>1 DEF Px!ProxyInv, Px!Early
<1>3. CASE Px!RejectBody
  <2>1. events' = events BY <1>3 DEF Px!RejectBody
  <2>2. Px!Recorded' BY <1>1, <1>2, <2>1 DEF Px!Recorded
  <2> QED BY <1>1, <1>2, <2>1, <2>2, EndsQuietly DEF Px!TypeOK
<1>4. ASSUME NEW o \in {"rejected", "noHealthy"}, Px!Unroutable(o) PROVE Px!ProxyInv'
  <2> DEFINE e == Px!Event(o, None, {})
  <2>1. events' = Append(events, e) BY <1>4 DEF Px!Unroutable
  <2>2. /\ e \in [outcome: Px!Outcomes \cup {"rejected", "noHealthy"},
                  cand: Candidates \cup {None}, usage: SUBSET Candidates]
        /\ e.outcome = o /\ e.cand = None /\ e.usage = {}
      BY DEF Px!Event
  <2> HIDE DEF e
  <2>3. /\ events' \in Seq([outcome: Px!Outcomes \cup {"rejected", "noHealthy"},
                            cand: Candidates \cup {None}, usage: SUBSET Candidates])
        /\ Len(events') = 1 /\ DOMAIN events' = {1} /\ events'[1] = e
      BY <1>2, <2>1, <2>2
  <2>4. Px!EventFits(events[1])' BY <1>1, <1>2, <2>2, <2>3 DEF Px!EventFits, Px!Outcomes
  <2>5. Px!Recorded' BY <1>1, <1>2, <2>2, <2>3, <2>4 DEF Px!Recorded
  <2> QED BY <1>1, <1>2, <2>3, <2>5, EndsQuietly DEF Px!TypeOK
<1> QED BY <1>3, <1>4

\* replace_context starts without usage and without a terminal.
LEMMA ContextType ==
  ASSUME NEW c \in Candidates, NEW old
  PROVE  /\ Px!Context(c, old) \in Px!Contexts
         /\ Px!Context(c, old).cand = c /\ Px!Context(c, old).usage = {}
         /\ Px!Context(c, old).terminal = None
BY DEF Px!Context, Px!Contexts

\* The first candidate: the journal admits the intent and the guard is armed.
LEMMA RouteKeeps ==
  ASSUME Px!ProxyAssumption, Px!ProxyInv, NEW c \in Candidates, NEW hit \in BOOLEAN, Px!Route(c, hit)
  PROVE  Px!ProxyInv'
<1>1. /\ pc = "admitted"
      /\ UNCHANGED <<attempted, attempt, dispatched, answer, stream, events, reports, binding, up>>
    BY DEF Px!Route, Px!outside
<1>2. /\ Px!TypeOK /\ Px!Tried /\ Px!Recorded /\ lease = None /\ ctx = None /\ attempted = {} /\ attempt = 1
      /\ dispatched = <<>> /\ ~journal /\ events = <<>> /\ client = "open"
    BY <1>1 DEF Px!ProxyInv, Px!Early
<1>3. CASE /\ pc' = "prepare" /\ journal' = TRUE
           /\ lease' = [cand |-> c, hit |-> hit]
           /\ ctx' = Px!Context(c, None)
           /\ UNCHANGED <<admission, client>>
  <2>1. /\ ctx' \in Px!Contexts /\ ctx'.cand = c /\ ctx'.usage = {} /\ ctx'.terminal = None
      BY <1>3, ContextType
  <2>2. lease' \in Px!Leases /\ lease'.cand = c BY <1>3 DEF Px!Leases
  <2>3. ctx' # None BY <2>1 DEF Px!ProxyAssumption
  <2>4. Px!TypeOK' BY <1>1, <1>2, <1>3, <2>1, <2>2 DEF Px!TypeOK
  <2>5. Px!Tried' BY <1>1, <1>2, <1>3 DEF Px!Tried, Px!ReportsTrue
  <2>6. Px!Guarded' BY <1>1, <1>2, <1>3, <2>1, <2>2, <2>3 DEF Px!Guarded
  <2>7. Px!Recorded' /\ Px!Early' /\ Px!Streamed'
    BY <1>1, <1>2, <1>3 DEF Px!Recorded, Px!Early, Px!Streamed
  <2> QED BY <2>4, <2>5, <2>6, <2>7 DEF Px!ProxyInv
<1>4. CASE /\ pc' = "done" /\ client' = "refused"
           /\ admission' = FALSE
           /\ UNCHANGED <<lease, ctx, journal>>
  <2>1. Px!Recorded' BY <1>1, <1>2, <1>4 DEF Px!Recorded
  <2> QED BY <1>1, <1>2, <1>4, <2>1, EndsQuietly DEF Px!TypeOK
<1> QED BY <1>3, <1>4 DEF Px!Route

--------------------
\* The retry loop

\* A candidate that can be selected was not tried.
LEMMA SelectedFresh ==
  ASSUME NEW c \in Candidates, NEW hit \in BOOLEAN, Px!Selected(c, hit) PROVE c \notin attempted
BY DEF Px!Selected, Px!Selectable

\* Replacing a lease hands over the affinity of the one it replaces.
LEMMA ReplaceTypes ==
  ASSUME Px!ProxyAssumption, Px!TypeOK, lease \in Px!Leases,
         NEW c \in Candidates, NEW hit \in BOOLEAN, Px!Replace(c, hit)
  PROVE  /\ binding' \in Candidates \cup {None}
         /\ lease' \in Px!Leases /\ lease'.cand = c
         /\ ctx' \in Px!Contexts /\ ctx' # None /\ ctx'.cand = c /\ ctx'.usage = {} /\ ctx'.terminal = None
<1>1. binding' \in Candidates \cup {None} BY DEF Px!Replace, Px!Failed, Px!TypeOK
<1>2. lease' \in Px!Leases /\ lease'.cand = c BY DEF Px!Replace, Px!Leases
<1>3. ctx' \in Px!Contexts /\ ctx'.cand = c /\ ctx'.usage = {} /\ ctx'.terminal = None
    BY ContextType DEF Px!Replace
<1>4. ctx' # None BY <1>3 DEF Px!ProxyAssumption
<1> QED BY <1>1, <1>2, <1>3, <1>4

\* preserve_affinity changes nothing else of the context.
LEMMA PreserveOurs ==
  ASSUME Px!ProxyInv, pc \in {"prepare", "send", "json"}, NEW b \in BOOLEAN
  PROVE  /\ Ours([ctx EXCEPT !.preserve = b])
         /\ [ctx EXCEPT !.preserve = b].terminal = None
         /\ [ctx EXCEPT !.preserve = b].preserve = b
         /\ Ours(ctx) /\ Ours([ctx EXCEPT !.usage = {lease.cand}])
<1>1. ctx \in Px!Contexts /\ lease.cand \in Candidates /\ ctx.cand = lease.cand
      /\ ctx.usage \subseteq {lease.cand} /\ ctx.terminal = None
    BY DEF Px!ProxyInv, Px!TypeOK, Px!Guarded, Px!Leases
<1>2. [ctx EXCEPT !.preserve = b] \in Px!Contexts BY <1>1 DEF Px!Contexts
<1>3. [ctx EXCEPT !.usage = {lease.cand}] \in Px!Contexts BY <1>1 DEF Px!Contexts
<1> QED BY <1>1, <1>2, <1>3 DEF Ours, Px!Contexts

\* A candidate whose credentials fail is replaced before anything was sent.
LEMMA PrepareFailsKeeps ==
  ASSUME Px!ProxyAssumption, Px!ProxyInv, NEW c \in Candidates, NEW hit \in BOOLEAN,
         Px!PrepareFails(c, hit)
  PROVE  Px!ProxyInv'
<1>1. /\ pc = "prepare" /\ attempted' = attempted \cup {lease.cand}
      /\ UNCHANGED <<attempt, dispatched, answer, journal, reports, up>>
    BY DEF Px!PrepareFails, Px!outside
<1>2. /\ Px!TypeOK /\ Px!Tried /\ Px!Recorded /\ lease \in Px!Leases /\ lease.cand \in Candidates /\ journal
      /\ events = <<>> /\ client = "open" /\ ctx # None /\ lease.hit \in BOOLEAN
    BY <1>1 DEF Px!ProxyInv, Px!Guarded, Px!Leases
<1>3. CASE ~lease.hit /\ up \ attempted' # {}
  <2>1. /\ c \in up \ attempted' /\ Px!Replace(c, hit)
        /\ UNCHANGED <<pc, admission, stream, client, events>>
      BY <1>3 DEF Px!PrepareFails
  <2>2. /\ binding' \in Candidates \cup {None}
        /\ lease' \in Px!Leases /\ lease'.cand = c
        /\ ctx' \in Px!Contexts /\ ctx' # None /\ ctx'.cand = c /\ ctx'.usage = {} /\ ctx'.terminal = None
      BY <1>2, <2>1, ReplaceTypes
  <2>3. Px!TypeOK' BY <1>1, <1>2, <2>1, <2>2 DEF Px!TypeOK
  <2>4. Px!Tried' BY <1>1, <1>2, <2>1 DEF Px!Tried, Px!ReportsTrue
  <2>5. Px!Guarded' BY <1>1, <1>2, <2>1, <2>2 DEF Px!Guarded
  <2>6. Px!Recorded' BY <1>1, <1>2, <2>1 DEF Px!Recorded
  <2>7. Px!Early' /\ Px!Streamed' BY <1>1, <2>1 DEF Px!Early, Px!Streamed
  <2> QED BY <2>3, <2>4, <2>5, <2>6, <2>7 DEF Px!ProxyInv
<1>4. CASE ~(~lease.hit /\ up \ attempted' # {})
  <2>1. /\ Px!Finish([ctx EXCEPT !.preserve = lease.hit], "unavailable")
        /\ Px!Drop /\ client' = "refused"
      BY <1>4 DEF Px!PrepareFails
  <2>2. Ours([ctx EXCEPT !.preserve = lease.hit]) BY <1>1, <1>2, PreserveOurs
  <2>3. \A d \in Candidates : answer'[d] # None => d \in attempted' BY <1>1, <1>2 DEF Px!Tried
  <2>4. \A d \in reports' : answer'[d] \in {"retry", "bad"}
    BY <1>1, <1>2 DEF Px!Tried, Px!ReportsTrue
  <2>5. "unavailable" \in Px!Outcomes BY DEF Px!Outcomes
  <2> DEFINE k == [ctx EXCEPT !.preserve = lease.hit]
  <2> HIDE DEF k
  <2>6. Ours(k) /\ Px!Finish(k, "unavailable") BY <2>1, <2>2 DEF k
  <2> QED BY <1>1, <1>2, <2>1, <2>3, <2>4, <2>5, <2>6, EndsRecorded DEF Px!TypeOK
<1> QED BY <1>3, <1>4

\* Preparing marks the candidate as attempted before it is sent.
LEMMA PrepareKeeps == ASSUME Px!ProxyAssumption, Px!ProxyInv, Px!Prepare PROVE Px!ProxyInv'
<1>1. /\ pc = "prepare" /\ attempted' = attempted \cup {lease.cand}
      /\ dispatched' = Append(dispatched, lease.cand) /\ pc' = "send"
      /\ UNCHANGED <<admission, lease, attempt, answer, stream, client, events, journal,
                     reports, binding, up>>
    BY DEF Px!Prepare, Px!outside
<1>2. /\ Px!TypeOK /\ Px!Tried /\ Px!Recorded /\ lease \in Px!Leases /\ lease.cand \in Candidates /\ journal
      /\ events = <<>> /\ client = "open" /\ lease.cand \notin attempted
      /\ dispatched \in Seq(Candidates) /\ attempt \in Nat
    BY <1>1 DEF Px!ProxyInv, Px!Guarded, Px!Leases, Px!TypeOK
<1>3. /\ Ours(ctx') /\ ctx'.terminal = None /\ ctx'.preserve = (Kind[lease.cand] = "codex")
    BY <1>1, PreserveOurs DEF Px!Prepare
<1>4. ctx' \in Px!Contexts /\ ctx' # None BY <1>3 DEF Ours, Px!ProxyAssumption
<1>5. /\ dispatched' \in Seq(Candidates) /\ Len(dispatched') = Len(dispatched) + 1
      /\ \A i \in 1..Len(dispatched) : dispatched'[i] = dispatched[i]
      /\ dispatched'[Len(dispatched) + 1] = lease.cand
    BY <1>1, <1>2
<1>6. Px!TypeOK' BY <1>1, <1>2, <1>4, <1>5 DEF Px!TypeOK
<1>7. Px!Tried'
  <2>1. Len(dispatched') = attempt BY <1>1, <1>2, <1>5 DEF Px!Tried
  <2>2. ASSUME NEW i \in DOMAIN dispatched'
        PROVE  /\ dispatched'[i] \in attempted'
               /\ i < Len(dispatched') => Kind[dispatched'[i]] = "open" /\ Retryable
    <3>1. CASE i \in 1..Len(dispatched) BY <1>1, <1>2, <1>5, <3>1 DEF Px!Tried
    <3>2. CASE i = Len(dispatched) + 1 BY <1>1, <1>5, <3>2
    <3> QED BY <1>2, <1>5, <3>1, <3>2
  <2>3. ASSUME NEW i \in DOMAIN dispatched', NEW j \in DOMAIN dispatched', i < j
        PROVE  dispatched'[i] # dispatched'[j]
    <3>1. i \in 1..Len(dispatched) BY <1>2, <1>5, <2>3
    <3>2. CASE j \in 1..Len(dispatched) BY <1>2, <1>5, <2>3, <3>1, <3>2 DEF Px!Tried
    <3>3. CASE j = Len(dispatched) + 1 BY <1>2, <1>5, <3>1, <3>3 DEF Px!Tried
    <3> QED BY <1>2, <1>5, <3>2, <3>3
  <2>4. \A d \in Candidates : answer'[d] # None => d \in attempted' BY <1>1, <1>2 DEF Px!Tried
  <2>5. Px!ReportsTrue' BY <1>1, <1>2 DEF Px!Tried, Px!ReportsTrue
  <2> QED BY <1>1, <1>2, <2>1, <2>2, <2>3, <2>4, <2>5 DEF Px!Tried
<1>8. Px!Guarded'
  <2>1. answer[lease.cand] = None BY <1>2 DEF Px!Tried
  <2> QED BY <1>1, <1>2, <1>3, <1>4, <1>5, <2>1 DEF Px!Guarded, Ours
<1>9. Px!Recorded' /\ Px!Early' /\ Px!Streamed'
  BY <1>1, <1>2 DEF Px!Recorded, Px!Early, Px!Streamed
<1> QED BY <1>6, <1>7, <1>8, <1>9 DEF Px!ProxyInv

\* Nothing is left to try after a failed preparation.
LEMMA UnpreparedKeeps ==
  ASSUME Px!ProxyAssumption, Px!ProxyInv, NEW o \in Px!Outcomes, Px!Unprepared(o)
  PROVE  Px!ProxyInv'
<1>1. /\ pc = "prepare" /\ o \in {"client", "unavailable"} /\ Px!Drop /\ client' = "refused"
      /\ UNCHANGED <<attempted, attempt, dispatched, answer, journal, reports, up>>
    BY DEF Px!Unprepared, Px!outside
<1>2. Px!TypeOK /\ Px!Tried /\ ctx # None BY <1>1 DEF Px!ProxyInv, Px!Guarded
<1> DEFINE k == [ctx EXCEPT !.preserve = Kind[lease.cand] = "codex"]
<1>3. Ours(k) BY <1>1, PreserveOurs
<1>4. Px!Finish(k, o) BY DEF Px!Unprepared
<1> HIDE DEF k
<1>5. \A d \in Candidates : answer'[d] # None => d \in attempted' BY <1>1, <1>2 DEF Px!Tried
<1>6. \A d \in reports' : answer'[d] \in {"retry", "bad"}
  BY <1>1, <1>2 DEF Px!Tried, Px!ReportsTrue
<1> QED BY <1>1, <1>2, <1>3, <1>4, <1>5, <1>6, EndsRecorded DEF Px!TypeOK

\* A failed send that is not retried ends the request.
LEMMA SendFailsKeeps ==
  ASSUME Px!ProxyAssumption, Px!ProxyInv, NEW o \in Px!Outcomes, Px!SendFails(o)
  PROVE  Px!ProxyInv'
<1>1. /\ pc = "send" /\ o # "succeeded" /\ Px!Drop /\ client' = "refused" /\ Px!Finish(ctx, o)
      /\ UNCHANGED <<attempted, attempt, dispatched, answer, journal, reports, up>>
    BY DEF Px!SendFails, Px!Fail, Px!outside
<1>2. Px!TypeOK /\ Px!Tried /\ ctx # None BY <1>1 DEF Px!ProxyInv, Px!Guarded
<1>3. Ours(ctx) BY <1>1, PreserveOurs
<1>5. \A d \in Candidates : answer'[d] # None => d \in attempted' BY <1>1, <1>2 DEF Px!Tried
<1>6. \A d \in reports' : answer'[d] \in {"retry", "bad"}
  BY <1>1, <1>2 DEF Px!Tried, Px!ReportsTrue
<1> QED BY <1>1, <1>2, <1>3, <1>5, <1>6, EndsRecorded DEF Px!TypeOK

\* The answer of the candidate at hand, and the report that goes with it.
LEMMA Answered ==
  ASSUME Px!ProxyAssumption, Px!ProxyInv, pc = "send", NEW status \in Px!Statuses,
         answer' = [answer EXCEPT ![lease.cand] = status], reports' = Px!Reported(status),
         attempted' = attempted
  PROVE  /\ answer' \in [Candidates -> Px!Statuses \cup {None}] /\ reports' \subseteq Candidates
         /\ answer'[lease.cand] = status
         /\ \A d \in Candidates : answer'[d] # None => d \in attempted'
         /\ \A d \in reports' : answer'[d] \in {"retry", "bad"}
<1>1. /\ Px!TypeOK /\ Px!Tried /\ lease.cand \in Candidates /\ lease.cand \in attempted
      /\ answer[lease.cand] = None /\ Px!ReportsTrue
    BY DEF Px!ProxyInv, Px!Guarded, Px!Leases, Px!Tried
<1>2. /\ answer' \in [Candidates -> Px!Statuses \cup {None}] /\ answer'[lease.cand] = status
      /\ \A d \in Candidates \ {lease.cand} : answer'[d] = answer[d]
    BY <1>1 DEF Px!TypeOK
<1>3. reports' \subseteq Candidates BY <1>1 DEF Px!Reported, Px!TypeOK
<1>4. \A d \in Candidates : answer'[d] # None => d \in attempted' BY <1>1, <1>2 DEF Px!Tried
<1>5. ASSUME NEW d \in reports' PROVE answer'[d] \in {"retry", "bad"}
  <2>1. CASE d = lease.cand /\ status # "ok" BY <1>2, <2>1
  <2>2. CASE d = lease.cand /\ status = "ok"
    <3>1. d \in reports BY <2>2 DEF Px!Reported
    <3>2. answer[d] \in {"retry", "bad"} BY <1>1, <3>1 DEF Px!ReportsTrue
    <3> QED BY <1>1, <2>2, <3>2 DEF Px!ProxyAssumption
  <2>3. CASE d # lease.cand
    <3>1. d \in reports BY <2>3 DEF Px!Reported
    <3> QED BY <1>1, <1>2, <2>3, <3>1 DEF Px!ReportsTrue, Px!TypeOK
  <2> QED BY <2>1, <2>2, <2>3
<1> QED BY <1>2, <1>3, <1>4, <1>5

\* A retry keeps the invariant, whatever the failed attempt answered.
LEMMA RetryKeeps ==
  ASSUME Px!ProxyAssumption, Px!ProxyInv, pc = "send",
         NEW c \in Candidates, NEW hit \in BOOLEAN, Px!Retry(c, hit),
         answer' \in [Candidates -> Px!Statuses \cup {None}], reports' \subseteq Candidates,
         \A d \in Candidates : answer'[d] # None => d \in attempted,
         \A d \in reports' : answer'[d] \in {"retry", "bad"}
  PROVE  Px!ProxyInv'
<1>1. /\ pc' = "prepare" /\ attempt' = attempt + 1 /\ Px!Replace(c, hit) /\ Px!Selected(c, hit)
      /\ Kind[lease.cand] = "open" /\ Retryable /\ attempt < MaxRetries + 1
      /\ UNCHANGED <<admission, attempted, dispatched, stream, client, events, journal, up>>
    BY DEF Px!Retry, Px!MayRetry, Px!outside
<1>2. /\ Px!TypeOK /\ Px!Tried /\ Px!Recorded /\ lease \in Px!Leases /\ journal /\ events = <<>>
      /\ client = "open" /\ dispatched # <<>> /\ dispatched[Len(dispatched)] = lease.cand
      /\ ctx # None
    BY DEF Px!ProxyInv, Px!Guarded
<1>3. /\ binding' \in Candidates \cup {None}
      /\ lease' \in Px!Leases /\ lease'.cand = c
      /\ ctx' \in Px!Contexts /\ ctx' # None /\ ctx'.cand = c /\ ctx'.usage = {} /\ ctx'.terminal = None
    BY <1>1, <1>2, ReplaceTypes
<1>4. c \notin attempted BY <1>1, SelectedFresh
<1>5. MaxRetries \in Nat BY DEF Px!ProxyAssumption
<1>6. attempt' \in 1..(MaxRetries + 1) BY <1>1, <1>2, <1>5 DEF Px!TypeOK
<1>7. Px!TypeOK' BY <1>1, <1>2, <1>3, <1>6 DEF Px!TypeOK
<1>8. Px!Tried'
  <2>1. Len(dispatched) = attempt'- 1 /\ Len(dispatched) <= attempt'
    <3>1. attempt \in Nat /\ Len(dispatched) \in Nat /\ Len(dispatched) <= attempt
        BY <1>2, <1>5 DEF Px!TypeOK, Px!Tried
    <3>2. Len(dispatched) = attempt BY <1>2 DEF Px!Tried
    <3> QED BY <1>1, <3>1, <3>2
  <2>2. ASSUME NEW i \in DOMAIN dispatched
        PROVE  dispatched[i] \in attempted /\ Kind[dispatched[i]] = "open" /\ Retryable
    <3>1. i \in 1..Len(dispatched) BY <1>2 DEF Px!TypeOK
    <3>2. CASE i < Len(dispatched) BY <1>2, <3>2 DEF Px!Tried
    <3>3. CASE i = Len(dispatched) BY <1>1, <1>2, <3>3 DEF Px!Tried
    <3> QED BY <1>2, <3>1, <3>2, <3>3 DEF Px!TypeOK
  <2> QED BY <1>1, <1>2, <2>1, <2>2 DEF Px!Tried, Px!ReportsTrue
<1>9. Px!Guarded' BY <1>1, <1>2, <1>3, <1>4 DEF Px!Guarded
<1>10. Px!Recorded' /\ Px!Early' /\ Px!Streamed'
  BY <1>1, <1>2 DEF Px!Recorded, Px!Early, Px!Streamed
<1> QED BY <1>7, <1>8, <1>9, <1>10 DEF Px!ProxyInv

\* A retry follows a retryable status or a failure before the headers.
LEMMA RetriesKeep ==
  ASSUME Px!ProxyAssumption, Px!ProxyInv, NEW c \in Candidates, NEW hit \in BOOLEAN,
         Px!RetryStatus(c, hit) \/ Px!RetryFailure(c, hit)
  PROVE  Px!ProxyInv'
<1>1. pc = "send" /\ Px!Retry(c, hit) BY DEF Px!RetryStatus, Px!RetryFailure
<1>2. attempted' = attempted BY <1>1 DEF Px!Retry
<1>3. CASE Px!RetryStatus(c, hit)
  <2>1. answer' = [answer EXCEPT ![lease.cand] = "retry"] /\ reports' = Px!Reported("retry")
      BY <1>3 DEF Px!RetryStatus
  <2>2. /\ answer' \in [Candidates -> Px!Statuses \cup {None}] /\ reports' \subseteq Candidates
        /\ \A d \in Candidates : answer'[d] # None => d \in attempted'
        /\ \A d \in reports' : answer'[d] \in {"retry", "bad"}
      BY <1>1, <1>2, <2>1, Answered
  <2> QED BY <1>1, <1>2, <2>2, RetryKeeps
<1>4. CASE Px!RetryFailure(c, hit)
  <2>1. answer' = answer /\ reports' = reports BY <1>4 DEF Px!RetryFailure
  <2>2. Px!TypeOK /\ Px!Tried BY DEF Px!ProxyInv
  <2>3. \A d \in Candidates : answer'[d] # None => d \in attempted BY <2>1, <2>2 DEF Px!Tried
  <2>4. \A d \in reports' : answer'[d] \in {"retry", "bad"}
    BY <2>1, <2>2 DEF Px!Tried, Px!ReportsTrue
  <2> QED BY <1>1, <2>1, <2>2, <2>3, <2>4, RetryKeeps DEF Px!TypeOK
<1> QED BY <1>3, <1>4

--------------------
\* The response

\* A new StreamState.
LEMMA NewStreamType ==
  ASSUME Px!ProxyAssumption, NEW adapter \in BOOLEAN, NEW sse \in BOOLEAN, NEW patched \in BOOLEAN,
         NEW length \in Int \cup {None}
  PROVE  /\ Px!NewStream(adapter, sse, patched, length) \in Px!Streams
         /\ LET s == Px!NewStream(adapter, sse, patched, length) IN
              /\ s.adapter = adapter /\ s.sse = sse /\ s.patched = patched /\ s.left = length
              /\ s.open /\ s.queue = 0 /\ s.pending = None /\ ~s.finished /\ s.seen = None
BY DEF Px!NewStream, Px!Streams

\* The response headers end the request or start its body.
LEMMA RespondKeeps ==
  ASSUME Px!ProxyAssumption, Px!ProxyInv, NEW status \in Px!Statuses,
         NEW how \in {"coding", "transform", "empty", "json", "plain", "sized", "sse", "patched",
                      "adapted"},
         Px!Respond(status, how)
  PROVE  Px!ProxyInv'
<1>1. /\ pc = "send" /\ answer' = [answer EXCEPT ![lease.cand] = status]
      /\ reports' = Px!Reported(status)
      /\ UNCHANGED <<attempted, attempt, dispatched, journal, up>>
    BY DEF Px!Respond, Px!outside
<1>2. /\ answer' \in [Candidates -> Px!Statuses \cup {None}] /\ reports' \subseteq Candidates
      /\ answer'[lease.cand] = status
      /\ \A d \in Candidates : answer'[d] # None => d \in attempted'
      /\ \A d \in reports' : answer'[d] \in {"retry", "bad"}
    BY <1>1, Answered
<1>3. /\ Px!TypeOK /\ Px!Tried /\ Px!Recorded /\ lease \in Px!Leases /\ journal /\ events = <<>>
      /\ client = "open" /\ dispatched # <<>> /\ dispatched[Len(dispatched)] = lease.cand
      /\ ctx # None /\ ctx.cand = lease.cand /\ ctx.usage \subseteq {lease.cand}
      /\ ctx.terminal = None /\ lease.cand \in attempted
      /\ ctx.preserve = (Kind[lease.cand] = "codex")
    BY <1>1 DEF Px!ProxyInv, Px!Guarded
<1>4. Ours(ctx) BY <1>1, PreserveOurs
<1> DEFINE outcome == IF status = "ok" THEN "succeeded" ELSE "http"
<1>5. ASSUME NEW o \in Px!Outcomes, Px!Finish(ctx, o), Px!Drop, client' \in {"refused", "eof"},
             o = "succeeded" => status = "ok"
      PROVE  Px!ProxyInv'
    BY <1>1, <1>2, <1>3, <1>4, <1>5, EndsRecorded DEF Px!TypeOK
<1>6. CASE how \in {"coding", "transform"} /\ Px!Finish(ctx, how) /\ Px!Drop /\ client' = "refused"
    BY <1>5, <1>6 DEF Px!Outcomes
<1>7. CASE how = "empty" /\ Px!Finish(ctx, outcome) /\ Px!Drop /\ client' = "eof"
    BY <1>5, <1>7 DEF Px!Outcomes
<1>8. \/ Px!Tried' /\ Px!Early' /\ Px!Recorded'
      \/ pc' \notin {"json", "stream"} \/ events' # events \/ ctx' # ctx \/ lease' # lease
  <2> SUFFICES ASSUME pc' \in {"json", "stream"}, events' = events, ctx' = ctx, lease' = lease
               PROVE  Px!Tried' /\ Px!Early' /\ Px!Recorded'
      OBVIOUS
  <2>1. Px!Tried' BY <1>1, <1>2, <1>3 DEF Px!Tried, Px!ReportsTrue
  <2>2. Px!Recorded' BY <1>3 DEF Px!Recorded
  <2> QED BY <2>1, <2>2 DEF Px!Early
<1>9. CASE /\ how = "json" /\ status = "ok" /\ Kind[lease.cand] # "open"
           /\ pc' = "json"
           /\ UNCHANGED <<admission, lease, stream, ctx, events, binding, client>>
  <2>1. Px!TypeOK' BY <1>1, <1>2, <1>3, <1>9 DEF Px!TypeOK
  <2>2. Px!Guarded' BY <1>1, <1>2, <1>3, <1>9 DEF Px!Guarded
  <2>3. Px!Streamed' BY <1>9 DEF Px!Streamed
  <2> QED BY <1>8, <1>9, <2>1, <2>2, <2>3 DEF Px!ProxyInv
<1>10. CASE /\ how \in {"plain", "sized", "sse", "patched", "adapted"}
            /\ how = "adapted" => status = "ok" /\ Kind[lease.cand] # "open"
            /\ stream' = Px!NewStream(how = "adapted", how \in {"sse", "patched", "adapted"},
                                   how = "patched", IF how = "sized" THEN MaxFrames ELSE None)
            /\ pc' = "stream"
            /\ UNCHANGED <<admission, lease, ctx, events, binding, client>>
  <2> DEFINE adapter == how = "adapted"
             sse == how \in {"sse", "patched", "adapted"}
             patched == how = "patched"
             length == IF how = "sized" THEN MaxFrames ELSE None
  <2>1. length \in Int \cup {None} /\ (sse => length = None) /\ (patched \/ adapter => sse)
      BY DEF Px!ProxyAssumption
  <2> HIDE DEF adapter, sse, patched, length
  <2>2. adapter \in BOOLEAN /\ sse \in BOOLEAN /\ patched \in BOOLEAN BY DEF adapter, sse, patched
  <2>3. stream' = Px!NewStream(adapter, sse, patched, length)
      BY <1>10 DEF adapter, sse, patched, length
  <2>4. /\ stream' \in Px!Streams
        /\ stream'.adapter = adapter /\ stream'.sse = sse /\ stream'.patched = patched
        /\ stream'.left = length /\ stream'.open /\ stream'.queue = 0 /\ stream'.pending = None
        /\ ~stream'.finished /\ stream'.seen = None
      BY <2>1, <2>2, <2>3, NewStreamType
  <2>5. Px!TypeOK' BY <1>1, <1>2, <1>3, <1>10, <2>4 DEF Px!TypeOK
  <2>6. Px!Guarded' BY <1>1, <1>2, <1>3, <1>10 DEF Px!Guarded
  <2>7. Px!Streamed'
    <3>1. (~stream.adapter => Px!Plain)' BY <1>3, <1>10, <2>1, <2>2, <2>4 DEF Px!Plain
    <3>2. (stream.adapter => Px!Adapted)'
      <4> SUFFICES ASSUME stream'.adapter PROVE Px!Adapted' OBVIOUS
      <4>1. stream'.sse BY <2>1, <2>4
      <4>2. stream'.finished <=> stream'.seen # None BY <2>4 DEF Px!Streams
      <4> QED BY <1>3, <1>10, <2>4, <4>1, <4>2 DEF Px!Adapted
    <3> QED BY <1>3, <1>10, <2>4, <3>1, <3>2 DEF Px!Streamed
  <2> QED BY <1>8, <1>10, <2>5, <2>6, <2>7 DEF Px!ProxyInv
<1> QED BY <1>6, <1>7, <1>9, <1>10 DEF Px!Respond

\* A buffered JSON body is adapted at once.
LEMMA AdaptJsonKeeps ==
  ASSUME Px!ProxyAssumption, Px!ProxyInv, NEW good \in BOOLEAN, Px!AdaptJson(good)
  PROVE  Px!ProxyInv'
<1> DEFINE k == [ctx EXCEPT !.usage = {lease.cand}]
           o == IF good THEN "succeeded" ELSE "transform"
<1>1. /\ pc = "json" /\ Px!Finish(k, o) /\ Px!Drop /\ client' \in {"eof", "refused"}
      /\ UNCHANGED <<attempted, attempt, dispatched, answer, journal, reports, up>>
    BY DEF Px!AdaptJson, Px!outside
<1>2. Px!TypeOK /\ Px!Tried /\ ctx # None /\ answer[lease.cand] = "ok"
  BY <1>1 DEF Px!ProxyInv, Px!Guarded
<1>3. Ours(k) BY <1>1, PreserveOurs
<1>4. o \in Px!Outcomes \ {"client", "unavailable", "cancelled"} BY DEF Px!Outcomes
<1> HIDE DEF k, o
<1>5. \A d \in Candidates : answer'[d] # None => d \in attempted' BY <1>1, <1>2 DEF Px!Tried
<1>6. \A d \in reports' : answer'[d] \in {"retry", "bad"}
  BY <1>1, <1>2 DEF Px!Tried, Px!ReportsTrue
<1> QED BY <1>1, <1>2, <1>3, <1>4, <1>5, <1>6, EndsRecorded DEF Px!TypeOK

--------------------
\* The stream

\* What the steps of a stream leave alone.
Aside == UNCHANGED <<pc, admission, Px!route, dispatched, answer, journal, reports, Px!outside>>

\* A step of the stream is sound when what it makes of the stream and of the
\* events is.
LEMMA StreamKeeps ==
  ASSUME Px!ProxyAssumption, Px!ProxyInv, pc = "stream", Aside,
         stream' \in Px!Streams, Px!Streamed', ctx' \in Px!Contexts \cup {None},
         binding' \in Candidates \cup {None},
         events' \in Seq([outcome: Px!Outcomes \cup {"rejected", "noHealthy"},
                          cand: Candidates \cup {None}, usage: SUBSET Candidates]),
         Len(events') <= 1, \A i \in DOMAIN events' : Px!EventFits(events[i])',
         ctx' # None => /\ Ours(ctx') /\ events' = <<>>
                        /\ ctx'.preserve = (Kind[lease.cand] = "codex")
  PROVE  Px!ProxyInv'
<1>1. UNCHANGED <<pc, admission, lease, attempted, attempt, dispatched, answer, journal, reports, up>>
    BY DEF Aside, Px!route, Px!outside
<1>2. /\ Px!TypeOK /\ Px!Tried /\ Px!Recorded /\ lease \in Px!Leases /\ journal
      /\ dispatched # <<>> /\ dispatched[Len(dispatched)] = lease.cand /\ lease.cand \in attempted
    BY DEF Px!ProxyInv, Px!Guarded
<1>3. client' \in {"open", "eof", "error"} BY <1>1 DEF Px!Streamed
<1>4. Px!TypeOK' BY <1>1, <1>2, <1>3 DEF Px!TypeOK
<1>5. Px!Tried' BY <1>1, <1>2 DEF Px!Tried, Px!ReportsTrue
<1>6. Px!Guarded' BY <1>1, <1>2 DEF Px!Guarded, Ours
<1>7. Px!Recorded' BY <1>1 DEF Px!Recorded
<1>8. Px!Early' BY <1>1 DEF Px!Early
<1> QED BY <1>4, <1>5, <1>6, <1>7, <1>8 DEF Px!ProxyInv

\* The guard records the outcome of the stream.
LEMMA StreamFinishes ==
  ASSUME Px!ProxyAssumption, Px!ProxyInv, pc = "stream", Aside, ctx # None,
         NEW c, Ours(c), NEW o \in Px!Outcomes, Px!Finish(c, o), o = "succeeded" => Px!Ok
  PROVE  /\ ctx' = None /\ Len(events') = 1 /\ events'[1].outcome = o
         /\ stream' \in Px!Streams /\ Px!Streamed' => Px!ProxyInv'
<1>1. UNCHANGED <<pc, admission, lease, attempted, attempt, dispatched, answer, journal, reports, up>>
    BY DEF Aside, Px!route, Px!outside
<1>2. /\ Px!TypeOK /\ Px!Tried /\ lease \in Px!Leases /\ events = <<>>
      /\ dispatched # <<>> /\ dispatched[Len(dispatched)] = lease.cand
    BY DEF Px!ProxyInv, Px!Guarded
<1>3. /\ ctx' = None
      /\ events' \in Seq([outcome: Px!Outcomes \cup {"rejected", "noHealthy"},
                          cand: Candidates \cup {None}, usage: SUBSET Candidates])
      /\ Len(events') = 1 /\ DOMAIN events' = {1}
      /\ events'[1].outcome = o /\ events'[1].cand = lease.cand
      /\ events'[1].usage \subseteq {lease.cand}
      /\ binding' \in Candidates \cup {None}
    BY <1>2, FinishRecords DEF Ours
<1>4. Px!EventFits(events[1])'
  <2>1. ASSUME NEW j \in DOMAIN dispatched, dispatched[j] = lease.cand PROVE j = Len(dispatched)
    <3>1. j \in 1..Len(dispatched) /\ dispatched \in Seq(Candidates) BY <1>2 DEF Px!TypeOK
    <3>2. Len(dispatched) \in DOMAIN dispatched BY <3>1
    <3> QED BY <1>2, <2>1, <3>1, <3>2 DEF Px!Tried
  <2> QED BY <1>1, <1>2, <1>3, <2>1 DEF Px!EventFits, Px!Ok
<1>5. stream' \in Px!Streams /\ Px!Streamed' => Px!ProxyInv' BY <1>3, <1>4, StreamKeeps
<1> QED BY <1>3, <1>5

\* ... or has done so before, or waits for more of it.
LEMMA StreamGoesOn ==
  ASSUME Px!ProxyAssumption, Px!ProxyInv, pc = "stream", Aside, UNCHANGED <<events, binding>>,
         \/ ctx' = ctx
         \/ ctx # None /\ Ours(ctx') /\ ctx'.preserve = ctx.preserve,
         stream' \in Px!Streams, Px!Streamed'
  PROVE  Px!ProxyInv'
<1>1. UNCHANGED <<lease, dispatched, answer>> BY DEF Aside, Px!route
<1>2. /\ Px!TypeOK /\ Px!Recorded
      /\ ctx # None => /\ ctx.cand = lease.cand /\ ctx.usage \subseteq {lease.cand}
                       /\ events = <<>> /\ ctx.preserve = (Kind[lease.cand] = "codex")
    BY DEF Px!ProxyInv, Px!Guarded
<1>3. ctx' # None => /\ Ours(ctx') /\ events' = <<>>
                     /\ ctx'.preserve = (Kind[lease.cand] = "codex")
    BY <1>2 DEF Ours, Px!TypeOK
<1>4. ctx' \in Px!Contexts \cup {None} BY <1>2 DEF Ours, Px!TypeOK
<1>5. Len(events') <= 1 /\ \A i \in DOMAIN events' : Px!EventFits(events[i])'
    BY <1>1, <1>2 DEF Px!Recorded, Px!EventFits
<1> QED BY <1>2, <1>3, <1>4, <1>5, StreamKeeps DEF Px!TypeOK

\* What a stream that the client still reads satisfies.
LEMMA StreamFacts ==
  ASSUME Px!ProxyAssumption, Px!ProxyInv, Px!Streaming
  PROVE  /\ pc = "stream" /\ stream \in Px!Streams /\ stream # None
         /\ stream.adapter => Px!Adapted
         /\ ~stream.adapter => Px!Plain
         /\ ctx # None => Ours(ctx) /\ events = <<>>
         /\ ctx \in Px!Contexts \cup {None} /\ lease.cand \in Candidates
<1>1. pc = "stream" /\ client = "open" BY DEF Px!Streaming
<1>2. /\ stream \in Px!Streams /\ (stream.adapter => Px!Adapted) /\ (~stream.adapter => Px!Plain)
    BY <1>1 DEF Px!ProxyInv, Px!Streamed
<1>3. /\ ctx # None => Ours(ctx) /\ events = <<>>
      /\ ctx \in Px!Contexts \cup {None} /\ lease.cand \in Candidates
    BY <1>1 DEF Px!ProxyInv, Px!Guarded, Ours, Px!TypeOK, Px!Leases
<1> QED BY <1>1, <1>2, <1>3 DEF Px!ProxyAssumption

\* The outcome that a terminal event calls for.
LEMMA TerminalOutcomes ==
  ASSUME NEW t
  PROVE  /\ Px!TerminalOutcome(t) \in Px!Outcomes
         /\ Px!TerminalOutcome(t) = "succeeded" => Px!Ok
         /\ t = "failed" => Px!TerminalOutcome(t) # "succeeded"
BY DEF Px!TerminalOutcome, Px!Outcomes

\* The outcome of a body depends on its terminal and the status alone.
LEMMA TerminalSame ==
  ASSUME UNCHANGED <<lease, answer>>, stream'.seen = stream.seen
  PROVE  Px!TerminalOutcome(stream.seen)' = Px!TerminalOutcome(stream.seen)
BY DEF Px!TerminalOutcome, Px!Ok

\* An upstream or adapter error in the body.
LEMMA BreakKeeps ==
  ASSUME Px!ProxyAssumption, Px!ProxyInv, Px!Streaming, Aside,
         NEW o \in {"body", "idle", "transform"}, Px!Break(o)
  PROVE  Px!ProxyInv'
<1>1. /\ pc = "stream" /\ stream \in Px!Streams /\ (stream.adapter => Px!Adapted)
      /\ (~stream.adapter => Px!Plain) /\ (ctx # None => Ours(ctx))
    BY StreamFacts
<1>2. /\ stream' = [stream EXCEPT !.open = FALSE, !.adapter = FALSE, !.queue = 0]
      /\ Px!Finish(ctx, o) /\ client' = "error"
    BY DEF Px!Break
<1>3. stream' \in Px!Streams /\ stream'.seen = stream.seen BY <1>1, <1>2 DEF Px!Streams
<1>4. pc' = pc BY DEF Aside
<1>5. CASE ctx # None
  <2>1. /\ ctx' = None /\ Len(events') = 1 /\ events'[1].outcome = o
        /\ stream' \in Px!Streams /\ Px!Streamed' => Px!ProxyInv'
      BY <1>1, <1>2, <1>5, StreamFinishes DEF Px!Outcomes
  <2>2. Px!Streamed' BY <1>2, <1>3, <2>1 DEF Px!Streamed
  <2> QED BY <1>3, <2>1, <2>2
<1>6. CASE ctx = None
  <2>1. UNCHANGED <<ctx, events, binding>> BY <1>2, <1>6 DEF Px!Finish
  <2>2. Px!Told BY <1>1, <1>6 DEF Px!Adapted, Px!Plain
  <2>3. stream.seen = "failed" => events[1].outcome # "succeeded"
      BY <2>2, TerminalOutcomes DEF Px!Told
  <2>4. Px!Streamed' BY <1>2, <1>3, <1>6, <2>1, <2>2, <2>3 DEF Px!Streamed, Px!Told
  <2> QED BY <1>1, <1>3, <2>1, <2>4, StreamGoesOn
<1> QED BY <1>5, <1>6

\* Observing a frame counts usage for the candidate of the lease only.
LEMMA ObservedOurs ==
  ASSUME Px!ProxyAssumption, ctx \in Px!Contexts, ctx # None, Ours(ctx), lease.cand \in Candidates,
         NEW t \in Px!Terminals \cup {None}
  PROVE  /\ Ours(Px!Observed(t)) /\ Px!Observed(t).preserve = ctx.preserve /\ Px!Observed(t) # None
         /\ ctx.terminal = None => Px!Observed(t).terminal = t
<1>1. Px!Observed(t) = [ctx EXCEPT !.usage = {lease.cand},
                      !.terminal = IF ctx.terminal = None THEN t ELSE ctx.terminal]
    BY DEF Px!Observed
<1>2. Px!Observed(t) \in Px!Contexts BY <1>1 DEF Px!Contexts
<1>3. /\ Px!Observed(t).cand = ctx.cand /\ Px!Observed(t).usage = {lease.cand}
      /\ Px!Observed(t).preserve = ctx.preserve
      /\ ctx.terminal = None => Px!Observed(t).terminal = t
    BY <1>1 DEF Px!Contexts
<1> QED BY <1>2, <1>3 DEF Ours, Px!ProxyAssumption

\* A chunk that the adapter turns into client frames.
LEMMA AdaptFrameKeeps ==
  ASSUME Px!ProxyAssumption, Px!ProxyInv, Px!Reading, Aside, stream.adapter,
         NEW t \in Px!Terminals \cup {None}, NEW n \in 1..2, t # None => n = 1,
         NEW open \in BOOLEAN, Px!AdaptFrame(t, n, open)
  PROVE  Px!ProxyInv'
<1>1. Px!Streaming /\ client = "open" BY DEF Px!Reading, Px!Streaming
<1>2. /\ pc = "stream" /\ stream \in Px!Streams /\ Px!Adapted
      /\ (ctx # None => Ours(ctx)) /\ lease.cand \in Candidates
      /\ ctx \in Px!Contexts \cup {None}
    BY <1>1, StreamFacts
<1>3. CASE stream.finished BY <1>1, <1>3, BreakKeeps DEF Px!AdaptFrame
<1>4. CASE ~stream.finished
  <2>1. ctx # None /\ stream.seen = None /\ ctx.terminal = None
    BY <1>2, <1>4 DEF Px!Adapted, Px!Streams
  <2> DEFINE f == stream.frames + 1
             over == t # None
  <2>2. /\ stream' = [stream EXCEPT !.queue = n, !.frames = f, !.seen = t,
                                    !.pending = t, !.finished = over, !.open = open]
        /\ ctx' = Px!Observed(t) /\ UNCHANGED <<events, binding, client>>
      BY <1>4 DEF Px!AdaptFrame
  <2>3. f \in Nat /\ over \in BOOLEAN /\ n \in Nat BY <1>2 DEF Px!Streams
  <2>9. over <=> t # None OBVIOUS
  <2> HIDE DEF f, over
  <2>4. /\ stream' \in Px!Streams /\ stream'.adapter /\ stream'.sse = stream.sse
        /\ stream'.queue = n /\ stream'.seen = t /\ stream'.pending = t
        /\ stream'.finished = over
      BY <1>2, <2>2, <2>3 DEF Px!Streams
  <2>5. Ours(ctx') /\ ctx'.preserve = ctx.preserve /\ ctx' # None /\ ctx'.terminal = t
      BY <1>2, <2>1, <2>2, ObservedOurs
  <2>6. Px!Adapted' BY <1>2, <2>4, <2>5, <2>9 DEF Px!Adapted
  <2>7. pc' = pc BY DEF Aside
  <2>8. Px!Streamed' BY <1>1, <2>2, <2>4, <2>6, <2>7 DEF Px!Streamed
  <2> QED BY <1>2, <2>1, <2>2, <2>4, <2>5, <2>8, StreamGoesOn
<1> QED BY <1>3, <1>4

\* The rest of a frame that is passed on as it comes.
LEMMA PassKeeps ==
  ASSUME Px!ProxyAssumption, Px!ProxyInv, Px!Streaming, Aside, ~stream.adapter, UNCHANGED client,
         stream.open, NEW t \in Px!Terminals \cup {None}, t # None => stream.sse,
         stream' \in Px!Streams, ~stream'.adapter, stream'.queue = 0, stream'.seen = Px!Seen(t),
         stream'.sse = stream.sse, stream'.patched = stream.patched,
         stream.sse => stream'.left = None,
         IF ctx = None THEN UNCHANGED <<ctx, events, binding>>
         ELSE \/ /\ Px!Finish(Px!Observed(t), Px!TerminalOutcome(t))
                 /\ stream'.sse /\ stream'.open => t # None
              \/ /\ ctx' = Px!Observed(t) /\ t = None /\ stream'.open
                 /\ UNCHANGED <<events, binding>>
  PROVE  Px!ProxyInv'
<1>1. /\ pc = "stream" /\ stream \in Px!Streams /\ Px!Plain
      /\ (ctx # None => Ours(ctx)) /\ lease.cand \in Candidates
      /\ ctx \in Px!Contexts \cup {None} /\ client = "open"
    BY StreamFacts DEF Px!Streaming
<1>2. pc' = pc /\ UNCHANGED <<lease, answer>> BY DEF Aside, Px!route
<1>3. CASE ctx = None
  <2>1. Px!Told /\ (stream.sse => stream.seen # None) BY <1>1, <1>3 DEF Px!Plain
  <2>2. stream'.seen = stream.seen BY <2>1 DEF Px!Seen
  <2>3. Px!Told' BY <1>2, <1>3, <2>1, <2>2, TerminalSame DEF Px!Told
  <2>4. Px!Plain' BY <1>1, <1>3, <2>1, <2>2, <2>3 DEF Px!Plain
  <2>5. Px!Streamed' BY <1>1, <1>2, <2>4 DEF Px!Streamed
  <2> QED BY <1>1, <1>3, <2>5, StreamGoesOn
<1>4. CASE ctx # None
  <2>1. stream.seen = None /\ ctx.terminal = None BY <1>1, <1>4 DEF Px!Plain
  <2>2. stream'.seen = t BY <2>1 DEF Px!Seen
  <2>3. Ours(Px!Observed(t)) /\ Px!Observed(t).preserve = ctx.preserve /\ Px!Observed(t) # None
        /\ Px!Observed(t).terminal = t
      BY <1>1, <1>4, <2>1, ObservedOurs
  <2>4. (~stream.sse => stream.seen = None /\ ~stream.patched)' BY <1>1, <2>2 DEF Px!Plain
  <2>5. CASE /\ Px!Finish(Px!Observed(t), Px!TerminalOutcome(t))
             /\ stream'.sse /\ stream'.open => t # None
    <3>1. /\ ctx' = None /\ Len(events') = 1 /\ events'[1].outcome = Px!TerminalOutcome(t)
          /\ stream' \in Px!Streams /\ Px!Streamed' => Px!ProxyInv'
        BY <1>1, <1>4, <2>3, <2>5, StreamFinishes, TerminalOutcomes
    <3>2. Px!Told' BY <1>2, <2>2, <3>1 DEF Px!Told, Px!TerminalOutcome, Px!Ok
    <3>3. Px!Plain' BY <2>2, <2>4, <2>5, <3>1, <3>2 DEF Px!Plain
    <3>4. Px!Streamed' BY <1>1, <1>2, <3>3 DEF Px!Streamed
    <3> QED BY <3>1, <3>4
  <2>6. CASE /\ ctx' = Px!Observed(t) /\ t = None /\ stream'.open
             /\ UNCHANGED <<events, binding>>
    <3>1. Px!Plain' BY <1>4, <2>2, <2>3, <2>4, <2>6 DEF Px!Plain
    <3>2. Px!Streamed' BY <1>1, <1>2, <3>1 DEF Px!Streamed
    <3> QED BY <1>1, <1>4, <2>3, <2>6, <3>2, StreamGoesOn
  <2> QED BY <1>4, <2>5, <2>6
<1> QED BY <1>3, <1>4

\* A chunk of the upstream body, adapted or passed on.
LEMMA ChunkKeeps ==
  ASSUME Px!ProxyAssumption, Px!ProxyInv, NEW t \in Px!Terminals \cup {None}, NEW n \in 1..2, Px!Chunk(t, n)
  PROVE  Px!ProxyInv'
<1>1. /\ Px!Reading /\ Px!Streaming /\ stream.open /\ stream.queue = 0 /\ (t # None => stream.sse)
      /\ Aside
    BY DEF Px!Chunk, Px!Reading, Aside
<1>2. stream \in Px!Streams BY <1>1, StreamFacts
<1>3. CASE stream.adapter
  <2>1. Px!AdaptFrame(t, n, TRUE) /\ n \in 1..(IF t = None THEN 2 ELSE 1) BY <1>3 DEF Px!Chunk
  <2>2. t # None => n = 1 BY <2>1
  <2> QED BY <1>1, <1>3, <2>1, <2>2, AdaptFrameKeeps
<1>4. CASE ~stream.adapter
  <2>1. Px!Plain /\ ctx \in Px!Contexts \cup {None} /\ (ctx # None => Ours(ctx)) /\ lease.cand \in Candidates
      BY <1>1, <1>4, StreamFacts
  <2>2. PICK f, l : /\ f = stream.frames + 1
                    /\ l = IF stream.left = None THEN None ELSE stream.left - 1
      OBVIOUS
  <2>3. f \in Nat /\ l \in Int \cup {None} /\ (stream.left = None => l = None)
      BY <1>2, <2>2 DEF Px!Streams
  <2>4. Px!Seen(t) \in Px!Terminals \cup {None} BY <1>2 DEF Px!Seen, Px!Streams
  <2>5. /\ stream' = [stream EXCEPT !.frames = f, !.seen = Px!Seen(t), !.left = l]
        /\ Px!RecordBytes(t, stream') /\ UNCHANGED client
      BY <1>4, <2>2 DEF Px!Chunk
  <2> HIDE DEF Px!Seen
  <2>6. /\ stream' \in Px!Streams /\ ~stream'.adapter /\ stream'.queue = 0 /\ stream'.seen = Px!Seen(t)
        /\ stream'.sse = stream.sse /\ stream'.patched = stream.patched /\ stream'.left = l
        /\ stream'.open
      BY <1>1, <1>2, <1>4, <2>3, <2>4, <2>5 DEF Px!Streams
  <2>7. stream.sse => stream'.left = None BY <2>1, <2>3, <2>6 DEF Px!Plain
  <2>8. CASE ctx = None
    <3>1. Px!Observed(t) = None BY <2>8 DEF Px!Observed
    <3>2. UNCHANGED <<ctx, events, binding>> BY <2>5, <2>8, <3>1 DEF Px!RecordBytes
    <3> QED BY <1>1, <1>4, <2>5, <2>6, <2>7, <2>8, <3>2, PassKeeps
  <2>9. CASE ctx # None
    <3>1. ctx.terminal = None BY <2>1, <2>9 DEF Px!Plain
    <3>2. Px!Observed(t).terminal = t /\ Px!Observed(t) # None BY <2>1, <2>9, <3>1, ObservedOurs
    <3>3. CASE t # None \/ stream'.left = 0
      <4>1. Px!Finish(Px!Observed(t), Px!TerminalOutcome(t))
        BY <2>5, <3>2, <3>3 DEF Px!RecordBytes
      <4>2. stream'.sse /\ stream'.open => t # None BY <2>6, <2>7, <3>3 DEF Px!ProxyAssumption
      <4> QED BY <1>1, <1>4, <2>5, <2>6, <2>7, <2>9, <4>1, <4>2, PassKeeps
    <3>4. CASE ~(t # None \/ stream'.left = 0)
      <4>1. ctx' = Px!Observed(t) /\ UNCHANGED <<events, binding>>
          BY <2>5, <3>2, <3>4 DEF Px!RecordBytes
      <4> QED BY <1>1, <1>4, <2>5, <2>6, <2>7, <2>9, <3>4, <4>1, PassKeeps
    <3> QED BY <3>3, <3>4
  <2> QED BY <2>8, <2>9
<1> QED BY <1>3, <1>4

\* A frame queued by the adapter goes to the client.
LEMMA PopFrameKeeps == ASSUME Px!ProxyAssumption, Px!ProxyInv, Px!PopFrame PROVE Px!ProxyInv'
<1>1. /\ Px!Streaming /\ stream.queue > 0 /\ Aside /\ UNCHANGED client /\ client = "open"
      /\ stream' = [stream EXCEPT !.queue = stream.queue - 1]
    BY DEF Px!PopFrame, Aside, Px!Streaming
<1>2. /\ pc = "stream" /\ stream \in Px!Streams /\ (stream.adapter => Px!Adapted)
      /\ (~stream.adapter => Px!Plain) /\ (ctx # None => Ours(ctx))
    BY <1>1, StreamFacts
<1>3. stream.adapter /\ Px!Adapted BY <1>1, <1>2 DEF Px!Plain, Px!Streams
<1>4. ctx # None BY <1>1, <1>3 DEF Px!Adapted
<1>5. PICK q : q = stream.queue - 1 OBVIOUS
<1>6. q \in Nat BY <1>1, <1>2, <1>5 DEF Px!Streams
<1>7. stream' = [stream EXCEPT !.queue = q] BY <1>1, <1>5
<1>8. /\ stream' \in Px!Streams /\ stream'.adapter /\ stream'.sse = stream.sse /\ stream'.queue = q
      /\ stream'.seen = stream.seen /\ stream'.pending = stream.pending
      /\ stream'.finished = stream.finished
    BY <1>2, <1>3, <1>6, <1>7 DEF Px!Streams
<1>9. pc' = pc /\ UNCHANGED <<lease, answer>> BY DEF Px!PopFrame, Px!route
<1>10. CASE stream.queue = 1 /\ stream.pending # None
  <2>1. Px!Finish(ctx, Px!TerminalOutcome(stream.seen)) BY <1>3, <1>10 DEF Px!PopFrame, Px!Adapted
  <2>2. /\ ctx' = None /\ Len(events') = 1 /\ events'[1].outcome = Px!TerminalOutcome(stream.seen)
        /\ stream' \in Px!Streams /\ Px!Streamed' => Px!ProxyInv'
      BY <1>1, <1>2, <1>4, <2>1, StreamFinishes, TerminalOutcomes
  <2>3. Px!Told' BY <1>8, <1>9, <2>2, TerminalSame DEF Px!Told
  <2>4. stream.finished /\ stream.seen # None BY <1>3, <1>10 DEF Px!Adapted
  <2>7. q = 0 BY <1>5, <1>10
  <2>5. Px!Adapted' BY <1>3, <1>8, <2>2, <2>3, <2>4, <2>7 DEF Px!Adapted
  <2>6. Px!Streamed' BY <1>1, <1>8, <1>9, <2>5 DEF Px!Streamed
  <2> QED BY <1>8, <2>2, <2>6
<1>11. CASE ~(stream.queue = 1 /\ stream.pending # None)
  <2>1. UNCHANGED <<ctx, events, binding>> BY <1>11 DEF Px!PopFrame
  <2>2. ~stream.finished /\ stream.seen = None BY <1>3, <1>4, <1>11 DEF Px!Adapted
  <2>3. Px!Adapted' BY <1>3, <1>4, <1>8, <2>1, <2>2 DEF Px!Adapted
  <2>4. Px!Streamed' BY <1>1, <1>8, <1>9, <2>3 DEF Px!Streamed
  <2> QED BY <1>1, <1>2, <1>8, <2>1, <2>4, StreamGoesOn
<1> QED BY <1>10, <1>11

\* The upstream body breaks off or idles out.
LEMMA BreakOffKeeps ==
  ASSUME Px!ProxyAssumption, Px!ProxyInv, NEW o \in Px!Outcomes, Px!BreakOff(o) PROVE Px!ProxyInv'
BY BreakKeeps DEF Px!BreakOff, Px!Reading, Aside

\* The upstream body ends at a frame boundary.
LEMMA EndKeeps == ASSUME Px!ProxyAssumption, Px!ProxyInv, Px!End PROVE Px!ProxyInv'
<1>1. Px!Streaming /\ stream.open /\ stream.queue = 0 /\ Aside /\ Px!EndBody
    BY DEF Px!End, Px!Reading, Aside
<1>2. /\ pc = "stream" /\ stream \in Px!Streams /\ (stream.adapter => Px!Adapted)
      /\ (~stream.adapter => Px!Plain) /\ (ctx # None => Ours(ctx))
    BY <1>1, StreamFacts
<1>3. CASE stream.adapter /\ ~stream.finished BY <1>1, <1>3, BreakKeeps DEF Px!EndBody
<1>4. CASE ~(stream.adapter /\ ~stream.finished)
  <2>1. /\ stream' = [stream EXCEPT !.open = FALSE] /\ client' = "eof"
        /\ Px!Finish(ctx, Px!TerminalOutcome(stream.seen))
      BY <1>1, <1>4 DEF Px!EndBody
  <2>2. stream' \in Px!Streams /\ stream'.seen = stream.seen BY <1>2, <2>1 DEF Px!Streams
  <2>3. pc' = pc /\ UNCHANGED <<lease, answer>> BY <1>1 DEF Aside, Px!route
  <2>4. CASE ctx = None
    <3>1. UNCHANGED <<ctx, events, binding>> BY <2>1, <2>4 DEF Px!Finish
    <3>2. Px!Told BY <1>2, <2>4 DEF Px!Adapted, Px!Plain
    <3>3. Px!Told' BY <2>2, <2>3, <3>1, <3>2, TerminalSame DEF Px!Told
    <3>4. Px!Streamed' BY <2>1, <2>2, <2>3, <2>4, <3>1, <3>3 DEF Px!Streamed
    <3> QED BY <1>1, <1>2, <2>2, <3>1, <3>4, StreamGoesOn
  <2>5. CASE ctx # None
    <3>1. /\ ctx' = None /\ Len(events') = 1 /\ events'[1].outcome = Px!TerminalOutcome(stream.seen)
          /\ stream' \in Px!Streams /\ Px!Streamed' => Px!ProxyInv'
        BY <1>1, <1>2, <2>1, <2>5, StreamFinishes, TerminalOutcomes
    <3>2. Px!Told' BY <2>2, <2>3, <3>1, TerminalSame DEF Px!Told
    <3>3. Px!Streamed' BY <2>1, <2>2, <2>3, <3>1, <3>2 DEF Px!Streamed
    <3> QED BY <2>2, <3>1, <3>3
  <2> QED BY <2>4, <2>5
<1> QED BY <1>3, <1>4

\* The upstream body ends inside a frame.
LEMMA EndWithResidualKeeps ==
  ASSUME Px!ProxyAssumption, Px!ProxyInv, NEW t \in Px!Terminals \cup {None}, Px!EndWithResidual(t)
  PROVE  Px!ProxyInv'
<1>1. /\ Px!Reading /\ Px!Streaming /\ stream.open /\ stream.queue = 0 /\ Aside
      /\ stream.patched \/ stream.adapter
    BY DEF Px!EndWithResidual, Px!Reading, Aside
<1>2. stream \in Px!Streams BY <1>1, StreamFacts
<1>3. CASE stream.adapter
  <2>1. Px!AdaptFrame(t, 1, FALSE) BY <1>3 DEF Px!EndWithResidual
  <2>2. 1 \in 1..2 /\ FALSE \in BOOLEAN OBVIOUS
  <2> QED BY <1>1, <1>3, <2>1, <2>2, AdaptFrameKeeps
<1>4. CASE ~stream.adapter
  <2>1. Px!Plain /\ ctx \in Px!Contexts \cup {None} /\ (ctx # None => Ours(ctx)) /\ lease.cand \in Candidates
      BY <1>1, <1>4, StreamFacts
  <2>2. /\ stream' = [stream EXCEPT !.seen = Px!Seen(t), !.open = FALSE] /\ UNCHANGED client
        /\ IF Px!Observed(t) = None THEN UNCHANGED <<ctx, events, binding>>
           ELSE Px!Finish(Px!Observed(t), Px!TerminalOutcome(Px!Observed(t).terminal))
      BY <1>4 DEF Px!EndWithResidual
  <2>3. Px!Seen(t) \in Px!Terminals \cup {None} BY <1>2 DEF Px!Seen, Px!Streams
  <2> HIDE DEF Px!Seen
  <2>4. /\ stream' \in Px!Streams /\ ~stream'.adapter /\ stream'.queue = 0 /\ stream'.seen = Px!Seen(t)
        /\ stream'.sse = stream.sse /\ stream'.patched = stream.patched /\ ~stream'.open
        /\ stream'.left = stream.left
      BY <1>1, <1>2, <1>4, <2>2, <2>3 DEF Px!Streams
  <2>5. stream.sse /\ stream'.left = None BY <1>1, <1>4, <2>1, <2>4 DEF Px!Plain
  <2>6. CASE ctx = None
    <3>1. Px!Observed(t) = None BY <2>6 DEF Px!Observed
    <3> QED BY <1>1, <1>4, <2>2, <2>4, <2>5, <2>6, <3>1, PassKeeps
  <2>7. CASE ctx # None
    <3>1. ctx.terminal = None BY <2>1, <2>7 DEF Px!Plain
    <3>2. Px!Observed(t).terminal = t /\ Px!Observed(t) # None BY <2>1, <2>7, <3>1, ObservedOurs
    <3>3. Px!Finish(Px!Observed(t), Px!TerminalOutcome(t)) BY <2>2, <3>2
    <3> QED BY <1>1, <1>4, <2>2, <2>4, <2>5, <2>7, <3>3, PassKeeps
  <2> QED BY <2>6, <2>7
<1> QED BY <1>3, <1>4

\* The client polls a body that has ended.
LEMMA EndPollKeeps == ASSUME Px!ProxyAssumption, Px!ProxyInv, Px!EndPoll PROVE Px!ProxyInv'
<1>1. Px!Streaming /\ ~stream.open /\ stream.queue = 0 /\ Aside BY DEF Px!EndPoll, Aside
<1>2. /\ pc = "stream" /\ stream \in Px!Streams /\ (stream.adapter => Px!Adapted)
      /\ (~stream.adapter => Px!Plain) /\ (ctx # None => Ours(ctx))
    BY <1>1, StreamFacts
<1>3. CASE stream.adapter /\ ~stream.finished BY <1>1, <1>3, BreakKeeps DEF Px!EndPoll
<1>4. CASE ~(stream.adapter /\ ~stream.finished)
  <2>1. client' = "eof" /\ UNCHANGED <<stream, ctx, events, binding>> BY <1>4 DEF Px!EndPoll
  <2>2. ctx = None /\ Px!Told BY <1>1, <1>2, <1>4 DEF Px!Adapted, Px!Plain
  <2>3. pc' = pc /\ UNCHANGED <<lease, answer>> BY <1>1 DEF Aside, Px!route
  <2>4. Px!Told' BY <2>1, <2>2, <2>3, TerminalSame DEF Px!Told
  <2>5. Px!Streamed' BY <1>2, <2>1, <2>2, <2>3, <2>4 DEF Px!Streamed
  <2> QED BY <1>1, <1>2, <2>1, <2>5, StreamGoesOn
<1> QED BY <1>3, <1>4

\* The guard is dropped after it recorded its event, or before it existed.
LEMMA DropQuietly ==
  ASSUME Px!ProxyAssumption, Px!ProxyInv, ctx = None, pc \in {"admitted", "stream"}, Px!Drop,
         UNCHANGED <<ctx, events, binding>>,
         client' \in {"open", "refused", "eof", "error", "gone"},
         UNCHANGED <<attempted, attempt, dispatched, answer, journal, reports, up>>
  PROVE  Px!ProxyInv'
<1>1. Px!TypeOK /\ Px!Recorded BY DEF Px!ProxyInv
<1>2. pc = "admitted" => ~journal /\ events = <<>> BY DEF Px!ProxyInv, Px!Early
<1>3. pc = "stream" => journal /\ Len(events) = 1
    BY DEF Px!ProxyInv, Px!Guarded, Px!Streamed, Px!Adapted, Px!Plain, Px!Told
<1>4. pc' = "done" /\ admission' = FALSE /\ lease' = None /\ stream' = None BY DEF Px!Drop
<1>5. Px!Recorded' BY <1>1, <1>2, <1>3, <1>4 DEF Px!Recorded, Px!EventFits
<1> QED BY <1>1, <1>4, <1>5, EndsQuietly DEF Px!TypeOK

\* Dropping a body that has ended records nothing more.
LEMMA DropBodyKeeps == ASSUME Px!ProxyAssumption, Px!ProxyInv, Px!DropBody PROVE Px!ProxyInv'
<1>1. pc = "stream" /\ client \in {"eof", "error"} /\ Px!Finish(ctx, "cancelled") /\ Px!Drop
    BY DEF Px!DropBody
<1>2. ctx = None BY <1>1 DEF Px!ProxyInv, Px!Streamed
<1> QED BY <1>1, <1>2, DropQuietly DEF Px!DropBody, Px!Finish, Px!outside

\* A client that leaves cancels the request, at whatever step it is.
LEMMA DisconnectKeeps == ASSUME Px!ProxyAssumption, Px!ProxyInv, Px!Disconnect PROVE Px!ProxyInv'
<1>1. /\ pc \in {"admitted", "prepare", "send", "json", "stream"}
      /\ Px!Finish(ctx, "cancelled") /\ Px!Drop /\ client' = "gone"
      /\ UNCHANGED <<attempted, attempt, dispatched, answer, journal, reports, up>>
    BY DEF Px!Disconnect, Px!outside
<1>2. CASE ctx = None
  <2>1. pc \in {"admitted", "stream"} BY <1>1, <1>2 DEF Px!ProxyInv, Px!Guarded
  <2> QED BY <1>1, <1>2, <2>1, DropQuietly DEF Px!Finish
<1>3. CASE ctx # None
  <2>1. pc # "admitted" BY <1>3 DEF Px!ProxyInv, Px!Early
  <2>2. Px!TypeOK /\ Px!Tried /\ Ours(ctx)
    BY <1>1, <1>3, <2>1 DEF Px!ProxyInv, Px!Guarded, Ours, Px!TypeOK
  <2>3. \A d \in Candidates : answer'[d] # None => d \in attempted' BY <1>1, <2>2 DEF Px!Tried
  <2>4. \A d \in reports' : answer'[d] \in {"retry", "bad"}
    BY <1>1, <2>2 DEF Px!Tried, Px!ReportsTrue
  <2> QED BY <1>1, <1>3, <2>1, <2>2, <2>3, <2>4, EndsRecorded DEF Px!TypeOK, Px!Outcomes
<1> QED BY <1>2, <1>3

\* Nothing of the request depends on the channels that can be selected or on the
\* binding of the session.
LEMMA OthersKeep ==
  ASSUME Px!ProxyAssumption, Px!ProxyInv,
         UNCHANGED <<pc, admission, lease, attempted, attempt, ctx, dispatched, answer, stream,
                     client, events, journal, reports>>,
         up' \subseteq Candidates, binding' \in Candidates \cup {None}
  PROVE  Px!ProxyInv'
<1>1. Px!TypeOK' BY DEF Px!ProxyInv, Px!TypeOK
<1>2. Px!Early' /\ Px!Guarded' BY DEF Px!ProxyInv, Px!Early, Px!Guarded
<1>3. Px!Tried' /\ Px!Recorded' BY DEF Px!ProxyInv, Px!Tried, Px!ReportsTrue, Px!Recorded,
    Px!EventFits
<1>4. Px!Streamed' BY DEF Px!ProxyInv, Px!Streamed, Px!Plain, Px!Adapted, Px!Told,
    Px!TerminalOutcome, Px!Ok
<1> QED BY <1>1, <1>2, <1>3, <1>4 DEF Px!ProxyInv

\* Other requests and health checks change channels and the binding.
LEMMA EnvKeeps ==
  ASSUME Px!ProxyAssumption, Px!ProxyInv, NEW c \in Candidates, Px!Flap(c) \/ Px!OtherBinds(c)
  PROVE  Px!ProxyInv'
<1>1. Px!TypeOK BY DEF Px!ProxyInv
<1>2. CASE Px!Flap(c) BY <1>1, <1>2, OthersKeep DEF Px!Flap, Px!route, Px!TypeOK
<1>3. CASE Px!OtherBinds(c) BY <1>1, <1>3, OthersKeep DEF Px!OtherBinds, Px!route, Px!TypeOK
<1> QED BY <1>2, <1>3

\* Every step of the retry loop, the body and their environment keeps the invariant.
LEMMA ProxyStep == ASSUME Px!ProxyAssumption, Px!ProxyInv, [Px!Next]_(Px!vars) PROVE Px!ProxyInv'
<1>1. CASE Px!Admit BY <1>1, AdmitKeeps
<1>2. CASE Px!RejectBody \/ Px!Unroutable("rejected") \/ Px!Unroutable("noHealthy")
  BY <1>2, RejectKeeps
<1>3. ASSUME NEW c \in Candidates, NEW hit \in BOOLEAN, Px!Loop(c, hit) PROVE Px!ProxyInv'
    BY <1>3, RouteKeeps, PrepareFailsKeeps, RetriesKeep DEF Px!Loop
<1>4. CASE Px!Prepare BY <1>4, PrepareKeeps
<1>5. ASSUME NEW o \in Px!Outcomes, Px!Unprepared(o) \/ Px!SendFails(o) \/ Px!BreakOff(o) PROVE Px!ProxyInv'
    BY <1>5, UnpreparedKeeps, SendFailsKeeps, BreakOffKeeps
<1>6. ASSUME NEW status \in Px!Statuses,
             NEW how \in {"coding", "transform", "empty", "json", "plain", "sized", "sse",
                          "patched", "adapted"}, Px!Respond(status, how)
      PROVE  Px!ProxyInv'
    BY <1>6, RespondKeeps
<1>7. ASSUME NEW good \in BOOLEAN, Px!AdaptJson(good) PROVE Px!ProxyInv' BY <1>7, AdaptJsonKeeps
<1>8. ASSUME NEW t \in Px!Terminals \cup {None}, NEW n \in 1..2, Px!Chunk(t, n) PROVE Px!ProxyInv'
    BY <1>8, ChunkKeeps
<1>9. ASSUME NEW t \in Px!Terminals \cup {None}, Px!EndWithResidual(t) PROVE Px!ProxyInv'
    BY <1>9, EndWithResidualKeeps
<1>10. CASE Px!PopFrame \/ Px!End \/ Px!EndPoll \/ Px!DropBody
    BY <1>10, PopFrameKeeps, EndKeeps, EndPollKeeps, DropBodyKeeps
<1>11. CASE Px!Disconnect BY <1>11, DisconnectKeeps
<1>12. ASSUME NEW c \in Candidates, Px!Flap(c) \/ Px!OtherBinds(c) PROVE Px!ProxyInv'
  BY <1>12, EnvKeeps
<1>13. CASE UNCHANGED Px!vars BY <1>13, OthersKeep DEF Px!vars, Px!ProxyInv, Px!TypeOK
<1> QED
    BY <1>1, <1>2, <1>3, <1>4, <1>5, <1>6, <1>7, <1>8, <1>9, <1>10, <1>11, <1>12, <1>13 DEF
      Px!Next, Px!Step

\* The retry loop, the body stream and CompletionGuard keep their records in
\* step, whatever the candidates answer and whenever the client leaves.
THEOREM ProxyInvariant == Px!ProxyAssumption /\ Px!Spec => []Px!ProxyInv
<1> SUFFICES ASSUME Px!ProxyAssumption PROVE Px!Spec => []Px!ProxyInv OBVIOUS
<1>1. Px!Init => Px!ProxyInv BY ProxyInitial
<1>2. Px!ProxyInv /\ [Px!Next]_(Px!vars) => Px!ProxyInv' BY ProxyStep
<1> QED BY <1>1, <1>2, PTL DEF Px!Spec

\* The invariant says what the run checks.
LEMMA ProxySound == ASSUME Px!ProxyAssumption, Px!ProxyInv PROVE Px!RequestsSound
<1>1. /\ Px!TypeOK /\ Px!Tried /\ Px!Recorded /\ Px!Streamed /\ Px!Guarded /\ Px!Early
  BY DEF Px!ProxyInv
<1>2. Px!OneEvent
  <2>1. Len(events) <= 1 /\ Len(events) \in Nat BY <1>1 DEF Px!Recorded, Px!TypeOK
  <2>2. ASSUME pc = "done" PROVE Len(events) = 1 <=> (journal \/ \E i \in DOMAIN events : events[i].cand = None)
    <3>1. CASE journal BY <1>1, <2>2, <3>1 DEF Px!Recorded
    <3>2. CASE ~journal /\ events = <<>> BY <3>2
    <3>3. CASE ~journal /\ Len(events) = 1 /\ events[1].cand = None
      <4>1. 1 \in DOMAIN events BY <1>1, <3>3 DEF Px!TypeOK
      <4> QED BY <3>3, <4>1
    <3> QED BY <1>1, <2>2, <3>1, <3>2, <3>3 DEF Px!Recorded
  <2> QED BY <2>1, <2>2 DEF Px!OneEvent
<1>3. Px!DispatchedOnce
  <2>1. Len(dispatched) <= MaxRetries + 1
    <3>1. MaxRetries \in Nat BY DEF Px!ProxyAssumption
    <3>2. attempt \in 1..(MaxRetries + 1) /\ Len(dispatched) \in Nat /\ Len(dispatched) <= attempt
        BY <1>1 DEF Px!TypeOK, Px!Tried
    <3> QED BY <3>1, <3>2
  <2>2. ASSUME NEW i \in DOMAIN dispatched, NEW j \in DOMAIN dispatched, i < j
        PROVE  dispatched[i] # dispatched[j] /\ Kind[dispatched[i]] = "open" /\ Retryable
    <3>1. i \in 1..Len(dispatched) /\ j \in 1..Len(dispatched) BY <1>1 DEF Px!TypeOK
    <3>2. i < Len(dispatched) BY <1>1, <2>2, <3>1 DEF Px!TypeOK
    <3> QED BY <1>1, <2>2, <3>2 DEF Px!Tried
  <2> QED BY <2>1, <2>2 DEF Px!DispatchedOnce
<1>4. Px!ReportsTrue BY <1>1 DEF Px!Tried
<1>5. Px!BillsLastAttempt BY <1>1 DEF Px!BillsLastAttempt, Px!Recorded, Px!EventFits
<1>6. Px!OutcomeHonest
  <2>1. \A i \in DOMAIN events : events[i].outcome = "succeeded" => answer[events[i].cand] = "ok"
      BY <1>1 DEF Px!Recorded, Px!EventFits
  <2>2. ASSUME pc = "stream", stream.seen = "failed", events # <<>>
        PROVE  events[1].outcome # "succeeded"
    <3>1. CASE client = "open"
      <4>1. ctx = None BY <1>1, <2>2 DEF Px!Guarded
      <4>2. Px!Told BY <1>1, <2>2, <3>1, <4>1 DEF Px!Streamed, Px!Adapted, Px!Plain
      <4> QED BY <2>2, <4>2, TerminalOutcomes DEF Px!Told
    <3>2. CASE client = "eof"
      <4>1. Px!Told BY <1>1, <2>2, <3>2 DEF Px!Streamed
      <4> QED BY <2>2, <4>1, TerminalOutcomes DEF Px!Told
    <3>3. CASE client = "error" BY <1>1, <2>2, <3>3 DEF Px!Streamed
    <3> QED BY <1>1, <2>2, <3>1, <3>2, <3>3 DEF Px!Streamed
  <2>3. ASSUME pc = "stream", client = "eof"
        PROVE  /\ events # <<>>
               /\ events[1].outcome = IF answer[lease.cand] # "ok" THEN "http"
                                ELSE IF stream.seen = "failed" THEN "sse" ELSE "succeeded"
    <3>1. Px!Told BY <1>1, <2>3 DEF Px!Streamed
    <3> QED BY <3>1 DEF Px!Told, Px!TerminalOutcome, Px!Ok
  <2> QED BY <2>1, <2>2, <2>3 DEF Px!OutcomeHonest
<1> QED BY <1>2, <1>3, <1>4, <1>5, <1>6 DEF Px!RequestsSound

\* For every set of candidates, number of retries and length of the body: a
\* request records at most one event and exactly one once it was journalled, no
\* candidate is sent to twice nor more often than max_retries allows, usage is
\* counted for the candidate that answered, admission and lease go back at the
\* end, and success is recorded only for a body that ended (forward_request,
\* CompletionGuard, ProxyBodyStream).
THEOREM ProxyAlwaysSound == Px!ProxyAssumption /\ Px!Spec => []Px!RequestsSound
<1> SUFFICES ASSUME Px!ProxyAssumption PROVE Px!Spec => []Px!RequestsSound OBVIOUS
<1>1. Px!Spec => []Px!ProxyInv BY ProxyInvariant
<1>2. Px!ProxyInv => Px!RequestsSound BY ProxySound
<1> QED BY <1>1, <1>2, PTL

\* A binding is lost only through Failed of a lease whose channel is not Codex'.
LEMMA FinishSticky ==
  ASSUME Px!ProxyInv, pc \in {"prepare", "send", "json", "stream"}, ctx # None,
         NEW c \in Px!Contexts, NEW o \in Px!Outcomes, Px!Finish(c, o), Px!ProxyAssumption,
         lease.hit /\ Px!Evicts(o) /\ ~c.preserve => Kind[lease.cand] # "codex"
  PROVE  Px!StickyKept
<1>1. binding' = Px!Rebound(o, c.preserve) BY DEF Px!Finish, Px!ProxyAssumption
<1>2. lease \in Px!Leases /\ lease # None /\ lease.cand \in Candidates /\ None \notin Candidates
    BY DEF Px!ProxyInv, Px!Guarded, Px!Leases, Px!ProxyAssumption
<1>3. CASE o = "succeeded"
  <2>1. binding' = lease.cand BY <1>1, <1>3 DEF Px!Rebound, Px!Evicts
  <2> QED BY <1>2, <2>1 DEF Px!StickyKept
<1>4. CASE o # "succeeded" /\ Px!Evicts(o) /\ ~c.preserve
  <2>1. binding' = Px!Failed(lease) BY <1>1, <1>4 DEF Px!Rebound
  <2> QED BY <1>2, <1>4, <2>1 DEF Px!StickyKept, Px!Failed
<1>5. CASE o # "succeeded" /\ ~(Px!Evicts(o) /\ ~c.preserve)
    BY <1>1, <1>5 DEF Px!Rebound, Px!StickyKept
<1> QED BY <1>3, <1>4, <1>5

\* replace drops a binding only of a channel that is not sticky.
LEMMA ReplaceSticky ==
  ASSUME Px!ProxyAssumption, Px!ProxyInv, pc \in {"prepare", "send"},
         NEW c \in Candidates, NEW hit \in BOOLEAN, Px!Replace(c, hit),
         ~lease.hit \/ Kind[lease.cand] = "open"
  PROVE  Px!StickyKept
<1>1. lease # None BY DEF Px!ProxyInv, Px!Guarded, Px!ProxyAssumption
<1> QED BY <1>1 DEF Px!Replace, Px!Failed, Px!StickyKept

\* The guard's own context is finished after the dispatch.
LEMMA FinishOwn ==
  ASSUME Px!ProxyAssumption, Px!ProxyInv, pc \in {"send", "json", "stream"}, ctx # None,
         NEW c, NEW o \in Px!Outcomes, Px!Finish(c, o), Ours(c), c.preserve = ctx.preserve
  PROVE  Px!StickyKept
<1>1. ctx.preserve = (Kind[lease.cand] = "codex") BY DEF Px!ProxyInv, Px!Guarded
<1> QED BY <1>1, FinishSticky DEF Ours

\* finish on the context the guard holds, if it still holds one.
LEMMA FinishGuard ==
  ASSUME Px!ProxyAssumption, Px!ProxyInv, pc \in {"send", "json", "stream"},
         NEW o \in Px!Outcomes, Px!Finish(ctx, o)
  PROVE  Px!StickyKept
<1>1. CASE ctx = None BY <1>1 DEF Px!Finish, Px!StickyKept
<1>2. CASE ctx # None
  <2>1. Ours(ctx) BY <1>2 DEF Px!ProxyInv, Px!Guarded, Px!TypeOK, Ours
  <2> QED BY <1>2, <2>1, FinishOwn
<1> QED BY <1>1, <1>2

\* A request that is cancelled leaves the binding alone.
LEMMA CancelSticky ==
  ASSUME Px!ProxyAssumption, Px!ProxyInv, Px!Finish(ctx, "cancelled") PROVE Px!StickyKept
<1>1. binding' = binding BY DEF Px!Finish, Px!Rebound, Px!Evicts
<1> QED BY <1>1 DEF Px!StickyKept

\* Choosing another candidate keeps the binding of a sticky channel.
LEMMA StickySend ==
  ASSUME Px!ProxyAssumption, Px!ProxyInv, NEW c \in Candidates, NEW hit \in BOOLEAN,
         Px!PrepareFails(c, hit) \/ Px!RetryStatus(c, hit) \/ Px!RetryFailure(c, hit)
  PROVE  Px!StickyKept
<1>1. CASE Px!PrepareFails(c, hit)
  <2>1. pc = "prepare" BY <1>1 DEF Px!PrepareFails
  <2>2. CASE ~lease.hit /\ up \ attempted' # {}
      BY <1>1, <2>1, <2>2, ReplaceSticky DEF Px!PrepareFails
  <2>3. CASE ~(~lease.hit /\ up \ attempted' # {})
    <3> DEFINE k == [ctx EXCEPT !.preserve = lease.hit]
    <3>1. ctx # None /\ lease.hit \in BOOLEAN BY <2>1 DEF Px!ProxyInv, Px!Guarded, Px!Leases
    <3>2. Px!Finish(k, "unavailable") BY <1>1, <2>3 DEF Px!PrepareFails
    <3>3. Ours(k) /\ k.preserve = lease.hit BY <2>1, <3>1, PreserveOurs
    <3> HIDE DEF k
    <3> QED BY <2>1, <3>1, <3>2, <3>3, FinishSticky DEF Ours, Px!Outcomes
  <2> QED BY <2>2, <2>3
<1>2. CASE Px!RetryStatus(c, hit) \/ Px!RetryFailure(c, hit)
    BY <1>2, ReplaceSticky DEF Px!RetryStatus, Px!RetryFailure, Px!Retry, Px!MayRetry
<1> QED BY <1>1, <1>2

\* A failed request keeps the binding of a sticky channel.
LEMMA StickyFail ==
  ASSUME Px!ProxyAssumption, Px!ProxyInv, NEW o \in Px!Outcomes, Px!Unprepared(o) \/ Px!SendFails(o) \/ Px!BreakOff(o)
  PROVE  Px!StickyKept
<1>1. CASE Px!Unprepared(o)
  <2> DEFINE k == [ctx EXCEPT !.preserve = Kind[lease.cand] = "codex"]
  <2>1. pc = "prepare" /\ Px!Finish(k, o) BY <1>1 DEF Px!Unprepared
  <2>2. ctx # None BY <2>1 DEF Px!ProxyInv, Px!Guarded
  <2>3. Ours(k) /\ k.preserve = (Kind[lease.cand] = "codex") BY <2>1, PreserveOurs
  <2> HIDE DEF k
  <2> QED BY <2>1, <2>2, <2>3, FinishSticky DEF Ours
<1>2. CASE Px!SendFails(o) BY <1>2, FinishGuard DEF Px!SendFails, Px!Fail
<1>3. CASE Px!BreakOff(o) BY <1>3, FinishGuard DEF Px!BreakOff, Px!Break, Px!Reading, Px!Streaming
<1> QED BY <1>1, <1>2, <1>3

\* The response headers keep the binding of a sticky channel.
LEMMA StickyRespond ==
  ASSUME Px!ProxyAssumption, Px!ProxyInv, NEW status \in Px!Statuses,
         NEW how \in {"coding", "transform", "empty", "json", "plain", "sized", "sse", "patched",
                      "adapted"},
         Px!Respond(status, how)
  PROVE  Px!StickyKept
<1>1. pc = "send" BY DEF Px!Respond
<1>2. CASE binding' = binding BY <1>2 DEF Px!StickyKept
<1>3. ASSUME NEW o \in Px!Outcomes, Px!Finish(ctx, o) PROVE Px!StickyKept
  BY <1>1, <1>3, FinishGuard
<1> QED BY <1>2, <1>3 DEF Px!Respond, Px!Outcomes

\* Adapting a JSON body keeps the binding of a sticky channel.
LEMMA StickyJson ==
  ASSUME Px!ProxyAssumption, Px!ProxyInv, NEW good \in BOOLEAN, Px!AdaptJson(good) PROVE Px!StickyKept
<1> DEFINE k == [ctx EXCEPT !.usage = {lease.cand}]
           o == IF good THEN "succeeded" ELSE "transform"
<1>1. pc = "json" /\ Px!Finish(k, o) BY DEF Px!AdaptJson
<1>2. Ours(k) BY <1>1, PreserveOurs
<1>3. ctx # None /\ ctx \in Px!Contexts BY <1>1 DEF Px!ProxyInv, Px!Guarded, Px!TypeOK
<1>4. k.preserve = ctx.preserve BY <1>3 DEF Px!Contexts
<1>5. o \in Px!Outcomes BY DEF Px!Outcomes
<1> HIDE DEF k, o
<1> QED BY <1>1, <1>2, <1>3, <1>4, <1>5, FinishOwn

\* A frame of the body keeps the binding of a sticky channel.
LEMMA StickyObserved ==
  ASSUME Px!ProxyAssumption, Px!ProxyInv, Px!Streaming, NEW t \in Px!Terminals \cup {None}, NEW o \in Px!Outcomes,
         Px!Finish(Px!Observed(t), o)
  PROVE  Px!StickyKept
<1>1. pc = "stream" /\ (ctx # None => Ours(ctx)) /\ ctx \in Px!Contexts \cup {None} /\ lease.cand \in Candidates
    BY StreamFacts
<1>2. CASE ctx = None
  <2>1. Px!Observed(t) = ctx BY <1>2 DEF Px!Observed
  <2> QED BY <1>1, <2>1, FinishGuard
<1>3. CASE ctx # None
  <2>1. Ours(Px!Observed(t)) /\ Px!Observed(t).preserve = ctx.preserve BY <1>1, <1>3, ObservedOurs
  <2> QED BY <1>1, <1>3, <2>1, FinishOwn
<1> QED BY <1>2, <1>3

\* The body of a response keeps the binding of a sticky channel.
LEMMA StickyStream ==
  ASSUME Px!ProxyAssumption, Px!ProxyInv,
         \/ \E t \in Px!Terminals \cup {None}, n \in 1..2 : Px!Chunk(t, n)
         \/ \E t \in Px!Terminals \cup {None} : Px!EndWithResidual(t)
         \/ Px!PopFrame \/ Px!End \/ Px!EndPoll
  PROVE  Px!StickyKept
<1>1. pc = "stream" /\ Px!Streaming
    BY DEF Px!Chunk, Px!EndWithResidual, Px!PopFrame, Px!End, Px!EndPoll, Px!Reading, Px!Streaming
<1>2. CASE binding' = binding BY <1>2 DEF Px!StickyKept
<1>3. ASSUME NEW o \in Px!Outcomes, Px!Finish(ctx, o) PROVE Px!StickyKept
  BY <1>1, <1>3, FinishGuard
<1>4. ASSUME Px!Break("transform") PROVE Px!StickyKept BY <1>3, <1>4 DEF Px!Break, Px!Outcomes
<1>5. ASSUME NEW t \in Px!Terminals \cup {None}, NEW n, NEW open, Px!AdaptFrame(t, n, open) PROVE Px!StickyKept
    BY <1>2, <1>4, <1>5 DEF Px!AdaptFrame
<1>6. ASSUME NEW t \in Px!Terminals \cup {None}, NEW n \in 1..2, Px!Chunk(t, n) PROVE Px!StickyKept
  <2>1. CASE stream.adapter BY <1>5, <1>6, <2>1 DEF Px!Chunk
  <2>2. CASE ~stream.adapter
    <3>1. PICK s : Px!RecordBytes(t, s) BY <1>6, <2>2 DEF Px!Chunk
    <3>2. \/ Px!Finish(Px!Observed(t), Px!TerminalOutcome(Px!Observed(t).terminal))
          \/ binding' = binding
        BY <3>1 DEF Px!RecordBytes
    <3> QED BY <1>1, <1>2, <3>2, StickyObserved, TerminalOutcomes
  <2> QED BY <2>1, <2>2
<1>7. ASSUME NEW t \in Px!Terminals \cup {None}, Px!EndWithResidual(t) PROVE Px!StickyKept
  <2>1. CASE stream.adapter BY <1>5, <1>7, <2>1 DEF Px!EndWithResidual
  <2>2. CASE ~stream.adapter
    <3>1. \/ Px!Finish(Px!Observed(t), Px!TerminalOutcome(Px!Observed(t).terminal))
          \/ binding' = binding
        BY <1>7, <2>2 DEF Px!EndWithResidual
    <3> QED BY <1>1, <1>2, <3>1, StickyObserved, TerminalOutcomes
  <2> QED BY <2>1, <2>2
<1>8. CASE Px!PopFrame BY <1>2, <1>3, <1>8, TerminalOutcomes DEF Px!PopFrame
<1>9. CASE Px!End BY <1>3, <1>4, <1>9, TerminalOutcomes DEF Px!End, Px!EndBody
<1>10. CASE Px!EndPoll BY <1>2, <1>4, <1>10 DEF Px!EndPoll
<1> QED BY <1>6, <1>7, <1>8, <1>9, <1>10

\* No step evicts what a sticky channel needs.
LEMMA StickyStep == ASSUME Px!ProxyAssumption, Px!ProxyInv, [Px!Next]_(Px!vars) PROVE Px!StickyKept
<1>1. CASE binding' = binding BY <1>1 DEF Px!StickyKept
<1>2. ASSUME NEW c \in Candidates, NEW hit \in BOOLEAN, Px!Loop(c, hit) PROVE Px!StickyKept
    BY <1>1, <1>2, StickySend DEF Px!Loop, Px!Route
<1>3. ASSUME NEW o \in Px!Outcomes, Px!Unprepared(o) \/ Px!SendFails(o) \/ Px!BreakOff(o) PROVE Px!StickyKept
    BY <1>3, StickyFail
<1>4. ASSUME NEW status \in Px!Statuses,
             NEW how \in {"coding", "transform", "empty", "json", "plain", "sized", "sse",
                          "patched", "adapted"}, Px!Respond(status, how)
      PROVE  Px!StickyKept
    BY <1>4, StickyRespond
<1>5. ASSUME NEW good \in BOOLEAN, Px!AdaptJson(good) PROVE Px!StickyKept BY <1>5, StickyJson
<1>6. CASE \/ \E t \in Px!Terminals \cup {None}, n \in 1..2 : Px!Chunk(t, n)
           \/ \E t \in Px!Terminals \cup {None} : Px!EndWithResidual(t)
           \/ Px!PopFrame \/ Px!End \/ Px!EndPoll
    BY <1>6, StickyStream
<1>7. CASE Px!DropBody \/ Px!Disconnect BY <1>7, CancelSticky DEF Px!DropBody, Px!Disconnect
<1>8. ASSUME NEW c \in Candidates, Px!Flap(c) \/ Px!OtherBinds(c) PROVE Px!StickyKept
  <2>1. c # None BY DEF Px!ProxyAssumption
  <2> QED BY <1>1, <1>8, <2>1 DEF Px!Flap, Px!OtherBinds, Px!StickyKept
<1>9. CASE Px!Admit \/ Px!RejectBody \/ Px!Unroutable("rejected") \/ Px!Unroutable("noHealthy") \/ Px!Prepare
    BY <1>1, <1>9 DEF Px!Admit, Px!RejectBody, Px!Unroutable, Px!Prepare
<1>10. CASE UNCHANGED Px!vars BY <1>1, <1>10 DEF Px!vars
<1> QED BY <1>2, <1>3, <1>4, <1>5, <1>6, <1>7, <1>8, <1>9, <1>10 DEF Px!Next, Px!Step

\* preserve_affinity: no failure of a request that affinity sent to a Codex
\* channel takes the session away from it, through any number of retries.
THEOREM StickyAlwaysKept == Px!ProxyAssumption /\ Px!Spec => [][Px!StickyKept]_(Px!vars)
<1> SUFFICES ASSUME Px!ProxyAssumption PROVE Px!Spec => [][Px!StickyKept]_(Px!vars) OBVIOUS
<1>1. Px!Spec => []Px!ProxyInv BY ProxyInvariant
<1>2. Px!ProxyInv /\ [Px!Next]_(Px!vars) => [Px!StickyKept]_(Px!vars) BY StickyStep
<1> QED BY <1>1, <1>2, PTL DEF Px!Spec

HIDE DEF Px!Terminals, Px!Statuses

--------------------
\* Hosted: KeyAuthorization, what the API keys that admission counts may
\* reach.  The keys are the same; the two components share no state.

CONSTANTS Groups, Channels, Policies, UserGroups, Users, Everyone, Writes

VARIABLES group, home, gone, policy, usergroup, user, key, offered, left

Key == INSTANCE KeyAuthorization


\* There are no keys and no policies yet, and every user group is live.
LEMMA KeyInitial == Key!KeyAssumption /\ Key!Init => Key!KeyInv
<1> SUFFICES ASSUME Key!KeyAssumption, Key!Init PROVE Key!KeyInv OBVIOUS
<1>1. policy \in [Policies -> Key!PolicyRow] /\ \A p \in Policies : policy[p].grants = {}
    BY DEF Key!Init, Key!PolicyRow
<1>2. /\ usergroup \in [UserGroups \cup {Everyone} -> [live: BOOLEAN, policy: Policies \cup {None}]]
      /\ \A g \in UserGroups \cup {Everyone} : usergroup[g].live
    BY DEF Key!Init
<1>3. user \in [Users -> Key!UserRow] /\ \A u \in Users : user[u].group = Everyone
    BY DEF Key!Init, Key!UserRow
<1>4. key \in [Keys -> Key!KeyRow] /\ \A k \in Keys : key[k].grants = {} /\ key[k].targets = {} /\ ~key[k].deleted
    BY DEF Key!Init, Key!KeyRow
<1>5. offered \in [Key!Holders -> SUBSET Key!Grants] BY DEF Key!Init
<1>6. /\ group \subseteq Groups /\ home \in [Channels -> Groups \cup {None}] /\ gone \subseteq Channels
      /\ left \in [Key!Kinds -> Nat]
    BY DEF Key!Init, Key!KeyAssumption
<1>7. Key!TypeOK BY <1>1, <1>2, <1>3, <1>4, <1>5, <1>6 DEF Key!TypeOK
<1>8. Key!GrantsWereOffered /\ Key!AbsentSelectsNothing
  BY <1>1, <1>4 DEF Key!GrantsWereOffered, Key!AbsentSelectsNothing
<1>9. Key!GroupsAreLive BY <1>2, <1>3 DEF Key!GroupsAreLive
<1> QED BY <1>7, <1>8, <1>9 DEF Key!KeyInv

\* A mutation is counted.
LEMMA Paid ==
  ASSUME Key!TypeOK, NEW kind \in Key!Kinds, Key!Pay(kind) PROVE left' \in [Key!Kinds -> Nat]
<1>1. left \in [Key!Kinds -> Nat] /\ left[kind] \in Nat BY DEF Key!TypeOK
<1>2. left[kind] > 0 /\ left' = [left EXCEPT ![kind] = left[kind] - 1] BY DEF Key!Pay
<1>3. left[kind] - 1 \in Nat BY <1>1, <1>2
<1> QED BY <1>1, <1>2, <1>3

\* Changes of the topology leave keys, policies and accounts alone.
LEMMA TopologyKeeps ==
  ASSUME Key!KeyInv, UNCHANGED <<policy, usergroup, user, key, offered>>,
         group' \subseteq Groups, home' \in [Channels -> Groups \cup {None}],
         gone' \subseteq Channels, left' \in [Key!Kinds -> Nat]
  PROVE  Key!KeyInv'
<1>1. Key!TypeOK /\ Key!GrantsWereOffered /\ Key!AbsentSelectsNothing /\ Key!GroupsAreLive
  BY DEF Key!KeyInv
<1>2. Key!TypeOK' BY <1>1 DEF Key!TypeOK
<1>3. Key!GrantsWereOffered' BY <1>1 DEF Key!GrantsWereOffered
<1>4. Key!AbsentSelectsNothing' BY <1>1 DEF Key!AbsentSelectsNothing
<1>5. Key!GroupsAreLive' BY <1>1 DEF Key!GroupsAreLive
<1> QED BY <1>2, <1>3, <1>4, <1>5 DEF Key!KeyInv

\* Changes of users and user groups leave keys and policies alone.
LEMMA AccountsKeep ==
  ASSUME Key!KeyInv, UNCHANGED <<group, home, gone, policy, key, offered>>,
         left' \in [Key!Kinds -> Nat],
         usergroup' \in [UserGroups \cup {Everyone} -> [live: BOOLEAN, policy: Policies \cup {None}]],
         user' \in [Users -> Key!UserRow], Key!GroupsAreLive'
  PROVE  Key!KeyInv'
<1>1. Key!TypeOK /\ Key!GrantsWereOffered /\ Key!AbsentSelectsNothing BY DEF Key!KeyInv
<1>2. Key!TypeOK' BY <1>1 DEF Key!TypeOK
<1>3. Key!GrantsWereOffered' BY <1>1 DEF Key!GrantsWereOffered
<1>4. Key!AbsentSelectsNothing' BY <1>1 DEF Key!AbsentSelectsNothing
<1> QED BY <1>2, <1>3, <1>4 DEF Key!KeyInv

\* resolve yields grants.
LEMMA PlanType == ASSUME NEW targets, NEW allowed PROVE Key!Plan(targets, allowed) \subseteq Key!Grants
BY DEF Key!Plan

\* reconcile and resolve_added: what a write without a policy leaves was offered,
\* when a retained target was selected or now.
LEMMA AdminOffered ==
  ASSUME NEW row, row.grants \subseteq Key!Grants, NEW targets, NEW o,
         row.grants \subseteq o
  PROVE  /\ Key!AdminGrants(row, targets) \subseteq Key!Grants
         /\ Key!AdminGrants(row, targets) \subseteq
              {g \in o : g.origin \in targets} \cup Key!Plan(Key!AddedTargets(row, targets), Channels)
         /\ \A g \in Key!AdminGrants(row, targets) : g.origin \in targets
<1>1. Key!AdminGrants(row, targets) =
        {g \in row.grants : g.origin \in targets}
          \cup {g \in Key!Plan(Key!AddedTargets(row, targets), Channels) : g.origin \notin row.targets}
    BY DEF Key!AdminGrants, Key!Reconcile
<1>2. \A g \in Key!Plan(Key!AddedTargets(row, targets), Channels) : g \in Key!Grants /\ g.origin \in targets
    BY DEF Key!Plan, Key!AddedTargets
<1> QED BY <1>1, <1>2

\* A policy allows what its own grants still match, while it is enabled.
LEMMA AllowedMatches ==
  ASSUME NEW p, NEW c \in Key!PolicyAllows(p)
  PROVE  p # None /\ policy[p].enabled /\ c \in Key!Matching(policy[p].grants)
BY DEF Key!PolicyAllows

\* What a self-service write plans lies within what the policy's grants match.
LEMMA PlanWithin ==
  ASSUME NEW targets, NEW p, NEW g \in Key!Plan(targets, Key!PolicyAllows(p)), NEW S,
         g.origin \in S
  PROVE  /\ p # None /\ policy[p].enabled /\ g.channel \in Key!Matching(policy[p].grants)
         /\ g \in Key!Plan(S, Key!Matching(policy[p].grants)) /\ g.origin \in targets
<1>1. g \in Key!Grants /\ g.origin \in targets /\ g.channel \in Key!Holds(g.origin) /\ g.channel \in Key!PolicyAllows(p)
    BY DEF Key!Plan
<1>2. p # None /\ policy[p].enabled /\ g.channel \in Key!Matching(policy[p].grants)
    BY <1>1, AllowedMatches
<1> QED BY <1>1, <1>2 DEF Key!Plan

\* A policy is created or updated.
LEMMA SavePolicyKeeps ==
  ASSUME Key!KeyAssumption, Key!KeyInv, NEW p \in Policies, NEW targets \in SUBSET Key!Targets,
         NEW on \in BOOLEAN, Key!SavePolicy(p, targets, on)
  PROVE  Key!KeyInv'
<1>1. Key!TypeOK /\ Key!GrantsWereOffered /\ Key!AbsentSelectsNothing /\ Key!GroupsAreLive
  BY DEF Key!KeyInv
<1> DEFINE gs == Key!AdminGrants(policy[p], targets)
           o == {g \in offered[p] : g.origin \in targets}
                  \cup Key!Plan(Key!AddedTargets(policy[p], targets), Channels)
           row == [exists |-> TRUE, enabled |-> on, targets |-> targets, grants |-> gs]
<1>2. /\ Key!Pay("policy") /\ policy' = [policy EXCEPT ![p] = row]
      /\ offered' = [offered EXCEPT ![p] = o]
      /\ UNCHANGED <<group, home, gone, usergroup, user, key>>
    BY DEF Key!SavePolicy, Key!SavedPolicy, Key!Offer, Key!topology, Key!accounts
<1>3. left' \in [Key!Kinds -> Nat] BY <1>1, <1>2, Paid DEF Key!Kinds
<1>4. /\ policy \in [Policies -> Key!PolicyRow] /\ offered \in [Key!Holders -> SUBSET Key!Grants]
      /\ p \in Key!Holders
    BY <1>1 DEF Key!TypeOK, Key!Holders
<1>5. policy[p].grants \subseteq Key!Grants /\ policy[p].grants \subseteq offered[p]
    BY <1>1, <1>4 DEF Key!PolicyRow, Key!GrantsWereOffered
<1>6. gs \subseteq Key!Grants /\ gs \subseteq o BY <1>5, AdminOffered
<1>7. o \subseteq Key!Grants BY <1>4, PlanType
<1> HIDE DEF gs, o
<1>8. row \in Key!PolicyRow /\ row.grants = gs BY <1>6 DEF Key!PolicyRow
<1> HIDE DEF row
<1>9. /\ policy' \in [Policies -> Key!PolicyRow] /\ policy'[p] = row
      /\ \A q \in Policies \ {p} : policy'[q] = policy[q]
    BY <1>2, <1>4, <1>8
<1>10. /\ offered' \in [Key!Holders -> SUBSET Key!Grants] /\ offered'[p] = o
       /\ \A h \in Key!Holders \ {p} : offered'[h] = offered[h]
    BY <1>2, <1>4, <1>7
<1>11. Key!TypeOK' BY <1>1, <1>2, <1>3, <1>9, <1>10 DEF Key!TypeOK
<1>12. Key!GrantsWereOffered'
  <2>1. \A k \in Keys : \A g \in key'[k].grants : g \in offered'[k] /\ g.origin \in key'[k].targets
    <3>1. \A k \in Keys : offered'[k] = offered[k] BY <1>10 DEF Key!Holders, Key!KeyAssumption
    <3> QED BY <1>1, <1>2, <3>1 DEF Key!GrantsWereOffered
  <2>2. \A q \in Policies : policy'[q].grants \subseteq offered'[q]
    <3> SUFFICES ASSUME NEW q \in Policies PROVE policy'[q].grants \subseteq offered'[q] OBVIOUS
    <3>1. CASE q = p BY <1>6, <1>8, <1>9, <1>10, <3>1
    <3>2. CASE q # p
      <4>1. policy'[q] = policy[q] /\ offered'[q] = offered[q]
        BY <1>9, <1>10, <3>2 DEF Key!Holders
      <4> QED BY <1>1, <4>1 DEF Key!GrantsWereOffered
    <3> QED BY <3>1, <3>2
  <2> QED BY <2>1, <2>2 DEF Key!GrantsWereOffered
<1>13. Key!AbsentSelectsNothing' BY <1>1, <1>2 DEF Key!AbsentSelectsNothing
<1>14. Key!GroupsAreLive' BY <1>1, <1>2 DEF Key!GroupsAreLive
<1> QED BY <1>11, <1>12, <1>13, <1>14 DEF Key!KeyInv

\* A key is written whose grants were offered to it.
LEMMA KeyWritten ==
  ASSUME Key!KeyAssumption, Key!KeyInv, NEW k \in Keys, NEW row \in Key!KeyRow, NEW o \in SUBSET Key!Grants,
         key' = [key EXCEPT ![k] = row], offered' = [offered EXCEPT ![k] = o],
         row.status # "absent",
         \A g \in row.grants : g \in o /\ g.origin \in row.targets,
         left' \in [Key!Kinds -> Nat], UNCHANGED <<group, home, gone, policy, usergroup, user>>
  PROVE  Key!KeyInv'
<1>1. Key!TypeOK /\ Key!GrantsWereOffered /\ Key!AbsentSelectsNothing /\ Key!GroupsAreLive
  BY DEF Key!KeyInv
<1>2. /\ key \in [Keys -> Key!KeyRow] /\ offered \in [Key!Holders -> SUBSET Key!Grants]
      /\ k \in Key!Holders
    BY <1>1 DEF Key!TypeOK, Key!Holders
<1>3. /\ key' \in [Keys -> Key!KeyRow] /\ key'[k] = row
      /\ \A j \in Keys \ {k} : key'[j] = key[j]
    BY <1>2
<1>4. /\ offered' \in [Key!Holders -> SUBSET Key!Grants] /\ offered'[k] = o
      /\ \A h \in Key!Holders \ {k} : offered'[h] = offered[h]
    BY <1>2
<1>5. Key!TypeOK' BY <1>1, <1>3, <1>4 DEF Key!TypeOK
<1>6. Key!GrantsWereOffered'
  <2>1. ASSUME NEW j \in Keys, NEW g \in key'[j].grants
        PROVE  g \in offered'[j] /\ g.origin \in key'[j].targets
    <3>1. CASE j = k BY <1>3, <1>4, <2>1, <3>1
    <3>2. CASE j # k
      <4>1. key'[j] = key[j] /\ offered'[j] = offered[j] BY <1>3, <1>4, <3>2 DEF Key!Holders
      <4> QED BY <1>1, <2>1, <4>1 DEF Key!GrantsWereOffered
    <3> QED BY <3>1, <3>2
  <2>2. \A p \in Policies : policy'[p].grants \subseteq offered'[p]
    <3>1. \A p \in Policies : offered'[p] = offered[p] BY <1>4 DEF Key!Holders, Key!KeyAssumption
    <3> QED BY <1>1, <3>1 DEF Key!GrantsWereOffered
  <2> QED BY <2>1, <2>2 DEF Key!GrantsWereOffered
<1>7. Key!AbsentSelectsNothing' BY <1>1, <1>3 DEF Key!AbsentSelectsNothing
<1>8. Key!GroupsAreLive' BY <1>1 DEF Key!GroupsAreLive
<1> QED BY <1>5, <1>6, <1>7, <1>8 DEF Key!KeyInv

\* The row that a write leaves.
LEMMA WrittenRow ==
  ASSUME Key!TypeOK, NEW k \in Keys, NEW status \in {"active", "disabled", "revoked"}, NEW u \in Users,
         NEW targets \in SUBSET Key!Targets, NEW grants \in SUBSET Key!Grants
  PROVE  /\ Key!Written(k, status, u, targets, grants) \in Key!KeyRow
         /\ Key!Written(k, status, u, targets, grants).status = status
         /\ Key!Written(k, status, u, targets, grants).owner = u
         /\ Key!Written(k, status, u, targets, grants).deleted = key[k].deleted
         /\ Key!Written(k, status, u, targets, grants).targets = targets
         /\ Key!Written(k, status, u, targets, grants).grants = grants
<1>1. key[k] \in Key!KeyRow BY DEF Key!TypeOK
<1>2. key[k].deleted \in BOOLEAN BY <1>1 DEF Key!KeyRow
<1> QED BY <1>2 DEF Key!Written, Key!KeyRow

\* An administrator creates or updates a key.
LEMMA AdminWriteKeeps ==
  ASSUME Key!KeyAssumption, Key!KeyInv, NEW k \in Keys, NEW u \in Users, NEW targets \in SUBSET Key!Targets,
         NEW status \in {"active", "disabled", "revoked"}, Key!Pay("key"),
         key' = [key EXCEPT ![k] = Key!Written(k, status, u, targets, Key!AdminGrants(key[k], targets))],
         Key!Offer(k, key[k], targets, Channels),
         UNCHANGED <<group, home, gone, policy, usergroup, user>>
  PROVE  Key!KeyInv'
<1>1. Key!TypeOK /\ Key!GrantsWereOffered BY DEF Key!KeyInv
<1> DEFINE gs == Key!AdminGrants(key[k], targets)
           o == {g \in offered[k] : g.origin \in targets}
                  \cup Key!Plan(Key!AddedTargets(key[k], targets), Channels)
           row == Key!Written(k, status, u, targets, gs)
<1>2. key' = [key EXCEPT ![k] = row] /\ offered' = [offered EXCEPT ![k] = o] BY DEF Key!Offer
<1>3. left' \in [Key!Kinds -> Nat] BY <1>1, Paid DEF Key!Kinds
<1>4. key[k] \in Key!KeyRow /\ offered[k] \subseteq Key!Grants BY <1>1 DEF Key!TypeOK, Key!Holders
<1>5. key[k].grants \subseteq Key!Grants /\ key[k].grants \subseteq offered[k]
    BY <1>1, <1>4 DEF Key!KeyRow, Key!GrantsWereOffered
<1>6. gs \subseteq Key!Grants /\ gs \subseteq o /\ \A g \in gs : g.origin \in targets
    BY <1>5, AdminOffered
<1>7. o \subseteq Key!Grants BY <1>4, PlanType
<1> HIDE DEF gs, o
<1>8. row \in Key!KeyRow /\ row.grants = gs /\ row.targets = targets /\ row.status = status
    BY <1>1, <1>6, WrittenRow
<1> HIDE DEF row
<1> QED BY <1>2, <1>3, <1>6, <1>7, <1>8, KeyWritten

\* create_own_api_key
LEMMA CreateOwnKeeps ==
  ASSUME Key!KeyAssumption, Key!KeyInv, NEW k \in Keys, NEW u \in Users, NEW targets \in SUBSET Key!Targets,
         Key!CreateOwnKey(k, u, targets)
  PROVE  Key!KeyInv'
<1>1. Key!TypeOK /\ Key!GrantsWereOffered /\ Key!AbsentSelectsNothing BY DEF Key!KeyInv
<1> DEFINE p == Key!EffectivePolicy(u)
           gs == Key!Plan(targets, Key!PolicyAllows(p))
           o == {g \in offered[k] : g.origin \in targets}
                  \cup Key!Plan(Key!AddedTargets(key[k], targets), Key!Matching(policy[p].grants))
           row == Key!Written(k, "active", u, targets, gs)
<1>2. /\ key[k].status = "absent" /\ Key!Pay("key")
      /\ key' = [key EXCEPT ![k] = row] /\ offered' = [offered EXCEPT ![k] = o]
      /\ UNCHANGED <<group, home, gone, policy, usergroup, user>>
    BY DEF Key!CreateOwnKey, Key!OwnCreated, Key!Offer, Key!topology, Key!accounts
<1>3. left' \in [Key!Kinds -> Nat] BY <1>1, <1>2, Paid DEF Key!Kinds
<1>4. offered[k] \subseteq Key!Grants BY <1>1 DEF Key!TypeOK, Key!Holders
<1>5. Key!AddedTargets(key[k], targets) = targets
    BY <1>1, <1>2 DEF Key!AbsentSelectsNothing, Key!AddedTargets
<1>6. gs \subseteq Key!Grants /\ o \subseteq Key!Grants BY <1>4, PlanType
<1>7. \A g \in gs : g \in o /\ g.origin \in targets
  <2> SUFFICES ASSUME NEW g \in gs PROVE g \in o /\ g.origin \in targets OBVIOUS
  <2>1. g.origin \in targets BY DEF Key!Plan
  <2>2. g \in Key!Plan(targets, Key!Matching(policy[p].grants)) BY <2>1, PlanWithin
  <2> QED BY <1>5, <2>1, <2>2
<1> HIDE DEF gs, o, p
<1>8. row \in Key!KeyRow /\ row.grants = gs /\ row.targets = targets /\ row.status = "active"
    BY <1>1, <1>6, WrittenRow
<1> HIDE DEF row
<1> QED BY <1>2, <1>3, <1>6, <1>7, <1>8, KeyWritten

\* update_own_api_key: unchanged targets keep their grants, added ones get what the
\* policy allows.
LEMMA UpdateOwnKeeps ==
  ASSUME Key!KeyAssumption, Key!KeyInv, NEW k \in Keys, NEW targets \in SUBSET Key!Targets,
         NEW status \in {"active", "disabled"}, Key!UpdateOwnKey(k, targets, status)
  PROVE  Key!KeyInv'
<1>1. Key!TypeOK /\ Key!GrantsWereOffered BY DEF Key!KeyInv
<1> DEFINE u == key[k].owner
           p == Key!EffectivePolicy(u)
           new == Key!Reconcile(key[k], targets, Key!Plan(targets, Key!PolicyAllows(p)))
           o == {g \in offered[k] : g.origin \in targets}
                  \cup Key!Plan(Key!AddedTargets(key[k], targets), Key!Matching(policy[p].grants))
           gs == IF targets = key[k].targets THEN key[k].grants ELSE new
           row == Key!Written(k, status, u, targets, gs)
<1>2. /\ Key!Pay("key") /\ key' = [key EXCEPT ![k] = row]
      /\ IF targets = key[k].targets THEN offered' = offered ELSE offered' = [offered EXCEPT ![k] = o]
      /\ UNCHANGED <<group, home, gone, policy, usergroup, user>>
    BY DEF Key!UpdateOwnKey, Key!OwnUpdated, Key!Offer, Key!topology, Key!accounts
<1>3. left' \in [Key!Kinds -> Nat] BY <1>1, <1>2, Paid DEF Key!Kinds
<1>4. /\ key[k] \in Key!KeyRow /\ offered[k] \subseteq Key!Grants
      /\ offered \in [Key!Holders -> SUBSET Key!Grants] /\ k \in Key!Holders
    BY <1>1 DEF Key!TypeOK, Key!Holders
<1>5. /\ u \in Users /\ key[k].grants \subseteq Key!Grants
      /\ \A g \in key[k].grants : g \in offered[k] /\ g.origin \in key[k].targets
    BY <1>1, <1>4 DEF Key!KeyRow, Key!GrantsWereOffered
<1>6. CASE targets = key[k].targets
  <2>1. gs = key[k].grants /\ gs \in SUBSET Key!Grants BY <1>5, <1>6
  <2>2. offered' = [offered EXCEPT ![k] = offered[k]] BY <1>2, <1>4, <1>6
  <2> HIDE DEF gs, o, new, p, u
  <2>3. row \in Key!KeyRow /\ row.grants = gs /\ row.targets = targets /\ row.status = status
      BY <1>1, <1>5, <2>1, WrittenRow
  <2> HIDE DEF row
  <2>4. \A g \in row.grants : g \in offered[k] /\ g.origin \in row.targets
      BY <1>5, <1>6, <2>1, <2>3
  <2> QED BY <1>2, <1>3, <1>4, <2>2, <2>3, <2>4, KeyWritten
<1>7. CASE targets # key[k].targets
  <2>1. gs = new /\ offered' = [offered EXCEPT ![k] = o] BY <1>2, <1>7
  <2>2. o \subseteq Key!Grants BY <1>4, PlanType
  <2>3. \A g \in new : g \in Key!Grants /\ g \in o /\ g.origin \in targets
    <3> SUFFICES ASSUME NEW g \in new PROVE g \in Key!Grants /\ g \in o /\ g.origin \in targets
        OBVIOUS
    <3>1. CASE g \in key[k].grants /\ g.origin \in targets BY <1>5, <3>1
    <3>2. CASE g \in Key!Plan(targets, Key!PolicyAllows(p)) /\ g.origin \notin key[k].targets
      <4>1. g \in Key!Grants /\ g.origin \in targets BY <3>2 DEF Key!Plan
      <4>2. g.origin \in Key!AddedTargets(key[k], targets) BY <3>2, <4>1 DEF Key!AddedTargets
      <4>3. g \in Key!Plan(Key!AddedTargets(key[k], targets), Key!Matching(policy[p].grants))
          BY <3>2, <4>2, PlanWithin
      <4> QED BY <4>1, <4>3
    <3> QED BY <3>1, <3>2 DEF Key!Reconcile
  <2>4. gs \in SUBSET Key!Grants BY <2>1, <2>3
  <2> HIDE DEF gs, o, new, p, u
  <2>5. row \in Key!KeyRow /\ row.grants = gs /\ row.targets = targets /\ row.status = status
      BY <1>1, <1>5, <2>4, WrittenRow
  <2> HIDE DEF row
  <2>6. \A g \in row.grants : g \in o /\ g.origin \in row.targets BY <2>1, <2>3, <2>5
  <2> QED BY <1>2, <1>3, <2>1, <2>2, <2>5, <2>6, KeyWritten
<1> QED BY <1>6, <1>7

\* Revoking and deleting a key leave its grants.
LEMMA RevokeKeeps ==
  ASSUME Key!KeyAssumption, Key!KeyInv, NEW k \in Keys, Key!RevokeKey(k) \/ Key!DeleteKey(k)
  PROVE  Key!KeyInv'
<1>1. Key!TypeOK /\ Key!GrantsWereOffered BY DEF Key!KeyInv
<1>2. /\ Key!Pay("key") /\ UNCHANGED <<group, home, gone, policy, usergroup, user, offered>>
    BY DEF Key!RevokeKey, Key!DeleteKey, Key!topology, Key!accounts
<1>3. left' \in [Key!Kinds -> Nat] BY <1>1, <1>2, Paid DEF Key!Kinds
<1>4. /\ key[k] \in Key!KeyRow /\ offered[k] \in SUBSET Key!Grants
      /\ offered' = [offered EXCEPT ![k] = offered[k]]
    BY <1>1, <1>2 DEF Key!TypeOK, Key!Holders
<1>5. PICK row \in Key!KeyRow :
        /\ key' = [key EXCEPT ![k] = row] /\ row.status = "revoked"
        /\ row.targets = key[k].targets /\ row.grants = key[k].grants
  <2>1. CASE Key!RevokeKey(k)
    <3> DEFINE row == [key[k] EXCEPT !.status = "revoked"]
    <3>1. /\ row \in Key!KeyRow /\ row.status = "revoked" /\ row.targets = key[k].targets
          /\ row.grants = key[k].grants
        BY <1>4 DEF Key!KeyRow
    <3>2. key' = [key EXCEPT ![k] = row] BY <2>1 DEF Key!RevokeKey
    <3> QED BY <3>1, <3>2
  <2>2. CASE Key!DeleteKey(k)
    <3> DEFINE old == Key!Written(k, "revoked", key[k].owner, key[k].targets, key[k].grants)
               row == [old EXCEPT !.deleted = TRUE]
    <3>1. key[k].owner \in Users /\ key[k].targets \in SUBSET Key!Targets /\ key[k].grants \in SUBSET Key!Grants
        BY <1>4 DEF Key!KeyRow
    <3>2. /\ old \in Key!KeyRow /\ old.status = "revoked" /\ old.targets = key[k].targets
          /\ old.grants = key[k].grants
        BY <1>1, <3>1, WrittenRow
    <3>3. key' = [key EXCEPT ![k] = row] BY <2>2 DEF Key!DeleteKey
    <3> HIDE DEF old
    <3>4. /\ row \in Key!KeyRow /\ row.status = "revoked" /\ row.targets = key[k].targets
          /\ row.grants = key[k].grants
        BY <3>2 DEF Key!KeyRow
    <3> QED BY <3>3, <3>4
  <2> QED BY <2>1, <2>2
<1>6. \A g \in row.grants : g \in offered[k] /\ g.origin \in row.targets
    BY <1>1, <1>5 DEF Key!GrantsWereOffered
<1> QED BY <1>2, <1>3, <1>4, <1>5, <1>6, KeyWritten

\* A user group gets another default policy.
LEMMA UserGroupKeeps ==
  ASSUME Key!KeyAssumption, Key!KeyInv, NEW g \in UserGroups \cup {Everyone}, NEW p \in Policies \cup {None},
         Key!UpdateUserGroup(g, p)
  PROVE  Key!KeyInv'
<1>1. Key!TypeOK /\ Key!GroupsAreLive BY DEF Key!KeyInv
<1> DEFINE Rows == [live: BOOLEAN, policy: Policies \cup {None}]
           row == [usergroup[g] EXCEPT !.policy = p]
<1>2. /\ Key!Pay("account") /\ usergroup' = [usergroup EXCEPT ![g] = row]
      /\ UNCHANGED <<group, home, gone, policy, user, key, offered>>
    BY DEF Key!UpdateUserGroup, Key!topology
<1>3. left' \in [Key!Kinds -> Nat] BY <1>1, <1>2, Paid DEF Key!Kinds
<1>4. usergroup \in [UserGroups \cup {Everyone} -> Rows] /\ user \in [Users -> Key!UserRow]
    BY <1>1 DEF Key!TypeOK
<1>5. row \in Rows /\ row.live = usergroup[g].live BY <1>4
<1> HIDE DEF row
<1>6. /\ usergroup' \in [UserGroups \cup {Everyone} -> Rows]
      /\ \A h \in UserGroups \cup {Everyone} : usergroup'[h].live = usergroup[h].live
    BY <1>2, <1>4, <1>5
<1>7. \A u \in Users : user[u].group \in UserGroups \cup {Everyone} BY <1>4 DEF Key!UserRow
<1>8. Key!GroupsAreLive' BY <1>1, <1>2, <1>6, <1>7 DEF Key!GroupsAreLive
<1> QED BY <1>1, <1>2, <1>3, <1>4, <1>6, <1>8, AccountsKeep

\* user_group_soft_delete moves the members to the default group.
LEMMA DeleteUserGroupKeeps ==
  ASSUME Key!KeyAssumption, Key!KeyInv, NEW g \in UserGroups, Key!DeleteUserGroup(g)
  PROVE  Key!KeyInv'
<1>1. Key!TypeOK /\ Key!GroupsAreLive BY DEF Key!KeyInv
<1> DEFINE Rows == [live: BOOLEAN, policy: Policies \cup {None}]
           row == [usergroup[g] EXCEPT !.live = FALSE]
<1>2. /\ Key!Pay("account") /\ usergroup' = [usergroup EXCEPT ![g] = row] /\ user' = Key!Reassigned(g)
      /\ UNCHANGED <<group, home, gone, policy, key, offered>>
    BY DEF Key!DeleteUserGroup, Key!topology
<1>3. left' \in [Key!Kinds -> Nat] BY <1>1, <1>2, Paid DEF Key!Kinds
<1>4. usergroup \in [UserGroups \cup {Everyone} -> Rows] /\ user \in [Users -> Key!UserRow]
    BY <1>1 DEF Key!TypeOK
<1>5. row \in Rows BY <1>4
<1> HIDE DEF row
<1>6. /\ usergroup' \in [UserGroups \cup {Everyone} -> Rows]
      /\ \A h \in (UserGroups \cup {Everyone}) \ {g} : usergroup'[h] = usergroup[h]
    BY <1>2, <1>4, <1>5
<1>7. \A u \in Users :
        /\ Key!Reassigned(g)[u] \in Key!UserRow
        /\ Key!Reassigned(g)[u].group # g
        /\ Key!Reassigned(g)[u].group \in {Everyone, user[u].group}
  <2> SUFFICES ASSUME NEW u \in Users
               PROVE  /\ Key!Reassigned(g)[u] \in Key!UserRow /\ Key!Reassigned(g)[u].group # g
                      /\ Key!Reassigned(g)[u].group \in {Everyone, user[u].group}
      OBVIOUS
  <2>1. user[u] \in Key!UserRow BY <1>4
  <2>2. /\ [user[u] EXCEPT !.group = Everyone] \in Key!UserRow
        /\ [user[u] EXCEPT !.group = Everyone].group = Everyone
      BY <2>1 DEF Key!UserRow
  <2>3. Everyone # g BY DEF Key!KeyAssumption
  <2> QED BY <2>1, <2>2, <2>3 DEF Key!Reassigned
<1>8. user' \in [Users -> Key!UserRow] BY <1>2, <1>7 DEF Key!Reassigned
<1>9. \A u \in Users : user[u].group \in UserGroups \cup {Everyone} BY <1>4 DEF Key!UserRow
<1>10. Key!GroupsAreLive'
  <2>1. usergroup'[Everyone].live BY <1>1, <1>6 DEF Key!GroupsAreLive, Key!KeyAssumption
  <2>2. \A u \in Users : usergroup'[user'[u].group].live
      BY <1>1, <1>2, <1>6, <1>7, <1>9, <2>1 DEF Key!GroupsAreLive
  <2> QED BY <2>1, <2>2 DEF Key!GroupsAreLive
<1> QED BY <1>2, <1>3, <1>6, <1>8, <1>10, AccountsKeep

\* update_users_batch moves users into live groups only.
LEMMA BatchKeeps ==
  ASSUME Key!KeyAssumption, Key!KeyInv, NEW a \in Users, NEW us \in SUBSET Users,
         NEW s \in {"active", "disabled", "keep"}, NEW g \in UserGroups \cup {Everyone, "keep"},
         NEW p \in Policies \cup {None, "keep"}, Key!BatchUsers(a, us, s, g, p)
  PROVE  Key!KeyInv'
<1>1. Key!TypeOK /\ Key!GroupsAreLive BY DEF Key!KeyInv
<1>2. /\ Key!Pay("account") /\ (g # "keep" => usergroup[g].live)
      /\ user' = [u \in Users |-> IF u \in us THEN Key!BatchedUser(u, s, g, p) ELSE user[u]]
      /\ UNCHANGED <<group, home, gone, policy, usergroup, key, offered>>
    BY DEF Key!BatchUsers, Key!topology
<1>3. left' \in [Key!Kinds -> Nat] BY <1>1, <1>2, Paid DEF Key!Kinds
<1>4. user \in [Users -> Key!UserRow] BY <1>1 DEF Key!TypeOK
<1>5. \A u \in Users : /\ Key!BatchedUser(u, s, g, p) \in Key!UserRow
                       /\ Key!BatchedUser(u, s, g, p).group = IF g = "keep" THEN user[u].group ELSE g
    BY <1>4 DEF Key!BatchedUser, Key!UserRow
<1>6. user' \in [Users -> Key!UserRow] BY <1>2, <1>4, <1>5
<1>7. Key!GroupsAreLive'
  <2>1. \A u \in Users : usergroup[user'[u].group].live BY <1>1, <1>2, <1>5 DEF Key!GroupsAreLive
  <2> QED BY <1>1, <1>2, <2>1 DEF Key!GroupsAreLive
<1>8. usergroup' \in [UserGroups \cup {Everyone} -> [live: BOOLEAN, policy: Policies \cup {None}]]
    BY <1>1, <1>2 DEF Key!TypeOK
<1> QED BY <1>2, <1>3, <1>6, <1>7, <1>8, AccountsKeep

\* Channels and routing groups come, move and go.
LEMMA TopologyStep ==
  ASSUME Key!KeyAssumption, Key!KeyInv,
         \/ \E c \in Channels, g \in Groups : Key!CreateChannel(c, g) \/ Key!MoveChannel(c, g)
         \/ \E c \in Channels : Key!DeleteChannel(c)
         \/ \E g \in Groups : Key!DeleteGroup(g)
  PROVE  Key!KeyInv'
<1>1. Key!TypeOK BY DEF Key!KeyInv
<1>2. Key!Pay("topology") /\ UNCHANGED <<policy, usergroup, user, key, offered>>
    BY DEF Key!CreateChannel, Key!MoveChannel, Key!DeleteChannel, Key!DeleteGroup, Key!accounts
<1>3. left' \in [Key!Kinds -> Nat] BY <1>1, <1>2, Paid DEF Key!Kinds
<1>4. group \subseteq Groups /\ home \in [Channels -> Groups \cup {None}] /\ gone \subseteq Channels
    BY <1>1 DEF Key!TypeOK
<1>5. group' \subseteq Groups /\ gone' \subseteq Channels
    BY <1>4 DEF Key!CreateChannel, Key!MoveChannel, Key!DeleteChannel, Key!DeleteGroup
<1>6. home' \in [Channels -> Groups \cup {None}]
  <2>1. \/ home' = home
        \/ \E c \in Channels, g \in Groups \cup {None} : home' = [home EXCEPT ![c] = g]
      BY DEF Key!CreateChannel, Key!MoveChannel, Key!DeleteChannel, Key!DeleteGroup
  <2> QED BY <1>4, <2>1
<1> QED BY <1>2, <1>3, <1>5, <1>6, TopologyKeeps

\* Every mutation keeps the invariant.
LEMMA KeyStep == ASSUME Key!KeyAssumption, Key!KeyInv, [Key!Next]_(Key!vars) PROVE Key!KeyInv'
<1>1. Key!TypeOK BY DEF Key!KeyInv
<1>2. CASE \/ \E c \in Channels, g \in Groups : Key!CreateChannel(c, g) \/ Key!MoveChannel(c, g)
           \/ \E c \in Channels : Key!DeleteChannel(c)
           \/ \E g \in Groups : Key!DeleteGroup(g)
    BY <1>2, TopologyStep
<1>3. ASSUME NEW p \in Policies, NEW t \in SUBSET Key!Targets, NEW on \in BOOLEAN, Key!SavePolicy(p, t, on)
      PROVE  Key!KeyInv'
    BY <1>3, SavePolicyKeeps
<1>4. ASSUME NEW g \in UserGroups \cup {Everyone}, NEW p \in Policies \cup {None},
             Key!UpdateUserGroup(g, p)
      PROVE  Key!KeyInv'
    BY <1>4, UserGroupKeeps
<1>5. ASSUME NEW g \in UserGroups, Key!DeleteUserGroup(g) PROVE Key!KeyInv'
  BY <1>5, DeleteUserGroupKeeps
<1>6. ASSUME NEW a \in Users, NEW us \in SUBSET Users, NEW s \in {"active", "disabled", "keep"},
             NEW g \in UserGroups \cup {Everyone, "keep"}, NEW p \in Policies \cup {None, "keep"},
             Key!BatchUsers(a, us, s, g, p)
      PROVE  Key!KeyInv'
    BY <1>6, BatchKeeps
<1>7. ASSUME NEW k \in Keys, NEW u \in Users, NEW t \in SUBSET Key!Targets, Key!CreateKey(k, u, t)
      PROVE  Key!KeyInv'
  <2>1. /\ Key!Pay("key") /\ Key!Offer(k, key[k], t, Channels)
        /\ key' = [key EXCEPT ![k] = Key!Written(k, "active", u, t, Key!AdminGrants(key[k], t))]
        /\ UNCHANGED <<group, home, gone, policy, usergroup, user>>
      BY <1>7 DEF Key!CreateKey, Key!topology, Key!accounts
  <2> QED BY <2>1, AdminWriteKeeps
<1>8. ASSUME NEW k \in Keys, NEW u \in Users, NEW t \in SUBSET Key!Targets, Key!CreateOwnKey(k, u, t)
      PROVE  Key!KeyInv'
    BY <1>8, CreateOwnKeeps
<1>9. ASSUME NEW k \in Keys, NEW t \in SUBSET Key!Targets, NEW s \in {"active", "disabled", "revoked"},
             Key!UpdateKey(k, t, s)
      PROVE  Key!KeyInv'
  <2>1. /\ Key!Pay("key") /\ Key!Offer(k, key[k], t, Channels)
        /\ key' = [key EXCEPT ![k] = Key!Written(k, s, key[k].owner, t, Key!AdminGrants(key[k], t))]
        /\ UNCHANGED <<group, home, gone, policy, usergroup, user>>
      BY <1>9 DEF Key!UpdateKey, Key!topology, Key!accounts
  <2>2. key[k].owner \in Users BY <1>1 DEF Key!TypeOK, Key!KeyRow
  <2> QED BY <2>1, <2>2, AdminWriteKeeps
<1>10. ASSUME NEW k \in Keys, NEW t \in SUBSET Key!Targets, NEW s \in {"active", "disabled"},
              Key!UpdateOwnKey(k, t, s)
       PROVE  Key!KeyInv'
    BY <1>10, UpdateOwnKeeps
<1>11. ASSUME NEW k \in Keys, Key!RevokeKey(k) \/ Key!DeleteKey(k) PROVE Key!KeyInv'
  BY <1>11, RevokeKeeps
<1>12. CASE UNCHANGED Key!vars
    BY <1>12 DEF Key!vars, Key!KeyInv, Key!TypeOK, Key!GrantsWereOffered,
      Key!AbsentSelectsNothing, Key!GroupsAreLive
<1> QED BY <1>2, <1>3, <1>4, <1>5, <1>6, <1>7, <1>8, <1>9, <1>10, <1>11, <1>12 DEF Key!Next

\* Every grant that is stored was offered by a target that its holder selects or has
\* selected, whatever the topology has become since.
THEOREM KeyInvariant == Key!KeyAssumption /\ Key!Spec => []Key!KeyInv
<1> SUFFICES ASSUME Key!KeyAssumption PROVE Key!Spec => []Key!KeyInv OBVIOUS
<1>1. Key!Init => Key!KeyInv BY KeyInitial
<1>2. Key!KeyInv /\ [Key!Next]_(Key!vars) => Key!KeyInv' BY KeyStep
<1> QED BY <1>1, <1>2, PTL DEF Key!Spec

\* For any topology and any sequence of edits: a key reaches a channel only under a
\* target it still selects and that held the channel when it was selected, a policy
\* hands out only what the administrator saw in the group, and no user is left in a
\* deleted user group (authorization.rs resolve and reconcile, runtime.rs
\* fold_grants, user_group_soft_delete).
THEOREM KeysAlwaysSound == Key!KeyAssumption /\ Key!Spec => []Key!KeysSound
<1> SUFFICES ASSUME Key!KeyAssumption PROVE Key!Spec => []Key!KeysSound OBVIOUS
<1>1. Key!KeyInv => Key!KeysSound
  <2> SUFFICES ASSUME Key!KeyInv PROVE Key!KeysSound OBVIOUS
  <2>1. Key!TypeOK /\ Key!GrantsWereOffered /\ Key!GroupsAreLive BY DEF Key!KeyInv
  <2>2. Key!ReachIsWhatWasSelected
    <3> SUFFICES ASSUME NEW k \in Keys, NEW c \in Key!Reach(k)
                 PROVE  \E g \in offered[k] :
                          g.channel = c /\ g.origin \in key[k].targets /\ Key!Under(c, g.origin)
        BY DEF Key!ReachIsWhatWasSelected
    <3>1. PICK g \in key[k].grants : g.channel = c /\ Key!Under(c, g.origin)
      BY DEF Key!Reach, Key!Matching
    <3> QED BY <2>1, <3>1 DEF Key!GrantsWereOffered
  <2>3. Key!PolicyIsWhatWasSelected
    <3> SUFFICES ASSUME NEW p \in Policies, NEW c \in Key!Matching(policy[p].grants)
                 PROVE  c \in {g.channel : g \in {h \in offered[p] : Key!Under(h.channel, h.origin)}}
        BY DEF Key!PolicyIsWhatWasSelected
    <3>1. PICK g \in policy[p].grants : g.channel = c /\ Key!Under(c, g.origin)
      BY DEF Key!Matching
    <3>2. g \in offered[p] BY <2>1 DEF Key!GrantsWereOffered
    <3> QED BY <3>1, <3>2
  <2>4. Key!NoUserInDeletedGroup BY <2>1 DEF Key!GroupsAreLive, Key!NoUserInDeletedGroup
  <2> QED BY <2>2, <2>3, <2>4 DEF Key!KeysSound
<1>2. Key!Spec => []Key!KeyInv BY KeyInvariant
<1> QED BY <1>1, <1>2, PTL

\* What an owner's edit adds to a key, the policy of that moment allows.
LEMMA SelfServiceStep == ASSUME Key!TypeOK PROVE Key!SelfServiceWithinPolicy
<1> SUFFICES ASSUME NEW k \in Keys,
                    \/ Key!CreateOwnKey(k, key'[k].owner, key'[k].targets)
                    \/ Key!UpdateOwnKey(k, key'[k].targets, key'[k].status),
                    NEW c \in Key!Matching(key'[k].grants) \ Key!Matching(key[k].grants)
             PROVE  /\ Key!EffectivePolicy(key'[k].owner) # None
                    /\ policy[Key!EffectivePolicy(key'[k].owner)].enabled
                    /\ \E g \in policy[Key!EffectivePolicy(key'[k].owner)].grants :
                         g.channel = c /\ Key!Under(c, g.origin)
    BY DEF Key!SelfServiceWithinPolicy
<1>1. key \in [Keys -> Key!KeyRow] BY DEF Key!TypeOK
<1>2. PICK g \in key'[k].grants : g.channel = c /\ g \notin key[k].grants BY DEF Key!Matching
<1> DEFINE p == Key!EffectivePolicy(key'[k].owner)
           t == key'[k].targets
<1>3. g \in Key!Plan(t, Key!PolicyAllows(p))
  <2>1. CASE Key!CreateOwnKey(k, key'[k].owner, t)
    <3>1. key'[k] = Key!OwnCreated(k, key'[k].owner, t) BY <1>1, <2>1 DEF Key!CreateOwnKey
    <3>2. key'[k].grants = Key!Plan(t, Key!PolicyAllows(p))
      BY <3>1 DEF Key!OwnCreated, Key!Written
    <3> QED BY <1>2, <3>2
  <2>2. CASE Key!UpdateOwnKey(k, t, key'[k].status)
    <3>1. key'[k] = Key!OwnUpdated(k, t, key'[k].status) BY <1>1, <2>2 DEF Key!UpdateOwnKey
    <3>2. key'[k].owner = key[k].owner BY <3>1 DEF Key!OwnUpdated, Key!Written
    <3>3. key'[k].grants = IF t = key[k].targets THEN key[k].grants
                           ELSE Key!Reconcile(key[k], t, Key!Plan(t, Key!PolicyAllows(Key!EffectivePolicy(key[k].owner))))
        BY <3>1 DEF Key!OwnUpdated, Key!Written
    <3> QED BY <1>2, <3>2, <3>3 DEF Key!Reconcile
  <2> QED BY <2>1, <2>2
<1>4. g.origin \in t BY <1>3 DEF Key!Plan
<1>5. p # None /\ policy[p].enabled /\ c \in Key!Matching(policy[p].grants)
    BY <1>2, <1>3, <1>4, PlanWithin
<1> QED BY <1>5 DEF Key!Matching

\* Neither an administrator nor its owner brings a revoked key back.
LEMMA RevokedStep == ASSUME Key!KeyInv, [Key!Next]_(Key!vars) PROVE Key!RevokedIsFinal
<1>1. key \in [Keys -> Key!KeyRow] BY DEF Key!KeyInv, Key!TypeOK
<1>2. CASE key' = key BY <1>2 DEF Key!RevokedIsFinal
<1>3. ASSUME NEW k \in Keys, NEW row, key' = [key EXCEPT ![k] = row],
             key[k].status = "revoked" => row.status = "revoked", ~key[k].deleted
      PROVE  Key!RevokedIsFinal
    BY <1>1, <1>3 DEF Key!RevokedIsFinal
<1>4. ASSUME NEW k \in Keys, NEW u \in Users, NEW t \in SUBSET Key!Targets,
             Key!CreateKey(k, u, t) \/ Key!CreateOwnKey(k, u, t)
      PROVE  Key!RevokedIsFinal
  <2>1. key[k].status = "absent" /\ ~key[k].deleted
      BY <1>4 DEF Key!CreateKey, Key!CreateOwnKey, Key!KeyInv, Key!AbsentSelectsNothing
  <2>2. CASE Key!CreateKey(k, u, t)
    <3> DEFINE row == Key!Written(k, "active", u, t, Key!AdminGrants(key[k], t))
    <3>1. key' = [key EXCEPT ![k] = row] BY <2>2 DEF Key!CreateKey
    <3> HIDE DEF row
    <3> QED BY <1>3, <2>1, <3>1
  <2>3. CASE Key!CreateOwnKey(k, u, t)
    <3> DEFINE row == Key!OwnCreated(k, u, t)
    <3>1. key' = [key EXCEPT ![k] = row] BY <2>3 DEF Key!CreateOwnKey
    <3> HIDE DEF row
    <3> QED BY <1>3, <2>1, <3>1
  <2> QED BY <1>4, <2>2, <2>3
<1>5. ASSUME NEW k \in Keys, NEW t \in SUBSET Key!Targets, NEW s, Key!UpdateKey(k, t, s)
      PROVE  Key!RevokedIsFinal
  <2> DEFINE row == Key!Written(k, s, key[k].owner, t, Key!AdminGrants(key[k], t))
  <2>1. /\ key' = [key EXCEPT ![k] = row] /\ ~key[k].deleted
        /\ key[k].status = "revoked" => s = "revoked"
      BY <1>5 DEF Key!UpdateKey, Key!Live, Key!KeepsRevoked
  <2>2. row.status = s BY DEF Key!Written
  <2> HIDE DEF row
  <2> QED BY <1>3, <2>1, <2>2
<1>6. ASSUME NEW k \in Keys, NEW t \in SUBSET Key!Targets, NEW s, Key!UpdateOwnKey(k, t, s)
      PROVE  Key!RevokedIsFinal
  <2> DEFINE row == Key!OwnUpdated(k, t, s)
  <2>1. key' = [key EXCEPT ![k] = row] /\ ~key[k].deleted /\ key[k].status # "revoked"
      BY <1>6 DEF Key!UpdateOwnKey, Key!Live
  <2> HIDE DEF row
  <2> QED BY <1>3, <2>1
<1>7. ASSUME NEW k \in Keys, Key!RevokeKey(k) PROVE Key!RevokedIsFinal
  <2> DEFINE row == [key[k] EXCEPT !.status = "revoked"]
  <2>1. key' = [key EXCEPT ![k] = row] /\ ~key[k].deleted /\ key[k].status # "revoked"
      BY <1>7 DEF Key!RevokeKey, Key!Live
  <2> HIDE DEF row
  <2> QED BY <1>3, <2>1
<1>8. ASSUME NEW k \in Keys, Key!DeleteKey(k) PROVE Key!RevokedIsFinal
  <2> DEFINE old == Key!Written(k, "revoked", key[k].owner, key[k].targets, key[k].grants)
             row == [old EXCEPT !.deleted = TRUE]
  <2>1. key' = [key EXCEPT ![k] = row] /\ ~key[k].deleted BY <1>8 DEF Key!DeleteKey, Key!Live
  <2>2. row.status = "revoked" BY DEF Key!Written
  <2> HIDE DEF row
  <2> QED BY <1>3, <2>1, <2>2
<1>9. Key!Next /\ key' # key =>
        \/ \E k \in Keys, u \in Users, t \in SUBSET Key!Targets : Key!CreateKey(k, u, t) \/ Key!CreateOwnKey(k, u, t)
        \/ \E k \in Keys, t \in SUBSET Key!Targets, s \in {"active", "disabled", "revoked"} :
             Key!UpdateKey(k, t, s) \/ Key!UpdateOwnKey(k, t, s)
        \/ \E k \in Keys : Key!RevokeKey(k) \/ Key!DeleteKey(k)
    BY DEF Key!Next, Key!CreateChannel, Key!MoveChannel, Key!DeleteChannel, Key!DeleteGroup,
      Key!SavePolicy, Key!UpdateUserGroup, Key!DeleteUserGroup, Key!BatchUsers
<1> QED BY <1>2, <1>4, <1>5, <1>6, <1>7, <1>8, <1>9 DEF Key!vars

\* No sequence of writes brings a revoked or deleted key back or changes a deleted
\* one, and a channel that a self-service write adds is one that the effective
\* policy, enabled at that moment, allows (api_key_update, api_key_soft_delete,
\* update_own_api_key).
THEOREM KeyRightsAlwaysKept == Key!KeyAssumption /\ Key!Spec => [][Key!KeyRights]_(Key!vars)
<1> SUFFICES ASSUME Key!KeyAssumption PROVE Key!Spec => [][Key!KeyRights]_(Key!vars) OBVIOUS
<1>1. Key!KeyInv /\ [Key!Next]_(Key!vars) => Key!KeyRights
  <2> SUFFICES ASSUME Key!KeyInv, [Key!Next]_(Key!vars) PROVE Key!KeyRights OBVIOUS
  <2>1. Key!SelfServiceWithinPolicy BY SelfServiceStep DEF Key!KeyInv
  <2> QED BY <2>1, RevokedStep DEF Key!KeyRights
<1>2. Key!Spec => []Key!KeyInv BY KeyInvariant
<1> QED BY <1>1, <1>2, PTL DEF Key!Spec

--------------------
\* Hosted: ConsoleAuth, the accounts that own the keys and their sessions.
\* The theorems are about the specification of ConsoleAuth with its own
\* constants; it shares no state with the components above.

CONSTANTS
  Root, Clients, Sessions, Invites, RefreshTtl, TempTtl, InviteTtl, FailureLimit, FailureWindow,
  MaxUses, Budget

VARIABLES session, invite, code, windows, tokens, epoch, born, spent

Au == INSTANCE ConsoleAuth

\* The module counts with the operators of FiniteSets.
LEMMA ConsoleCounts == ASSUME NEW S PROVE Au!Cardinality(S) = Cardinality(S)
BY DEF Au!Cardinality, Cardinality

LEMMA ConsoleFinite == ASSUME NEW S PROVE Au!IsFiniteSet(S) <=> IsFiniteSet(S)
BY DEF Au!IsFiniteSet, IsFiniteSet


\* The constants as the proofs need them.
LEMMA AuthConstants ==
  ASSUME Au!AuthAssumption
  PROVE  /\ Root \in Users /\ None \notin Nat /\ None \notin Au!SessionRow /\ None \notin Au!InviteRow
         /\ None \notin Au!CodeRow /\ None \notin Au!FailureRow /\ MaxUses \subseteq Nat
         /\ RefreshTtl \in Nat /\ TempTtl \in Nat /\ InviteTtl \in Nat /\ IsFiniteSet(Clients)
         /\ FailureLimit \in Nat /\ FailureLimit > 0 /\ FailureWindow \in Nat
BY ConsoleFinite DEF Au!AuthAssumption

\* A row with a password of its own.
LEMMA WithPasswordIs ==
  ASSUME NEW r \in Au!UserRow
  PROVE  /\ Au!WithPassword(r) \in Au!UserRow /\ Au!WithPassword(r).password /\ Au!WithPassword(r).temporary = None
         /\ Au!WithPassword(r).status = r.status /\ Au!WithPassword(r).role = r.role
         /\ Au!WithPassword(r).version = r.version /\ Au!WithPassword(r).deleted = r.deleted
<1> DEFINE b == [r EXCEPT !.password = TRUE]
<1>1. /\ b \in Au!UserRow /\ b.password /\ b.status = r.status /\ b.role = r.role
      /\ b.version = r.version /\ b.deleted = r.deleted
    BY DEF Au!UserRow
<1>2. Au!WithPassword(r) = [b EXCEPT !.temporary = None] BY DEF Au!WithPassword
<1> HIDE DEF b
<1> QED BY <1>1, <1>2 DEF Au!UserRow

\* A row whose access tokens have ended.
LEMMA BumpedIs ==
  ASSUME NEW r \in Au!UserRow
  PROVE  /\ Au!Bumped(r) \in Au!UserRow /\ Au!Bumped(r).version = r.version + 1
         /\ Au!Bumped(r).status = r.status /\ Au!Bumped(r).role = r.role /\ Au!Bumped(r).email = r.email
         /\ Au!Bumped(r).password = r.password /\ Au!Bumped(r).temporary = r.temporary
         /\ Au!Bumped(r).deleted = r.deleted
BY DEF Au!UserRow, Au!Bumped

\* The row that a deletion leaves.
LEMMA AnonymizedIs ==
  ASSUME NEW r \in Au!UserRow
  PROVE  /\ Au!Anonymized(r) \in Au!UserRow /\ Au!Anonymized(r).version = r.version
         /\ Au!Anonymized(r).status = "disabled" /\ Au!Anonymized(r).deleted
         /\ ~Au!Anonymized(r).password /\ ~Au!Anonymized(r).email
<1> DEFINE a == [r EXCEPT !.email = FALSE]
           b == [a EXCEPT !.role = "user"]
           c == [b EXCEPT !.status = "disabled"]
           d == [c EXCEPT !.password = FALSE]
           e == [d EXCEPT !.temporary = None]
<1>1. a \in Au!UserRow /\ ~a.email /\ a.version = r.version BY DEF Au!UserRow
<1>6. Au!Anonymized(r) = [e EXCEPT !.deleted = TRUE] BY DEF Au!Anonymized
<1> HIDE DEF a
<1>2. b \in Au!UserRow /\ ~b.email /\ b.version = r.version BY <1>1 DEF Au!UserRow
<1> HIDE DEF b
<1>3. c \in Au!UserRow /\ ~c.email /\ c.version = r.version /\ c.status = "disabled"
    BY <1>2 DEF Au!UserRow, Au!Statuses
<1> HIDE DEF c
<1>4. d \in Au!UserRow /\ ~d.email /\ d.version = r.version /\ d.status = "disabled" /\ ~d.password
    BY <1>3 DEF Au!UserRow
<1> HIDE DEF d
<1>5. e \in Au!UserRow /\ ~e.email /\ e.version = r.version /\ e.status = "disabled" /\ ~e.password
    BY <1>4 DEF Au!UserRow
<1> HIDE DEF e
<1> QED BY <1>5, <1>6 DEF Au!UserRow

\* The row of a new account.
LEMMA RowIs ==
  ASSUME NEW st \in Au!Statuses, NEW r \in {"user", "admin"}, NEW pw \in BOOLEAN
  PROVE  /\ Au!Row(st, r, pw) \in Au!UserRow /\ Au!Row(st, r, pw).status = st /\ Au!Row(st, r, pw).version = 1
         /\ Au!Row(st, r, pw).password = pw /\ ~Au!Row(st, r, pw).deleted
         /\ Au!Row(st, r, pw).role = r /\ Au!Row(st, r, pw).temporary = None
<1>1. (st # "absent") \in BOOLEAN OBVIOUS
<1> QED BY <1>1 DEF Au!Row, Au!UserRow

\* A revoked session and a revoked invitation.
LEMMA RevokedIs ==
  ASSUME NEW r \in Au!SessionRow
  PROVE  /\ Au!Revoked(r) \in Au!SessionRow /\ Au!Revoked(r).revoked /\ Au!Revoked(r).user = r.user
         /\ Au!Revoked(r).token = r.token
BY DEF Au!Revoked, Au!SessionRow

\* A revoked invitation.
LEMMA RevokedInviteIs ==
  ASSUME NEW r \in Au!InviteRow
  PROVE  Au!Revoked(r) \in Au!InviteRow /\ Au!Revoked(r).revoked /\ Au!Revoked(r).user = r.user
BY DEF Au!Revoked, Au!InviteRow

--------------------
\* Accounts

\* An account whose row is as it was, or whose credentials changed together with
\* its version and its epoch.
LEMMA AccountChanges ==
  ASSUME Au!RowsInv, NEW u \in Users, NEW r \in Au!UserRow, r.version = user[u].version,
         r.status \notin {"absent", "invited"} \/ (~r.password /\ ~r.deleted),
         r.status # "absent",
         r.deleted => r.status = "disabled" /\ ~r.password /\ ~r.email,
         user' = [user EXCEPT ![u] = Au!Bumped(r)], Au!Changed(u)
  PROVE  Au!RowsInv'
<1> DEFINE b == Au!Bumped(r)
<1>1. /\ b \in Au!UserRow /\ b.version = r.version + 1 /\ b.status = r.status
      /\ b.email = r.email /\ b.password = r.password /\ b.deleted = r.deleted
    BY BumpedIs
<1>2. user' = [user EXCEPT ![u] = b] OBVIOUS
<1> HIDE DEF b
<1>3. user \in [Users -> Au!UserRow] /\ epoch \in [Users -> Nat] BY DEF Au!RowsInv
<1>4. user' \in [Users -> Au!UserRow] /\ user'[u] = b /\ \A v \in Users : v # u => user'[v] = user[v]
    BY <1>1, <1>2, <1>3
<1>5. /\ epoch' \in [Users -> Nat] /\ epoch'[u] = epoch[u] + 1
      /\ \A v \in Users : v # u => epoch'[v] = epoch[v]
    BY <1>3 DEF Au!Changed
<1>6. \A v \in Users : Au!AccountSound(v)'
  <2> SUFFICES ASSUME NEW v \in Users PROVE Au!AccountSound(v)' OBVIOUS
  <2>1. Au!AccountSound(v) /\ Au!AccountSound(u) BY DEF Au!RowsInv
  <2>2. CASE v = u
    <3>1. b.version = epoch'[u] + 1
      <4>1. r.version = epoch[u] + 1 BY <2>1 DEF Au!AccountSound
      <4> QED BY <1>1, <1>5, <4>1
    <3>2. b.status # "absent" BY <1>1
    <3>3. b.status \in {"absent", "invited"} => ~b.password /\ ~b.deleted BY <1>1
    <3>4. b.deleted => b.status = "disabled" /\ ~b.password /\ ~b.email BY <1>1
    <3> QED BY <1>4, <2>2, <3>1, <3>2, <3>3, <3>4 DEF Au!AccountSound
  <2>3. CASE v # u BY <1>4, <1>5, <2>1, <2>3 DEF Au!AccountSound
  <2> QED BY <2>2, <2>3
<1> QED BY <1>4, <1>5, <1>6 DEF Au!RowsInv

\* An account that comes into being.
LEMMA AccountBegins ==
  ASSUME Au!RowsInv, NEW u \in Users, user[u].status = "absent", NEW st \in {"invited", "active"},
         NEW r \in {"user", "admin"}, NEW pw \in BOOLEAN, st = "invited" => pw = FALSE,
         user' = [user EXCEPT ![u] = Au!Row(st, r, pw)], epoch' = epoch
  PROVE  Au!RowsInv' /\ epoch[u] = 0
<1> DEFINE b == Au!Row(st, r, pw)
<1>0. st \in Au!Statuses BY DEF Au!Statuses
<1>1. /\ b \in Au!UserRow /\ b.version = 1 /\ b.status = st /\ b.password = pw /\ ~b.deleted
    BY <1>0, RowIs
<1>2. user' = [user EXCEPT ![u] = b] OBVIOUS
<1> HIDE DEF b
<1>3. user \in [Users -> Au!UserRow] /\ epoch \in [Users -> Nat] BY DEF Au!RowsInv
<1>4. user' \in [Users -> Au!UserRow] /\ user'[u] = b /\ \A v \in Users : v # u => user'[v] = user[v]
    BY <1>1, <1>2, <1>3
<1>5. Au!AccountSound(u) BY DEF Au!RowsInv
<1>6. epoch[u] = 0
  <2>1. user[u].version = 1 /\ user[u].version = epoch[u] + 1 /\ epoch[u] \in Nat
      BY <1>3, <1>5 DEF Au!AccountSound
  <2> QED BY <2>1
<1>7. \A v \in Users : Au!AccountSound(v)'
  <2> SUFFICES ASSUME NEW v \in Users PROVE Au!AccountSound(v)' OBVIOUS
  <2>1. Au!AccountSound(v) BY DEF Au!RowsInv
  <2>2. CASE v = u BY <1>1, <1>4, <1>6, <2>2 DEF Au!AccountSound
  <2>3. CASE v # u BY <1>4, <2>1, <2>3 DEF Au!AccountSound
  <2> QED BY <2>2, <2>3
<1> QED BY <1>3, <1>4, <1>6, <1>7 DEF Au!RowsInv

--------------------
\* Sessions

\* What every step does to accounts and, but for an exchange, to sessions.
KnownStays == \A u \in Users : Au!Known(u) => Au!Known(u)'
DeletedStays == \A u \in Users : user'[u].deleted => user[u].deleted
RotatesNothing ==
  \A s \in Sessions :
    session[s] # None => session'[s] # None /\ session'[s].token = session[s].token

\* Accounts that do not change stay sound.
LEMMA RowsSame ==
  ASSUME Au!RowsInv, user' = user, epoch' = epoch PROVE Au!RowsInv' /\ KnownStays /\ DeletedStays
<1>1. Au!RowsInv' BY DEF Au!RowsInv, Au!AccountSound
<1>2. KnownStays BY DEF KnownStays, Au!Known
<1>3. DeletedStays BY DEF DeletedStays
<1> QED BY <1>1, <1>2, <1>3

\* Sessions that do not change stay sound while the credentials of their users do.
LEMMA SessionsSame ==
  ASSUME Au!SessionsInv, KnownStays, session' = session, born' = born, 
         \A u \in Users : Au!Known(u) => epoch'[u] = epoch[u]
  PROVE  Au!SessionsInv' /\ RotatesNothing
<1>1. RotatesNothing BY DEF RotatesNothing
<1>2. \A s \in Sessions : Au!SessionSound(s)'
  <2> SUFFICES ASSUME NEW s \in Sessions, session[s] # None
               PROVE  /\ Au!Known(session[s].user)'
                      /\ ~session[s].revoked => born[s] = epoch'[session[s].user]
      BY DEF Au!SessionSound
  <2>1. session[s] \in Au!SessionRow BY DEF Au!SessionsInv
  <2>2. session[s].user \in Users BY <2>1 DEF Au!SessionRow
  <2>3. Au!SessionSound(s) BY DEF Au!SessionsInv
  <2>4. Au!Known(session[s].user) /\ (~session[s].revoked => born[s] = epoch[session[s].user])
      BY <2>3 DEF Au!SessionSound
  <2>5. Au!Known(session[s].user)' BY <2>2, <2>4 DEF KnownStays, Au!Known
  <2> QED BY <2>2, <2>4, <2>5
<1> QED BY <1>1, <1>2 DEF Au!SessionsInv

\* The sessions of a user are revoked and nobody else's credentials change.
LEMMA AllRevoked ==
  ASSUME Au!AuthAssumption, Au!SessionsInv, KnownStays, NEW u \in Users, Au!RevokeAll(u), born' = born,
         \A v \in Users : v # u => epoch'[v] = epoch[v]
  PROVE  Au!SessionsInv' /\ RotatesNothing
<1>1. \A s \in Sessions : session[s] \in Au!SessionRow \cup {None} BY DEF Au!SessionsInv
<1>2. \A s \in Sessions : session'[s] = IF session[s] # None /\ session[s].user = u
                                        THEN Au!Revoked(session[s]) ELSE session[s]
    BY DEF Au!RevokeAll
<1>3. \A s \in Sessions : session[s] # None =>
        /\ session[s] \in Au!SessionRow /\ session'[s] \in Au!SessionRow /\ session'[s] # None
        /\ session'[s].user = session[s].user /\ session'[s].token = session[s].token
        /\ session[s].user = u => session'[s].revoked
        /\ session[s].user # u => session'[s] = session[s]
  <2> SUFFICES ASSUME NEW s \in Sessions, session[s] # None
               PROVE  /\ session[s] \in Au!SessionRow /\ session'[s] \in Au!SessionRow /\ session'[s] # None
                      /\ session'[s].user = session[s].user /\ session'[s].token = session[s].token
                      /\ session[s].user = u => session'[s].revoked
                      /\ session[s].user # u => session'[s] = session[s]
      OBVIOUS
  <2>1. session[s] \in Au!SessionRow BY <1>1
  <2>2. CASE session[s].user = u
    <3>1. session'[s] = Au!Revoked(session[s]) BY <1>2, <2>2
    <3> QED BY <2>1, <2>2, <3>1, RevokedIs, AuthConstants
  <2>3. CASE session[s].user # u BY <1>2, <2>1, <2>3
  <2> QED BY <2>2, <2>3
<1>4. session' \in [Sessions -> Au!SessionRow \cup {None}]
  <2>1. \A s \in Sessions : session'[s] \in Au!SessionRow \cup {None} BY <1>1, <1>2, <1>3
  <2> QED BY <2>1 DEF Au!RevokeAll
<1>5. \A s \in Sessions : Au!SessionSound(s)'
  <2> SUFFICES ASSUME NEW s \in Sessions, session'[s] # None
               PROVE  /\ session'[s].user = session[s].user
                      /\ user'[session[s].user].password \/ user'[session[s].user].deleted
                      /\ ~session'[s].revoked => born[s] = epoch'[session[s].user]
      BY DEF Au!SessionSound, Au!Known
  <2>1. session[s] # None BY <1>2
  <2>2. session[s].user \in Users BY <1>3, <2>1 DEF Au!SessionRow
  <2>3. Au!SessionSound(s) BY DEF Au!SessionsInv
  <2>4. Au!Known(session[s].user) /\ (~session[s].revoked => born[s] = epoch[session[s].user])
      BY <2>1, <2>3 DEF Au!SessionSound
  <2>5. user'[session[s].user].password \/ user'[session[s].user].deleted
      BY <2>2, <2>4 DEF KnownStays, Au!Known
  <2> QED BY <1>3, <2>1, <2>2, <2>4, <2>5
<1>6. RotatesNothing BY <1>3 DEF RotatesNothing
<1> QED BY <1>4, <1>5, <1>6 DEF Au!SessionsInv

\* Some sessions are revoked, no credential changes.
LEMMA SomeRevoked ==
  ASSUME Au!AuthAssumption, Au!SessionsInv, NEW S, \A s \in S : session[s] # None,
         session' = [s \in Sessions |-> IF s \in S THEN Au!Revoked(session[s]) ELSE session[s]],
         born' = born, epoch' = epoch, user' = user
  PROVE  Au!SessionsInv' /\ RotatesNothing
<1>1. \A s \in Sessions : session[s] # None =>
        /\ session'[s] \in Au!SessionRow /\ session'[s] # None
        /\ session'[s].user = session[s].user /\ session'[s].token = session[s].token
        /\ session[s].revoked => session'[s].revoked
  <2> SUFFICES ASSUME NEW s \in Sessions, session[s] # None
               PROVE  /\ session'[s] \in Au!SessionRow /\ session'[s] # None
                      /\ session'[s].user = session[s].user /\ session'[s].token = session[s].token
                      /\ session[s].revoked => session'[s].revoked
      OBVIOUS
  <2>1. session[s] \in Au!SessionRow BY DEF Au!SessionsInv
  <2>2. CASE s \in S
    <3>1. session'[s] = Au!Revoked(session[s]) BY <2>2
    <3> QED BY <2>1, <3>1, RevokedIs, AuthConstants
  <2>3. CASE s \notin S BY <2>1, <2>3
  <2> QED BY <2>2, <2>3
<1>2. \A s \in Sessions : session[s] = None => session'[s] = None OBVIOUS
<1>3. session' \in [Sessions -> Au!SessionRow \cup {None}]
  <2>1. \A s \in Sessions : session'[s] \in Au!SessionRow \cup {None} BY <1>1, <1>2
  <2> QED BY <2>1
<1>4. \A s \in Sessions : Au!SessionSound(s)'
  <2> SUFFICES ASSUME NEW s \in Sessions, session'[s] # None
               PROVE  /\ Au!Known(session[s].user) /\ session'[s].user = session[s].user
                      /\ ~session'[s].revoked => born[s] = epoch[session[s].user]
      BY DEF Au!SessionSound, Au!Known
  <2>1. session[s] # None BY <1>2
  <2>2. Au!SessionSound(s) BY DEF Au!SessionsInv
  <2> QED BY <1>1, <2>1, <2>2 DEF Au!SessionSound
<1>5. RotatesNothing BY <1>1 DEF RotatesNothing
<1> QED BY <1>3, <1>4, <1>5 DEF Au!SessionsInv

\* A session begins, or its token is exchanged: no credential changes.
LEMMA OneSession ==
  ASSUME Au!AuthAssumption, Au!SessionsInv, NEW s \in Sessions, NEW r \in Au!SessionRow, Au!Known(r.user),
         session' = [session EXCEPT ![s] = r], born' \in [Sessions -> Nat],
         \A q \in Sessions : q # s => born'[q] = born[q],
         ~r.revoked => born'[s] = epoch[r.user], epoch' = epoch, user' = user
  PROVE  Au!SessionsInv' /\ session'[s] = r /\ \A q \in Sessions : q # s => session'[q] = session[q]
<1>1. /\ session' \in [Sessions -> Au!SessionRow \cup {None}] /\ session'[s] = r
      /\ \A q \in Sessions : q # s => session'[q] = session[q]
    BY DEF Au!SessionsInv
<1>2. \A q \in Sessions : Au!SessionSound(q)'
  <2> SUFFICES ASSUME NEW q \in Sessions, session'[q] # None
               PROVE  /\ Au!Known(session'[q].user)
                      /\ ~session'[q].revoked => born'[q] = epoch[session'[q].user]
      BY DEF Au!SessionSound, Au!Known
  <2>1. CASE q = s BY <1>1, <2>1
  <2>2. CASE q # s
    <3>1. Au!SessionSound(q) BY DEF Au!SessionsInv
    <3> QED BY <1>1, <2>2, <3>1 DEF Au!SessionSound
  <2> QED BY <2>1, <2>2
<1> QED BY <1>1, <1>2 DEF Au!SessionsInv

\* A credential is replaced.
LEMMA ReplaceKeeps ==
  ASSUME Au!AuthAssumption, Au!RowsInv, Au!SessionsInv, NEW u \in Users, NEW r \in Au!UserRow,
         r.version = user[u].version,
         r.status \notin {"absent", "invited"} \/ (~r.password /\ ~r.deleted),
         r.status # "absent",
         r.deleted => r.status = "disabled" /\ ~r.password /\ ~r.email,
         Au!Known(u) => r.password \/ r.deleted,
         user' = [user EXCEPT ![u] = Au!Bumped(r)], Au!Changed(u), Au!RevokeAll(u), born' = born
  PROVE  /\ Au!RowsInv' /\ Au!SessionsInv' /\ KnownStays /\ RotatesNothing
         /\ (r.deleted => user[u].deleted) => DeletedStays
         /\ user'[u] = Au!Bumped(r) /\ \A v \in Users : v # u => user'[v] = user[v]
<1>1. Au!RowsInv' BY AccountChanges
<1>2. user \in [Users -> Au!UserRow] /\ epoch \in [Users -> Nat] BY DEF Au!RowsInv
<1>3. Au!Bumped(r).password = r.password /\ Au!Bumped(r).deleted = r.deleted BY BumpedIs
<1>4. user'[u] = Au!Bumped(r) /\ \A v \in Users : v # u => user'[v] = user[v] BY <1>2
<1>5. KnownStays
  <2> SUFFICES ASSUME NEW v \in Users, Au!Known(v) PROVE user'[v].password \/ user'[v].deleted
      BY DEF KnownStays, Au!Known
  <2>1. CASE v = u BY <1>3, <1>4, <2>1
  <2>2. CASE v # u BY <1>4, <2>2 DEF Au!Known
  <2> QED BY <2>1, <2>2
<1>6. \A v \in Users : v # u => epoch'[v] = epoch[v] BY <1>2 DEF Au!Changed
<1>7. Au!SessionsInv' /\ RotatesNothing BY <1>5, <1>6, AllRevoked
<1>8. (r.deleted => user[u].deleted) => DeletedStays BY <1>3, <1>4 DEF DeletedStays
<1> QED BY <1>1, <1>4, <1>5, <1>7, <1>8

\* Without an exchange the tokens that were spent are those before.
LEMMA SpentSame ==
  ASSUME Au!SpentInv, Au!SessionsInv, RotatesNothing, spent' = spent PROVE Au!SpentInv'
<1> SUFFICES ASSUME NEW x \in spent PROVE session'[x[1]] # None /\ x[2] < session'[x[1]].token
    BY DEF Au!SpentInv
<1>1. x[1] \in Sessions /\ session[x[1]] # None /\ x[2] < session[x[1]].token BY DEF Au!SpentInv
<1> QED BY <1>1 DEF RotatesNothing

--------------------
\* Requests, tokens and invitations

\* One request takes a step; the others keep what they were granted.
LEMMA ClientSteps ==
  ASSUME Au!ClientsInv, KnownStays, NEW c \in Clients, NEW r, Au!Become(c, r),
         \/ r = Au!Idle \/ r \in Au!VerifiedState
         \/ /\ r \in Au!GrantState /\ r.version = r.epoch + 1
            /\ user'[r.user].password \/ user'[r.user].deleted
            /\ r.purpose = "password_change" => r.until # None
  PROVE  Au!ClientsInv'
<1>1. /\ client' \in [Clients -> {Au!Idle} \cup Au!VerifiedState \cup Au!GrantState] /\ client'[c] = r
      /\ \A d \in Clients : d # c => client'[d] = client[d]
    BY DEF Au!ClientsInv, Au!Become
<1>2. \A d \in Clients : \/ client'[d] = Au!Idle \/ client'[d] \in Au!VerifiedState
                         \/ /\ client'[d] \in Au!GrantState
                            /\ client'[d].version = client'[d].epoch + 1
                            /\ user'[client'[d].user].password \/ user'[client'[d].user].deleted
                            /\ client'[d].purpose = "password_change" => client'[d].until # None
  <2> SUFFICES ASSUME NEW d \in Clients, d # c, client[d] # Au!Idle, client[d] \notin Au!VerifiedState
               PROVE  /\ client[d] \in Au!GrantState
                      /\ client[d].version = client[d].epoch + 1
                      /\ user'[client[d].user].password \/ user'[client[d].user].deleted
                      /\ client[d].purpose = "password_change" => client[d].until # None
      BY <1>1
  <2>1. /\ client[d] \in Au!GrantState /\ client[d].version = client[d].epoch + 1
        /\ Au!Known(client[d].user) /\ (client[d].purpose = "password_change" => client[d].until # None)
      BY DEF Au!ClientsInv, Au!ClientSound
  <2>2. client[d].user \in Users BY <2>1 DEF Au!GrantState
  <2> QED BY <2>1, <2>2 DEF KnownStays, Au!Known
<1>3. \A d \in Clients : Au!ClientSound(client[d])'
  BY <1>2 DEF Au!ClientSound, Au!Known, Au!Idle, Au!VerifiedState, Au!GrantState
<1> QED BY <1>1, <1>3 DEF Au!ClientsInv, Au!Idle, Au!VerifiedState, Au!GrantState

\* Requests that take no step keep what they were granted.
LEMMA ClientsSame ==
  ASSUME Au!ClientsInv, KnownStays, client' = client PROVE Au!ClientsInv'
<1>1. \A d \in Clients : \/ client[d] = Au!Idle \/ client[d] \in Au!VerifiedState
                         \/ /\ client[d] \in Au!GrantState
                            /\ client[d].version = client[d].epoch + 1
                            /\ user'[client[d].user].password \/ user'[client[d].user].deleted
                            /\ client[d].purpose = "password_change" => client[d].until # None
  <2> SUFFICES ASSUME NEW d \in Clients, client[d] # Au!Idle, client[d] \notin Au!VerifiedState
               PROVE  /\ client[d] \in Au!GrantState
                      /\ client[d].version = client[d].epoch + 1
                      /\ user'[client[d].user].password \/ user'[client[d].user].deleted
                      /\ client[d].purpose = "password_change" => client[d].until # None
      OBVIOUS
  <2>1. /\ client[d] \in Au!GrantState /\ client[d].version = client[d].epoch + 1
        /\ Au!Known(client[d].user) /\ (client[d].purpose = "password_change" => client[d].until # None)
      BY DEF Au!ClientsInv, Au!ClientSound
  <2>2. client[d].user \in Users BY <2>1 DEF Au!GrantState
  <2> QED BY <2>1, <2>2 DEF KnownStays, Au!Known
<1>2. \A d \in Clients : Au!ClientSound(client[d])'
  BY <1>1 DEF Au!ClientSound, Au!Known, Au!Idle, Au!VerifiedState, Au!GrantState
<1> QED BY <1>2 DEF Au!ClientsInv, Au!Idle, Au!VerifiedState, Au!GrantState

\* What a request that is not idle has read.
LEMMA ClientIs ==
  ASSUME Au!ClientsInv, NEW c \in Clients
  PROVE  /\ client[c].step \in {"login", "grant"} => 
              /\ client[c] \in Au!GrantState /\ client[c].version = client[c].epoch + 1
              /\ Au!Known(client[c].user) 
              /\ client[c].purpose = "password_change" => client[c].until # None
         /\ client[c].step \in {"change", "issue", "complete", "delete"} =>
              client[c] \in Au!VerifiedState
         /\ client[c] = Au!Idle => client[c].step = "idle"
<1>1. Au!Idle.step = "idle" BY DEF Au!Idle
<1>2. \A r \in Au!VerifiedState : r.step \in {"change", "issue", "complete", "delete"}
  BY DEF Au!VerifiedState
<1>3. \A r \in Au!GrantState : r.step \in {"login", "grant"} BY DEF Au!GrantState
<1>4. Au!ClientSound(client[c]) BY DEF Au!ClientsInv
<1> QED BY <1>1, <1>2, <1>3, <1>4 DEF Au!ClientSound

\* Invitations that do not change stay sound while nobody is deleted.
LEMMA InvitesSame ==
  ASSUME Au!InvitesInv, DeletedStays, invite' = invite PROVE Au!InvitesInv'
<1>1. \A i \in Invites : Au!InviteSound(i)'
  <2> SUFFICES ASSUME NEW i \in Invites, invite[i] # None, user'[invite[i].user].deleted
               PROVE  invite[i].accepted \/ invite[i].revoked
      BY DEF Au!InviteSound
  <2>1. invite[i] \in Au!InviteRow BY DEF Au!InvitesInv
  <2>2. invite[i].user \in Users BY <2>1 DEF Au!InviteRow
  <2>3. user[invite[i].user].deleted BY <2>2 DEF DeletedStays
  <2>4. Au!InviteSound(i) BY DEF Au!InvitesInv
  <2> QED BY <2>3, <2>4 DEF Au!InviteSound
<1> QED BY <1>1 DEF Au!InvitesInv

\* No access token is handed out.
LEMMA TokensSame == ASSUME Au!TokensInv, tokens' = tokens PROVE Au!TokensInv'
BY DEF Au!TokensInv, Au!Tokens

\* The registration code does not change.
LEMMA CodeSame == ASSUME Au!CodeInv, code' = code PROVE Au!CodeInv'
BY DEF Au!CodeInv, Au!CodeWithinMax

--------------------
\* The failure limiter

\* There are at most as many requests past the check as there are requests.
LEMMA PendingFinite ==
  ASSUME Au!AuthAssumption, NEW u
  PROVE  /\ IsFiniteSet(Au!Pending(u)) /\ Cardinality(Au!Pending(u)) \in Nat
         /\ Cardinality(Clients) \in Nat /\ Cardinality(Au!Pending(u)) <= Cardinality(Clients)
<1>1. IsFiniteSet(Clients) BY AuthConstants
<1>2. Au!Pending(u) \subseteq Clients BY DEF Au!Pending
<1>3. IsFiniteSet(Au!Pending(u)) /\ Cardinality(Au!Pending(u)) <= Cardinality(Clients)
    BY <1>1, <1>2, FS_Subset
<1> QED BY <1>1, <1>3, FS_CardinalityType

\* An account whose window does not change and for which nobody new is past the
\* check.
LEMMA GuessKept ==
  ASSUME Au!AuthAssumption, Au!GuessInv, now' = now, NEW u \in Users, windows'[u] = windows[u],
         Au!Pending(u)' \subseteq Au!Pending(u)
  PROVE  Au!GuessSound(u)'
<1> SUFFICES ASSUME windows[u] # None PROVE Au!GuessSound(u)' BY DEF Au!GuessSound
<1>1. Au!GuessSound(u) BY DEF Au!GuessInv
<1>2. windows[u] \in Au!FailureRow /\ now \in Nat BY DEF Au!GuessInv
<1> DEFINE f == windows[u].failures
           p == Cardinality(Au!Pending(u))
           q == Cardinality(Au!Pending(u)')
           k == FailureLimit + Cardinality(Clients) - 1
           young == now - windows[u].start < FailureWindow
<1>3. /\ f \in Nat /\ windows[u].start <= now /\ f <= k /\ (young => f + p <= k)
    BY <1>1, <1>2, ConsoleCounts DEF Au!GuessSound, Au!FailureRow
<1>4. p \in Nat /\ q \in Nat /\ q <= p
  <2>1. Au!Pending(u)' \subseteq Au!Pending(u) /\ IsFiniteSet(Au!Pending(u)) BY PendingFinite
  <2>2. IsFiniteSet(Au!Pending(u)') /\ q <= p BY <2>1, FS_Subset
  <2> QED BY <2>1, <2>2, FS_CardinalityType
<1>5. k \in Int BY PendingFinite, AuthConstants
<1> HIDE DEF f, p, q, k, young
<1>6. f <= k /\ (young => f + q <= k) BY <1>3, <1>4, <1>5
<1> QED BY <1>3, <1>6, ConsoleCounts DEF Au!GuessSound, f, q, k, young

\* No window changes and nobody new is past the check.
LEMMA GuessSame ==
  ASSUME Au!AuthAssumption, Au!GuessInv, windows' = windows, now' = now,
         \A u \in Users : Au!Pending(u)' \subseteq Au!Pending(u)
  PROVE  Au!GuessInv'
<1>1. \A u \in Users : Au!GuessSound(u)' BY GuessKept
<1> QED BY <1>1 DEF Au!GuessInv, Au!FailureRow

\* A request passes the check.
LEMMA GuessStarts ==
  ASSUME Au!AuthAssumption, Au!GuessInv, windows' = windows, now' = now, NEW u \in Users, Au!Allows(u),
         \A v \in Users : v # u => Au!Pending(v)' \subseteq Au!Pending(v)
  PROVE  Au!GuessInv'
<1>1. Au!GuessSound(u)'
  <2> SUFFICES ASSUME windows[u] # None PROVE Au!GuessSound(u)' BY DEF Au!GuessSound
  <2>1. Au!GuessSound(u) BY DEF Au!GuessInv
  <2>2. windows[u] \in Au!FailureRow /\ now \in Nat BY DEF Au!GuessInv
  <2> DEFINE f == windows[u].failures
             q == Cardinality(Au!Pending(u)')
             n == Cardinality(Clients)
             k == FailureLimit + n - 1
             young == now - windows[u].start < FailureWindow
  <2>3. f \in Nat /\ windows[u].start <= now /\ f <= k
    BY <2>1, <2>2, ConsoleCounts DEF Au!GuessSound, Au!FailureRow
  <2>4. q \in Nat /\ q <= n /\ n \in Nat /\ FailureLimit \in Nat
    <3>1. Au!Pending(u)' \subseteq Clients BY DEF Au!Pending
    <3>2. IsFiniteSet(Clients) BY AuthConstants
    <3>3. IsFiniteSet(Au!Pending(u)') /\ q <= n BY <3>1, <3>2, FS_Subset
    <3> QED BY <3>2, <3>3, FS_CardinalityType, AuthConstants
  <2>5. young => f < FailureLimit
    <3> SUFFICES ASSUME young PROVE f < FailureLimit OBVIOUS
    <3>1. Au!Window(u) = windows[u] BY DEF Au!Window
    <3> QED BY <3>1 DEF Au!Allows
  <2> HIDE DEF young, f, q, n
  <2>6. young => f + q <= k BY <2>3, <2>4, <2>5
  <2> QED BY <2>3, <2>6, ConsoleCounts DEF Au!GuessSound, f, q, n, young
<1>2. \A v \in Users : v # u => Au!GuessSound(v)' BY GuessKept
<1>3. \A v \in Users : Au!GuessSound(v)' BY <1>1, <1>2
<1> QED BY <1>3 DEF Au!GuessInv, Au!FailureRow

\* A verification succeeds.
LEMMA GuessClears ==
  ASSUME Au!AuthAssumption, Au!GuessInv, now' = now, NEW u \in Users, Au!ClearFailures(u),
         \A v \in Users : Au!Pending(v)' \subseteq Au!Pending(v)
  PROVE  Au!GuessInv'
<1>1. /\ windows' \in [Users -> Au!FailureRow \cup {None}] /\ windows'[u] = None
      /\ \A v \in Users : v # u => windows'[v] = windows[v]
    BY DEF Au!GuessInv, Au!ClearFailures
<1>2. \A v \in Users : v # u => Au!GuessSound(v)' BY <1>1, GuessKept
<1>3. Au!GuessSound(u)' BY <1>1 DEF Au!GuessSound
<1>4. \A v \in Users : Au!GuessSound(v)' BY <1>2, <1>3
<1> QED BY <1>1, <1>4 DEF Au!GuessInv, Au!FailureRow

\* A verification fails.
LEMMA GuessFails ==
  ASSUME Au!AuthAssumption, Au!GuessInv, now' = now, NEW u \in Users, Au!RecordFailure(u),
         NEW c \in Au!Pending(u), Au!Pending(u)' \subseteq Au!Pending(u) \ {c},
         \A v \in Users : Au!Pending(v)' \subseteq Au!Pending(v)
  PROVE  Au!GuessInv'
<1> DEFINE w == IF Au!Window(u) = None THEN [start |-> now, failures |-> 1]
                ELSE [Au!Window(u) EXCEPT !.failures = @ + 1]
<1>0. now \in Nat /\ windows \in [Users -> Au!FailureRow \cup {None}] BY DEF Au!GuessInv
<1>1. w \in Au!FailureRow /\ w # None
  <2>1. Au!Window(u) # None => Au!Window(u) \in Au!FailureRow BY <1>0 DEF Au!Window
  <2>2. w \in Au!FailureRow BY <1>0, <2>1 DEF Au!FailureRow
  <2> QED BY <2>2, AuthConstants
<1>2. windows' = [windows EXCEPT ![u] = w] BY DEF Au!RecordFailure
<1> HIDE DEF w
<1>3. /\ windows' \in [Users -> Au!FailureRow \cup {None}] /\ windows'[u] = w
      /\ \A v \in Users : v # u => windows'[v] = windows[v]
    BY <1>0, <1>1, <1>2
<1>4. \A v \in Users : v # u => Au!GuessSound(v)' BY <1>3, GuessKept
<1>5. Au!GuessSound(u)'
  <2> DEFINE p == Cardinality(Au!Pending(u))
             q == Cardinality(Au!Pending(u)')
             n == Cardinality(Clients)
             k == FailureLimit + n - 1
             f == w.failures
  <2>1. /\ p \in Nat /\ q \in Nat /\ q <= p - 1 /\ p <= n /\ n \in Nat /\ FailureLimit \in Nat
        /\ FailureLimit > 0
    <3>1. IsFiniteSet(Au!Pending(u)) /\ p \in Nat /\ n \in Nat /\ p <= n BY PendingFinite
    <3>2. IsFiniteSet(Au!Pending(u) \ {c}) /\ Cardinality(Au!Pending(u) \ {c}) = p - 1
        BY <3>1, FS_RemoveElement
    <3>3. IsFiniteSet(Au!Pending(u)') /\ q <= Cardinality(Au!Pending(u) \ {c}) BY <3>2, FS_Subset
    <3> QED BY <3>1, <3>2, <3>3, FS_CardinalityType, AuthConstants
  <2>2. w.start <= now /\ f + q <= k
    <3>1. CASE Au!Window(u) = None
      <4>1. w.start = now /\ f = 1 BY <3>1 DEF w
      <4>2. now <= now BY <1>0
      <4> HIDE DEF f, p, q, n
      <4> QED BY <2>1, <4>1, <4>2
    <3>2. CASE Au!Window(u) # None
      <4> DEFINE g == windows[u].failures
      <4>1. /\ Au!Window(u) = windows[u] /\ windows[u] # None
            /\ now - windows[u].start < FailureWindow
          BY <3>2 DEF Au!Window
      <4>2. windows[u] \in Au!FailureRow BY <1>0, <4>1
      <4>3. Au!GuessSound(u) BY DEF Au!GuessInv
      <4>4. windows[u].start <= now /\ g + p <= k BY <4>1, <4>3, ConsoleCounts DEF Au!GuessSound
      <4>5. w.start = windows[u].start /\ f = g + 1 /\ g \in Nat
          BY <3>2, <4>1, <4>2 DEF w, Au!FailureRow
      <4> HIDE DEF f, p, q, n, g
      <4>6. f + q <= k BY <2>1, <4>4, <4>5
      <4> QED BY <4>4, <4>5, <4>6
    <3> QED BY <3>1, <3>2
  <2>3. f \in Nat BY <1>1 DEF Au!FailureRow
  <2>4. f <= k
    <3> HIDE DEF f, p, q, n
    <3> QED BY <2>1, <2>2, <2>3
  <2> QED BY <1>3, <2>2, <2>4, ConsoleCounts DEF Au!GuessSound
<1>6. \A v \in Users : Au!GuessSound(v)' BY <1>4, <1>5
<1> QED BY <1>0, <1>3, <1>6 DEF Au!GuessInv, Au!FailureRow

\* What a step of a request does to those past the check.
LEMMA PendingSteps ==
  ASSUME Au!ClientsInv, NEW c \in Clients, NEW r, Au!Become(c, r), r.step \notin {"login", "change"}
  PROVE  \A u \in Users : Au!Pending(u)' \subseteq Au!Pending(u) \ {c}
<1>1. client'[c] = r /\ \A d \in Clients : d # c => client'[d] = client[d]
    BY DEF Au!ClientsInv, Au!Become
<1> QED BY <1>1 DEF Au!Pending

\* A request that passes the check is counted for its own account only.
LEMMA PendingGrows ==
  ASSUME Au!ClientsInv, NEW c \in Clients, NEW r, Au!Become(c, r)
  PROVE  \A u \in Users : r.user # u => Au!Pending(u)' \subseteq Au!Pending(u)
<1>1. client'[c] = r /\ \A d \in Clients : d # c => client'[d] = client[d]
    BY DEF Au!ClientsInv, Au!Become
<1> QED BY <1>1 DEF Au!Pending

--------------------
\* The steps

\* A step that leaves accounts, sessions and invitations alone.
LEMMA QuietStep ==
  ASSUME Au!AuthInv, UNCHANGED <<user, session, invite, epoch, born, spent>>
  PROVE  /\ Au!RowsInv' /\ Au!SessionsInv' /\ Au!SpentInv' /\ Au!InvitesInv' /\ KnownStays /\ RotatesNothing
<1>1. Au!RowsInv' /\ KnownStays /\ DeletedStays BY RowsSame DEF Au!AuthInv
<1>2. Au!SessionsInv' /\ RotatesNothing BY <1>1, SessionsSame DEF Au!AuthInv
<1>3. Au!SpentInv' BY <1>2, SpentSame DEF Au!AuthInv
<1>4. Au!InvitesInv' BY <1>1, InvitesSame DEF Au!AuthInv
<1> QED BY <1>1, <1>2, <1>3, <1>4

\* login reads the row of a user.
LEMMA GrantIs ==
  ASSUME Au!AuthAssumption, Au!RowsInv, NEW u \in Users, NEW k \in {"login", "grant"}
  PROVE  LET g == [Au!Grant(u) EXCEPT !.step = k]
         IN  /\ g \in Au!GrantState /\ g.user = u /\ g.version = g.epoch + 1 /\ g.step = k
             /\ g.purpose = "password_change" => g.until # None
<1>1. user[u] \in Au!UserRow /\ epoch[u] \in Nat /\ Au!AccountSound(u) BY DEF Au!RowsInv
<1>2. /\ user[u].role \in {"user", "admin"} /\ user[u].version \in Nat
      /\ user[u].temporary \in Nat \cup {None} /\ user[u].version = epoch[u] + 1
    BY <1>1 DEF Au!UserRow, Au!AccountSound
<1> DEFINE p == IF user[u].temporary = None THEN "normal" ELSE "password_change"
           g == [Au!Grant(u) EXCEPT !.step = k]
<1>3. p \in Au!Purposes /\ (p = "password_change" => user[u].temporary # None) BY DEF Au!Purposes
<1>4. Au!Grant(u) = [step |-> "grant", user |-> u, role |-> user[u].role, version |-> user[u].version,
                  purpose |-> p, until |-> user[u].temporary, epoch |-> epoch[u]]
    BY DEF Au!Grant
<1> HIDE DEF p
<1>7. g = [step |-> k, user |-> u, role |-> user[u].role, version |-> user[u].version,
           purpose |-> p, until |-> user[u].temporary, epoch |-> epoch[u]]
    BY <1>4
<1> HIDE DEF g
<1>8. g \in Au!GrantState
  <2> DEFINE rl == user[u].role
             vs == user[u].version
             tp == user[u].temporary
             ep == epoch[u]
  <2>1. /\ rl \in {"user", "admin"} /\ vs \in Nat /\ tp \in Nat \cup {None} /\ ep \in Nat
        /\ g = [step |-> k, user |-> u, role |-> rl, version |-> vs, purpose |-> p, until |-> tp,
                epoch |-> ep]
      BY <1>1, <1>2, <1>7
  <2> HIDE DEF rl, vs, tp, ep
  <2> QED BY <1>3, <2>1 DEF Au!GrantState
<1>5. /\ g.user = u /\ g.step = k /\ g.version = user[u].version
      /\ g.epoch = epoch[u] /\ g.purpose = p /\ g.until = user[u].temporary
    BY <1>7
<1>6. g.version = g.epoch + 1 /\ (g.purpose = "password_change" => g.until # None)
    BY <1>2, <1>3, <1>5
<1> QED BY <1>5, <1>6, <1>8 DEF g

\* login, the limiter and the read.
LEMMA LoginKeeps ==
  ASSUME Au!AuthAssumption, Au!AuthInv, NEW c \in Clients, NEW u \in Users, Au!CanLogin(u), Au!Login(c, u)
  PROVE  Au!AuthInv' /\ RotatesNothing
<1> DEFINE g == [Au!Grant(u) EXCEPT !.step = "login"]
<1>1. /\ g \in Au!GrantState /\ g.user = u /\ g.version = g.epoch + 1
      /\ g.purpose = "password_change" => g.until # None
    BY GrantIs DEF Au!AuthInv
<1>2. /\ Au!Become(c, g) /\ UNCHANGED <<user, session, invite, epoch, born, spent>> /\ Au!Allows(u)
      /\ UNCHANGED <<now, code, windows, tokens>>
    BY DEF Au!Login, Au!rows, Au!history
<1> HIDE DEF g
<1>3. /\ Au!RowsInv' /\ Au!SessionsInv' /\ Au!SpentInv' /\ Au!InvitesInv' /\ KnownStays /\ RotatesNothing
    BY <1>2, QuietStep
<1>4. user'[u].password BY <1>2 DEF Au!CanLogin
<1>5. Au!ClientsInv' BY <1>1, <1>2, <1>3, <1>4, ClientSteps DEF Au!AuthInv
<1>6. Au!TokensInv' /\ Au!CodeInv' BY <1>2, TokensSame, CodeSame DEF Au!AuthInv
<1>7. \A v \in Users : v # u => Au!Pending(v)' \subseteq Au!Pending(v)
    BY <1>1, <1>2, PendingGrows DEF Au!AuthInv
<1>8. Au!GuessInv' BY <1>2, <1>7, GuessStarts DEF Au!AuthInv
<1> QED BY <1>3, <1>5, <1>6, <1>8 DEF Au!AuthInv

\* login, the end of the verification.
LEMMA LoginVerifiedKeeps ==
  ASSUME Au!AuthAssumption, Au!AuthInv, NEW c \in Clients, NEW right \in BOOLEAN, Au!LoginVerified(c, right)
  PROVE  Au!AuthInv' /\ RotatesNothing
<1> DEFINE g == [client[c] EXCEPT !.step = "grant"]
<1>1. /\ client[c].step = "login" /\ UNCHANGED <<user, session, invite, epoch, born, spent>>
      /\ UNCHANGED <<now, code, tokens>>
      /\ IF right THEN Au!ClearFailures(client[c].user) /\ Au!Become(c, g)
                  ELSE Au!RecordFailure(client[c].user) /\ Au!Become(c, Au!Idle)
    BY DEF Au!LoginVerified, Au!rows, Au!history
<1>2. /\ client[c] \in Au!GrantState /\ client[c].version = client[c].epoch + 1
      /\ Au!Known(client[c].user) /\ client[c].user \in Users
      /\ client[c].purpose = "password_change" => client[c].until # None
    BY <1>1, ClientIs DEF Au!AuthInv, Au!GrantState
<1>9. PICK u \in Users : u = client[c].user BY <1>2
<1>3. /\ g \in Au!GrantState /\ g.user = u /\ g.version = g.epoch + 1 /\ g.step = "grant"
      /\ g.purpose = "password_change" => g.until # None
    BY <1>2, <1>9 DEF Au!GrantState
<1>4. c \in Au!Pending(u) BY <1>1, <1>9 DEF Au!Pending
<1> HIDE DEF g
<1>5. /\ Au!RowsInv' /\ Au!SessionsInv' /\ Au!SpentInv' /\ Au!InvitesInv' /\ KnownStays /\ RotatesNothing
    BY <1>1, QuietStep
<1>6. Au!TokensInv' /\ Au!CodeInv' BY <1>1, TokensSame, CodeSame DEF Au!AuthInv
<1>7. CASE right
  <2>1. Au!ClearFailures(u) /\ Au!Become(c, g) BY <1>1, <1>7, <1>9
  <2>2. user'[g.user].password \/ user'[g.user].deleted BY <1>1, <1>2, <1>3, <1>9 DEF Au!Known
  <2>3. Au!ClientsInv' BY <1>3, <1>5, <2>1, <2>2, ClientSteps DEF Au!AuthInv
  <2>4. g.step \notin {"login", "change"} BY <1>3
  <2>5. \A v \in Users : Au!Pending(v)' \subseteq Au!Pending(v) \ {c}
    BY <2>1, <2>4, PendingSteps DEF Au!AuthInv
  <2>6. \A v \in Users : Au!Pending(v)' \subseteq Au!Pending(v) BY <2>5
  <2>7. Au!GuessInv' BY <1>1, <1>3, <2>1, <2>6, GuessClears DEF Au!AuthInv
  <2> QED BY <1>5, <1>6, <2>3, <2>7 DEF Au!AuthInv
<1>8. CASE ~right
  <2>1. Au!RecordFailure(u) /\ Au!Become(c, Au!Idle) BY <1>1, <1>8, <1>9
  <2>2. Au!ClientsInv' BY <1>5, <2>1, ClientSteps DEF Au!AuthInv
  <2>3. Au!Idle.step \notin {"login", "change"} BY DEF Au!Idle
  <2>4. \A v \in Users : Au!Pending(v)' \subseteq Au!Pending(v) \ {c}
    BY <2>1, <2>3, PendingSteps DEF Au!AuthInv
  <2>5. \A v \in Users : Au!Pending(v)' \subseteq Au!Pending(v) BY <2>4
  <2>6. Au!Pending(u)' \subseteq Au!Pending(u) \ {c} BY <1>3, <2>4
  <2>7. Au!GuessInv' BY <1>1, <1>3, <1>4, <2>1, <2>5, <2>6, GuessFails DEF Au!AuthInv
  <2> QED BY <1>5, <1>6, <2>2, <2>7 DEF Au!AuthInv
<1> QED BY <1>7, <1>8

\* The beginning of a request that reads a row and verifies a password.
LEMMA VerifyKeeps ==
  ASSUME Au!AuthAssumption, Au!AuthInv, NEW c \in Clients, NEW t \in tokens,
         NEW k \in {"change", "issue", "complete", "delete"}, k = "change" => Au!Allows(t.user),
         Au!Become(c, Au!Verified(k, t.user, t.session)),
         UNCHANGED <<user, session, invite, epoch, born, spent>>,
         UNCHANGED <<now, code, windows, tokens>>
  PROVE  Au!AuthInv' /\ RotatesNothing
<1> DEFINE r == Au!Verified(k, t.user, t.session)
<1>1. t.user \in Users /\ t.session \in Sessions BY DEF Au!AuthInv, Au!TokensInv, Au!Tokens
<1>2. user[t.user].version \in Nat BY <1>1 DEF Au!AuthInv, Au!RowsInv, Au!UserRow
<1>3. r \in Au!VerifiedState /\ r.step = k /\ r.user = t.user
  BY <1>1, <1>2 DEF Au!Verified, Au!VerifiedState
<1>4. Au!Become(c, r) OBVIOUS
<1> HIDE DEF r
<1>5. /\ Au!RowsInv' /\ Au!SessionsInv' /\ Au!SpentInv' /\ Au!InvitesInv' /\ KnownStays /\ RotatesNothing
    BY QuietStep
<1>6. Au!TokensInv' /\ Au!CodeInv' BY TokensSame, CodeSame DEF Au!AuthInv
<1>7. Au!ClientsInv' BY <1>3, <1>4, <1>5, ClientSteps DEF Au!AuthInv
<1>8. Au!GuessInv'
  <2>1. CASE k = "change"
    <3>1. \A v \in Users : t.user # v => Au!Pending(v)' \subseteq Au!Pending(v)
        BY <1>3, <1>4, PendingGrows DEF Au!AuthInv
    <3> QED BY <1>1, <2>1, <3>1, GuessStarts DEF Au!AuthInv
  <2>2. CASE k # "change"
    <3>1. r.step \notin {"login", "change"} BY <1>3, <2>2
    <3>2. \A v \in Users : Au!Pending(v)' \subseteq Au!Pending(v)
      BY <1>4, <3>1, PendingSteps DEF Au!AuthInv
    <3> QED BY <3>2, GuessSame DEF Au!AuthInv
  <2> QED BY <2>1, <2>2
<1> QED BY <1>5, <1>6, <1>7, <1>8 DEF Au!AuthInv

\* refresh_expiry_for: a session for a temporary password has an expiry.
LEMMA ExpiryIs ==
  ASSUME Au!AuthAssumption, now \in Nat, NEW p \in Au!Purposes, NEW t \in Nat \cup {None},
         p = "password_change" => t # None
  PROVE  Au!RefreshExpiry(p, t) \in Nat
<1>1. now + RefreshTtl \in Nat BY AuthConstants
<1>2. CASE p = "normal" BY <1>1, <1>2 DEF Au!RefreshExpiry
<1>3. CASE p = "password_change"
  <2>1. t \in Nat BY <1>3
  <2> QED BY <1>1, <2>1 DEF Au!RefreshExpiry
<1> QED BY <1>2, <1>3 DEF Au!Purposes

\* An access token is handed out with the version of its epoch.
LEMMA TokensGrow ==
  ASSUME Au!TokensInv, NEW s \in Sessions, NEW g, g.user \in Users, g.role \in {"user", "admin"},
         g.version \in Nat, g.purpose \in Au!Purposes, g.epoch \in Nat, g.version = g.epoch + 1,
         tokens' = tokens \cup {Au!AccessToken(s, g)}
  PROVE  Au!TokensInv'
<1> DEFINE t == Au!AccessToken(s, g)
<1>1. t \in Au!Tokens /\ t.version = t.epoch + 1 BY DEF Au!AccessToken, Au!Tokens
<1>2. tokens' = tokens \cup {t} OBVIOUS
<1> HIDE DEF t
<1>3. tokens' \subseteq Au!Tokens /\ \A x \in tokens' : x.version = x.epoch + 1
    BY <1>1, <1>2 DEF Au!TokensInv
<1> QED BY <1>3 DEF Au!TokensInv, Au!Tokens

\* issue_session
LEMMA IssueSessionKeeps ==
  ASSUME Au!AuthAssumption, Au!AuthInv, NEW c \in Clients, NEW s \in Sessions, Au!IssueSession(c, s)
  PROVE  Au!AuthInv' /\ RotatesNothing
<1> DEFINE g == client[c]
           x == Au!RefreshExpiry(g.purpose, g.until)
           r == [user |-> g.user, token |-> 1, revoked |-> FALSE, purpose |-> g.purpose, until |-> x]
<1>1. /\ g.step = "grant" /\ session[s] = None /\ session' = [session EXCEPT ![s] = r]
      /\ tokens' = tokens \cup {Au!AccessToken(s, g)}
      /\ born' = [born EXCEPT ![s] = epoch[g.user]] /\ Au!Become(c, Au!Idle)
      /\ UNCHANGED <<now, user, invite, code, windows, epoch, spent>>
    BY DEF Au!IssueSession
<1>2. /\ g \in Au!GrantState /\ g.version = g.epoch + 1 /\ Au!Known(g.user)
      /\ g.purpose = "password_change" => g.until # None
    BY <1>1, ClientIs DEF Au!AuthInv
<1>3. /\ g.user \in Users /\ g.role \in {"user", "admin"} /\ g.version \in Nat /\ g.purpose \in Au!Purposes
      /\ g.epoch \in Nat /\ g.until \in Nat \cup {None}
    BY <1>2 DEF Au!GrantState
<1>4. x \in Nat BY <1>2, <1>3, ExpiryIs DEF Au!AuthInv, Au!GuessInv
<1> HIDE DEF g, x
<1>5. r \in Au!SessionRow /\ r.user = g.user BY <1>3, <1>4 DEF Au!SessionRow
<1> HIDE DEF r
<1>6. Au!RowsInv' /\ KnownStays /\ DeletedStays BY <1>1, RowsSame DEF Au!AuthInv
<1>7. /\ born' \in [Sessions -> Nat] /\ born'[s] = epoch[g.user]
      /\ \A q \in Sessions : q # s => born'[q] = born[q]
    BY <1>1, <1>3 DEF Au!AuthInv, Au!RowsInv, Au!SessionsInv
<1>8. Au!SessionsInv' /\ session'[s] = r /\ \A q \in Sessions : q # s => session'[q] = session[q]
    BY <1>1, <1>2, <1>5, <1>7, OneSession DEF Au!AuthInv
<1>9. RotatesNothing BY <1>1, <1>8 DEF RotatesNothing
<1>10. Au!SpentInv' BY <1>1, <1>9, SpentSame DEF Au!AuthInv
<1>11. Au!TokensInv' BY <1>1, <1>2, <1>3, TokensGrow DEF Au!AuthInv
<1>12. Au!ClientsInv' BY <1>1, <1>6, ClientSteps DEF Au!AuthInv
<1>13. Au!InvitesInv' /\ Au!CodeInv' BY <1>1, <1>6, InvitesSame, CodeSame DEF Au!AuthInv
<1>14. Au!Idle.step \notin {"login", "change"} BY DEF Au!Idle
<1>15. \A v \in Users : Au!Pending(v)' \subseteq Au!Pending(v)
  BY <1>1, <1>14, PendingSteps DEF Au!AuthInv
<1>16. Au!GuessInv' BY <1>1, <1>15, GuessSame DEF Au!AuthInv
<1> QED BY <1>6, <1>8, <1>9, <1>10, <1>11, <1>12, <1>13, <1>16 DEF Au!AuthInv

\* The session after an exchange.
LEMMA RotatedIs ==
  ASSUME Au!AuthAssumption, Au!AuthInv, NEW s \in Sessions, Au!Live(s)
  PROVE  /\ session[s] \in Au!SessionRow /\ Au!Rotated(s) \in Au!SessionRow
         /\ Au!Rotated(s).user = session[s].user /\ Au!Rotated(s).revoked = session[s].revoked
         /\ Au!Rotated(s).token = session[s].token + 1
<1> DEFINE q == session[s]
           x == Au!RefreshExpiry(q.purpose, user[q.user].temporary)
           b == [q EXCEPT !.token = q.token + 1]
<1>1. q \in Au!SessionRow BY DEF Au!AuthInv, Au!SessionsInv, Au!Live
<1>2. q.user \in Users /\ q.purpose \in Au!Purposes BY <1>1 DEF Au!SessionRow
<1>3. user[q.user].temporary \in Nat \cup {None} BY <1>2 DEF Au!AuthInv, Au!RowsInv, Au!UserRow
<1>4. q.purpose = "password_change" => user[q.user].temporary # None
    BY DEF Au!Live, Au!PurposeHolds, Au!TemporaryValid
<1>5. x \in Nat BY <1>2, <1>3, <1>4, ExpiryIs DEF Au!AuthInv, Au!GuessInv
<1>6. Au!Rotated(s) = [b EXCEPT !.until = x] BY DEF Au!Rotated
<1> HIDE DEF q, x
<1>7. b \in Au!SessionRow /\ b.user = q.user /\ b.revoked = q.revoked /\ b.token = q.token + 1
    BY <1>1 DEF Au!SessionRow
<1> HIDE DEF b
<1>8. /\ Au!Rotated(s) \in Au!SessionRow /\ Au!Rotated(s).user = q.user /\ Au!Rotated(s).revoked = q.revoked
      /\ Au!Rotated(s).token = q.token + 1
    BY <1>5, <1>6, <1>7 DEF Au!SessionRow
<1> QED BY <1>1, <1>8 DEF q

\* What an exchange of a refresh token does to the session.
Exchanged(s) ==
  /\ \A q \in Sessions : q # s => session'[q] = session[q]
  /\ <<s, session[s].token>> \in spent'

\* refresh: an exchange, an invalid token or a replay.
LEMMA RefreshKeeps ==
  ASSUME Au!AuthAssumption, Au!AuthInv, NEW s \in Sessions, NEW n \in Nat, Au!Refresh(s, n)
  PROVE  Au!AuthInv' /\ (RotatesNothing \/ Exchanged(s))
<1>1. /\ session[s] # None /\ Au!Rotate(s, n)
      /\ UNCHANGED <<now, user, invite, code, windows, client, epoch, born>>
    BY DEF Au!Refresh
<1>2. Au!RowsInv' /\ KnownStays /\ DeletedStays BY <1>1, RowsSame DEF Au!AuthInv
<1>3. Au!ClientsInv' /\ Au!InvitesInv' /\ Au!CodeInv'
    BY <1>1, <1>2, ClientsSame, InvitesSame, CodeSame DEF Au!AuthInv
<1>4. Au!GuessInv' BY <1>1, GuessSame DEF Au!AuthInv, Au!Pending
<1>5. Au!SessionSound(s) /\ session[s] \in Au!SessionRow BY <1>1 DEF Au!AuthInv, Au!SessionsInv
<1>6. CASE ~Au!Live(s)
  <2>1. UNCHANGED <<session, tokens, spent>> BY <1>1, <1>6 DEF Au!Rotate
  <2>2. Au!SessionsInv' /\ RotatesNothing BY <1>1, <1>2, <2>1, SessionsSame DEF Au!AuthInv
  <2>3. Au!SpentInv' /\ Au!TokensInv' BY <2>1, <2>2, SpentSame, TokensSame DEF Au!AuthInv
  <2> QED BY <1>2, <1>3, <1>4, <2>2, <2>3 DEF Au!AuthInv
<1>7. CASE Au!Live(s) /\ ~Au!Matches(s, n)
  <2> DEFINE r == Au!Revoked(session[s])
  <2>1. session' = [session EXCEPT ![s] = r] /\ UNCHANGED <<tokens, spent>>
    BY <1>1, <1>7 DEF Au!Rotate
  <2>2. r \in Au!SessionRow /\ r.user = session[s].user /\ r.token = session[s].token /\ r.revoked
      BY <1>5, RevokedIs
  <2>3. r # None BY <2>2, AuthConstants
  <2> HIDE DEF r
  <2>4. Au!Known(r.user) BY <1>1, <1>5, <2>2 DEF Au!SessionSound
  <2>5. Au!SessionsInv' /\ session'[s] = r /\ \A q \in Sessions : q # s => session'[q] = session[q]
      BY <1>1, <2>1, <2>2, <2>4, OneSession DEF Au!AuthInv, Au!SessionsInv
  <2>6. RotatesNothing BY <2>2, <2>3, <2>5 DEF RotatesNothing
  <2>7. Au!SpentInv' /\ Au!TokensInv' BY <2>1, <2>6, SpentSame, TokensSame DEF Au!AuthInv
  <2> QED BY <1>2, <1>3, <1>4, <2>5, <2>6, <2>7 DEF Au!AuthInv
<1>8. CASE Au!Live(s) /\ Au!Matches(s, n)
  <2> DEFINE u == session[s].user
             g == [Au!Grant(u) EXCEPT !.purpose = session[s].purpose]
             r == Au!Rotated(s)
  <2>1. /\ session' = [session EXCEPT ![s] = r] /\ tokens' = tokens \cup {Au!AccessToken(s, g)}
        /\ spent' = spent \cup {<<s, n>>}
      BY <1>1, <1>8 DEF Au!Rotate
  <2>2. /\ r \in Au!SessionRow /\ r.user = u /\ r.revoked = session[s].revoked
        /\ r.token = session[s].token + 1
      BY <1>8, RotatedIs
  <2>3. r # None BY <2>2, AuthConstants
  <2> HIDE DEF r
  <2>4. Au!Known(r.user) /\ (~r.revoked => born[s] = epoch[r.user])
      BY <1>1, <1>5, <2>2 DEF Au!SessionSound
  <2>5. Au!SessionsInv' /\ session'[s] = r /\ \A q \in Sessions : q # s => session'[q] = session[q]
      BY <1>1, <2>1, <2>2, <2>4, OneSession DEF Au!AuthInv, Au!SessionsInv
  <2>6. n = session[s].token /\ session[s].token \in Nat
    BY <1>5, <1>8 DEF Au!Matches, Au!SessionRow
  <2>7. Au!SpentInv'
    <3> SUFFICES ASSUME NEW x \in spent'
                 PROVE  /\ x \in Sessions \X Nat /\ session'[x[1]] # None
                        /\ x[2] < session'[x[1]].token
        BY DEF Au!SpentInv
    <3>1. CASE x = <<s, n>> BY <2>2, <2>3, <2>5, <2>6, <3>1
    <3>2. CASE x \in spent
      <4>1. x \in Sessions \X Nat /\ session[x[1]] # None /\ x[2] < session[x[1]].token
          BY <3>2 DEF Au!AuthInv, Au!SpentInv
      <4>2. x[1] \in Sessions /\ x[2] \in Nat BY <4>1
      <4>3. CASE x[1] # s BY <2>5, <4>1, <4>2, <4>3
      <4>4. CASE x[1] = s
        <5>1. x[2] < session[s].token + 1 BY <2>6, <4>1, <4>2, <4>4
        <5> QED BY <2>2, <2>3, <2>5, <4>1, <4>4, <5>1
      <4> QED BY <4>3, <4>4
    <3> QED BY <2>1, <3>1, <3>2
  <2>8. Au!TokensInv'
    <3>1. u \in Users /\ session[s].purpose \in Au!Purposes BY <1>5 DEF Au!SessionRow
    <3>2. user[u] \in Au!UserRow /\ epoch[u] \in Nat /\ Au!AccountSound(u)
      BY <3>1 DEF Au!AuthInv, Au!RowsInv
    <3>3. /\ g.user = u /\ g.role = user[u].role /\ g.version = user[u].version
          /\ g.purpose = session[s].purpose /\ g.epoch = epoch[u]
        BY DEF Au!Grant
    <3>4. user[u].role \in {"user", "admin"} /\ user[u].version \in Nat BY <3>2 DEF Au!UserRow
    <3>5. g.version = g.epoch + 1 BY <3>2, <3>3 DEF Au!AccountSound
    <3>6. tokens' = tokens \cup {Au!AccessToken(s, g)} BY <2>1
    <3> HIDE DEF g, u
    <3> QED BY <3>1, <3>2, <3>3, <3>4, <3>5, <3>6, TokensGrow DEF Au!AuthInv
  <2>9. Exchanged(s) BY <2>1, <2>5, <2>6 DEF Exchanged
  <2> QED BY <1>2, <1>3, <1>4, <2>5, <2>7, <2>8, <2>9 DEF Au!AuthInv
<1> QED BY <1>6, <1>7, <1>8

\* logout, revoke_session_for_user and revoke_other_sessions.
LEMMA RevokeSessionsKeeps ==
  ASSUME Au!AuthAssumption, Au!AuthInv, NEW t \in tokens, NEW S, Au!Revoke(t, S)
  PROVE  Au!AuthInv' /\ RotatesNothing
<1>1. /\ session' = [s \in Sessions |-> IF s \in S THEN Au!Revoked(session[s]) ELSE session[s]]
      /\ Au!Authenticates(t) /\ UNCHANGED <<now, user, invite, code, windows, client, tokens>>
      /\ UNCHANGED <<epoch, born, spent>>
      /\ S = {t.session} \/ S = {s \in Sessions \ {t.session} :
                 session[s] # None /\ session[s].user = t.user /\ session[s].until > now}
    BY DEF Au!Revoke, Au!history
<1>2. \A s \in S : session[s] # None BY <1>1 DEF Au!Authenticates, Au!Live
<1>3. Au!RowsInv' /\ KnownStays /\ DeletedStays BY <1>1, RowsSame DEF Au!AuthInv
<1>4. Au!SessionsInv' /\ RotatesNothing BY <1>1, <1>2, SomeRevoked DEF Au!AuthInv
<1>5. Au!SpentInv' /\ Au!TokensInv' BY <1>1, <1>4, SpentSame, TokensSame DEF Au!AuthInv
<1>6. Au!ClientsInv' /\ Au!InvitesInv' /\ Au!CodeInv'
    BY <1>1, <1>3, ClientsSame, InvitesSame, CodeSame DEF Au!AuthInv
<1>7. Au!GuessInv' BY <1>1, GuessSame DEF Au!AuthInv, Au!Pending
<1> QED BY <1>3, <1>4, <1>5, <1>6, <1>7 DEF Au!AuthInv

\* The rows that may replace the row of a user, and what their writing does.
Fits(u, r) ==
  /\ r \in Au!UserRow /\ r.version = user[u].version /\ r.status # "absent"
  /\ r.status = "invited" => ~r.password /\ ~r.deleted
  /\ r.deleted => r.status = "disabled" /\ ~r.password /\ ~r.email
  /\ Au!Known(u) => r.password \/ r.deleted

\* A credential is replaced: rows, sessions and spent tokens stay sound.
LEMMA ReplaceStep ==
  ASSUME Au!AuthAssumption, Au!AuthInv, NEW u \in Users, NEW r, Fits(u, r), Au!Replace(u, r),
         born' = born, spent' = spent
  PROVE  /\ Au!RowsInv' /\ Au!SessionsInv' /\ Au!SpentInv' /\ KnownStays /\ RotatesNothing
         /\ (r.deleted => user[u].deleted) => DeletedStays
         /\ user'[u] = Au!Bumped(r) /\ \A v \in Users : v # u => user'[v] = user[v]
<1>1. /\ r \in Au!UserRow /\ r.version = user[u].version /\ r.status # "absent"
      /\ r.status = "invited" => ~r.password /\ ~r.deleted
      /\ r.deleted => r.status = "disabled" /\ ~r.password /\ ~r.email
      /\ Au!Known(u) => r.password \/ r.deleted
    BY DEF Fits
<1>2. r.status \notin {"absent", "invited"} \/ (~r.password /\ ~r.deleted) BY <1>1
<1>3. user' = [user EXCEPT ![u] = Au!Bumped(r)] /\ Au!RevokeAll(u) /\ Au!Changed(u)
  BY DEF Au!Replace
<1>4. Au!RowsInv /\ Au!SessionsInv BY DEF Au!AuthInv
<1>5. /\ Au!RowsInv' /\ Au!SessionsInv' /\ KnownStays /\ RotatesNothing
      /\ (r.deleted => user[u].deleted) => DeletedStays
      /\ user'[u] = Au!Bumped(r) /\ \A v \in Users : v # u => user'[v] = user[v]
    BY <1>1, <1>2, <1>3, <1>4, ReplaceKeeps
<1>6. Au!SpentInv' BY <1>5, SpentSame DEF Au!AuthInv
<1> QED BY <1>5, <1>6

\* The password that replaces another.
LEMMA PasswordFits ==
  ASSUME Au!AuthInv, NEW u \in Users, user[u].status = "active"
  PROVE  /\ Fits(u, Au!WithPassword(user[u])) /\ ~user[u].deleted
         /\ ~Au!WithPassword(user[u]).deleted
<1>1. user[u] \in Au!UserRow /\ Au!AccountSound(u) BY DEF Au!AuthInv, Au!RowsInv
<1>2. ~user[u].deleted BY <1>1 DEF Au!AccountSound
<1> DEFINE r == Au!WithPassword(user[u])
<1>3. /\ r \in Au!UserRow /\ r.password /\ r.status = "active" /\ r.version = user[u].version
      /\ r.deleted = user[u].deleted
    BY <1>1, WithPasswordIs
<1> HIDE DEF r
<1>4. Fits(u, r) /\ ~r.deleted BY <1>2, <1>3 DEF Fits
<1> QED BY <1>2, <1>4 DEF r

\* change_password, the transaction.
LEMMA ChangePasswordKeeps ==
  ASSUME Au!AuthAssumption, Au!AuthInv, NEW c \in Clients, Au!ChangePassword(c)
  PROVE  Au!AuthInv' /\ RotatesNothing
<1>1. client[c].step = "change" /\ client[c].user \in Users
    BY ClientIs DEF Au!ChangePassword, Au!AuthInv, Au!VerifiedState
<1>2. PICK u \in Users : u = client[c].user BY <1>1
<1>3. /\ Au!Become(c, Au!Idle) /\ UNCHANGED <<now, invite, code, tokens, born, spent>>
      /\ IF Au!ChangeAllowed(u) THEN Au!Replace(u, Au!WithPassword(user[u])) /\ Au!ClearFailures(u)
         ELSE Au!RecordFailure(u) /\ UNCHANGED <<user, session, epoch>>
    BY <1>2 DEF Au!ChangePassword
<1>4. c \in Au!Pending(u) BY <1>1, <1>2 DEF Au!Pending
<1>5. Au!Idle.step \notin {"login", "change"} BY DEF Au!Idle
<1>6. \A v \in Users : Au!Pending(v)' \subseteq Au!Pending(v) \ {c}
  BY <1>3, <1>5, PendingSteps DEF Au!AuthInv
<1>7. \A v \in Users : Au!Pending(v)' \subseteq Au!Pending(v) BY <1>6
<1>8. Au!TokensInv' /\ Au!CodeInv' BY <1>3, TokensSame, CodeSame DEF Au!AuthInv
<1>9. CASE Au!ChangeAllowed(u)
  <2> DEFINE r == Au!WithPassword(user[u])
  <2>1. Fits(u, r) /\ ~r.deleted BY <1>9, PasswordFits DEF Au!ChangeAllowed
  <2>2. Au!Replace(u, r) /\ Au!ClearFailures(u) BY <1>3, <1>9
  <2> HIDE DEF r
  <2>3. Au!RowsInv' /\ Au!SessionsInv' /\ Au!SpentInv' /\ KnownStays /\ RotatesNothing /\ DeletedStays
      BY <1>3, <2>1, <2>2, ReplaceStep
  <2>4. Au!ClientsInv' /\ Au!InvitesInv' BY <1>3, <2>3, ClientSteps, InvitesSame DEF Au!AuthInv
  <2>5. Au!GuessInv' BY <1>3, <1>7, <2>2, GuessClears DEF Au!AuthInv
  <2> QED BY <1>8, <2>3, <2>4, <2>5 DEF Au!AuthInv
<1>10. CASE ~Au!ChangeAllowed(u)
  <2>1. Au!RecordFailure(u) /\ UNCHANGED <<user, session, epoch>> BY <1>3, <1>10
  <2>2. Au!RowsInv' /\ Au!SessionsInv' /\ Au!SpentInv' /\ Au!InvitesInv' /\ KnownStays /\ RotatesNothing
      BY <1>3, <2>1, QuietStep
  <2>3. Au!ClientsInv' BY <1>3, <2>2, ClientSteps DEF Au!AuthInv
  <2>4. Au!Pending(u)' \subseteq Au!Pending(u) \ {c} BY <1>6
  <2>5. Au!GuessInv' BY <1>3, <1>4, <1>7, <2>1, <2>4, GuessFails DEF Au!AuthInv
  <2> QED BY <1>8, <2>2, <2>3, <2>5 DEF Au!AuthInv
<1> QED BY <1>9, <1>10

\* A request ends and no window changes.
LEMMA RequestEnds ==
  ASSUME Au!AuthAssumption, Au!AuthInv, NEW c \in Clients, NEW r, Au!Become(c, r),
         r.step \notin {"login", "change"}, windows' = windows, now' = now
  PROVE  Au!GuessInv'
<1>1. \A v \in Users : Au!Pending(v)' \subseteq Au!Pending(v) BY PendingSteps DEF Au!AuthInv
<1> QED BY <1>1, GuessSame DEF Au!AuthInv

\* issue_temporary_password
LEMMA IssueTemporaryKeeps ==
  ASSUME Au!AuthAssumption, Au!AuthInv, NEW c \in Clients, NEW u \in Users, Au!IssueTemporaryPassword(c, u)
  PROVE  Au!AuthInv' /\ RotatesNothing
<1> DEFINE r == [user[u] EXCEPT !.temporary = now + TempTtl]
<1>1. /\ Au!Become(c, Au!Idle) /\ UNCHANGED <<now, invite, code, windows, tokens, born, spent>>
      /\ IF Au!IssueAllowed(c, u) THEN Au!Replace(u, r) ELSE UNCHANGED <<user, session, epoch>>
    BY DEF Au!IssueTemporaryPassword
<1>2. Au!Idle.step \notin {"login", "change"} BY DEF Au!Idle
<1>3. Au!GuessInv' BY <1>1, <1>2, RequestEnds
<1>4. Au!TokensInv' /\ Au!CodeInv' BY <1>1, TokensSame, CodeSame DEF Au!AuthInv
<1>5. CASE Au!IssueAllowed(c, u)
  <2>1. user[u] \in Au!UserRow /\ Au!AccountSound(u) /\ now \in Nat
    BY DEF Au!AuthInv, Au!RowsInv, Au!GuessInv
  <2>2. user[u].status = "active" /\ ~user[u].deleted /\ user[u].password
      BY <1>5 DEF Au!IssueAllowed
  <2>3. now + TempTtl \in Nat BY <2>1, AuthConstants
  <2>4. /\ r \in Au!UserRow /\ r.version = user[u].version /\ r.status = "active" /\ r.password
        /\ ~r.deleted
      BY <2>1, <2>2, <2>3 DEF Au!UserRow
  <2>5. Au!Replace(u, r) BY <1>1, <1>5
  <2> HIDE DEF r
  <2>6. Fits(u, r) BY <2>4 DEF Fits
  <2>7. Au!RowsInv' /\ Au!SessionsInv' /\ Au!SpentInv' /\ KnownStays /\ RotatesNothing /\ DeletedStays
      BY <1>1, <2>4, <2>5, <2>6, ReplaceStep
  <2>8. Au!ClientsInv' /\ Au!InvitesInv' BY <1>1, <2>7, ClientSteps, InvitesSame DEF Au!AuthInv
  <2> QED BY <1>3, <1>4, <2>7, <2>8 DEF Au!AuthInv
<1>6. CASE ~Au!IssueAllowed(c, u)
  <2>1. UNCHANGED <<user, session, epoch>> BY <1>1, <1>6
  <2>2. Au!RowsInv' /\ Au!SessionsInv' /\ Au!SpentInv' /\ Au!InvitesInv' /\ KnownStays /\ RotatesNothing
      BY <1>1, <2>1, QuietStep
  <2>3. Au!ClientsInv' BY <1>1, <2>2, ClientSteps DEF Au!AuthInv
  <2> QED BY <1>3, <1>4, <2>2, <2>3 DEF Au!AuthInv
<1> QED BY <1>5, <1>6

\* reset_active_admin_password
LEMMA ResetAdminKeeps ==
  ASSUME Au!AuthAssumption, Au!AuthInv, NEW u \in Users, Au!ResetAdmin(u)
  PROVE  Au!AuthInv' /\ RotatesNothing
<1> DEFINE r == Au!WithPassword(user[u])
<1>1. /\ Au!IsAdmin(u) /\ Au!Replace(u, r)
      /\ UNCHANGED <<now, invite, code, windows, client, tokens, born, spent>>
    BY DEF Au!ResetAdmin
<1>2. Fits(u, r) /\ ~r.deleted BY <1>1, PasswordFits DEF Au!IsAdmin
<1> HIDE DEF r
<1>3. Au!RowsInv' /\ Au!SessionsInv' /\ Au!SpentInv' /\ KnownStays /\ RotatesNothing /\ DeletedStays
    BY <1>1, <1>2, ReplaceStep
<1>4. Au!ClientsInv' /\ Au!InvitesInv' BY <1>1, <1>3, ClientsSame, InvitesSame DEF Au!AuthInv
<1>5. Au!TokensInv' /\ Au!CodeInv' BY <1>1, TokensSame, CodeSame DEF Au!AuthInv
<1>6. Au!GuessInv' BY <1>1, GuessSame DEF Au!AuthInv, Au!Pending
<1> QED BY <1>3, <1>4, <1>5, <1>6 DEF Au!AuthInv

\* A session that an account is granted with a new password.
LEMMA FirstGrantIs ==
  ASSUME NEW u \in Users, NEW r \in {"user", "admin"}, NEW v \in Nat, NEW e \in Nat, v = e + 1
  PROVE  /\ Au!FirstGrant(u, r, v, e) \in Au!GrantState /\ Au!FirstGrant(u, r, v, e).user = u
         /\ Au!FirstGrant(u, r, v, e).version = Au!FirstGrant(u, r, v, e).epoch + 1
         /\ Au!FirstGrant(u, r, v, e).purpose = "normal" /\ Au!FirstGrant(u, r, v, e).step = "grant"
BY DEF Au!FirstGrant, Au!GrantState, Au!Purposes

\* complete_temporary_password, the transaction.
LEMMA CompleteKeeps ==
  ASSUME Au!AuthAssumption, Au!AuthInv, NEW c \in Clients, Au!CompleteTemporaryPassword(c)
  PROVE  Au!AuthInv' /\ RotatesNothing
<1>1. client[c].step = "complete" /\ client[c].user \in Users
    BY ClientIs DEF Au!CompleteTemporaryPassword, Au!AuthInv, Au!VerifiedState
<1>2. PICK u \in Users : u = client[c].user BY <1>1
<1> DEFINE r == Au!WithPassword(user[u])
           g == Au!FirstGrant(u, r.role, r.version + 1, epoch[u] + 1)
<1>3. /\ UNCHANGED <<now, invite, code, windows, tokens, born, spent>>
      /\ IF Au!CompleteAllowed(c) THEN Au!Replace(u, r) /\ Au!Become(c, g)
         ELSE Au!Become(c, Au!Idle) /\ UNCHANGED <<user, session, epoch>>
    BY <1>2 DEF Au!CompleteTemporaryPassword, Au!FirstGrant
<1>4. Au!TokensInv' /\ Au!CodeInv' BY <1>3, TokensSame, CodeSame DEF Au!AuthInv
<1>5. CASE Au!CompleteAllowed(c)
  <2>1. user[u].status = "active" BY <1>2, <1>5 DEF Au!CompleteAllowed, Au!Live
  <2>2. Fits(u, r) /\ ~r.deleted BY <2>1, PasswordFits
  <2>3. user[u] \in Au!UserRow /\ epoch[u] \in Nat /\ Au!AccountSound(u)
    BY DEF Au!AuthInv, Au!RowsInv
  <2>4. r \in Au!UserRow /\ r.password /\ r.version = epoch[u] + 1
      BY <2>3, WithPasswordIs DEF Au!AccountSound
  <2>5. Au!Replace(u, r) /\ Au!Become(c, g) BY <1>3, <1>5
  <2>6. r.role \in {"user", "admin"} /\ r.version \in Nat BY <2>4 DEF Au!UserRow
  <2>7. Au!Bumped(r).password BY <2>4, BumpedIs
  <2> HIDE DEF r
  <2>8. /\ g \in Au!GrantState /\ g.user = u /\ g.version = g.epoch + 1 /\ g.purpose = "normal"
        /\ g.step = "grant"
    <3>1. r.version + 1 \in Nat /\ epoch[u] + 1 \in Nat /\ r.version + 1 = epoch[u] + 1 + 1
        BY <2>3, <2>4, <2>6
    <3> QED BY <2>6, <3>1, FirstGrantIs
  <2> HIDE DEF g
  <2>9. /\ Au!RowsInv' /\ Au!SessionsInv' /\ Au!SpentInv' /\ KnownStays /\ RotatesNothing /\ DeletedStays
        /\ user'[u] = Au!Bumped(r)
      BY <1>3, <2>2, <2>5, ReplaceStep
  <2>10. user'[g.user].password BY <2>7, <2>8, <2>9
  <2>11. Au!ClientsInv' BY <2>5, <2>8, <2>9, <2>10, ClientSteps DEF Au!AuthInv
  <2>12. Au!InvitesInv' BY <1>3, <2>9, InvitesSame DEF Au!AuthInv
  <2>13. Au!GuessInv' BY <1>3, <2>5, <2>8, RequestEnds
  <2> QED BY <1>4, <2>9, <2>11, <2>12, <2>13 DEF Au!AuthInv
<1>6. CASE ~Au!CompleteAllowed(c)
  <2>1. Au!Become(c, Au!Idle) /\ UNCHANGED <<user, session, epoch>> BY <1>3, <1>6
  <2>2. Au!RowsInv' /\ Au!SessionsInv' /\ Au!SpentInv' /\ Au!InvitesInv' /\ KnownStays /\ RotatesNothing
      BY <1>3, <2>1, QuietStep
  <2>3. Au!ClientsInv' BY <2>1, <2>2, ClientSteps DEF Au!AuthInv
  <2>4. Au!Idle.step \notin {"login", "change"} BY DEF Au!Idle
  <2>5. Au!GuessInv' BY <1>3, <2>1, <2>4, RequestEnds
  <2> QED BY <1>4, <2>2, <2>3, <2>5 DEF Au!AuthInv
<1> QED BY <1>5, <1>6

\* user_update: a change of the address, the role or the status ends the sessions.
LEMMA UpdateUserKeeps ==
  ASSUME Au!AuthAssumption, Au!AuthInv, NEW u \in Users, NEW e \in BOOLEAN, NEW k \in {"user", "admin"},
         NEW st \in Au!Statuses, Au!UpdateUser(u, e, k, st)
  PROVE  Au!AuthInv' /\ RotatesNothing
<1> DEFINE b == [user[u] EXCEPT !.role = k]
           r == [b EXCEPT !.status = st]
<1>1. user[u] \in Au!UserRow /\ Au!AccountSound(u) BY DEF Au!AuthInv, Au!RowsInv
<1>2. /\ user[u].status # "absent" /\ ~user[u].deleted /\ Au!StatusAllowed(u, st)
      /\ UNCHANGED <<now, invite, code, windows, client, tokens, born, spent>>
      /\ IF Au!EndsSessions(u, e, k, st) THEN user' = [user EXCEPT ![u] = Au!Bumped(r)] /\ Au!RevokeAll(u)
         ELSE user' = [user EXCEPT ![u] = r] /\ UNCHANGED session
      /\ IF <<user[u].role, user[u].status, e>> = <<k, st, FALSE>> THEN UNCHANGED epoch ELSE Au!Changed(u)
    BY DEF Au!UpdateUser
<1>3. /\ b \in Au!UserRow /\ b.role = k /\ b.version = user[u].version /\ b.password = user[u].password
      /\ b.deleted = user[u].deleted /\ b.status = user[u].status
    BY <1>1 DEF Au!UserRow
<1>9. user[u].role = k => b = user[u] BY <1>1 DEF Au!UserRow
<1> HIDE DEF b
<1>4. /\ r \in Au!UserRow /\ r.version = user[u].version /\ r.password = user[u].password
      /\ r.deleted = user[u].deleted /\ r.status = st
    BY <1>3 DEF Au!UserRow
<1>10. user[u].role = k /\ user[u].status = st => r = user[u] BY <1>1, <1>9 DEF Au!UserRow
<1> HIDE DEF r
<1>5. Au!TokensInv' /\ Au!CodeInv' BY <1>2, TokensSame, CodeSame DEF Au!AuthInv
<1>6. Au!GuessInv' BY <1>2, GuessSame DEF Au!AuthInv, Au!Pending
<1>7. CASE Au!EndsSessions(u, e, k, st)
  <2>1. st # "absent" BY <1>2 DEF Au!StatusAllowed
  <2>2. st = "invited" => ~user[u].password
    <3>1. st = "invited" => user[u].status = "invited" BY <1>2 DEF Au!StatusAllowed
    <3> QED BY <1>1, <3>1 DEF Au!AccountSound
  <2>3. Fits(u, r) BY <1>2, <1>4, <2>1, <2>2 DEF Fits, Au!Known
  <2>4. Au!Changed(u) BY <1>2, <1>7 DEF Au!EndsSessions
  <2>5. Au!Replace(u, r) BY <1>2, <1>7, <2>4 DEF Au!Replace
  <2>6. Au!RowsInv' /\ Au!SessionsInv' /\ Au!SpentInv' /\ KnownStays /\ RotatesNothing /\ DeletedStays
      BY <1>2, <1>4, <2>3, <2>5, ReplaceStep
  <2>7. Au!ClientsInv' /\ Au!InvitesInv' BY <1>2, <2>6, ClientsSame, InvitesSame DEF Au!AuthInv
  <2> QED BY <1>5, <1>6, <2>6, <2>7 DEF Au!AuthInv
<1>8. CASE ~Au!EndsSessions(u, e, k, st)
  <2>1. ~e /\ user[u].role = k /\ user[u].status = st BY <1>8 DEF Au!EndsSessions
  <2>2. epoch' = epoch BY <1>2, <2>1
  <2>3. user' = user
    <3>1. user' = [user EXCEPT ![u] = user[u]] BY <1>2, <1>8, <1>10, <2>1
    <3> QED BY <3>1 DEF Au!AuthInv, Au!RowsInv
  <2>4. session' = session BY <1>2, <1>8
  <2>5. Au!RowsInv' /\ Au!SessionsInv' /\ Au!SpentInv' /\ Au!InvitesInv' /\ KnownStays /\ RotatesNothing
      BY <1>2, <2>2, <2>3, <2>4, QuietStep
  <2>6. Au!ClientsInv' BY <1>2, <2>5, ClientsSame DEF Au!AuthInv
  <2> QED BY <1>5, <1>6, <2>5, <2>6 DEF Au!AuthInv
<1> QED BY <1>7, <1>8

\* The invitations of a user are revoked.
LEMMA InvitesRevoked ==
  ASSUME Au!AuthAssumption, Au!InvitesInv, NEW u \in Users
  PROVE  /\ Au!RevokeInvites(u) \in [Invites -> Au!InviteRow \cup {None}]
         /\ \A i \in Invites : Au!RevokeInvites(u)[i] # None =>
              /\ invite[i] # None /\ Au!RevokeInvites(u)[i].user = invite[i].user
              /\ invite[i].user = u => Au!RevokeInvites(u)[i].accepted \/ Au!RevokeInvites(u)[i].revoked
              /\ invite[i].user # u => Au!RevokeInvites(u)[i] = invite[i]
<1> DEFINE R == Au!RevokeInvites(u)
<1>1. \A i \in Invites : R[i] = IF invite[i] # None /\ invite[i].user = u /\ ~invite[i].accepted
                                THEN Au!Revoked(invite[i]) ELSE invite[i]
    BY DEF Au!RevokeInvites
<1>2. \A i \in Invites : invite[i] \in Au!InviteRow \cup {None} BY DEF Au!InvitesInv
<1>3. R = [i \in Invites |-> R[i]] BY DEF Au!RevokeInvites
<1> HIDE DEF R
<1>4. ASSUME NEW i \in Invites
      PROVE  /\ R[i] \in Au!InviteRow \cup {None}
             /\ R[i] # None =>
                  /\ invite[i] # None /\ R[i].user = invite[i].user
                  /\ invite[i].user = u => R[i].accepted \/ R[i].revoked
                  /\ invite[i].user # u => R[i] = invite[i]
  <2>1. CASE invite[i] # None /\ invite[i].user = u /\ ~invite[i].accepted
    <3>1. R[i] = Au!Revoked(invite[i]) /\ invite[i] \in Au!InviteRow BY <1>1, <1>2, <2>1
    <3> QED BY <2>1, <3>1, RevokedInviteIs
  <2>2. CASE ~(invite[i] # None /\ invite[i].user = u /\ ~invite[i].accepted)
    <3>1. R[i] = invite[i] BY <1>1, <2>2
    <3> QED BY <1>2, <2>2, <3>1
  <2> QED BY <2>1, <2>2
<1>5. R \in [Invites -> Au!InviteRow \cup {None}] BY <1>3, <1>4
<1> QED BY <1>4, <1>5 DEF R

\* user_soft_delete
LEMMA SoftDeleteKeeps ==
  ASSUME Au!AuthAssumption, Au!AuthInv, NEW c \in Clients, NEW u \in Users, Au!SoftDelete(c, u)
  PROVE  Au!AuthInv' /\ RotatesNothing
<1> DEFINE r == Au!Anonymized(user[u])
<1>1. /\ Au!Become(c, Au!Idle) /\ UNCHANGED <<now, code, windows, tokens, born, spent>>
      /\ IF Au!DeleteAllowed(u) THEN Au!Replace(u, r) /\ invite' = Au!RevokeInvites(u)
         ELSE UNCHANGED <<user, session, epoch, invite>>
    BY DEF Au!SoftDelete
<1>2. Au!Idle.step \notin {"login", "change"} BY DEF Au!Idle
<1>3. Au!GuessInv' BY <1>1, <1>2, RequestEnds
<1>4. Au!TokensInv' /\ Au!CodeInv' BY <1>1, TokensSame, CodeSame DEF Au!AuthInv
<1>5. CASE Au!DeleteAllowed(u)
  <2>1. user[u] \in Au!UserRow BY DEF Au!AuthInv, Au!RowsInv
  <2>2. /\ r \in Au!UserRow /\ r.version = user[u].version /\ r.status = "disabled" /\ r.deleted
        /\ ~r.password /\ ~r.email
      BY <2>1, AnonymizedIs
  <2>3. Au!Replace(u, r) /\ invite' = Au!RevokeInvites(u) BY <1>1, <1>5
  <2> HIDE DEF r
  <2>4. Fits(u, r) BY <2>2 DEF Fits
  <2>5. /\ Au!RowsInv' /\ Au!SessionsInv' /\ Au!SpentInv' /\ KnownStays /\ RotatesNothing
        /\ \A v \in Users : v # u => user'[v] = user[v]
      BY <1>1, <2>3, <2>4, ReplaceStep
  <2>6. Au!ClientsInv' BY <1>1, <2>5, ClientSteps DEF Au!AuthInv
  <2>7. /\ invite' \in [Invites -> Au!InviteRow \cup {None}]
        /\ \A i \in Invites : invite'[i] # None =>
             /\ invite[i] # None /\ invite'[i].user = invite[i].user
             /\ invite[i].user = u => invite'[i].accepted \/ invite'[i].revoked
             /\ invite[i].user # u => invite'[i] = invite[i]
      BY <2>3, InvitesRevoked DEF Au!AuthInv
  <2>8. \A i \in Invites : Au!InviteSound(i)'
    <3> SUFFICES ASSUME NEW i \in Invites, invite'[i] # None, user'[invite'[i].user].deleted
                 PROVE  invite'[i].accepted \/ invite'[i].revoked
        BY DEF Au!InviteSound
    <3>1. CASE invite[i].user = u BY <2>7, <3>1
    <3>2. CASE invite[i].user # u
      <4>1. invite'[i] = invite[i] /\ invite[i] # None BY <2>7, <3>2
      <4>2. invite[i] \in Au!InviteRow BY <4>1 DEF Au!AuthInv, Au!InvitesInv
      <4>3. invite[i].user \in Users BY <4>2 DEF Au!InviteRow
      <4>4. user[invite[i].user].deleted BY <2>5, <3>2, <4>1, <4>3
      <4>5. Au!InviteSound(i) BY DEF Au!AuthInv, Au!InvitesInv
      <4> QED BY <4>1, <4>4, <4>5 DEF Au!InviteSound
    <3> QED BY <3>1, <3>2
  <2>9. Au!InvitesInv' BY <2>7, <2>8 DEF Au!InvitesInv
  <2> QED BY <1>3, <1>4, <2>5, <2>6, <2>9 DEF Au!AuthInv
<1>6. CASE ~Au!DeleteAllowed(u)
  <2>1. UNCHANGED <<user, session, epoch, invite>> BY <1>1, <1>6
  <2>2. Au!RowsInv' /\ Au!SessionsInv' /\ Au!SpentInv' /\ Au!InvitesInv' /\ KnownStays /\ RotatesNothing
      BY <1>1, <2>1, QuietStep
  <2>3. Au!ClientsInv' BY <1>1, <2>2, ClientSteps DEF Au!AuthInv
  <2> QED BY <1>3, <1>4, <2>2, <2>3 DEF Au!AuthInv
<1> QED BY <1>5, <1>6

\* Nothing is known of an account that has not been activated.
LEMMA Unknown ==
  ASSUME Au!AuthInv, NEW u \in Users, user[u].status \in {"absent", "invited"}
  PROVE  ~Au!Known(u) /\ ~user[u].password /\ ~user[u].deleted
<1>1. Au!AccountSound(u) BY DEF Au!AuthInv, Au!RowsInv
<1> QED BY <1>1 DEF Au!AccountSound, Au!Known

\* An account comes into being, by invitation or by registration.
LEMMA BeginsStep ==
  ASSUME Au!AuthAssumption, Au!AuthInv, NEW u \in Users, user[u].status = "absent",
         NEW st \in {"invited", "active"}, NEW r \in {"user", "admin"}, NEW pw \in BOOLEAN,
         st = "invited" => pw = FALSE, user' = [user EXCEPT ![u] = Au!Row(st, r, pw)],
         UNCHANGED <<session, epoch, born, spent>>
  PROVE  /\ Au!RowsInv' /\ Au!SessionsInv' /\ Au!SpentInv' /\ KnownStays /\ DeletedStays /\ RotatesNothing
         /\ epoch[u] = 0 /\ user'[u].password = pw /\ ~user'[u].deleted
<1>1. Au!RowsInv' /\ epoch[u] = 0 BY AccountBegins DEF Au!AuthInv
<1>2. st \in Au!Statuses BY DEF Au!Statuses
<1>3. Au!Row(st, r, pw).password = pw /\ ~Au!Row(st, r, pw).deleted BY <1>2, RowIs
<1>4. user'[u] = Au!Row(st, r, pw) /\ \A v \in Users : v # u => user'[v] = user[v]
    BY DEF Au!AuthInv, Au!RowsInv
<1>5. ~Au!Known(u) BY Unknown
<1>6. KnownStays
  <2> SUFFICES ASSUME NEW v \in Users, Au!Known(v) PROVE user'[v].password \/ user'[v].deleted
      BY DEF KnownStays, Au!Known
  <2> QED BY <1>4, <1>5 DEF Au!Known
<1>7. DeletedStays BY <1>3, <1>4 DEF DeletedStays
<1>8. Au!SessionsInv' /\ RotatesNothing BY <1>6, SessionsSame DEF Au!AuthInv
<1>9. Au!SpentInv' BY <1>8, SpentSame DEF Au!AuthInv
<1> QED BY <1>1, <1>3, <1>4, <1>6, <1>7, <1>8, <1>9

\* An invitation is added to those that remain.
LEMMA InviteAdded ==
  ASSUME Au!AuthAssumption, Au!AuthInv, NEW u \in Users, NEW i \in Invites,
         NEW I \in [Invites -> Au!InviteRow \cup {None}],
         \A j \in Invites : (I[j] # None /\ user'[I[j].user].deleted) => I[j].accepted \/ I[j].revoked,
         invite' = [I EXCEPT ![i] = Au!NewInvite(u)], ~user'[u].deleted
  PROVE  Au!InvitesInv'
<1> DEFINE n == Au!NewInvite(u)
           x == now + InviteTtl
<1>1. x \in Nat BY AuthConstants DEF Au!AuthInv, Au!GuessInv
<1>2. n = [user |-> u, until |-> x, accepted |-> FALSE, revoked |-> FALSE] BY DEF Au!NewInvite
<1>3. invite' = [I EXCEPT ![i] = n] OBVIOUS
<1> HIDE DEF n, x
<1>4. n \in Au!InviteRow /\ n.user = u BY <1>1, <1>2 DEF Au!InviteRow
<1>5. /\ invite' \in [Invites -> Au!InviteRow \cup {None}] /\ invite'[i] = n
      /\ \A j \in Invites : j # i => invite'[j] = I[j]
    BY <1>3, <1>4
<1>6. \A j \in Invites : Au!InviteSound(j)'
  <2> SUFFICES ASSUME NEW j \in Invites, invite'[j] # None, user'[invite'[j].user].deleted
               PROVE  invite'[j].accepted \/ invite'[j].revoked
      BY DEF Au!InviteSound
  <2>1. j # i BY <1>4, <1>5
  <2> QED BY <1>5, <2>1
<1> QED BY <1>5, <1>6 DEF Au!InvitesInv

\* The invitations that are stored stay sound while nobody is deleted.
LEMMA InvitesStay ==
  ASSUME Au!AuthInv, DeletedStays, NEW j \in Invites, invite[j] # None, user'[invite[j].user].deleted
  PROVE  invite[j].accepted \/ invite[j].revoked
<1>1. invite[j] \in Au!InviteRow /\ Au!InviteSound(j) BY DEF Au!AuthInv, Au!InvitesInv
<1>2. invite[j].user \in Users BY <1>1 DEF Au!InviteRow
<1> QED BY <1>1, <1>2 DEF DeletedStays, Au!InviteSound

\* invite_user
LEMMA InviteUserKeeps ==
  ASSUME Au!AuthAssumption, Au!AuthInv, NEW a \in Users, NEW u \in Users, NEW i \in Invites,
         NEW r \in {"user", "admin"}, Au!InviteUser(a, u, i, r)
  PROVE  Au!AuthInv' /\ RotatesNothing
<1>1. /\ user[u].status = "absent" /\ user' = [user EXCEPT ![u] = Au!Row("invited", r, FALSE)]
      /\ invite' = [invite EXCEPT ![i] = Au!NewInvite(u)]
      /\ UNCHANGED <<now, code, windows, client, tokens>> /\ UNCHANGED <<session, epoch, born, spent>>
    BY DEF Au!InviteUser, Au!history
<1>2. /\ Au!RowsInv' /\ Au!SessionsInv' /\ Au!SpentInv' /\ KnownStays /\ DeletedStays /\ RotatesNothing
      /\ ~user'[u].deleted
    BY <1>1, BeginsStep
<1>3. invite \in [Invites -> Au!InviteRow \cup {None}] BY DEF Au!AuthInv, Au!InvitesInv
<1>4. \A j \in Invites : (invite[j] # None /\ user'[invite[j].user].deleted)
                           => invite[j].accepted \/ invite[j].revoked
    BY <1>2, InvitesStay
<1>5. Au!InvitesInv' BY <1>1, <1>2, <1>3, <1>4, InviteAdded
<1>6. Au!ClientsInv' BY <1>1, <1>2, ClientsSame DEF Au!AuthInv
<1>7. Au!TokensInv' /\ Au!CodeInv' BY <1>1, TokensSame, CodeSame DEF Au!AuthInv
<1>8. Au!GuessInv' BY <1>1, GuessSame DEF Au!AuthInv, Au!Pending
<1> QED BY <1>2, <1>5, <1>6, <1>7, <1>8 DEF Au!AuthInv

\* reissue_invitation
LEMMA ReissueKeeps ==
  ASSUME Au!AuthAssumption, Au!AuthInv, NEW a \in Users, NEW u \in Users, NEW i \in Invites,
         Au!ReissueInvitation(a, u, i)
  PROVE  Au!AuthInv' /\ RotatesNothing
<1> DEFINE r == [user[u] EXCEPT !.status = "invited"]
           I == Au!RevokeInvites(u)
<1>1. /\ Au!CanReissue(u) /\ invite' = [I EXCEPT ![i] = Au!NewInvite(u)] /\ Au!Replace(u, r)
      /\ UNCHANGED <<now, code, windows, client, tokens, born, spent>>
    BY DEF Au!ReissueInvitation
<1>2. user[u] \in Au!UserRow /\ Au!AccountSound(u) BY DEF Au!AuthInv, Au!RowsInv
<1>3. ~user[u].password /\ ~user[u].deleted BY <1>1, <1>2 DEF Au!CanReissue, Au!AccountSound
<1>4. /\ r \in Au!UserRow /\ r.version = user[u].version /\ r.status = "invited"
      /\ ~r.password /\ ~r.deleted
    BY <1>2, <1>3 DEF Au!UserRow, Au!Statuses
<1> HIDE DEF r
<1>5. Fits(u, r) BY <1>3, <1>4 DEF Fits, Au!Known
<1>6. /\ Au!RowsInv' /\ Au!SessionsInv' /\ Au!SpentInv' /\ KnownStays /\ RotatesNothing /\ DeletedStays
      /\ user'[u] = Au!Bumped(r)
    BY <1>1, <1>4, <1>5, ReplaceStep
<1>7. ~user'[u].deleted BY <1>4, <1>6, BumpedIs
<1>8. /\ I \in [Invites -> Au!InviteRow \cup {None}]
      /\ \A j \in Invites : I[j] # None =>
           /\ invite[j] # None /\ I[j].user = invite[j].user
           /\ invite[j].user = u => I[j].accepted \/ I[j].revoked
           /\ invite[j].user # u => I[j] = invite[j]
    BY InvitesRevoked DEF Au!AuthInv
<1> HIDE DEF I
<1>9. \A j \in Invites : (I[j] # None /\ user'[I[j].user].deleted) => I[j].accepted \/ I[j].revoked
  <2> SUFFICES ASSUME NEW j \in Invites, I[j] # None, user'[I[j].user].deleted
               PROVE  I[j].accepted \/ I[j].revoked
      OBVIOUS
  <2>1. CASE invite[j].user = u BY <1>8, <2>1
  <2>2. CASE invite[j].user # u
    <3>1. invite[j] # None /\ user'[invite[j].user].deleted /\ I[j] = invite[j] BY <1>8, <2>2
    <3> QED BY <1>6, <3>1, InvitesStay
  <2> QED BY <2>1, <2>2
<1>10. Au!InvitesInv' BY <1>1, <1>7, <1>8, <1>9, InviteAdded
<1>11. Au!ClientsInv' BY <1>1, <1>6, ClientsSame DEF Au!AuthInv
<1>12. Au!TokensInv' /\ Au!CodeInv' BY <1>1, TokensSame, CodeSame DEF Au!AuthInv
<1>13. Au!GuessInv' BY <1>1, GuessSame DEF Au!AuthInv, Au!Pending
<1> QED BY <1>6, <1>10, <1>11, <1>12, <1>13 DEF Au!AuthInv

\* accept_invitation: no session of the account exists yet.
LEMMA AcceptKeeps ==
  ASSUME Au!AuthAssumption, Au!AuthInv, NEW c \in Clients, NEW i \in Invites, Au!AcceptInvitation(c, i)
  PROVE  Au!AuthInv' /\ RotatesNothing
<1>1. invite[i] \in Au!InviteRow /\ invite[i] # None
  BY DEF Au!AcceptInvitation, Au!Acceptable, Au!AuthInv, Au!InvitesInv
<1>2. PICK u \in Users : u = invite[i].user BY <1>1 DEF Au!InviteRow
<1> DEFINE b == Au!WithPassword(user[u])
           r == [b EXCEPT !.status = "active"]
           g == Au!FirstGrant(u, user[u].role, user[u].version + 1, epoch[u] + 1)
           n == [invite[i] EXCEPT !.accepted = TRUE]
<1>3. /\ user[u].status = "invited" /\ user' = [user EXCEPT ![u] = Au!Bumped(r)] /\ Au!Changed(u)
      /\ Au!Become(c, g) /\ invite' = [invite EXCEPT ![i] = n]
      /\ UNCHANGED <<now, session, code, windows, tokens, born, spent>>
    BY <1>2 DEF Au!AcceptInvitation, Au!Acceptable
<1>4. user[u] \in Au!UserRow /\ Au!AccountSound(u) /\ epoch[u] \in Nat
  BY DEF Au!AuthInv, Au!RowsInv
<1>5. ~Au!Known(u) /\ ~user[u].deleted BY <1>3, Unknown
<1>6. /\ b \in Au!UserRow /\ b.password /\ b.version = user[u].version /\ b.deleted = user[u].deleted
    BY <1>4, WithPasswordIs
<1>7. /\ user[u].role \in {"user", "admin"} /\ user[u].version \in Nat
      /\ user[u].version = epoch[u] + 1
    BY <1>4 DEF Au!UserRow, Au!AccountSound
<1>8. /\ g \in Au!GrantState /\ g.user = u /\ g.version = g.epoch + 1 /\ g.purpose = "normal"
      /\ g.step = "grant"
  <2>1. user[u].version + 1 \in Nat /\ epoch[u] + 1 \in Nat
        /\ user[u].version + 1 = epoch[u] + 1 + 1
      BY <1>4, <1>7
  <2> QED BY <1>7, <2>1, FirstGrantIs
<1> HIDE DEF b
<1>9. /\ r \in Au!UserRow /\ r.password /\ r.version = user[u].version /\ ~r.deleted
      /\ r.status = "active"
    BY <1>5, <1>6 DEF Au!UserRow, Au!Statuses
<1> HIDE DEF r, g
<1>10. Au!RowsInv' BY <1>3, <1>9, AccountChanges DEF Au!AuthInv
<1>11. user'[u] = Au!Bumped(r) /\ \A v \in Users : v # u => user'[v] = user[v]
    BY <1>3 DEF Au!AuthInv, Au!RowsInv
<1>12. Au!Bumped(r).password /\ ~Au!Bumped(r).deleted BY <1>9, BumpedIs
<1>13. KnownStays
  <2> SUFFICES ASSUME NEW v \in Users, Au!Known(v) PROVE user'[v].password \/ user'[v].deleted
      BY DEF KnownStays, Au!Known
  <2> QED BY <1>5, <1>11 DEF Au!Known
<1>14. DeletedStays BY <1>11, <1>12 DEF DeletedStays
<1>15. \A v \in Users : Au!Known(v) => epoch'[v] = epoch[v]
  <2>1. \A v \in Users : v # u => epoch'[v] = epoch[v]
    BY <1>3 DEF Au!Changed, Au!AuthInv, Au!RowsInv
  <2> QED BY <1>5, <2>1
<1>16. Au!SessionsInv' /\ RotatesNothing BY <1>3, <1>13, <1>15, SessionsSame DEF Au!AuthInv
<1>17. Au!SpentInv' BY <1>3, <1>16, SpentSame DEF Au!AuthInv
<1>18. Au!ClientsInv'
  <2>1. user'[g.user].password BY <1>8, <1>11, <1>12
  <2> QED BY <1>3, <1>8, <1>13, <2>1, ClientSteps DEF Au!AuthInv
<1>19. n \in Au!InviteRow /\ n.accepted BY <1>1 DEF Au!InviteRow
<1> HIDE DEF n
<1>20. Au!InvitesInv'
  <2>1. /\ invite' \in [Invites -> Au!InviteRow \cup {None}] /\ invite'[i] = n
        /\ \A j \in Invites : j # i => invite'[j] = invite[j]
      BY <1>3, <1>19 DEF Au!AuthInv, Au!InvitesInv
  <2>2. \A j \in Invites : Au!InviteSound(j)'
    <3> SUFFICES ASSUME NEW j \in Invites, invite'[j] # None, user'[invite'[j].user].deleted
                 PROVE  invite'[j].accepted \/ invite'[j].revoked
        BY DEF Au!InviteSound
    <3>1. CASE j = i BY <1>19, <2>1, <3>1
    <3>2. CASE j # i BY <1>14, <2>1, <3>2, InvitesStay
    <3> QED BY <3>1, <3>2
  <2> QED BY <2>1, <2>2 DEF Au!InvitesInv
<1>21. Au!TokensInv' /\ Au!CodeInv' BY <1>3, TokensSame, CodeSame DEF Au!AuthInv
<1>22. Au!GuessInv' BY <1>3, <1>8, RequestEnds
<1> QED BY <1>10, <1>16, <1>17, <1>18, <1>20, <1>21, <1>22 DEF Au!AuthInv

\* The registration code.
LEMMA CodeStep ==
  ASSUME Au!AuthAssumption, Au!AuthInv, Au!CodeInv', UNCHANGED <<now, windows, client, tokens>>,
         UNCHANGED <<user, session, invite, epoch, born, spent>>
  PROVE  Au!AuthInv' /\ RotatesNothing
<1>1. Au!RowsInv' /\ Au!SessionsInv' /\ Au!SpentInv' /\ Au!InvitesInv' /\ KnownStays /\ RotatesNothing
    BY QuietStep
<1>2. Au!ClientsInv' BY <1>1, ClientsSame DEF Au!AuthInv
<1>3. Au!TokensInv' BY TokensSame DEF Au!AuthInv
<1>4. Au!GuessInv' BY GuessSame DEF Au!AuthInv, Au!Pending
<1> QED BY <1>1, <1>2, <1>3, <1>4 DEF Au!AuthInv

\* A registration code is created.
LEMMA CreateCodeKeeps ==
  ASSUME Au!AuthAssumption, Au!AuthInv, NEW a \in Users, NEW m \in MaxUses \cup {None}, NEW on \in BOOLEAN,
         Au!CreateCode(a, m, on)
  PROVE  Au!AuthInv' /\ RotatesNothing
<1>1. /\ code' = [max |-> m, used |-> 0, enabled |-> on] /\ UNCHANGED <<now, windows, client, tokens>>
      /\ UNCHANGED <<user, session, invite, epoch, born, spent>>
    BY DEF Au!CreateCode, Au!history
<1>2. code' \in Au!CodeRow /\ code'.used = 0 /\ code'.max = m BY <1>1 DEF Au!CodeRow
<1>3. m # None => 0 <= m BY AuthConstants
<1>4. Au!CodeInv' BY <1>2, <1>3 DEF Au!CodeInv, Au!CodeWithinMax, Au!CodeRow
<1> QED BY <1>1, <1>4, CodeStep

\* Its maximum is changed, never below the uses.
LEMMA UpdateCodeKeeps ==
  ASSUME Au!AuthAssumption, Au!AuthInv, NEW a \in Users, NEW m \in MaxUses \cup {None}, NEW on \in BOOLEAN,
         Au!UpdateCode(a, m, on)
  PROVE  Au!AuthInv' /\ RotatesNothing
<1> DEFINE b == [code EXCEPT !.max = m]
<1>1. /\ code # None /\ Au!CodeAccepts(m, code.used) /\ code' = [b EXCEPT !.enabled = on]
      /\ UNCHANGED <<now, windows, client, tokens>>
      /\ UNCHANGED <<user, session, invite, epoch, born, spent>>
    BY DEF Au!UpdateCode, Au!history
<1>2. code \in Au!CodeRow BY <1>1 DEF Au!AuthInv, Au!CodeInv
<1>3. b \in Au!CodeRow /\ b.max = m /\ b.used = code.used BY <1>2 DEF Au!CodeRow
<1> HIDE DEF b
<1>4. code' \in Au!CodeRow /\ code'.max = m /\ code'.used = code.used BY <1>1, <1>3 DEF Au!CodeRow
<1>5. code.used \in Nat /\ (m # None => m \in Nat) BY <1>2, AuthConstants DEF Au!CodeRow
<1>6. m # None => code.used <= m BY <1>1, <1>5 DEF Au!CodeAccepts
<1>7. Au!CodeInv' BY <1>4, <1>6 DEF Au!CodeInv, Au!CodeWithinMax, Au!CodeRow
<1> QED BY <1>1, <1>7, CodeStep

\* register_with_invitation_code
LEMMA RegisterKeeps ==
  ASSUME Au!AuthAssumption, Au!AuthInv, NEW c \in Clients, NEW u \in Users, Au!Register(c, u)
  PROVE  Au!AuthInv' /\ RotatesNothing
<1> DEFINE g == Au!FirstGrant(u, "user", 1, epoch[u])
<1>1. /\ user[u].status = "absent" /\ Au!CodeUsable
      /\ user' = [user EXCEPT ![u] = Au!Row("active", "user", TRUE)]
      /\ code' = [code EXCEPT !.used = @ + 1] /\ Au!Become(c, g)
      /\ UNCHANGED <<now, invite, windows, tokens>> /\ UNCHANGED <<session, epoch, born, spent>>
    BY DEF Au!Register, Au!history
<1>2. /\ Au!RowsInv' /\ Au!SessionsInv' /\ Au!SpentInv' /\ KnownStays /\ DeletedStays /\ RotatesNothing
      /\ epoch[u] = 0 /\ user'[u].password
    BY <1>1, BeginsStep
<1>3. /\ g \in Au!GrantState /\ g.user = u /\ g.version = g.epoch + 1 /\ g.purpose = "normal"
      /\ g.step = "grant"
    BY <1>2, FirstGrantIs
<1> HIDE DEF g
<1>4. Au!ClientsInv' BY <1>1, <1>2, <1>3, ClientSteps DEF Au!AuthInv
<1>5. Au!InvitesInv' BY <1>1, <1>2, InvitesSame DEF Au!AuthInv
<1>6. Au!TokensInv' BY <1>1, TokensSame DEF Au!AuthInv
<1>7. Au!GuessInv' BY <1>1, <1>3, RequestEnds
<1>8. Au!CodeInv'
  <2>1. code \in Au!CodeRow /\ (code.max # None => code.used < code.max)
      BY <1>1 DEF Au!AuthInv, Au!CodeInv, Au!CodeUsable
  <2>2. code.used \in Nat /\ (code.max # None => code.max \in Nat)
    BY <2>1, AuthConstants DEF Au!CodeRow
  <2>3. code' \in Au!CodeRow /\ code'.max = code.max /\ code'.used = code.used + 1
      BY <1>1, <2>1 DEF Au!CodeRow
  <2>4. code.max # None => code.used + 1 <= code.max BY <2>1, <2>2
  <2> QED BY <2>3, <2>4 DEF Au!CodeInv, Au!CodeWithinMax, Au!CodeRow
<1> QED BY <1>2, <1>4, <1>5, <1>6, <1>7, <1>8 DEF Au!AuthInv

\* Time passes: windows only become old.
LEMMA TickKeeps ==
  ASSUME Au!AuthAssumption, Au!AuthInv, Au!Tick PROVE Au!AuthInv' /\ RotatesNothing
<1>1. /\ now' = now + 1 /\ UNCHANGED <<user, session, invite, epoch, born, spent>>
      /\ UNCHANGED <<code, windows, client, tokens>>
    BY DEF Au!Tick, Au!rows, Au!history
<1>2. Au!RowsInv' /\ Au!SessionsInv' /\ Au!SpentInv' /\ Au!InvitesInv' /\ KnownStays /\ RotatesNothing
    BY <1>1, QuietStep
<1>3. Au!ClientsInv' BY <1>1, <1>2, ClientsSame DEF Au!AuthInv
<1>4. Au!TokensInv' /\ Au!CodeInv' BY <1>1, TokensSame, CodeSame DEF Au!AuthInv
<1>5. now \in Nat /\ windows \in [Users -> Au!FailureRow \cup {None}]
  BY DEF Au!AuthInv, Au!GuessInv
<1>6. \A u \in Users : Au!GuessSound(u)'
  <2> SUFFICES ASSUME NEW u \in Users, windows[u] # None PROVE Au!GuessSound(u)'
      BY <1>1 DEF Au!GuessSound
  <2>1. Au!GuessSound(u) /\ windows[u] \in Au!FailureRow BY <1>5 DEF Au!AuthInv, Au!GuessInv
  <2>2. windows[u].start \in Nat BY <2>1 DEF Au!FailureRow
  <2>3. Au!Pending(u)' = Au!Pending(u) BY <1>1 DEF Au!Pending
  <2> DEFINE w == windows[u].start
  <2>4. w <= now' /\ (now' - w < FailureWindow => now - w < FailureWindow)
    <3>1. w <= now BY <2>1 DEF Au!GuessSound
    <3>2. FailureWindow \in Nat BY AuthConstants
    <3> HIDE DEF w
    <3> QED BY <1>1, <1>5, <2>2, <3>1, <3>2 DEF w
  <2> QED BY <1>1, <2>1, <2>3, <2>4 DEF Au!GuessSound
<1>7. Au!GuessInv' BY <1>1, <1>5, <1>6 DEF Au!GuessInv, Au!FailureRow
<1> QED BY <1>2, <1>3, <1>4, <1>7 DEF Au!AuthInv

--------------------
\* The invariant

\* Every step of every request keeps the invariant, and but for the exchange of a
\* refresh token every step keeps the tokens of the sessions.
LEMMA AuthStep ==
  ASSUME Au!AuthAssumption, Au!AuthInv, [Au!Next]_(Au!vars)
  PROVE  Au!AuthInv' /\ (RotatesNothing \/ \E s \in Sessions : Exchanged(s))
<1>1. ASSUME NEW c \in Clients, NEW u \in Users, Au!CanLogin(u), Au!Login(c, u)
      PROVE  Au!AuthInv' /\ RotatesNothing
    BY <1>1, LoginKeeps
<1>2. ASSUME NEW c \in Clients, NEW b \in BOOLEAN, Au!LoginVerified(c, b)
      PROVE  Au!AuthInv' /\ RotatesNothing
    BY <1>2, LoginVerifiedKeeps
<1>3. ASSUME NEW c \in Clients, NEW s \in Sessions, Au!IssueSession(c, s)
      PROVE  Au!AuthInv' /\ RotatesNothing
    BY <1>3, IssueSessionKeeps
<1>4. ASSUME NEW c \in Clients, NEW t \in tokens,
             Au!ChangeStart(c, t) \/ Au!IssueStart(c, t) \/ Au!CompleteStart(c, t) \/ Au!DeleteStart(c, t)
      PROVE  Au!AuthInv' /\ RotatesNothing
  <2>1. CASE Au!ChangeStart(c, t)
    <3>1. /\ Au!Become(c, Au!Verified("change", t.user, t.session)) /\ Au!Allows(t.user)
          /\ UNCHANGED <<user, session, invite, epoch, born, spent>>
          /\ UNCHANGED <<now, code, windows, tokens>>
        BY <2>1 DEF Au!ChangeStart, Au!rows, Au!history
    <3> QED BY <3>1, VerifyKeeps
  <2>2. CASE Au!IssueStart(c, t)
    <3>1. /\ Au!Become(c, Au!Verified("issue", t.user, t.session))
          /\ UNCHANGED <<user, session, invite, epoch, born, spent>>
          /\ UNCHANGED <<now, code, windows, tokens>>
        BY <2>2 DEF Au!IssueStart, Au!rows, Au!history
    <3> QED BY <3>1, VerifyKeeps
  <2>3. CASE Au!CompleteStart(c, t)
    <3>1. /\ Au!Become(c, Au!Verified("complete", t.user, t.session))
          /\ UNCHANGED <<user, session, invite, epoch, born, spent>>
          /\ UNCHANGED <<now, code, windows, tokens>>
        BY <2>3 DEF Au!CompleteStart, Au!rows, Au!history
    <3> QED BY <3>1, VerifyKeeps
  <2>4. CASE Au!DeleteStart(c, t)
    <3>1. /\ Au!Become(c, Au!Verified("delete", t.user, t.session))
          /\ UNCHANGED <<user, session, invite, epoch, born, spent>>
          /\ UNCHANGED <<now, code, windows, tokens>>
        BY <2>4 DEF Au!DeleteStart, Au!rows, Au!history
    <3> QED BY <3>1, VerifyKeeps
  <2> QED BY <1>4, <2>1, <2>2, <2>3, <2>4
<1>5. ASSUME NEW c \in Clients, Au!ChangePassword(c) \/ Au!CompleteTemporaryPassword(c)
      PROVE  Au!AuthInv' /\ RotatesNothing
    BY <1>5, ChangePasswordKeeps, CompleteKeeps
<1>6. ASSUME NEW c \in Clients, NEW u \in Users,
             Au!IssueTemporaryPassword(c, u) \/ Au!Register(c, u) \/ Au!SoftDelete(c, u)
      PROVE  Au!AuthInv' /\ RotatesNothing
    BY <1>6, IssueTemporaryKeeps, RegisterKeeps, SoftDeleteKeeps
<1>7. ASSUME NEW c \in Clients, NEW i \in Invites, Au!AcceptInvitation(c, i)
      PROVE  Au!AuthInv' /\ RotatesNothing
    BY <1>7, AcceptKeeps
<1>8. ASSUME NEW s \in Sessions, NEW n \in 1..(IF session[s] = None THEN 0 ELSE session[s].token),
             Au!Refresh(s, n)
      PROVE  Au!AuthInv' /\ (RotatesNothing \/ Exchanged(s))
  <2>1. n \in Nat
    <3>1. session[s] \in Au!SessionRow BY <1>8 DEF Au!Refresh, Au!AuthInv, Au!SessionsInv
    <3> QED BY <3>1 DEF Au!SessionRow
  <2> QED BY <1>8, <2>1, RefreshKeeps
<1>9. ASSUME NEW t \in tokens, NEW S \in SUBSET Sessions, Au!Revoke(t, S)
      PROVE  Au!AuthInv' /\ RotatesNothing
    BY <1>9, RevokeSessionsKeeps
<1>10. ASSUME NEW u \in Users, Au!ResetAdmin(u) PROVE Au!AuthInv' /\ RotatesNothing
    BY <1>10, ResetAdminKeeps
<1>11. ASSUME NEW u \in Users, NEW e \in BOOLEAN, NEW r \in {"user", "admin"}, NEW st \in Au!Statuses,
              Au!UpdateUser(u, e, r, st)
       PROVE  Au!AuthInv' /\ RotatesNothing
    BY <1>11, UpdateUserKeeps
<1>12. ASSUME NEW a \in Users, NEW u \in Users, NEW i \in Invites,
              Au!ReissueInvitation(a, u, i) \/ \E r \in {"user", "admin"} : Au!InviteUser(a, u, i, r)
       PROVE  Au!AuthInv' /\ RotatesNothing
    BY <1>12, ReissueKeeps, InviteUserKeeps
<1>13. ASSUME NEW a \in Users, NEW m \in MaxUses \cup {None}, NEW on \in BOOLEAN,
              Au!CreateCode(a, m, on) \/ Au!UpdateCode(a, m, on)
       PROVE  Au!AuthInv' /\ RotatesNothing
    BY <1>13, CreateCodeKeeps, UpdateCodeKeeps
<1>14. CASE Au!Tick BY <1>14, TickKeeps
<1>15. CASE Au!vars' = Au!vars
  <2>1. /\ UNCHANGED <<user, session, invite, epoch, born, spent>>
        /\ UNCHANGED <<now, code, windows, client, tokens>>
      BY <1>15 DEF Au!vars
  <2>2. Au!CodeInv' BY <2>1, CodeSame DEF Au!AuthInv
  <2> QED BY <2>1, <2>2, CodeStep
<1> QED
    BY <1>1, <1>2, <1>3, <1>4, <1>5, <1>6, <1>7, <1>8, <1>9, <1>10, <1>11, <1>12, <1>13, <1>14,
        <1>15
    DEF Au!Next

\* Only the administrator from bootstrap exists.
LEMMA AuthInit ==
  ASSUME Au!AuthAssumption, Au!Init PROVE Au!AuthInv
<1>1. \A u \in Users : /\ user[u] \in Au!UserRow /\ user[u].version = 1 /\ ~user[u].deleted
                       /\ user[u].status \in {"absent", "invited"} => ~user[u].password
  <2> SUFFICES ASSUME NEW u \in Users
               PROVE  /\ user[u] \in Au!UserRow /\ user[u].version = 1 /\ ~user[u].deleted
                      /\ user[u].status \in {"absent", "invited"} => ~user[u].password
      OBVIOUS
  <2>1. "active" \in Au!Statuses /\ "absent" \in Au!Statuses BY DEF Au!Statuses
  <2>2. CASE u = Root
    <3> DEFINE b == Au!Row("active", "admin", TRUE)
    <3>1. user[u] = b BY <2>2 DEF Au!Init
    <3>2. b \in Au!UserRow /\ b.version = 1 /\ ~b.deleted BY <2>1, RowIs
    <3>3. b.status = "active" BY DEF Au!Row
    <3> HIDE DEF b
    <3> QED BY <3>1, <3>2, <3>3
  <2>3. CASE u # Root
    <3> DEFINE b == Au!Row("absent", "user", FALSE)
    <3>1. user[u] = b BY <2>3 DEF Au!Init
    <3>2. b \in Au!UserRow /\ b.version = 1 /\ ~b.deleted BY <2>1, RowIs
    <3>3. ~b.password BY DEF Au!Row
    <3> HIDE DEF b
    <3> QED BY <3>1, <3>2, <3>3
  <2> QED BY <2>2, <2>3
<1>2. Au!RowsInv
  <2>1. user \in [Users -> Au!UserRow] BY <1>1 DEF Au!Init
  <2>2. epoch \in [Users -> Nat] /\ \A u \in Users : epoch[u] = 0 BY DEF Au!Init
  <2>3. \A u \in Users : Au!AccountSound(u) BY <1>1, <2>2 DEF Au!AccountSound
  <2> QED BY <2>1, <2>2, <2>3 DEF Au!RowsInv
<1>3. Au!SessionsInv BY DEF Au!Init, Au!SessionsInv, Au!SessionSound
<1>4. Au!SpentInv BY DEF Au!Init, Au!SpentInv
<1>5. Au!ClientsInv BY DEF Au!Init, Au!ClientsInv, Au!ClientSound
<1>6. Au!TokensInv BY DEF Au!Init, Au!TokensInv
<1>7. Au!InvitesInv BY DEF Au!Init, Au!InvitesInv, Au!InviteSound
<1>8. Au!CodeInv BY DEF Au!Init, Au!CodeInv, Au!CodeWithinMax
<1>9. Au!GuessInv BY DEF Au!Init, Au!GuessInv, Au!GuessSound
<1> QED BY <1>2, <1>3, <1>4, <1>5, <1>6, <1>7, <1>8, <1>9 DEF Au!AuthInv

\* For any accounts, requests, sessions and interleaving of the service's
\* transactions: rows carry the version of their epoch, unrevoked sessions are as
\* old as the credentials, and requests past the limiter's check are accounted for
\* (persistence/auth.rs, application/auth.rs).
THEOREM AuthInvariant == Au!AuthAssumption /\ Au!Spec => []Au!AuthInv
<1> SUFFICES ASSUME Au!AuthAssumption PROVE Au!Spec => []Au!AuthInv OBVIOUS
<1>1. Au!Init => Au!AuthInv BY AuthInit
<1>2. Au!AuthInv /\ [Au!Next]_(Au!vars) => Au!AuthInv' BY AuthStep
<1> QED BY <1>1, <1>2, PTL DEF Au!Spec

\* The invariant is what the Console promises.
LEMMA AuthImplies ==
  ASSUME Au!AuthAssumption, Au!AuthInv PROVE Au!AccessSound
<1>1. Au!AccessIsCurrent
  <2> SUFFICES ASSUME NEW t \in tokens, Au!Authenticates(t) PROVE t.epoch = epoch[t.user]
      BY DEF Au!AccessIsCurrent
  <2>1. t.user \in Users /\ t.epoch \in Nat /\ t.version = t.epoch + 1
      BY DEF Au!AuthInv, Au!TokensInv, Au!Tokens
  <2>2. epoch[t.user] \in Nat /\ user[t.user].version = epoch[t.user] + 1
      BY <2>1 DEF Au!AuthInv, Au!RowsInv, Au!AccountSound
  <2>3. user[t.user].version = t.version BY DEF Au!Authenticates
  <2> QED BY <2>1, <2>2, <2>3
<1>2. Au!SessionsEndWithCredentials
    BY DEF Au!SessionsEndWithCredentials, Au!Live, Au!AuthInv, Au!SessionsInv, Au!SessionSound
<1>3. Au!DeletedIsFinal
  <2> SUFFICES ASSUME NEW u \in Users, user[u].deleted
               PROVE  /\ user[u].status = "disabled" /\ ~user[u].password
                      /\ \A s \in Sessions : Au!Live(s) => session[s].user # u
                      /\ \A i \in Invites : invite[i] # None /\ invite[i].user = u
                           => invite[i].accepted \/ invite[i].revoked
      BY DEF Au!DeletedIsFinal
  <2>1. user[u].status = "disabled" /\ ~user[u].password
    BY DEF Au!AuthInv, Au!RowsInv, Au!AccountSound
  <2>2. \A s \in Sessions : Au!Live(s) => session[s].user # u BY <2>1 DEF Au!Live
  <2>3. \A i \in Invites : invite[i] # None /\ invite[i].user = u
                             => invite[i].accepted \/ invite[i].revoked
      BY DEF Au!AuthInv, Au!InvitesInv, Au!InviteSound
  <2> QED BY <2>1, <2>2, <2>3
<1>4. Au!CodeWithinMax BY DEF Au!AuthInv, Au!CodeInv
<1>5. Au!GuessesBounded BY DEF Au!GuessesBounded, Au!AuthInv, Au!GuessInv, Au!GuessSound
<1> QED BY <1>1, <1>2, <1>3, <1>4, <1>5 DEF Au!AccessSound

\* An access token never outlives the credentials it was issued under, a stored
\* session never authenticates after they changed, a deleted account stays without
\* access, a registration code stays within its maximum and the guesses of a window
\* within the limit and the requests that were past the check (authenticate_access_token,
\* rotate_session, user_soft_delete, AuthFailureLimiter).
THEOREM AccessAlwaysSound == Au!AuthAssumption /\ Au!Spec => []Au!AccessSound
<1> SUFFICES ASSUME Au!AuthAssumption PROVE Au!Spec => []Au!AccessSound OBVIOUS
<1>1. Au!AuthInv => Au!AccessSound BY AuthImplies
<1> QED BY <1>1, AuthInvariant, PTL

--------------------
\* What no step does

\* A token that was spent is older than the token of its session.
LEMMA SpentOnce ==
  ASSUME Au!AuthAssumption, Au!AuthInv, [Au!Next]_(Au!vars) PROVE Au!TokenSpentOnce
<1> SUFFICES ASSUME NEW s \in Sessions, session[s] # None, session'[s].token # session[s].token
             PROVE  <<s, session[s].token>> \notin spent /\ <<s, session[s].token>> \in spent'
    BY DEF Au!TokenSpentOnce
<1>1. session[s].token \in Nat
  <2>1. session[s] \in Au!SessionRow BY DEF Au!AuthInv, Au!SessionsInv
  <2> QED BY <2>1 DEF Au!SessionRow
<1>2. <<s, session[s].token>> \notin spent
  <2> SUFFICES ASSUME <<s, session[s].token>> \in spent PROVE FALSE OBVIOUS
  <2> DEFINE x == <<s, session[s].token>>
  <2>1. x[1] = s /\ x[2] = session[s].token OBVIOUS
  <2>2. x[2] < session[x[1]].token BY DEF Au!AuthInv, Au!SpentInv
  <2> HIDE DEF x
  <2> QED BY <1>1, <2>1, <2>2
<1>3. ~RotatesNothing BY DEF RotatesNothing
<1>4. PICK q \in Sessions : Exchanged(q) BY <1>3, AuthStep
<1>5. q = s BY <1>4 DEF Exchanged
<1> QED BY <1>2, <1>4, <1>5 DEF Exchanged

\* A request that has verified a change of password stays so until it writes.
LEMMA OthersWait ==
  ASSUME Au!ClientsInv, NEW c \in Clients, client[c].step = "change", NEW d \in Clients, NEW r,
         Au!Become(d, r), client'[c] = Au!Idle
  PROVE  d = c
<1>1. client[c] # Au!Idle BY DEF Au!Idle
<1> QED BY <1>1 DEF Au!Become, Au!ClientsInv

\* Only the transaction of change_password ends such a request, and it reads the
\* row.
LEMMA TemporaryKept ==
  ASSUME Au!AuthAssumption, Au!AuthInv, [Au!Next]_(Au!vars) PROVE Au!TemporaryPasswordKept
<1> SUFFICES ASSUME NEW c \in Clients, client[c].step = "change", client'[c] = Au!Idle,
                    user[client[c].user].temporary # None
             PROVE  user'[client[c].user] = user[client[c].user]
    BY DEF Au!TemporaryPasswordKept
<1>0. client[c] # Au!Idle /\ Au!ClientsInv BY DEF Au!Idle, Au!AuthInv
<1>1. client' # client BY <1>0
<1>2. \A d \in Clients : \A r : Au!Become(d, r) => d = c BY <1>0, OthersWait
<1>3. ASSUME NEW d \in Clients, NEW u \in Users, Au!Login(d, u) PROVE FALSE
    BY <1>0, <1>2, <1>3 DEF Au!Login
<1>4. ASSUME NEW d \in Clients, NEW b \in BOOLEAN, Au!LoginVerified(d, b) PROVE FALSE
    BY <1>2, <1>4 DEF Au!LoginVerified
<1>5. ASSUME NEW d \in Clients, NEW s \in Sessions, Au!IssueSession(d, s) PROVE FALSE
    BY <1>2, <1>5 DEF Au!IssueSession
<1>6. ASSUME NEW d \in Clients, NEW t \in tokens,
             Au!ChangeStart(d, t) \/ Au!IssueStart(d, t) \/ Au!CompleteStart(d, t) \/ Au!DeleteStart(d, t)
      PROVE  FALSE
    BY <1>0, <1>2, <1>6 DEF Au!ChangeStart, Au!IssueStart, Au!CompleteStart, Au!DeleteStart
<1>7. ASSUME NEW d \in Clients, Au!CompleteTemporaryPassword(d) PROVE FALSE
    BY <1>2, <1>7 DEF Au!CompleteTemporaryPassword
<1>8. ASSUME NEW d \in Clients, NEW u \in Users,
             Au!IssueTemporaryPassword(d, u) \/ Au!Register(d, u) \/ Au!SoftDelete(d, u)
      PROVE  FALSE
    BY <1>0, <1>2, <1>8 DEF Au!IssueTemporaryPassword, Au!Register, Au!SoftDelete
<1>9. ASSUME NEW d \in Clients, NEW i \in Invites, Au!AcceptInvitation(d, i) PROVE FALSE
    BY <1>0, <1>2, <1>9 DEF Au!AcceptInvitation
<1>10. ASSUME NEW d \in Clients, Au!ChangePassword(d) PROVE user' = user
  <2>1. d = c /\ ~Au!ChangeAllowed(client[c].user)
    BY <1>2, <1>10 DEF Au!ChangePassword, Au!ChangeAllowed
  <2> QED BY <1>10, <2>1 DEF Au!ChangePassword
<1>11. ASSUME NEW s \in Sessions, NEW n, Au!Refresh(s, n) PROVE FALSE
  BY <1>1, <1>11 DEF Au!Refresh
<1>12. ASSUME NEW t \in tokens, NEW S \in SUBSET Sessions, Au!Revoke(t, S) PROVE FALSE
    BY <1>1, <1>12 DEF Au!Revoke
<1>13. ASSUME NEW u \in Users, Au!ResetAdmin(u) PROVE FALSE BY <1>1, <1>13 DEF Au!ResetAdmin
<1>14. ASSUME NEW u \in Users, NEW e \in BOOLEAN, NEW r \in {"user", "admin"}, NEW st \in Au!Statuses,
              Au!UpdateUser(u, e, r, st)
       PROVE  FALSE
    BY <1>1, <1>14 DEF Au!UpdateUser
<1>15. ASSUME NEW a \in Users, NEW u \in Users, NEW i \in Invites,
              Au!ReissueInvitation(a, u, i) \/ \E r \in {"user", "admin"} : Au!InviteUser(a, u, i, r)
       PROVE  FALSE
    BY <1>1, <1>15 DEF Au!ReissueInvitation, Au!InviteUser
<1>16. ASSUME NEW a \in Users, NEW m \in MaxUses \cup {None}, NEW on \in BOOLEAN,
              Au!CreateCode(a, m, on) \/ Au!UpdateCode(a, m, on)
       PROVE  FALSE
    BY <1>1, <1>16 DEF Au!CreateCode, Au!UpdateCode
<1>17. CASE Au!Tick BY <1>1, <1>17 DEF Au!Tick
<1>18. CASE Au!vars' = Au!vars BY <1>1, <1>18 DEF Au!vars
<1> QED BY <1>3, <1>4, <1>5, <1>6, <1>7, <1>8, <1>9, <1>10, <1>11, <1>12, <1>13, <1>14, <1>15,
        <1>16, 
       <1>17, <1>18 DEF Au!Next

\* A row that is written for an account that is not deleted by it.
LEMMA WriteDeletesNobody ==
  ASSUME Au!RowsInv, NEW u \in Users, NEW r, user' = [user EXCEPT ![u] = r], ~r.deleted
  PROVE  DeletedStays
BY DEF Au!RowsInv, DeletedStays

\* Only user_soft_delete deletes.
LEMMA Deletions ==
  ASSUME Au!AuthAssumption, Au!AuthInv, [Au!Next]_(Au!vars)
  PROVE  DeletedStays \/ \E c \in Clients, u \in Users : Au!SoftDelete(c, u) /\ Au!DeleteAllowed(u)
<1>0. Au!RowsInv /\ (user' = user => DeletedStays) BY DEF Au!AuthInv, DeletedStays
<1>1. ASSUME NEW d \in Clients, NEW u \in Users, Au!Login(d, u) PROVE DeletedStays
    BY <1>0, <1>1 DEF Au!Login, Au!rows
<1>2. ASSUME NEW d \in Clients, NEW b \in BOOLEAN, Au!LoginVerified(d, b) PROVE DeletedStays
    BY <1>0, <1>2 DEF Au!LoginVerified, Au!rows
<1>3. ASSUME NEW d \in Clients, NEW s \in Sessions, Au!IssueSession(d, s) PROVE DeletedStays
    BY <1>0, <1>3 DEF Au!IssueSession
<1>4. ASSUME NEW d \in Clients, NEW t \in tokens,
             Au!ChangeStart(d, t) \/ Au!IssueStart(d, t) \/ Au!CompleteStart(d, t) \/ Au!DeleteStart(d, t)
      PROVE  DeletedStays
    BY <1>0, <1>4 DEF Au!ChangeStart, Au!IssueStart, Au!CompleteStart, Au!DeleteStart, Au!rows
<1>5. ASSUME NEW u \in Users, user[u].status = "active", Au!Replace(u, Au!WithPassword(user[u]))
      PROVE  DeletedStays
  <2>1. user[u] \in Au!UserRow /\ ~Au!WithPassword(user[u]).deleted /\ Au!WithPassword(user[u]) \in Au!UserRow
      BY <1>5, PasswordFits, WithPasswordIs DEF Au!AuthInv, Au!RowsInv
  <2>2. ~Au!Bumped(Au!WithPassword(user[u])).deleted BY <2>1, BumpedIs
  <2> QED BY <1>0, <1>5, <2>2, WriteDeletesNobody DEF Au!Replace
<1>6. ASSUME NEW d \in Clients, Au!ChangePassword(d) PROVE DeletedStays
  <2>1. client[d].user \in Users BY <1>6, ClientIs DEF Au!ChangePassword, Au!AuthInv,
      Au!VerifiedState
  <2>2. CASE Au!ChangeAllowed(client[d].user)
    <3>1. /\ Au!Replace(client[d].user, Au!WithPassword(user[client[d].user]))
          /\ user[client[d].user].status = "active"
        BY <1>6, <2>2 DEF Au!ChangePassword, Au!ChangeAllowed
    <3>2. PICK u \in Users : u = client[d].user BY <2>1
    <3>3. Au!Replace(u, Au!WithPassword(user[u])) /\ user[u].status = "active" BY <3>1, <3>2
    <3> QED BY <1>5, <3>3
  <2>3. CASE ~Au!ChangeAllowed(client[d].user) BY <1>0, <1>6, <2>3 DEF Au!ChangePassword
  <2> QED BY <2>2, <2>3
<1>7. ASSUME NEW d \in Clients, Au!CompleteTemporaryPassword(d) PROVE DeletedStays
  <2>1. client[d].user \in Users BY <1>7, ClientIs DEF Au!CompleteTemporaryPassword, Au!AuthInv,
      Au!VerifiedState
  <2>2. CASE Au!CompleteAllowed(d)
    <3>1. /\ Au!Replace(client[d].user, Au!WithPassword(user[client[d].user]))
          /\ user[client[d].user].status = "active"
        BY <1>7, <2>2 DEF Au!CompleteTemporaryPassword, Au!CompleteAllowed, Au!Live
    <3>2. PICK u \in Users : u = client[d].user BY <2>1
    <3>3. Au!Replace(u, Au!WithPassword(user[u])) /\ user[u].status = "active" BY <3>1, <3>2
    <3> QED BY <1>5, <3>3
  <2>3. CASE ~Au!CompleteAllowed(d) BY <1>0, <1>7, <2>3 DEF Au!CompleteTemporaryPassword
  <2> QED BY <2>2, <2>3
<1>8. ASSUME NEW d \in Clients, NEW u \in Users, Au!IssueTemporaryPassword(d, u) PROVE DeletedStays
  <2>1. CASE Au!IssueAllowed(d, u)
    <3> DEFINE r == [user[u] EXCEPT !.temporary = now + TempTtl]
    <3>1. user[u] \in Au!UserRow /\ ~user[u].deleted /\ now + TempTtl \in Nat
        BY <2>1, AuthConstants DEF Au!IssueAllowed, Au!AuthInv, Au!RowsInv, Au!GuessInv
    <3>2. r \in Au!UserRow /\ ~r.deleted BY <3>1 DEF Au!UserRow
    <3>3. user' = [user EXCEPT ![u] = Au!Bumped(r)]
        BY <1>8, <2>1 DEF Au!IssueTemporaryPassword, Au!Replace
    <3> HIDE DEF r
    <3>4. ~Au!Bumped(r).deleted BY <3>2, BumpedIs
    <3> QED BY <1>0, <3>3, <3>4, WriteDeletesNobody
  <2>2. CASE ~Au!IssueAllowed(d, u) BY <1>0, <1>8, <2>2 DEF Au!IssueTemporaryPassword
  <2> QED BY <2>1, <2>2
<1>9. ASSUME NEW d \in Clients, NEW u \in Users, Au!Register(d, u) PROVE DeletedStays
  <2>1. ~Au!Row("active", "user", TRUE).deleted BY DEF Au!Row
  <2> QED BY <1>0, <1>9, <2>1, WriteDeletesNobody DEF Au!Register
<1>10. ASSUME NEW d \in Clients, NEW u \in Users, Au!SoftDelete(d, u)
       PROVE  DeletedStays \/ Au!DeleteAllowed(u)
    BY <1>0, <1>10 DEF Au!SoftDelete
<1>11. ASSUME NEW d \in Clients, NEW i \in Invites, Au!AcceptInvitation(d, i) PROVE DeletedStays
  <2>1. invite[i] \in Au!InviteRow /\ invite[i] # None
      BY <1>11 DEF Au!AcceptInvitation, Au!Acceptable, Au!AuthInv, Au!InvitesInv
  <2>2. PICK u \in Users : u = invite[i].user BY <2>1 DEF Au!InviteRow
  <2> DEFINE b == Au!WithPassword(user[u])
             r == [b EXCEPT !.status = "active"]
  <2>3. user[u].status = "invited" /\ user' = [user EXCEPT ![u] = Au!Bumped(r)]
      BY <1>11, <2>2 DEF Au!AcceptInvitation, Au!Acceptable
  <2>4. b \in Au!UserRow /\ ~b.deleted BY <2>3, Unknown, WithPasswordIs DEF Au!AuthInv, Au!RowsInv
  <2> HIDE DEF b
  <2>5. r \in Au!UserRow /\ ~r.deleted BY <2>4 DEF Au!UserRow, Au!Statuses
  <2> HIDE DEF r
  <2>6. ~Au!Bumped(r).deleted BY <2>5, BumpedIs
  <2> QED BY <1>0, <2>3, <2>6, WriteDeletesNobody
<1>12. ASSUME NEW s \in Sessions, NEW n, Au!Refresh(s, n) PROVE DeletedStays
  BY <1>0, <1>12 DEF Au!Refresh
<1>13. ASSUME NEW t \in tokens, NEW S \in SUBSET Sessions, Au!Revoke(t, S) PROVE DeletedStays
    BY <1>0, <1>13 DEF Au!Revoke
<1>14. ASSUME NEW u \in Users, Au!ResetAdmin(u) PROVE DeletedStays
    BY <1>5, <1>14 DEF Au!ResetAdmin, Au!IsAdmin
<1>15. ASSUME NEW u \in Users, NEW e \in BOOLEAN, NEW k \in {"user", "admin"}, NEW st \in Au!Statuses,
              Au!UpdateUser(u, e, k, st)
       PROVE  DeletedStays
  <2> DEFINE b == [user[u] EXCEPT !.role = k]
             r == [b EXCEPT !.status = st]
  <2>1. /\ user[u] \in Au!UserRow /\ ~user[u].deleted
        /\ user' = [user EXCEPT ![u] = Au!Bumped(r)] \/ user' = [user EXCEPT ![u] = r]
      BY <1>15 DEF Au!UpdateUser, Au!AuthInv, Au!RowsInv
  <2>2. b \in Au!UserRow /\ ~b.deleted BY <2>1 DEF Au!UserRow
  <2> HIDE DEF b
  <2>3. r \in Au!UserRow /\ ~r.deleted BY <2>2 DEF Au!UserRow
  <2> HIDE DEF r
  <2>4. ~Au!Bumped(r).deleted BY <2>3, BumpedIs
  <2> QED BY <1>0, <2>1, <2>3, <2>4, WriteDeletesNobody
<1>16. ASSUME NEW a \in Users, NEW u \in Users, NEW i \in Invites, Au!ReissueInvitation(a, u, i)
       PROVE  DeletedStays
  <2> DEFINE r == [user[u] EXCEPT !.status = "invited"]
  <2>1. /\ user[u] \in Au!UserRow /\ Au!AccountSound(u) /\ Au!CanReissue(u)
        /\ user' = [user EXCEPT ![u] = Au!Bumped(r)]
      BY <1>16 DEF Au!ReissueInvitation, Au!Replace, Au!AuthInv, Au!RowsInv
  <2>2. ~user[u].deleted BY <2>1 DEF Au!CanReissue, Au!AccountSound
  <2>3. r \in Au!UserRow /\ ~r.deleted BY <2>1, <2>2 DEF Au!UserRow, Au!Statuses
  <2> HIDE DEF r
  <2>4. ~Au!Bumped(r).deleted BY <2>3, BumpedIs
  <2> QED BY <1>0, <2>1, <2>4, WriteDeletesNobody
<1>17. ASSUME NEW a \in Users, NEW u \in Users, NEW i \in Invites, NEW r \in {"user", "admin"},
              Au!InviteUser(a, u, i, r)
       PROVE  DeletedStays
  <2>1. ~Au!Row("invited", r, FALSE).deleted BY DEF Au!Row
  <2> QED BY <1>0, <1>17, <2>1, WriteDeletesNobody DEF Au!InviteUser
<1>18. ASSUME NEW a \in Users, NEW m \in MaxUses \cup {None}, NEW on \in BOOLEAN,
              Au!CreateCode(a, m, on) \/ Au!UpdateCode(a, m, on)
       PROVE  DeletedStays
    BY <1>0, <1>18 DEF Au!CreateCode, Au!UpdateCode
<1>19. CASE Au!Tick BY <1>0, <1>19 DEF Au!Tick, Au!rows
<1>20. CASE Au!vars' = Au!vars BY <1>0, <1>20 DEF Au!vars
<1> QED
    BY <1>1, <1>2, <1>3, <1>4, <1>6, <1>7, <1>8, <1>9, <1>10, <1>11, <1>12, <1>13, <1>14, <1>15,
       <1>16, <1>17, <1>18, <1>19, <1>20 DEF Au!Next

\* user_soft_delete counts the other administrators in its transaction.
LEMMA OneRemains ==
  ASSUME Au!AuthAssumption, Au!AuthInv, [Au!Next]_(Au!vars) PROVE Au!AdministratorRemains
<1> SUFFICES ASSUME NEW v \in Users, Au!IsAdmin(v), user'[v].deleted
             PROVE  \E a \in Users : Au!IsAdmin(a)'
    BY DEF Au!AdministratorRemains
<1>1. ~DeletedStays BY DEF DeletedStays, Au!IsAdmin
<1>2. PICK c \in Clients, u \in Users : Au!SoftDelete(c, u) /\ Au!DeleteAllowed(u)
  BY <1>1, Deletions
<1>3. \A w \in Users : w # u => user'[w] = user[w]
    BY <1>2 DEF Au!SoftDelete, Au!Replace, Au!AuthInv, Au!RowsInv
<1>4. v = u BY <1>3 DEF Au!IsAdmin
<1>5. PICK a \in Users \ {u} : Au!IsAdmin(a) BY <1>2, <1>4 DEF Au!DeleteAllowed
<1>6. Au!IsAdmin(a)' BY <1>3, <1>5 DEF Au!IsAdmin
<1> QED BY <1>5, <1>6

\* A refresh token is exchanged once, a temporary password is not replaced by a
\* change that was verified before it was issued, and deletions that meet leave an
\* administrator (rotate_session, change_password, user_soft_delete).
THEOREM AccessStepsAlways == Au!AuthAssumption /\ Au!Spec => [][Au!AccessSteps]_(Au!vars)
<1> SUFFICES ASSUME Au!AuthAssumption PROVE Au!Spec => [][Au!AccessSteps]_(Au!vars) OBVIOUS
<1>1. Au!AuthInv /\ [Au!Next]_(Au!vars) => Au!AccessSteps
    BY SpentOnce, TemporaryKept, OneRemains DEF Au!AccessSteps
<1> QED BY <1>1, AuthInvariant, PTL DEF Au!Spec

--------------------
\* Hosted: ConsoleApi, the management API in front of accounts, keys and
\* resources.  The theorems are about the specification of ConsoleApi with
\* its own constants; it shares no state with the components above.

CONSTANTS Admins, Kinds, Acts, MaxWrites, MaxRequests, MaxLogins, Thing

VARIABLES kind, row, sess, form, req, writes, logins, sent

Api == INSTANCE ConsoleApi


\* The constants as the proofs need them.
LEMMA ApiConstants ==
  ASSUME Api!ApiAssumption
  PROVE  Thing \notin Users /\ None \notin Users /\ None \notin Nat /\ None \notin Api!Form
BY DEF Api!ApiAssumption

--------------------
\* The table of routes

Proper(r) ==
  /\ r = [gate |-> r.gate, act |-> r.act, kind |-> r.kind]
  /\ r.gate \in {"session", "full", "admin"}
  /\ r.act = "profile" => r.gate = "full" /\ r.kind = "user"
  /\ r.act = "temporary" => r.gate = "admin" /\ r.kind = "user"
  /\ r.act = "complete" => r.gate = "session" /\ r.kind = "user"
  /\ r.gate = "session" => r.act \in {"logout", "complete"}
  /\ r.gate = "full" => r.kind \in {"user", "api_key"}
  /\ r.act = "create" => r.kind # "user"

\* A route of the table.
LEMMA RouteIs ==
  ASSUME NEW g, NEW k, NEW acts, NEW r \in Api!Route(g, k, acts)
  PROVE  /\ r = [gate |-> r.gate, act |-> r.act, kind |-> r.kind]
         /\ r.gate = g /\ r.kind = k /\ r.act \in acts
BY DEF Api!Route

\* The routes of a managed resource.
LEMMA ManagedProper ==
  ASSUME NEW k, k # "user", NEW r \in Api!Managed(k) \cup Api!Kept(k) \cup Api!Route("admin", k, {"revoke"})
  PROVE  Proper(r)
<1>1. /\ r = [gate |-> r.gate, act |-> r.act, kind |-> r.kind]
      /\ r.gate = "admin" /\ r.kind = k /\ r.act \in {"get", "create", "update", "delete", "revoke"}
  <2>1. CASE r \in Api!Managed(k) BY <2>1, RouteIs DEF Api!Managed
  <2>2. CASE r \in Api!Kept(k) BY <2>2, RouteIs DEF Api!Kept
  <2>3. CASE r \in Api!Route("admin", k, {"revoke"}) BY <2>3, RouteIs
  <2> QED BY <2>1, <2>2, <2>3
<1> QED BY <1>1 DEF Proper

\* Every route of the table is guarded as its handler needs.
LEMMA RoutesProper ==
  ASSUME NEW r \in Api!Routes PROVE Proper(r)
<1>1. CASE r \in Api!PasswordRoutes
  <2>1. /\ r = [gate |-> r.gate, act |-> r.act, kind |-> r.kind]
        /\ r.gate = "session" /\ r.kind = "user" /\ r.act \in {"logout", "complete"}
      BY <1>1, RouteIs DEF Api!PasswordRoutes
  <2> QED BY <2>1 DEF Proper
<1>2. CASE r \in Api!ProfileRoutes
  <2>1. /\ r = [gate |-> r.gate, act |-> r.act, kind |-> r.kind]
        /\ r.gate = "full" /\ r.kind = "user" /\ r.act \in {"get", "profile"}
      BY <1>2, RouteIs DEF Api!ProfileRoutes
  <2> QED BY <2>1 DEF Proper
<1>3. CASE r \in Api!SessionRoutes
  <2>1. /\ r = [gate |-> r.gate, act |-> r.act, kind |-> r.kind]
        /\ r.gate = "full" /\ r.kind = "user" /\ r.act \in {"logout"}
      BY <1>3, RouteIs DEF Api!SessionRoutes
  <2> QED BY <2>1 DEF Proper
<1>4. CASE r \in Api!OwnKeyRoutes
  <2>1. /\ r = [gate |-> r.gate, act |-> r.act, kind |-> r.kind]
        /\ r.gate = "full" /\ r.kind = "api_key"
        /\ r.act \in {"get", "create", "update", "delete", "revoke"}
      BY <1>4, RouteIs DEF Api!OwnKeyRoutes
  <2> QED BY <2>1 DEF Proper
<1>5. CASE r \in Api!UserRoutes
  <2>1. /\ r = [gate |-> r.gate, act |-> r.act, kind |-> r.kind]
        /\ r.gate = "admin" /\ r.kind = "user" /\ r.act \in {"get", "update", "delete", "temporary"}
      BY <1>5, RouteIs DEF Api!UserRoutes
  <2> QED BY <2>1 DEF Proper
<1>6. CASE r \in Api!SettingsRoutes
  <2>1. /\ r = [gate |-> r.gate, act |-> r.act, kind |-> r.kind]
        /\ r.gate = "admin" /\ r.kind = "system_settings" /\ r.act \in {"get", "update"}
      BY <1>6, RouteIs DEF Api!SettingsRoutes
  <2> QED BY <2>1 DEF Proper
<1>7. CASE r \in Api!GroupRoutes \cup Api!CodeRoutes \cup Api!PolicyRoutes \cup Api!ModelRoutes
    BY <1>7, ManagedProper DEF Api!GroupRoutes, Api!CodeRoutes, Api!PolicyRoutes, Api!ModelRoutes
<1>8. CASE r \in Api!KeyRoutes \cup Api!AccessRoutes \cup Api!RoutingGroupRoutes \cup Api!ChannelRoutes
    BY <1>8, ManagedProper DEF Api!KeyRoutes, Api!AccessRoutes, Api!RoutingGroupRoutes,
      Api!ChannelRoutes
<1>9. CASE r \in Api!CapabilityRoutes \cup Api!RuleRoutes \cup Api!CredentialRoutes \cup Api!CodexRoutes
    BY <1>9, ManagedProper DEF Api!CapabilityRoutes, Api!RuleRoutes, Api!CredentialRoutes,
      Api!CodexRoutes
<1>10. CASE r \in Api!ProxyRoutes \cup Api!TemplateRoutes
    BY <1>10, ManagedProper DEF Api!ProxyRoutes, Api!TemplateRoutes
<1> QED BY <1>1, <1>2, <1>3, <1>4, <1>5, <1>6, <1>7, <1>8, <1>9, <1>10 DEF Api!Routes

--------------------
\* Rows and those who hold a version of them

\* A row that is written.
LEMMA StampedIs ==
  ASSUME NEW r \in Api!Row, NEW v \in Nat, writes \in Nat
  PROVE  /\ Api!Stamped(r, v) \in Api!Row /\ Api!Stamped(r, v).ver = v /\ Api!Stamped(r, v).val = writes + 1
         /\ Api!Stamped(r, v).live = r.live /\ Api!Stamped(r, v).owner = r.owner
<1> DEFINE b == [r EXCEPT !.ver = v]
<1>1. b \in Api!Row /\ b.ver = v /\ b.live = r.live /\ b.owner = r.owner BY DEF Api!Row
<1>2. Api!Stamped(r, v) = [b EXCEPT !.val = writes + 1] BY DEF Api!Stamped
<1> HIDE DEF b
<1> QED BY <1>1, <1>2 DEF Api!Row

\* What a request in flight looks like.
LEMMA RequestIs ==
  ASSUME Api!ApiInv, NEW u \in Users
  PROVE  /\ req[u] # Api!NoReq =>
              /\ req[u].step \in Api!Steps /\ req[u].route \in Api!Routes /\ Proper(req[u].route)
              /\ req[u].target \in Api!Targets /\ req[u].target \in Api!AskedOf(req[u].route, u)
              /\ req[u].tag \in Nat \cup {None} /\ req[u].seen \in Nat \cup {None}
         /\ req[u] = Api!NoReq => req[u].step = "idle"
         /\ req[u].step = "sent" => req[u] \in Api!Sent
         /\ req[u].step = "handler" => req[u] \in Api!Handled
         /\ Api!Pending(u) => req[u] \in Api!Begun /\ req[u] # Api!NoReq
<1>1. req[u] \in {Api!NoReq} \cup Api!Sent \cup Api!Handled \cup Api!Begun
  BY DEF Api!ApiInv, Api!ApiTypes
<1>2. CASE req[u] = Api!NoReq BY <1>2 DEF Api!NoReq, Api!Pending
<1>3. CASE req[u] \in Api!Sent
  <2>1. /\ req[u].step = "sent" /\ req[u].route \in Api!Routes /\ req[u].target \in Api!Targets
        /\ req[u].tag \in Nat \cup {None} /\ req[u].seen \in Nat \cup {None}
      BY <1>3 DEF Api!Sent
  <2>2. req[u] # Api!NoReq BY <2>1 DEF Api!NoReq
  <2> QED BY <1>3, <2>1, <2>2, RoutesProper DEF Api!ApiInv, Api!ReqSound, Api!Steps, Api!Pending
<1>4. CASE req[u] \in Api!Handled
  <2>1. /\ req[u].step = "handler" /\ req[u].route \in Api!Routes /\ req[u].target \in Api!Targets
        /\ req[u].tag \in Nat \cup {None} /\ req[u].seen \in Nat \cup {None}
      BY <1>4 DEF Api!Handled
  <2>2. req[u] # Api!NoReq BY <2>1 DEF Api!NoReq
  <2> QED BY <1>4, <2>1, <2>2, RoutesProper DEF Api!ApiInv, Api!ReqSound, Api!Steps, Api!Pending
<1>5. CASE req[u] \in Api!Begun
  <2>1. /\ Api!Pending(u) /\ req[u].route \in Api!Routes /\ req[u].target \in Api!Targets
        /\ req[u].tag \in Nat \cup {None} /\ req[u].seen \in Nat \cup {None}
      BY <1>5 DEF Api!Begun, Api!Pending
  <2>2. req[u] # Api!NoReq BY <2>1 DEF Api!NoReq, Api!Pending
  <2> QED BY <1>5, <2>1, <2>2, RoutesProper DEF Api!ApiInv, Api!ReqSound, Api!Steps, Api!Pending
<1> QED BY <1>1, <1>2, <1>3, <1>4, <1>5

\* What somebody holds agrees with the rows after the step.
AgreesNext(t, tag, val) ==
  /\ tag <= now' /\ val <= writes'
  /\ row'[t].ver = tag <=> row'[t].val = val
HoldersAgree ==
  /\ \A t \in Api!Targets : row'[t].ver <= now' /\ row'[t].val <= writes'
  /\ \A v \in Users : form[v] # None => AgreesNext(form[v].target, form[v].tag, form[v].val)
  /\ \A v \in Users : (req[v] # Api!NoReq /\ req[v].tag # None)
                        => AgreesNext(req[v].target, req[v].tag, req[v].seen)
PendingStays(u) ==
  \A v \in Users : (v # u /\ Api!Pending(v))
                     => req[v].start <= now' /\ row'[req[v].target].ver # req[v].start
DataTypes ==
  /\ row' \in [Api!Targets -> Api!Row] /\ now' \in Nat /\ writes' \in Nat
  /\ sess' \in [Users -> Api!Confinements \cup {"none"}]

\* No row is written; time may pass.
LEMMA NoWrite ==
  ASSUME Api!ApiInv, row' = row, writes' = writes, now' = now \/ now' = now + 1, NEW u \in Users
  PROVE  /\ HoldersAgree /\ PendingStays(u)
         /\ row' \in [Api!Targets -> Api!Row] /\ now' \in Nat /\ writes' \in Nat
<1>1. row \in [Api!Targets -> Api!Row] /\ now \in Nat /\ writes \in Nat
  BY DEF Api!ApiInv, Api!ApiTypes
<1>2. now' \in Nat /\ \A n \in Nat : n <= now => n <= now' BY <1>1
<1>3. \A t \in Api!Targets : row'[t].ver <= now' /\ row'[t].val <= writes'
  <2> SUFFICES ASSUME NEW t \in Api!Targets PROVE row[t].ver <= now' /\ row[t].val <= writes
      OBVIOUS
  <2>1. row[t].ver \in Nat BY <1>1 DEF Api!Row
  <2> QED BY <1>2, <2>1 DEF Api!ApiInv
<1>4. \A v \in Users : form[v] # None => AgreesNext(form[v].target, form[v].tag, form[v].val)
  <2> SUFFICES ASSUME NEW v \in Users, form[v] # None
               PROVE  AgreesNext(form[v].target, form[v].tag, form[v].val)
      OBVIOUS
  <2>1. form[v] \in Api!Form /\ Api!FormSound(v) BY DEF Api!ApiInv, Api!ApiTypes
  <2>2. form[v].tag \in Nat BY <2>1 DEF Api!Form
  <2> QED BY <1>2, <2>1, <2>2 DEF Api!FormSound, Api!Agrees, AgreesNext
<1>5. \A v \in Users : (req[v] # Api!NoReq /\ req[v].tag # None)
                         => AgreesNext(req[v].target, req[v].tag, req[v].seen)
  <2> SUFFICES ASSUME NEW v \in Users, req[v] # Api!NoReq, req[v].tag # None
               PROVE  AgreesNext(req[v].target, req[v].tag, req[v].seen)
      OBVIOUS
  <2>1. req[v].tag \in Nat /\ Api!ReqSound(v) BY RequestIs DEF Api!ApiInv
  <2> QED BY <1>2, <2>1 DEF Api!ReqSound, Api!Agrees, AgreesNext
<1>6. PendingStays(u)
  <2> SUFFICES ASSUME NEW v \in Users, Api!Pending(v)
               PROVE  req[v].start <= now' /\ row[req[v].target].ver # req[v].start
      BY DEF PendingStays
  <2>1. req[v] \in Api!Begun /\ Api!PendingSound(v) BY RequestIs DEF Api!ApiInv
  <2>2. req[v].start \in Nat BY <2>1 DEF Api!Begun
  <2> QED BY <1>2, <2>1, <2>2 DEF Api!PendingSound, Api!Unseen
<1> QED BY <1>1, <1>2, <1>3, <1>4, <1>5, <1>6 DEF HoldersAgree

\* The version that a write gives is the present one or, for a transaction that had
\* begun before, the time at which it began.
Timely(u, t, v) ==
  \/ v = now + 1 /\ now' = now + 1
  \/ t = req[u].target /\ Api!Pending(u) /\ v = req[u].start /\ now' = now

\* Nobody holds the version that a write gives.
LEMMA TimelyIs ==
  ASSUME Api!ApiInv, NEW u \in Users, NEW t \in Api!Targets, NEW v, Timely(u, t, v)
  PROVE  /\ v \in Nat /\ now' \in Nat /\ now <= now' /\ v <= now'
         /\ \A w \in Users : (form[w] # None /\ form[w].target = t) => form[w].tag # v
         /\ \A w \in Users : (req[w] # Api!NoReq /\ req[w].target = t /\ req[w].tag # None)
                               => req[w].tag # v
         /\ \A w \in Users : (w # u /\ Api!Pending(w) /\ req[w].target = t) => req[w].start # v
<1>1. now \in Nat BY DEF Api!ApiInv, Api!ApiTypes
<1>2. CASE v = now + 1 /\ now' = now + 1
  <2>1. \A n \in Nat : n <= now => n # v BY <1>1, <1>2
  <2>2. ASSUME NEW w \in Users, form[w] # None PROVE form[w].tag # v
    <3>1. form[w] \in Api!Form /\ Api!FormSound(w) BY <2>2 DEF Api!ApiInv, Api!ApiTypes
    <3>2. form[w].tag \in Nat /\ form[w].tag <= now
      BY <2>2, <3>1 DEF Api!Form, Api!FormSound, Api!Agrees
    <3> QED BY <2>1, <3>2
  <2>3. ASSUME NEW w \in Users, req[w] # Api!NoReq, req[w].tag # None PROVE req[w].tag # v
    <3>1. req[w].tag \in Nat /\ Api!ReqSound(w) BY <2>3, RequestIs DEF Api!ApiInv
    <3>2. req[w].tag <= now BY <2>3, <3>1 DEF Api!ReqSound, Api!Agrees
    <3> QED BY <2>1, <3>1, <3>2
  <2>4. ASSUME NEW w \in Users, Api!Pending(w) PROVE req[w].start # v
    <3>1. req[w] \in Api!Begun /\ Api!PendingSound(w) BY <2>4, RequestIs DEF Api!ApiInv
    <3>2. req[w].start \in Nat /\ req[w].start <= now
      BY <2>4, <3>1 DEF Api!Begun, Api!PendingSound
    <3> QED BY <2>1, <3>2
  <2> QED BY <1>1, <1>2, <2>2, <2>3, <2>4
<1>3. CASE t = req[u].target /\ Api!Pending(u) /\ v = req[u].start /\ now' = now
  <2>1. req[u] \in Api!Begun /\ Api!PendingSound(u) BY <1>3, RequestIs DEF Api!ApiInv
  <2>2. v \in Nat /\ v <= now /\ Api!Unseen(t, v) BY <1>3, <2>1 DEF Api!Begun, Api!PendingSound
  <2>3. now <= now' BY <1>1, <1>3
  <2>4. \A w \in Users : (w # u /\ Api!Pending(w)) => req[w].start # v
    BY <1>3 DEF Api!ApiInv, Api!StartsDiffer
  <2> QED BY <1>1, <1>3, <2>2, <2>3, <2>4 DEF Api!Unseen
<1> QED BY <1>2, <1>3 DEF Timely

\* A row is written with a version that nobody holds.
Lands(t, r, v) ==
  /\ r.ver = v /\ r.val = writes + 1
  /\ row' = [row EXCEPT ![t] = r] /\ writes' = writes + 1

\* What somebody holds still agrees with the rows after a write.
LEMMA Landed ==
  ASSUME Api!ApiInv, NEW u \in Users, NEW t \in Api!Targets, NEW r \in Api!Row, NEW v, Timely(u, t, v),
         Lands(t, r, v)
  PROVE  /\ HoldersAgree /\ PendingStays(u)
         /\ row' \in [Api!Targets -> Api!Row] /\ now' \in Nat /\ writes' \in Nat
         /\ row'[t] = r
<1>0. /\ r.ver = v /\ r.val = writes + 1
      /\ row' = [row EXCEPT ![t] = r] /\ writes' = writes + 1
    BY DEF Lands
<1>1. row \in [Api!Targets -> Api!Row] /\ now \in Nat /\ writes \in Nat
  BY DEF Api!ApiInv, Api!ApiTypes
<1>2. /\ v \in Nat /\ now' \in Nat /\ now <= now' /\ v <= now'
      /\ \A w \in Users : (form[w] # None /\ form[w].target = t) => form[w].tag # v
      /\ \A w \in Users : (req[w] # Api!NoReq /\ req[w].target = t /\ req[w].tag # None)
                            => req[w].tag # v
      /\ \A w \in Users : (w # u /\ Api!Pending(w) /\ req[w].target = t) => req[w].start # v
    BY TimelyIs
<1>3. /\ row' \in [Api!Targets -> Api!Row] /\ row'[t] = r
      /\ \A x \in Api!Targets : x # t => row'[x] = row[x]
    BY <1>0, <1>1
<1>4. \A n \in Nat : n <= now => n <= now' BY <1>1, <1>2
<1>5. writes' \in Nat /\ \A n \in Nat : n <= writes => n <= writes' /\ n # writes' BY <1>0, <1>1
<1>6. ASSUME NEW x \in Api!Targets, NEW tag \in Nat, NEW val \in Nat, Api!Agrees(x, tag, val),
             x = t => tag # v
      PROVE  AgreesNext(x, tag, val)
  <2>1. tag <= now' /\ val <= writes' /\ val # writes' BY <1>4, <1>5, <1>6 DEF Api!Agrees
  <2>2. CASE x = t BY <1>0, <1>3, <1>6, <2>1, <2>2 DEF AgreesNext
  <2>3. CASE x # t BY <1>3, <1>6, <2>1, <2>3 DEF Api!Agrees, AgreesNext
  <2> QED BY <2>2, <2>3
<1>7. \A x \in Api!Targets : row'[x].ver <= now' /\ row'[x].val <= writes'
  <2> SUFFICES ASSUME NEW x \in Api!Targets PROVE row'[x].ver <= now' /\ row'[x].val <= writes'
      OBVIOUS
  <2>1. CASE x = t
    <3>1. writes' <= writes' BY <1>5
    <3> QED BY <1>0, <1>2, <1>3, <2>1, <3>1
  <2>2. CASE x # t
    <3>1. row[x].ver \in Nat /\ row[x].val \in Nat BY <1>1 DEF Api!Row
    <3>2. row[x].ver <= now /\ row[x].val <= writes BY DEF Api!ApiInv
    <3> QED BY <1>3, <1>4, <1>5, <2>2, <3>1, <3>2
  <2> QED BY <2>1, <2>2
<1>8. \A w \in Users : form[w] # None => AgreesNext(form[w].target, form[w].tag, form[w].val)
  <2> SUFFICES ASSUME NEW w \in Users, form[w] # None
               PROVE  AgreesNext(form[w].target, form[w].tag, form[w].val)
      OBVIOUS
  <2>1. form[w] \in Api!Form /\ Api!FormSound(w) BY DEF Api!ApiInv, Api!ApiTypes
  <2>2. form[w].target \in Api!Targets /\ form[w].tag \in Nat /\ form[w].val \in Nat
    BY <2>1 DEF Api!Form
  <2>3. Api!Agrees(form[w].target, form[w].tag, form[w].val) BY <2>1 DEF Api!FormSound
  <2> QED BY <1>2, <1>6, <2>2, <2>3
<1>9. \A w \in Users : (req[w] # Api!NoReq /\ req[w].tag # None)
                         => AgreesNext(req[w].target, req[w].tag, req[w].seen)
  <2> SUFFICES ASSUME NEW w \in Users, req[w] # Api!NoReq, req[w].tag # None
               PROVE  AgreesNext(req[w].target, req[w].tag, req[w].seen)
      OBVIOUS
  <2>1. /\ req[w].target \in Api!Targets /\ req[w].tag \in Nat /\ req[w].seen \in Nat \cup {None}
        /\ Api!ReqSound(w)
      BY RequestIs DEF Api!ApiInv
  <2>2. req[w].seen \in Nat /\ Api!Agrees(req[w].target, req[w].tag, req[w].seen)
      BY <2>1 DEF Api!ReqSound
  <2> QED BY <1>2, <1>6, <2>1, <2>2
<1>10. PendingStays(u)
  <2> SUFFICES ASSUME NEW w \in Users, w # u, Api!Pending(w)
               PROVE  req[w].start <= now' /\ row'[req[w].target].ver # req[w].start
      BY DEF PendingStays
  <2>1. req[w] \in Api!Begun /\ Api!PendingSound(w) BY RequestIs DEF Api!ApiInv
  <2>2. req[w].start \in Nat /\ req[w].start <= now /\ row[req[w].target].ver # req[w].start
        /\ req[w].target \in Api!Targets
      BY <2>1 DEF Api!Begun, Api!PendingSound, Api!Unseen
  <2>3. row'[req[w].target].ver # req[w].start
    <3>1. CASE req[w].target = t BY <1>0, <1>2, <1>3, <3>1
    <3>2. CASE req[w].target # t BY <1>3, <2>2, <3>2
    <3> QED BY <3>1, <3>2
  <2> QED BY <1>4, <2>2, <2>3
<1> QED BY <1>2, <1>3, <1>5, <1>7, <1>8, <1>9, <1>10 DEF HoldersAgree

--------------------
\* Steps

\* What the other users have stays; their sessions may end.
OthersSame(u) ==
  \A v \in Users : v # u => /\ req'[v] = req[v] /\ form'[v] = form[v]
                            /\ sess'[v] = sess[v] \/ sess'[v] = "none"

\* What a user fetches, sends or begins does not carry the time of a pending write.
FreshTags(u) ==
  \A w \in Users : (w # u /\ Api!Pending(w)) =>
    /\ (form'[u] # None /\ form'[u].target = req[w].target) => form'[u].tag # req[w].start
    /\ (req'[u] # Api!NoReq /\ req'[u].target = req[w].target) => req'[u].tag # req[w].start
    /\ Api!Pending(u)' => req'[u].start # req[w].start

\* What one user does leaves the others as they were.
LEMMA StepKeeps ==
  ASSUME Api!ApiInv, NEW u \in Users, Api!ApiTypes', Api!AnswerIsTrue', HoldersAgree, PendingStays(u),
         OthersSame(u), FreshTags(u),
         Api!FormSound(u)', Api!ReqSound(u)', Api!HandlerSound(u)', Api!PendingSound(u)'
  PROVE  Api!ApiInv'
<1>1. ASSUME NEW v \in Users, v # u PROVE Api!FormSound(v)' /\ Api!ReqSound(v)' /\ Api!HandlerSound(v)'
  <2>1. req'[v] = req[v] /\ form'[v] = form[v] /\ (sess'[v] = sess[v] \/ sess'[v] = "none")
      BY <1>1 DEF OthersSame
  <2>2. Api!FormSound(v)' BY <2>1 DEF HoldersAgree, Api!FormSound, Api!Agrees, AgreesNext
  <2>3. Api!ReqSound(v)'
    <3> SUFFICES ASSUME req[v] # Api!NoReq
                 PROVE  /\ req[v].target \in Api!AskedOf(req[v].route, v)
                        /\ req[v].tag # None =>
                             /\ req[v].seen # None
                             /\ AgreesNext(req[v].target, req[v].tag, req[v].seen)
        BY <2>1 DEF Api!ReqSound, Api!Agrees, AgreesNext, Api!AskedOf
    <3>1. Api!ReqSound(v) BY DEF Api!ApiInv
    <3> QED BY <3>1 DEF Api!ReqSound, HoldersAgree
  <2>4. Api!HandlerSound(v) BY DEF Api!ApiInv
  <2>5. Api!HandlerSound(v)' BY <2>1, <2>4 DEF Api!HandlerSound, Api!Pending
  <2> QED BY <2>2, <2>3, <2>5
<1>2. ASSUME NEW v \in Users, v # u PROVE Api!PendingSound(v)'
  <2>1. req'[v] = req[v] BY <1>2 DEF OthersSame
  <2> DEFINE t == req[v].target
  <2> SUFFICES ASSUME Api!Pending(v)
               PROVE  /\ req[v].route.act = req[v].step /\ req[v].start <= now'
                      /\ row'[t].ver # req[v].start
                      /\ \A w \in Users :
                           /\ (form'[w] # None /\ form'[w].target = t) => form'[w].tag # req[v].start
                           /\ (req'[w] # Api!NoReq /\ req'[w].target = t) => req'[w].tag # req[v].start
                      /\ req[v].step = "temporary" => t # v
      BY <2>1 DEF Api!PendingSound, Api!Unseen, Api!Pending
  <2>2. Api!PendingSound(v) BY DEF Api!ApiInv
  <2>3. req[v].route.act = req[v].step /\ (req[v].step = "temporary" => t # v)
      BY <2>2 DEF Api!PendingSound
  <2>4. req[v].start <= now' /\ row'[t].ver # req[v].start BY <1>2 DEF PendingStays
  <2>5. \A w \in Users : w # u =>
          /\ (form'[w] # None /\ form'[w].target = t) => form'[w].tag # req[v].start
          /\ (req'[w] # Api!NoReq /\ req'[w].target = t) => req'[w].tag # req[v].start
      BY <2>2 DEF Api!PendingSound, Api!Unseen, OthersSame
  <2> QED BY <1>2, <2>3, <2>4, <2>5 DEF FreshTags
<1>3. \A v \in Users : Api!FormSound(v)' /\ Api!ReqSound(v)' /\ Api!HandlerSound(v)' /\ Api!PendingSound(v)'
    BY <1>1, <1>2
<1>4. \A t \in Api!Targets : (row[t].ver <= now /\ row[t].val <= writes)' BY DEF HoldersAgree
<1>5. Api!StartsDiffer'
  <2> SUFFICES ASSUME NEW v \in Users, NEW w \in Users, v # w, Api!Pending(v)', Api!Pending(w)'
               PROVE  req'[v].start # req'[w].start
      BY DEF Api!StartsDiffer
  <2>1. \A x \in Users : x # u => req'[x] = req[x] /\ (Api!Pending(x)' => Api!Pending(x))
      BY DEF OthersSame, Api!Pending
  <2>2. CASE v # u /\ w # u BY <2>1, <2>2 DEF Api!ApiInv, Api!StartsDiffer
  <2>3. CASE v = u BY <2>1, <2>3 DEF FreshTags
  <2>4. CASE w = u BY <2>1, <2>4 DEF FreshTags
  <2> QED BY <2>2, <2>3, <2>4
<1> QED BY <1>3, <1>4, <1>5 DEF Api!ApiInv, Api!Targets

\* A request is answered.
Answers(status, did, act) ==
  /\ status \in 400..499 => ~did
  /\ status \in {200, 201} /\ act # "get" => did

\* A request is answered.
LEMMA ReplyKeeps ==
  ASSUME Api!ApiInv, NEW u \in Users, NEW status, NEW did, Api!Reply(u, status, did),
         Answers(status, did, req[u].route.act), form' = form, HoldersAgree, PendingStays(u),
         row' \in [Api!Targets -> Api!Row], now' \in Nat, writes' \in Nat,
         sess' \in [Users -> Api!Confinements \cup {"none"}],
         \A v \in Users : v # u => (sess'[v] = sess[v] \/ sess'[v] = "none")
  PROVE  Api!ApiInv'
<1>1. /\ req' = [req EXCEPT ![u] = Api!NoReq]
      /\ answer' = [user |-> u, status |-> status, did |-> did, act |-> req[u].route.act]
    BY DEF Api!Reply
<1>2. /\ req \in [Users -> {Api!NoReq} \cup Api!Sent \cup Api!Handled \cup Api!Begun]
      /\ form \in [Users -> Api!Form \cup {None}]
    BY DEF Api!ApiInv, Api!ApiTypes
<1>3. /\ req' \in [Users -> {Api!NoReq} \cup Api!Sent \cup Api!Handled \cup Api!Begun] /\ req'[u] = Api!NoReq
      /\ \A v \in Users : v # u => req'[v] = req[v]
    BY <1>1, <1>2
<1>4. Api!ApiTypes'
    BY <1>2, <1>3 DEF Api!ApiTypes, Api!Row, Api!Confinements, Api!Form, Api!Targets, Api!NoReq,
      Api!Sent, Api!Handled, Api!Begun
<1>5. Api!AnswerIsTrue' BY <1>1 DEF Api!AnswerIsTrue, Answers
<1>6. OthersSame(u) BY <1>3 DEF OthersSame
<1>7. FreshTags(u)
  <2>2. ~Api!Pending(u)' BY <1>3 DEF Api!Pending, Api!NoReq
  <2> SUFFICES ASSUME NEW w \in Users, Api!Pending(w), form[u] # None,
                      form[u].target = req[w].target
               PROVE  form[u].tag # req[w].start
      BY <1>3, <2>2 DEF FreshTags
  <2>1. Api!PendingSound(w) BY DEF Api!ApiInv
  <2> QED BY <2>1 DEF Api!PendingSound, Api!Unseen
<1>8. Api!FormSound(u)' BY DEF HoldersAgree, Api!FormSound, Api!Agrees, AgreesNext
<1>9. Api!ReqSound(u)' /\ Api!HandlerSound(u)' /\ Api!PendingSound(u)'
    BY <1>3 DEF Api!ReqSound, Api!HandlerSound, Api!PendingSound, Api!Pending, Api!NoReq
<1> QED BY <1>4, <1>5, <1>6, <1>7, <1>8, <1>9, StepKeeps

\* What a user already has does not carry the time of a pending write.
LEMMA OldTags ==
  ASSUME Api!ApiInv, NEW u \in Users, NEW w \in Users, Api!Pending(w)
  PROVE  /\ req[w].start \in Nat /\ req[w].start <= now /\ row[req[w].target].ver # req[w].start
         /\ (form[u] # None /\ form[u].target = req[w].target) => form[u].tag # req[w].start
         /\ (req[u] # Api!NoReq /\ req[u].target = req[w].target) => req[u].tag # req[w].start
<1>1. Api!PendingSound(w) /\ req[w] \in Api!Begun BY RequestIs DEF Api!ApiInv
<1>2. req[w].start \in Nat BY <1>1 DEF Api!Begun
<1> QED BY <1>1, <1>2 DEF Api!PendingSound, Api!Unseen

\* login
LEMMA LoginApi ==
  ASSUME Api!ApiInv, NEW u \in Users, Api!Login(u) PROVE Api!ApiInv'
<1> DEFINE p == IF row[u].temp THEN "password_change" ELSE "normal"
<1>1. /\ req[u] = Api!NoReq /\ sess' = [sess EXCEPT ![u] = p] /\ answer' = None
      /\ UNCHANGED <<row, form, req, now, writes>>
    BY DEF Api!Login, Api!Silent
<1>2. p \in Api!Confinements BY DEF Api!Confinements
<1> HIDE DEF p
<1>3. HoldersAgree /\ PendingStays(u) BY <1>1, NoWrite
<1>4. /\ row \in [Api!Targets -> Api!Row] /\ now \in Nat /\ writes \in Nat
      /\ sess \in [Users -> Api!Confinements \cup {"none"}] /\ form \in [Users -> Api!Form \cup {None}]
      /\ req \in [Users -> {Api!NoReq} \cup Api!Sent \cup Api!Handled \cup Api!Begun]
    BY DEF Api!ApiInv, Api!ApiTypes
<1>5. sess' \in [Users -> Api!Confinements \cup {"none"}] /\ \A v \in Users : v # u => sess'[v] = sess[v]
    BY <1>1, <1>2, <1>4
<1>6. Api!ApiTypes'
    BY <1>1, <1>4, <1>5 DEF Api!ApiTypes, Api!Row, Api!Confinements, Api!Form, Api!Targets,
      Api!NoReq, Api!Sent, Api!Handled, Api!Begun
<1>7. Api!AnswerIsTrue' BY <1>1 DEF Api!AnswerIsTrue
<1>8. OthersSame(u) BY <1>1, <1>5 DEF OthersSame
<1>12. ~Api!Pending(u)' BY <1>1 DEF Api!Pending, Api!NoReq
<1>9. FreshTags(u) BY <1>1, <1>12, OldTags DEF FreshTags
<1>10. Api!FormSound(u)' BY <1>1, <1>3 DEF HoldersAgree, Api!FormSound, Api!Agrees, AgreesNext
<1>11. Api!ReqSound(u)' /\ Api!HandlerSound(u)' /\ Api!PendingSound(u)'
    BY <1>1 DEF Api!ReqSound, Api!HandlerSound, Api!PendingSound, Api!Pending, Api!NoReq
<1> QED BY <1>3, <1>6, <1>7, <1>8, <1>9, <1>10, <1>11, StepKeeps

\* The browser sends a request.
LEMMA SendKeeps ==
  ASSUME Api!ApiAssumption, Api!ApiInv, NEW u \in Users, NEW r \in Api!Routes, NEW t \in Api!Targets, Api!Send(u, r, t)
  PROVE  Api!ApiInv'
<1> DEFINE g == IF form[u] # None /\ Api!Tagged(r)
                  THEN IF form[u].target = t THEN form[u].tag ELSE None
                  ELSE None
           s == IF form[u] = None THEN None ELSE
                  IF form[u].target = t THEN form[u].val ELSE None
           q == [step |-> "sent", route |-> r, target |-> t, tag |-> g, seen |-> s]
<1>1. /\ req[u] = Api!NoReq /\ t \in Api!AskedOf(r, u) /\ req' = [req EXCEPT ![u] = q] /\ answer' = None
      /\ UNCHANGED <<row, sess, form, now, writes>>
    BY DEF Api!Send, Api!Silent
<1>2. form[u] # None => form[u] \in Api!Form /\ form[u].tag \in Nat /\ form[u].val \in Nat
    BY DEF Api!ApiInv, Api!ApiTypes, Api!Form
<1>3. g \in Nat \cup {None} /\ s \in Nat \cup {None} BY <1>2
<1>4. g # None => form[u] # None /\ form[u].target = t /\ g = form[u].tag /\ s = form[u].val
    OBVIOUS
<1> HIDE DEF g, s
<1>5. /\ q \in Api!Sent /\ q # Api!NoReq /\ q.step = "sent" /\ q.route = r /\ q.target = t /\ q.tag = g
      /\ q.seen = s
    BY <1>3 DEF Api!Sent, Api!NoReq
<1> HIDE DEF q
<1>6. HoldersAgree /\ PendingStays(u) BY <1>1, NoWrite
<1>7. /\ row \in [Api!Targets -> Api!Row] /\ now \in Nat /\ writes \in Nat
      /\ sess \in [Users -> Api!Confinements \cup {"none"}] /\ form \in [Users -> Api!Form \cup {None}]
      /\ req \in [Users -> {Api!NoReq} \cup Api!Sent \cup Api!Handled \cup Api!Begun]
    BY DEF Api!ApiInv, Api!ApiTypes
<1>8. /\ req' \in [Users -> {Api!NoReq} \cup Api!Sent \cup Api!Handled \cup Api!Begun] /\ req'[u] = q
      /\ \A v \in Users : v # u => req'[v] = req[v]
    BY <1>1, <1>5, <1>7
<1>9. Api!ApiTypes'
  <2>1. UNCHANGED <<row, sess, form, now, writes>> BY <1>1
  <2> QED BY <1>7, <1>8, <2>1 DEF Api!ApiTypes
<1>10. Api!AnswerIsTrue' BY <1>1 DEF Api!AnswerIsTrue
<1>11. OthersSame(u) BY <1>1, <1>8 DEF OthersSame
<1>12. FreshTags(u)
  <2>2. ~Api!Pending(u)' BY <1>5, <1>8 DEF Api!Pending
  <2> SUFFICES ASSUME NEW w \in Users, Api!Pending(w)
               PROVE  /\ (form[u] # None /\ form[u].target = req[w].target) => form[u].tag # req[w].start
                      /\ t = req[w].target => g # req[w].start
      BY <1>1, <1>5, <1>8, <2>2 DEF FreshTags
  <2>1. /\ req[w].start \in Nat
        /\ (form[u] # None /\ form[u].target = req[w].target) => form[u].tag # req[w].start
      BY OldTags
  <2> QED BY <1>4, <2>1, ApiConstants
<1>13. Api!FormSound(u)' BY <1>1, <1>6 DEF HoldersAgree, Api!FormSound, Api!Agrees, AgreesNext
<1>14. Api!ReqSound(u)'
  <2> SUFFICES ASSUME g # None PROVE s # None /\ AgreesNext(t, g, s)
      BY <1>1, <1>5, <1>8 DEF Api!ReqSound, Api!Agrees, AgreesNext, Api!AskedOf
  <2>1. s # None BY <1>2, <1>4, ApiConstants
  <2> QED BY <1>4, <1>6, <2>1 DEF HoldersAgree
<1>15. Api!HandlerSound(u)' /\ Api!PendingSound(u)'
  BY <1>5, <1>8 DEF Api!HandlerSound, Api!PendingSound, Api!Pending
<1> QED BY <1>6, <1>9, <1>10, <1>11, <1>12, <1>13, <1>14, <1>15, StepKeeps

\* A request goes on with what it carries.
LEMMA GoesOn ==
  ASSUME Api!ApiInv, NEW u \in Users, req[u] # Api!NoReq, NEW q \in Api!Handled \cup Api!Begun,
         req' = [req EXCEPT ![u] = q], q # Api!NoReq, q.route = req[u].route, q.target = req[u].target,
         q.tag = req[u].tag, q.seen = req[u].seen, answer' = None,
         row' = row, writes' = writes, form' = form, sess' = sess,
         now' = now \/ now' = now + 1,
         sess[u] = q.purpose \/ sess[u] = "none",
         q.route.gate # "session" => q.purpose = "normal",
         Api!Pending(u)' => q.start = now + 1, Api!PendingSound(u)'
  PROVE  Api!ApiInv'
<1>1. HoldersAgree /\ PendingStays(u) /\ now' \in Nat BY NoWrite
<1>2. /\ row \in [Api!Targets -> Api!Row] /\ writes \in Nat
      /\ sess \in [Users -> Api!Confinements \cup {"none"}] /\ form \in [Users -> Api!Form \cup {None}]
      /\ req \in [Users -> {Api!NoReq} \cup Api!Sent \cup Api!Handled \cup Api!Begun]
    BY DEF Api!ApiInv, Api!ApiTypes
<1>3. /\ req' \in [Users -> {Api!NoReq} \cup Api!Sent \cup Api!Handled \cup Api!Begun] /\ req'[u] = q
      /\ \A v \in Users : v # u => req'[v] = req[v]
    BY <1>2
<1>4. Api!ApiTypes' BY <1>1, <1>2, <1>3 DEF Api!ApiTypes
<1>5. Api!AnswerIsTrue' BY DEF Api!AnswerIsTrue
<1>6. OthersSame(u) BY <1>3 DEF OthersSame
<1>7. FreshTags(u)
  <2> SUFFICES ASSUME NEW w \in Users, w # u, Api!Pending(w)
               PROVE  /\ (form[u] # None /\ form[u].target = req[w].target) => form[u].tag # req[w].start
                      /\ req[u].target = req[w].target => req[u].tag # req[w].start
                      /\ now + 1 # req[w].start
      BY <1>3 DEF FreshTags
  <2>1. now \in Nat BY DEF Api!ApiInv, Api!ApiTypes
  <2> QED BY <2>1, OldTags
<1>8. Api!FormSound(u)' BY <1>1 DEF HoldersAgree, Api!FormSound, Api!Agrees, AgreesNext
<1>9. Api!ReqSound(u)'
  <2> SUFFICES /\ req[u].target \in Api!AskedOf(req[u].route, u)
               /\ req[u].tag # None =>
                    req[u].seen # None /\ AgreesNext(req[u].target, req[u].tag, req[u].seen)
      BY <1>3 DEF Api!ReqSound, Api!Agrees, AgreesNext, Api!AskedOf
  <2>1. Api!ReqSound(u) BY DEF Api!ApiInv
  <2> QED BY <1>1, <2>1 DEF Api!ReqSound, HoldersAgree
<1>10. Api!HandlerSound(u)' BY <1>3 DEF Api!HandlerSound, Api!Pending
<1> QED BY <1>1, <1>4, <1>5, <1>6, <1>7, <1>8, <1>9, <1>10, StepKeeps

\* The layers refuse with 401 or 403, or let the request on.
LEMMA RefusalIs ==
  ASSUME NEW u \in Users PROVE Api!Refusal(u) \in {0, 401, 403}
BY DEF Api!Refusal

\* authenticate, require_full_session and require_admin.
LEMMA AuthenticateKeeps ==
  ASSUME Api!ApiInv, NEW u \in Users, Api!Authenticate(u) PROVE Api!ApiInv'
<1>1. /\ req[u].step = "sent" /\ UNCHANGED <<row, sess, form, now, writes>>
      /\ IF Api!Refusal(u) # 0 THEN Api!Reply(u, Api!Refusal(u), FALSE)
         ELSE /\ req' = [req EXCEPT ![u] = [step |-> "handler",
                   route |-> req[u].route, target |-> req[u].target, tag |-> req[u].tag,
                   seen |-> req[u].seen, purpose |-> sess[u]]]
              /\ answer' = None
    BY DEF Api!Authenticate, Api!Silent
<1>2. HoldersAgree /\ PendingStays(u) BY <1>1, NoWrite
<1>3. /\ row \in [Api!Targets -> Api!Row] /\ now \in Nat /\ writes \in Nat
      /\ sess \in [Users -> Api!Confinements \cup {"none"}]
    BY DEF Api!ApiInv, Api!ApiTypes
<1>4. CASE Api!Refusal(u) # 0
  <2>1. Api!Refusal(u) \notin {200, 201} BY RefusalIs
  <2>2. Answers(Api!Refusal(u), FALSE, req[u].route.act) BY <2>1 DEF Answers
  <2>3. Api!Reply(u, Api!Refusal(u), FALSE) BY <1>1, <1>4
  <2> QED BY <1>1, <1>2, <1>3, <2>2, <2>3, ReplyKeeps
<1>5. CASE Api!Refusal(u) = 0
  <2> DEFINE k == req[u].route
             t == req[u].target
             g == req[u].tag
             s == req[u].seen
             p == sess[u]
             q == [step |-> "handler", route |-> k, target |-> t, tag |-> g, seen |-> s,
                   purpose |-> p]
  <2>1. req' = [req EXCEPT ![u] = q] /\ answer' = None BY <1>1, <1>5
  <2>2. req[u] # Api!NoReq /\ req[u] \in Api!Sent BY <1>1, RequestIs DEF Api!NoReq
  <2>3. Proper(k) BY <2>2, RequestIs
  <2>4. p # "none" /\ (k.gate \in {"full", "admin"} => p = "normal") BY <1>5 DEF Api!Refusal
  <2>5. p \in Api!Confinements BY <1>3, <2>4
  <2>6. k.gate # "session" => p = "normal" BY <2>3, <2>4 DEF Proper
  <2>7. k \in Api!Routes /\ t \in Api!Targets /\ g \in Nat \cup {None} /\ s \in Nat \cup {None}
      BY <2>2 DEF Api!Sent
  <2>11. k = req[u].route /\ t = req[u].target /\ g = req[u].tag /\ s = req[u].seen /\ p = sess[u]
      OBVIOUS
  <2> HIDE DEF k, t, g, s, p
  <2>8. q \in Api!Handled BY <2>5, <2>7 DEF Api!Handled
  <2>9. /\ q # Api!NoReq /\ q.step = "handler" /\ q.route = k /\ q.target = t /\ q.tag = g /\ q.seen = s
        /\ q.purpose = p
      BY DEF Api!NoReq
  <2> HIDE DEF q
  <2>10. Api!PendingSound(u)'
    <3>1. req'[u] = q BY <2>1 DEF Api!ApiInv, Api!ApiTypes
    <3> QED BY <2>9, <3>1 DEF Api!PendingSound, Api!Pending
  <2>14. ~Api!Pending(u)' BY <2>1, <2>9 DEF Api!ApiInv, Api!ApiTypes, Api!Pending
  <2>12. q.route.gate # "session" => q.purpose = "normal" BY <2>6, <2>9
  <2>13. q.route = req[u].route /\ q.target = req[u].target /\ q.tag = req[u].tag
         /\ q.seen = req[u].seen /\ sess[u] = q.purpose /\ q \in Api!Handled \cup Api!Begun
      BY <2>8, <2>9, <2>11
  <2> QED BY <1>1, <2>1, <2>2, <2>9, <2>10, <2>12, <2>13, <2>14, GoesOn
<1> QED BY <1>4, <1>5

\* A transaction begins.
LEMMA BeginKeeps ==
  ASSUME Api!ApiAssumption, Api!ApiInv, NEW u \in Users, NEW z \in {"profile", "temporary"},
         Api!At(u, {z}), Api!Begin(u, z), z = "temporary" => req[u].target # u,
         UNCHANGED <<row, sess, form, writes>>
  PROVE  Api!ApiInv'
<1> DEFINE k == req[u].route
           t == req[u].target
           g == req[u].tag
           s == req[u].seen
           p == req[u].purpose
           n == now + 1
           q == [step |-> z, start |-> n, route |-> k, target |-> t, tag |-> g, seen |-> s,
                 purpose |-> p]
<1>1. /\ req[u].step = "handler" /\ k.act = z /\ req' = [req EXCEPT ![u] = q]
      /\ answer' = None /\ now' = now + 1 /\ UNCHANGED <<row, sess, form, writes>>
    BY DEF Api!Begin, Api!At, Api!Silent
<1>2. req[u] # Api!NoReq /\ req[u] \in Api!Handled BY <1>1, RequestIs DEF Api!NoReq
<1>3. now \in Nat /\ n \in Nat BY DEF Api!ApiInv, Api!ApiTypes
<1>4. /\ k \in Api!Routes /\ t \in Api!Targets /\ g \in Nat \cup {None} /\ s \in Nat \cup {None}
      /\ p \in Api!Confinements
    BY <1>2 DEF Api!Handled
<1>5. k = req[u].route /\ t = req[u].target /\ g = req[u].tag /\ s = req[u].seen
      /\ p = req[u].purpose /\ n = now + 1
    OBVIOUS
<1> HIDE DEF k, t, g, s, p, n
<1>6. q \in Api!Begun BY <1>3, <1>4 DEF Api!Begun
<1>7. /\ q # Api!NoReq /\ q.step = z /\ q.route = k /\ q.target = t /\ q.tag = g /\ q.seen = s
      /\ q.purpose = p /\ q.start = n
    BY DEF Api!NoReq
<1> HIDE DEF q
<1>8. req'[u] = q /\ \A w \in Users : w # u => req'[w] = req[w]
  BY <1>1 DEF Api!ApiInv, Api!ApiTypes
<1>9. Timely(u, t, n) BY <1>1, <1>5 DEF Timely
<1>10. /\ \A w \in Users : (form[w] # None /\ form[w].target = t) => form[w].tag # n
       /\ \A w \in Users : (req[w] # Api!NoReq /\ req[w].target = t /\ req[w].tag # None)
                             => req[w].tag # n
    BY <1>4, <1>9, TimelyIs
<1>11. row[t].ver # n
  <2>2. row[t].ver \in Nat /\ row[t].ver <= now BY <1>4 DEF Api!ApiInv, Api!ApiTypes, Api!Row
  <2> QED BY <1>3, <1>5, <2>2
<1>12. n # None BY <1>3, ApiConstants
<1>13. \A w \in Users : /\ (form'[w] # None /\ form'[w].target = t) => form'[w].tag # n
                        /\ (req'[w] # Api!NoReq /\ req'[w].target = t) => req'[w].tag # n
  <2> SUFFICES ASSUME NEW w \in Users
               PROVE  /\ (form[w] # None /\ form[w].target = t) => form[w].tag # n
                      /\ (req'[w] # Api!NoReq /\ req'[w].target = t) => req'[w].tag # n
      BY <1>1
  <2>1. (req[w] # Api!NoReq /\ req[w].target = t) => req[w].tag # n BY <1>10, <1>12
  <2>2. CASE w = u BY <1>2, <1>5, <1>7, <1>8, <1>10, <2>1, <2>2
  <2>3. CASE w # u BY <1>8, <1>10, <2>1, <2>3
  <2> QED BY <2>2, <2>3
<1>14. Api!PendingSound(u)'
  <2>1. n <= now' BY <1>1, <1>3, <1>5
  <2> QED BY <1>1, <1>5, <1>7, <1>8, <1>11, <1>13, <2>1 DEF Api!PendingSound, Api!Unseen,
      Api!Pending
<1>15. Api!HandlerSound(u) BY DEF Api!ApiInv
<1>16. /\ sess[u] = q.purpose \/ sess[u] = "none"
       /\ q.route.gate # "session" => q.purpose = "normal"
    BY <1>1, <1>5, <1>7, <1>15 DEF Api!HandlerSound
<1>17. q.route = req[u].route /\ q.target = req[u].target /\ q.tag = req[u].tag
       /\ q.seen = req[u].seen /\ q \in Api!Handled \cup Api!Begun
    BY <1>5, <1>6, <1>7
<1>18. q.start = now + 1 BY <1>5, <1>7
<1> QED BY <1>1, <1>2, <1>7, <1>14, <1>16, <1>17, <1>18, GoesOn

\* update_me, the start of the statement.
LEMMA ProfileStartKeeps ==
  ASSUME Api!ApiAssumption, Api!ApiInv, NEW u \in Users, Api!ProfileStart(u) PROVE Api!ApiInv'
BY BeginKeeps DEF Api!ProfileStart

\* get_resource and its like.
LEMMA GetKeeps ==
  ASSUME Api!ApiAssumption, Api!ApiInv, NEW u \in Users, Api!Get(u) PROVE Api!ApiInv'
<1>1. /\ req[u].step = "handler" /\ req[u].route.act = "get"
      /\ UNCHANGED <<row, sess, now, writes>>
    BY DEF Api!Get, Api!At
<1>2. req[u] # Api!NoReq /\ req[u].target \in Api!Targets BY <1>1, RequestIs DEF Api!NoReq
<1>3. PICK t \in Api!Targets : t = req[u].target BY <1>2
<1> DEFINE g == row[t].ver
           s == row[t].val
           f == [target |-> t, tag |-> g, val |-> s]
<1>4. IF Api!Visible(u, t) THEN Api!Reply(u, 200, FALSE) /\ form' = [form EXCEPT ![u] = f]
      ELSE Api!Reply(u, 404, FALSE) /\ UNCHANGED form
    BY <1>3 DEF Api!Get, Api!etag
<1>5. HoldersAgree /\ PendingStays(u) BY <1>1, NoWrite
<1>6. /\ row \in [Api!Targets -> Api!Row] /\ now \in Nat /\ writes \in Nat
      /\ sess \in [Users -> Api!Confinements \cup {"none"}] /\ form \in [Users -> Api!Form \cup {None}]
      /\ req \in [Users -> {Api!NoReq} \cup Api!Sent \cup Api!Handled \cup Api!Begun]
    BY DEF Api!ApiInv, Api!ApiTypes
<1>7. CASE ~Api!Visible(u, t)
  <2>1. Answers(404, FALSE, req[u].route.act) BY DEF Answers
  <2> QED BY <1>1, <1>4, <1>5, <1>6, <1>7, <2>1, ReplyKeeps
<1>8. CASE Api!Visible(u, t)
  <2>1. /\ req' = [req EXCEPT ![u] = Api!NoReq] /\ form' = [form EXCEPT ![u] = f]
        /\ answer' = [user |-> u, status |-> 200, did |-> FALSE, act |-> "get"]
      BY <1>1, <1>4, <1>8 DEF Api!Reply
  <2>2. g \in Nat /\ s \in Nat BY <1>6 DEF Api!Row
  <2>3. g <= now /\ s <= writes BY DEF Api!ApiInv
  <2>9. g = row[t].ver /\ s = row[t].val OBVIOUS
  <2> HIDE DEF g, s
  <2>4. f \in Api!Form /\ f.target = t /\ f.tag = g /\ f.val = s BY <2>2 DEF Api!Form
  <2> HIDE DEF f
  <2>5. /\ req' \in [Users -> {Api!NoReq} \cup Api!Sent \cup Api!Handled \cup Api!Begun] /\ req'[u] = Api!NoReq
        /\ \A v \in Users : v # u => req'[v] = req[v]
        /\ form' \in [Users -> Api!Form \cup {None}] /\ form'[u] = f
        /\ \A v \in Users : v # u => form'[v] = form[v]
      BY <1>6, <2>1, <2>4
  <2>6. Api!ApiTypes'
    <3>1. UNCHANGED <<row, sess, now, writes>> BY <1>1
    <3> QED BY <1>6, <2>5, <3>1 DEF Api!ApiTypes
  <2>7. Api!AnswerIsTrue' BY <2>1 DEF Api!AnswerIsTrue
  <2>8. OthersSame(u) BY <1>1, <2>5 DEF OthersSame
  <2>10. FreshTags(u)
    <3>1. ~Api!Pending(u)' BY <2>5 DEF Api!Pending, Api!NoReq
    <3> SUFFICES ASSUME NEW w \in Users, Api!Pending(w), t = req[w].target PROVE g # req[w].start
        BY <2>4, <2>5, <3>1 DEF FreshTags
    <3> QED BY <2>9, OldTags
  <2>11. Api!FormSound(u)' BY <1>1, <2>3, <2>4, <2>5, <2>9 DEF Api!FormSound, Api!Agrees
  <2>12. Api!ReqSound(u)' /\ Api!HandlerSound(u)' /\ Api!PendingSound(u)'
      BY <2>5 DEF Api!ReqSound, Api!HandlerSound, Api!PendingSound, Api!Pending, Api!NoReq
  <2> QED BY <1>5, <2>6, <2>7, <2>8, <2>10, <2>11, <2>12, StepKeeps
<1> QED BY <1>7, <1>8

\* The row that a mutation leaves.
LEMMA WrittenIs ==
  ASSUME Api!ApiAssumption, Api!ApiInv, NEW u \in Users, req[u] # Api!NoReq, NEW to \in Api!Choices(u)
  PROVE  /\ Api!Written(u, to) \in Api!Row /\ Api!Written(u, to).ver = now + 1
         /\ Api!Written(u, to).val = writes + 1
         /\ req[u].route.act = "create" /\ req[u].route.kind = "api_key"
              /\ req[u].route.gate = "full" => Api!Written(u, to).owner = u
         /\ req[u].route.act # "create" => Api!Written(u, to).owner = row[req[u].target].owner
<1>1. PICK t \in Api!Targets : t = req[u].target BY RequestIs
<1> DEFINE r == req[u].route
           f == Api!Stamped(row[t], now + 1)
           o == IF r.kind # "api_key" THEN None ELSE IF r.gate = "full" THEN u ELSE to
<1>2. now \in Nat /\ now + 1 \in Nat /\ writes \in Nat /\ row[t] \in Api!Row
  BY DEF Api!ApiInv, Api!ApiTypes
<1>3. /\ f \in Api!Row /\ f.ver = now + 1 /\ f.val = writes + 1 /\ f.owner = row[t].owner
    BY <1>2, StampedIs
<1>4. Proper(r) /\ t \in Api!AskedOf(r, u) BY <1>1, RequestIs
<1>5. Api!Written(u, to) = CASE r.act = "delete" -> [f EXCEPT !.live = FALSE]
                         [] r.act = "create" -> [f EXCEPT !.live = TRUE, !.owner = o]
                         [] r.act = "update" /\ t \in Users -> [f EXCEPT !.role = to]
                         [] OTHER -> f
    BY <1>1 DEF Api!Written
<1> HIDE DEF f
<1>6. CASE r.act = "delete"
  <2>1. Api!Written(u, to) = [f EXCEPT !.live = FALSE] BY <1>5, <1>6
  <2> QED BY <1>1, <1>3, <1>6, <2>1 DEF Api!Row
<1>7. CASE r.act = "create"
  <2> DEFINE b == [f EXCEPT !.live = TRUE]
  <2>1. Api!Written(u, to) = [b EXCEPT !.owner = o] BY <1>5, <1>7
  <2>2. b \in Api!Row /\ b.ver = now + 1 /\ b.val = writes + 1 BY <1>3 DEF Api!Row
  <2>3. o \in Users \cup {None}
    <3>1. CASE r.kind # "api_key" BY <3>1
    <3>2. CASE r.kind = "api_key" /\ r.gate = "full" BY <3>2
    <3>3. CASE r.kind = "api_key" /\ r.gate # "full"
      <4>1. r.gate = "admin" BY <1>4, <1>7, <3>3 DEF Proper
      <4>2. r = [gate |-> "admin", act |-> "create", kind |-> "api_key"]
          BY <1>4, <1>7, <3>3, <4>1 DEF Proper
      <4>3. t = Thing BY <1>4, <3>3 DEF Api!AskedOf
      <4>4. to \in Users BY <1>1, <4>2, <4>3, ApiConstants DEF Api!Choices
      <4> QED BY <4>4
    <3> QED BY <3>1, <3>2, <3>3
  <2>4. r.kind = "api_key" /\ r.gate = "full" => o = u OBVIOUS
  <2> HIDE DEF b, o
  <2>5. [b EXCEPT !.owner = o] \in Api!Row /\ [b EXCEPT !.owner = o].ver = now + 1
        /\ [b EXCEPT !.owner = o].val = writes + 1 /\ [b EXCEPT !.owner = o].owner = o
      BY <2>2, <2>3 DEF Api!Row
  <2> QED BY <1>7, <2>1, <2>4, <2>5
<1>8. CASE r.act = "update" /\ t \in Users
  <2>1. Api!Written(u, to) = [f EXCEPT !.role = to] BY <1>5, <1>8
  <2>2. to \in {"admin", "user", "off"} BY <1>1, <1>8 DEF Api!Choices
  <2> QED BY <1>1, <1>3, <1>8, <2>1, <2>2 DEF Api!Row
<1>9. CASE r.act # "delete" /\ r.act # "create" /\ ~(r.act = "update" /\ t \in Users)
  <2>1. Api!Written(u, to) = f BY <1>5, <1>9
  <2> QED BY <1>1, <1>3, <1>9, <2>1
<1> QED BY <1>6, <1>7, <1>8, <1>9

\* A row is written now and the request that does it answered.
Committed(u, t, r, s) ==
  /\ Timely(u, t, r.ver) /\ r.val = writes + 1
  /\ row' = [row EXCEPT ![t] = r] /\ writes' = writes + 1
  /\ Api!Reply(u, s, TRUE) /\ form' = form
  /\ sess' \in [Users -> Api!Confinements \cup {"none"}]
  /\ \A v \in Users : v # u => (sess'[v] = sess[v] \/ sess'[v] = "none")

\* A write that commits.
LEMMA CommitKeeps ==
  ASSUME Api!ApiInv, NEW u \in Users, NEW t \in Api!Targets, NEW r \in Api!Row, NEW s \in {200, 201, 500},
         Committed(u, t, r, s)
  PROVE  Api!ApiInv'
<1>1. PICK v : v = r.ver OBVIOUS
<1>3. Timely(u, t, v) BY <1>1 DEF Committed
<1>4. Lands(t, r, v) BY <1>1 DEF Committed, Lands
<1>5. /\ HoldersAgree /\ PendingStays(u)
      /\ row' \in [Api!Targets -> Api!Row] /\ now' \in Nat /\ writes' \in Nat
    BY <1>3, <1>4, Landed
<1>6. Answers(s, TRUE, req[u].route.act) BY DEF Answers
<1>7. /\ Api!Reply(u, s, TRUE) /\ form' = form
      /\ sess' \in [Users -> Api!Confinements \cup {"none"}]
      /\ \A v2 \in Users : v2 # u => (sess'[v2] = sess[v2] \/ sess'[v2] = "none")
    BY DEF Committed
<1> QED BY <1>5, <1>6, <1>7, ReplyKeeps

\* A mutation commits.
LEMMA EffectKeeps ==
  ASSUME Api!ApiAssumption, Api!ApiInv, NEW u \in Users, req[u] # Api!NoReq, NEW to \in Api!Choices(u),
         NEW status \in {200, 500}, Api!Effect(u, to, status), form' = form
  PROVE  Api!ApiInv'
<1>1. PICK t \in Api!Targets : t = req[u].target BY RequestIs
<1> DEFINE r == Api!Written(u, to)
<1>2. r \in Api!Row /\ r.ver = now + 1 /\ r.val = writes + 1 BY WrittenIs
<1>3. /\ row' = [row EXCEPT ![t] = r] /\ now' = now + 1 /\ writes' = writes + 1
      /\ Api!Reply(u, status, TRUE)
      /\ sess' = sess \/ sess' = [sess EXCEPT ![t] = "none"]
    BY <1>1 DEF Api!Effect, Api!EndSessions
<1> HIDE DEF r
<1>4. sess \in [Users -> Api!Confinements \cup {"none"}] BY DEF Api!ApiInv, Api!ApiTypes
<1>5. /\ sess' \in [Users -> Api!Confinements \cup {"none"}]
      /\ \A v \in Users : v # u => (sess'[v] = sess[v] \/ sess'[v] = "none")
    BY <1>3, <1>4
<1>6. Committed(u, t, r, status) BY <1>2, <1>3, <1>5 DEF Committed, Timely
<1> QED BY <1>2, <1>6, CommitKeeps

\* The errors that a transaction ends with.
Errors == {"validation", "actor", "not_found", "conflict", "protected"}

\* A transaction that fails names its error.
LEMMA FailureIs ==
  ASSUME NEW u \in Users, Api!Failure(u) # "none" PROVE Api!Failure(u) \in Errors
BY DEF Api!Failure, Errors

\* control_plane_status and repository_status.
LEMMA StatusIs ==
  /\ \A f \in Errors : Api!StatusOf(f) \in {403, 404, 409, 422}
  /\ Api!StatusOf("none") = 200 /\ Api!StatusOf("storage") = 500
BY DEF Errors, Api!StatusOf

\* mutate, mutate_created and the own-key handlers.
LEMMA MutateKeeps ==
  ASSUME Api!ApiAssumption, Api!ApiInv, NEW u \in Users, NEW to, Api!Mutate(u, to) \/ Api!MutateUnseen(u, to)
  PROVE  Api!ApiInv'
<1>1. req[u].step = "handler" /\ to \in Api!Choices(u) /\ form' = form
  BY DEF Api!Mutate, Api!MutateUnseen, Api!At
<1>2. req[u] # Api!NoReq BY <1>1 DEF Api!NoReq
<1>3. CASE Api!MutateUnseen(u, to)
  <2>1. Api!Effect(u, to, 500) BY <1>3, StatusIs DEF Api!MutateUnseen
  <2> QED BY <1>1, <1>2, <2>1, EffectKeeps
<1>4. CASE Api!Mutate(u, to) /\ Api!Failure(u) = "none"
  <2>1. Api!Effect(u, to, 200) BY <1>4, StatusIs DEF Api!Mutate
  <2> QED BY <1>1, <1>2, <2>1, EffectKeeps
<1>5. CASE Api!Mutate(u, to) /\ Api!Failure(u) # "none"
  <2> DEFINE s == Api!StatusOf(Api!Failure(u))
  <2>1. Api!Reply(u, s, FALSE) /\ UNCHANGED <<row, sess, now, writes>> BY <1>5 DEF Api!Mutate
  <2>2. s \in {403, 404, 409, 422} BY <1>5, FailureIs, StatusIs
  <2> HIDE DEF s
  <2>3. Answers(s, FALSE, req[u].route.act) BY <2>2 DEF Answers
  <2>4. HoldersAgree /\ PendingStays(u) BY <2>1, NoWrite
  <2>5. /\ row' \in [Api!Targets -> Api!Row] /\ now' \in Nat /\ writes' \in Nat
        /\ sess' \in [Users -> Api!Confinements \cup {"none"}]
      BY <2>1 DEF Api!ApiInv, Api!ApiTypes
  <2> QED BY <1>1, <2>1, <2>3, <2>4, <2>5, ReplyKeeps
<1> QED BY <1>3, <1>4, <1>5

\* A request is refused.
Refused(u, s) ==
  /\ s \in {403, 404, 409, 422} /\ Api!Reply(u, s, FALSE)
  /\ row' = row /\ sess' = sess /\ form' = form /\ now' = now /\ writes' = writes

\* A refusal changes nothing.
LEMMA RefusedKeeps ==
  ASSUME Api!ApiInv, NEW u \in Users, NEW s, Refused(u, s) PROVE Api!ApiInv'
<1>0. /\ s \in {403, 404, 409, 422} /\ Api!Reply(u, s, FALSE)
      /\ row' = row /\ sess' = sess /\ form' = form /\ now' = now /\ writes' = writes
    BY DEF Refused
<1>1. Answers(s, FALSE, req[u].route.act) BY <1>0 DEF Answers
<1>2. HoldersAgree /\ PendingStays(u) BY <1>0, NoWrite
<1>3. /\ row' \in [Api!Targets -> Api!Row] /\ now' \in Nat /\ writes' \in Nat
      /\ sess' \in [Users -> Api!Confinements \cup {"none"}]
    BY <1>0 DEF Api!ApiInv, Api!ApiTypes
<1> QED BY <1>0, <1>1, <1>2, <1>3, ReplyKeeps

\* update_me lands with the time at which it started.
LEMMA ProfileWriteKeeps ==
  ASSUME Api!ApiInv, NEW u \in Users, Api!ProfileWrite(u) PROVE Api!ApiInv'
<1>1. req[u].step = "profile" /\ UNCHANGED <<sess, form, now>> BY DEF Api!ProfileWrite
<1>2. req[u] \in Api!Begun BY <1>1, RequestIs DEF Api!Pending
<1>3. req[u].start \in Nat BY <1>2 DEF Api!Begun
<1>4. u \in Api!Targets BY DEF Api!Targets
<1>7. Api!Pending(u) /\ req[u].target = u
  <2>1. Api!Pending(u) /\ Api!PendingSound(u) BY <1>1 DEF Api!Pending, Api!ApiInv
  <2>2. Proper(req[u].route) /\ req[u].target \in Api!AskedOf(req[u].route, u) BY <2>1, RequestIs
  <2> QED BY <1>1, <2>1, <2>2 DEF Api!PendingSound, Proper, Api!AskedOf
<1>5. CASE Api!Active(u)
  <2> DEFINE v == req[u].start
             r == Api!Stamped(row[u], v)
  <2>1. row' = [row EXCEPT ![u] = r] /\ writes' = writes + 1 /\ Api!Reply(u, 200, TRUE)
      BY <1>5 DEF Api!ProfileWrite
  <2>2. r \in Api!Row /\ r.ver = v /\ r.val = writes + 1
      BY <1>3, <1>4, StampedIs DEF Api!ApiInv, Api!ApiTypes
  <2>3. Timely(u, u, v) BY <1>1, <1>7 DEF Timely
  <2> HIDE DEF r, v
  <2>7. Lands(u, r, v) BY <2>1, <2>2 DEF Lands
  <2>4. /\ HoldersAgree /\ PendingStays(u)
        /\ row' \in [Api!Targets -> Api!Row] /\ now' \in Nat /\ writes' \in Nat
      BY <1>4, <2>2, <2>3, <2>7, Landed
  <2>5. sess' \in [Users -> Api!Confinements \cup {"none"}] BY <1>1 DEF Api!ApiInv, Api!ApiTypes
  <2>6. Answers(200, TRUE, req[u].route.act) BY DEF Answers
  <2> QED BY <1>1, <2>1, <2>4, <2>5, <2>6, ReplyKeeps
<1>6. CASE ~Api!Active(u)
  <2>1. Refused(u, 404) BY <1>1, <1>6 DEF Api!ProfileWrite, Refused
  <2> QED BY <2>1, RefusedKeeps
<1> QED BY <1>5, <1>6

\* An account is written; its sessions end, or the writer's own becomes full.
AccountWrite(u, t, v, b, p, s) ==
  /\ b \in BOOLEAN /\ s \in {200, 201} /\ Timely(u, t, v)
  /\ row' = [row EXCEPT ![t] = [Api!Stamped(row[t], v) EXCEPT !.temp = b]]
  /\ sess' = [sess EXCEPT ![t] = p]
  /\ p \in Api!Confinements \cup {"none"} /\ (t # u => p = "none")
  /\ writes' = writes + 1 /\ Api!Reply(u, s, TRUE) /\ form' = form

\* A write to an account that changes its sessions.
LEMMA AccountKeeps ==
  ASSUME Api!ApiInv, NEW u \in Users, NEW t \in Users, NEW n, NEW b, NEW p, NEW s,
         AccountWrite(u, t, n, b, p, s)
  PROVE  Api!ApiInv'
<1>1. t \in Api!Targets BY DEF Api!Targets
<1>2. row[t] \in Api!Row /\ writes \in Nat BY <1>1 DEF Api!ApiInv, Api!ApiTypes
<1>6. Timely(u, t, n) /\ n \in Nat BY <1>1, TimelyIs DEF AccountWrite
<1>7. PICK x \in Api!Row : x = row[t] BY <1>2
<1> DEFINE f == Api!Stamped(x, n)
           r == [f EXCEPT !.temp = b]
<1>3. f \in Api!Row /\ f.ver = n /\ f.val = writes + 1 BY <1>2, <1>6, StampedIs
<1>4. /\ row' = [row EXCEPT ![t] = r] /\ sess' = [sess EXCEPT ![t] = p]
      /\ p \in Api!Confinements \cup {"none"} /\ (t # u => p = "none")
      /\ writes' = writes + 1 /\ Api!Reply(u, s, TRUE) /\ form' = form
    BY <1>7 DEF AccountWrite
<1> HIDE DEF f
<1>9. b \in BOOLEAN /\ s \in {200, 201} BY DEF AccountWrite
<1>5. r \in Api!Row /\ r.ver = n /\ r.val = writes + 1 BY <1>3, <1>9 DEF Api!Row
<1> HIDE DEF r
<1>8. sess \in [Users -> Api!Confinements \cup {"none"}] BY DEF Api!ApiInv, Api!ApiTypes
<1>10. /\ sess' \in [Users -> Api!Confinements \cup {"none"}]
       /\ \A v \in Users : v # u => (sess'[v] = sess[v] \/ sess'[v] = "none")
    BY <1>4, <1>8
<1>11. Committed(u, t, r, s) BY <1>4, <1>5, <1>6, <1>10 DEF Committed
<1> QED BY <1>1, <1>5, <1>9, <1>11, CommitKeeps

\* How a request for a temporary password is refused before its transaction.
Denials == {403, 404, 409}

\* A request for a temporary password is refused or begins.
LEMMA TemporaryIs ==
  ASSUME NEW u \in Users, Api!TemporaryStart(u)
  PROVE  \/ \E s \in Denials : Api!Reply(u, s, FALSE) /\ now' = now
         \/ req[u].target # u /\ Api!Begin(u, "temporary")
<1>1. CASE req[u].target = u
  <2>1. Api!Reply(u, 409, FALSE) /\ now' = now /\ 409 \in Denials
      BY <1>1 DEF Api!TemporaryStart, Denials
  <2> QED BY <2>1
<1>2. CASE req[u].target # u /\ Api!Actor(u) /\ sess[u] = "normal" BY <1>2 DEF Api!TemporaryStart
<1>3. CASE req[u].target # u /\ ~(Api!Actor(u) /\ sess[u] = "normal")
  <2>1. (Api!Reply(u, 403, FALSE) \/ Api!Reply(u, 404, FALSE)) /\ now' = now
      BY <1>3 DEF Api!TemporaryStart
  <2>2. 403 \in Denials /\ 404 \in Denials BY DEF Denials
  <2> QED BY <2>1, <2>2
<1> QED BY <1>1, <1>2, <1>3

\* issue_user_temporary_password, up to the actor it reads.
LEMMA TemporaryStartKeeps ==
  ASSUME Api!ApiAssumption, Api!ApiInv, NEW u \in Users, Api!TemporaryStart(u) PROVE Api!ApiInv'
<1>1. CASE Api!Begin(u, "temporary") /\ req[u].target # u
    BY <1>1, BeginKeeps DEF Api!TemporaryStart
<1>2. CASE ~(Api!Begin(u, "temporary") /\ req[u].target # u)
  <2>1. UNCHANGED <<row, sess, form, writes>> BY DEF Api!TemporaryStart
  <2>2. PICK s \in Denials : Api!Reply(u, s, FALSE) /\ now' = now BY <1>2, TemporaryIs
  <2>4. s \in {403, 404, 409, 422} BY DEF Denials
  <2>3. Refused(u, s) BY <2>1, <2>2, <2>4 DEF Refused
  <2> QED BY <2>3, RefusedKeeps
<1> QED BY <1>1, <1>2

\* issue_user_temporary_password, once the target is locked.
LEMMA TemporaryWriteKeeps ==
  ASSUME Api!ApiInv, NEW u \in Users, Api!TemporaryWrite(u) PROVE Api!ApiInv'
<1>1. req[u].step = "temporary" /\ form' = form /\ now' = now BY DEF Api!TemporaryWrite
<1>2. Api!Pending(u) /\ Api!PendingSound(u) BY <1>1 DEF Api!Pending, Api!ApiInv
<1>3. Proper(req[u].route) /\ req[u].target \in Api!AskedOf(req[u].route, u) BY <1>2, RequestIs
<1>4. req[u].target \in Users /\ req[u].target # u
    BY <1>1, <1>2, <1>3 DEF Proper, Api!AskedOf, Api!PendingSound
<1>5. PICK t \in Users : t = req[u].target BY <1>4
<1>6. CASE Api!Active(t)
  <2>1. AccountWrite(u, t, req[u].start, TRUE, "none", 201)
      BY <1>1, <1>2, <1>5, <1>6 DEF Api!TemporaryWrite, AccountWrite, Timely
  <2> QED BY <2>1, AccountKeeps
<1>7. CASE ~Api!Active(t)
  <2> DEFINE s == IF row[t].live THEN 422 ELSE 404
  <2>2. Api!Reply(u, s, FALSE) /\ UNCHANGED <<row, sess, writes>>
      BY <1>5, <1>7 DEF Api!TemporaryWrite
  <2>3. s \in {403, 404, 409, 422} OBVIOUS
  <2> HIDE DEF s
  <2>1. Refused(u, s) BY <1>1, <2>2, <2>3 DEF Refused
  <2> QED BY <2>1, RefusedKeeps
<1> QED BY <1>6, <1>7

\* complete_password_reset
LEMMA CompleteApi ==
  ASSUME Api!ApiInv, NEW u \in Users, Api!Complete(u) PROVE Api!ApiInv'
<1> DEFINE ok == req[u].purpose = "password_change" /\ Api!Active(u) /\ sess[u] # "none"
<1>1. CASE ok
  <2>1. AccountWrite(u, u, now + 1, FALSE, "normal", 200)
      BY <1>1 DEF Api!Complete, AccountWrite, Api!Confinements, Timely
  <2> QED BY <2>1, AccountKeeps
<1>2. CASE ~ok
  <2>1. Refused(u, 409) BY <1>2 DEF Api!Complete, Refused
  <2> QED BY <2>1, RefusedKeeps
<1> QED BY <1>1, <1>2

\* logout and the revocation of sessions.
LEMMA LogoutKeeps ==
  ASSUME Api!ApiInv, NEW u \in Users, Api!Logout(u) PROVE Api!ApiInv'
<1>1. /\ sess' = [sess EXCEPT ![u] = "none"] /\ Api!Reply(u, 204, FALSE)
      /\ UNCHANGED <<row, form, now, writes>>
    BY DEF Api!Logout
<1>2. Answers(204, FALSE, req[u].route.act) BY DEF Answers
<1>3. HoldersAgree /\ PendingStays(u) BY <1>1, NoWrite
<1>4. /\ row' \in [Api!Targets -> Api!Row] /\ now' \in Nat /\ writes' \in Nat
      /\ sess' \in [Users -> Api!Confinements \cup {"none"}]
      /\ \A v \in Users : v # u => (sess'[v] = sess[v] \/ sess'[v] = "none")
    BY <1>1 DEF Api!ApiInv, Api!ApiTypes
<1> QED BY <1>1, <1>2, <1>3, <1>4, ReplyKeeps

--------------------
\* Nobody holds anything.
LEMMA ApiInit ==
  ASSUME Api!ApiAssumption, Api!Init PROVE Api!ApiInv
<1>1. /\ now = 0 /\ writes = 0 /\ answer = None
      /\ sess = [u \in Users |-> "normal"]
      /\ form = [u \in Users |-> None] /\ req = [u \in Users |-> Api!NoReq]
    BY DEF Api!Init
<1>2. PICK o \in Users \cup {None}, l \in BOOLEAN :
        row = [t \in Api!Targets |-> IF t \in Users THEN Api!Account(t) ELSE
                [live |-> l, ver |-> 0, val |-> 0,
                 owner |-> o, temp |-> FALSE, role |-> None]]
    BY DEF Api!Init
<1>3. ASSUME NEW t \in Api!Targets PROVE row[t] \in Api!Row /\ row[t].ver = 0 /\ row[t].val = 0
  <2>1. CASE t \in Users
    <3> DEFINE x == IF t \in Admins THEN "admin" ELSE "user"
    <3>1. x \in {"admin", "user"} OBVIOUS
    <3>2. row[t] = [live |-> TRUE, ver |-> 0, val |-> 0, owner |-> None, temp |-> FALSE, role |-> x]
        BY <1>2, <2>1 DEF Api!Account
    <3> HIDE DEF x
    <3> QED BY <3>1, <3>2 DEF Api!Row
  <2>2. CASE t \notin Users
    <3>1. row[t] = [live |-> l, ver |-> 0, val |-> 0, owner |-> o, temp |-> FALSE, role |-> None]
        BY <1>2, <2>2
    <3> QED BY <3>1 DEF Api!Row
  <2> QED BY <2>1, <2>2
<1>4. row \in [Api!Targets -> Api!Row] BY <1>2, <1>3
<1>5. Api!ApiTypes BY <1>1, <1>4 DEF Api!ApiTypes, Api!Confinements
<1>6. \A t \in Api!Targets : row[t].ver <= now /\ row[t].val <= writes BY <1>1, <1>3
<1>7. \A u \in Users : form[u] = None /\ req[u] = Api!NoReq /\ req[u].step = "idle"
  BY <1>1 DEF Api!NoReq
<1>8. \A u \in Users : Api!FormSound(u) /\ Api!ReqSound(u) /\ Api!HandlerSound(u) /\ Api!PendingSound(u)
    BY <1>7 DEF Api!FormSound, Api!ReqSound, Api!HandlerSound, Api!PendingSound, Api!Pending
<1>9. Api!AnswerIsTrue BY <1>1 DEF Api!AnswerIsTrue
<1>10. Api!StartsDiffer BY <1>7 DEF Api!StartsDiffer, Api!Pending
<1> QED BY <1>5, <1>6, <1>8, <1>9, <1>10 DEF Api!ApiInv

\* Every step keeps the invariant.
LEMMA ApiStep ==
  ASSUME Api!ApiAssumption, Api!ApiInv, [Api!Next]_(Api!vars) PROVE Api!ApiInv'
<1>1. CASE Api!Next
  <2>1. PICK u \in Users :
          \/ Api!Login(u) \/ Api!Authenticate(u) \/ Api!Get(u)
          \/ \E r \in Api!Routes, t \in Api!Targets : Api!Send(u, r, t)
          \/ \E to \in {"admin", "user", "off", None} \cup Users :
               Api!Mutate(u, to) \/ Api!MutateUnseen(u, to)
          \/ Api!ProfileStart(u) \/ Api!ProfileWrite(u)
          \/ Api!TemporaryStart(u) \/ Api!TemporaryWrite(u) \/ Api!Complete(u) \/ Api!Logout(u)
      BY <1>1 DEF Api!Next
  <2>2. CASE Api!Login(u) BY <2>2, LoginApi
  <2>3. CASE Api!Authenticate(u) BY <2>3, AuthenticateKeeps
  <2>4. CASE Api!Get(u) BY <2>4, GetKeeps
  <2>5. CASE \E r \in Api!Routes, t \in Api!Targets : Api!Send(u, r, t) BY <2>5, SendKeeps
  <2>6. CASE \E to \in {"admin", "user", "off", None} \cup Users :
               Api!Mutate(u, to) \/ Api!MutateUnseen(u, to)
      BY <2>6, MutateKeeps
  <2>7. CASE Api!ProfileStart(u) BY <2>7, ProfileStartKeeps
  <2>8. CASE Api!ProfileWrite(u) BY <2>8, ProfileWriteKeeps
  <2>9. CASE Api!TemporaryStart(u) \/ Api!TemporaryWrite(u)
      BY <2>9, TemporaryStartKeeps, TemporaryWriteKeeps
  <2>10. CASE Api!Complete(u) BY <2>10, CompleteApi
  <2>11. CASE Api!Logout(u) BY <2>11, LogoutKeeps
  <2> QED BY <2>1, <2>2, <2>3, <2>4, <2>5, <2>6, <2>7, <2>8, <2>9, <2>10, <2>11
<1>2. CASE UNCHANGED Api!vars
  <2>1. UNCHANGED <<row, sess, form, req, answer, now, writes>> BY <1>2 DEF Api!vars
  <2>2. Api!ApiTypes' /\ Api!AnswerIsTrue' /\ Api!StartsDiffer'
      BY <2>1 DEF Api!ApiInv, Api!ApiTypes, Api!AnswerIsTrue, Api!StartsDiffer, Api!Pending
  <2>3. (\A t \in Api!Targets : row[t].ver <= now /\ row[t].val <= writes)' BY <2>1 DEF Api!ApiInv
  <2>4. ASSUME NEW u \in Users
        PROVE  Api!FormSound(u)' /\ Api!ReqSound(u)' /\ Api!HandlerSound(u)' /\ Api!PendingSound(u)'
    <3>1. Api!FormSound(u) /\ Api!ReqSound(u) /\ Api!HandlerSound(u) /\ Api!PendingSound(u)
      BY DEF Api!ApiInv
    <3>2. Api!FormSound(u)' BY <2>1, <3>1 DEF Api!FormSound, Api!Agrees
    <3>3. Api!ReqSound(u)' BY <2>1, <3>1 DEF Api!ReqSound, Api!Agrees, Api!AskedOf
    <3>4. Api!HandlerSound(u)' BY <2>1, <3>1 DEF Api!HandlerSound, Api!Pending
    <3>5. Api!PendingSound(u)' BY <2>1, <3>1 DEF Api!PendingSound, Api!Unseen, Api!Pending
    <3> QED BY <3>2, <3>3, <3>4, <3>5
  <2> QED BY <2>2, <2>3, <2>4 DEF Api!ApiInv
<1> QED BY <1>1, <1>2

\* For any users, resources and interleaving of their requests: the versions that
\* browsers and requests hold agree with the rows in version and content or in neither,
\* the times of transactions under way are different and nobody's version, and a session
\* that changed under a request has ended (http/console.rs, coordinator/control_plane.rs).
THEOREM ApiInvariant == Api!ApiAssumption /\ Api!Spec => []Api!ApiInv
<1> SUFFICES ASSUME Api!ApiAssumption PROVE Api!Spec => []Api!ApiInv OBVIOUS
<1>1. Api!Init => Api!ApiInv BY ApiInit
<1>2. Api!ApiInv /\ [Api!Next]_(Api!vars) => Api!ApiInv' BY ApiStep
<1> QED BY <1>1, <1>2, PTL DEF Api!Spec

\* An answer tells what happened: success means committed, a refusal that nothing was
\* (mutate, mutate_created, control_plane_status).
THEOREM AnswersAlwaysTrue == Api!ApiAssumption /\ Api!Spec => []Api!AnswerIsTrue
<1>1. Api!ApiInv => Api!AnswerIsTrue BY DEF Api!ApiInv
<1> QED BY <1>1, ApiInvariant, PTL

--------------------
\* What the end of a request shows

Ends(u) == req[u] # Api!NoReq /\ req'[u] = Api!NoReq

\* A user's requests are ended by its own steps.
LEMMA Alone ==
  ASSUME NEW w \in Users, NEW u \in Users, u # w,
         \/ Api!Login(w) \/ Api!Authenticate(w) \/ Api!Get(w)
         \/ \E r \in Api!Routes, t \in Api!Targets : Api!Send(w, r, t)
         \/ \E to \in {"admin", "user", "off", None} \cup Users :
              Api!Mutate(w, to) \/ Api!MutateUnseen(w, to)
         \/ Api!ProfileStart(w) \/ Api!ProfileWrite(w)
         \/ Api!TemporaryStart(w) \/ Api!TemporaryWrite(w) \/ Api!Complete(w) \/ Api!Logout(w),
         req \in [Users -> {Api!NoReq} \cup Api!Sent \cup Api!Handled \cup Api!Begun]
  PROVE  req'[u] = req[u]
<1>1. CASE Api!Login(w) BY <1>1 DEF Api!Login
<1>2. CASE Api!Authenticate(w)
  <2>1. CASE Api!Refusal(w) # 0 BY <1>2, <2>1 DEF Api!Authenticate, Api!Reply
  <2>2. CASE Api!Refusal(w) = 0
    <3> DEFINE q == [step |-> "handler", route |-> req[w].route, target |-> req[w].target,
                     tag |-> req[w].tag, seen |-> req[w].seen, purpose |-> sess[w]]
    <3>1. req' = [req EXCEPT ![w] = q] BY <1>2, <2>2 DEF Api!Authenticate
    <3> HIDE DEF q
    <3> QED BY <3>1
  <2> QED BY <2>1, <2>2
<1>3. CASE Api!Get(w) BY <1>3 DEF Api!Get, Api!Reply
<1>4. ASSUME NEW r \in Api!Routes, NEW t \in Api!Targets, Api!Send(w, r, t) PROVE req'[u] = req[u]
    BY <1>4 DEF Api!Send
<1>5. ASSUME NEW to, Api!Mutate(w, to) \/ Api!MutateUnseen(w, to) PROVE req'[u] = req[u]
  <2>1. req' = [req EXCEPT ![w] = Api!NoReq] BY <1>5 DEF Api!Mutate, Api!MutateUnseen, Api!Effect,
      Api!Reply
  <2> QED BY <2>1
<1>6. ASSUME NEW z, Api!Begin(w, z) PROVE req'[u] = req[u]
  <2> DEFINE q == [step |-> z, start |-> now + 1, route |-> req[w].route,
                   target |-> req[w].target, tag |-> req[w].tag, seen |-> req[w].seen,
                   purpose |-> req[w].purpose]
  <2>1. req' = [req EXCEPT ![w] = q] BY <1>6 DEF Api!Begin
  <2> HIDE DEF q
  <2> QED BY <2>1
<1>11. CASE Api!ProfileStart(w) BY <1>6, <1>11 DEF Api!ProfileStart
<1>12. CASE Api!TemporaryStart(w)
  <2>1. CASE Api!Begin(w, "temporary") BY <1>6, <2>1
  <2>2. CASE ~Api!Begin(w, "temporary")
    <3>1. req' = [req EXCEPT ![w] = Api!NoReq] BY <1>12, <2>2 DEF Api!TemporaryStart, Api!Reply
    <3> QED BY <3>1
  <2> QED BY <2>1, <2>2
<1>7. CASE Api!ProfileWrite(w)
  <2>1. req' = [req EXCEPT ![w] = Api!NoReq] BY <1>7 DEF Api!ProfileWrite, Api!Reply
  <2> QED BY <2>1
<1>8. CASE Api!TemporaryWrite(w)
  <2>1. req' = [req EXCEPT ![w] = Api!NoReq] BY <1>8 DEF Api!TemporaryWrite, Api!Reply
  <2> QED BY <2>1
<1>9. CASE Api!Complete(w)
  <2>1. req' = [req EXCEPT ![w] = Api!NoReq] BY <1>9 DEF Api!Complete, Api!Reply
  <2> QED BY <2>1
<1>10. CASE Api!Logout(w) BY <1>10 DEF Api!Logout, Api!Reply
<1> QED BY <1>1, <1>2, <1>3, <1>4, <1>5, <1>7, <1>8, <1>9, <1>10, <1>11, <1>12

\* The steps that end a request.
Ending(u) ==
  \/ Api!Authenticate(u) /\ Api!Refusal(u) # 0
  \/ Api!Get(u)
  \/ \E to : Api!Mutate(u, to) \/ Api!MutateUnseen(u, to)
  \/ Api!ProfileWrite(u) \/ Api!Complete(u) \/ Api!Logout(u)
  \/ /\ Api!TemporaryStart(u)
     /\ \E s \in Denials : Api!Reply(u, s, FALSE)
  \/ Api!TemporaryWrite(u)

\* Only these steps end a request.
LEMMA EndingIs ==
  ASSUME Api!ApiInv, Api!Next, NEW u \in Users, Ends(u) PROVE Ending(u)
<1>1. PICK w \in Users :
        \/ Api!Login(w) \/ Api!Authenticate(w) \/ Api!Get(w)
        \/ \E r \in Api!Routes, t \in Api!Targets : Api!Send(w, r, t)
        \/ \E to \in {"admin", "user", "off", None} \cup Users :
             Api!Mutate(w, to) \/ Api!MutateUnseen(w, to)
        \/ Api!ProfileStart(w) \/ Api!ProfileWrite(w)
        \/ Api!TemporaryStart(w) \/ Api!TemporaryWrite(w) \/ Api!Complete(w) \/ Api!Logout(w)
    BY DEF Api!Next
<1>2. req \in [Users -> {Api!NoReq} \cup Api!Sent \cup Api!Handled \cup Api!Begun]
  BY DEF Api!ApiInv, Api!ApiTypes
<1>3. w = u BY <1>1, <1>2, Alone DEF Ends
<1>4. ~Api!Login(u) BY DEF Ends, Api!Login
<1>5. ~\E r \in Api!Routes, t \in Api!Targets : Api!Send(u, r, t) BY DEF Ends, Api!Send
<1>6. ASSUME Api!Authenticate(u), Api!Refusal(u) = 0 PROVE FALSE
  <2> DEFINE q == [step |-> "handler", route |-> req[u].route, target |-> req[u].target,
                   tag |-> req[u].tag, seen |-> req[u].seen, purpose |-> sess[u]]
  <2>1. req' = [req EXCEPT ![u] = q] BY <1>6 DEF Api!Authenticate
  <2>2. q # Api!NoReq BY DEF Api!NoReq
  <2> HIDE DEF q
  <2> QED BY <1>2, <2>1, <2>2 DEF Ends
<1>7. ASSUME NEW z, Api!Begin(u, z) PROVE FALSE
  <2> DEFINE q == [step |-> z, start |-> now + 1, route |-> req[u].route,
                   target |-> req[u].target, tag |-> req[u].tag, seen |-> req[u].seen,
                   purpose |-> req[u].purpose]
  <2>1. req' = [req EXCEPT ![u] = q] BY <1>7 DEF Api!Begin
  <2>2. q # Api!NoReq BY DEF Api!NoReq
  <2> HIDE DEF q
  <2> QED BY <1>2, <2>1, <2>2 DEF Ends
<1>8. ~Api!ProfileStart(u) BY <1>7 DEF Api!ProfileStart
<1>9. ASSUME Api!TemporaryStart(u) PROVE \E s \in Denials : Api!Reply(u, s, FALSE)
  <2>1. ~Api!Begin(u, "temporary") BY <1>7
  <2> QED BY <1>9, <2>1, TemporaryIs
<1> QED BY <1>1, <1>3, <1>4, <1>5, <1>6, <1>8, <1>9 DEF Ending

\* A mutation that passes its checks.
LEMMA Unrefused ==
  ASSUME Api!ApiInv, NEW u \in Users, req[u] # Api!NoReq, Api!Failure(u) = "none"
  PROVE  /\ Api!Actor(u)
         /\ req[u].route.act # "create" => Api!Visible(u, req[u].target)
         /\ Api!Tagged(req[u].route) => /\ req[u].tag # None
                                    /\ row[req[u].target].ver = req[u].tag
<1> DEFINE r == req[u].route
           t == req[u].target
<1>1. ~(Api!Tagged(r) /\ req[u].tag = None) BY DEF Api!Failure
<1>2. Api!Actor(u) BY <1>1 DEF Api!Failure
<1>3. r.act # "create" => Api!Visible(u, t) BY <1>1, <1>2 DEF Api!Failure
<1>4. r.act # "create" => ~(Api!Tagged(r) /\ row[t].ver # req[u].tag)
  BY <1>1, <1>2, <1>3 DEF Api!Failure
<1>5. Api!Tagged(r) => r.act # "create" BY DEF Api!Tagged
<1> QED BY <1>1, <1>2, <1>3, <1>4, <1>5

\* The status of the answer.
StatusIn(S) == answer'.status \in S

\* How a mutation ends.
LEMMA MutationIs ==
  ASSUME NEW u \in Users, NEW to, Api!Mutate(u, to) \/ Api!MutateUnseen(u, to)
  PROVE  /\ req[u].step = "handler" /\ to \in Api!Choices(u)
         /\ req[u].route.act \in {"create", "update", "delete", "revoke"}
         /\ \/ /\ Api!Failure(u) = "none" /\ StatusIn({200, 500})
               /\ row' = [row EXCEPT ![req[u].target] = Api!Written(u, to)]
            \/ /\ Api!Failure(u) # "none" /\ StatusIn({Api!StatusOf(Api!Failure(u))})
               /\ answer'.did = FALSE
<1>1. /\ req[u].step = "handler" /\ to \in Api!Choices(u)
      /\ req[u].route.act \in {"create", "update", "delete", "revoke"}
    BY DEF Api!Mutate, Api!MutateUnseen, Api!At
<1>2. CASE Api!Failure(u) = "none"
  <2>1. PICK s \in {200, 500} : Api!Effect(u, to, s)
    BY <1>2, StatusIs DEF Api!Mutate, Api!MutateUnseen
  <2> QED BY <1>1, <1>2, <2>1 DEF Api!Effect, Api!Reply, StatusIn
<1>3. CASE Api!Failure(u) # "none"
  <2>1. Api!Reply(u, Api!StatusOf(Api!Failure(u)), FALSE) BY <1>3 DEF Api!Mutate, Api!MutateUnseen
  <2> QED BY <1>1, <1>3, <2>1 DEF Api!Reply, StatusIn
<1> QED BY <1>2, <1>3

\* The layers refuse with 401 or 403.
LEMMA RefusalStatus ==
  ASSUME NEW u \in Users, Api!Authenticate(u), Api!Refusal(u) # 0
  PROVE  StatusIn({401, 403}) /\ answer'.did = FALSE
<1>1. Api!Refusal(u) \in {401, 403} BY DEF Api!Refusal
<1>2. Api!Reply(u, Api!Refusal(u), FALSE) BY DEF Api!Authenticate
<1> QED BY <1>1, <1>2 DEF Api!Reply, StatusIn

\* Any other status comes from a handler.
LEMMA Unrefusable ==
  ASSUME NEW u \in Users, StatusIn({200, 201}) \/ StatusIn({409})
  PROVE  ~(Api!Authenticate(u) /\ Api!Refusal(u) # 0)
<1> SUFFICES ASSUME Api!Authenticate(u), Api!Refusal(u) # 0 PROVE FALSE OBVIOUS
<1>1. StatusIn({401, 403}) BY RefusalStatus
<1> QED BY <1>1 DEF StatusIn

\* Whoever acts is entitled to.
Entitled(u) ==
  /\ req[u].route.act # "temporary" /\ Api!Active(u)
  /\ req[u].route.gate = "admin" => Api!IsAdmin(u)
  /\ req[u].route.gate = "full" /\ req[u].target = Thing => row'[Thing].owner = u

\* Whoever issues a temporary password had begun to.
IssuedBy(u) ==
  /\ req[u].route.act = "temporary" /\ req[u].step = "temporary"
  /\ req[u].target # u /\ Api!Active(req[u].target)

\* The actor that the transaction reads.
LEMMA ActorIs ==
  ASSUME NEW u \in Users, Api!Actor(u)
  PROVE  Api!Active(u) /\ (req[u].route.gate = "admin" => Api!IsAdmin(u))
BY DEF Api!Actor, Api!Active, Api!IsAdmin

\* Every handler that commits reads its actor as it does, or has read it before.
LEMMA EntitledStep ==
  ASSUME Api!ApiAssumption, Api!ApiInv, Api!Next, NEW u \in Users, Api!Did(u)
  PROVE  Entitled(u) \/ IssuedBy(u)
<1>1. Ends(u) /\ answer'.did BY DEF Api!Did, Ends
<1>2. Ending(u) BY <1>1, EndingIs
<1>3. /\ Proper(req[u].route) /\ req[u].target \in Api!AskedOf(req[u].route, u)
      /\ req[u].target \in Api!Targets
    BY <1>1, RequestIs DEF Ends
<1>4. Thing \notin Users BY ApiConstants
<1>5. req[u].route.kind = "user" => req[u].target # Thing BY <1>3, <1>4 DEF Api!AskedOf
<1>6. ~(Api!Authenticate(u) /\ Api!Refusal(u) # 0) BY <1>1, RefusalStatus
<1>7. ~Api!Get(u)
  <2> SUFFICES ASSUME Api!Get(u) PROVE answer'.did = FALSE BY <1>1
  <2> QED BY DEF Api!Get, Api!Reply
<1>8. ~Api!Logout(u)
  <2> SUFFICES ASSUME Api!Logout(u) PROVE answer'.did = FALSE BY <1>1
  <2> QED BY DEF Api!Logout, Api!Reply
<1>9. CASE Api!ProfileWrite(u)
  <2>1. Api!Active(u)
    <3> SUFFICES ASSUME ~Api!Active(u) PROVE answer'.did = FALSE BY <1>1
    <3> QED BY <1>9 DEF Api!ProfileWrite, Api!Reply
  <2>2. Api!PendingSound(u) /\ req[u].step = "profile" BY <1>9 DEF Api!ApiInv, Api!ProfileWrite
  <2>3. req[u].route.act = "profile" BY <2>2 DEF Api!PendingSound, Api!Pending
  <2>4. req[u].route.gate = "full" /\ req[u].route.kind = "user" BY <1>3, <2>3 DEF Proper
  <2> QED BY <1>5, <2>1, <2>3, <2>4 DEF Entitled
<1>10. CASE Api!TemporaryWrite(u)
  <2>1. Api!Active(req[u].target)
    <3> SUFFICES ASSUME ~Api!Active(req[u].target) PROVE answer'.did = FALSE BY <1>1
    <3> QED BY <1>10 DEF Api!TemporaryWrite, Api!Reply
  <2>2. Api!PendingSound(u) /\ req[u].step = "temporary" BY <1>10 DEF Api!ApiInv,
      Api!TemporaryWrite
  <2> QED BY <2>1, <2>2 DEF IssuedBy, Api!PendingSound, Api!Pending
<1>13. ~\E s \in Denials : Api!Reply(u, s, FALSE)
  <2> SUFFICES ASSUME NEW s, Api!Reply(u, s, FALSE) PROVE answer'.did = FALSE BY <1>1
  <2> QED BY DEF Api!Reply
<1>11. CASE Api!Complete(u)
  <2>1. Api!Active(u)
    <3> SUFFICES ASSUME ~Api!Active(u) PROVE answer'.did = FALSE BY <1>1
    <3> QED BY <1>11 DEF Api!Complete, Api!Reply
  <2>2. req[u].route.gate = "session" /\ req[u].route.act = "complete"
      BY <1>3, <1>11 DEF Api!Complete, Api!At, Proper
  <2> QED BY <2>1, <2>2 DEF Entitled
<1>12. ASSUME NEW to, Api!Mutate(u, to) \/ Api!MutateUnseen(u, to) PROVE Entitled(u)
  <2>1. /\ to \in Api!Choices(u) /\ Api!Failure(u) = "none"
        /\ row' = [row EXCEPT ![req[u].target] = Api!Written(u, to)]
      BY <1>1, <1>12, MutationIs
  <2>2. Api!Actor(u) /\ (req[u].route.act # "create" => Api!Visible(u, req[u].target))
      BY <1>1, <2>1, Unrefused DEF Ends
  <2>3. ASSUME req[u].route.gate = "full", req[u].target = Thing PROVE row'[Thing].owner = u
    <3>1. Thing \in Api!Targets /\ row \in [Api!Targets -> Api!Row]
      BY DEF Api!Targets, Api!ApiInv, Api!ApiTypes
    <3>2. row'[Thing] = Api!Written(u, to) BY <2>1, <2>3, <3>1
    <3>3. req[u].route.kind = "api_key" BY <1>3, <1>5, <2>3 DEF Proper
    <3>4. /\ req[u].route.act = "create" /\ req[u].route.kind = "api_key"
               /\ req[u].route.gate = "full" => Api!Written(u, to).owner = u
          /\ req[u].route.act # "create" => Api!Written(u, to).owner = row[req[u].target].owner
        BY <1>1, <2>1, WrittenIs DEF Ends
    <3>5. CASE req[u].route.act = "create" BY <2>3, <3>2, <3>3, <3>4, <3>5
    <3>6. CASE req[u].route.act # "create"
      <4>1. row[Thing].owner = u BY <2>2, <2>3, <3>6 DEF Api!Visible
      <4> QED BY <2>3, <3>2, <3>4, <3>6, <4>1
    <3> QED BY <3>5, <3>6
  <2>4. req[u].route.act # "temporary" BY <1>12, MutationIs
  <2> QED BY <2>2, <2>3, <2>4, ActorIs DEF Entitled
<1> QED BY <1>2, <1>6, <1>7, <1>8, <1>9, <1>10, <1>11, <1>12, <1>13 DEF Ending

\* Only the check of the actor leads to the transaction.
LEMMA ReadStep ==
  ASSUME Api!ApiInv, Api!Next, NEW u \in Users, req[u].step # "temporary",
         req'[u].step = "temporary"
  PROVE  Api!IsAdmin(u) /\ sess[u] = "normal"
<1>1. PICK w \in Users :
        \/ Api!Login(w) \/ Api!Authenticate(w) \/ Api!Get(w)
        \/ \E r \in Api!Routes, t \in Api!Targets : Api!Send(w, r, t)
        \/ \E to \in {"admin", "user", "off", None} \cup Users :
             Api!Mutate(w, to) \/ Api!MutateUnseen(w, to)
        \/ Api!ProfileStart(w) \/ Api!ProfileWrite(w)
        \/ Api!TemporaryStart(w) \/ Api!TemporaryWrite(w) \/ Api!Complete(w) \/ Api!Logout(w)
    BY DEF Api!Next
<1>2. req \in [Users -> {Api!NoReq} \cup Api!Sent \cup Api!Handled \cup Api!Begun]
  BY DEF Api!ApiInv, Api!ApiTypes
<1>3. w = u BY <1>1, <1>2, Alone
<1>4. req'[u] # Api!NoReq BY DEF Api!NoReq
<1>5. ASSUME NEW q, req' = [req EXCEPT ![u] = q] PROVE q.step = "temporary" BY <1>2, <1>5
<1>6. ASSUME req' = [req EXCEPT ![u] = Api!NoReq] PROVE FALSE BY <1>2, <1>4, <1>6
<1>7. ~Api!Login(u) BY DEF Api!Login
<1>8. ~Api!Get(u) /\ ~Api!Logout(u) /\ ~Api!Complete(u)
  <2>1. ~Api!Get(u) BY <1>6 DEF Api!Get, Api!Reply
  <2>2. ~Api!Logout(u) BY <1>6 DEF Api!Logout, Api!Reply
  <2>3. ~Api!Complete(u) BY <1>6 DEF Api!Complete, Api!Reply
  <2> QED BY <2>1, <2>2, <2>3
<1>9. ~Api!ProfileWrite(u) /\ ~Api!TemporaryWrite(u)
    BY <1>6 DEF Api!ProfileWrite, Api!TemporaryWrite, Api!Reply
<1>10. ASSUME NEW to PROVE ~(Api!Mutate(u, to) \/ Api!MutateUnseen(u, to))
    BY <1>6 DEF Api!Mutate, Api!MutateUnseen, Api!Effect, Api!Reply
<1>11. ~Api!Authenticate(u)
  <2> SUFFICES ASSUME Api!Authenticate(u) PROVE FALSE OBVIOUS
  <2> DEFINE q == [step |-> "handler", route |-> req[u].route, target |-> req[u].target,
                   tag |-> req[u].tag, seen |-> req[u].seen, purpose |-> sess[u]]
  <2>1. Api!Refusal(u) = 0 BY <1>6 DEF Api!Authenticate, Api!Reply
  <2>2. req' = [req EXCEPT ![u] = q] BY <2>1 DEF Api!Authenticate
  <2>3. q.step = "handler" OBVIOUS
  <2> HIDE DEF q
  <2> QED BY <1>5, <2>2, <2>3
<1>12. ASSUME NEW r \in Api!Routes, NEW t \in Api!Targets, Api!Send(u, r, t) PROVE FALSE
  <2> DEFINE g == IF form[u] # None /\ Api!Tagged(r)
                    THEN IF form[u].target = t THEN form[u].tag ELSE None
                    ELSE None
             s == IF form[u] = None THEN None ELSE
                    IF form[u].target = t THEN form[u].val ELSE None
             q == [step |-> "sent", route |-> r, target |-> t, tag |-> g, seen |-> s]
  <2>1. req' = [req EXCEPT ![u] = q] BY <1>12 DEF Api!Send
  <2>2. q.step = "sent" OBVIOUS
  <2> HIDE DEF q
  <2> QED BY <1>5, <2>1, <2>2
<1>13. ~Api!ProfileStart(u)
  <2> SUFFICES ASSUME Api!ProfileStart(u) PROVE FALSE OBVIOUS
  <2> DEFINE q == [step |-> "profile", start |-> now + 1, route |-> req[u].route,
                   target |-> req[u].target, tag |-> req[u].tag, seen |-> req[u].seen,
                   purpose |-> req[u].purpose]
  <2>1. req' = [req EXCEPT ![u] = q] BY DEF Api!ProfileStart, Api!Begin
  <2>2. q.step = "profile" OBVIOUS
  <2> HIDE DEF q
  <2> QED BY <1>5, <2>1, <2>2
<1>14. CASE Api!TemporaryStart(u)
  <2>1. Api!At(u, {"temporary"}) /\ Api!Actor(u) /\ sess[u] = "normal"
      BY <1>6, <1>14 DEF Api!TemporaryStart, Api!Reply
  <2>2. Proper(req[u].route) BY <2>1, RequestIs DEF Api!At, Api!NoReq
  <2> QED BY <2>1, <2>2, ActorIs DEF Api!At, Proper
<1> QED BY <1>1, <1>3, <1>7, <1>8, <1>9, <1>10, <1>11, <1>12, <1>13, <1>14

\* A confined session gets only the password change.
LEMMA ConfinedStep ==
  ASSUME Api!ApiAssumption, Api!ApiInv, Api!Next, NEW u \in Users, Ends(u),
         sess[u] = "password_change", StatusIn({200, 201})
  PROVE  req[u].route.act = "complete"
<1>1. Ending(u) BY EndingIs
<1>2. ~(Api!Authenticate(u) /\ Api!Refusal(u) # 0) BY Unrefusable
<1>3. Proper(req[u].route) /\ Api!PendingSound(u) /\ Api!HandlerSound(u)
  BY RequestIs DEF Ends, Api!ApiInv
<1>4. ~Api!Logout(u)
  <2> SUFFICES ASSUME Api!Logout(u) PROVE StatusIn({204}) BY DEF StatusIn
  <2> QED BY DEF Api!Logout, Api!Reply, StatusIn
<1>5. ASSUME NEW to, Api!Mutate(u, to) \/ Api!MutateUnseen(u, to)
      PROVE  req[u].step = "handler" /\ req[u].route.act # "logout"
    BY <1>5, MutationIs
<1>9. ~\E s \in Denials : Api!Reply(u, s, FALSE)
  <2> SUFFICES ASSUME NEW s \in Denials, Api!Reply(u, s, FALSE) PROVE FALSE OBVIOUS
  <2>1. answer'.status = s BY DEF Api!Reply
  <2> QED BY <2>1 DEF StatusIn, Denials
<1>6. (req[u].step = "handler" \/ Api!Pending(u)) /\ req[u].route.act # "logout"
  <2>1. CASE Api!Get(u) BY <2>1 DEF Api!Get, Api!At
  <2>2. CASE Api!ProfileWrite(u) \/ Api!TemporaryWrite(u)
      BY <1>3, <2>2 DEF Api!ProfileWrite, Api!TemporaryWrite, Api!PendingSound, Api!Pending
  <2>4. CASE Api!Complete(u) BY <2>4 DEF Api!Complete, Api!At
  <2> QED BY <1>1, <1>2, <1>4, <1>5, <1>9, <2>1, <2>2, <2>4 DEF Ending
<1>7. req[u].purpose = "password_change" BY <1>3, <1>6 DEF Api!HandlerSound
<1>8. req[u].route.gate = "session" BY <1>3, <1>6, <1>7 DEF Api!HandlerSound
<1> QED BY <1>3, <1>6, <1>8 DEF Proper

\* Only a mutation ends a request that carries a version.
LEMMA VersionedStep ==
  ASSUME Api!ApiInv, Api!Next, NEW u \in Users, Ends(u), req[u].route.act \in {"update", "delete"},
         ~(Api!Authenticate(u) /\ Api!Refusal(u) # 0)
  PROVE  \E to : Api!Mutate(u, to) \/ Api!MutateUnseen(u, to)
<1>1. Ending(u) BY EndingIs
<1>2. ~Api!Get(u) BY DEF Api!Get, Api!At
<1>3. ~Api!TemporaryStart(u) BY DEF Api!TemporaryStart, Api!At
<1>4. ~Api!Complete(u) BY DEF Api!Complete, Api!At
<1>5. ~Api!Logout(u) BY DEF Api!Logout, Api!At
<1>6. ~Api!ProfileWrite(u) /\ ~Api!TemporaryWrite(u)
  <2>1. Api!PendingSound(u) BY DEF Api!ApiInv
  <2> QED BY <2>1 DEF Api!PendingSound, Api!Pending, Api!ProfileWrite, Api!TemporaryWrite
<1> QED BY <1>1, <1>2, <1>3, <1>4, <1>5, <1>6 DEF Ending

\* A versioned write replaces what its author saw.
LEMMA UpdateStep ==
  ASSUME Api!ApiInv, Api!Next, NEW u \in Users, Api!Did(u), req[u].route.act \in {"update", "delete"}
  PROVE  row[req[u].target].val = req[u].seen
<1>1. Ends(u) /\ answer'.did BY DEF Api!Did, Ends
<1>2. ~(Api!Authenticate(u) /\ Api!Refusal(u) # 0) BY <1>1, RefusalStatus
<1>3. PICK to : Api!Mutate(u, to) \/ Api!MutateUnseen(u, to) BY <1>1, <1>2, VersionedStep
<1>4. Api!Failure(u) = "none" BY <1>1, <1>3, MutationIs
<1>5. req[u].tag # None /\ row[req[u].target].ver = req[u].tag
    BY <1>1, <1>4, Unrefused DEF Ends, Api!Tagged
<1>6. Api!ReqSound(u) BY DEF Api!ApiInv
<1>7. Api!Agrees(req[u].target, req[u].tag, req[u].seen)
  BY <1>1, <1>5, <1>6 DEF Ends, Api!ReqSound
<1> QED BY <1>5, <1>7 DEF Api!Agrees

\* A conflict is real.
LEMMA ConflictStep ==
  ASSUME Api!ApiInv, Api!Next, NEW u \in Users, Ends(u), StatusIn({409}),
         req[u].route.act \in {"update", "delete"}
  PROVE  \/ row[req[u].target].val # req[u].seen
         \/ req[u].target \in Users /\ req[u].route.act = "delete"
<1>1. ~(Api!Authenticate(u) /\ Api!Refusal(u) # 0) BY Unrefusable
<1>2. PICK to : Api!Mutate(u, to) \/ Api!MutateUnseen(u, to) BY <1>1, VersionedStep
<1>8. \/ Api!Failure(u) = "none" /\ StatusIn({200, 500})
      \/ Api!Failure(u) # "none" /\ StatusIn({Api!StatusOf(Api!Failure(u))})
    BY <1>2, MutationIs
<1>3. Api!Failure(u) # "none" /\ Api!StatusOf(Api!Failure(u)) = 409 BY <1>8 DEF StatusIn
<1>4. Api!Failure(u) \in {"conflict", "protected"} BY <1>3, FailureIs DEF Errors, Api!StatusOf
<1> DEFINE r == req[u].route
           t == req[u].target
<1>5. r.act # "create" OBVIOUS
<1>6. CASE Api!Failure(u) = "conflict"
  <2>1. req[u].tag # None /\ row[t].ver # req[u].tag BY <1>5, <1>6 DEF Api!Failure, Api!Tagged
  <2>2. Api!ReqSound(u) BY DEF Api!ApiInv
  <2>3. Api!Agrees(t, req[u].tag, req[u].seen) BY <2>1, <2>2 DEF Ends, Api!ReqSound
  <2> QED BY <2>1, <2>3 DEF Api!Agrees
<1>7. CASE Api!Failure(u) = "protected"
  <2>1. Api!Protected(u) BY <1>5, <1>7 DEF Api!Failure
  <2> QED BY <2>1 DEF Api!Protected
<1> QED BY <1>4, <1>6, <1>7

\* Whoever changes a row is entitled to at that moment; only a temporary password may be
\* issued by an administrator who was entitled when its transaction read it and no longer
\* is, to another account that is active.  A session under a temporary password gets only
\* the password change (admin_write, self_service_write, issue_temporary_password,
\* require_full_session).
THEOREM ApiStepsAlways == Api!ApiAssumption /\ Api!Spec => [][Api!ApiSteps]_(Api!vars)
<1> SUFFICES ASSUME Api!ApiAssumption PROVE Api!Spec => [][Api!ApiSteps]_(Api!vars) OBVIOUS
<1>1. Api!ApiInv /\ [Api!Next]_(Api!vars) => [Api!ApiSteps]_(Api!vars)
  <2> SUFFICES ASSUME Api!ApiInv, Api!Next PROVE Api!ApiSteps OBVIOUS
  <2>1. Api!ActorEntitled
    <3>1. \A u \in Users : Api!Did(u) => Entitled(u) \/ IssuedBy(u) BY EntitledStep
    <3> QED BY <3>1, ReadStep DEF Api!ActorEntitled, Entitled, IssuedBy
  <2>2. Api!ConfinedUntilReset BY ConfinedStep DEF Api!ConfinedUntilReset, Ends, StatusIn
  <2> QED BY <2>1, <2>2 DEF Api!ApiSteps
<1> QED BY <1>1, ApiInvariant, PTL DEF Api!Spec

\* A versioned write replaces exactly what its author saw, and a conflict means that the
\* row had changed (if_match, etag, expected_updated_at, update_me).
THEOREM VersionsAlwaysKept == Api!ApiAssumption /\ Api!Spec => [][Api!VersionsKept]_(Api!vars)
<1> SUFFICES ASSUME Api!ApiAssumption PROVE Api!Spec => [][Api!VersionsKept]_(Api!vars) OBVIOUS
<1>1. Api!ApiInv /\ [Api!Next]_(Api!vars) => [Api!VersionsKept]_(Api!vars)
  <2> SUFFICES ASSUME Api!ApiInv, Api!Next PROVE Api!VersionsKept OBVIOUS
  <2>1. Api!NoLostUpdate BY UpdateStep DEF Api!NoLostUpdate
  <2>2. Api!ConflictIsReal BY ConflictStep DEF Api!ConflictIsReal, Ends, StatusIn
  <2> QED BY <2>1, <2>2 DEF Api!VersionsKept
<1> QED BY <1>1, ApiInvariant, PTL DEF Api!Spec
=============================================================================
