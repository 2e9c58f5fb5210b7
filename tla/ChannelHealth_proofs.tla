------------------------ MODULE ChannelHealth_proofs ------------------------
\* Proofs about ChannelHealth, for any number of requests, reloads and
\* settings changes.
EXTENDS ChannelHealth, Integers, Sequences, FiniteSetTheorems, FunctionTheorems,
        SequenceTheorems, TLAPS

LEMMA InitProbe == Init => ProbeInv
BY HealthAssumption DEF Init, ProbeInv, ProbeTypes, ClaimHasDeadline, NoStuckProbe, Closed, Word,
  Places

\* A step that makes no claim and takes no request away from its claim.
LEMMA KeepsProbes ==
  ASSUME ProbeInv, ProbeTypes',
         \A o \in Objs : \/ cooldown'[o] = cooldown[o]
                         \/ ~cooldown'[o].claimed,
         \A o \in Objs, r \in Requests :
           cooldown'[o].claimed /\ r \in Probes(o, cooldown[o].until)
             => r \in Probes(o, cooldown[o].until)'
  PROVE  ProbeInv'
BY DEF ProbeInv, ClaimHasDeadline, NoStuckProbe, Probes

\* Requests that do not hold a claim may come and go.
LEMMA Bystander ==
  ASSUME ProbeInv, ProbeTypes', NEW r \in Requests,
         \A o \in Objs : cooldown'[o] = cooldown[o] \/ ~cooldown'[o].claimed,
         \A q \in Requests \ {r} : pc'[q] = pc[q] /\ obj'[q] = obj[q] /\ claim'[q] = claim[q],
         \/ pc[r] \notin Counted \cup {"count", "unclaim"}
         \/ /\ pc'[r] \in Counted \cup {"count", "unclaim"}
            /\ obj'[r] = obj[r] /\ claim'[r] = claim[r]
  PROVE  ProbeInv'
<1>1. ASSUME NEW o \in Objs, NEW q \in Requests,
             cooldown'[o].claimed, q \in Probes(o, cooldown[o].until)
      PROVE  q \in Probes(o, cooldown[o].until)'
  <2>1. /\ obj[q] = o /\ claim[q] = cooldown[o].until
        /\ pc[q] \in Counted \cup {"count", "unclaim"}
    BY <1>1 DEF Probes
  <2>2. cooldown'[o] = cooldown[o] BY <1>1
  <2>3. /\ obj'[q] = obj[q] /\ claim'[q] = claim[q]
        /\ pc'[q] \in Counted \cup {"count", "unclaim"}
    BY <2>1
  <2> QED BY <2>1, <2>2, <2>3 DEF Probes
<1> QED BY <1>1, KeepsProbes

\* Every store writes a word.
LEMMA StepWord ==
  ASSUME ProbeInv, [Next]_vars PROVE cooldown' \in [Objs -> [until: Nat, claimed: BOOLEAN]]
<1> DEFINE Words == [until: Nat, claimed: BOOLEAN]
<1>1. cooldown \in [Objs -> Words] /\ \A p \in Policies : p.cooldown \in Nat
  BY HealthAssumption DEF ProbeInv, ProbeTypes, PolicySpace
<1>2. \A n \in Nat, b \in BOOLEAN : Word(n, b) \in Words BY DEF Word
<1>3. \A r \in Requests : at[r] \in Nat /\ encode_millis(at[r]) \in Nat
  BY DEF ProbeInv, ProbeTypes, encode_millis
<1> HIDE DEF Words
<1>4. \A o, w : w \in Words => [cooldown EXCEPT ![o] = w] \in [Objs -> Words] BY <1>1
<1>5. ASSUME NEW r \in Requests, Acquire(r) PROVE cooldown' \in [Objs -> Words]
  BY <1>1, <1>5 DEF Acquire, Words
<1>6. ASSUME NEW r \in Requests, FailOpen(r) PROVE cooldown' \in [Objs -> Words]
  BY <1>2, <1>3, <1>4, <1>6 DEF FailOpen
<1>7. ASSUME NEW r \in Requests, HeadersClose(r) PROVE cooldown' \in [Objs -> Words]
  BY <1>2, <1>4, <1>7 DEF HeadersClose, Closed
<1>8. ASSUME NEW r \in Requests, ProbeReopen(r) PROVE cooldown' \in [Objs -> Words]
  <2>1. \/ cooldown' = cooldown
        \/ cooldown' = [cooldown EXCEPT ![obj[r]] = Word(encode_millis(at[r]), FALSE)]
    BY <1>8 DEF ProbeReopen, ExchangeClaim
  <2>2. Word(encode_millis(at[r]), FALSE) \in Words BY <1>2, <1>3
  <2> QED BY <1>1, <1>4, <2>1, <2>2
<1>13. ASSUME NEW r \in Requests, Unclaim(r) PROVE cooldown' \in [Objs -> Words]
  <2>1. \/ cooldown' = cooldown
        \/ /\ cooldown[obj[r]] = Word(claim[r], TRUE)
           /\ cooldown' = [cooldown EXCEPT ![obj[r]] = Word(claim[r], FALSE)]
    BY <1>13 DEF Unclaim, ExchangeClaim
  <2>2. obj[r] \in Objs /\ cooldown[obj[r]] = Word(claim[r], TRUE) => claim[r] \in Nat
    BY <1>1 DEF Word, Words
  <2>3. obj[r] \in Objs /\ cooldown[obj[r]] = Word(claim[r], TRUE)
          => Word(claim[r], FALSE) \in Words
    BY <1>2, <2>2
  <2> QED BY <1>1, <2>1, <2>3
<1>14. Closed \in Words BY <1>2 DEF Closed
<1>9. ASSUME NEW r \in Requests, Insert(r) PROVE cooldown' \in [Objs -> Words]
  <2>1. cooldown' = cooldown \/ cooldown' = [cooldown EXCEPT ![Fresh] = Closed]
    BY <1>9 DEF Insert, NewState, object
  <2> QED BY <1>1, <1>4, <1>14, <2>1
<1>10. ASSUME Ensure PROVE cooldown' \in [Objs -> Words]
  <2>1. cooldown' = cooldown \/ cooldown' = [cooldown EXCEPT ![Fresh] = Closed]
    BY <1>10 DEF Ensure, NewState, object
  <2> QED BY <1>1, <1>4, <1>14, <2>1
<1>11. ASSUME NEW r \in Requests,
              \/ Lookup(r) \/ Refuse(r) \/ Count(r) \/ Headers(r) \/ Fail(r)
              \/ FailCount(r) \/ ProbeFail(r) \/ Release(r) \/ Check(r) \/ Remove(r)
       PROVE  cooldown' = cooldown
  BY <1>11 DEF Lookup, Refuse, Count, Headers, Fail, FailCount, ProbeFail, Release, Check, Remove,
    object
<1>12. CASE \/ Sweep \/ Retain \/ Tick \/ UNCHANGED vars
            \/ \E b \in BOOLEAN : Reload(b)
            \/ \E p \in Policies : UpdatePolicy(p)
  BY <1>1, <1>12 DEF Sweep, Retain, Tick, Reload, UpdatePolicy, object, vars, Words
<1> QED
  BY <1>1, <1>5, <1>6, <1>7, <1>8, <1>9, <1>10, <1>11, <1>12, <1>13 DEF Next, Request, Reconcile,
    Words

LEMMA StepProbeTypes == ASSUME ProbeInv, [Next]_vars PROVE ProbeTypes'
<1> DEFINE T == /\ pc' \in [Requests -> Places]
                /\ at' \in [Requests -> Nat] /\ now' \in Nat /\ policy' \in Policies
                /\ DOMAIN obj' = Requests /\ DOMAIN claim' = Requests
<1> USE DEF ProbeInv, ProbeTypes, Goto, Forget
<1>1. \A p \in Policies : p.cooldown \in Nat BY HealthAssumption DEF PolicySpace
<1>2. ASSUME NEW r \in Requests, Lookup(r) PROVE T BY <1>2 DEF Lookup, object, Places
<1>3. ASSUME NEW r \in Requests, Insert(r) PROVE T BY <1>3 DEF Insert, object, Places
<1>4. ASSUME NEW r \in Requests, Acquire(r) PROVE T BY <1>4 DEF Acquire, Places
<1>5. ASSUME NEW r \in Requests, Refuse(r) \/ Check(r) \/ Remove(r) PROVE T
  BY <1>5 DEF Refuse, Check, Remove, object, lease, Places
<1>6. ASSUME NEW r \in Requests, Count(r) \/ Headers(r) \/ HeadersClose(r) PROVE T
  BY <1>6 DEF Count, Headers, HeadersClose, lease, Places, Counted
<1>7. ASSUME NEW r \in Requests, Fail(r) \/ ProbeFail(r) PROVE T
  BY <1>1, <1>7 DEF Fail, ProbeFail, object, Places, Counted
<1>8. ASSUME NEW r \in Requests, FailCount(r) \/ FailOpen(r) PROVE T
  BY <1>8 DEF FailCount, FailOpen, lease, Places, Counted
<1>9. ASSUME NEW r \in Requests, ProbeReopen(r) \/ Unclaim(r) PROVE T
  BY <1>9 DEF ProbeReopen, Unclaim, lease, Places, Counted
<1>10. ASSUME NEW r \in Requests, Release(r) PROVE T BY <1>10 DEF Release, Places
<1>11. ASSUME Reconcile \/ (\E b \in BOOLEAN : Reload(b)) PROVE T
  BY <1>11 DEF Reconcile, Sweep, Retain, Ensure, Reload, object, lease
<1>12. ASSUME Tick \/ (\E p \in Policies : UpdatePolicy(p)) \/ UNCHANGED vars PROVE T
  BY <1>12 DEF Tick, UpdatePolicy, object, lease, vars
<1> QED
  <2> HIDE DEF T
  <2>1. T BY <1>2, <1>3, <1>4, <1>5, <1>6, <1>7, <1>8, <1>9, <1>10, <1>11, <1>12 DEF Next, Request
  <2> QED BY <2>1, StepWord DEF T

LEMMA StepProbe == ASSUME ProbeInv, [Next]_vars PROVE ProbeInv'
<1>1. ProbeTypes' /\ ProbeTypes BY StepProbeTypes DEF ProbeInv
<1> USE <1>1 DEF ProbeTypes, Goto, Forget
<1>2. ASSUME NEW r \in Requests, Lookup(r) PROVE ProbeInv'
  BY <1>2, Bystander DEF Lookup, object, Counted
<1>3. ASSUME NEW r \in Requests, Insert(r) PROVE ProbeInv'
  BY <1>3, Bystander DEF Insert, object, NewState, Closed, Word, Counted
<1>4. ASSUME NEW r \in Requests, Acquire(r) PROVE ProbeInv'
  <2>1. CASE cooldown' = cooldown BY <1>4, <2>1, Bystander DEF Acquire, Counted
  <2>2. CASE cooldown' # cooldown
    <3> DEFINE o == obj[r]
    <3>1. /\ cooldown[o] # Closed /\ ~cooldown[o].claimed
          /\ cooldown' = [cooldown EXCEPT ![o].claimed = TRUE]
          /\ claim' = [claim EXCEPT ![r] = cooldown[o].until]
          /\ pc' = [pc EXCEPT ![r] = "count"] /\ obj' = obj /\ pc[r] = "acquire"
      BY <1>4, <2>2 DEF Acquire
    <3>2. \A p \in Objs : p # o => cooldown'[p] = cooldown[p] BY <3>1
    <3>3. o \in Objs => /\ cooldown'[o].until = cooldown[o].until
                        /\ cooldown[o].until # 0
      BY <3>1 DEF Closed, Word
    <3>4. o \in Objs => r \in Probes(o, cooldown[o].until)' BY <3>1, <3>3 DEF Probes
    <3>5. \A p \in Objs : p # o /\ cooldown'[p].claimed => Probes(p, cooldown[p].until)' # {}
      <4> SUFFICES ASSUME NEW p \in Objs, p # o, cooldown'[p].claimed
                   PROVE  Probes(p, cooldown[p].until)' # {}
        OBVIOUS
      <4>1. PICK q \in Requests : q \in Probes(p, cooldown[p].until)
        BY <3>2 DEF ProbeInv, NoStuckProbe, Probes
      <4>2. q # r BY <3>1, <4>1 DEF Probes, Counted
      <4>3. q \in Probes(p, cooldown[p].until)' BY <3>1, <3>2, <4>1, <4>2 DEF Probes
      <4> QED BY <4>3
    <3>6. NoStuckProbe'
      <4>1. ASSUME NEW p \in Objs, cooldown'[p].claimed PROVE Probes(p, cooldown[p].until)' # {}
        <5>1. CASE p = o BY <3>1, <3>4, <5>1
        <5>2. CASE p # o BY <3>5, <4>1, <5>2
        <5> QED BY <5>1, <5>2
      <4> QED BY <4>1 DEF NoStuckProbe
    <3>7. ClaimHasDeadline' BY <3>2, <3>3 DEF ProbeInv, ClaimHasDeadline
    <3> QED BY <3>6, <3>7 DEF ProbeInv
  <2> QED BY <2>1, <2>2
<1>5. ASSUME NEW r \in Requests, Refuse(r) \/ Check(r) \/ Remove(r) PROVE ProbeInv'
  BY <1>5, Bystander DEF Refuse, Check, Remove, object, lease, Counted
<1>6. ASSUME NEW r \in Requests, Count(r) \/ Headers(r) \/ FailCount(r) PROVE ProbeInv'
  BY <1>6, Bystander DEF Count, Headers, FailCount, lease, Counted
<1>7. ASSUME NEW r \in Requests, HeadersClose(r) \/ FailOpen(r) PROVE ProbeInv'
  BY <1>7, Bystander DEF HeadersClose, FailOpen, Closed, Word, lease, Counted
<1>8. ASSUME NEW r \in Requests, Fail(r) \/ ProbeFail(r) \/ Release(r) PROVE ProbeInv'
  BY <1>8, Bystander DEF Fail, ProbeFail, Release, object, Counted
<1>9. ASSUME NEW r \in Requests, ProbeReopen(r) PROVE ProbeInv'
  <2>1. \A o \in Objs : cooldown'[o] = cooldown[o] \/ ~cooldown'[o].claimed
    BY <1>9 DEF ProbeReopen, ExchangeClaim, Word
  <2> QED BY <1>9, <2>1, Bystander DEF ProbeReopen, lease, Counted
<1>10. ASSUME NEW r \in Requests, Unclaim(r) PROVE ProbeInv'
  <2>1. \A o \in Objs : cooldown'[o] = cooldown[o] \/ ~cooldown'[o].claimed
    BY <1>10 DEF Unclaim, ExchangeClaim, Word
  <2>2. ASSUME NEW o \in Objs, cooldown'[o].claimed, r \in Probes(o, cooldown[o].until)
        PROVE  FALSE
    <3>1. obj[r] = o /\ claim[r] = cooldown[o].until /\ cooldown'[o] = cooldown[o]
      BY <2>1, <2>2 DEF Probes
    <3>2. cooldown[o].claimed /\ claim[r] # 0 BY <2>2, <3>1 DEF ProbeInv, ClaimHasDeadline
    <3>3. cooldown[o] = Word(claim[r], TRUE) BY <3>1, <3>2 DEF Word
    <3>4. cooldown' = [cooldown EXCEPT ![o] = Word(claim[r], FALSE)]
      BY <1>10, <3>1, <3>2, <3>3 DEF Unclaim, ExchangeClaim
    <3> QED BY <2>2, <3>4 DEF Word
  <2>3. ASSUME NEW o \in Objs, NEW q \in Requests,
               cooldown'[o].claimed, q \in Probes(o, cooldown[o].until)
        PROVE  q \in Probes(o, cooldown[o].until)'
    <3>1. q # r BY <2>2, <2>3
    <3>2. cooldown'[o] = cooldown[o] BY <2>1, <2>3
    <3> QED BY <1>10, <2>3, <3>1, <3>2 DEF Probes, Unclaim, lease
  <2> QED BY <2>1, <2>3, KeepsProbes
<1>11. CASE Reconcile \/ (\E b \in BOOLEAN : Reload(b))
  <2>1. /\ UNCHANGED <<pc, obj, claim>>
        /\ \A o \in Objs : cooldown'[o] = cooldown[o] \/ ~cooldown'[o].claimed
    BY <1>11 DEF Reconcile, Sweep, Retain, Ensure, NewState, Reload, object, lease, Closed, Word
  <2> QED BY <2>1, KeepsProbes DEF Probes
<1>12. CASE Tick \/ (\E p \in Policies : UpdatePolicy(p)) \/ UNCHANGED vars
  <2>1. UNCHANGED <<pc, obj, claim, cooldown>>
    BY <1>12 DEF Tick, UpdatePolicy, object, lease, vars
  <2> QED BY <2>1, KeepsProbes DEF Probes
<1> QED BY <1>2, <1>3, <1>4, <1>5, <1>6, <1>7, <1>8, <1>9, <1>10, <1>11, <1>12 DEF Next, Request

\* No interleaving of leases, late failures and reloads leaves a half-open claim
\* that nobody gives back.
THEOREM ProbeAlwaysReturned == Spec => []NoStuckProbe
<1>1. ProbeInv /\ [Next]_vars => ProbeInv' BY StepProbe
<1>2. ProbeInv => NoStuckProbe BY DEF ProbeInv
<1> QED BY InitProbe, <1>1, <1>2, PTL DEF Spec

\* There are more allocations than requests that could refer to them.
LEMMA FreshIsFree ==
  ASSUME RegistryTypes, entry = None PROVE Fresh \in Objs /\ Fresh \in Free
<1> DEFINE U == {obj[r] : r \in Requests}
<1>0. obj \in Surjection(Requests, U) BY DEF RegistryTypes, Surjection
<1>1. IsFiniteSet(U) /\ Cardinality(U) <= Cardinality(Requests)
  BY <1>0, FS_Surjection, HealthAssumption
<1>2. ~(Objs \subseteq U) BY <1>1, FS_Subset, FS_CardinalityType, HealthAssumption
<1>3. \E o \in Objs : o \in Free BY <1>2, HealthAssumption DEF Free
<1> QED BY <1>3 DEF Fresh, Free

LEMMA InitRegistry == Init => RegistryInv
BY HealthAssumption DEF Init, RegistryInv, RegistryTypes, MarkFollows, OrphansAreRetired

LEMMA StepRegistry == ASSUME RegistryInv, [Next]_vars PROVE RegistryInv'
<1> USE DEF RegistryInv, RegistryTypes, MarkFollows, OrphansAreRetired
<1>1. None \notin Objs BY HealthAssumption
<1>2. ASSUME NEW r \in Requests, Lookup(r) PROVE RegistryInv' BY <1>2 DEF Lookup, object, registry
<1>3. ASSUME NEW r \in Requests, Insert(r) PROVE RegistryInv'
  <2>1. CASE entry # None BY <1>3, <2>1 DEF Insert, object
  <2>2. CASE entry = None
    <3>1. Fresh \in Objs BY <2>2, FreshIsFree
    <3>2. /\ step = "idle" /\ entry' = Fresh /\ obj' = [obj EXCEPT ![r] = Fresh]
          /\ active' = [active EXCEPT ![Fresh] = listed # "out"]
          /\ UNCHANGED <<listed, step, next>>
      BY <1>3, <2>2 DEF Insert, NewState
    <3>3. active'[Fresh] = (listed # "out") /\ listed # "in" BY <2>2, <3>1, <3>2
    <3>4. active' \in [Objs -> BOOLEAN] BY <3>2
    <3>5. RegistryTypes' BY <3>1, <3>2, <3>4
    <3>6. OrphansAreRetired' BY <1>1, <2>2, <3>1, <3>2, FreshIsFree
    <3> HIDE DEF RegistryInv, MarkFollows, OrphansAreRetired
    <3>7. MarkFollows' BY <1>1, <3>1, <3>2, <3>3 DEF MarkFollows
    <3> QED BY <3>5, <3>6, <3>7 DEF RegistryInv
  <2> QED BY <2>1, <2>2
<1>4. ASSUME NEW r \in Requests, Refuse(r) \/ Check(r) PROVE RegistryInv'
  BY <1>4 DEF Refuse, Check, Forget, Goto, object, registry, lease
<1>5. ASSUME NEW r \in Requests,
             \/ Acquire(r) \/ Count(r) \/ Headers(r) \/ HeadersClose(r) \/ Fail(r)
             \/ FailCount(r) \/ FailOpen(r) \/ ProbeFail(r) \/ ProbeReopen(r)
             \/ Release(r) \/ Unclaim(r)
      PROVE  UNCHANGED <<entry, listed, active, step, next, obj>>
  BY <1>5 DEF Acquire, Count, Headers, HeadersClose, Fail, FailCount, FailOpen, ProbeFail,
    ProbeReopen, Release, Unclaim, object, registry, lease
<1>6. ASSUME NEW r \in Requests, Remove(r) PROVE RegistryInv'
  <2>1. /\ entry' = entry \/ (entry' = None /\ entry = obj[r] /\ ~active[obj[r]])
        /\ step # "retain" /\ obj' = [obj EXCEPT ![r] = None]
        /\ UNCHANGED <<listed, active, step, next>>
    BY <1>6 DEF Remove, Forget, object
  <2> QED BY <2>1
<1>7. ASSUME NEW b \in BOOLEAN, Reload(b) PROVE RegistryInv' BY <1>7 DEF Reload, object, lease
<1>8. CASE Sweep BY <1>1, <1>8 DEF Sweep, lease
<1>9. CASE Retain BY <1>9 DEF Retain, object, lease
<1>10. CASE Ensure
  <2>1. CASE next /\ entry = None
    <3>1. Fresh \in Objs BY <2>1, FreshIsFree
    <3>2. /\ entry' = Fresh /\ listed' = "in" /\ step' = "idle"
          /\ active' = [active EXCEPT ![Fresh] = TRUE]
          /\ UNCHANGED <<next, obj>>
      BY <1>10, <2>1 DEF Ensure, NewState, lease
    <3>3. OrphansAreRetired' BY <1>1, <2>1, <3>1, <3>2, FreshIsFree
    <3>4. RegistryTypes' /\ MarkFollows' BY <1>1, <3>1, <3>2
    <3> QED BY <3>3, <3>4
  <2>2. CASE next /\ entry # None BY <1>10, <2>2 DEF Ensure, lease
  <2>3. CASE ~next BY <1>10, <2>3 DEF Ensure, object, lease
  <2> QED BY <2>1, <2>2, <2>3
<1>11. ASSUME Tick \/ (\E p \in Policies : UpdatePolicy(p)) \/ UNCHANGED vars
       PROVE  UNCHANGED <<entry, listed, active, step, next, obj>>
  BY <1>11 DEF Tick, UpdatePolicy, object, registry, lease, vars
<1>12. CASE UNCHANGED <<entry, listed, active, step, next, obj>> BY <1>12
<1> QED
  BY <1>2, <1>3, <1>4, <1>5, <1>6, <1>7, <1>8, <1>9, <1>10, <1>11, <1>12 DEF Next, Request,
    Reconcile

\* Between reloads the registry has an active state exactly for a channel of
\* the snapshot, whatever requests with older snapshots do.
THEOREM RegistryAgrees == Spec => []RegistryFollowsSnapshot
<1>1. RegistryInv /\ [Next]_vars => RegistryInv' BY StepRegistry
<1>2. RegistryInv => RegistryFollowsSnapshot
  BY DEF RegistryInv, MarkFollows, RegistryFollowsSnapshot
<1> QED BY InitRegistry, <1>1, <1>2, PTL DEF Spec

\* A request never works on an active state that the registry does not hold.
THEOREM OrphansAlwaysRetired == Spec => []OrphansAreRetired
<1>1. RegistryInv /\ [Next]_vars => RegistryInv' BY StepRegistry
<1>2. RegistryInv => OrphansAreRetired BY DEF RegistryInv
<1> QED BY InitRegistry, <1>1, <1>2, PTL DEF Spec

LEMMA TypesOfRegistry == TypeOK => RegistryTypes
BY DEF TypeOK, RegistryTypes

LEMMA FiniteHolding == \A o : IsFiniteSet(Holding(o))
BY FS_Subset, HealthAssumption DEF Holding

\* Somebody who holds a state is counted.
LEMMA HeldIsCounted ==
  ASSUME TypeOK, CountExact, NEW r \in Requests, pc[r] \in Counted
  PROVE  obj[r] \in Objs /\ r \in Holding(obj[r]) /\ inFlight[obj[r]] >= 1
<1>1. obj[r] \in Objs /\ r \in Holding(obj[r]) BY DEF TypeOK, Counted, Holding
<1>2. Cardinality(Holding(obj[r])) # 0 /\ Cardinality(Holding(obj[r])) \in Nat
  BY <1>1, FiniteHolding, FS_EmptySet, FS_CardinalityType
<1>3. inFlight[obj[r]] = Cardinality(Holding(obj[r])) BY <1>1 DEF CountExact
<1> QED BY <1>1, <1>2, <1>3

LEMMA StepHealthTypes ==
  ASSUME TypeOK, CountExact, [Next]_vars PROVE TypeOK'
<1> USE DEF TypeOK, Goto, Forget, object, registry, lease, bounds
<1>0. \A p \in Policies : p.cooldown \in Nat /\ p.threshold \in Nat
  BY HealthAssumption DEF PolicySpace
<1>a. None \notin Objs /\ MaxSelects \in Nat /\ MaxReloads \in Nat /\ MaxPolicies \in Nat
  BY HealthAssumption
<1>1. ASSUME NEW r \in Requests, Lookup(r) PROVE TypeOK'
  <2>1. /\ pc[r] = "idle" /\ selects' \in 0..MaxSelects /\ at' \in [Requests -> Nat]
        /\ UNCHANGED <<now, policy, entry, listed, inFlight, failures, cooldown, active,
                       step, next, claim, threshold, last, reloads, policies>>
    BY <1>1, <1>a DEF Lookup
  <2>2. CASE entry = None BY <1>1, <2>1, <2>2 DEF Lookup, Places
  <2>3. CASE entry # None BY <1>1, <1>a, <2>1, <2>3 DEF Lookup, Places
  <2> QED BY <2>2, <2>3
<1>2. ASSUME NEW r \in Requests, Insert(r) PROVE TypeOK'
  <2>1. CASE entry # None BY <1>2, <1>a, <2>1 DEF Insert, Places
  <2>2. CASE entry = None
    <3>1. Fresh \in Objs BY <2>2, FreshIsFree, TypesOfRegistry
    <3>2. /\ pc[r] = "insert" /\ pc' = [pc EXCEPT ![r] = "acquire"]
          /\ entry' = Fresh /\ obj' = [obj EXCEPT ![r] = Fresh]
          /\ inFlight' = [inFlight EXCEPT ![Fresh] = 0]
          /\ failures' = [failures EXCEPT ![Fresh] = 0]
          /\ cooldown' = [cooldown EXCEPT ![Fresh] = Closed]
          /\ active' = [active EXCEPT ![Fresh] = listed # "out"]
          /\ UNCHANGED <<now, policy, listed, step, next, claim, at, threshold, last,
                         selects, reloads, policies>>
      BY <1>2, <2>2 DEF Insert, NewState
    <3>3. Closed \in [until: Nat, claimed: BOOLEAN] BY DEF Closed, Word
    <3>4. /\ inFlight' \in [Objs -> Nat] /\ failures' \in [Objs -> Nat]
          /\ cooldown' \in [Objs -> [until: Nat, claimed: BOOLEAN]]
          /\ active' \in [Objs -> BOOLEAN]
      BY <3>2, <3>3
    <3>5. /\ pc' \in [Requests -> Places] /\ obj' \in [Requests -> Objs \cup {None}]
          /\ \A q \in Requests : obj'[q] = None <=> pc'[q] \in {"idle", "insert"}
      BY <1>a, <3>1, <3>2 DEF Places
    <3> QED BY <3>1, <3>2, <3>4, <3>5
  <2> QED BY <2>1, <2>2
<1>3. ASSUME NEW r \in Requests, Acquire(r) PROVE TypeOK'
  <2>1. /\ pc[r] = "acquire" /\ pc' = [pc EXCEPT ![r] = "count"]
        /\ UNCHANGED <<now, policy, entry, listed, step, next, inFlight, failures, active,
                       obj, at, threshold, last, selects, reloads, policies>>
    BY <1>3 DEF Acquire
  <2>2. obj[r] \in Objs BY <2>1
  <2>3. \/ UNCHANGED <<cooldown, claim>>
        \/ /\ cooldown' = [cooldown EXCEPT ![obj[r]].claimed = TRUE]
           /\ claim' = [claim EXCEPT ![r] = cooldown[obj[r]].until]
    BY <1>3 DEF Acquire
  <2>4. /\ cooldown' \in [Objs -> [until: Nat, claimed: BOOLEAN]]
        /\ claim' \in [Requests -> Nat]
    <3>1. cooldown[obj[r]].until \in Nat BY <2>2
    <3>2. [cooldown EXCEPT ![obj[r]].claimed = TRUE]
            \in [Objs -> [until: Nat, claimed: BOOLEAN]]
      BY <2>2
    <3> QED BY <2>3, <3>1, <3>2
  <2>5. /\ pc' \in [Requests -> Places]
        /\ \A q \in Requests : obj'[q] = None <=> pc'[q] \in {"idle", "insert"}
    BY <2>1 DEF Places
  <2> QED BY <2>1, <2>4, <2>5
<1>4. ASSUME NEW r \in Requests, Refuse(r) \/ Check(r) PROVE TypeOK'
  <2>1. UNCHANGED <<now, policy, entry, listed, inFlight, failures, cooldown, active,
                    step, next, selects, reloads, policies>>
    BY <1>4 DEF Refuse, Check
  <2>2. CASE Forget(r) BY <2>1, <2>2 DEF Places
  <2>3. CASE pc[r] = "check" /\ Goto(r, "remove") /\ UNCHANGED lease BY <2>1, <2>3 DEF Places
  <2> QED BY <1>4, <2>2, <2>3 DEF Refuse, Check
<1>5. ASSUME NEW r \in Requests, Count(r) PROVE TypeOK' BY <1>5 DEF Count, Places, Counted
<1>6. ASSUME NEW r \in Requests, Headers(r) \/ FailCount(r) PROVE TypeOK'
  <2>1. UNCHANGED <<now, policy, entry, listed, inFlight, cooldown, active, step, next,
                    obj, claim, at, threshold, last, selects, reloads, policies>>
    BY <1>6 DEF Headers, FailCount
  <2>2. failures' \in [Objs -> Nat] BY <1>6 DEF Headers, FailCount
  <2>3. /\ pc[r] \in {"leased", "failing"}
        /\ \E p \in {"headers", "opening", "ended"} : pc' = [pc EXCEPT ![r] = p]
    BY <1>6 DEF Headers, FailCount
  <2>4. /\ pc' \in [Requests -> Places]
        /\ \A q \in Requests : obj[q] = None <=> pc'[q] \in {"idle", "insert"}
    BY <2>3 DEF Places, Counted
  <2> QED BY <2>1, <2>2, <2>4
<1>7. ASSUME NEW r \in Requests, HeadersClose(r) PROVE TypeOK'
  <2>1. Closed \in [until: Nat, claimed: BOOLEAN] BY DEF Closed, Word
  <2> QED BY <1>7, <2>1 DEF HeadersClose, Places, Counted
<1>8. ASSUME NEW r \in Requests, FailOpen(r) PROVE TypeOK'
  <2>1. Word(encode_millis(at[r]), FALSE) \in [until: Nat, claimed: BOOLEAN]
    BY DEF Word, encode_millis
  <2> QED BY <1>8, <2>1 DEF FailOpen, Places, Counted
<1>9. ASSUME NEW r \in Requests, Fail(r) \/ ProbeFail(r) PROVE TypeOK'
  BY <1>0, <1>9 DEF Fail, ProbeFail, Places, Counted
<1>10. ASSUME NEW r \in Requests, ProbeReopen(r) \/ Unclaim(r) PROVE TypeOK'
  <2>1. /\ Word(encode_millis(at[r]), FALSE) \in [until: Nat, claimed: BOOLEAN]
        /\ Word(claim[r], FALSE) \in [until: Nat, claimed: BOOLEAN]
    BY DEF Word, encode_millis
  <2>2. cooldown' \in [Objs -> [until: Nat, claimed: BOOLEAN]]
    BY <1>10, <2>1 DEF ProbeReopen, Unclaim, ExchangeClaim
  <2> QED BY <1>10, <2>2 DEF ProbeReopen, Unclaim, Places, Counted
<1>11. ASSUME NEW r \in Requests, Release(r) PROVE TypeOK'
  <2>1. pc[r] \in Counted BY <1>11 DEF Release, Counted
  <2>2. obj[r] \in Objs /\ inFlight[obj[r]] - 1 \in Nat BY <2>1, HeldIsCounted
  <2> QED BY <1>11, <2>2 DEF Release, Places, Counted
<1>12. ASSUME NEW r \in Requests, Remove(r) PROVE TypeOK' BY <1>12 DEF Remove, Places
<1>13. ASSUME NEW b \in BOOLEAN, Reload(b) PROVE TypeOK' BY <1>13, <1>a DEF Reload
<1>14. CASE Sweep \/ Retain BY <1>14 DEF Sweep, Retain
<1>15. CASE Ensure
  <2>1. CASE next /\ entry = None
    <3>1. Fresh \in Objs BY <2>1, FreshIsFree, TypesOfRegistry
    <3>2. /\ entry' = Fresh /\ listed' = "in" /\ step' = "idle"
          /\ inFlight' = [inFlight EXCEPT ![Fresh] = 0]
          /\ failures' = [failures EXCEPT ![Fresh] = 0]
          /\ cooldown' = [cooldown EXCEPT ![Fresh] = Closed]
          /\ active' = [active EXCEPT ![Fresh] = TRUE]
          /\ UNCHANGED <<now, policy, next, pc, obj, claim, at, threshold, last,
                         selects, reloads, policies>>
      BY <1>15, <2>1 DEF Ensure, NewState
    <3>3. Closed \in [until: Nat, claimed: BOOLEAN] BY DEF Closed, Word
    <3> QED BY <3>1, <3>2, <3>3
  <2>2. CASE next /\ entry # None BY <1>15, <2>2 DEF Ensure
  <2>3. CASE ~next BY <1>15, <2>3 DEF Ensure
  <2> QED BY <2>1, <2>2, <2>3
<1>16. ASSUME NEW p \in Policies, UpdatePolicy(p) PROVE TypeOK' BY <1>16, <1>a DEF UpdatePolicy
<1>17. CASE Tick BY <1>17 DEF Tick
<1>18. CASE UNCHANGED vars BY <1>18 DEF vars
<1> HIDE DEF TypeOK
<1> QED BY <1>1, <1>2, <1>3, <1>4, <1>5, <1>6, <1>7, <1>8, <1>9, <1>10, <1>11, <1>12, <1>13,
     <1>14, <1>15, <1>16, <1>17, <1>18 DEF Next, Request, Reconcile

\* A request that neither counts itself nor releases leaves the counted leases
\* as they are.
LEMMA SameHolding ==
  ASSUME TypeOK, NEW r \in Requests, NEW p, pc' = [pc EXCEPT ![r] = p],
         pc[r] \in Counted <=> p \in Counted,
         \/ obj' = obj
         \/ pc[r] \notin Counted /\ \E o : obj' = [obj EXCEPT ![r] = o]
  PROVE  \A o : Holding(o)' = Holding(o)
BY DEF TypeOK, Holding

LEMMA StepCount == ASSUME TypeOK, CountExact, [Next]_vars PROVE CountExact'
<1> DEFINE Kept == \A o : Holding(o)' = Holding(o)
<1> USE DEF Goto, Forget, object, registry, lease, bounds
<1>0. ASSUME Kept, inFlight' = inFlight PROVE CountExact' BY <1>0 DEF CountExact
<1>1. ASSUME Kept, entry = None, inFlight' = [inFlight EXCEPT ![Fresh] = 0] PROVE CountExact'
  <2>1. Fresh \in Objs /\ Holding(Fresh) = {}
    BY <1>1, FreshIsFree, TypesOfRegistry DEF Free, Holding
  <2>2. \A o \in Objs : inFlight'[o] = IF o = Fresh THEN 0 ELSE inFlight[o]
    BY <1>1, <2>1 DEF TypeOK
  <2>3. Cardinality(Holding(Fresh)) = 0 BY <2>1, FS_EmptySet
  <2> QED BY <1>1, <2>2, <2>3 DEF CountExact
<1>2. ASSUME NEW r \in Requests, Lookup(r) PROVE CountExact'
  <2>1. /\ pc[r] = "idle" /\ inFlight' = inFlight
        /\ \E p \in {"insert", "acquire"} : pc' = [pc EXCEPT ![r] = p]
        /\ obj' = obj \/ \E o : obj' = [obj EXCEPT ![r] = o]
    BY <1>2 DEF Lookup
  <2>2. Kept BY <2>1, SameHolding DEF Counted
  <2> QED BY <1>0, <2>1, <2>2
<1>3. ASSUME NEW r \in Requests, Insert(r) PROVE CountExact'
  <2>1. /\ pc[r] = "insert" /\ pc' = [pc EXCEPT ![r] = "acquire"]
        /\ \E o : obj' = [obj EXCEPT ![r] = o]
    BY <1>3 DEF Insert
  <2>2. Kept BY <2>1, SameHolding DEF Counted
  <2>3. \/ inFlight' = inFlight
        \/ entry = None /\ inFlight' = [inFlight EXCEPT ![Fresh] = 0]
    BY <1>3 DEF Insert, NewState
  <2> QED BY <1>0, <1>1, <2>2, <2>3
<1>4. ASSUME NEW r \in Requests, Refuse(r) \/ Check(r) \/ Remove(r) PROVE CountExact'
  <2>1. /\ pc[r] \in {"acquire", "check", "remove"} /\ inFlight' = inFlight
        /\ \E p \in {"idle", "remove"} : pc' = [pc EXCEPT ![r] = p]
        /\ obj' = obj \/ \E o : obj' = [obj EXCEPT ![r] = o]
    BY <1>4 DEF Refuse, Check, Remove
  <2>2. Kept BY <2>1, SameHolding DEF Counted
  <2> QED BY <1>0, <2>1, <2>2
<1>5. ASSUME NEW r \in Requests, Acquire(r) \/ Unclaim(r) PROVE CountExact'
  <2>1. /\ pc[r] \in {"acquire", "unclaim"} /\ inFlight' = inFlight /\ obj' = obj
        /\ \E p \in {"count", "check"} : pc' = [pc EXCEPT ![r] = p]
    BY <1>5 DEF Acquire, Unclaim
  <2>2. Kept BY <2>1, SameHolding DEF Counted
  <2> QED BY <1>0, <2>1, <2>2
<1>6. ASSUME NEW r \in Requests,
             \/ Headers(r) \/ HeadersClose(r) \/ Fail(r) \/ FailCount(r) \/ FailOpen(r)
             \/ ProbeFail(r) \/ ProbeReopen(r)
      PROVE  CountExact'
  <2>1. /\ pc[r] \in Counted /\ inFlight' = inFlight /\ obj' = obj
        /\ \E p \in Counted : pc' = [pc EXCEPT ![r] = p]
    BY <1>6 DEF Headers, HeadersClose, Fail, FailCount, FailOpen, ProbeFail, ProbeReopen, Counted
  <2>2. Kept BY <2>1, SameHolding
  <2> QED BY <1>0, <2>1, <2>2
<1>7. ASSUME NEW r \in Requests, Count(r) PROVE CountExact'
  <2>1. /\ pc[r] = "count" /\ obj[r] \in Objs /\ obj' = obj
        /\ pc' = [pc EXCEPT ![r] = "leased"]
        /\ inFlight' = [inFlight EXCEPT ![obj[r]] = @ + 1]
    BY <1>7 DEF Count, TypeOK
  <2>2. r \notin Holding(obj[r]) BY <2>1 DEF Holding, Counted
  <2>3. \A o : Holding(o)' = IF o = obj[r] THEN Holding(o) \cup {r} ELSE Holding(o)
    BY <2>1 DEF TypeOK, Holding, Counted
  <2>4. Cardinality(Holding(obj[r]) \cup {r}) = Cardinality(Holding(obj[r])) + 1
    BY <2>2, FiniteHolding, FS_AddElement
  <2>5. \A o \in Objs : inFlight'[o] = IF o = obj[r] THEN inFlight[o] + 1 ELSE inFlight[o]
    BY <2>1 DEF TypeOK
  <2> QED BY <2>3, <2>4, <2>5 DEF CountExact
<1>8. ASSUME NEW r \in Requests, Release(r) PROVE CountExact'
  <2>1. /\ pc[r] \in Counted /\ obj' = obj
        /\ pc' = [pc EXCEPT ![r] = "unclaim"]
        /\ inFlight' = [inFlight EXCEPT ![obj[r]] = @ - 1]
    BY <1>8 DEF Release, Counted
  <2>2. obj[r] \in Objs /\ r \in Holding(obj[r]) BY <2>1, HeldIsCounted
  <2>3. \A o : Holding(o)' = IF o = obj[r] THEN Holding(o) \ {r} ELSE Holding(o)
    BY <2>1 DEF TypeOK, Holding, Counted
  <2>4. Cardinality(Holding(obj[r]) \ {r}) = Cardinality(Holding(obj[r])) - 1
    BY <2>2, FiniteHolding, FS_RemoveElement
  <2>5. \A o \in Objs : inFlight'[o] = IF o = obj[r] THEN inFlight[o] - 1 ELSE inFlight[o]
    BY <2>1, <2>2 DEF TypeOK
  <2> QED BY <2>3, <2>4, <2>5 DEF CountExact
<1>9. CASE \/ Reconcile \/ Tick \/ UNCHANGED vars
           \/ \E b \in BOOLEAN : Reload(b)
           \/ \E p \in Policies : UpdatePolicy(p)
  <2>1. pc' = pc /\ obj' = obj
    BY <1>9 DEF Reconcile, Sweep, Retain, Ensure, Tick, vars, Reload, UpdatePolicy
  <2>2. Kept BY <2>1 DEF Holding
  <2>3. \/ inFlight' = inFlight
        \/ entry = None /\ inFlight' = [inFlight EXCEPT ![Fresh] = 0]
    BY <1>9 DEF Reconcile, Sweep, Retain, Ensure, NewState, Tick, vars, Reload, UpdatePolicy
  <2> QED BY <1>0, <1>1, <2>2, <2>3
<1> QED BY <1>2, <1>3, <1>4, <1>5, <1>6, <1>7, <1>8, <1>9 DEF Next, Request

LEMMA StepRetired ==
  ASSUME TypeOK, CountExact, RetiredIsKept, RegistryInv, [Next]_vars PROVE RetiredIsKept'
<1> DEFINE Idle == entry # None /\ ~active[entry] /\ inFlight[entry] = 0 /\ step # "retain"
           Waits(r) == obj[r] = entry /\ pc[r] \in {"acquire", "count"}
           Others(r) == \A q \in Requests \ {r} :
                          pc'[q] = pc[q] /\ obj'[q] = obj[q] /\ last'[q] = last[q]
<1> USE DEF Goto, Forget, object, registry, lease, bounds
<1>a. None \notin Objs BY HealthAssumption
<1>b. SUFFICES ASSUME Idle'
               PROVE  \/ \E q \in Requests : Keeper(q)'
                      \/ cooldown'[entry'] = Closed /\ \E q \in Requests : Waits(q)'
  BY DEF RetiredIsKept
<1>0. \/ ~Idle
      \/ \E q \in Requests : Keeper(q)
      \/ cooldown[entry] = Closed /\ \E q \in Requests : Waits(q)
  BY DEF RetiredIsKept
\* What a request does that nobody counts on.
<1>1. ASSUME NEW r \in Requests, Others(r), ~Keeper(r), ~Waits(r), Idle, entry' = entry,
             cooldown'[entry] = cooldown[entry]
      PROVE  \/ \E q \in Requests : Keeper(q)'
             \/ cooldown'[entry'] = Closed /\ \E q \in Requests : Waits(q)'
  BY <1>0, <1>1 DEF Keeper
<1>2. ASSUME NEW r \in Requests, Lookup(r) PROVE RetiredIsKept'
  <2>1. Others(r) /\ UNCHANGED <<entry, active, inFlight, step, cooldown>>
    BY <1>2 DEF Lookup, TypeOK
  <2>2. ~Keeper(r) /\ ~Waits(r) BY <1>2 DEF Lookup, Keeper
  <2> QED BY <1>1, <1>b, <2>1, <2>2 DEF RetiredIsKept
<1>3. ASSUME NEW r \in Requests, Insert(r) PROVE RetiredIsKept'
  <2>1. CASE entry # None
    <3>1. Others(r) /\ UNCHANGED <<entry, active, inFlight, step, cooldown>>
      BY <1>3, <2>1 DEF Insert, TypeOK
    <3>2. ~Keeper(r) /\ ~Waits(r) BY <1>3 DEF Insert, Keeper
    <3> QED BY <1>1, <1>b, <3>1, <3>2 DEF RetiredIsKept
  <2>2. CASE entry = None
    <3>1. Fresh \in Objs BY <2>2, FreshIsFree, TypesOfRegistry
    <3>2. /\ entry' = Fresh /\ obj' = [obj EXCEPT ![r] = Fresh]
          /\ pc' = [pc EXCEPT ![r] = "acquire"]
          /\ cooldown' = [cooldown EXCEPT ![Fresh] = Closed]
      BY <1>3, <2>2 DEF Insert, NewState
    <3>3. cooldown'[entry'] = Closed /\ Waits(r)' BY <3>1, <3>2 DEF TypeOK
    <3> QED BY <3>3 DEF RetiredIsKept
  <2> QED BY <2>1, <2>2
<1>4. ASSUME NEW r \in Requests, Acquire(r) PROVE RetiredIsKept'
  <2>1. /\ pc[r] = "acquire" /\ pc' = [pc EXCEPT ![r] = "count"] /\ obj[r] \in Objs
        /\ UNCHANGED <<entry, active, inFlight, step, obj, last>>
    BY <1>4 DEF Acquire, TypeOK
  <2>2. Others(r) /\ Idle BY <2>1, <1>b DEF TypeOK
  <2>3. CASE obj[r] # entry
    <3>1. cooldown'[entry] = cooldown[entry] BY <1>4, <2>1, <2>2, <2>3 DEF Acquire, TypeOK
    <3> QED BY <1>1, <2>1, <2>2, <2>3, <3>1 DEF RetiredIsKept, Keeper
  <2>4. CASE obj[r] = entry /\ cooldown[entry] # Closed
    <3>1. PICK q \in Requests : Keeper(q) BY <1>0, <2>2, <2>4
    <3>2. q # r BY <2>1, <3>1 DEF Keeper
    <3>3. Keeper(q)' BY <2>1, <2>2, <3>1, <3>2 DEF Keeper
    <3> QED BY <3>3 DEF RetiredIsKept
  <2>5. CASE obj[r] = entry /\ cooldown[entry] = Closed
    <3>1. cooldown' = cooldown BY <1>4, <2>5 DEF Acquire
    <3>2. Waits(r)' BY <2>1, <2>5 DEF TypeOK
    <3> QED BY <2>1, <2>5, <3>1, <3>2 DEF RetiredIsKept
  <2> QED BY <2>3, <2>4, <2>5
<1>5. ASSUME NEW r \in Requests, Refuse(r) PROVE RetiredIsKept'
  <2>1. /\ pc[r] = "acquire" /\ cooldown[obj[r]] # Closed
        /\ UNCHANGED <<entry, active, inFlight, step, cooldown>> /\ Others(r)
    BY <1>5 DEF Refuse, TypeOK
  <2>2. Idle /\ ~Keeper(r) BY <2>1, <1>b DEF Keeper
  <2>3. CASE obj[r] # entry BY <1>1, <2>1, <2>2, <2>3 DEF RetiredIsKept
  <2>4. CASE obj[r] = entry
    <3>1. PICK q \in Requests : Keeper(q) BY <1>0, <2>1, <2>2, <2>4
    <3>2. Keeper(q)' BY <2>1, <2>2, <3>1 DEF Keeper
    <3> QED BY <3>2 DEF RetiredIsKept
  <2> QED BY <2>3, <2>4
<1>6. ASSUME NEW r \in Requests, Count(r) PROVE RetiredIsKept'
  <2>1. /\ pc[r] = "count" /\ obj[r] \in Objs /\ Others(r)
        /\ inFlight' = [inFlight EXCEPT ![obj[r]] = @ + 1]
        /\ UNCHANGED <<entry, active, step, cooldown>>
    BY <1>6 DEF Count, TypeOK
  <2>2. obj[r] # entry
    <3>1. inFlight'[obj[r]] # 0 BY <2>1 DEF TypeOK
    <3> QED BY <2>1, <3>1, <1>b
  <2>3. inFlight'[entry] = inFlight[entry] BY <2>1, <2>2, <1>b DEF TypeOK
  <2> QED BY <1>1, <1>b, <2>1, <2>2, <2>3 DEF RetiredIsKept, Keeper
<1>7. ASSUME NEW r \in Requests,
             \/ Headers(r) \/ HeadersClose(r) \/ Fail(r) \/ FailCount(r) \/ FailOpen(r)
             \/ ProbeFail(r) \/ ProbeReopen(r)
      PROVE  RetiredIsKept'
  <2>1. /\ pc[r] \in Counted /\ \E p : pc' = [pc EXCEPT ![r] = p]
        /\ UNCHANGED <<entry, active, inFlight, step, obj, last>>
    BY <1>7 DEF Headers, HeadersClose, Fail, FailCount, FailOpen, ProbeFail, ProbeReopen, Counted
  <2>2. obj[r] # entry /\ Idle BY <2>1, <1>b, HeldIsCounted
  <2>3. cooldown' = cooldown \/ \E w : cooldown' = [cooldown EXCEPT ![obj[r]] = w]
    BY <1>7 DEF Headers, HeadersClose, Fail, FailCount, FailOpen, ProbeFail, ProbeReopen,
      ExchangeClaim
  <2>4. cooldown'[entry] = cooldown[entry] /\ Others(r) BY <2>1, <2>2, <2>3 DEF TypeOK
  <2> QED BY <1>1, <2>1, <2>2, <2>4 DEF RetiredIsKept, Keeper
<1>8. ASSUME NEW r \in Requests, Release(r) PROVE RetiredIsKept'
  <2>1. /\ pc[r] \in Counted /\ pc' = [pc EXCEPT ![r] = "unclaim"]
        /\ inFlight' = [inFlight EXCEPT ![obj[r]] = @ - 1]
        /\ last' = [last EXCEPT ![r] = inFlight[obj[r]] = 1]
        /\ UNCHANGED <<entry, active, step, obj, cooldown>>
    BY <1>8 DEF Release, Counted
  <2>2. obj[r] \in Objs /\ inFlight[obj[r]] \in Nat BY <2>1, HeldIsCounted DEF TypeOK
  <2>3. CASE obj[r] = entry
    <3>1. inFlight[obj[r]] = 1 BY <2>1, <2>2, <2>3, <1>b DEF TypeOK
    <3>2. last'[r] BY <2>1, <3>1 DEF TypeOK
    <3>3. Keeper(r)' BY <2>1, <2>3, <3>2 DEF Keeper, TypeOK
    <3> QED BY <3>3 DEF RetiredIsKept
  <2>4. CASE obj[r] # entry
    <3>1. Others(r) /\ inFlight'[entry] = inFlight[entry] BY <2>1, <2>2, <2>4 DEF TypeOK
    <3> QED BY <1>1, <1>b, <2>1, <2>4, <3>1 DEF RetiredIsKept, Keeper
  <2> QED BY <2>3, <2>4
<1>9. ASSUME NEW r \in Requests, Unclaim(r) PROVE RetiredIsKept'
  <2>1. /\ pc[r] = "unclaim" /\ obj[r] \in Objs /\ pc' = [pc EXCEPT ![r] = "check"]
        /\ UNCHANGED <<entry, active, inFlight, step, obj, last>>
    BY <1>9 DEF Unclaim, TypeOK
  <2>2. Others(r) /\ Idle BY <2>1, <1>b
  <2>3. CASE Keeper(r)
    <3>1. Keeper(r)' BY <2>1, <2>3 DEF Keeper, TypeOK
    <3> QED BY <3>1 DEF RetiredIsKept
  <2>4. CASE ~Keeper(r) /\ cooldown'[entry] = cooldown[entry]
    BY <1>1, <2>1, <2>2, <2>4 DEF RetiredIsKept
  <2>5. CASE ~Keeper(r) /\ cooldown'[entry] # cooldown[entry]
    <3>1. obj[r] = entry /\ cooldown[entry] = Word(claim[r], TRUE)
      BY <1>9, <2>1, <2>2, <2>5 DEF Unclaim, ExchangeClaim, TypeOK
    <3>2. cooldown[entry] # Closed BY <3>1 DEF Closed, Word
    <3>3. PICK q \in Requests : Keeper(q) BY <1>0, <2>2, <3>2
    <3>4. Keeper(q)' BY <2>1, <2>2, <2>5, <3>3 DEF Keeper
    <3> QED BY <3>4 DEF RetiredIsKept
  <2> QED BY <2>3, <2>4, <2>5
<1>10. ASSUME NEW r \in Requests, Check(r) PROVE RetiredIsKept'
  <2>1. /\ pc[r] = "check" /\ Others(r)
        /\ UNCHANGED <<entry, active, inFlight, step, cooldown>>
    BY <1>10 DEF Check, TypeOK
  <2>2. CASE Keeper(r)
    <3>1. pc' = [pc EXCEPT ![r] = "remove"] /\ UNCHANGED <<obj, last>>
      BY <1>10, <2>1, <2>2, <1>b DEF Check, Keeper
    <3>2. Keeper(r)' BY <2>1, <2>2, <3>1 DEF Keeper, TypeOK
    <3> QED BY <3>2 DEF RetiredIsKept
  <2>3. CASE ~Keeper(r) BY <1>1, <1>b, <2>1, <2>3 DEF RetiredIsKept
  <2> QED BY <2>2, <2>3
<1>11. ASSUME NEW r \in Requests, Remove(r) PROVE RetiredIsKept'
  <2>1. /\ pc[r] = "remove" /\ Others(r) /\ UNCHANGED <<active, inFlight, step, cooldown>>
        /\ entry' = entry
        /\ ~(entry = obj[r] /\ inFlight[obj[r]] = 0 /\ ~active[obj[r]])
    BY <1>11, <1>b DEF Remove, TypeOK
  <2>2. Idle /\ ~Keeper(r) /\ ~Waits(r) BY <2>1, <1>b DEF Keeper
  <2> QED BY <1>1, <2>1, <2>2 DEF RetiredIsKept
<1>12. ASSUME \/ Tick \/ UNCHANGED vars
              \/ \E b \in BOOLEAN : Reload(b)
              \/ \E p \in Policies : UpdatePolicy(p)
              \/ Ensure /\ ~next
       PROVE  RetiredIsKept'
  <2>1. UNCHANGED <<entry, active, inFlight, cooldown, pc, obj, last>>
        /\ (step' # "retain" => step # "retain")
    BY <1>12 DEF Tick, vars, Reload, UpdatePolicy, Ensure
  <2> QED BY <1>0, <1>b, <2>1 DEF RetiredIsKept, Keeper
<1>13. ASSUME Sweep PROVE RetiredIsKept' BY <1>13, <1>b DEF Sweep
<1>14. ASSUME Retain PROVE RetiredIsKept'
  <2>1. entry' = entry /\ ~(~next /\ inFlight[entry] = 0) /\ step = "retain"
        /\ UNCHANGED <<active, inFlight>>
    BY <1>14, <1>b DEF Retain
  <2>2. active[entry] = next BY <2>1, <1>b DEF RegistryInv, MarkFollows
  <2> QED BY <2>1, <2>2, <1>b DEF TypeOK
<1>15. ASSUME Ensure /\ next PROVE RetiredIsKept'
  <2>1. CASE entry = None
    <3>1. Fresh \in Objs BY <2>1, FreshIsFree, TypesOfRegistry
    <3>2. entry' = Fresh /\ active' = [active EXCEPT ![Fresh] = TRUE]
      BY <1>15, <2>1 DEF Ensure, NewState
    <3> QED BY <3>1, <3>2, <1>b DEF TypeOK
  <2>2. CASE entry # None BY <1>15, <2>2, <1>b DEF Ensure, TypeOK
  <2> QED BY <2>1, <2>2
<1> HIDE DEF Idle, Waits, Others
<1>16. RetiredIsKept'
  BY <1>2, <1>3, <1>4, <1>5, <1>6, <1>7, <1>8, <1>9, <1>10, <1>11, <1>12, <1>13, <1>14,
     <1>15 DEF Next, Request, Reconcile
<1> QED BY <1>16, <1>b DEF RetiredIsKept, Idle, Waits

LEMMA InitHealth == Init => HealthInv
<1> SUFFICES ASSUME Init PROVE HealthInv OBVIOUS
<1>1. TypeOK
  <2>1. /\ Closed \in [until: Nat, claimed: BOOLEAN] /\ "idle" \in Places
        /\ 0 \in 0..MaxSelects /\ 0 \in 0..MaxReloads /\ 0 \in 0..MaxPolicies
    BY HealthAssumption DEF Closed, Word, Places
  <2>2. cooldown \in [Objs -> [until: Nat, claimed: BOOLEAN]] /\ pc \in [Requests -> Places]
    BY <2>1 DEF Init
  <2> QED BY <2>1, <2>2 DEF Init, TypeOK
<1>2. \A o : Holding(o) = {} BY DEF Init, Holding, Counted
<1>3. CountExact BY <1>2, FS_EmptySet DEF Init, CountExact
<1>4. RetiredIsKept BY DEF Init, RetiredIsKept
<1> QED BY <1>1, <1>3, <1>4 DEF HealthInv

\* The fields stay within their types (in particular the unsigned in-flight count
\* never wraps: a decrement follows an increment), the count is that of the leases
\* that hold the state, and somebody is always left to remove a retired state.
THEOREM HealthInvariant == Spec => []HealthInv
<1>1. HealthInv /\ RegistryInv /\ [Next]_vars => HealthInv'
  BY StepHealthTypes, StepCount, StepRetired DEF HealthInv
<1>2. RegistryInv /\ [Next]_vars => RegistryInv' BY StepRegistry
<1> QED BY InitHealth, InitRegistry, <1>1, <1>2, PTL DEF Spec

\* reconcile's mark and the check of the last lease race, and still no retired
\* state stays in the registry without a request that is about to use or remove it.
THEOREM RetiredStatesGo == Spec => []NoLeakedState
<1>1. HealthInv => NoLeakedState BY DEF HealthInv, RetiredIsKept, NoLeakedState, Keeper
<1> QED BY HealthInvariant, <1>1, PTL

\* The circuit breaker and its registry are sound for any number of requests,
\* selections, reloads and settings changes.
THEOREM HealthAlwaysSound == Spec => []HealthSound
<1>1. NoStuckProbe /\ RegistryFollowsSnapshot /\ OrphansAreRetired /\ NoLeakedState
        => HealthSound
  BY DEF HealthSound
<1> QED BY ProbeAlwaysReturned, RegistryAgrees, OrphansAlwaysRetired, RetiredStatesGo, <1>1, PTL

--------------------
\* Hosted: ChannelAutomation, which disables a failing channel and tests it
\* until it works again.  The passive health above and this automation share
\* no state; the theorems are about the specification of ChannelAutomation
\* with its own constants.

CONSTANTS
  Channels, Counting, Keyword, Mode, QueueCap, MaxChunks, MaxProbes, MaxRequests, MaxEdits,
  MaxFlips, MaxErrors

VARIABLES
  up, stored, snap, queue, worker, applying, tester, stopping, round, probe, seen, answered,
  tally, used

Aut == INSTANCE ChannelAutomation

USE DEF Aut!Bad, Aut!Other, Aut!Good, Aut!Text, Aut!Nothing

\* Nothing was tested, reported or disabled yet.
LEMMA AutomationInitial == Aut!AutomationAssumption /\ Aut!Init => Aut!AutomationInv
<1> SUFFICES ASSUME Aut!AutomationAssumption, Aut!Init PROVE Aut!AutomationInv OBVIOUS
<1>1. /\ stored = [set |-> [disable |-> TRUE, recover |-> TRUE],
                   ch |-> [c \in Channels |-> [enabled |-> TRUE, allowed |-> TRUE, reason |-> Aut!Nothing]]]
      /\ queue = <<>> /\ worker = "run" /\ applying = <<>> /\ tester = "idle"
      /\ round.todo = {} /\ probe = Aut!NoProbe
      /\ seen = [c \in Channels |-> {}] /\ answered = {}
      /\ tally = [started |-> 0, logged |-> 0, accepted |-> 0, applied |-> 0]
      /\ used = [requests |-> 0, edits |-> 0, flips |-> 0, errors |-> 0]
    BY DEF Aut!Init
<1>2. Aut!TypeOK
  <2>1. stored \in [set : Aut!Settings, ch : [Channels -> Aut!Channel]]
    BY <1>1 DEF Aut!Settings, Aut!Channel
  <2>2. probe \in Aut!Probes /\ probe.step = Aut!Nothing BY <1>1 DEF Aut!Probes, Aut!NoProbe
  <2>3. queue \in Seq(Aut!Reports) /\ applying \in Aut!Reports \cup {<<>>} /\ Len(queue) = 0
    BY <1>1
  <2>4. tally \in [started : Int, logged : Int, accepted : Int, applied : Int] BY <1>1
  <2>5. used \in [requests : Nat, edits : Nat, flips : Nat, errors : Nat] BY <1>1
  <2>6. seen \in [Channels -> SUBSET {Aut!Bad, Aut!Text}] /\ answered \subseteq Channels BY <1>1
  <2> QED BY <1>1, <2>1, <2>2, <2>3, <2>4, <2>5, <2>6 DEF Aut!TypeOK, Aut!AutomationAssumption
<1>3. Aut!ReportsAreSeen BY <1>1 DEF Aut!ReportsAreSeen
<1>4. Aut!ReportsAreKept BY <1>1 DEF Aut!ReportsAreKept
<1>5. Aut!DisabledForCause BY <1>1 DEF Aut!DisabledForCause, Aut!AutoDisabled
<1>6. Aut!RecoveryIsEarned /\ Aut!ProbesAreLogged
    BY <1>1 DEF Aut!RecoveryIsEarned, Aut!ProbesAreLogged, Aut!NoProbe
<1> QED BY <1>2, <1>3, <1>4, <1>5, <1>6 DEF Aut!AutomationInv

\* The counters of tests and reports count as they are told.
LEMMA Tallied ==
  ASSUME Aut!TypeOK, NEW s \in Int, NEW l \in Int, NEW a \in Int, NEW p \in Int, Aut!Tally(s, l, a, p)
  PROVE  /\ tally' \in [started : Int, logged : Int, accepted : Int, applied : Int]
         /\ Counting => /\ tally'.started = tally.started + s
                        /\ tally'.logged = tally.logged + l
                        /\ tally'.accepted = tally.accepted + a
                        /\ tally'.applied = tally.applied + p
<1>1. tally \in [started : Int, logged : Int, accepted : Int, applied : Int] BY DEF Aut!TypeOK
<1> QED BY <1>1 DEF Aut!Tally

\* try_report: a report is queued or dropped, and counted when it is queued.
LEMMA Reporting ==
  ASSUME Aut!AutomationAssumption, Aut!AutomationInv, NEW c, NEW t, NEW n \in Int, Aut!Report(c, t, n),
         UNCHANGED <<worker, applying>>,
         seen' \in [Channels -> SUBSET {Aut!Bad, Aut!Text}],
         \A d \in Channels : seen[d] \subseteq seen'[d],
         t # Aut!Nothing => c \in Channels /\ t \in seen'[c]
  PROVE  /\ queue' \in Seq(Aut!Reports) /\ Len(queue') <= QueueCap
         /\ Aut!ReportsAreSeen' /\ Aut!ReportsAreKept'
         /\ tally' \in [started : Int, logged : Int, accepted : Int, applied : Int]
         /\ Counting => tally'.started = tally.started /\ tally'.logged = tally.logged + n
<1>1. Aut!TypeOK /\ Aut!ReportsAreSeen /\ Aut!ReportsAreKept BY DEF Aut!AutomationInv
<1>2. /\ queue \in Seq(Aut!Reports) /\ Len(queue) <= QueueCap /\ Len(queue) \in Nat
      /\ applying \in Aut!Reports \cup {<<>>}
      /\ tally \in [started : Int, logged : Int, accepted : Int, applied : Int]
      /\ worker \in {"run", "drain", "done", "aborted"}
    BY <1>1 DEF Aut!TypeOK
<1>3. applying' # <<>> => applying'[2] \in seen'[applying'[1]]
    BY <1>1, <1>2 DEF Aut!ReportsAreSeen, Aut!Reports
<1>4. \A i \in 1..Len(queue) : queue[i][2] \in seen'[queue[i][1]]
    BY <1>1, <1>2 DEF Aut!ReportsAreSeen, Aut!Reports
<1>5. CASE t # Aut!Nothing /\ worker = "run" /\ Len(queue) < QueueCap
  <2>1. queue' = Append(queue, <<c, t>>) /\ Aut!Tally(0, n, 1, 0) BY <1>5 DEF Aut!Report
  <2>2. <<c, t>> \in Aut!Reports /\ t \in seen'[c] BY <1>5 DEF Aut!Reports
  <2> DEFINE r == <<c, t>>
  <2>3. r[1] = c /\ r[2] = t OBVIOUS
  <2>4. r \in Aut!Reports /\ queue' = Append(queue, r) BY <2>1, <2>2
  <2> HIDE DEF r
  <2>5. /\ queue' \in Seq(Aut!Reports) /\ Len(queue') = Len(queue) + 1
        /\ queue'[Len(queue) + 1] = r /\ \A i \in 1..Len(queue) : queue'[i] = queue[i]
      BY <1>2, <2>4
  <2>6. Len(queue') <= QueueCap BY <1>2, <1>5, <2>5 DEF Aut!AutomationAssumption
  <2>7. \A i \in 1..Len(queue') : queue'[i][2] \in seen'[queue'[i][1]]
    <3> SUFFICES ASSUME NEW i \in 1..Len(queue') PROVE queue'[i][2] \in seen'[queue'[i][1]]
        OBVIOUS
    <3>1. CASE i = Len(queue) + 1 BY <2>2, <2>3, <2>5, <3>1
    <3>2. CASE i # Len(queue) + 1
      <4>1. i \in 1..Len(queue) BY <1>2, <2>5, <3>2
      <4> QED BY <1>4, <2>5, <4>1
    <3> QED BY <3>1, <3>2
  <2>8. Aut!ReportsAreSeen' BY <1>3, <2>7 DEF Aut!ReportsAreSeen
  <2>9. /\ tally' \in [started : Int, logged : Int, accepted : Int, applied : Int]
        /\ Counting => /\ tally'.started = tally.started + 0
                       /\ tally'.logged = tally.logged + n
                       /\ tally'.accepted = tally.accepted + 1
                       /\ tally'.applied = tally.applied + 0
      BY <1>1, <2>1, Tallied
  <2>10. Aut!ReportsAreKept' BY <1>1, <1>2, <1>5, <2>5, <2>9 DEF Aut!ReportsAreKept
  <2> QED BY <1>2, <2>5, <2>6, <2>8, <2>9, <2>10
<1>6. CASE ~(t # Aut!Nothing /\ worker = "run" /\ Len(queue) < QueueCap)
  <2>1. queue' = queue /\ Aut!Tally(0, n, 0, 0) BY <1>6 DEF Aut!Report
  <2>2. /\ tally' \in [started : Int, logged : Int, accepted : Int, applied : Int]
        /\ Counting => /\ tally'.started = tally.started + 0
                       /\ tally'.logged = tally.logged + n
                       /\ tally'.accepted = tally.accepted + 0
                       /\ tally'.applied = tally.applied + 0
      BY <1>1, <2>1, Tallied
  <2>3. Aut!ReportsAreSeen' BY <1>3, <1>4, <2>1 DEF Aut!ReportsAreSeen
  <2>4. Aut!ReportsAreKept' BY <1>1, <1>2, <2>1, <2>2 DEF Aut!ReportsAreKept
  <2> QED BY <1>2, <2>1, <2>2, <2>3, <2>4
<1> QED BY <1>5, <1>6

\* One of the bounded inputs is used.
LEMMA Using ==
  ASSUME Aut!TypeOK, NEW k \in {"requests", "edits", "flips", "errors"}, NEW m, Aut!Use(k, m)
  PROVE  used' \in [requests : Nat, edits : Nat, flips : Nat, errors : Nat] /\ used' # used
<1>1. used \in [requests : Nat, edits : Nat, flips : Nat, errors : Nat] BY DEF Aut!TypeOK
<1>2. used' = [used EXCEPT ![k] = used[k] + 1] BY DEF Aut!Use
<1>3. used[k] \in Nat BY <1>1
<1>4. used'[k] = used[k] + 1 BY <1>1, <1>2
<1>5. used' \in [requests : Nat, edits : Nat, flips : Nat, errors : Nat] BY <1>1, <1>2, <1>3
<1> QED BY <1>3, <1>4, <1>5

\* A step of a test that stores nothing and reports at most one trigger.
LEMMA ProbeKeeps ==
  ASSUME Aut!AutomationAssumption, Aut!AutomationInv, NEW c, NEW t, NEW n \in {0, 1}, Aut!Report(c, t, n),
         UNCHANGED <<stored, worker, applying, tester>>, round'.todo \subseteq Channels,
         seen' \in [Channels -> SUBSET {Aut!Bad, Aut!Text}],
         \A d \in Channels : seen[d] \subseteq seen'[d],
         t # Aut!Nothing => c \in Channels /\ t \in seen'[c],
         answered' \subseteq Channels,
         used' \in [requests : Nat, edits : Nat, flips : Nat, errors : Nat],
         probe' \in Aut!Probes, probe'.step # Aut!Nothing => probe'.ch \in Channels,
         probe'.step = "recover" => probe'.ch \in answered',
         (IF probe.step \in {"setup", "body"} THEN 1 ELSE 0)
           = n + (IF probe'.step \in {"setup", "body"} THEN 1 ELSE 0)
  PROVE  Aut!AutomationInv'
<1>1. Aut!TypeOK /\ Aut!DisabledForCause /\ Aut!ProbesAreLogged BY DEF Aut!AutomationInv
<1>2. /\ queue' \in Seq(Aut!Reports) /\ Len(queue') <= QueueCap
      /\ Aut!ReportsAreSeen' /\ Aut!ReportsAreKept'
      /\ tally' \in [started : Int, logged : Int, accepted : Int, applied : Int]
      /\ Counting => tally'.started = tally.started /\ tally'.logged = tally.logged + n
    BY Reporting
<1>3. Aut!TypeOK' BY <1>1, <1>2 DEF Aut!TypeOK
<1>4. Aut!DisabledForCause' BY <1>1 DEF Aut!DisabledForCause, Aut!AutoDisabled
<1>5. Aut!RecoveryIsEarned' BY DEF Aut!RecoveryIsEarned
<1>6. tally \in [started : Int, logged : Int, accepted : Int, applied : Int]
  BY <1>1 DEF Aut!TypeOK
<1>7. Aut!ProbesAreLogged' BY <1>1, <1>2, <1>6 DEF Aut!ProbesAreLogged
<1> QED BY <1>2, <1>3, <1>4, <1>5, <1>7 DEF Aut!AutomationInv

\* A step that touches neither reports nor the counters.
LEMMA QuietKeeps ==
  ASSUME Aut!AutomationInv, UNCHANGED <<queue, applying, seen, tally, answered>>,
         worker' \in {"run", "drain", "done", "aborted"},
         \/ worker' = worker
         \/ worker \in {"run", "drain"} /\ worker' = "drain"
         \/ worker = "drain" /\ worker' = "done" /\ queue = <<>> /\ applying = <<>>,
         tester' \in {"idle", "round", "done", "aborted"}, round'.todo \subseteq Channels,
         stored' \in [set : Aut!Settings, ch : [Channels -> Aut!Channel]],
         \A c \in Channels : stored'.ch[c].reason \in {Aut!Nothing, stored.ch[c].reason},
         used' \in [requests : Nat, edits : Nat, flips : Nat, errors : Nat],
         \/ probe' = probe
         \/ probe.step = "recover" /\ probe' = Aut!NoProbe
  PROVE  Aut!AutomationInv'
<1>1. Aut!TypeOK /\ Aut!ReportsAreSeen /\ Aut!ReportsAreKept /\ Aut!DisabledForCause /\ Aut!RecoveryIsEarned
      /\ Aut!ProbesAreLogged
    BY DEF Aut!AutomationInv
<1>2. Aut!NoProbe \in Aut!Probes /\ Aut!NoProbe.step = Aut!Nothing BY DEF Aut!NoProbe, Aut!Probes
<1>3. Aut!TypeOK' BY <1>1, <1>2 DEF Aut!TypeOK
<1>4. Aut!ReportsAreSeen' BY <1>1 DEF Aut!ReportsAreSeen
<1>5. Aut!ReportsAreKept' BY <1>1 DEF Aut!ReportsAreKept, Aut!TypeOK
<1>6. Aut!DisabledForCause' BY <1>1 DEF Aut!DisabledForCause, Aut!AutoDisabled
<1>7. Aut!RecoveryIsEarned' BY <1>1, <1>2 DEF Aut!RecoveryIsEarned
<1>8. Aut!ProbesAreLogged' BY <1>1, <1>2 DEF Aut!ProbesAreLogged
<1> QED BY <1>3, <1>4, <1>5, <1>6, <1>7, <1>8 DEF Aut!AutomationInv

\* A test that ends leaves no probe, or one that asks for a recovery.
LEMMA ProbeAfter ==
  ASSUME Aut!TypeOK, NEW ok \in BOOLEAN, probe.step # Aut!Nothing
  PROVE  /\ Aut!AfterProbe(ok) \in Aut!Probes
         /\ Aut!AfterProbe(ok).step \in {Aut!Nothing, "recover"}
         /\ Aut!AfterProbe(ok).step = "recover" => Aut!AfterProbe(ok).ch = probe.ch /\ ok
<1>1. probe \in Aut!Probes BY DEF Aut!TypeOK
<1>2. Aut!NoProbe \in Aut!Probes /\ Aut!NoProbe.step = Aut!Nothing BY DEF Aut!NoProbe, Aut!Probes
<1>3. /\ [probe EXCEPT !.step = "recover"] \in Aut!Probes
      /\ [probe EXCEPT !.step = "recover"].step = "recover"
      /\ [probe EXCEPT !.step = "recover"].ch = probe.ch
    BY <1>1 DEF Aut!Probes
<1> QED BY <1>2, <1>3 DEF Aut!AfterProbe

\* A test that ends is logged; only a complete 2xx answer asks for a recovery.
LEMMA FinishKeeps ==
  ASSUME Aut!AutomationAssumption, Aut!AutomationInv, NEW ok \in BOOLEAN, probe.step \in {"setup", "body"},
         Aut!Finish(ok), UNCHANGED <<stored, worker, applying, tester, round, seen>>,
         answered' = IF ok THEN answered \cup {probe.ch} ELSE answered \ {probe.ch},
         used' \in [requests : Nat, edits : Nat, flips : Nat, errors : Nat]
  PROVE  Aut!AutomationInv'
<1>1. Aut!TypeOK BY DEF Aut!AutomationInv
<1>2. Aut!Report(Aut!Nothing, Aut!Nothing, 1) /\ probe' = Aut!AfterProbe(ok) BY DEF Aut!Finish
<1>3. /\ Aut!AfterProbe(ok) \in Aut!Probes
      /\ Aut!AfterProbe(ok).step \in {Aut!Nothing, "recover"}
      /\ Aut!AfterProbe(ok).step = "recover" => Aut!AfterProbe(ok).ch = probe.ch /\ ok
    BY <1>1, ProbeAfter
<1>4. /\ probe.ch \in Channels /\ answered' \subseteq Channels /\ round'.todo \subseteq Channels
      /\ seen' \in [Channels -> SUBSET {Aut!Bad, Aut!Text}] /\ \A d \in Channels : seen[d] \subseteq seen'[d]
    BY <1>1 DEF Aut!TypeOK
<1> QED BY <1>2, <1>3, <1>4, ProbeKeeps

\* The responses of a channel show more triggers.
LEMMA Shown ==
  ASSUME Aut!TypeOK, NEW c \in Channels, NEW S, S \subseteq {Aut!Bad, Aut!Text},
         seen' = [seen EXCEPT ![c] = seen[c] \cup S]
  PROVE  /\ seen' \in [Channels -> SUBSET {Aut!Bad, Aut!Text}] /\ S \subseteq seen'[c]
         /\ \A d \in Channels : seen[d] \subseteq seen'[d]
BY DEF Aut!TypeOK

\* A forwarded request fails with a listed status.
LEMMA RequestFailsKeeps ==
  ASSUME Aut!AutomationAssumption, Aut!AutomationInv, NEW c \in Channels, Aut!RequestFails(c)
  PROVE  Aut!AutomationInv'
<1>1. Aut!TypeOK BY DEF Aut!AutomationInv
<1>2. /\ Aut!Use("requests", MaxRequests) /\ seen' = [seen EXCEPT ![c] = seen[c] \cup {Aut!Bad}]
      /\ Aut!Report(c, IF Aut!Watches(snap, c) THEN Aut!Bad ELSE Aut!Nothing, 0)
      /\ UNCHANGED <<answered, stored, worker, applying, tester, round, probe>>
    BY DEF Aut!RequestFails
<1>3. used' \in [requests : Nat, edits : Nat, flips : Nat, errors : Nat] BY <1>1, <1>2, Using
<1>4. /\ seen' \in [Channels -> SUBSET {Aut!Bad, Aut!Text}] /\ Aut!Bad \in seen'[c]
      /\ \A d \in Channels : seen[d] \subseteq seen'[d]
    BY <1>1, <1>2, Shown
<1>5. Aut!RecoveryIsEarned BY DEF Aut!AutomationInv
<1>6. /\ probe' \in Aut!Probes /\ (probe'.step # Aut!Nothing => probe'.ch \in Channels)
      /\ (probe'.step = "recover" => probe'.ch \in answered') /\ answered' \subseteq Channels
      /\ round'.todo \subseteq Channels
    BY <1>1, <1>2, <1>5 DEF Aut!TypeOK, Aut!RecoveryIsEarned
<1>7. CASE Aut!Watches(snap, c)
  <2>1. Aut!Report(c, Aut!Bad, 0) BY <1>2, <1>7
  <2> QED BY <1>2, <1>3, <1>4, <1>6, <2>1, ProbeKeeps
<1>8. CASE ~Aut!Watches(snap, c)
  <2>1. Aut!Report(c, Aut!Nothing, 0) BY <1>2, <1>8
  <2> QED BY <1>2, <1>3, <1>4, <1>6, <2>1, ProbeKeeps
<1> QED BY <1>7, <1>8

\* The response headers of a test, and the status they report.
LEMMA HeadersKeeps ==
  ASSUME Aut!AutomationAssumption, Aut!AutomationInv, NEW s \in {Aut!Good, Aut!Bad, Aut!Other}, Aut!Headers(s)
  PROVE  Aut!AutomationInv'
<1>1. Aut!TypeOK BY DEF Aut!AutomationInv
<1> DEFINE m == s # Aut!Good /\ Aut!Watches(round.snap, probe.ch)
           S == IF s = Aut!Bad THEN {Aut!Bad} ELSE {}
           t == IF s = Aut!Bad /\ Aut!Watches(round.snap, probe.ch) THEN Aut!Bad ELSE Aut!Nothing
<1>2. /\ probe.step = "setup"
      /\ probe' = [probe EXCEPT !.step = "body", !.status = s, !.matching = m]
      /\ Aut!Report(probe.ch, t, 0)
      /\ UNCHANGED <<answered, stored, worker, applying, tester, round, used>>
    BY DEF Aut!Headers
<1>3. probe \in Aut!Probes /\ probe.ch \in Channels BY <1>1, <1>2 DEF Aut!TypeOK
<1>4. seen' = [seen EXCEPT ![probe.ch] = seen[probe.ch] \cup S]
    BY <1>1, <1>3 DEF Aut!Headers, Aut!TypeOK
<1>5. m \in BOOLEAN /\ S \subseteq {Aut!Bad, Aut!Text} /\ (t # Aut!Nothing => t \in S) OBVIOUS
<1> HIDE DEF m, S, t
<1>6. probe' \in Aut!Probes /\ probe'.ch = probe.ch /\ probe'.step = "body"
    BY <1>2, <1>3, <1>5 DEF Aut!Probes
<1>7. /\ seen' \in [Channels -> SUBSET {Aut!Bad, Aut!Text}] /\ S \subseteq seen'[probe.ch]
      /\ \A d \in Channels : seen[d] \subseteq seen'[d]
    BY <1>1, <1>3, <1>4, <1>5, Shown
<1>8. /\ answered' \subseteq Channels /\ round'.todo \subseteq Channels
      /\ used' \in [requests : Nat, edits : Nat, flips : Nat, errors : Nat]
    BY <1>1, <1>2 DEF Aut!TypeOK
<1>9. t # Aut!Nothing => probe.ch \in Channels /\ t \in seen'[probe.ch] BY <1>3, <1>5, <1>7
<1>10. (IF probe.step \in {"setup", "body"} THEN 1 ELSE 0)
         = 0 + (IF probe'.step \in {"setup", "body"} THEN 1 ELSE 0)
    BY <1>2, <1>6
<1> QED BY <1>2, <1>3, <1>6, <1>7, <1>8, <1>9, <1>10, ProbeKeeps

\* A chunk of the body of a test: a keyword is reported once, and a body past
\* the limit ends the test.
LEMMA ChunkOfBody ==
  ASSUME Aut!AutomationAssumption, Aut!AutomationInv, NEW keyword \in BOOLEAN, Aut!Chunk(keyword)
  PROVE  Aut!AutomationInv'
<1>1. Aut!TypeOK BY DEF Aut!AutomationInv
<1> DEFINE t == IF keyword /\ probe.matching THEN Aut!Text ELSE Aut!Nothing
           S == IF keyword THEN {Aut!Text} ELSE {}
           m == probe.matching /\ ~keyword
           n == IF probe.chunks = MaxChunks THEN 1 ELSE 0
<1>2. /\ probe.step = "body" /\ Aut!Report(probe.ch, t, n)
      /\ probe' = IF probe.chunks = MaxChunks THEN Aut!AfterProbe(FALSE)
                  ELSE [probe EXCEPT !.chunks = probe.chunks + 1, !.matching = m]
      /\ answered' = answered \ {probe.ch}
      /\ UNCHANGED <<stored, worker, applying, tester, round, used>>
    BY DEF Aut!Chunk
<1>3. probe \in Aut!Probes /\ probe.ch \in Channels BY <1>1, <1>2 DEF Aut!TypeOK
<1>4. seen' = [seen EXCEPT ![probe.ch] = seen[probe.ch] \cup S]
    BY <1>1, <1>3 DEF Aut!Chunk, Aut!TypeOK
<1>5. m \in BOOLEAN /\ S \subseteq {Aut!Bad, Aut!Text} /\ (t # Aut!Nothing => t \in S)
    BY <1>3 DEF Aut!Probes
<1>6. /\ Aut!AfterProbe(FALSE) \in Aut!Probes /\ Aut!AfterProbe(FALSE).step = Aut!Nothing
    BY <1>1, <1>2, ProbeAfter
<1> HIDE DEF m, S, t
<1>7. /\ seen' \in [Channels -> SUBSET {Aut!Bad, Aut!Text}] /\ S \subseteq seen'[probe.ch]
      /\ \A d \in Channels : seen[d] \subseteq seen'[d]
    BY <1>1, <1>3, <1>4, <1>5, Shown
<1>8. /\ answered' \subseteq Channels /\ round'.todo \subseteq Channels
      /\ used' \in [requests : Nat, edits : Nat, flips : Nat, errors : Nat]
    BY <1>1, <1>2 DEF Aut!TypeOK
<1>9. t # Aut!Nothing => probe.ch \in Channels /\ t \in seen'[probe.ch] BY <1>3, <1>5, <1>7
<1>10. CASE probe.chunks = MaxChunks
  <2>1. probe' \in Aut!Probes /\ probe'.step = Aut!Nothing BY <1>2, <1>6, <1>10
  <2>2. Aut!Report(probe.ch, t, 1) BY <1>2, <1>10
  <2>3. (IF probe.step \in {"setup", "body"} THEN 1 ELSE 0)
          = 1 + (IF probe'.step \in {"setup", "body"} THEN 1 ELSE 0)
    <3>1. probe.step = "body" BY <1>2
    <3> QED BY <2>1, <3>1
  <2> QED BY <1>2, <1>3, <1>7, <1>8, <1>9, <2>1, <2>2, <2>3, ProbeKeeps
<1>11. CASE probe.chunks # MaxChunks
  <2>1. probe' = [probe EXCEPT !.chunks = probe.chunks + 1, !.matching = m] BY <1>2, <1>11
  <2>2. probe.chunks + 1 \in Int BY <1>3 DEF Aut!Probes
  <2>3. probe' \in Aut!Probes /\ probe'.ch = probe.ch /\ probe'.step = "body"
      BY <1>2, <1>3, <1>5, <2>1, <2>2 DEF Aut!Probes
  <2>4. Aut!Report(probe.ch, t, 0) BY <1>2, <1>11
  <2>5. (IF probe.step \in {"setup", "body"} THEN 1 ELSE 0)
          = 0 + (IF probe'.step \in {"setup", "body"} THEN 1 ELSE 0)
    <3>1. probe.step = "body" BY <1>2
    <3> QED BY <2>3, <3>1
  <2> QED BY <1>2, <1>3, <1>7, <1>8, <1>9, <2>3, <2>4, <2>5, ProbeKeeps
<1> QED BY <1>10, <1>11

\* The test of a channel begins.
LEMMA ProbeStartsKeeps ==
  ASSUME Aut!AutomationAssumption, Aut!AutomationInv, NEW c \in Channels, Aut!ProbeStarts(c)
  PROVE  Aut!AutomationInv'
<1>1. Aut!TypeOK /\ Aut!ReportsAreSeen /\ Aut!ReportsAreKept /\ Aut!DisabledForCause /\ Aut!ProbesAreLogged
    BY DEF Aut!AutomationInv
<1>2. /\ probe = Aut!NoProbe /\ round' = [snap |-> round.snap, todo |-> round.todo \ {c}]
      /\ probe' = [Aut!NoProbe EXCEPT !.ch = c, !.step = "setup"] /\ Aut!Tally(1, 0, 0, 0)
      /\ UNCHANGED <<answered, stored, queue, worker, applying, tester, seen, used>>
    BY DEF Aut!ProbeStarts
<1>3. probe' \in Aut!Probes /\ probe'.step = "setup" /\ probe'.ch = c
  <2>1. Aut!NoProbe \in Aut!Probes BY DEF Aut!NoProbe, Aut!Probes
  <2> QED BY <1>2, <2>1 DEF Aut!Probes
<1>4. /\ tally' \in [started : Int, logged : Int, accepted : Int, applied : Int]
      /\ Counting => /\ tally'.started = tally.started + 1
                     /\ tally'.logged = tally.logged + 0
                     /\ tally'.accepted = tally.accepted + 0
                     /\ tally'.applied = tally.applied + 0
    BY <1>1, <1>2 DEF Aut!Tally, Aut!TypeOK
<1>5. tally \in [started : Int, logged : Int, accepted : Int, applied : Int]
  BY <1>1 DEF Aut!TypeOK
<1>6. round'.todo \subseteq Channels BY <1>1, <1>2 DEF Aut!TypeOK, Aut!ProbeStarts
<1>7. Aut!TypeOK' BY <1>1, <1>2, <1>3, <1>4, <1>6 DEF Aut!TypeOK
<1>8. Aut!ReportsAreSeen' BY <1>1, <1>2 DEF Aut!ReportsAreSeen
<1>9. Aut!ReportsAreKept' BY <1>1, <1>2, <1>4, <1>5 DEF Aut!ReportsAreKept
<1>10. Aut!DisabledForCause' BY <1>1, <1>2 DEF Aut!DisabledForCause, Aut!AutoDisabled
<1>11. Aut!RecoveryIsEarned' BY <1>3 DEF Aut!RecoveryIsEarned
<1>12. probe.step = Aut!Nothing BY <1>2 DEF Aut!NoProbe
<1>13. Aut!ProbesAreLogged' BY <1>1, <1>3, <1>4, <1>5, <1>12 DEF Aut!ProbesAreLogged
<1> QED BY <1>7, <1>8, <1>9, <1>10, <1>11, <1>13 DEF Aut!AutomationInv

\* The worker takes the oldest report.
LEMMA TakeReportKeeps ==
  ASSUME Aut!AutomationAssumption, Aut!AutomationInv, Aut!TakeReport PROVE Aut!AutomationInv'
<1>1. Aut!TypeOK /\ Aut!ReportsAreSeen /\ Aut!ReportsAreKept /\ Aut!DisabledForCause /\ Aut!RecoveryIsEarned
      /\ Aut!ProbesAreLogged
    BY DEF Aut!AutomationInv
<1>2. /\ worker \in {"run", "drain"} /\ applying = <<>> /\ queue # <<>>
      /\ applying' = Head(queue) /\ queue' = Tail(queue)
      /\ UNCHANGED <<answered, stored, worker, tester, round, probe, seen, tally, used>>
    BY DEF Aut!TakeReport
<1>3. /\ queue \in Seq(Aut!Reports) /\ Len(queue) \in Nat /\ Len(queue) # 0 /\ Len(queue) <= QueueCap
      /\ tally \in [started : Int, logged : Int, accepted : Int, applied : Int]
    BY <1>1, <1>2 DEF Aut!TypeOK
<1>4. /\ applying' = queue[1] /\ applying' \in Aut!Reports
      /\ queue' \in Seq(Aut!Reports) /\ Len(queue') = Len(queue) - 1
      /\ \A i \in 1..Len(queue') : queue'[i] = queue[i + 1] /\ i + 1 \in 1..Len(queue)
    BY <1>2, <1>3
<1>5. applying' # <<>>
  <2>1. PICK c \in Channels, t \in {Aut!Bad, Aut!Text} : applying' = <<c, t>>
    BY <1>4 DEF Aut!Reports
  <2> QED BY <2>1
<1>6. Aut!TypeOK'
  <2>1. Len(queue') <= QueueCap BY <1>3, <1>4 DEF Aut!AutomationAssumption
  <2> QED BY <1>1, <1>2, <1>4, <2>1 DEF Aut!TypeOK
<1>7. Aut!ReportsAreSeen'
  <2>1. 1 \in 1..Len(queue) BY <1>3
  <2>2. applying'[2] \in seen'[applying'[1]] BY <1>1, <1>2, <1>4, <2>1 DEF Aut!ReportsAreSeen
  <2>3. \A i \in 1..Len(queue') : queue'[i][2] \in seen'[queue'[i][1]]
      BY <1>1, <1>2, <1>4 DEF Aut!ReportsAreSeen
  <2> QED BY <2>2, <2>3 DEF Aut!ReportsAreSeen
<1>8. Aut!ReportsAreKept' BY <1>1, <1>2, <1>3, <1>4, <1>5 DEF Aut!ReportsAreKept
<1>9. Aut!DisabledForCause' BY <1>1, <1>2 DEF Aut!DisabledForCause, Aut!AutoDisabled
<1>10. Aut!RecoveryIsEarned' /\ Aut!ProbesAreLogged'
  BY <1>1, <1>2 DEF Aut!RecoveryIsEarned, Aut!ProbesAreLogged
<1> QED BY <1>6, <1>7, <1>8, <1>9, <1>10 DEF Aut!AutomationInv

\* A report is decided: the stored row of its channel gets the trigger, or nothing
\* happens because the stored settings no longer want it or the transaction fails.
LEMMA ApplyKeeps ==
  ASSUME Aut!AutomationAssumption, Aut!AutomationInv, applying # <<>>, applying' = <<>>, Aut!Tally(0, 0, 0, 1),
         UNCHANGED <<answered, queue, worker, tester, round, probe, seen>>,
         used' \in [requests : Nat, edits : Nat, flips : Nat, errors : Nat],
         \/ stored' = stored
         \/ stored' = [stored EXCEPT !.ch[applying[1]].reason = applying[2]]
  PROVE  Aut!AutomationInv'
<1>1. Aut!TypeOK /\ Aut!ReportsAreSeen /\ Aut!ReportsAreKept /\ Aut!DisabledForCause /\ Aut!RecoveryIsEarned
      /\ Aut!ProbesAreLogged
    BY DEF Aut!AutomationInv
<1>2. PICK c \in Channels, t \in {Aut!Bad, Aut!Text} : applying = <<c, t>>
    BY <1>1 DEF Aut!TypeOK, Aut!Reports
<1>3. t \in seen[c] BY <1>1, <1>2 DEF Aut!ReportsAreSeen
<1>4. /\ tally' \in [started : Int, logged : Int, accepted : Int, applied : Int]
      /\ Counting => /\ tally'.started = tally.started + 0
                     /\ tally'.logged = tally.logged + 0
                     /\ tally'.accepted = tally.accepted + 0
                     /\ tally'.applied = tally.applied + 1
    BY <1>1 DEF Aut!Tally, Aut!TypeOK
<1>5. /\ tally \in [started : Int, logged : Int, accepted : Int, applied : Int]
      /\ stored \in [set : Aut!Settings, ch : [Channels -> Aut!Channel]] /\ Len(queue) \in Nat
    BY <1>1 DEF Aut!TypeOK
<1>6. /\ stored' \in [set : Aut!Settings, ch : [Channels -> Aut!Channel]]
      /\ \A d \in Channels : \/ stored'.ch[d].reason = stored.ch[d].reason
                             \/ d = c /\ stored'.ch[d].reason = t
  <2>1. CASE stored' = stored BY <1>5, <2>1
  <2>2. CASE stored' = [stored EXCEPT !.ch[applying[1]].reason = applying[2]]
    <3>1. stored' = [stored EXCEPT !.ch = [stored.ch EXCEPT ![c] = [stored.ch[c] EXCEPT !.reason = t]]]
        BY <1>2, <2>2
    <3> DEFINE row == [stored.ch[c] EXCEPT !.reason = t]
    <3>2. row \in Aut!Channel /\ row.reason = t BY <1>5 DEF Aut!Channel
    <3> HIDE DEF row
    <3> DEFINE rows == [stored.ch EXCEPT ![c] = row]
    <3>3. rows \in [Channels -> Aut!Channel] /\ rows[c] = row
          /\ \A d \in Channels \ {c} : rows[d] = stored.ch[d]
        BY <1>5, <3>2
    <3>4. stored' = [stored EXCEPT !.ch = rows] BY <3>1 DEF row
    <3> HIDE DEF rows
    <3>5. stored' \in [set : Aut!Settings, ch : [Channels -> Aut!Channel]] /\ stored'.ch = rows
        BY <1>5, <3>3, <3>4
    <3> QED BY <3>2, <3>3, <3>5
  <2> QED BY <2>1, <2>2
<1>7. Aut!TypeOK' BY <1>1, <1>4, <1>6 DEF Aut!TypeOK
<1>8. Aut!ReportsAreSeen' BY <1>1 DEF Aut!ReportsAreSeen
<1>9. Aut!ReportsAreKept' BY <1>1, <1>4, <1>5 DEF Aut!ReportsAreKept
<1>10. Aut!DisabledForCause' BY <1>1, <1>3, <1>6 DEF Aut!DisabledForCause, Aut!AutoDisabled
<1>11. Aut!RecoveryIsEarned' BY <1>1 DEF Aut!RecoveryIsEarned
<1>12. Aut!ProbesAreLogged' BY <1>1, <1>4, <1>5 DEF Aut!ProbesAreLogged
<1> QED BY <1>7, <1>8, <1>9, <1>10, <1>11, <1>12 DEF Aut!AutomationInv

\* The shutdown deadline cuts the drain off, or a round.
LEMMA AbortKeeps ==
  ASSUME Aut!AutomationAssumption, Aut!AutomationInv, Aut!WorkerAborted \/ Aut!TesterAborted PROVE Aut!AutomationInv'
<1>1. Aut!TypeOK /\ Aut!ReportsAreSeen /\ Aut!ReportsAreKept /\ Aut!DisabledForCause /\ Aut!RecoveryIsEarned
      /\ Aut!ProbesAreLogged
    BY DEF Aut!AutomationInv
<1>2. /\ tally \in [started : Int, logged : Int, accepted : Int, applied : Int]
      /\ used' \in [requests : Nat, edits : Nat, flips : Nat, errors : Nat]
    BY <1>1, Using DEF Aut!TypeOK, Aut!WorkerAborted, Aut!TesterAborted
<1>3. CASE Aut!WorkerAborted
  <2>1. Aut!TypeOK' BY <1>1, <1>2, <1>3 DEF Aut!TypeOK, Aut!WorkerAborted
  <2>2. Aut!ReportsAreSeen' /\ Aut!ReportsAreKept'
      BY <1>1, <1>3 DEF Aut!ReportsAreSeen, Aut!ReportsAreKept, Aut!WorkerAborted
  <2>3. Aut!DisabledForCause' BY <1>1, <1>3 DEF Aut!DisabledForCause, Aut!AutoDisabled,
      Aut!WorkerAborted
  <2>4. Aut!RecoveryIsEarned' /\ Aut!ProbesAreLogged'
      BY <1>1, <1>3 DEF Aut!RecoveryIsEarned, Aut!ProbesAreLogged, Aut!WorkerAborted
  <2> QED BY <2>1, <2>2, <2>3, <2>4 DEF Aut!AutomationInv
<1>4. CASE Aut!TesterAborted
  <2> DEFINE n == IF probe.step \in {Aut!Nothing, "recover"} THEN 0 ELSE -1
  <2>1. /\ n \in Int /\ Aut!Tally(n, 0, 0, 0) /\ probe' = Aut!NoProbe /\ tester' = "aborted"
        /\ UNCHANGED <<answered, stored, queue, worker, applying, round, seen>>
      BY <1>4 DEF Aut!TesterAborted
  <2>2. Aut!NoProbe \in Aut!Probes /\ Aut!NoProbe.step = Aut!Nothing
    BY DEF Aut!NoProbe, Aut!Probes
  <2>3. n = 0 - (IF probe.step \in {"setup", "body"} THEN 1 ELSE 0)
      BY <1>1 DEF Aut!TypeOK, Aut!Probes
  <2> HIDE DEF n
  <2>4. /\ tally' \in [started : Int, logged : Int, accepted : Int, applied : Int]
        /\ Counting => /\ tally'.started = tally.started + n
                       /\ tally'.logged = tally.logged + 0
                       /\ tally'.accepted = tally.accepted + 0
                       /\ tally'.applied = tally.applied + 0
      BY <1>1, <2>1, Tallied
  <2>5. Aut!TypeOK' BY <1>1, <1>2, <2>1, <2>2, <2>4 DEF Aut!TypeOK
  <2>6. Aut!ReportsAreSeen' BY <1>1, <2>1 DEF Aut!ReportsAreSeen
  <2>7. Aut!ReportsAreKept' BY <1>1, <1>2, <2>1, <2>4 DEF Aut!ReportsAreKept
  <2>8. Aut!DisabledForCause' BY <1>1, <2>1 DEF Aut!DisabledForCause, Aut!AutoDisabled
  <2>9. Aut!RecoveryIsEarned' BY <2>1, <2>2 DEF Aut!RecoveryIsEarned
  <2>10. Aut!ProbesAreLogged' BY <1>1, <1>2, <2>1, <2>2, <2>3, <2>4 DEF Aut!ProbesAreLogged
  <2> QED BY <2>5, <2>6, <2>7, <2>8, <2>9, <2>10 DEF Aut!AutomationInv
<1> QED BY <1>3, <1>4

\* A recovery, or an edit of a channel, leaves a row whose reason is gone or as it
\* was.
LEMMA RowAfter ==
  ASSUME Aut!TypeOK, NEW c \in Channels,
         NEW s \in {[stored EXCEPT !.ch[c].allowed = ~@], [stored EXCEPT !.ch[c].enabled = ~@],
                    [stored EXCEPT !.ch[c].reason = Aut!Nothing]}
  PROVE  /\ s \in [set : Aut!Settings, ch : [Channels -> Aut!Channel]]
         /\ \A d \in Channels : s.ch[d].reason \in {Aut!Nothing, stored.ch[d].reason}
<1>1. stored \in [set : Aut!Settings, ch : [Channels -> Aut!Channel]] /\ stored.ch[c] \in Aut!Channel
    BY DEF Aut!TypeOK
<1>3. ASSUME NEW b \in Aut!Channel, s = [stored EXCEPT !.ch = [stored.ch EXCEPT ![c] = b]],
             b.reason \in {Aut!Nothing, stored.ch[c].reason}
      PROVE  /\ s \in [set : Aut!Settings, ch : [Channels -> Aut!Channel]]
             /\ \A d \in Channels : s.ch[d].reason \in {Aut!Nothing, stored.ch[d].reason}
  <2> DEFINE rows == [stored.ch EXCEPT ![c] = b]
  <2>1. /\ rows \in [Channels -> Aut!Channel] /\ rows[c] = b
        /\ \A d \in Channels \ {c} : rows[d] = stored.ch[d]
      BY <1>1
  <2>2. s = [stored EXCEPT !.ch = rows] BY <1>3
  <2> HIDE DEF rows
  <2>3. s \in [set : Aut!Settings, ch : [Channels -> Aut!Channel]] /\ s.ch = rows
    BY <1>1, <2>1, <2>2
  <2> QED BY <1>3, <2>1, <2>3
<1>6. CASE s = [stored EXCEPT !.ch[c].allowed = ~@]
  <2> DEFINE b == [stored.ch[c] EXCEPT !.allowed = ~stored.ch[c].allowed]
  <2>1. b \in Aut!Channel /\ b.reason = stored.ch[c].reason BY <1>1 DEF Aut!Channel
  <2>2. s = [stored EXCEPT !.ch = [stored.ch EXCEPT ![c] = b]] BY <1>6
  <2> QED BY <1>3, <2>1, <2>2
<1>7. CASE s = [stored EXCEPT !.ch[c].enabled = ~@]
  <2> DEFINE b == [stored.ch[c] EXCEPT !.enabled = ~stored.ch[c].enabled]
  <2>1. b \in Aut!Channel /\ b.reason = stored.ch[c].reason BY <1>1 DEF Aut!Channel
  <2>2. s = [stored EXCEPT !.ch = [stored.ch EXCEPT ![c] = b]] BY <1>7
  <2> QED BY <1>3, <2>1, <2>2
<1>8. CASE s = [stored EXCEPT !.ch[c].reason = Aut!Nothing]
  <2> DEFINE b == [stored.ch[c] EXCEPT !.reason = Aut!Nothing]
  <2>1. b \in Aut!Channel /\ b.reason = Aut!Nothing BY <1>1 DEF Aut!Channel
  <2>2. s = [stored EXCEPT !.ch = [stored.ch EXCEPT ![c] = b]] BY <1>8
  <2> QED BY <1>3, <2>1, <2>2
<1> QED BY <1>6, <1>7, <1>8

\* So does any edit of an administrator.
LEMMA EditedRows ==
  ASSUME Aut!TypeOK, NEW s \in Aut!Edits
  PROVE  /\ s \in [set : Aut!Settings, ch : [Channels -> Aut!Channel]]
         /\ \A d \in Channels : s.ch[d].reason \in {Aut!Nothing, stored.ch[d].reason}
<1>1. stored \in [set : Aut!Settings, ch : [Channels -> Aut!Channel]] /\ stored.set \in Aut!Settings
    BY DEF Aut!TypeOK
<1>2. ASSUME NEW b \in Aut!Settings, s = [stored EXCEPT !.set = b]
      PROVE  /\ s \in [set : Aut!Settings, ch : [Channels -> Aut!Channel]]
             /\ \A d \in Channels : s.ch[d].reason \in {Aut!Nothing, stored.ch[d].reason}
  <2>1. s \in [set : Aut!Settings, ch : [Channels -> Aut!Channel]] /\ s.ch = stored.ch
    BY <1>1, <1>2
  <2> QED BY <2>1
<1>3. CASE s = [stored EXCEPT !.set.disable = ~@]
  <2> DEFINE b == [stored.set EXCEPT !.disable = ~stored.set.disable]
  <2>1. b \in Aut!Settings BY <1>1 DEF Aut!Settings
  <2>2. s = [stored EXCEPT !.set = b] BY <1>3
  <2> QED BY <1>2, <2>1, <2>2
<1>4. CASE s = [stored EXCEPT !.set.recover = ~@]
  <2> DEFINE b == [stored.set EXCEPT !.recover = ~stored.set.recover]
  <2>1. b \in Aut!Settings BY <1>1 DEF Aut!Settings
  <2>2. s = [stored EXCEPT !.set = b] BY <1>4
  <2> QED BY <1>2, <2>1, <2>2
<1>5. CASE \E c \in Channels : s \in {[stored EXCEPT !.ch[c].allowed = ~@],
                                     [stored EXCEPT !.ch[c].enabled = ~@],
                                     [stored EXCEPT !.ch[c].reason = Aut!Nothing]}
    BY <1>5, RowAfter
<1> QED BY <1>3, <1>4, <1>5 DEF Aut!Edits

\* automatically_recover_channel, whether its transaction commits or fails.
LEMMA RecoverKeeps ==
  ASSUME Aut!AutomationAssumption, Aut!AutomationInv, Aut!Recover \/ Aut!RecoverFails PROVE Aut!AutomationInv'
<1>1. Aut!TypeOK BY DEF Aut!AutomationInv
<1>2. /\ probe.step = "recover" /\ probe' = Aut!NoProbe
      /\ UNCHANGED <<answered, queue, worker, applying, tester, round, seen, tally>>
    BY DEF Aut!Recover, Aut!RecoverFails
<1>3. probe.ch \in Channels /\ round'.todo \subseteq Channels BY <1>1, <1>2 DEF Aut!TypeOK
<1>4. used' \in [requests : Nat, edits : Nat, flips : Nat, errors : Nat]
    BY <1>1, Using DEF Aut!Recover, Aut!RecoverFails, Aut!TypeOK
<1>5. stored' = stored \/ stored' = [stored EXCEPT !.ch[probe.ch].reason = Aut!Nothing]
    BY DEF Aut!Recover, Aut!RecoverFails
<1>6. /\ stored' \in [set : Aut!Settings, ch : [Channels -> Aut!Channel]]
      /\ \A d \in Channels : stored'.ch[d].reason \in {Aut!Nothing, stored.ch[d].reason}
  <2>1. CASE stored' = stored BY <1>1, <2>1 DEF Aut!TypeOK
  <2>2. CASE stored' = [stored EXCEPT !.ch[probe.ch].reason = Aut!Nothing]
      BY <1>1, <1>3, <2>2, RowAfter
  <2> QED BY <1>5, <2>1, <2>2
<1>7. /\ worker' \in {"run", "drain", "done", "aborted"}
      /\ tester' \in {"idle", "round", "done", "aborted"}
    BY <1>1, <1>2 DEF Aut!TypeOK
<1> QED BY <1>2, <1>3, <1>4, <1>6, <1>7, QuietKeeps

\* An administrator edits a setting or a channel, here or in another process.
LEMMA EditKeeps ==
  ASSUME Aut!AutomationAssumption, Aut!AutomationInv, NEW here \in BOOLEAN, Aut!Edit(here) PROVE Aut!AutomationInv'
<1>1. Aut!TypeOK BY DEF Aut!AutomationInv
<1>2. /\ Aut!Use("edits", MaxEdits) /\ stored' \in Aut!Edits
      /\ UNCHANGED <<answered, queue, worker, applying, tester, round, probe, seen, tally>>
    BY DEF Aut!Edit
<1>3. used' \in [requests : Nat, edits : Nat, flips : Nat, errors : Nat] BY <1>1, <1>2, Using
<1>4. /\ stored' \in [set : Aut!Settings, ch : [Channels -> Aut!Channel]]
      /\ \A d \in Channels : stored'.ch[d].reason \in {Aut!Nothing, stored.ch[d].reason}
    BY <1>1, <1>2, EditedRows
<1>5. /\ worker' \in {"run", "drain", "done", "aborted"}
      /\ tester' \in {"idle", "round", "done", "aborted"} /\ round'.todo \subseteq Channels
    BY <1>1, <1>2 DEF Aut!TypeOK
<1> QED BY <1>2, <1>3, <1>4, <1>5, QuietKeeps

\* The steps of the two workers, the reload and the upstreams that report and
\* apply nothing.
LEMMA WorkersKeep ==
  ASSUME Aut!AutomationAssumption, Aut!AutomationInv,
         \/ Aut!WorkerStops \/ Aut!WorkerDone \/ Aut!RoundStarts \/ Aut!RoundEnds \/ Aut!Shutdown \/ Aut!TesterStops
         \/ Aut!Reload \/ \E c \in Channels : Aut!Flip(c)
  PROVE  Aut!AutomationInv'
<1>1. Aut!TypeOK BY DEF Aut!AutomationInv
<1>2. UNCHANGED <<queue, applying, seen, tally, answered, stored, probe>>
    BY DEF Aut!WorkerStops, Aut!WorkerDone, Aut!RoundStarts, Aut!RoundEnds, Aut!Shutdown,
      Aut!TesterStops, Aut!Reload, Aut!Flip
<1>3. used' \in [requests : Nat, edits : Nat, flips : Nat, errors : Nat]
    BY <1>1, Using DEF Aut!WorkerStops, Aut!WorkerDone, Aut!RoundStarts, Aut!RoundEnds,
      Aut!Shutdown, Aut!TesterStops, Aut!Reload, Aut!Flip, Aut!TypeOK
<1>4. /\ tester' \in {"idle", "round", "done", "aborted"}
      /\ worker' \in {"run", "drain", "done", "aborted"}
    BY <1>1 DEF Aut!WorkerStops, Aut!WorkerDone, Aut!RoundStarts, Aut!RoundEnds, Aut!Shutdown,
      Aut!TesterStops, Aut!Reload, Aut!Flip, Aut!TypeOK
<1>5. round'.todo \subseteq Channels
  <2>1. CASE round' = round BY <1>1, <2>1 DEF Aut!TypeOK
  <2>2. CASE Aut!RoundStarts BY <2>2 DEF Aut!RoundStarts, Aut!Eligible
  <2>3. CASE Aut!RoundEnds BY <2>3 DEF Aut!RoundEnds
  <2> QED BY <2>1, <2>2, <2>3 DEF Aut!WorkerStops, Aut!WorkerDone, Aut!Shutdown, Aut!TesterStops,
      Aut!Reload, Aut!Flip
<1>6. \/ worker' = worker
      \/ worker \in {"run", "drain"} /\ worker' = "drain"
      \/ worker = "drain" /\ worker' = "done" /\ queue = <<>> /\ applying = <<>>
    BY DEF Aut!WorkerStops, Aut!WorkerDone, Aut!RoundStarts, Aut!RoundEnds, Aut!Shutdown,
      Aut!TesterStops, Aut!Reload, Aut!Flip
<1>7. stored' \in [set : Aut!Settings, ch : [Channels -> Aut!Channel]]
  BY <1>1, <1>2 DEF Aut!TypeOK
<1> QED BY <1>2, <1>3, <1>4, <1>5, <1>6, <1>7, QuietKeeps

\* Every step of the workers, the tests and their environment keeps the invariant.
LEMMA AutomationStep ==
  ASSUME Aut!AutomationAssumption, Aut!AutomationInv, [Aut!Next]_(Aut!vars) PROVE Aut!AutomationInv'
<1>1. Aut!TypeOK BY DEF Aut!AutomationInv
<1>2. ASSUME NEW c \in Channels, Aut!RequestFails(c) PROVE Aut!AutomationInv'
  BY <1>2, RequestFailsKeeps
<1>3. ASSUME NEW c \in Channels, Aut!ProbeStarts(c) PROVE Aut!AutomationInv'
  BY <1>3, ProbeStartsKeeps
<1>4. CASE Aut!TakeReport BY <1>4, TakeReportKeeps
<1>5. CASE Aut!ApplyDisable
  <2>1. /\ applying # <<>> /\ applying' = <<>> /\ Aut!Tally(0, 0, 0, 1)
        /\ UNCHANGED <<answered, queue, worker, tester, round, probe, seen, used>>
        /\ \/ stored' = stored
           \/ stored' = [stored EXCEPT !.ch[applying[1]].reason = applying[2]]
      BY <1>5 DEF Aut!ApplyDisable
  <2>2. used' \in [requests : Nat, edits : Nat, flips : Nat, errors : Nat]
    BY <1>1, <2>1 DEF Aut!TypeOK
  <2> QED BY <2>1, <2>2, ApplyKeeps
<1>6. CASE Aut!ApplyFails
  <2>1. /\ applying # <<>> /\ applying' = <<>> /\ Aut!Tally(0, 0, 0, 1) /\ Aut!Use("errors", MaxErrors)
        /\ UNCHANGED <<answered, queue, worker, tester, round, probe, seen, stored>>
      BY <1>6 DEF Aut!ApplyFails
  <2>2. used' \in [requests : Nat, edits : Nat, flips : Nat, errors : Nat] BY <1>1, <2>1, Using
  <2> QED BY <2>1, <2>2, ApplyKeeps
<1>7. CASE \/ Aut!WorkerStops \/ Aut!WorkerDone \/ Aut!RoundStarts \/ Aut!RoundEnds \/ Aut!Shutdown \/ Aut!TesterStops
           \/ Aut!Reload \/ \E c \in Channels : Aut!Flip(c)
    BY <1>7, WorkersKeep
<1>8. CASE Aut!WorkerAborted \/ Aut!TesterAborted BY <1>8, AbortKeeps
<1>9. CASE Aut!ProbeStep
  <2>1. CASE Aut!SetupFails
    <3>1. used' \in [requests : Nat, edits : Nat, flips : Nat, errors : Nat]
        BY <1>1, <2>1, Using DEF Aut!SetupFails
    <3>2. /\ probe.step = "setup" /\ Aut!Finish(FALSE) /\ answered' = answered \ {probe.ch}
          /\ UNCHANGED <<stored, worker, applying, tester, round, seen>>
        BY <2>1 DEF Aut!SetupFails, Aut!Broken
    <3> QED BY <3>1, <3>2, FinishKeeps
  <2>2. CASE Aut!SendFails \/ Aut!BodyBreaks
    <3>1. used' \in [requests : Nat, edits : Nat, flips : Nat, errors : Nat]
        BY <1>1, <2>2 DEF Aut!SendFails, Aut!BodyBreaks, Aut!TypeOK
    <3>2. /\ probe.step \in {"setup", "body"} /\ Aut!Finish(FALSE) /\ answered' = answered \ {probe.ch}
          /\ UNCHANGED <<stored, worker, applying, tester, round, seen>>
        BY <2>2 DEF Aut!SendFails, Aut!BodyBreaks, Aut!Broken
    <3> QED BY <3>1, <3>2, FinishKeeps
  <2>3. CASE Aut!BodyEnds
    <3>1. used' \in [requests : Nat, edits : Nat, flips : Nat, errors : Nat]
        BY <1>1, <2>3 DEF Aut!BodyEnds, Aut!TypeOK
    <3> DEFINE ok == probe.status = Aut!Good
    <3>2. /\ probe.step = "body" /\ Aut!Finish(ok) /\ ok \in BOOLEAN
          /\ answered' = IF ok THEN answered \cup {probe.ch} ELSE answered \ {probe.ch}
          /\ UNCHANGED <<stored, worker, applying, tester, round, seen>>
        BY <2>3 DEF Aut!BodyEnds
    <3> HIDE DEF ok
    <3> QED BY <3>1, <3>2, FinishKeeps
  <2>4. CASE Aut!Recover \/ Aut!RecoverFails BY <2>4, RecoverKeeps
  <2>5. ASSUME NEW s \in {Aut!Good, Aut!Bad, Aut!Other}, Aut!Headers(s) PROVE Aut!AutomationInv'
    BY <2>5, HeadersKeeps
  <2>6. ASSUME NEW k \in BOOLEAN, Aut!Chunk(k) PROVE Aut!AutomationInv' BY <2>6, ChunkOfBody
  <2> QED BY <1>9, <2>1, <2>2, <2>3, <2>4, <2>5, <2>6 DEF Aut!ProbeStep
<1>10. ASSUME NEW here \in BOOLEAN, Aut!Edit(here) PROVE Aut!AutomationInv' BY <1>10, EditKeeps
<1>11. CASE UNCHANGED Aut!vars
    BY <1>11 DEF Aut!vars, Aut!AutomationInv, Aut!TypeOK, Aut!ReportsAreSeen, Aut!ReportsAreKept,
      Aut!DisabledForCause, Aut!AutoDisabled, Aut!RecoveryIsEarned, Aut!ProbesAreLogged
<1> QED BY <1>2, <1>3, <1>4, <1>5, <1>6, <1>7, <1>8, <1>9, <1>10, <1>11 DEF Aut!Next

\* The queue of reports, the tests and the stored channels stay consistent,
\* whatever administrators edit meanwhile and whenever a worker is stopped.
THEOREM AutomationInvariant == Aut!AutomationAssumption /\ Aut!Spec => []Aut!AutomationInv
<1> SUFFICES ASSUME Aut!AutomationAssumption PROVE Aut!Spec => []Aut!AutomationInv OBVIOUS
<1>1. Aut!Init => Aut!AutomationInv BY AutomationInitial
<1>2. Aut!AutomationInv /\ [Aut!Next]_(Aut!vars) => Aut!AutomationInv' BY AutomationStep
<1> QED BY <1>1, <1>2, PTL DEF Aut!Spec

\* For any set of channels, length of the queue and limit of the body: a channel is
\* disabled only for a trigger that one of its own responses has shown, a recovery
\* follows only a complete 2xx answer, every test is logged exactly once unless the
\* deadline cuts it off, and an orderly shutdown decides every accepted report
\* (AutomaticDisableService, ChannelProbeWorker::run).
THEOREM AutomationAlwaysSound == Aut!AutomationAssumption /\ Aut!Spec => []Aut!AutomationSound
<1> SUFFICES ASSUME Aut!AutomationAssumption PROVE Aut!Spec => []Aut!AutomationSound OBVIOUS
<1>1. Aut!AutomationInv => Aut!AutomationSound
  <2> SUFFICES ASSUME Aut!AutomationInv PROVE Aut!AutomationSound OBVIOUS
  <2>1. Aut!TypeOK /\ Aut!ReportsAreKept /\ Aut!DisabledForCause /\ Aut!RecoveryIsEarned /\ Aut!ProbesAreLogged
      BY DEF Aut!AutomationInv
  <2>2. tally \in [started : Int, logged : Int, accepted : Int, applied : Int]
    BY <2>1 DEF Aut!TypeOK
  <2>3. Aut!ReportsAreDrained BY <2>1, <2>2 DEF Aut!ReportsAreKept, Aut!ReportsAreDrained
  <2> QED BY <2>1, <2>3 DEF Aut!AutomationSound
<1>2. Aut!Spec => []Aut!AutomationInv BY AutomationInvariant
<1> QED BY <1>1, <1>2, PTL

\* Only the two transactions and administrators change a stored channel, and the
\* transactions look at the settings stored at that moment.
LEMMA PolicyStep == ASSUME Aut!TypeOK, [Aut!Next]_(Aut!vars) PROVE Aut!PolicyPrevails
<1> USE DEF Aut!AutoDisabled
<1>1. stored \in [set : Aut!Settings, ch : [Channels -> Aut!Channel]] BY DEF Aut!TypeOK
<1>2. CASE stored' = stored BY <1>2 DEF Aut!PolicyPrevails
<1>3. CASE Aut!ApplyDisable /\ stored' # stored
  <2>1. /\ applying # <<>> /\ Aut!DisableMatches(applying[1])
        /\ stored' = [stored EXCEPT !.ch[applying[1]].reason = applying[2]]
      BY <1>3 DEF Aut!ApplyDisable
  <2>2. PICK c \in Channels, t \in {Aut!Bad, Aut!Text} : applying = <<c, t>>
    BY <2>1 DEF Aut!TypeOK, Aut!Reports
  <2>3. stored' = [stored EXCEPT !.ch = [stored.ch EXCEPT ![c] = [stored.ch[c] EXCEPT !.reason = t]]]
      BY <2>1, <2>2
  <2>4. \A d \in Channels \ {c} : stored'.ch[d] = stored.ch[d] BY <1>1, <2>3
  <2>5. stored.ch[c].reason = Aut!Nothing /\ stored.set.disable /\ stored.ch[c].allowed
        /\ stored.ch[c].enabled
      BY <2>1, <2>2 DEF Aut!DisableMatches
  <2> QED BY <2>4, <2>5 DEF Aut!PolicyPrevails
<1>4. CASE Aut!Recover /\ stored' # stored
  <2>1. /\ probe.step = "recover" /\ Aut!RecoverMatches(probe.ch)
        /\ stored' = [stored EXCEPT !.ch[probe.ch].reason = Aut!Nothing]
      BY <1>4 DEF Aut!Recover
  <2>2. probe.ch \in Channels BY <2>1 DEF Aut!TypeOK
  <2> DEFINE c == probe.ch
  <2>3. stored' = [stored EXCEPT !.ch = [stored.ch EXCEPT ![c] = [stored.ch[c] EXCEPT !.reason = Aut!Nothing]]]
      BY <2>1
  <2>4. \A d \in Channels \ {c} : stored'.ch[d] = stored.ch[d] BY <1>1, <2>2, <2>3
  <2>5. stored.ch[c].reason # Aut!Nothing /\ stored.set.recover /\ stored.ch[c].enabled
      BY <2>1 DEF Aut!RecoverMatches
  <2> QED BY <2>4, <2>5 DEF Aut!PolicyPrevails
<1>5. ASSUME NEW here \in BOOLEAN, Aut!Edit(here) PROVE Aut!PolicyPrevails
  <2>1. used' # used BY <1>5, Using DEF Aut!Edit
  <2>2. stored' \in Aut!Edits BY <1>5 DEF Aut!Edit
  <2>3. \A d \in Channels : stored'.ch[d].reason \in {Aut!Nothing, stored.ch[d].reason}
      BY <2>2, EditedRows
  <2> QED BY <2>1, <2>3 DEF Aut!PolicyPrevails
<1>6. Aut!Next /\ stored' # stored => Aut!ApplyDisable \/ Aut!Recover \/ \E here \in BOOLEAN : Aut!Edit(here)
    BY DEF Aut!Next, Aut!ProbeStep, Aut!RequestFails, Aut!ProbeStarts, Aut!Flip, Aut!TakeReport,
      Aut!ApplyFails, Aut!WorkerStops, Aut!WorkerDone, Aut!WorkerAborted, Aut!RoundStarts,
      Aut!RoundEnds, Aut!Shutdown, Aut!TesterStops, Aut!TesterAborted, Aut!Reload, Aut!SetupFails,
      Aut!SendFails, Aut!BodyBreaks, Aut!BodyEnds, Aut!RecoverFails, Aut!Headers, Aut!Chunk
<1> QED BY <1>2, <1>3, <1>4, <1>5, <1>6 DEF Aut!vars

\* "A stale background event cannot override a just-saved administrator setting":
\* whatever snapshot a report or a test round was made under, automation disables or
\* recovers a channel only as the stored settings want it
\* (automatically_disable_channel, automatically_recover_channel).
THEOREM PolicyAlwaysPrevails == Aut!AutomationAssumption /\ Aut!Spec => [][Aut!PolicyPrevails]_(Aut!vars)
<1> SUFFICES ASSUME Aut!AutomationAssumption PROVE Aut!Spec => [][Aut!PolicyPrevails]_(Aut!vars)
    OBVIOUS
<1>1. Aut!AutomationInv => Aut!TypeOK BY DEF Aut!AutomationInv
<1>2. Aut!TypeOK /\ [Aut!Next]_(Aut!vars) => Aut!PolicyPrevails BY PolicyStep
<1>3. Aut!Spec => []Aut!AutomationInv BY AutomationInvariant
<1> QED BY <1>1, <1>2, <1>3, PTL DEF Aut!Spec

HIDE DEF Aut!Bad, Aut!Other, Aut!Good, Aut!Text, Aut!Nothing

--------------------
\* Hosted: SessionAffinity, the cache of the candidates that served a
\* session.  The theorems are about the specification of SessionAffinity
\* with its own constants; it shares no state with the components above.

CONSTANTS
  Callers, Rules, Sessions, Candidates, NoCandidate, Caps, Ttl, CompactSlack, MaxTime,
  MaxStores, MaxChanges

VARIABLES
  clock, enabled, cap, rules, entries, recency, generation, stage, key, preferred, keep,
  bound, hit, changes

Aff == INSTANCE SessionAffinity WITH
  Requests <- Callers, None <- NoCandidate, MaxReloads <- MaxChanges,
  now <- clock, pc <- stage, reloads <- changes

\* The module counts with the operators of FiniteSets.
LEMMA CacheCounts == ASSUME NEW S PROVE Aff!Cardinality(S) = Cardinality(S)
BY DEF Aff!Cardinality, Cardinality

LEMMA CacheFinite == ASSUME NEW S PROVE Aff!IsFiniteSet(S) <=> IsFiniteSet(S)
BY DEF Aff!IsFiniteSet, IsFiniteSet

\* A set of natural numbers has a least one.
LEMMA LeastOf ==
  ASSUME NEW T, T \subseteq Nat, T # {} PROVE Aff!Min(T) \in T /\ \A y \in T : Aff!Min(T) <= y
<1> DEFINE R == OpToRel(<, Nat)
<1>1. IsWellFoundedOn(R, Nat) BY NatLessThanWellFounded, Zenon
<1>2. \A x, y \in Nat : <<y, x>> \in R <=> y < x BY DEF OpToRel
<1> HIDE DEF R
<1>3. PICK x \in T : \A y \in T : ~ (<<y, x>> \in R) BY <1>1, WFMin, Zenon
<1>4. ASSUME NEW y \in T PROVE x <= y
  <2>1. x \in Nat /\ y \in Nat OBVIOUS
  <2>2. ~ (y < x) BY <1>2, <1>3, <2>1
  <2> QED BY <2>1, <2>2
<1> QED BY <1>4 DEF Aff!Min

\* The largest max_entries bounds the others.
LEMMA LargestCap ==
  ASSUME Aff!AffinityAssumption
  PROVE  Aff!Max(Caps) \in Nat /\ \A c \in Caps : c \in Nat /\ c <= Aff!Max(Caps)
<1>1. PICK m \in Caps : \A c \in Caps : m >= c BY DEF Aff!AffinityAssumption
<1>2. Aff!Max(Caps) \in Caps /\ \A c \in Caps : Aff!Max(Caps) >= c BY <1>1 DEF Aff!Max
<1> QED BY <1>2 DEF Aff!AffinityAssumption

\* What is left of a cache: fewer sessions, bound as before.
Shrinks(es, os) ==
  /\ DOMAIN es \subseteq DOMAIN os
  /\ \A k \in DOMAIN es : es[k] = os[k]

\* Removing sessions keeps the other bindings.
LEMMA WithoutShrinks ==
  ASSUME NEW es, NEW S
  PROVE  Shrinks(Aff!Without(es, S), es) /\ DOMAIN Aff!Without(es, S) = DOMAIN es \ S
BY DEF Shrinks, Aff!Without

\* Fewer bindings are sound and not more.
LEMMA FewerCached ==
  ASSUME NEW es, NEW os, NEW g \in Nat, Aff!Cached(os, g), Shrinks(es, os)
  PROVE  /\ Aff!Cached(es, g)
         /\ Cardinality(DOMAIN es) <= Cardinality(DOMAIN os)
<1>1. IsFiniteSet(DOMAIN es) /\ Cardinality(DOMAIN es) <= Cardinality(DOMAIN os)
  BY FS_Subset, CacheCounts, CacheFinite DEF Aff!Cached, Shrinks
<1>2. Aff!Cached(es, g) BY <1>1, CacheFinite DEF Aff!Cached, Shrinks
<1> QED BY <1>1, <1>2, CacheCounts

\* The queue of a cache indexes what remains of the cache.
LEMMA FewerQueued ==
  ASSUME NEW es, NEW os, NEW q, NEW g \in Nat, Aff!Queued(os, q, g), Shrinks(es, os)
  PROVE  Aff!Queued(es, q, g)
BY DEF Aff!Queued, Shrinks, Aff!Indexes

\* The number of bindings is a natural number.
LEMMA CacheSizes ==
  ASSUME NEW es, NEW g \in Nat, Aff!Cached(es, g)
  PROVE  IsFiniteSet(DOMAIN es) /\ Cardinality(DOMAIN es) \in Nat
BY FS_CardinalityType, CacheCounts, CacheFinite DEF Aff!Cached

\* The rank of a binding is a position, and ranks follow generations.
LEMMA RanksOrder ==
  ASSUME NEW es, NEW g \in Nat, Aff!Cached(es, g), NEW j \in DOMAIN es, NEW k \in DOMAIN es
  PROVE  /\ Aff!Rank(es, k) \in 1..Cardinality(DOMAIN es)
         /\ es[j].gen < es[k].gen => Aff!Rank(es, j) < Aff!Rank(es, k)
<1> DEFINE A(x) == {y \in DOMAIN es : es[y].gen <= es[x].gen}
<1>0. IsFiniteSet(DOMAIN es) /\ Cardinality(DOMAIN es) \in Nat
  BY CacheSizes, CacheCounts, CacheFinite
<1>1. \A x \in DOMAIN es : es[x].gen \in Nat BY DEF Aff!Cached, Aff!Entry
<1>2. Aff!Rank(es, j) = Cardinality(A(j)) /\ Aff!Rank(es, k) = Cardinality(A(k))
  BY CacheCounts DEF Aff!Rank
<1>3. j \in A(j) /\ k \in A(k) BY <1>1
<1>4. A(j) \in SUBSET DOMAIN es /\ A(k) \in SUBSET DOMAIN es OBVIOUS
<1>5. es[j].gen < es[k].gen => A(j) \in SUBSET A(k) /\ A(j) # A(k)
  <2> SUFFICES ASSUME es[j].gen < es[k].gen PROVE A(j) \in SUBSET A(k) /\ k \notin A(j) BY <1>3
  <2> QED BY <1>1
<1> HIDE DEF A
<1>6. /\ IsFiniteSet(A(j)) /\ IsFiniteSet(A(k))
      /\ Cardinality(A(k)) <= Cardinality(DOMAIN es)
  BY <1>0, <1>4, FS_Subset
<1>7. Cardinality(A(j)) \in Nat /\ Cardinality(A(k)) \in Nat /\ Cardinality(A(k)) # 0
  BY <1>3, <1>6, FS_CardinalityType, FS_EmptySet
<1>8. es[j].gen < es[k].gen => Cardinality(A(j)) < Cardinality(A(k))
  <2> SUFFICES ASSUME es[j].gen < es[k].gen PROVE Cardinality(A(j)) < Cardinality(A(k)) OBVIOUS
  <2>1. Cardinality(A(j)) <= Cardinality(A(k)) /\ Cardinality(A(k)) # Cardinality(A(j))
    BY <1>5, <1>6, FS_Subset
  <2> QED BY <1>7, <2>1
<1> QED BY <1>0, <1>2, <1>6, <1>7, <1>8, CacheCounts

\* Ranks and bindings correspond one to one: generations are distinct, so ranking is
\* an injection into as many positions as there are bindings, and onto them.
LEMMA RankedIs ==
  ASSUME NEW es, NEW g \in Nat, Aff!Cached(es, g)
  PROVE  /\ \A i \in 1..Cardinality(DOMAIN es) :
              Aff!Ranked(es, i) \in DOMAIN es /\ Aff!Rank(es, Aff!Ranked(es, i)) = i
         /\ \A k \in DOMAIN es :
              Aff!Rank(es, k) \in 1..Cardinality(DOMAIN es) /\ Aff!Ranked(es, Aff!Rank(es, k)) = k
<1> DEFINE n == Cardinality(DOMAIN es)
           f == [k \in DOMAIN es |-> Aff!Rank(es, k)]
<1>0. IsFiniteSet(DOMAIN es) /\ n \in Nat BY CacheSizes, CacheCounts, CacheFinite
<1>1. \A k \in DOMAIN es : Aff!Rank(es, k) \in 1..n BY RanksOrder, CacheCounts
<1>2. \A j, k \in DOMAIN es : Aff!Rank(es, j) = Aff!Rank(es, k) => j = k
  <2> SUFFICES ASSUME NEW j \in DOMAIN es, NEW k \in DOMAIN es, Aff!Rank(es, j) = Aff!Rank(es, k)
               PROVE  j = k
    OBVIOUS
  <2>1. es[j].gen \in Nat /\ es[k].gen \in Nat BY DEF Aff!Cached, Aff!Entry
  <2>2. ~ (es[j].gen < es[k].gen) /\ ~ (es[k].gen < es[j].gen) BY <1>0, <1>1, RanksOrder
  <2>3. es[j].gen = es[k].gen BY <2>1, <2>2
  <2> QED BY <2>3 DEF Aff!Cached
<1> HIDE DEF n
<1>3. f \in [DOMAIN es -> 1..n] BY <1>1
<1>4. f \in Injection(DOMAIN es, 1..n)
  <2>1. \A a, b \in DOMAIN es : f[a] = f[b] => a = b BY <1>2
  <2> HIDE DEF f
  <2> QED BY <1>3, <2>1, Fun_IsInj
<1>5. IsFiniteSet(1..n) /\ Cardinality(1..n) = n BY <1>0, FS_Interval
<1>6. f \in Surjection(DOMAIN es, 1..n)
  <2> HIDE DEF f
  <2> QED BY <1>4, <1>5, FS_Injection DEF n
<1>7. \A i \in 1..n : \E k \in DOMAIN es : Aff!Rank(es, k) = i BY <1>6 DEF Surjection
<1>8. \A i \in 1..n : Aff!Ranked(es, i) \in DOMAIN es /\ Aff!Rank(es, Aff!Ranked(es, i)) = i
  BY <1>7 DEF Aff!Ranked
<1>9. \A k \in DOMAIN es : Aff!Ranked(es, Aff!Rank(es, k)) = k BY <1>1, <1>2, <1>8
<1> QED BY <1>1, <1>8, <1>9, CacheCounts DEF n

\* rebuild_affinity_recency leaves one item per binding, oldest first.
LEMMA RebuiltIs ==
  ASSUME NEW es, NEW g \in Nat, Aff!Cached(es, g)
  PROVE  Aff!Queued(es, Aff!Rebuilt(es), g) /\ Len(Aff!Rebuilt(es)) = Cardinality(DOMAIN es)
<1> DEFINE n == Cardinality(DOMAIN es)
           q == Aff!Rebuilt(es)
           R(i) == Aff!Ranked(es, i)
<1>0. n \in Nat BY CacheSizes, CacheCounts
<1>1. \A i \in 1..n : R(i) \in DOMAIN es /\ Aff!Rank(es, R(i)) = i BY RankedIs, CacheCounts
<1>2. \A k \in DOMAIN es : Aff!Rank(es, k) \in 1..n /\ R(Aff!Rank(es, k)) = k
  BY RankedIs, CacheCounts
<1>3. q = [i \in 1..n |-> <<R(i), es[R(i)].gen>>] BY CacheCounts DEF Aff!Rebuilt
<1> HIDE DEF n, R, q
<1>4. \A k \in DOMAIN es : k \in Aff!Keys /\ es[k].gen \in Nat /\ es[k].gen <= g
  BY DEF Aff!Cached, Aff!Entry
<1>5. DOMAIN q = 1..n /\ \A i \in 1..n : q[i] = <<R(i), es[R(i)].gen>> /\ q[i] \in Aff!Keys \X Nat
  BY <1>1, <1>3, <1>4
<1>6. q \in Seq(Aff!Keys \X Nat) /\ Len(q) = n BY <1>0, <1>3, <1>5
<1>7. \A i \in DOMAIN q : q[i][2] <= g BY <1>1, <1>4, <1>5
<1>8. Aff!Indexes(q, es) BY <1>2, <1>5 DEF Aff!Indexes
<1>9. Aff!InOrder(q)
  <2> SUFFICES ASSUME NEW i \in 1..n, NEW j \in 1..n, i < j PROVE es[R(i)].gen < es[R(j)].gen
    BY <1>5 DEF Aff!InOrder
  <2>1. R(i) \in DOMAIN es /\ R(j) \in DOMAIN es /\ Aff!Rank(es, R(i)) = i /\ Aff!Rank(es, R(j)) = j
    BY <1>1
  <2>2. es[R(j)].gen < es[R(i)].gen => j < i BY <2>1, RanksOrder
  <2>3. es[R(i)].gen # es[R(j)].gen BY <2>1 DEF Aff!Cached
  <2> QED BY <1>0, <1>4, <2>1, <2>2, <2>3
<1> QED BY <1>6, <1>7, <1>8, <1>9, CacheCounts DEF Aff!Queued, n, q

\* A queue is a sequence of sessions and generations.
LEMMA RecencyIs ==
  ASSUME NEW es, NEW q, NEW g \in Nat, Aff!Queued(es, q, g)
  PROVE  /\ q \in Seq(Aff!Keys \X Nat) /\ Len(q) \in Nat /\ DOMAIN q = 1..Len(q)
         /\ \A i \in 1..Len(q) : q[i] \in Aff!Keys \X Nat /\ q[i][2] \in Nat
BY DEF Aff!Queued

\* The first n items of the queue have left, with what they index.
Trimmed(es, q, m, n, t) ==
  /\ t.es = Aff!Left(es, q, n) /\ t.q = SubSeq(q, n + 1, Len(q))
  /\ Cardinality(DOMAIN t.es) <= m

\* trim_affinity_state never evicts an arbitrary binding: the queue indexes all of
\* them, so taking its items from the front makes room before it is empty.
LEMMA TrimIs ==
  ASSUME NEW es, NEW q, NEW g \in Nat, NEW m \in Nat, Aff!Cached(es, g), Aff!Queued(es, q, g),
         NEW t \in Aff!Trim(es, q, m)
  PROVE  \E n \in 0..Len(q) : Trimmed(es, q, m, n, t)
<1> DEFINE enough == {n \in 0..Len(q) : Aff!Fits(Aff!Left(es, q, n), m)}
<1>1. Len(q) \in Nat /\ DOMAIN q = 1..Len(q) BY RecencyIs
<1>2. DOMAIN Aff!Left(es, q, Len(q)) = {}
  BY <1>1 DEF Aff!Left, Aff!Without, Aff!Queued, Aff!Indexes
<1>3. Aff!Fits(Aff!Left(es, q, Len(q)), m) BY <1>2, FS_EmptySet, CacheCounts DEF Aff!Fits
<1>4. Len(q) \in enough /\ enough \subseteq Nat BY <1>1, <1>3
<1>5. Aff!Min(enough) \in enough BY <1>4, LeastOf
<1> DEFINE n == Aff!Min(enough)
<1>6. t \in {[es |-> e, q |-> SubSeq(q, n + 1, Len(q))] : e \in {Aff!Left(es, q, n)}}
  <2>1. enough # {} BY <1>4
  <2>2. Aff!Fits(Aff!Left(es, q, n), m) BY <1>5
  <2> QED BY <2>1, <2>2 DEF Aff!Trim
<1>7. n \in 0..Len(q) /\ Aff!Fits(Aff!Left(es, q, n), m) BY <1>5
<1> HIDE DEF n
<1> QED BY <1>6, <1>7, CacheCounts DEF Trimmed, Aff!Fits

\* What is left of the queue indexes the bindings that are left.
LEMMA TrimKeeps ==
  ASSUME NEW es, NEW q, NEW g \in Nat, NEW m \in Nat, Aff!Cached(es, g), Aff!Queued(es, q, g),
         NEW n \in 0..Len(q), NEW t, Trimmed(es, q, m, n, t)
  PROVE  /\ Shrinks(t.es, es) /\ Aff!Cached(t.es, g) /\ Aff!Queued(t.es, t.q, g)
         /\ Len(t.q) <= Len(q)
<1>1. Shrinks(t.es, es) BY WithoutShrinks DEF Trimmed, Aff!Left
<1>2. Aff!Cached(t.es, g) BY <1>1, FewerCached
<1>3. Aff!Queued(t.es, q, g) BY <1>1, FewerQueued
<1>4. /\ q \in Seq(Aff!Keys \X Nat) /\ Len(q) \in Nat /\ DOMAIN q = 1..Len(q)
      /\ \A i \in 1..Len(q) : q[i] \in Aff!Keys \X Nat /\ q[i][2] \in Nat
  BY RecencyIs
<1>n. n \in Nat /\ n <= Len(q) BY <1>4
<1> DEFINE l == Len(q)
           s == SubSeq(q, n + 1, Len(q))
<1>l. l \in Nat /\ n <= l BY <1>4, <1>n
<1>5. /\ s \in Seq(Aff!Keys \X Nat) /\ Len(s) = Len(q) - n /\ DOMAIN s = 1..Len(s)
      /\ \A i \in 1..Len(s) : s[i] = q[n + i]
  <2>1. \A i \in (n + 1)..Len(q) : q[i] \in Aff!Keys \X Nat BY <1>4
  <2>2. /\ s \in Seq(Aff!Keys \X Nat)
        /\ Len(s) = IF n + 1 <= Len(q) THEN Len(q) - (n + 1) + 1 ELSE 0
        /\ \A i \in 1..(Len(q) - (n + 1) + 1) : s[i] = q[n + 1 + i - 1]
    BY <1>4, <2>1, SubSeqProperties
  <2> HIDE DEF s
  <2>3. Len(s) = Len(q) - n
    <3>1. Len(s) = IF n + 1 <= l THEN l - (n + 1) + 1 ELSE 0 BY <2>2
    <3> HIDE DEF l
    <3>2. Len(s) = l - n BY <1>n, <1>l, <3>1
    <3> QED BY <3>2 DEF l
  <2>4. \A i \in 1..Len(s) : s[i] = q[n + i]
    <3> TAKE i \in 1..Len(s)
    <3>1. i \in 1..(Len(q) - (n + 1) + 1) /\ n + 1 + i - 1 = n + i BY <1>4, <2>3
    <3> QED BY <2>2, <3>1
  <2>5. DOMAIN s = 1..Len(s) BY <2>2
  <2> QED BY <2>2, <2>3, <2>4, <2>5
<1> HIDE DEF s
<1>6. Aff!Indexes(s, t.es)
  <2> SUFFICES ASSUME NEW k \in DOMAIN t.es PROVE \E i \in DOMAIN s : s[i] = <<k, t.es[k].gen>>
    BY DEF Aff!Indexes
  <2>1. PICK i \in DOMAIN q : q[i] = <<k, t.es[k].gen>> BY <1>3 DEF Aff!Queued, Aff!Indexes
  <2>2. i \notin 1..n BY <1>1, <2>1 DEF Trimmed, Aff!Left, Aff!Without, Shrinks
  <2>3. i \in 1..Len(q) /\ i - n \in 1..Len(s) /\ n + (i - n) = i BY <1>4, <1>5, <2>2
  <2> QED BY <1>5, <2>1, <2>3
<1>7. Aff!InOrder(s) /\ \A i \in DOMAIN s : s[i][2] <= g
  <2>1. \A i \in 1..Len(s) : n + i \in 1..Len(q) BY <1>4, <1>5
  <2>2. \A i, j \in 1..Len(s) : i < j => n + i < n + j BY <1>4, <1>5
  <2>3. Aff!InOrder(q) /\ \A i \in DOMAIN q : q[i][2] <= g BY <1>3 DEF Aff!Queued
  <2>4. Aff!InOrder(s)
    <3> SUFFICES ASSUME NEW i \in 1..Len(s), NEW j \in 1..Len(s), i < j PROVE s[i][2] < s[j][2]
      BY <1>5 DEF Aff!InOrder
    <3>1. n + i \in DOMAIN q /\ n + j \in DOMAIN q /\ n + i < n + j BY <1>4, <2>1, <2>2
    <3>2. q[n + i][2] < q[n + j][2] BY <2>3, <3>1 DEF Aff!InOrder
    <3> QED BY <1>5, <3>2
  <2>5. \A i \in DOMAIN s : s[i][2] <= g BY <1>4, <1>5, <2>1, <2>3
  <2> QED BY <2>4, <2>5
<1>8. t.q = s /\ Len(s) <= Len(q)
  <2>1. t.q = s BY DEF Trimmed, s
  <2>2. Len(s) <= Len(q) BY <1>4, <1>5, <1>n
  <2> QED BY <2>1, <2>2
<1>9. Aff!Queued(t.es, t.q, g) BY <1>5, <1>6, <1>7, <1>8 DEF Aff!Queued
<1> QED BY <1>1, <1>2, <1>8, <1>9

\* compact_affinity_recency keeps the index and bounds the queue by the cache.
LEMMA CompactIs ==
  ASSUME Aff!AffinityAssumption, NEW es, NEW q, NEW g \in Nat, Aff!Cached(es, g), Aff!Queued(es, q, g)
  PROVE  /\ Aff!Queued(es, Aff!Compact(es, q), g)
         /\ Len(Aff!Compact(es, q)) <= 4 * Cardinality(DOMAIN es) + CompactSlack
<1> DEFINE n == Cardinality(DOMAIN es)
<1>1. n \in Nat /\ CompactSlack \in Nat BY CacheSizes, CacheCounts DEF Aff!AffinityAssumption
<1>2. Aff!Queued(es, Aff!Rebuilt(es), g) /\ Len(Aff!Rebuilt(es)) = n BY RebuiltIs, CacheCounts
<1>3. Aff!Compact(es, q) = IF Len(q) <= 4 * n + CompactSlack THEN q ELSE Aff!Rebuilt(es)
  BY CacheCounts DEF Aff!Compact
<1> HIDE DEF n
<1>4. Len(q) \in Nat BY RecencyIs
<1> QED BY <1>1, <1>2, <1>3, <1>4, CacheCounts DEF n

\* A cache with one more binding, or a renewed one.
Stored(es, k, e) == [j \in DOMAIN es \cup {k} |-> IF j = k THEN e ELSE es[j]]

\* A binding stored under the next generation is the newest of the queue.
LEMMA StoreKeeps ==
  ASSUME NEW es, NEW q, NEW g \in Nat, Aff!Cached(es, g), Aff!Queued(es, q, g),
         NEW k \in Aff!Keys, NEW e \in Aff!Entry, e.gen = g + 1
  PROVE  /\ Aff!Cached(Stored(es, k, e), g + 1)
         /\ Aff!Queued(Stored(es, k, e), Append(q, <<k, g + 1>>), g + 1)
<1> DEFINE ns == Stored(es, k, e)
           nq == Append(q, <<k, g + 1>>)
<1>1. /\ DOMAIN ns = DOMAIN es \cup {k} /\ ns[k] = e
      /\ \A j \in DOMAIN es : j # k => ns[j] = es[j]
  BY DEF Stored
<1>2. /\ DOMAIN es \subseteq Aff!Keys /\ IsFiniteSet(DOMAIN es)
      /\ \A j \in DOMAIN es : es[j] \in Aff!Entry /\ es[j].gen \in Nat /\ es[j].gen <= g
      /\ \A i, j \in DOMAIN es : es[i].gen = es[j].gen => i = j
  BY CacheFinite DEF Aff!Cached, Aff!Entry
<1>3. Aff!Cached(ns, g + 1)
  <2> HIDE DEF ns
  <2>1. IsFiniteSet(DOMAIN ns) /\ DOMAIN ns \subseteq Aff!Keys BY <1>1, <1>2, FS_AddElement
  <2>2. \A j \in DOMAIN ns : ns[j] \in Aff!Entry /\ ns[j].gen \in Nat /\ ns[j].gen <= g + 1
    BY <1>1, <1>2
  <2>3. \A i, j \in DOMAIN ns : ns[i].gen = ns[j].gen => i = j BY <1>1, <1>2
  <2> QED BY <2>1, <2>2, <2>3, CacheFinite DEF Aff!Cached
<1>4. /\ q \in Seq(Aff!Keys \X Nat) /\ Len(q) \in Nat /\ DOMAIN q = 1..Len(q)
      /\ \A i \in 1..Len(q) : q[i] \in Aff!Keys \X Nat /\ q[i][2] \in Nat
  BY RecencyIs
<1>5. Aff!InOrder(q) /\ Aff!Indexes(q, es) /\ \A i \in 1..Len(q) : q[i][2] <= g
  BY <1>4 DEF Aff!Queued
<1> DEFINE x == <<k, g + 1>>
<1>6. x \in Aff!Keys \X Nat /\ x[2] = g + 1 OBVIOUS
<1>7. /\ nq \in Seq(Aff!Keys \X Nat) /\ Len(nq) = Len(q) + 1 /\ DOMAIN nq = 1..(Len(q) + 1)
      /\ \A i \in 1..Len(q) : nq[i] = q[i]
      /\ nq[Len(q) + 1] = x
  <2> HIDE DEF x
  <2>1. nq = Append(q, x) BY DEF x
  <2> QED BY <1>4, <1>6, <2>1, AppendProperties, LenProperties
<1> HIDE DEF x, nq, ns
<1> DEFINE l == Len(q)
<1>l. l \in Nat /\ DOMAIN nq = 1..(l + 1) /\ 1..l = 1..Len(q) BY <1>4, <1>7
<1> HIDE DEF l
<1>c. \A i \in 1..(l + 1) : i \in 1..l \/ i = l + 1 BY <1>l
<1>8. \A i \in DOMAIN nq : nq[i][2] <= g + 1
  <2> SUFFICES ASSUME NEW i \in 1..(l + 1) PROVE nq[i][2] <= g + 1 BY <1>l
  <2>1. CASE i \in 1..Len(q)
    <3>1. nq[i] = q[i] /\ q[i][2] <= g /\ q[i][2] \in Nat BY <1>4, <1>5, <1>7, <2>1
    <3> QED BY <3>1
  <2>2. CASE i = l + 1 BY <1>6, <1>7, <2>2 DEF l
  <2> QED BY <1>l, <1>c, <2>1, <2>2
<1>9. Aff!InOrder(nq)
  <2> SUFFICES ASSUME NEW i \in 1..(Len(q) + 1), NEW j \in 1..(Len(q) + 1), i < j
               PROVE  nq[i][2] < nq[j][2]
    BY <1>7 DEF Aff!InOrder
  <2>1. i \in 1..Len(q) /\ nq[i] = q[i] /\ q[i][2] <= g /\ q[i][2] \in Nat BY <1>4, <1>5, <1>7
  <2>2. CASE j \in 1..Len(q) BY <1>4, <1>5, <1>7, <2>1, <2>2 DEF Aff!InOrder
  <2>3. CASE j = Len(q) + 1 BY <1>6, <1>7, <2>1, <2>3
  <2>4. j \in 1..Len(q) \/ j = Len(q) + 1 BY <1>c DEF l
  <2> QED BY <2>2, <2>3, <2>4
<1>10. Aff!Indexes(nq, ns)
  <2> SUFFICES ASSUME NEW j \in DOMAIN ns PROVE \E i \in DOMAIN nq : nq[i] = <<j, ns[j].gen>>
    BY DEF Aff!Indexes
  <2>1. CASE j = k
    <3>1. Len(q) + 1 \in DOMAIN nq /\ nq[Len(q) + 1] = <<j, ns[j].gen>>
      BY <1>1, <1>4, <1>7, <2>1 DEF x
    <3> QED BY <3>1
  <2>2. CASE j # k
    <3>1. PICK i \in DOMAIN q : q[i] = <<j, es[j].gen>> BY <1>1, <1>5, <2>2 DEF Aff!Indexes
    <3>2. i \in DOMAIN nq /\ nq[i] = <<j, ns[j].gen>> BY <1>1, <1>4, <1>7, <2>2, <3>1
    <3> QED BY <3>2
  <2> QED BY <2>1, <2>2
<1> QED BY <1>3, <1>7, <1>8, <1>9, <1>10 DEF Aff!Queued, ns, nq

--------------------
\* Settings and generation stay.
Same == UNCHANGED <<enabled, cap, rules, generation>>

\* Cache and queue are within what any settings allow.
LEMMA CacheBounded ==
  ASSUME Aff!AffinityAssumption, Aff!AffinityTypes, Aff!CacheInv
  PROVE  /\ cap \in Nat /\ cap <= Aff!Max(Caps) /\ Aff!Max(Caps) \in Nat /\ CompactSlack \in Nat
         /\ Cardinality(DOMAIN entries) \in Nat
         /\ Cardinality(DOMAIN entries) <= (IF enabled THEN cap ELSE 0)
         /\ Cardinality(DOMAIN entries) <= Aff!Max(Caps)
         /\ Len(recency) \in Nat /\ Len(recency) <= 4 * Aff!Max(Caps) + CompactSlack
<1>1. cap \in Nat /\ cap <= Aff!Max(Caps) /\ Aff!Max(Caps) \in Nat /\ CompactSlack \in Nat
  BY LargestCap DEF Aff!AffinityTypes, Aff!AffinityAssumption
<1>2. generation \in Nat BY DEF Aff!AffinityTypes
<1>3. Cardinality(DOMAIN entries) \in Nat BY <1>2, CacheSizes DEF Aff!CacheInv
<1>4. Cardinality(DOMAIN entries) <= (IF enabled THEN cap ELSE 0)
  BY CacheCounts DEF Aff!CacheInv, Aff!FollowsSettings
<1>5. Len(recency) \in Nat BY <1>2, RecencyIs DEF Aff!CacheInv
<1>6. Len(recency) <= 4 * Aff!Max(Caps) + CompactSlack BY DEF Aff!CacheInv, Aff!QueueBounded
<1>7. Cardinality(DOMAIN entries) <= Aff!Max(Caps) BY <1>1, <1>3, <1>4
<1> QED BY <1>1, <1>3, <1>4, <1>5, <1>6, <1>7

\* Removing bindings keeps the cache sound; their items stay in the queue.
LEMMA ShrinkKeeps ==
  ASSUME Aff!AffinityAssumption, Aff!AffinityTypes, Aff!CacheInv, Same, recency' = recency, Shrinks(entries', entries)
  PROVE  Aff!CacheInv'
<1>1. generation \in Nat BY DEF Aff!AffinityTypes
<1>2. Aff!Cached(entries', generation) /\ Cardinality(DOMAIN entries') <= Cardinality(DOMAIN entries)
  BY <1>1, FewerCached DEF Aff!CacheInv
<1>3. Aff!Queued(entries', recency, generation) BY <1>1, FewerQueued DEF Aff!CacheInv
<1>4. Cardinality(DOMAIN entries') \in Nat /\ Cardinality(DOMAIN entries) \in Nat
  BY <1>1, <1>2, CacheSizes DEF Aff!CacheInv
<1>5. Aff!FollowsSettings'
  <2>1. Cardinality(DOMAIN entries) <= (IF enabled THEN cap ELSE 0)
    BY CacheCounts DEF Aff!CacheInv, Aff!FollowsSettings
  <2>2. \A k \in DOMAIN entries' : k[1] \in rules
    BY DEF Aff!CacheInv, Aff!FollowsSettings, Shrinks
  <2>3. cap \in Nat BY DEF Aff!AffinityTypes, Aff!AffinityAssumption
  <2>4. Cardinality(DOMAIN entries') <= (IF enabled THEN cap ELSE 0) BY <1>2, <1>4, <2>1, <2>3
  <2> QED BY <2>2, <2>4, CacheCounts DEF Aff!FollowsSettings, Same
<1>6. Aff!QueueBounded' BY DEF Aff!CacheInv, Aff!QueueBounded
<1> QED BY <1>2, <1>3, <1>5, <1>6 DEF Aff!CacheInv, Same

\* So does removing bindings and rebuilding the queue.
LEMMA RebuildKeeps ==
  ASSUME Aff!AffinityAssumption, Aff!AffinityTypes, Aff!CacheInv, Same, recency' = Aff!Rebuilt(entries'),
         Shrinks(entries', entries)
  PROVE  Aff!CacheInv'
<1>1. generation \in Nat BY DEF Aff!AffinityTypes
<1>2. Aff!Cached(entries', generation) /\ Cardinality(DOMAIN entries') <= Cardinality(DOMAIN entries)
  BY <1>1, FewerCached DEF Aff!CacheInv
<1>3. Aff!Queued(entries', recency', generation) /\ Len(recency') = Cardinality(DOMAIN entries')
  BY <1>1, <1>2, RebuiltIs
<1>4. Cardinality(DOMAIN entries') \in Nat BY <1>1, <1>2, CacheSizes DEF Aff!CacheInv
<1>5. Aff!FollowsSettings'
  <2>2. \A k \in DOMAIN entries' : k[1] \in rules
    BY DEF Aff!CacheInv, Aff!FollowsSettings, Shrinks
  <2>4. Cardinality(DOMAIN entries') <= (IF enabled THEN cap ELSE 0) BY <1>2, <1>4, CacheBounded
  <2> QED BY <2>2, <2>4, CacheCounts DEF Aff!FollowsSettings, Same
<1>6. Aff!QueueBounded'
  <2>1. Len(recency') <= 4 * Aff!Max(Caps) + CompactSlack BY <1>2, <1>3, <1>4, CacheBounded
  <2> QED BY <2>1 DEF Aff!QueueBounded
<1> QED BY <1>2, <1>3, <1>5, <1>6 DEF Aff!CacheInv, Same

\* reconcile_affinity: whatever the new settings, the cache fits them.
LEMMA ReconcileKeeps ==
  ASSUME Aff!AffinityAssumption, Aff!AffinityTypes, Aff!CacheInv, NEW on \in BOOLEAN, NEW m \in Caps,
         NEW rs \in SUBSET Rules, Aff!Reconcile(on, m, rs)
  PROVE  Aff!CacheInv'
<1>1. generation \in Nat /\ m \in Nat BY DEF Aff!AffinityTypes, Aff!AffinityAssumption
<1>2. enabled' = on /\ cap' = m /\ rules' = rs /\ generation' = generation BY DEF Aff!Reconcile
<1>3. CASE ~on
  <2>1. entries' = <<>> /\ recency' = <<>> BY <1>3 DEF Aff!Reconcile
  <2>2. DOMAIN entries' = {} BY <2>1
  <2>3. IsFiniteSet(DOMAIN entries') /\ Cardinality(DOMAIN entries') = 0 BY <2>2, FS_EmptySet
  <2>4. Aff!Cached(entries', generation) /\ Aff!FollowsSettings'
    BY <1>2, <1>3, <2>2, <2>3, CacheCounts, CacheFinite DEF Aff!Cached, Aff!FollowsSettings
  <2>5. recency' \in Seq(Aff!Keys \X Nat) /\ Len(recency') = 0 /\ DOMAIN recency' = {} BY <2>1
  <2>6. Aff!Queued(entries', recency', generation)
    BY <2>2, <2>5 DEF Aff!Queued, Aff!Indexes, Aff!InOrder
  <2>7. Aff!QueueBounded' BY <2>5, CacheBounded DEF Aff!QueueBounded
  <2> QED BY <1>2, <2>4, <2>6, <2>7 DEF Aff!CacheInv
<1>4. CASE on
  <2> DEFINE gone == {k \in DOMAIN entries : k[1] \notin rs \/ entries[k].until <= clock}
             es == IF rs = rules THEN entries ELSE Aff!Without(entries, gone)
             q == IF rs = rules THEN recency ELSE Aff!Rebuilt(es)
  <2>1. PICK t \in Aff!Trim(es, q, m) : entries' = t.es /\ recency' = t.q
    BY <1>4 DEF Aff!Reconcile, Aff!Retrimmed
  <2>2. Shrinks(es, entries)
    <3>1. CASE rs = rules BY <3>1 DEF Shrinks
    <3>2. CASE rs # rules
      <4>1. es = Aff!Without(entries, gone) BY <3>2
      <4> HIDE DEF es, gone
      <4> QED BY <4>1, WithoutShrinks
    <3> QED BY <3>1, <3>2
  <2>3. \A k \in DOMAIN es : k[1] \in rs BY DEF Aff!Without, Aff!CacheInv, Aff!FollowsSettings
  <2>4. Aff!Cached(es, generation) /\ Cardinality(DOMAIN es) <= Cardinality(DOMAIN entries)
    <3> HIDE DEF es
    <3> QED BY <1>1, <2>2, FewerCached DEF Aff!CacheInv
  <2>5. Aff!Queued(es, q, generation) /\ Len(q) \in Nat /\ Len(q) <= 4 * Aff!Max(Caps) + CompactSlack
    <3>1. CASE rs = rules
      <4>1. es = entries /\ q = recency BY <3>1
      <4> HIDE DEF es, q
      <4> QED BY <4>1, CacheBounded DEF Aff!CacheInv
    <3>2. CASE rs # rules
      <4>1. q = Aff!Rebuilt(es) BY <3>2
      <4> HIDE DEF es, q
      <4>2. Aff!Queued(es, q, generation) /\ Len(q) = Cardinality(DOMAIN es)
        BY <1>1, <2>4, <4>1, RebuiltIs
      <4>3. Len(q) \in Nat BY <1>1, <4>2, RecencyIs
      <4> QED BY <2>4, <4>2, <4>3, CacheBounded
    <3> QED BY <3>1, <3>2
  <2> HIDE DEF es, q
  <2>6. PICK n \in 0..Len(q) : Trimmed(es, q, m, n, t) BY <1>1, <2>1, <2>4, <2>5, TrimIs
  <2>7. Shrinks(t.es, es) /\ Aff!Cached(t.es, generation) /\ Aff!Queued(t.es, t.q, generation) /\ Len(t.q) <= Len(q)
    BY <1>1, <2>4, <2>5, <2>6, TrimKeeps
  <2>8. Aff!FollowsSettings'
    <3>1. Cardinality(DOMAIN t.es) <= m /\ \A k \in DOMAIN t.es : k[1] \in rs
      BY <2>3, <2>6, <2>7, CacheCounts DEF Trimmed, Shrinks
    <3> QED BY <1>2, <1>4, <2>1, <3>1, CacheCounts DEF Aff!FollowsSettings
  <2>9. Aff!QueueBounded'
    <3>1. Len(t.q) \in Nat BY <1>1, <2>7, RecencyIs
    <3>2. Len(t.q) <= 4 * Aff!Max(Caps) + CompactSlack BY <2>5, <2>7, <3>1, CacheBounded
    <3> QED BY <2>1, <3>2 DEF Aff!QueueBounded
  <2> QED BY <1>2, <2>1, <2>7, <2>8, <2>9 DEF Aff!CacheInv
<1> QED BY <1>3, <1>4

\* affinity_store keeps the cache sound, and what it evicts is older than all that
\* it leaves: the evicted have their items in front of the items of the others.
LEMMA StoreStep ==
  ASSUME Aff!AffinityAssumption, Aff!AffinityTypes, Aff!CacheInv, NEW r \in Callers, Aff!Succeed(r),
         stage[r] # "idle" => key[r] \in Aff!Keys
  PROVE  Aff!CacheInv' /\ Aff!EvictsOldest
<1>1. generation \in Nat /\ Ttl \in Nat /\ clock \in Nat /\ key[r] \in Aff!Keys
      /\ bound[r] \in Candidates \cup {NoCandidate}
  BY DEF Aff!AffinityTypes, Aff!AffinityAssumption, Aff!Succeed
<1>2. UNCHANGED <<clock, enabled, cap, rules>> BY DEF Aff!Succeed, Aff!settings
<1>3. CASE UNCHANGED <<entries, recency, generation>>
  <2>1. Aff!CacheInv'
    BY <1>2, <1>3 DEF Aff!CacheInv, Aff!FollowsSettings, Aff!QueueBounded, Aff!Cached, Aff!Queued
  <2>2. Aff!EvictsOldest BY <1>1, <1>3 DEF Aff!EvictsOldest
  <2> QED BY <2>1, <2>2
<1>4. CASE ~(bound[r] = NoCandidate \/ ~Aff!Accepts(key[r]))
  <2> DEFINE e == [cand |-> bound[r], until |-> clock + Ttl, gen |-> generation + 1]
             es == Stored(entries, key[r], e)
             q == Append(recency, <<key[r], generation + 1>>)
  <2>0. e \in Aff!Entry /\ e.gen = generation + 1 BY <1>1, <1>4 DEF Aff!Entry
  <2>1. /\ generation' = generation + 1
        /\ \E t \in Aff!Trim(es, q, cap) : entries' = t.es /\ recency' = Aff!Compact(t.es, t.q)
    BY <1>4 DEF Aff!Succeed, Stored
  <2> HIDE DEF e
  <2>2. Aff!Cached(es, generation + 1) /\ Aff!Queued(es, q, generation + 1)
    BY <1>1, <2>0, StoreKeeps DEF Aff!CacheInv
  <2>k. /\ DOMAIN es = DOMAIN entries \cup {key[r]} /\ es[key[r]] = e
        /\ \A k \in DOMAIN entries : k # key[r] => es[k] = entries[k]
    BY DEF Stored
  <2> HIDE DEF es, q
  <2> DEFINE g == generation + 1
  <2>g. g \in Nat /\ cap \in Nat /\ cap <= Aff!Max(Caps) /\ Aff!Max(Caps) \in Nat /\ CompactSlack \in Nat
    BY <1>1, CacheBounded
  <2>c. Aff!Cached(es, g) /\ Aff!Queued(es, q, g) /\ e.gen = g BY <2>0, <2>2
  <2> HIDE DEF g
  <2>3. PICK t \in Aff!Trim(es, q, cap) : entries' = t.es /\ recency' = Aff!Compact(t.es, t.q)
    BY <2>1
  <2>4. PICK n \in 0..Len(q) : Trimmed(es, q, cap, n, t) BY <2>g, <2>c, TrimIs
  <2>5. Shrinks(t.es, es) /\ Aff!Cached(t.es, g) /\ Aff!Queued(t.es, t.q, g)
    BY <2>g, <2>c, <2>4, TrimKeeps
  <2>6. /\ Aff!Queued(t.es, Aff!Compact(t.es, t.q), g)
        /\ Len(Aff!Compact(t.es, t.q)) <= 4 * Cardinality(DOMAIN t.es) + CompactSlack
    BY <2>g, <2>5, CompactIs
  <2>7. Cardinality(DOMAIN t.es) <= cap /\ Cardinality(DOMAIN t.es) \in Nat
    BY <2>g, <2>4, <2>5, CacheSizes, CacheCounts DEF Trimmed
  <2>8. Aff!FollowsSettings'
    <3>1. enabled /\ key[r][1] \in rules BY <1>4 DEF Aff!Accepts
    <3>2. \A k \in DOMAIN t.es : k[1] \in rules
      BY <2>5, <2>k, <3>1 DEF Shrinks, Aff!CacheInv, Aff!FollowsSettings
    <3> QED BY <1>2, <2>3, <2>7, <3>1, <3>2, CacheCounts DEF Aff!FollowsSettings
  <2>9. Aff!QueueBounded'
    <3>1. Len(Aff!Compact(t.es, t.q)) \in Nat BY <2>g, <2>6, RecencyIs
    <3>2. Len(Aff!Compact(t.es, t.q)) <= 4 * Aff!Max(Caps) + CompactSlack
      BY <2>g, <2>6, <2>7, <3>1
    <3> QED BY <2>3, <3>2 DEF Aff!QueueBounded
  <2>10. Aff!CacheInv' BY <2>1, <2>3, <2>5, <2>6, <2>8, <2>9 DEF Aff!CacheInv, g
  <2>11. ASSUME NEW k \in DOMAIN entries \ DOMAIN entries',
                NEW j \in DOMAIN entries \cap DOMAIN entries'
         PROVE  entries[k].gen < entries'[j].gen
    <3>1. /\ Len(q) \in Nat /\ DOMAIN q = 1..Len(q)
          /\ \A i \in 1..Len(q) : q[i][2] \in Nat
      BY <2>g, <2>c, RecencyIs
    <3>n. n \in Nat /\ n <= Len(q) BY <3>1
    <3>2. k \in DOMAIN es /\ k \notin DOMAIN t.es /\ j \in DOMAIN t.es /\ j \in DOMAIN es
          /\ entries'[j] = es[j]
      BY <2>3, <2>5, <2>k DEF Shrinks
    <3>3. PICK i \in 1..n : q[i] = <<k, es[k].gen>>
      BY <2>4, <3>2 DEF Trimmed, Aff!Left, Aff!Without
    <3>4. ~ \E b \in 1..n : q[b] = <<j, es[j].gen>>
      BY <2>4, <3>2 DEF Trimmed, Aff!Left, Aff!Without
    <3>5. PICK b \in DOMAIN q : q[b] = <<j, es[j].gen>> BY <2>c, <3>2 DEF Aff!Queued, Aff!Indexes
    <3>6. i \in DOMAIN q /\ i < b BY <3>1, <3>n, <3>4, <3>5
    <3>7. q[i][2] < q[b][2] BY <2>c, <3>5, <3>6 DEF Aff!Queued, Aff!InOrder
    <3>8. es[k].gen < es[j].gen BY <3>3, <3>5, <3>7
    <3>9. es[j].gen <= g /\ es[j].gen \in Nat BY <2>c, <3>2 DEF Aff!Cached, Aff!Entry
    <3>10. k # key[r] BY <2>c, <2>g, <2>k, <3>8, <3>9
    <3> QED BY <2>k, <3>2, <3>8, <3>10
  <2>12. Aff!EvictsOldest BY <2>11 DEF Aff!EvictsOldest
  <2> QED BY <2>10, <2>12
<1> QED BY <1>3, <1>4 DEF Aff!Succeed, Aff!cache

\* affinity_remove_if_candidate removes the binding of the session to the candidate,
\* or nothing.
LEMMA RemoveShrinks ==
  ASSUME NEW k, NEW c, Aff!RemoveIf(k, c)
  PROVE  /\ Shrinks(entries', entries)
         /\ \A j \in DOMAIN entries \ DOMAIN entries' : j = k /\ entries[j].cand = c
<1>1. CASE k \in DOMAIN entries /\ entries[k].cand = c
  <2>1. entries' = Aff!Without(entries, {k}) BY <1>1 DEF Aff!RemoveIf
  <2>2. Shrinks(entries', entries) /\ DOMAIN entries' = DOMAIN entries \ {k}
    BY <2>1, WithoutShrinks
  <2> QED BY <1>1, <2>2
<1>2. CASE ~(k \in DOMAIN entries /\ entries[k].cand = c) BY <1>2 DEF Aff!RemoveIf, Shrinks
<1> QED BY <1>1, <1>2

\* A cache that stays as it is loses nothing.
LEMMA UnchangedShrinks ==
  ASSUME entries' = entries
  PROVE  Shrinks(entries', entries) /\ DOMAIN entries \ DOMAIN entries' = {}
BY DEF Shrinks

\* The sessions in S, if any, are the one that r had looked up.
Removes(r, S) == \A k \in S : k = key[r] /\ entries[k].cand = preferred[r] /\ ~keep'[r]

\* The steps of a request that store nothing remove at most the binding that the
\* request had looked up.
LEMMA RequestKeeps ==
  ASSUME Aff!AffinityAssumption, Aff!AffinityInv, NEW r \in Callers,
         \/ \E k \in Aff!Keys : Aff!Lookup(r, k)
         \/ \E c \in Candidates, h, p \in BOOLEAN : Aff!Select(r, c, h, p)
         \/ \E p \in BOOLEAN : Aff!NoRoute(r, p)
         \/ Aff!Fail(r)
  PROVE  /\ Aff!CacheInv' /\ generation' = generation
         /\ stage[r] # "idle" => Removes(r, DOMAIN entries \ DOMAIN entries')
<1>0. Aff!AffinityTypes /\ Aff!CacheInv /\ Aff!Leased(r) BY DEF Aff!AffinityInv
<1>1. ASSUME Same, recency' = recency, Shrinks(entries', entries),
             stage[r] # "idle" => Removes(r, DOMAIN entries \ DOMAIN entries')
      PROVE  /\ Aff!CacheInv' /\ generation' = generation
             /\ stage[r] # "idle" => Removes(r, DOMAIN entries \ DOMAIN entries')
  BY <1>0, <1>1, ShrinkKeeps DEF Same
<1>2. ASSUME NEW k \in Aff!Keys, Aff!Lookup(r, k)
      PROVE  /\ Same /\ recency' = recency /\ Shrinks(entries', entries)
             /\ stage[r] # "idle" => Removes(r, DOMAIN entries \ DOMAIN entries')
  <2>1. Same /\ recency' = recency /\ stage[r] = "idle" BY <1>2 DEF Aff!Lookup, Aff!settings, Same
  <2>2. entries' = Aff!Without(entries, {k}) \/ entries' = entries BY <1>2 DEF Aff!Lookup
  <2>3. Shrinks(entries', entries) BY <2>2, WithoutShrinks, UnchangedShrinks
  <2> QED BY <2>1, <2>3
<1>3. ASSUME NEW c \in Candidates, NEW h \in BOOLEAN, NEW p \in BOOLEAN, Aff!Select(r, c, h, p)
      PROVE  /\ Same /\ recency' = recency /\ Shrinks(entries', entries)
             /\ stage[r] # "idle" => Removes(r, DOMAIN entries \ DOMAIN entries')
  <2>1. Same /\ recency' = recency /\ keep' = [keep EXCEPT ![r] = p]
    BY <1>3 DEF Aff!Select, Aff!settings, Same
  <2>2. keep'[r] = p BY <1>0, <2>1 DEF Aff!AffinityTypes
  <2>3. \/ Aff!RemoveIf(key[r], preferred[r]) /\ ~p
        \/ entries' = entries
    BY <1>3 DEF Aff!Select
  <2> QED BY <2>1, <2>2, <2>3, RemoveShrinks, UnchangedShrinks DEF Removes
<1>4. ASSUME NEW p \in BOOLEAN, Aff!NoRoute(r, p)
      PROVE  /\ Same /\ recency' = recency /\ Shrinks(entries', entries)
             /\ stage[r] # "idle" => Removes(r, DOMAIN entries \ DOMAIN entries')
  <2>1. Same /\ recency' = recency /\ keep' = [keep EXCEPT ![r] = FALSE]
    BY <1>4 DEF Aff!NoRoute, Aff!Forget, Aff!settings, Same
  <2>2. ~ keep'[r] BY <1>0, <2>1 DEF Aff!AffinityTypes
  <2>3. \/ Aff!RemoveIf(key[r], preferred[r])
        \/ entries' = entries
    BY <1>4 DEF Aff!NoRoute
  <2> QED BY <2>1, <2>2, <2>3, RemoveShrinks, UnchangedShrinks DEF Removes
<1>5. ASSUME Aff!Fail(r)
      PROVE  /\ Same /\ recency' = recency /\ Shrinks(entries', entries)
             /\ stage[r] # "idle" => Removes(r, DOMAIN entries \ DOMAIN entries')
  <2>1. Same /\ recency' = recency /\ keep' = [keep EXCEPT ![r] = FALSE]
    BY <1>5 DEF Aff!Fail, Aff!Forget, Aff!settings, Same
  <2>2. ~ keep'[r] BY <1>0, <2>1 DEF Aff!AffinityTypes
  <2>3. \/ Aff!RemoveIf(key[r], preferred[r])
        \/ entries' = entries
    BY <1>0, <1>5 DEF Aff!Fail, Aff!Leased
  <2> QED BY <2>1, <2>2, <2>3, RemoveShrinks, UnchangedShrinks DEF Removes
<1> QED BY <1>1, <1>2, <1>3, <1>4, <1>5

\* A request that ends forgets its session.
LEMMA ForgetKeeps ==
  ASSUME Aff!AffinityTypes, \A x \in Callers : Aff!Leased(x), NEW r \in Callers, Aff!Forget(r),
         UNCHANGED <<enabled, cap, rules>>, clock' \in Nat, generation' \in Nat
  PROVE  Aff!AffinityTypes' /\ \A x \in Callers : Aff!Leased(x)'
BY DEF Aff!AffinityTypes, Aff!Leased, Aff!Forget

\* Every step keeps the types and what a request knows of its session.
LEMMA TypesKeep ==
  ASSUME Aff!AffinityAssumption, Aff!AffinityInv, Aff!Next
  PROVE  Aff!AffinityTypes' /\ \A x \in Callers : Aff!Leased(x)'
<1>0. Aff!AffinityTypes /\ Aff!CacheInv /\ \A x \in Callers : Aff!Leased(x) BY DEF Aff!AffinityInv
<1>1. ASSUME NEW r \in Callers, NEW k \in Aff!Keys, Aff!Lookup(r, k)
      PROVE  Aff!AffinityTypes' /\ \A x \in Callers : Aff!Leased(x)'
  <2>1. PICK c \in Candidates \cup {NoCandidate} : preferred' = [preferred EXCEPT ![r] = c]
    <3>1. \A j \in DOMAIN entries : entries[j].cand \in Candidates
      BY <1>0 DEF Aff!CacheInv, Aff!Cached, Aff!Entry
    <3> QED BY <1>1, <3>1 DEF Aff!Lookup
  <2>2. /\ stage[r] = "idle" /\ key' = [key EXCEPT ![r] = k]
        /\ stage' = [stage EXCEPT ![r] = "selecting"]
        /\ UNCHANGED <<clock, enabled, cap, rules, generation, keep, bound, hit>>
    BY <1>1 DEF Aff!Lookup, Aff!settings
  <2> QED BY <1>0, <2>1, <2>2 DEF Aff!AffinityTypes, Aff!Leased
<1>2. ASSUME NEW r \in Callers, NEW c \in Candidates, NEW h \in BOOLEAN, NEW p \in BOOLEAN,
             Aff!Select(r, c, h, p)
      PROVE  Aff!AffinityTypes' /\ \A x \in Callers : Aff!Leased(x)'
  <2>1. PICK b \in Candidates \cup {NoCandidate} :
          bound' = [bound EXCEPT ![r] = b] /\ (h => b = preferred[r])
    BY <1>2 DEF Aff!Select
  <2>2. /\ stage[r] = "selecting" /\ stage' = [stage EXCEPT ![r] = "leased"]
        /\ hit' = [hit EXCEPT ![r] = h] /\ keep' = [keep EXCEPT ![r] = p]
        /\ UNCHANGED <<clock, enabled, cap, rules, generation, key, preferred>>
    BY <1>2 DEF Aff!Select, Aff!settings
  <2> QED BY <1>0, <2>1, <2>2 DEF Aff!AffinityTypes, Aff!Leased
<1>3. ASSUME NEW r \in Callers, NEW p \in BOOLEAN, Aff!NoRoute(r, p)
      PROVE  Aff!AffinityTypes' /\ \A x \in Callers : Aff!Leased(x)'
  <2>1. Aff!Forget(r) /\ UNCHANGED <<clock, enabled, cap, rules, generation>>
    BY <1>3 DEF Aff!NoRoute, Aff!settings
  <2> QED BY <1>0, <2>1, ForgetKeeps DEF Aff!AffinityTypes
<1>4. ASSUME NEW r \in Callers, Aff!Succeed(r)
      PROVE  Aff!AffinityTypes' /\ \A x \in Callers : Aff!Leased(x)'
  <2>1. Aff!Forget(r) /\ UNCHANGED <<clock, enabled, cap, rules>>
    BY <1>4 DEF Aff!Succeed, Aff!settings
  <2>2. generation' = generation \/ generation' = generation + 1
    BY <1>4 DEF Aff!Succeed, Aff!cache
  <2>3. generation' \in Nat /\ clock' \in Nat BY <1>0, <2>1, <2>2 DEF Aff!AffinityTypes
  <2> QED BY <1>0, <2>1, <2>3, ForgetKeeps
<1>5. ASSUME NEW r \in Callers, Aff!Fail(r)
      PROVE  Aff!AffinityTypes' /\ \A x \in Callers : Aff!Leased(x)'
  <2>1. Aff!Forget(r) /\ UNCHANGED <<clock, enabled, cap, rules, generation>>
    BY <1>5 DEF Aff!Fail, Aff!settings
  <2> QED BY <1>0, <2>1, ForgetKeeps DEF Aff!AffinityTypes
<1>6. ASSUME NEW on \in BOOLEAN, NEW m \in Caps, NEW rs \in SUBSET Rules, Aff!Reconcile(on, m, rs)
      PROVE  Aff!AffinityTypes' /\ \A x \in Callers : Aff!Leased(x)'
  <2>1. /\ enabled' = on /\ cap' = m /\ rules' = rs
        /\ UNCHANGED <<clock, generation, stage, key, preferred, keep, bound, hit>>
    BY <1>6 DEF Aff!Reconcile, Aff!lease
  <2> QED BY <1>0, <2>1 DEF Aff!AffinityTypes, Aff!Leased
<1>7. ASSUME \/ \E S \in {Rules} \cup {{x} : x \in rules} : Aff!Clear(S)
             \/ Aff!Prune
      PROVE  Aff!AffinityTypes' /\ \A x \in Callers : Aff!Leased(x)'
  <2>1. UNCHANGED <<clock, enabled, cap, rules, generation, stage, key, preferred, keep, bound, hit>>
    BY <1>7 DEF Aff!Clear, Aff!Prune, Aff!settings, Aff!lease
  <2> QED BY <1>0, <2>1 DEF Aff!AffinityTypes, Aff!Leased
<1>8. ASSUME Aff!Tick PROVE Aff!AffinityTypes' /\ \A x \in Callers : Aff!Leased(x)'
  <2>1. clock' = clock + 1 /\ UNCHANGED <<enabled, cap, rules, generation, stage, key, preferred, keep, bound, hit>>
    BY <1>8 DEF Aff!Tick, Aff!settings, Aff!lease, Aff!cache
  <2> QED BY <1>0, <2>1 DEF Aff!AffinityTypes, Aff!Leased
<1> QED BY <1>1, <1>2, <1>3, <1>4, <1>5, <1>6, <1>7, <1>8 DEF Aff!Next

\* Every step keeps the cache sound and is a step that the cache may take.
LEMMA CacheKeeps ==
  ASSUME Aff!AffinityAssumption, Aff!AffinityInv, Aff!Next PROVE Aff!CacheInv' /\ Aff!CacheSteps
<1>0. Aff!AffinityTypes /\ Aff!CacheInv /\ \A x \in Callers : Aff!Leased(x) BY DEF Aff!AffinityInv
<1>g. generation \in Nat BY <1>0 DEF Aff!AffinityTypes
<1>1. ASSUME NEW r \in Callers,
             \/ \E k \in Aff!Keys : Aff!Lookup(r, k)
             \/ \E c \in Candidates, h, p \in BOOLEAN : Aff!Select(r, c, h, p)
             \/ \E p \in BOOLEAN : Aff!NoRoute(r, p)
             \/ Aff!Fail(r)
      PROVE  Aff!CacheInv' /\ Aff!CacheSteps
  <2>1. /\ Aff!CacheInv' /\ generation' = generation
        /\ stage[r] # "idle" => Removes(r, DOMAIN entries \ DOMAIN entries')
    BY <1>1, RequestKeeps
  <2>2. \A x \in Callers : stage'[x] # stage[x] => x = r
    BY <1>0, <1>1 DEF Aff!Lookup, Aff!Select, Aff!NoRoute, Aff!Fail, Aff!Forget, Aff!AffinityTypes
  <2>3. Aff!NewerBindingSurvives BY <2>1, <2>2 DEF Aff!NewerBindingSurvives, Removes
  <2>4. Aff!EvictsOldest BY <1>g, <2>1 DEF Aff!EvictsOldest
  <2> QED BY <2>1, <2>3, <2>4 DEF Aff!CacheSteps
<1>2. ASSUME NEW r \in Callers, Aff!Succeed(r) PROVE Aff!CacheInv' /\ Aff!CacheSteps
  <2>1. stage[r] # "idle" => key[r] \in Aff!Keys BY <1>0 DEF Aff!Leased
  <2>2. Aff!CacheInv' /\ Aff!EvictsOldest BY <1>0, <1>2, <2>1, StoreStep
  <2>3. generation' = generation + 1 \/ entries' = entries BY <1>2 DEF Aff!Succeed, Aff!cache
  <2>4. Aff!NewerBindingSurvives BY <1>g, <2>3 DEF Aff!NewerBindingSurvives
  <2> QED BY <2>2, <2>4 DEF Aff!CacheSteps
<1>3. ASSUME UNCHANGED <<stage, generation>> PROVE Aff!CacheSteps
  BY <1>g, <1>3 DEF Aff!CacheSteps, Aff!NewerBindingSurvives, Aff!EvictsOldest
<1>4. ASSUME NEW on \in BOOLEAN, NEW m \in Caps, NEW rs \in SUBSET Rules, Aff!Reconcile(on, m, rs)
      PROVE  Aff!CacheInv' /\ Aff!CacheSteps
  <2>1. UNCHANGED <<stage, generation>> BY <1>4 DEF Aff!Reconcile
  <2> QED BY <1>0, <1>3, <1>4, <2>1, ReconcileKeeps
<1>5. ASSUME NEW S, Aff!Clear(S) PROVE Aff!CacheInv' /\ Aff!CacheSteps
  <2>1. Same /\ UNCHANGED <<stage, generation>> /\ recency' = Aff!Rebuilt(entries')
    BY <1>5 DEF Aff!Clear, Same, Aff!settings
  <2>2. Shrinks(entries', entries) BY <1>5 DEF Aff!Clear, Aff!Current, Aff!Without, Shrinks
  <2> QED BY <1>0, <1>3, <2>1, <2>2, RebuildKeeps
<1>6. ASSUME Aff!Prune PROVE Aff!CacheInv' /\ Aff!CacheSteps
  <2>1. Same /\ UNCHANGED <<stage, generation>> /\ recency' = Aff!Rebuilt(entries')
    BY <1>6 DEF Aff!Prune, Same, Aff!settings
  <2>2. Shrinks(entries', entries) BY <1>6 DEF Aff!Prune, Aff!Current, Aff!Without, Shrinks
  <2> QED BY <1>0, <1>3, <2>1, <2>2, RebuildKeeps
<1>7. ASSUME Aff!Tick PROVE Aff!CacheInv' /\ Aff!CacheSteps
  <2>1. Same /\ UNCHANGED <<stage, generation>> /\ recency' = recency /\ entries' = entries
    BY <1>7 DEF Aff!Tick, Same, Aff!settings, Aff!cache
  <2>2. Shrinks(entries', entries) BY <2>1, UnchangedShrinks
  <2> QED BY <1>0, <1>3, <2>1, <2>2, ShrinkKeeps
<1> QED BY <1>1, <1>2, <1>4, <1>5, <1>6, <1>7 DEF Aff!Next

\* So does a step that changes nothing.
LEMMA AffinityStep ==
  ASSUME Aff!AffinityAssumption, Aff!AffinityInv, [Aff!Next]_(Aff!vars)
  PROVE  Aff!AffinityInv' /\ (Aff!CacheSteps \/ UNCHANGED Aff!vars)
<1>1. CASE Aff!Next BY <1>1, TypesKeep, CacheKeeps DEF Aff!AffinityInv
<1>2. CASE UNCHANGED Aff!vars
  BY <1>2 DEF Aff!AffinityInv, Aff!AffinityTypes, Aff!Leased, Aff!CacheInv, Aff!Cached,
    Aff!Queued, Aff!FollowsSettings, Aff!QueueBounded, Aff!vars
<1> QED BY <1>1, <1>2

\* An empty cache is sound.
LEMMA AffinityInitial ==
  ASSUME Aff!AffinityAssumption, Aff!Init PROVE Aff!AffinityInv
<1>1. Aff!Max(Caps) \in Caps
  <2>1. PICK m \in Caps : \A c \in Caps : m >= c BY DEF Aff!AffinityAssumption
  <2> QED BY <2>1 DEF Aff!Max
<1>2. Aff!AffinityTypes /\ \A r \in Callers : Aff!Leased(r)
  BY <1>1 DEF Aff!Init, Aff!AffinityTypes, Aff!Leased
<1>3. DOMAIN entries = {} BY DEF Aff!Init
<1>4. IsFiniteSet(DOMAIN entries) /\ Cardinality(DOMAIN entries) = 0 BY <1>3, FS_EmptySet
<1>5. Aff!Cached(entries, generation) BY <1>3, <1>4, CacheFinite DEF Aff!Cached
<1>6. recency \in Seq(Aff!Keys \X Nat) /\ Len(recency) = 0 /\ DOMAIN recency = {} BY DEF Aff!Init
<1>7. Aff!Queued(entries, recency, generation)
  BY <1>3, <1>6 DEF Aff!Queued, Aff!Indexes, Aff!InOrder
<1>8. Aff!FollowsSettings /\ Aff!QueueBounded
  <2>1. Aff!Max(Caps) \in Nat /\ cap \in Nat /\ CompactSlack \in Nat /\ enabled
    BY LargestCap DEF Aff!Init, Aff!AffinityAssumption
  <2> QED BY <1>3, <1>4, <1>6, <2>1, CacheCounts DEF Aff!FollowsSettings, Aff!QueueBounded
<1> QED BY <1>2, <1>5, <1>7, <1>8 DEF Aff!AffinityInv, Aff!CacheInv

\* The generations of the bindings differ, the queue has an item for each of them and
\* is in the order of generations, and a request that reports a hit reports the
\* candidate it had looked up.
THEOREM AffinityInvariant == Aff!AffinityAssumption => (Aff!Spec => []Aff!AffinityInv)
<1> SUFFICES ASSUME Aff!AffinityAssumption PROVE Aff!Spec => []Aff!AffinityInv OBVIOUS
<1>1. Aff!Init => Aff!AffinityInv BY AffinityInitial
<1>2. Aff!AffinityInv /\ [Aff!Next]_(Aff!vars) => Aff!AffinityInv' BY AffinityStep
<1> QED BY <1>1, <1>2, PTL DEF Aff!Spec

\* For any rules, sessions, settings and interleaving of requests with reloads: the
\* cache stays within max_entries, is empty when affinity is disabled, holds no session
\* of a removed rule, and its queue finds every binding in the order of the stores and
\* is bounded (affinity_store, reconcile_affinity, compact_affinity_recency).
THEOREM CacheAlwaysBounded == Aff!AffinityAssumption => (Aff!Spec => []Aff!CacheStaysBounded)
<1> SUFFICES ASSUME Aff!AffinityAssumption PROVE Aff!Spec => []Aff!CacheStaysBounded OBVIOUS
<1>1. Aff!AffinityInv => Aff!CacheStaysBounded
  BY DEF Aff!AffinityInv, Aff!CacheInv, Aff!CacheStaysBounded, Aff!QueueIndexesEntries, Aff!Queued
<1>2. Aff!Spec => []Aff!AffinityInv BY AffinityInvariant
<1> QED BY <1>1, <1>2, PTL

\* For the same instances a failing request removes only the binding it had looked up,
\* never one that was stored since for another candidate, and a full cache evicts the
\* sessions stored longest ago (affinity_remove_if_candidate, trim_affinity_state).
THEOREM CacheStepsAlways == Aff!AffinityAssumption => (Aff!Spec => [][Aff!CacheSteps]_(Aff!vars))
<1> SUFFICES ASSUME Aff!AffinityAssumption PROVE Aff!Spec => [][Aff!CacheSteps]_(Aff!vars) OBVIOUS
<1>1. Aff!AffinityInv /\ [Aff!Next]_(Aff!vars) => [Aff!CacheSteps]_(Aff!vars) BY AffinityStep
<1>2. Aff!Spec => []Aff!AffinityInv BY AffinityInvariant
<1> QED BY <1>1, <1>2, PTL DEF Aff!Spec

--------------------
\* Hosted: ResponsesWebSocket, the sessions of the Responses WebSocket proxy
\* and the pool of upstream connections.  The theorems are about the
\* specification of ResponsesWebSocket with its own constants; it shares no
\* state with the components above.

CONSTANTS
  Links, Clients, ClientOf, Chans, Idents, Absent, Configs, MaxRetries, MaxConns, MaxMessages,
  MaxLoads, Stops

VARIABLES
  published, pool, leased, conn, phase, cleared, loads, sess

Ws == INSTANCE ResponsesWebSocket WITH
  Sessions <- Links, MaxReloads <- MaxLoads, snap <- published, reloads <- loads

\* The module counts with the operators of FiniteSets.
LEMMA PoolCounts == ASSUME NEW S PROVE Ws!Cardinality(S) = Cardinality(S)
BY DEF Ws!Cardinality, Cardinality

LEMMA PoolFinite == ASSUME NEW S PROVE Ws!IsFiniteSet(S) <=> IsFiniteSet(S)
BY DEF Ws!IsFiniteSet, IsFiniteSet

\* The place of a position in a set is a number, and places follow positions.
LEMMA PlacesOrder ==
  ASSUME NEW P, P \subseteq Nat, IsFiniteSet(P), NEW m \in P, NEW n \in P
  PROVE  /\ Ws!Place(P, n) \in 1..Cardinality(P)
         /\ m < n => Ws!Place(P, m) < Ws!Place(P, n)
<1> DEFINE A(x) == {y \in P : y <= x}
<1>1. m \in A(m) /\ n \in A(n) /\ A(m) \in SUBSET P /\ A(n) \in SUBSET P OBVIOUS
<1>n. m \in Nat /\ n \in Nat /\ \A y \in P : y \in Nat OBVIOUS
<1>2. m < n => A(m) \in SUBSET A(n) /\ n \notin A(m)
  <2> SUFFICES ASSUME m < n PROVE (\A y \in P : y <= m => y <= n) /\ ~(n <= m) OBVIOUS
  <2> QED BY <1>n
<1>3. Ws!Place(P, m) = Cardinality(A(m)) /\ Ws!Place(P, n) = Cardinality(A(n))
  BY PoolCounts DEF Ws!Place
<1> HIDE DEF A
<1>4. IsFiniteSet(A(m)) /\ IsFiniteSet(A(n)) /\ Cardinality(A(n)) <= Cardinality(P)
  BY <1>1, FS_Subset
<1>5. /\ Cardinality(A(m)) \in Nat /\ Cardinality(A(n)) \in Nat /\ Cardinality(P) \in Nat
      /\ Cardinality(A(n)) # 0
  BY <1>1, <1>4, FS_CardinalityType, FS_EmptySet
<1>6. m < n => Cardinality(A(m)) < Cardinality(A(n))
  <2> SUFFICES ASSUME m < n PROVE Cardinality(A(m)) < Cardinality(A(n)) OBVIOUS
  <2>1. Cardinality(A(m)) <= Cardinality(A(n)) /\ Cardinality(A(n)) # Cardinality(A(m))
    BY <1>1, <1>2, <1>4, FS_Subset
  <2> QED BY <1>5, <2>1
<1> QED BY <1>3, <1>4, <1>5, <1>6

\* Every place is taken: placing is an injection into as many places as there are
\* positions, and onto them.
LEMMA NthIs ==
  ASSUME NEW P, P \subseteq Nat, IsFiniteSet(P)
  PROVE  \A i \in 1..Cardinality(P) : \E n \in P : Ws!Place(P, n) = i
<1> DEFINE c == Cardinality(P)
           f == [n \in P |-> Ws!Place(P, n)]
<1>0. c \in Nat BY FS_CardinalityType
<1>1. \A n \in P : Ws!Place(P, n) \in 1..c BY PlacesOrder
<1>2. \A m, n \in P : Ws!Place(P, m) = Ws!Place(P, n) => m = n
  <2> SUFFICES ASSUME NEW m \in P, NEW n \in P, Ws!Place(P, m) = Ws!Place(P, n) PROVE m = n
    OBVIOUS
  <2>1. Ws!Place(P, m) \in Nat BY <1>0, <1>1
  <2>2. m < n => Ws!Place(P, m) < Ws!Place(P, n) BY PlacesOrder
  <2>3. n < m => Ws!Place(P, n) < Ws!Place(P, m) BY PlacesOrder
  <2>4. m \in Nat /\ n \in Nat OBVIOUS
  <2> QED BY <2>1, <2>2, <2>3, <2>4
<1> HIDE DEF c
<1>3. f \in Injection(P, 1..c)
  <2>1. f \in [P -> 1..c] /\ \A a, b \in P : f[a] = f[b] => a = b BY <1>1, <1>2
  <2> HIDE DEF f
  <2> QED BY <2>1, Fun_IsInj
<1>4. IsFiniteSet(1..c) /\ Cardinality(1..c) = c BY <1>0, FS_Interval
<1>5. f \in Surjection(P, 1..c)
  <2> HIDE DEF f
  <2> QED BY <1>3, <1>4, FS_Injection DEF c
<1> QED BY <1>5 DEF Surjection, c

\* Retaining keeps order and distinctness and adds nothing.
LEMMA RetainedIs ==
  ASSUME NEW q \in Seq(Nat), NEW S
  PROVE  /\ Ws!Retained(q, S) \in Seq(Nat) /\ Len(Ws!Retained(q, S)) <= Len(q)
         /\ Ws!Items(Ws!Retained(q, S)) \subseteq Ws!Items(q) \cap S
         /\ Ws!Distinct(q) => Ws!Distinct(Ws!Retained(q, S))
<1> DEFINE P == {n \in 1..Len(q) : q[n] \in S}
           c == Cardinality(P)
           N(i) == Ws!Nth(P, i)
           p == Ws!Retained(q, S)
<1>1. Len(q) \in Nat /\ q \in [1..Len(q) -> Nat] OBVIOUS
<1>2. P \subseteq Nat /\ P \in SUBSET (1..Len(q)) BY <1>1
<1>3. IsFiniteSet(1..Len(q)) /\ Cardinality(1..Len(q)) = Len(q)
  <2> DEFINE l == Len(q)
  <2>1. l \in Nat BY <1>1
  <2> HIDE DEF l
  <2>2. IsFiniteSet(1..l) /\ Cardinality(1..l) = l BY <2>1, FS_Interval
  <2> QED BY <2>2 DEF l
<1>4. IsFiniteSet(P) /\ c \in Nat /\ c <= Len(q)
  <2> HIDE DEF P
  <2> QED BY <1>2, <1>3, FS_Subset, FS_CardinalityType
<1>5. \A i \in 1..c : \E n \in P : Ws!Place(P, n) = i
  <2> HIDE DEF P
  <2> QED BY <1>2, <1>4, NthIs
<1>6. \A i \in 1..c : N(i) \in P /\ Ws!Place(P, N(i)) = i
  <2> HIDE DEF P
  <2> QED BY <1>5 DEF Ws!Nth
<1>7. p = [i \in 1..c |-> q[N(i)]] BY PoolCounts DEF Ws!Retained
<1> HIDE DEF N, c, p
<1>8. \A i \in 1..c : N(i) \in 1..Len(q) /\ q[N(i)] \in S /\ q[N(i)] \in Nat BY <1>1, <1>6
<1> HIDE DEF P
<1>9. p \in Seq(Nat) /\ Len(p) = c /\ \A i \in 1..c : p[i] = q[N(i)] BY <1>4, <1>7, <1>8
<1>10. Ws!Items(p) \subseteq Ws!Items(q) \cap S BY <1>8, <1>9 DEF Ws!Items
<1>11. Ws!Distinct(q) => Ws!Distinct(p)
  <2> SUFFICES ASSUME Ws!Distinct(q), NEW i \in 1..c, NEW j \in 1..c, p[i] = p[j] PROVE i = j
    BY <1>9 DEF Ws!Distinct
  <2>1. N(i) = N(j) BY <1>8, <1>9 DEF Ws!Distinct
  <2> QED BY <1>6, <2>1
<1> QED BY <1>4, <1>9, <1>10, <1>11 DEF p

\* Trimming leaves the end of the queue, within the capacity.
LEMMA TrimmedIs ==
  ASSUME NEW q \in Seq(Nat), NEW max \in Nat
  PROVE  /\ Ws!Trimmed(q, max) \in Seq(Nat) /\ Len(Ws!Trimmed(q, max)) <= max
         /\ Len(Ws!Trimmed(q, max)) <= Len(q)
         /\ Ws!Items(Ws!Trimmed(q, max)) \subseteq Ws!Items(q)
         /\ Ws!Distinct(q) => Ws!Distinct(Ws!Trimmed(q, max))
<1> DEFINE l == Len(q)
           k == IF l < max THEN l ELSE max
           d == l - k
           t == SubSeq(q, d + 1, l)
<1>1. l \in Nat /\ \A i \in 1..l : q[i] \in Nat OBVIOUS
<1>2. d \in Nat /\ d <= l /\ l - d <= max BY <1>1
<1>3. Ws!Trimmed(q, max) = t BY DEF Ws!Trimmed
<1> HIDE DEF d, l
<1>4. \A i \in (d + 1)..l : q[i] \in Nat BY <1>1, <1>2
<1>5. /\ t \in Seq(Nat)
      /\ Len(t) = IF d + 1 <= l THEN l - (d + 1) + 1 ELSE 0
      /\ \A i \in 1..(l - (d + 1) + 1) : t[i] = q[d + 1 + i - 1]
  BY <1>1, <1>2, <1>4, SubSeqProperties
<1> HIDE DEF t
<1>6. Len(t) = l - d BY <1>1, <1>2, <1>5
<1>7. \A i \in 1..Len(t) : t[i] = q[d + i] /\ d + i \in 1..l
  <2> TAKE i \in 1..Len(t)
  <2>1. i \in 1..(l - (d + 1) + 1) /\ d + 1 + i - 1 = d + i /\ d + i \in 1..l BY <1>1, <1>2, <1>6
  <2> QED BY <1>5, <2>1
<1>8. Ws!Items(t) \subseteq Ws!Items(q) BY <1>7 DEF Ws!Items, l
<1>9. Ws!Distinct(q) => Ws!Distinct(t)
  <2> SUFFICES ASSUME Ws!Distinct(q), NEW i \in 1..Len(t), NEW j \in 1..Len(t), t[i] = t[j] PROVE i = j
    BY DEF Ws!Distinct
  <2>1. d + i = d + j BY <1>7 DEF Ws!Distinct, l
  <2> QED BY <1>2, <1>6, <1>1, <2>1
<1> QED BY <1>1, <1>2, <1>3, <1>5, <1>6, <1>8, <1>9 DEF l

\* An appended connection is one item more.
LEMMA AppendIs ==
  ASSUME NEW q \in Seq(Nat), NEW i \in Nat
  PROVE  /\ Append(q, i) \in Seq(Nat)
         /\ Ws!Items(Append(q, i)) = Ws!Items(q) \cup {i}
         /\ Ws!Distinct(q) /\ i \notin Ws!Items(q) => Ws!Distinct(Append(q, i))
<1> DEFINE a == Append(q, i)
           l == Len(q)
<1>1. /\ a \in Seq(Nat) /\ Len(a) = l + 1 /\ l \in Nat
      /\ \A n \in 1..l : a[n] = q[n]
      /\ a[l + 1] = i
  BY AppendProperties
<1>2. \A n \in 1..(l + 1) : n \in 1..l \/ n = l + 1 BY <1>1
<1>3. l + 1 \in 1..(l + 1) /\ \A n \in 1..l : n \in 1..(l + 1) BY <1>1
<1> HIDE DEF a
<1>4. Ws!Items(a) = Ws!Items(q) \cup {i}
  <2>1. Ws!Items(a) = {a[n] : n \in 1..(l + 1)} /\ Ws!Items(q) = {q[n] : n \in 1..l}
    BY <1>1 DEF Ws!Items
  <2> HIDE DEF l
  <2> QED BY <1>1, <1>2, <1>3, <2>1
<1>5. Ws!Distinct(q) /\ i \notin Ws!Items(q) => Ws!Distinct(a)
  <2> SUFFICES ASSUME Ws!Distinct(q), i \notin Ws!Items(q),
                      NEW m \in 1..(l + 1), NEW n \in 1..(l + 1), a[m] = a[n] PROVE m = n
    BY <1>1 DEF Ws!Distinct
  <2>1. CASE m \in 1..l /\ n \in 1..l BY <1>1, <2>1 DEF Ws!Distinct
  <2>2. CASE m \in 1..l /\ n = l + 1 BY <1>1, <2>2 DEF Ws!Items
  <2>3. CASE n \in 1..l /\ m = l + 1 BY <1>1, <2>3 DEF Ws!Items
  <2>4. CASE m = l + 1 /\ n = l + 1 BY <2>4
  <2> QED BY <1>2, <2>1, <2>2, <2>3, <2>4
<1> QED BY <1>1, <1>4, <1>5 DEF a

\* A bounded set of positions has a last one.
LEMMA LatestOf ==
  ASSUME NEW P, NEW l \in Nat, P \subseteq 1..l, P # {} PROVE \E n \in P : \A m \in P : m <= n
<1> DEFINE T == {l - n : n \in P}
           R == OpToRel(<, Nat)
<1>1. T \subseteq Nat /\ T # {}
  <2>1. \A n \in P : n \in Nat /\ n <= l OBVIOUS
  <2>2. \A n \in P : l - n \in Nat BY <2>1
  <2> QED BY <2>2
<1>2. IsWellFoundedOn(R, Nat) BY NatLessThanWellFounded, Zenon
<1>3. \A x, y \in Nat : <<y, x>> \in R <=> y < x BY DEF OpToRel
<1> HIDE DEF R
<1>4. PICK x \in T : \A y \in T : ~ (<<y, x>> \in R)
  <2> HIDE DEF T
  <2> QED BY <1>1, <1>2, WFMin, Zenon
<1>5. PICK n \in P : x = l - n OBVIOUS
<1>6. ASSUME NEW m \in P PROVE m <= n
  <2>1. l - m \in T /\ l - m \in Nat /\ x \in Nat /\ n \in Nat /\ m \in Nat BY <1>1
  <2>2. ~ (l - m < x) BY <1>3, <1>4, <2>1
  <2> QED BY <1>5, <2>1, <2>2
<1> QED BY <1>6

\* What acquire finds is idle and of exactly the key that was asked for.
LEMMA NewestIs ==
  ASSUME NEW q \in Seq(Nat), NEW k, Ws!Newest(q, k) # Ws!NoConn
  PROVE  Ws!Newest(q, k) \in Ws!Items(q) /\ conn[Ws!Newest(q, k)].key = k
<1> DEFINE found == {n \in 1..Len(q) : conn[q[n]].key = k}
           c == CHOOSE n \in found : \A m \in found : m <= n
           l == Len(q)
<1>1. found # {} /\ Ws!Newest(q, k) = q[c] BY DEF Ws!Newest
<1>2. l \in Nat /\ found \subseteq 1..l OBVIOUS
<1>3. \E n \in found : \A m \in found : m <= n
  <2> HIDE DEF found, l
  <2> QED BY <1>1, <1>2, LatestOf
<1>4. c \in found
  <2> HIDE DEF found
  <2> QED BY <1>3
<1> HIDE DEF c
<1> QED BY <1>1, <1>4 DEF Ws!Items

--------------------
\* q is a part of the queue p.
Sub(q, p) ==
  /\ q \in Seq(Nat) /\ Len(q) <= Len(p) /\ Ws!Items(q) \subseteq Ws!Items(p) /\ Ws!Distinct(q)

\* prune_idle leaves a part of the queue.
LEMMA PrunedIs ==
  ASSUME Ws!SocketTypes, Ws!PoolInv
  PROVE  /\ Sub(Ws!Pruned(pool.idle), pool.idle)
         /\ pool.cfg \in Configs /\ pool.idle \in Seq(Nat)
<1>1. pool.cfg \in Configs /\ pool.idle \in Seq(Nat) /\ Ws!Distinct(pool.idle)
  BY DEF Ws!SocketTypes, Ws!PoolInv
<1> QED BY <1>1, RetainedIs DEF Ws!Pruned, Sub

\* So does retaining some of a part.
LEMMA SubIs ==
  ASSUME NEW o \in Seq(Nat), NEW q, Sub(q, o), NEW S
  PROVE  /\ Sub(Ws!Retained(q, S), o) /\ Ws!Items(Ws!Retained(q, S)) \subseteq S
BY RetainedIs DEF Sub

\* And trimming a part.
LEMMA SubTrim ==
  ASSUME NEW o \in Seq(Nat), NEW q, Sub(q, o), NEW max \in Nat
  PROVE  /\ Sub(Ws!Trimmed(q, max), o) /\ Len(Ws!Trimmed(q, max)) <= max
         /\ Ws!Items(Ws!Trimmed(q, max)) \subseteq Ws!Items(q)
<1>1. q \in Seq(Nat) /\ Ws!Distinct(q) /\ Ws!Items(q) \subseteq Ws!Items(o) /\ Len(q) <= Len(o)
  BY DEF Sub
<1>2. /\ Ws!Trimmed(q, max) \in Seq(Nat) /\ Len(Ws!Trimmed(q, max)) <= max
      /\ Len(Ws!Trimmed(q, max)) <= Len(q)
      /\ Ws!Items(Ws!Trimmed(q, max)) \subseteq Ws!Items(q) /\ Ws!Distinct(Ws!Trimmed(q, max))
  BY <1>1, TrimmedIs
<1>3. Len(Ws!Trimmed(q, max)) \in Nat /\ Len(q) \in Nat /\ Len(o) \in Nat BY <1>1, <1>2
<1> QED BY <1>1, <1>2, <1>3 DEF Sub

\* The connection i still is what the pool took it for.
Alike(i) ==
  /\ i \in Ws!Conns' /\ conn'[i].key = conn[i].key /\ conn'[i].busy = conn[i].busy
  /\ conn'[i].served = conn[i].served

\* A part of the idle connections, unchanged and under the same configuration, is sound.
LEMMA PoolKeeps ==
  ASSUME Ws!SocketAssumption, Ws!SocketTypes, Ws!PoolInv, pool'.cfg = pool.cfg, Sub(pool'.idle, pool.idle),
         \A i \in Ws!Items(pool.idle) : Alike(i)
  PROVE  Ws!PoolInv'
<1>1. Ws!Distinct(pool'.idle) /\ Ws!Items(pool'.idle) \subseteq Ws!Items(pool.idle) BY DEF Sub
<1>2. Len(pool'.idle) <= pool'.cfg.max
  <2>1. Len(pool'.idle) <= Len(pool.idle) /\ Len(pool.idle) <= pool.cfg.max BY DEF Sub, Ws!PoolInv
  <2>2. Len(pool'.idle) \in Nat /\ Len(pool.idle) \in Nat BY DEF Sub, Ws!SocketTypes
  <2>3. pool.cfg \in Ws!ConfigSpace BY DEF Ws!SocketTypes, Ws!SocketAssumption
  <2>4. pool.cfg.max \in Nat BY <2>3 DEF Ws!ConfigSpace
  <2> QED BY <2>1, <2>2, <2>4
<1>3. \A i \in Ws!Items(pool'.idle) : Ws!Idle(i)'
  BY <1>1 DEF Ws!PoolInv, Ws!Idle, Alike, Ws!Permits
<1>4. \A i, j \in Ws!Items(pool'.idle) : conn'[i].key = conn'[j].key => i = j
  BY <1>1 DEF Ws!PoolInv, Alike
<1> QED BY <1>1, <1>2, <1>3, <1>4 DEF Ws!PoolInv

\* release: a connection that comes back replaces the one of its key, if the pool
\* still permits it, and the queue stays within its capacity.
LEMMA KeptIs ==
  ASSUME Ws!SocketAssumption, Ws!SocketTypes, Ws!PoolInv, NEW i \in Ws!Conns, i \notin Ws!Items(pool.idle),
         conn[i].served, ~conn[i].busy, pool' = [pool EXCEPT !.idle = Ws!Kept(i)], conn' = conn
  PROVE  /\ Ws!PoolInv' /\ pool' \in [cfg: Configs, idle: Seq(Nat)]
         /\ Ws!Items(pool'.idle) \subseteq Ws!Items(pool.idle) \cup {i}
<1> DEFINE p == Ws!Pruned(pool.idle)
           max == pool.cfg.max
<1>1. Sub(p, pool.idle) /\ pool.cfg \in Configs /\ pool.idle \in Seq(Nat) BY PrunedIs
<1>2. pool.cfg \in Ws!ConfigSpace BY <1>1 DEF Ws!SocketAssumption
<1>3. max \in Nat BY <1>2 DEF Ws!ConfigSpace
<1>4. pool'.cfg = pool.cfg /\ pool'.idle = Ws!Kept(i) BY DEF Ws!SocketTypes
<1>5. \A j \in Ws!Items(pool.idle) : Alike(j) BY DEF Alike, Ws!PoolInv, Ws!Idle, Ws!Conns
<1>6. CASE Ws!Kept(i) = p
  <2>1. Ws!PoolInv' BY <1>1, <1>4, <1>5, <1>6, PoolKeeps
  <2>2. pool'.idle \in Seq(Nat) /\ Ws!Items(pool'.idle) \subseteq Ws!Items(pool.idle)
    BY <1>1, <1>4, <1>6 DEF Sub
  <2>3. pool' \in [cfg: Configs, idle: Seq(Nat)] BY <1>1, <1>4, <2>2 DEF Ws!SocketTypes
  <2> QED BY <2>1, <2>2, <2>3
<1>7. CASE ~(\/ ~pool.cfg.on \/ ~Ws!Permits(pool.cfg, conn[i].key) \/ pool.cfg.max = 0 \/ conn[i].ended)
  <2> DEFINE o == Ws!Retained(p, {j \in Ws!Conns : conn[j].key # conn[i].key})
             a == Append(o, i)
             t == Ws!Trimmed(a, max)
  <2>1. Ws!Kept(i) = t BY <1>7 DEF Ws!Kept
  <2>2. Sub(o, pool.idle) /\ Ws!Items(o) \subseteq {j \in Ws!Conns : conn[j].key # conn[i].key}
    BY <1>1, SubIs
  <2>3. o \in Seq(Nat) /\ Ws!Distinct(o) /\ Ws!Items(o) \subseteq Ws!Items(pool.idle)
    BY <2>2 DEF Sub
  <2> HIDE DEF o
  <2>4. i \in Nat /\ i \notin Ws!Items(o) BY <2>3 DEF Ws!Conns, Ws!SocketTypes
  <2>5. a \in Seq(Nat) /\ Ws!Items(a) = Ws!Items(o) \cup {i} /\ Ws!Distinct(a)
    BY <2>3, <2>4, AppendIs
  <2> HIDE DEF a
  <2>6. t \in Seq(Nat) /\ Len(t) <= max /\ Ws!Items(t) \subseteq Ws!Items(a) /\ Ws!Distinct(t)
    BY <1>3, <2>5, TrimmedIs
  <2> HIDE DEF t
  <2>7. \A j \in Ws!Items(t) : j = i \/ (j \in Ws!Items(pool.idle) /\ conn[j].key # conn[i].key)
    BY <2>2, <2>3, <2>5, <2>6
  <2>8. \A j \in Ws!Items(t) : Ws!Idle(j)'
    BY <1>4, <1>7, <2>7 DEF Ws!Idle, Ws!PoolInv, Ws!Conns, Ws!Permits
  <2>9. \A j, k \in Ws!Items(t) : conn[j].key = conn[k].key => j = k BY <2>7 DEF Ws!PoolInv
  <2>10. Ws!PoolInv' BY <1>4, <2>1, <2>6, <2>8, <2>9 DEF Ws!PoolInv
  <2>11. pool' \in [cfg: Configs, idle: Seq(Nat)] BY <1>1, <1>4, <2>1, <2>6 DEF Ws!SocketTypes
  <2> QED BY <1>4, <2>1, <2>7, <2>10, <2>11
<1> QED BY <1>6, <1>7 DEF Ws!Kept

--------------------
\* What a session adds to leased_connections.
HeldBy(r) == IF r.pinned = Ws!NoConn THEN 0 ELSE 1

\* leased_connections follows what one session takes or lets go.
LEMMA HoldersCount ==
  ASSUME Ws!SocketAssumption, sess \in [Links -> Ws!Session], NEW s \in Links, NEW r,
         sess' = [sess EXCEPT ![s] = r], leased = Cardinality(Ws!Holders),
         leased' = leased + HeldBy(r) - HeldBy(sess[s])
  PROVE  leased' = Cardinality(Ws!Holders')
<1> DEFINE H == Ws!Holders
           J == {t \in Links : sess'[t].pinned # Ws!NoConn}
<1>0. Ws!Holders' = J BY DEF Ws!Holders
<1>1. IsFiniteSet(H) /\ Cardinality(H) \in Nat
  <2>1. IsFiniteSet(Links) /\ H \in SUBSET Links BY PoolFinite DEF Ws!SocketAssumption, Ws!Holders
  <2> QED BY <2>1, FS_Subset, FS_CardinalityType
<1>2. sess'[s] = r /\ \A t \in Links : t # s => sess'[t] = sess[t] OBVIOUS
<1>3. leased = Cardinality(H) BY PoolCounts
<1>4. CASE r.pinned = Ws!NoConn /\ sess[s].pinned = Ws!NoConn
  <2>1. J = H BY <1>2, <1>4 DEF Ws!Holders
  <2> HIDE DEF H, J
  <2>2. leased' = leased BY <1>1, <1>3, <1>4 DEF HeldBy
  <2> QED BY <1>0, <1>3, <2>1, <2>2, PoolCounts
<1>5. CASE r.pinned # Ws!NoConn /\ sess[s].pinned # Ws!NoConn
  <2>1. J = H BY <1>2, <1>5 DEF Ws!Holders
  <2> HIDE DEF H, J
  <2>2. leased' = leased BY <1>1, <1>3, <1>5 DEF HeldBy
  <2> QED BY <1>0, <1>3, <2>1, <2>2, PoolCounts
<1>6. CASE r.pinned # Ws!NoConn /\ sess[s].pinned = Ws!NoConn
  <2>1. J = H \cup {s} /\ s \notin H BY <1>2, <1>6 DEF Ws!Holders
  <2> HIDE DEF H, J
  <2>2. Cardinality(J) = Cardinality(H) + 1 BY <1>1, <2>1, FS_AddElement
  <2> QED BY <1>0, <1>1, <1>3, <1>6, <2>2, PoolCounts DEF HeldBy
<1>7. CASE r.pinned = Ws!NoConn /\ sess[s].pinned # Ws!NoConn
  <2>1. J = H \ {s} /\ s \in H BY <1>2, <1>7 DEF Ws!Holders
  <2> HIDE DEF H, J
  <2>2. Cardinality(J) = Cardinality(H) - 1 BY <1>1, <2>1, FS_RemoveElement
  <2> QED BY <1>0, <1>1, <1>3, <1>7, <2>2, PoolCounts DEF HeldBy
<1> QED BY <1>4, <1>5, <1>6, <1>7

\* The session t is not affected by a step of another, which pins n.
Aside(t, n) ==
  LET p == sess[t].pinned
  IN  p # Ws!NoConn => p \in Ws!Conns' /\ conn'[p] = conn[p] /\ p \notin Ws!Items(pool'.idle) /\ p # n

\* A step of one session keeps the invariant if it keeps the others' connections.
LEMMA SessionStep ==
  ASSUME Ws!SocketAssumption, Ws!SocketsInv, NEW s \in Links, NEW r \in Ws!Session,
         sess' = [sess EXCEPT ![s] = r], Ws!Progress(r), Ws!Pinning(s, r)', Ws!SocketTypes', Ws!PoolInv',
         leased' = leased + HeldBy(r) - HeldBy(sess[s]),
         \A t \in Links : t # s => Aside(t, r.pinned)
  PROVE  Ws!SocketsInv'
<1>1. sess \in [Links -> Ws!Session] /\ leased = Cardinality(Ws!Holders)
  BY PoolCounts DEF Ws!SocketsInv
<1>2. sess' \in [Links -> Ws!Session] /\ sess'[s] = r BY <1>1
<1>3. \A t \in Links : t # s => sess'[t] = sess[t] BY <1>1
<1>4. leased' = Cardinality(Ws!Holders') BY <1>1, HoldersCount
<1>5. ASSUME NEW t \in Links PROVE Ws!Progress(sess'[t]) /\ Ws!Pinning(t, sess[t])'
  <2>1. CASE t = s BY <1>2, <2>1 DEF Ws!Pinning
  <2>2. CASE t # s
    <3>1. Ws!Progress(sess[t]) /\ Ws!Pinning(t, sess[t]) /\ sess'[t] = sess[t]
      BY <1>3, <2>2 DEF Ws!SocketsInv
    <3>2. Aside(t, r.pinned) BY <2>2
    <3> QED BY <3>1, <3>2 DEF Ws!Pinning, Aside
  <2> QED BY <2>1, <2>2
<1>6. \A t, u \in Ws!Holders' : sess'[t].pinned = sess'[u].pinned => t = u
  <2> SUFFICES ASSUME NEW t \in Links, NEW u \in Links, sess'[t].pinned # Ws!NoConn,
                      sess'[t].pinned = sess'[u].pinned, t # u
               PROVE  FALSE
    BY DEF Ws!Holders
  <2>1. CASE t = s BY <1>2, <1>3, <2>1 DEF Aside
  <2>2. CASE u = s BY <1>2, <1>3, <2>2 DEF Aside
  <2>3. CASE t # s /\ u # s BY <1>3, <2>3 DEF Ws!SocketsInv, Ws!Holders
  <2> QED BY <2>1, <2>2, <2>3
<1> QED BY <1>2, <1>4, <1>5, <1>6, PoolCounts DEF Ws!SocketsInv

\* A step of s keeps pool and connections, except for its own.
Frame(s) ==
  /\ Ws!SocketTypes' /\ Ws!PoolInv' /\ Ws!Items(pool'.idle) \subseteq Ws!Items(pool.idle)
  /\ \A i \in Ws!Conns : i \in Ws!Conns' /\ conn'[i].key = conn[i].key
  /\ \A i \in Ws!Conns : i # sess[s].pinned => conn'[i] = conn[i]

\* A session that pins nothing new, while the pool shrinks at most.
LEMMA FrameStep ==
  ASSUME Ws!SocketAssumption, Ws!SocketsInv, NEW s \in Links, NEW r \in Ws!Session, Frame(s),
         sess' = [sess EXCEPT ![s] = r], Ws!Progress(r),
         leased' = leased + HeldBy(r) - HeldBy(sess[s]),
         r.pinned = Ws!NoConn \/ r.pinned = sess[s].pinned,
         r.pinned # Ws!NoConn =>
           /\ r.pc \in {"send", "relay"} /\ r.req.prev => conn'[r.pinned].served
           /\ r.reusable => conn'[r.pinned].served /\ ~conn'[r.pinned].busy
  PROVE  Ws!SocketsInv'
<1>1. ASSUME NEW t \in Links, t # s PROVE Aside(t, r.pinned)
  <2> SUFFICES ASSUME sess[t].pinned # Ws!NoConn
               PROVE  LET p == sess[t].pinned
                      IN  p \in Ws!Conns' /\ conn'[p] = conn[p] /\ p \notin Ws!Items(pool'.idle) /\ p # r.pinned
    BY DEF Aside
  <2>1. sess[t].pinned \in Ws!Conns /\ sess[t].pinned \notin Ws!Items(pool.idle)
    BY DEF Ws!SocketsInv, Ws!Pinning
  <2>2. sess[t].pinned # sess[s].pinned BY <1>1 DEF Ws!SocketsInv, Ws!Holders
  <2> QED BY <2>1, <2>2 DEF Frame
<1>2. Ws!Pinning(s, r)'
  <2> SUFFICES ASSUME r.pinned # Ws!NoConn
               PROVE  /\ r.pinned \in Ws!Conns' /\ r.pinned \notin Ws!Items(pool'.idle)
                      /\ conn'[r.pinned].key.client = ClientOf[s]
    BY DEF Ws!Pinning
  <2>1. /\ r.pinned = sess[s].pinned /\ r.pinned \in Ws!Conns /\ r.pinned \notin Ws!Items(pool.idle)
        /\ conn[r.pinned].key.client = ClientOf[s]
    BY DEF Ws!SocketsInv, Ws!Pinning
  <2> QED BY <2>1 DEF Frame
<1>3. Ws!SocketTypes' /\ Ws!PoolInv' BY DEF Frame
<1> QED BY <1>1, <1>2, <1>3, SessionStep

\* The frame of a step that leaves pool and connections alone.
LEMMA FrameSame ==
  ASSUME Ws!SocketsInv, UNCHANGED <<published, pool, conn, phase>>, NEW s PROVE Frame(s)
BY DEF Ws!SocketsInv, Frame, Ws!SocketTypes, Ws!PoolInv, Ws!Idle, Ws!Conns, Ws!Permits

\* The frame of a step that prunes the pool.
LEMMA FramePruned ==
  ASSUME Ws!SocketAssumption, Ws!SocketsInv, UNCHANGED <<published, conn, phase>>, NEW s,
         pool' = [pool EXCEPT !.idle = Ws!Pruned(pool.idle)]
  PROVE  Frame(s)
<1>1. Ws!SocketTypes /\ Ws!PoolInv BY DEF Ws!SocketsInv
<1>2. Sub(Ws!Pruned(pool.idle), pool.idle) /\ pool.cfg \in Configs /\ pool.idle \in Seq(Nat)
  BY <1>1, PrunedIs
<1>3. pool'.cfg = pool.cfg /\ pool'.idle = Ws!Pruned(pool.idle) /\ pool' \in [cfg: Configs, idle: Seq(Nat)]
  BY <1>1, <1>2 DEF Ws!SocketTypes, Sub
<1>4. \A i \in Ws!Items(pool.idle) : Alike(i) BY <1>1 DEF Alike, Ws!PoolInv, Ws!Idle, Ws!Conns
<1>5. Ws!PoolInv' BY <1>1, <1>2, <1>3, <1>4, PoolKeeps
<1>6. Ws!SocketTypes' BY <1>1, <1>3 DEF Ws!SocketTypes
<1>7. Ws!Items(pool'.idle) \subseteq Ws!Items(pool.idle) BY <1>2, <1>3 DEF Sub
<1> QED BY <1>5, <1>6, <1>7 DEF Frame, Ws!Conns

\* A session that pins another connection, or none.
LEMMA PinIs ==
  ASSUME NEW r \in Ws!Session, NEW p \in Ws!Places, NEW i \in Nat
  PROVE  LET x == Ws!Pinned(r, p, i)
         IN  /\ x \in Ws!Session /\ x.pc = p /\ x.pinned = i /\ ~x.reusable
             /\ x.req = r.req /\ x.events = r.events /\ x.sends = r.sends
BY DEF Ws!Session, Ws!Pinned

\* r is the session s with its request over and its connection still pinned.
Over(r, s) ==
  /\ r \in Ws!Session /\ r.pinned = sess[s].pinned /\ ~r.req.open /\ r.events <= 1 /\ r.sends <= 1
  /\ r.reusable => r.pinned # Ws!NoConn /\ conn'[r.pinned].served /\ ~conn'[r.pinned].busy

\* release_pinned on any path out of a request: nothing to return, a reusable
\* connection that waits for the pool, or a connection that is discarded.
LEMMA ReturnStep ==
  ASSUME Ws!SocketAssumption, Ws!SocketsInv, NEW s \in Links, NEW r, NEW then \in {"recv", "closing", "gone"},
         Frame(s), Over(r, s), Ws!Return(s, r, then)
  PROVE  Ws!SocketsInv'
<1> DEFINE r2 == Ws!Releasing(r, then)
<1>0. /\ r \in Ws!Session /\ r.pinned = sess[s].pinned /\ ~r.req.open /\ r.events <= 1 /\ r.sends <= 1
      /\ r.reusable => r.pinned # Ws!NoConn /\ conn'[r.pinned].served /\ ~conn'[r.pinned].busy
  BY DEF Over
<1>1. sess' = [sess EXCEPT ![s] = r2] /\ leased' = Ws!Dropped(r, r2) BY DEF Ws!Return, Ws!Set
<1>l. leased \in Nat
  <2>1. IsFiniteSet(Links) /\ Ws!Holders \in SUBSET Links
    BY PoolFinite DEF Ws!SocketAssumption, Ws!Holders
  <2>2. Cardinality(Ws!Holders) \in Nat BY <2>1, FS_Subset, FS_CardinalityType
  <2> QED BY <2>2, PoolCounts DEF Ws!SocketsInv
<1>2. CASE r.pinned = Ws!NoConn
  <2>1. r2 = [r EXCEPT !.pc = then] BY <1>2 DEF Ws!Releasing
  <2>2. r2 \in Ws!Session /\ r2.pinned = Ws!NoConn /\ Ws!Progress(r2)
    BY <1>0, <1>2, <2>1 DEF Ws!Session, Ws!Progress, Ws!Places, Ws!Working
  <2>3. leased' = leased + HeldBy(r2) - HeldBy(sess[s])
    BY <1>0, <1>1, <1>2, <1>l, <2>2 DEF Ws!Dropped, HeldBy
  <2> HIDE DEF r2
  <2> QED BY <1>1, <2>2, <2>3, FrameStep
<1>3. CASE r.pinned # Ws!NoConn /\ r.reusable /\ phase = "running"
  <2>1. r2 = [r EXCEPT !.pc = "release", !.next = then] BY <1>3 DEF Ws!Releasing
  <2>2. r2 \in Ws!Session /\ r2.pinned = r.pinned /\ r2.reusable /\ r2.pc = "release" /\ Ws!Progress(r2)
    BY <1>0, <1>3, <2>1 DEF Ws!Session, Ws!Progress, Ws!Places, Ws!Working
  <2>3. leased' = leased + HeldBy(r2) - HeldBy(sess[s])
    BY <1>0, <1>1, <1>3, <1>l, <2>2 DEF Ws!Dropped, HeldBy
  <2> HIDE DEF r2
  <2> QED BY <1>0, <1>1, <1>3, <2>2, <2>3, FrameStep
<1>4. CASE r.pinned # Ws!NoConn /\ ~(r.reusable /\ phase = "running")
  <2>1. r2 = Ws!Pinned(r, then, Ws!NoConn) BY <1>4 DEF Ws!Releasing
  <2>f. /\ r2 \in Ws!Session /\ r2.pinned = Ws!NoConn /\ r2.pc = then /\ ~r2.reusable
        /\ r2.req = r.req /\ r2.events = r.events /\ r2.sends = r.sends
    <3>1. then \in Ws!Places /\ Ws!NoConn \in Nat BY DEF Ws!Places, Ws!NoConn
    <3> HIDE DEF r2
    <3> QED BY <1>0, <2>1, <3>1, PinIs
  <2>2. r2 \in Ws!Session /\ r2.pinned = Ws!NoConn /\ Ws!Progress(r2)
    <3> HIDE DEF r2
    <3> QED BY <1>0, <2>f DEF Ws!Progress, Ws!Working
  <2>3. leased' = leased + HeldBy(r2) - HeldBy(sess[s])
    BY <1>0, <1>1, <1>4, <1>l, <2>2 DEF Ws!Dropped, HeldBy
  <2> HIDE DEF r2
  <2> QED BY <1>1, <2>2, <2>3, FrameStep
<1> QED BY <1>2, <1>3, <1>4

\* The completion guard records at most one event.
LEMMA FinishedIs ==
  ASSUME Ws!SocketTypes, NEW r \in Ws!Session
  PROVE  /\ Ws!Finished(r) \in Ws!Session /\ ~Ws!Finished(r).req.open
         /\ Ws!Finished(r).pinned = r.pinned /\ Ws!Finished(r).reusable = r.reusable
         /\ Ws!Finished(r).sends = r.sends /\ Ws!Finished(r).pc = r.pc
         /\ Ws!Finished(r).events = r.events + (IF r.req.open THEN 1 ELSE 0)
<1> DEFINE g == CHOOSE g \in Configs : TRUE
<1>1. g \in Configs BY DEF Ws!SocketTypes
<1> HIDE DEF g
<1>2. Ws!NoRequest \in Ws!Request /\ ~Ws!NoRequest.open BY <1>1 DEF Ws!NoRequest, Ws!Request, g
<1> DEFINE n == Ws!NoRequest
<1> HIDE DEF n
<1>3. Ws!Finished(r) = [r EXCEPT !.events = r.events + (IF r.req.open THEN 1 ELSE 0), !.req = n]
  BY DEF Ws!Finished, n
<1>4. n \in Ws!Request /\ ~n.open BY <1>2 DEF n
<1>5. r.events + (IF r.req.open THEN 1 ELSE 0) \in Nat BY DEF Ws!Session
<1> QED BY <1>3, <1>4, <1>5 DEF Ws!Session

--------------------
\* What the invariant says of one session.
LEMMA Known ==
  ASSUME Ws!SocketsInv, NEW s \in Links
  PROVE  /\ Ws!SocketTypes /\ Ws!PoolInv /\ sess \in [Links -> Ws!Session]
         /\ sess[s] \in Ws!Session /\ Ws!Progress(sess[s]) /\ Ws!Pinning(s, sess[s])
         /\ sess[s].req \in Ws!Request
BY DEF Ws!SocketsInv, Ws!Session

\* A step of a request that keeps what is pinned and sends nothing.
LEMMA MoveStep ==
  ASSUME Ws!SocketAssumption, Ws!SocketsInv, NEW s \in Links, NEW r \in Ws!Session, Frame(s),
         sess' = [sess EXCEPT ![s] = r], leased' = leased, Ws!Progress(r),
         r.pinned = sess[s].pinned, ~r.reusable, r.pc \notin {"send", "relay"}
  PROVE  Ws!SocketsInv'
<1>1. leased \in Nat
  <2>1. IsFiniteSet(Links) /\ Ws!Holders \in SUBSET Links
    BY PoolFinite DEF Ws!SocketAssumption, Ws!Holders
  <2>2. Cardinality(Ws!Holders) \in Nat BY <2>1, FS_Subset, FS_CardinalityType
  <2> QED BY <2>2, PoolCounts DEF Ws!SocketsInv
<1>2. leased' = leased + HeldBy(r) - HeldBy(sess[s]) BY <1>1 DEF HeldBy
<1>3. r.pinned # Ws!NoConn =>
        /\ r.pc \in {"send", "relay"} /\ r.req.prev => conn'[r.pinned].served
        /\ r.reusable => conn'[r.pinned].served /\ ~conn'[r.pinned].busy
  BY Known DEF Ws!Pinning
<1> QED BY <1>2, <1>3, FrameStep

\* A message finds nothing pinned and starts a request.
LEMMA ReceiveKeeps ==
  ASSUME Ws!SocketAssumption, Ws!SocketsInv, NEW s \in Links, Ws!Receive(s) PROVE Ws!SocketsInv'
<1> DEFINE r == sess[s]
<1>0. Ws!SocketTypes /\ r \in Ws!Session /\ Ws!Progress(r) /\ r.pc = "recv"
  BY Known DEF Ws!Receive
<1>1. Frame(s) /\ leased' = leased /\ conn' = conn BY FrameSame DEF Ws!Receive
<1>2. PICK prev \in BOOLEAN, accepted \in BOOLEAN :
        sess' = [sess EXCEPT ![s] = [r EXCEPT !.pc = IF accepted THEN "route" ELSE "closing",
                    !.msgs = r.msgs + 1, !.events = 0, !.sends = 0,
                    !.req = IF accepted THEN [Ws!NoRequest EXCEPT !.cfg = published, !.prev = prev] ELSE Ws!NoRequest]]
  BY DEF Ws!Receive, Ws!Set
<1> DEFINE q == IF accepted THEN [Ws!NoRequest EXCEPT !.cfg = published, !.prev = prev] ELSE Ws!NoRequest
           p == IF accepted THEN "route" ELSE "closing"
           m == r.msgs + 1
           r2 == [r EXCEPT !.pc = p, !.msgs = m, !.events = 0, !.sends = 0, !.req = q]
<1>3. q \in Ws!Request /\ ~q.open BY <1>0 DEF Ws!NoRequest, Ws!Request, Ws!SocketTypes
<1>4. p \in {"route", "closing"} /\ m \in Nat BY <1>0 DEF Ws!Session
<1>5. sess' = [sess EXCEPT ![s] = r2] BY <1>2
<1> HIDE DEF q, p, m, r
<1>6. /\ r2 \in Ws!Session /\ r2.pc = p /\ r2.events = 0 /\ r2.sends = 0 /\ r2.req = q
      /\ r2.pinned = r.pinned /\ (r2.reusable <=> r.reusable)
  BY <1>0, <1>3, <1>4 DEF Ws!Session, Ws!Places
<1>7. r.pinned = Ws!NoConn /\ ~r.reusable BY <1>0 DEF Ws!Progress
<1> HIDE DEF r2
<1>8. Ws!Progress(r2) BY <1>3, <1>4, <1>6, <1>7 DEF Ws!Progress, Ws!Working
<1> QED BY <1>1, <1>4, <1>5, <1>6, <1>7, <1>8, MoveStep DEF r

\* The connection that comes back is in no other hands and has completed.
LEMMA ReleaseToPoolKeeps ==
  ASSUME Ws!SocketAssumption, Ws!SocketsInv, NEW s \in Links, Ws!ReleaseToPool(s)
  PROVE  Ws!SocketsInv'
<1> DEFINE r == sess[s]
<1>r. PICK r2 : r2 = Ws!Pinned(r, r.next, Ws!NoConn) OBVIOUS
<1>0. Ws!SocketTypes /\ Ws!PoolInv /\ r \in Ws!Session /\ Ws!Progress(r) /\ Ws!Pinning(s, r) /\ r.pc = "release"
  BY Known DEF Ws!ReleaseToPool
<1>1. /\ sess' = [sess EXCEPT ![s] = r2] /\ leased' = leased - 1 /\ conn' = conn
      /\ pool' = [pool EXCEPT !.idle = Ws!Kept(r.pinned)] /\ UNCHANGED <<published, phase>>
  BY <1>r DEF Ws!ReleaseToPool, Ws!Set
<1>2. r.pinned # Ws!NoConn /\ r.reusable /\ r.next \in {"recv", "closing", "gone"}
  BY <1>0 DEF Ws!Progress, Ws!Session
<1>3. /\ r.pinned \in Ws!Conns /\ r.pinned \notin Ws!Items(pool.idle)
      /\ conn[r.pinned].served /\ ~conn[r.pinned].busy
  BY <1>0, <1>2 DEF Ws!Pinning
<1>4. /\ Ws!PoolInv' /\ pool' \in [cfg: Configs, idle: Seq(Nat)]
      /\ Ws!Items(pool'.idle) \subseteq Ws!Items(pool.idle) \cup {r.pinned}
  BY <1>0, <1>1, <1>3, KeptIs
<1>5. Ws!SocketTypes' BY <1>0, <1>1, <1>4 DEF Ws!SocketTypes
<1>6. /\ r2 \in Ws!Session /\ r2.pinned = Ws!NoConn /\ r2.pc = r.next /\ ~r2.reusable
      /\ r2.req = r.req /\ r2.events = r.events /\ r2.sends = r.sends
  <2>1. r.next \in Ws!Places /\ Ws!NoConn \in Nat BY <1>2 DEF Ws!Places, Ws!NoConn
  <2> QED BY <1>0, <1>r, <2>1, PinIs
<1>7. Ws!Progress(r2) BY <1>0, <1>2, <1>6 DEF Ws!Progress, Ws!Working
<1>8. Ws!Pinning(s, r2)' BY <1>6 DEF Ws!Pinning
<1>9. leased' = leased + HeldBy(r2) - HeldBy(sess[s])
  <2>1. leased \in Nat
    <3>1. IsFiniteSet(Links) /\ Ws!Holders \in SUBSET Links
      BY PoolFinite DEF Ws!SocketAssumption, Ws!Holders
    <3>2. Cardinality(Ws!Holders) \in Nat BY <3>1, FS_Subset, FS_CardinalityType
    <3> QED BY <3>2, PoolCounts DEF Ws!SocketsInv
  <2> QED BY <1>1, <1>2, <1>6, <2>1 DEF HeldBy
<1>10. ASSUME NEW t \in Links, t # s PROVE Aside(t, r2.pinned)
  <2> SUFFICES ASSUME sess[t].pinned # Ws!NoConn
               PROVE  LET p == sess[t].pinned
                      IN  p \in Ws!Conns' /\ conn'[p] = conn[p] /\ p \notin Ws!Items(pool'.idle) /\ p # r2.pinned
    BY DEF Aside
  <2>1. sess[t].pinned \in Ws!Conns /\ sess[t].pinned \notin Ws!Items(pool.idle)
    BY DEF Ws!SocketsInv, Ws!Pinning
  <2>2. sess[t].pinned # r.pinned BY <1>2, <1>10 DEF Ws!SocketsInv, Ws!Holders
  <2> QED BY <1>1, <1>4, <1>6, <2>1, <2>2 DEF Ws!Conns
<1> QED BY <1>1, <1>4, <1>5, <1>6, <1>7, <1>8, <1>9, <1>10, SessionStep

\* Between requests none is open.
LEMMA NoRequestIs ==
  ASSUME Ws!SocketTypes PROVE Ws!NoRequest \in Ws!Request /\ ~Ws!NoRequest.open
<1> DEFINE g == CHOOSE g \in Configs : TRUE
<1>1. g \in Configs BY DEF Ws!SocketTypes
<1> HIDE DEF g
<1> QED BY <1>1 DEF Ws!NoRequest, Ws!Request, g

\* What is left when the completion guard has finished.
LEMMA OverFinished ==
  ASSUME Ws!SocketTypes, NEW x \in Ws!Session, NEW s, x.pinned = sess[s].pinned,
         x.events = 0, x.sends <= 1,
         x.reusable => x.pinned # Ws!NoConn /\ conn'[x.pinned].served /\ ~conn'[x.pinned].busy
  PROVE  Over(Ws!Finished(x), s)
<1>1. /\ Ws!Finished(x) \in Ws!Session /\ ~Ws!Finished(x).req.open
      /\ Ws!Finished(x).pinned = x.pinned /\ (Ws!Finished(x).reusable <=> x.reusable)
      /\ Ws!Finished(x).sends = x.sends
      /\ Ws!Finished(x).events = x.events + (IF x.req.open THEN 1 ELSE 0)
  BY FinishedIs
<1>2. Ws!Finished(x).events <= 1 BY <1>1
<1> DEFINE f == Ws!Finished(x)
<1> HIDE DEF f
<1>3. /\ f \in Ws!Session /\ ~f.req.open /\ f.pinned = x.pinned /\ (f.reusable <=> x.reusable)
      /\ f.sends = x.sends /\ f.events <= 1
  BY <1>1, <1>2 DEF f
<1>4. Over(f, s) BY <1>3 DEF Over
<1> QED BY <1>4 DEF f

\* A request that goes on to another place, with another request record.
Goes(r, p, q) == [r EXCEPT !.pc = p, !.req = q]

\* A session with another place and another request.
LEMMA GoesIs ==
  ASSUME NEW r \in Ws!Session, NEW p \in Ws!Places, NEW q \in Ws!Request
  PROVE  LET x == Goes(r, p, q)
         IN  /\ x \in Ws!Session /\ x.pc = p /\ x.req = q /\ x.pinned = r.pinned
             /\ (x.reusable <=> r.reusable) /\ x.events = r.events /\ x.sends = r.sends
BY DEF Ws!Session, Goes

\* select_websocket_route and its refusals.
LEMMA RouteFirstKeeps ==
  ASSUME Ws!SocketAssumption, Ws!SocketsInv, NEW s \in Links, Ws!RouteFirst(s)
  PROVE  Ws!SocketsInv'
<1> DEFINE r == sess[s]
           pref == Ws!Preferred(ClientOf[s])
<1>0. /\ Ws!SocketTypes /\ r \in Ws!Session /\ Ws!Progress(r) /\ r.pc = "route" /\ r.req \in Ws!Request
      /\ Ws!NoRequest \in Ws!Request /\ ~Ws!NoRequest.open
  BY Known, NoRequestIs DEF Ws!RouteFirst
<1>1. Frame(s) /\ conn' = conn BY FramePruned DEF Ws!RouteFirst
<1>2. /\ r.pinned = Ws!NoConn /\ ~r.reusable /\ r.events = 0 /\ r.sends = 0 /\ ~r.req.open
  BY <1>0 DEF Ws!Progress, Ws!Working
<1>3. PICK healthy \in SUBSET Chans :
         \/ /\ Ws!Selectable(r.req, healthy) = {}
            /\ Ws!Return(s, [r EXCEPT !.events = 1, !.req = Ws!NoRequest], IF r.req.prev THEN "recv" ELSE "closing")
         \/ \E events \in {0, 1} :
              Ws!Set(s, [r EXCEPT !.pc = "closing", !.events = events, !.req = Ws!NoRequest]) /\ leased' = leased
         \/ \E c \in Ws!Choice(r.req, healthy, pref) :
              LET routed == [r.req EXCEPT !.cand = c, !.tried = {c}, !.hit = (c = pref), !.open = TRUE]
              IN  IF Ws!PrevRoutable(r.req.prev, c = pref)
                  THEN Ws!Set(s, [r EXCEPT !.pc = "attempt", !.req = routed]) /\ leased' = leased
                  ELSE Ws!Return(s, Ws!Finished([r EXCEPT !.req = routed]), "recv")
  BY DEF Ws!RouteFirst
<1> DEFINE n == Ws!NoRequest
<1>n. n \in Ws!Request /\ ~n.open BY <1>0
<1>4. CASE Ws!Return(s, [r EXCEPT !.events = 1, !.req = Ws!NoRequest], IF r.req.prev THEN "recv" ELSE "closing")
  <2> DEFINE x == [r EXCEPT !.events = 1, !.req = n]
             p == IF r.req.prev THEN "recv" ELSE "closing"
  <2>1. Ws!Return(s, x, p) /\ p \in {"recv", "closing", "gone"} BY <1>4
  <2> HIDE DEF n, p, r
  <2>2. /\ x \in Ws!Session /\ x.pinned = r.pinned /\ x.req = n /\ x.events = 1 /\ x.sends = r.sends
        /\ (x.reusable <=> r.reusable)
    BY <1>0, <1>n DEF Ws!Session
  <2> HIDE DEF x
  <2>3. Over(x, s) BY <1>2, <1>n, <2>2 DEF Over, r
  <2> QED BY <1>1, <2>1, <2>3, ReturnStep
<1>5. CASE \E events \in {0, 1} :
             Ws!Set(s, [r EXCEPT !.pc = "closing", !.events = events, !.req = Ws!NoRequest]) /\ leased' = leased
  <2>1. PICK e \in {0, 1} :
          Ws!Set(s, [r EXCEPT !.pc = "closing", !.events = e, !.req = Ws!NoRequest]) /\ leased' = leased
    BY <1>5
  <2> DEFINE x == [r EXCEPT !.pc = "closing", !.events = e, !.req = n]
  <2>2. sess' = [sess EXCEPT ![s] = x] BY <2>1 DEF Ws!Set
  <2> HIDE DEF n, r
  <2>3. /\ x \in Ws!Session /\ x.pinned = r.pinned /\ x.req = n /\ x.events = e /\ x.sends = r.sends
        /\ (x.reusable <=> r.reusable) /\ x.pc = "closing"
    <3>1. e \in Nat /\ "closing" \in Ws!Places BY DEF Ws!Places
    <3> QED BY <1>0, <1>n, <3>1 DEF Ws!Session
  <2> HIDE DEF x
  <2>4. Ws!Progress(x) BY <1>2, <1>n, <2>3 DEF Ws!Progress, Ws!Working
  <2> QED BY <1>1, <1>2, <2>1, <2>2, <2>3, <2>4, MoveStep DEF r
<1>6. ASSUME NEW c \in Ws!Choice(r.req, healthy, pref),
             LET routed == [r.req EXCEPT !.cand = c, !.tried = {c}, !.hit = (c = pref), !.open = TRUE]
             IN  IF Ws!PrevRoutable(r.req.prev, c = pref)
                 THEN Ws!Set(s, [r EXCEPT !.pc = "attempt", !.req = routed]) /\ leased' = leased
                 ELSE Ws!Return(s, Ws!Finished([r EXCEPT !.req = routed]), "recv")
      PROVE  Ws!SocketsInv'
  <2> DEFINE h == (c = pref)
             q == [r.req EXCEPT !.cand = c, !.tried = {c}, !.hit = h, !.open = TRUE]
  <2>1. c \in Chans BY DEF Ws!Choice, Ws!Selectable
  <2>2. h \in BOOLEAN OBVIOUS
  <2>3. \/ Ws!Set(s, [r EXCEPT !.pc = "attempt", !.req = q]) /\ leased' = leased
        \/ Ws!Return(s, Ws!Finished([r EXCEPT !.req = q]), "recv")
    BY <1>6
  <2> HIDE DEF h
  <2>4. q \in Ws!Request /\ q.open /\ q.cand = c
    <3> DEFINE o == r.req
    <3>1. o \in Ws!Request BY <1>0
    <3> HIDE DEF o
    <3>2. LET z == [o EXCEPT !.cand = c, !.tried = {c}, !.hit = h, !.open = TRUE]
          IN  z \in Ws!Request /\ z.open /\ z.cand = c
      BY <2>1, <2>2, <3>1 DEF Ws!Request
    <3> QED BY <3>2 DEF o
  <2> HIDE DEF q, r
  <2>5. CASE Ws!Set(s, [r EXCEPT !.pc = "attempt", !.req = q]) /\ leased' = leased
    <3> DEFINE x == Goes(r, "attempt", q)
    <3>1. sess' = [sess EXCEPT ![s] = x] BY <2>5 DEF Ws!Set, Goes
    <3>2. /\ x \in Ws!Session /\ x.pinned = r.pinned /\ x.req = q /\ x.events = r.events
          /\ x.sends = r.sends /\ (x.reusable <=> r.reusable) /\ x.pc = "attempt"
      BY <1>0, <2>4, GoesIs DEF Ws!Places
    <3> HIDE DEF x
    <3>3. Ws!Progress(x) BY <1>2, <2>1, <2>4, <3>2 DEF Ws!Progress, Ws!Working
    <3> QED BY <1>1, <1>2, <2>5, <3>1, <3>2, <3>3, MoveStep DEF r
  <2>6. CASE Ws!Return(s, Ws!Finished([r EXCEPT !.req = q]), "recv")
    <3> DEFINE x == [r EXCEPT !.req = q]
    <3>1. /\ x \in Ws!Session /\ x.pinned = r.pinned /\ x.events = r.events
          /\ x.sends = r.sends /\ (x.reusable <=> r.reusable)
      BY <1>0, <2>4 DEF Ws!Session
    <3>2. Ws!Return(s, Ws!Finished(x), "recv") BY <2>6
    <3> HIDE DEF x
    <3>3. Over(Ws!Finished(x), s) BY <1>0, <1>2, <3>1, OverFinished DEF r
    <3> QED BY <1>1, <3>2, <3>3, ReturnStep
  <2> QED BY <2>3, <2>5, <2>6
<1> QED BY <1>3, <1>4, <1>5, <1>6

\* Another candidate leaves the request open or not as it was.
LEMMA OntoIs ==
  ASSUME NEW q \in Ws!Request, NEW c \in Chans, NEW n \in Nat
  PROVE  LET z == Ws!Onto(q, c, n)
         IN  z \in Ws!Request /\ (z.open <=> q.open) /\ (z.prev <=> q.prev) /\ z.cand = c
<1>1. q.tried \cup {c} \in SUBSET Chans BY DEF Ws!Request
<1> DEFINE t == q.tried \cup {c}
<1>2. Ws!Onto(q, c, n) = [q EXCEPT !.cand = c, !.tried = t, !.retries = n, !.hit = FALSE]
  BY DEF Ws!Onto
<1> HIDE DEF t
<1>3. LET z == [q EXCEPT !.cand = c, !.tried = t, !.retries = n, !.hit = FALSE]
      IN  z \in Ws!Request /\ (z.open <=> q.open) /\ (z.prev <=> q.prev) /\ z.cand = c
  BY <1>1 DEF Ws!Request, t
<1> QED BY <1>2, <1>3

\* A request that is over returns what it holds.
LEMMA FinishStep ==
  ASSUME Ws!SocketAssumption, Ws!SocketsInv, NEW s \in Links, NEW x \in Ws!Session, Frame(s),
         x.pinned = sess[s].pinned, x.events = 0, x.sends <= 1,
         x.reusable => x.pinned # Ws!NoConn /\ conn'[x.pinned].served /\ ~conn'[x.pinned].busy,
         NEW then \in {"recv", "closing", "gone"}, Ws!Return(s, Ws!Finished(x), then)
  PROVE  Ws!SocketsInv'
<1>1. Ws!SocketTypes BY Known
<1>2. Over(Ws!Finished(x), s) BY <1>1, OverFinished
<1> QED BY <1>2, ReturnStep

\* A failed preparation has nothing pinned and has sent nothing.
LEMMA PrepareFailsKeeps ==
  ASSUME Ws!SocketAssumption, Ws!SocketsInv, NEW s \in Links, Ws!PrepareFails(s)
  PROVE  Ws!SocketsInv'
<1> DEFINE r == sess[s]
<1>0. Ws!SocketTypes /\ r \in Ws!Session /\ Ws!Progress(r) /\ r.pc = "attempt" /\ r.req \in Ws!Request
  BY Known DEF Ws!PrepareFails
<1>1. Frame(s) BY FrameSame DEF Ws!PrepareFails
<1>2. r.pinned = Ws!NoConn /\ ~r.reusable /\ r.events = 0 /\ r.sends = 0 /\ r.req.open
  BY <1>0 DEF Ws!Progress, Ws!Working
<1>3. \/ Ws!Return(s, Ws!Finished(r), "recv")
      \/ Ws!Return(s, Ws!Finished(r), "closing")
      \/ \E c \in Ws!Selectable(r.req, Chans) :
           leased' = leased /\ Ws!Set(s, [r EXCEPT !.req = Ws!Onto(r.req, c, r.req.retries)])
  BY DEF Ws!PrepareFails
<1>4. CASE \/ Ws!Return(s, Ws!Finished(r), "recv") \/ Ws!Return(s, Ws!Finished(r), "closing")
  <2> HIDE DEF r
  <2>1. r.pinned = sess[s].pinned BY DEF r
  <2> QED BY <1>0, <1>1, <1>2, <1>4, <2>1, FinishStep
<1>5. ASSUME NEW c \in Ws!Selectable(r.req, Chans), leased' = leased,
             Ws!Set(s, [r EXCEPT !.req = Ws!Onto(r.req, c, r.req.retries)])
      PROVE  Ws!SocketsInv'
  <2> DEFINE q == Ws!Onto(r.req, c, r.req.retries)
             x == Goes(r, "attempt", q)
  <2>1. c \in Chans /\ r.req.retries \in Nat BY <1>0 DEF Ws!Selectable, Ws!Request
  <2>2. q \in Ws!Request /\ q.open /\ q.cand = c BY <1>0, <1>2, <2>1, OntoIs
  <2>3. sess' = [sess EXCEPT ![s] = [r EXCEPT !.req = q]] BY <1>5 DEF Ws!Set
  <2> HIDE DEF q, r
  <2>4. [r EXCEPT !.req = q] = x BY <1>0 DEF Goes, Ws!Session
  <2>5. /\ x \in Ws!Session /\ x.pinned = r.pinned /\ x.req = q /\ x.events = r.events
        /\ x.sends = r.sends /\ (x.reusable <=> r.reusable) /\ x.pc = "attempt"
    BY <1>0, <2>2, GoesIs DEF Ws!Places
  <2> HIDE DEF x
  <2>6. Ws!Progress(x) BY <1>2, <2>1, <2>2, <2>5 DEF Ws!Progress, Ws!Working
  <2> QED BY <1>1, <1>2, <1>5, <2>3, <2>4, <2>5, <2>6, MoveStep DEF r
<1> QED BY <1>3, <1>4, <1>5

\* leased_connections is a number.
LEMMA LeasedNat ==
  ASSUME Ws!SocketAssumption, Ws!SocketsInv PROVE leased \in Nat
<1>1. IsFiniteSet(Links) /\ Ws!Holders \in SUBSET Links
  BY PoolFinite DEF Ws!SocketAssumption, Ws!Holders
<1>2. Cardinality(Ws!Holders) \in Nat BY <1>1, FS_Subset, FS_CardinalityType
<1> QED BY <1>2, PoolCounts DEF Ws!SocketsInv

\* A connection that is acquired leaves the queue and is in nobody else's hands; the
\* key it was found under is of the session's client, and being idle it has served.
LEMMA TakeKeeps ==
  ASSUME Ws!SocketAssumption, Ws!SocketsInv, NEW s \in Links, NEW i, sess[s].pc = "attempt",
         i = Ws!Acquired(Ws!PinnedKey(sess[s], s)), i # Ws!NoConn,
         pool' = [pool EXCEPT !.idle = Ws!Retained(Ws!Pruned(pool.idle), Ws!Conns \ {i})],
         leased' = leased + 1, sess' = [sess EXCEPT ![s] = Ws!Pinned(sess[s], "send", i)],
         UNCHANGED <<published, conn, phase>>
  PROVE  Ws!SocketsInv'
<1> DEFINE r == sess[s]
           p == Ws!Pruned(pool.idle)
           o == Ws!Retained(p, Ws!Conns \ {i})
<1>0. Ws!SocketTypes /\ Ws!PoolInv /\ r \in Ws!Session /\ Ws!Progress(r) BY Known
<1>1. PICK r2 : r2 = Ws!Pinned(r, "send", i) OBVIOUS
<1>2. Sub(p, pool.idle) /\ pool.cfg \in Configs /\ pool.idle \in Seq(Nat) BY <1>0, PrunedIs
<1>3. i \in Ws!Items(pool.idle) /\ conn[i].key = Ws!PinnedKey(r, s)
  <2>1. i = Ws!Newest(p, Ws!PinnedKey(r, s)) BY DEF Ws!Acquired
  <2>2. p \in Seq(Nat) /\ Ws!Items(p) \subseteq Ws!Items(pool.idle) BY <1>2 DEF Sub
  <2> HIDE DEF p
  <2> QED BY <2>1, <2>2, NewestIs
<1>4. i \in Ws!Conns /\ conn[i].served /\ conn[i].key.client = ClientOf[s]
  <2>1. Ws!PinnedKey(r, s).client = ClientOf[s] BY DEF Ws!PinnedKey, Ws!Key
  <2>2. i \in Ws!Conns /\ conn[i].served BY <1>0, <1>3 DEF Ws!PoolInv, Ws!Idle
  <2> QED BY <1>3, <2>1, <2>2
<1>5. i \in Nat BY <1>0, <1>4 DEF Ws!Conns, Ws!SocketTypes
<1>6. Sub(o, pool.idle) /\ Ws!Items(o) \subseteq Ws!Conns \ {i} BY <1>2, SubIs
<1> HIDE DEF o, p
<1>7. pool'.cfg = pool.cfg /\ pool'.idle = o /\ pool' \in [cfg: Configs, idle: Seq(Nat)]
  BY <1>0, <1>2, <1>6 DEF Ws!SocketTypes, Sub, o, p
<1>8. Ws!PoolInv'
  <2>1. \A j \in Ws!Items(pool.idle) : Alike(j) BY <1>0 DEF Alike, Ws!PoolInv, Ws!Idle, Ws!Conns
  <2> QED BY <1>0, <1>6, <1>7, <2>1, PoolKeeps
<1>9. Ws!SocketTypes' BY <1>0, <1>7 DEF Ws!SocketTypes
<1>10. Ws!Items(pool'.idle) \subseteq Ws!Items(pool.idle) /\ i \notin Ws!Items(pool'.idle)
  BY <1>6, <1>7 DEF Sub
<1>11. /\ r2 \in Ws!Session /\ r2.pinned = i /\ r2.pc = "send" /\ ~r2.reusable
       /\ r2.req = r.req /\ r2.events = r.events /\ r2.sends = r.sends
  <2>1. "send" \in Ws!Places BY DEF Ws!Places
  <2> QED BY <1>0, <1>1, <1>5, <2>1, PinIs
<1>12. Ws!Progress(r2) BY <1>0, <1>11 DEF Ws!Progress, Ws!Working
<1>13. Ws!Pinning(s, r2)' BY <1>4, <1>10, <1>11 DEF Ws!Pinning, Ws!Conns
<1>14. leased' = leased + HeldBy(r2) - HeldBy(sess[s])
  <2>1. leased \in Nat /\ r.pinned = Ws!NoConn BY <1>0, LeasedNat DEF Ws!Progress
  <2> QED BY <1>11, <2>1 DEF HeldBy
<1>15. ASSUME NEW t \in Links, t # s PROVE Aside(t, r2.pinned)
  <2>1. sess[t].pinned # Ws!NoConn => sess[t].pinned \in Ws!Conns /\ sess[t].pinned \notin Ws!Items(pool.idle)
    BY DEF Ws!SocketsInv, Ws!Pinning
  <2> QED BY <1>3, <1>10, <1>11, <2>1 DEF Aside, Ws!Conns
<1> QED BY <1>1, <1>8, <1>9, <1>11, <1>12, <1>13, <1>14, <1>15, SessionStep

\* acquire, with or without an idle connection.
LEMMA AttemptKeeps ==
  ASSUME Ws!SocketAssumption, Ws!SocketsInv, NEW s \in Links, Ws!Attempt(s) PROVE Ws!SocketsInv'
<1> DEFINE r == sess[s]
<1>i. PICK i : i = Ws!Acquired(Ws!PinnedKey(r, s)) OBVIOUS
<1>0. /\ Ws!SocketTypes /\ r \in Ws!Session /\ Ws!Progress(r) /\ r.pc = "attempt"
      /\ UNCHANGED <<published, conn, phase>>
  BY Known DEF Ws!Attempt
<1>2. r.pinned = Ws!NoConn /\ ~r.reusable /\ r.events = 0 /\ r.sends = 0 /\ r.req.open /\ r.req.cand \in Chans
  BY <1>0 DEF Ws!Progress, Ws!Working
<1>3. \/ /\ i # Ws!NoConn /\ leased' = leased + 1
         /\ pool' = [pool EXCEPT !.idle = Ws!Retained(Ws!Pruned(pool.idle), Ws!Conns \ {i})]
         /\ sess' = [sess EXCEPT ![s] = Ws!Pinned(r, "send", i)]
      \/ pool' = [pool EXCEPT !.idle = Ws!Pruned(pool.idle)] /\ Ws!NoPooled(s, r)
  BY <1>i DEF Ws!Attempt, Ws!Set
<1>4. CASE /\ i # Ws!NoConn /\ leased' = leased + 1
           /\ pool' = [pool EXCEPT !.idle = Ws!Retained(Ws!Pruned(pool.idle), Ws!Conns \ {i})]
           /\ sess' = [sess EXCEPT ![s] = Ws!Pinned(r, "send", i)]
  BY <1>0, <1>4, <1>i, TakeKeeps
<1>5. CASE pool' = [pool EXCEPT !.idle = Ws!Pruned(pool.idle)] /\ Ws!NoPooled(s, r)
  <2>1. Frame(s) BY <1>0, <1>5, FramePruned
  <2>2. CASE Ws!Return(s, Ws!Finished(r), "recv")
    <3>1. r.pinned = sess[s].pinned OBVIOUS
    <3> HIDE DEF r
    <3> QED BY <1>0, <1>2, <2>1, <2>2, <3>1, FinishStep
  <2>3. CASE ~r.req.prev /\ sess' = [sess EXCEPT ![s] = [r EXCEPT !.pc = "connect"]] /\ leased' = leased
    <3> DEFINE x == [r EXCEPT !.pc = "connect"]
    <3>1. sess' = [sess EXCEPT ![s] = x] /\ r.pinned = sess[s].pinned BY <2>3
    <3> HIDE DEF r
    <3>2. /\ x \in Ws!Session /\ x.pinned = r.pinned /\ x.req = r.req /\ x.events = r.events
          /\ x.sends = r.sends /\ (x.reusable <=> r.reusable) /\ x.pc = "connect"
      BY <1>0 DEF Ws!Session, Ws!Places
    <3> HIDE DEF x
    <3>3. Ws!Progress(x) BY <1>2, <2>3, <3>2 DEF Ws!Progress, Ws!Working
    <3> QED BY <1>2, <2>1, <2>3, <3>1, <3>2, <3>3, MoveStep
  <2> QED BY <1>5, <2>2, <2>3 DEF Ws!NoPooled, Ws!Set
<1> QED BY <1>3, <1>4, <1>5

\* A new connection is nobody's, and its request has no previous_response_id.
LEMMA ConnectKeeps ==
  ASSUME Ws!SocketAssumption, Ws!SocketsInv, NEW s \in Links, Ws!Connect(s) PROVE Ws!SocketsInv'
<1> DEFINE r == sess[s]
<1>0. /\ Ws!SocketTypes /\ Ws!PoolInv /\ r \in Ws!Session /\ Ws!Progress(r) /\ r.pc = "connect" /\ r.req \in Ws!Request
      /\ UNCHANGED <<published, pool, phase>> /\ leased' = leased + 1
  BY Known DEF Ws!Connect
<1>1. PICK k : k = Ws!Fresh(Ws!PinnedKey(r, s)) OBVIOUS
<1>2. PICK l : l = Len(conn) + 1 OBVIOUS
<1>3. PICK r2 : r2 = Ws!Pinned(r, "send", l) OBVIOUS
<1>4. conn' = Append(conn, k) /\ sess' = [sess EXCEPT ![s] = r2]
  BY <1>1, <1>2, <1>3 DEF Ws!Connect, Ws!Set
<1>5. k \in Ws!Connection /\ k.key.client = ClientOf[s]
  <2> DEFINE d == r.req.cfg.chan[r.req.cand]
             c == r.req.cand
             y == ClientOf[s]
  <2>1. c \in Chans /\ r.req.cfg \in Ws!ConfigSpace
    BY <1>0 DEF Ws!Progress, Ws!Request, Ws!SocketAssumption
  <2>2. d \in Idents \cup {Absent} /\ y \in Clients
    BY <2>1 DEF Ws!ConfigSpace, Ws!SocketAssumption
  <2>3. k = [key |-> [client |-> y, chan |-> c, ident |-> d], busy |-> FALSE, served |-> FALSE, ended |-> FALSE]
    BY <1>1 DEF Ws!Fresh, Ws!PinnedKey, Ws!Key
  <2> HIDE DEF c, d, y
  <2>4. k \in Ws!Connection /\ k.key.client = y BY <2>1, <2>2, <2>3 DEF Ws!Connection, Ws!KeySpace
  <2> QED BY <2>4 DEF y
<1>6. /\ conn' \in Seq(Ws!Connection) /\ Ws!Conns' = 1 .. l /\ l \in Nat /\ l \in Ws!Conns'
      /\ \A j \in Ws!Conns : j \in Ws!Conns' /\ conn'[j] = conn[j] /\ j # l
      /\ conn'[l] = k
  <2>1. conn \in Seq(Ws!Connection) /\ Len(conn) \in Nat BY <1>0 DEF Ws!SocketTypes
  <2>2. /\ conn' \in Seq(Ws!Connection) /\ Len(conn') = l /\ conn'[l] = k
        /\ \A j \in 1..Len(conn) : conn'[j] = conn[j]
    BY <1>2, <1>4, <1>5, <2>1, AppendProperties
  <2>3. l \in Nat /\ l \in 1 .. l /\ \A j \in 1 .. Len(conn) : j \in 1 .. l /\ j # l BY <1>2, <2>1
  <2> QED BY <2>2, <2>3 DEF Ws!Conns
<1>7. Ws!SocketTypes' BY <1>0, <1>6 DEF Ws!SocketTypes
<1>8. Ws!PoolInv' /\ l \notin Ws!Items(pool'.idle)
  <2>1. \A j \in Ws!Items(pool.idle) : j \in Ws!Conns BY <1>0 DEF Ws!PoolInv, Ws!Idle
  <2>2. \A j \in Ws!Items(pool.idle) : Alike(j) BY <1>6, <2>1 DEF Alike
  <2>3. Sub(pool'.idle, pool.idle)
    <3>1. pool.idle \in Seq(Nat) /\ Ws!Distinct(pool.idle) BY <1>0 DEF Ws!SocketTypes, Ws!PoolInv
    <3>2. Len(pool.idle) <= Len(pool.idle) BY <3>1
    <3> QED BY <1>0, <3>1, <3>2 DEF Sub
  <2>4. Ws!PoolInv' BY <1>0, <2>2, <2>3, PoolKeeps
  <2> QED BY <1>0, <1>6, <2>1, <2>4
<1>9. /\ r2 \in Ws!Session /\ r2.pinned = l /\ r2.pc = "send" /\ ~r2.reusable
      /\ r2.req = r.req /\ r2.events = r.events /\ r2.sends = r.sends
  <2>1. "send" \in Ws!Places BY DEF Ws!Places
  <2> QED BY <1>0, <1>3, <1>6, <2>1, PinIs
<1>10. l # Ws!NoConn /\ r.pinned = Ws!NoConn /\ ~r.req.prev
  <2>1. r.pinned = Ws!NoConn /\ ~r.req.prev BY <1>0 DEF Ws!Progress
  <2>2. Len(conn) \in Nat BY <1>0 DEF Ws!SocketTypes
  <2> QED BY <1>2, <2>1, <2>2 DEF Ws!NoConn
<1>11. Ws!Progress(r2) BY <1>0, <1>9, <1>10 DEF Ws!Progress, Ws!Working
<1>12. Ws!Pinning(s, r2)' BY <1>5, <1>6, <1>8, <1>9, <1>10 DEF Ws!Pinning
<1>13. leased' = leased + HeldBy(r2) - HeldBy(sess[s])
  <2>1. leased \in Nat BY LeasedNat
  <2> QED BY <1>0, <1>9, <1>10, <2>1 DEF HeldBy
<1>14. ASSUME NEW t \in Links, t # s PROVE Aside(t, r2.pinned)
  <2>1. sess[t].pinned # Ws!NoConn => sess[t].pinned \in Ws!Conns /\ sess[t].pinned \notin Ws!Items(pool.idle)
    BY DEF Ws!SocketsInv, Ws!Pinning
  <2> QED BY <1>0, <1>6, <1>9, <2>1 DEF Aside
<1> QED BY <1>4, <1>7, <1>8, <1>9, <1>11, <1>12, <1>13, <1>14, SessionStep

\* A request that is cut off closes its session.
LEMMA ClosingStep ==
  ASSUME Ws!SocketAssumption, Ws!SocketsInv, NEW s \in Links, Frame(s), leased' = leased,
         sess[s].pc \in {"connect", "send", "relay"},
         sess' = [sess EXCEPT ![s] = [Ws!Finished(sess[s]) EXCEPT !.pc = "closing"]]
  PROVE  Ws!SocketsInv'
<1> DEFINE r == sess[s]
           f == Ws!Finished(r)
           x == [f EXCEPT !.pc = "closing"]
<1>0. Ws!SocketTypes /\ r \in Ws!Session /\ Ws!Progress(r) /\ r.pc \in {"connect", "send", "relay"}
  BY Known
<1>1. ~r.reusable /\ r.events = 0 /\ r.sends <= 1 BY <1>0 DEF Ws!Progress, Ws!Working
<1>2. /\ f \in Ws!Session /\ ~f.req.open /\ f.pinned = r.pinned /\ (f.reusable <=> r.reusable)
      /\ f.sends = r.sends /\ f.events = r.events + (IF r.req.open THEN 1 ELSE 0)
  BY <1>0, FinishedIs
<1>3. f.events <= 1 BY <1>1, <1>2
<1>4. sess' = [sess EXCEPT ![s] = x] OBVIOUS
<1> HIDE DEF f
<1>5. /\ x \in Ws!Session /\ x.pinned = f.pinned /\ x.req = f.req /\ x.events = f.events
      /\ x.sends = f.sends /\ (x.reusable <=> f.reusable) /\ x.pc = "closing"
  BY <1>2 DEF Ws!Session, Ws!Places
<1> HIDE DEF x
<1>6. Ws!Progress(x) BY <1>1, <1>2, <1>3, <1>5 DEF Ws!Progress, Ws!Working
<1> QED BY <1>1, <1>2, <1>4, <1>5, <1>6, MoveStep

\* A failed handshake closes, or goes on with another candidate.
LEMMA ConnectFailsKeeps ==
  ASSUME Ws!SocketAssumption, Ws!SocketsInv, NEW s \in Links, Ws!ConnectFails(s)
  PROVE  Ws!SocketsInv'
<1> DEFINE r == sess[s]
<1>0. /\ Ws!SocketTypes /\ r \in Ws!Session /\ Ws!Progress(r) /\ r.pc = "connect" /\ r.req \in Ws!Request
      /\ leased' = leased
  BY Known DEF Ws!ConnectFails
<1>1. Frame(s) BY FrameSame DEF Ws!ConnectFails
<1>2. r.pinned = Ws!NoConn /\ ~r.reusable /\ r.events = 0 /\ r.sends = 0 /\ r.req.open
  BY <1>0 DEF Ws!Progress, Ws!Working
<1>3. CASE sess' = [sess EXCEPT ![s] = [Ws!Finished(r) EXCEPT !.pc = "closing"]]
  BY <1>0, <1>1, <1>3, ClosingStep
<1>4. ASSUME NEW c \in Ws!Selectable(r.req, Chans),
             sess' = [sess EXCEPT ![s] = [r EXCEPT !.pc = "attempt",
                                                 !.req = Ws!Onto(r.req, c, r.req.retries + 1)]]
      PROVE  Ws!SocketsInv'
  <2> DEFINE q == Ws!Onto(r.req, c, r.req.retries + 1)
             x == Goes(r, "attempt", q)
  <2>1. c \in Chans /\ r.req.retries + 1 \in Nat BY <1>0 DEF Ws!Selectable, Ws!Request
  <2>2. q \in Ws!Request /\ q.open /\ q.cand = c BY <1>0, <1>2, <2>1, OntoIs
  <2>3. sess' = [sess EXCEPT ![s] = x] BY <1>4 DEF Goes
  <2> HIDE DEF q, r
  <2>5. /\ x \in Ws!Session /\ x.pinned = r.pinned /\ x.req = q /\ x.events = r.events
        /\ x.sends = r.sends /\ (x.reusable <=> r.reusable) /\ x.pc = "attempt"
    BY <1>0, <2>2, GoesIs DEF Ws!Places
  <2> HIDE DEF x
  <2>6. Ws!Progress(x) BY <1>2, <2>1, <2>2, <2>5 DEF Ws!Progress, Ws!Working
  <2> QED BY <1>0, <1>1, <1>2, <2>3, <2>5, <2>6, MoveStep DEF r
<1> QED BY <1>3, <1>4 DEF Ws!ConnectFails, Ws!Set

\* A session's step may change the connection it has pinned, which is not idle.
LEMMA FrameOwn ==
  ASSUME Ws!SocketAssumption, Ws!SocketsInv, UNCHANGED <<published, pool, phase>>, NEW s \in Links,
         sess[s].pinned # Ws!NoConn, NEW k \in Ws!Connection, k.key = conn[sess[s].pinned].key,
         conn' = [conn EXCEPT ![sess[s].pinned] = k]
  PROVE  Frame(s) /\ conn'[sess[s].pinned] = k
<1> DEFINE p == sess[s].pinned
<1>1. Ws!SocketTypes /\ Ws!PoolInv /\ p \in Ws!Conns /\ p \notin Ws!Items(pool.idle)
  BY Known DEF Ws!Pinning
<1>2. conn \in Seq(Ws!Connection) BY <1>1 DEF Ws!SocketTypes
<1> HIDE DEF p
<1>3. /\ conn' \in Seq(Ws!Connection) /\ Len(conn') = Len(conn) /\ conn'[p] = k
      /\ \A j \in 1 .. Len(conn) : j # p => conn'[j] = conn[j]
  BY <1>1, <1>2 DEF Ws!Conns, p
<1>4. Ws!Conns' = Ws!Conns BY <1>3 DEF Ws!Conns
<1>5. Ws!SocketTypes' BY <1>1, <1>3 DEF Ws!SocketTypes
<1>6. \A j \in Ws!Items(pool.idle) : Alike(j)
  BY <1>1, <1>3, <1>4 DEF Alike, Ws!PoolInv, Ws!Idle, Ws!Conns
<1>7. Sub(pool'.idle, pool.idle)
  <2>1. pool.idle \in Seq(Nat) /\ Ws!Distinct(pool.idle) BY <1>1 DEF Ws!SocketTypes, Ws!PoolInv
  <2>2. Len(pool.idle) <= Len(pool.idle) BY <2>1
  <2> QED BY <2>1, <2>2 DEF Sub
<1>8. Ws!PoolInv' BY <1>1, <1>6, <1>7, PoolKeeps
<1>9. \A i \in Ws!Conns : i \in Ws!Conns' /\ conn'[i].key = conn[i].key /\ (i # p => conn'[i] = conn[i])
  BY <1>3, <1>4 DEF Ws!Conns, p
<1> QED BY <1>3, <1>5, <1>8, <1>9 DEF Frame, p

\* The request is written once: it is marked before the outcome is known.
LEMMA SendKeeps ==
  ASSUME Ws!SocketAssumption, Ws!SocketsInv, NEW s \in Links, Ws!Send(s) PROVE Ws!SocketsInv'
<1> DEFINE r == sess[s]
           p == r.pinned
           n == r.sends + 1
           sent == [r EXCEPT !.sends = n]
<1>0. /\ Ws!SocketTypes /\ r \in Ws!Session /\ Ws!Progress(r) /\ Ws!Pinning(s, r) /\ r.pc = "send"
      /\ UNCHANGED <<published, pool, phase>>
  BY Known DEF Ws!Send
<1>1. /\ p # Ws!NoConn /\ ~r.reusable /\ r.events = 0 /\ r.sends = 0 /\ r.req.open /\ r.req.cand \in Chans
  BY <1>0 DEF Ws!Progress, Ws!Working
<1>2. PICK k : k = [conn[p] EXCEPT !.busy = TRUE] OBVIOUS
<1>3. conn' = [conn EXCEPT ![p] = k] BY <1>2 DEF Ws!Send
<1>4. p \in Ws!Conns /\ conn[p] \in Ws!Connection /\ (r.req.prev => conn[p].served)
  BY <1>0, <1>1 DEF Ws!Pinning, Ws!Conns, Ws!SocketTypes
<1>5. k \in Ws!Connection /\ k.key = conn[p].key /\ (k.served <=> conn[p].served)
  BY <1>2, <1>4 DEF Ws!Connection
<1>6. Frame(s) /\ conn'[p] = k BY <1>0, <1>1, <1>3, <1>5, FrameOwn
<1>7. n \in Nat /\ n = 1 BY <1>1
<1>8. r.pinned = sess[s].pinned OBVIOUS
<1>9. \/ sess' = [sess EXCEPT ![s] = [sent EXCEPT !.pc = "relay"]] /\ leased' = leased
      \/ Ws!Return(s, Ws!Finished(sent), "gone")
  BY DEF Ws!Send, Ws!Set
<1> HIDE DEF r, n
<1>10. /\ sent \in Ws!Session /\ sent.pinned = r.pinned /\ sent.req = r.req /\ sent.events = r.events
       /\ sent.sends = n /\ (sent.reusable <=> r.reusable)
  BY <1>0, <1>7 DEF Ws!Session
<1> HIDE DEF sent
<1>11. CASE sess' = [sess EXCEPT ![s] = [sent EXCEPT !.pc = "relay"]] /\ leased' = leased
  <2> DEFINE x == [sent EXCEPT !.pc = "relay"]
  <2>1. /\ x \in Ws!Session /\ x.pinned = sent.pinned /\ x.req = sent.req /\ x.events = sent.events
        /\ x.sends = sent.sends /\ (x.reusable <=> sent.reusable) /\ x.pc = "relay"
    BY <1>10 DEF Ws!Session, Ws!Places
  <2>2. sess' = [sess EXCEPT ![s] = x] BY <1>11
  <2> HIDE DEF x
  <2>3. Ws!Progress(x) BY <1>1, <1>7, <1>10, <2>1 DEF Ws!Progress, Ws!Working
  <2>4. leased' = leased + HeldBy(x) - HeldBy(sess[s])
    <3>1. leased \in Nat BY LeasedNat
    <3> QED BY <1>8, <1>10, <1>11, <2>1, <3>1 DEF HeldBy
  <2> QED BY <1>1, <1>4, <1>5, <1>6, <1>8, <1>10, <2>1, <2>2, <2>3, <2>4, FrameStep
<1>12. CASE Ws!Return(s, Ws!Finished(sent), "gone")
  BY <1>1, <1>6, <1>7, <1>8, <1>10, <1>12, FinishStep
<1> QED BY <1>9, <1>11, <1>12

\* Only a completed response makes its connection reusable.
LEMMA TerminalKeeps ==
  ASSUME Ws!SocketAssumption, Ws!SocketsInv, NEW s \in Links, Ws!Terminal(s) PROVE Ws!SocketsInv'
<1> DEFINE r == sess[s]
           p == r.pinned
<1>0. /\ Ws!SocketTypes /\ r \in Ws!Session /\ Ws!Progress(r) /\ Ws!Pinning(s, r) /\ r.pc = "relay"
      /\ UNCHANGED <<published, pool, phase>>
  BY Known DEF Ws!Terminal
<1>1. p # Ws!NoConn /\ r.events = 0 /\ r.sends <= 1 BY <1>0 DEF Ws!Progress, Ws!Working
<1>2. PICK t \in {"completed", "failed", "stateLost"} :
        /\ conn' = IF t = "completed" THEN [conn EXCEPT ![p] = Ws!Completed(conn[p])] ELSE conn
        /\ Ws!Return(s, Ws!Finished([r EXCEPT !.reusable = Ws!Reusable(t)]), "recv")
  BY DEF Ws!Terminal
<1>3. PICK k : k = Ws!Completed(conn[p]) OBVIOUS
<1>4. p \in Ws!Conns /\ conn[p] \in Ws!Connection
  BY <1>0, <1>1 DEF Ws!Pinning, Ws!Conns, Ws!SocketTypes
<1>5. k \in Ws!Connection /\ k.key = conn[p].key /\ k.served /\ ~k.busy
  BY <1>3, <1>4 DEF Ws!Connection, Ws!Completed
<1>6. Frame(s) /\ (t = "completed" => conn'[p] = k)
  <2>1. CASE t = "completed"
    <3>1. conn' = [conn EXCEPT ![p] = k] BY <1>2, <1>3, <2>1
    <3> QED BY <1>0, <1>1, <1>5, <3>1, FrameOwn
  <2>2. CASE t # "completed" BY <1>0, <1>2, <2>2, FrameSame
  <2> QED BY <2>1, <2>2
<1> DEFINE u == Ws!Reusable(t)
           x == [r EXCEPT !.reusable = u]
<1>7. u \in BOOLEAN /\ (u => t = "completed") /\ Ws!Return(s, Ws!Finished(x), "recv") /\ r.pinned = sess[s].pinned
  BY <1>2 DEF Ws!Reusable
<1> HIDE DEF u, r
<1>8. /\ x \in Ws!Session /\ x.pinned = r.pinned /\ x.events = r.events /\ x.sends = r.sends
      /\ (x.reusable <=> u)
  BY <1>0, <1>7 DEF Ws!Session
<1> HIDE DEF x
<1> QED BY <1>1, <1>5, <1>6, <1>7, <1>8, FinishStep

\* A connection whose relay broke is not reusable.
LEMMA RelayBreaksKeeps ==
  ASSUME Ws!SocketAssumption, Ws!SocketsInv, NEW s \in Links, Ws!RelayBreaks(s)
  PROVE  Ws!SocketsInv'
<1> DEFINE r == sess[s]
           x == [r EXCEPT !.reusable = FALSE]
<1>0. r \in Ws!Session /\ Ws!Progress(r) /\ r.pc = "relay" /\ Ws!Return(s, Ws!Finished(x), "gone")
  BY Known DEF Ws!RelayBreaks
<1>1. Frame(s) BY FrameSame DEF Ws!RelayBreaks
<1>2. r.events = 0 /\ r.sends <= 1 /\ r.pinned = sess[s].pinned
  BY <1>0 DEF Ws!Progress, Ws!Working
<1> HIDE DEF r
<1>3. /\ x \in Ws!Session /\ x.pinned = r.pinned /\ x.events = r.events /\ x.sends = r.sends
      /\ ~x.reusable
  BY <1>0 DEF Ws!Session
<1> HIDE DEF x
<1> QED BY <1>0, <1>1, <1>2, <1>3, FinishStep

\* force_requested drops the future and leaves what is pinned to Leave.
LEMMA ForceKeeps ==
  ASSUME Ws!SocketAssumption, Ws!SocketsInv, NEW s \in Links, Ws!Force(s) PROVE Ws!SocketsInv'
<1>1. Frame(s) BY FrameSame DEF Ws!Force
<1> QED BY <1>1, ClosingStep DEF Ws!Force, Ws!Set

\* Nothing is open when a session leaves.
LEMMA LeaveKeeps ==
  ASSUME Ws!SocketAssumption, Ws!SocketsInv, NEW s \in Links, Ws!Leave(s) PROVE Ws!SocketsInv'
<1> DEFINE r == sess[s]
<1>0. r \in Ws!Session /\ Ws!Progress(r) /\ r.pc \in {"closing", "recv"} /\ Ws!Return(s, r, "gone")
  BY Known DEF Ws!Leave
<1>1. Frame(s) BY FrameSame DEF Ws!Leave
<1>2. Over(r, s) BY <1>0 DEF Over, Ws!Progress, Ws!Working
<1> QED BY <1>0, <1>1, <1>2, ReturnStep

--------------------
\* What no session does leaves its connections as they are.
LEMMA QuietStep ==
  ASSUME Ws!SocketsInv, UNCHANGED <<leased, sess>>, Ws!SocketTypes', Ws!PoolInv',
         Ws!Items(pool'.idle) \subseteq Ws!Items(pool.idle), \A i \in Ws!Conns : Alike(i)
  PROVE  Ws!SocketsInv'
<1>1. ASSUME NEW s \in Links PROVE Ws!Progress(sess'[s]) /\ Ws!Pinning(s, sess[s])'
  <2>1. Ws!Progress(sess[s]) /\ Ws!Pinning(s, sess[s]) /\ sess'[s] = sess[s] BY DEF Ws!SocketsInv
  <2> QED BY <2>1 DEF Ws!Pinning, Alike
<1>2. Ws!Holders' = Ws!Holders BY DEF Ws!Holders
<1>3. /\ sess' \in [Links -> Ws!Session] /\ \A s, t \in Ws!Holders' : sess'[s].pinned = sess'[t].pinned => s = t
      /\ leased' = Cardinality(Ws!Holders')
  BY <1>2, PoolCounts DEF Ws!SocketsInv
<1> QED BY <1>1, <1>3, PoolCounts DEF Ws!SocketsInv

\* A part of the idle connections under the same configuration.
LEMMA FewerIdle ==
  ASSUME Ws!SocketAssumption, Ws!SocketsInv, UNCHANGED <<published, conn, phase, leased, sess>>,
         NEW q, Sub(q, pool.idle), pool' = [pool EXCEPT !.idle = q]
  PROVE  Ws!SocketsInv'
<1>1. Ws!SocketTypes /\ Ws!PoolInv BY DEF Ws!SocketsInv
<1>2. pool'.cfg = pool.cfg /\ pool'.idle = q /\ pool' \in [cfg: Configs, idle: Seq(Nat)]
  BY <1>1 DEF Ws!SocketTypes, Sub
<1>3. \A i \in Ws!Conns : Alike(i) BY DEF Alike, Ws!Conns
<1>4. \A i \in Ws!Items(pool.idle) : i \in Ws!Conns BY <1>1 DEF Ws!PoolInv, Ws!Idle
<1>5. Ws!PoolInv' BY <1>1, <1>2, <1>3, <1>4, PoolKeeps
<1>6. Ws!SocketTypes' /\ Ws!Items(pool'.idle) \subseteq Ws!Items(pool.idle)
  BY <1>1, <1>2 DEF Ws!SocketTypes, Sub
<1> QED BY <1>3, <1>5, <1>6, QuietStep

\* The reaper drops idle connections.
LEMMA ReapKeeps ==
  ASSUME Ws!SocketAssumption, Ws!SocketsInv, Ws!Reap PROVE Ws!SocketsInv'
<1> DEFINE q == Ws!Trimmed(Ws!Pruned(pool.idle), pool.cfg.max)
<1>1. Ws!SocketTypes /\ Ws!PoolInv BY DEF Ws!SocketsInv
<1>2. Sub(Ws!Pruned(pool.idle), pool.idle) /\ pool.cfg \in Configs /\ pool.idle \in Seq(Nat)
  BY <1>1, PrunedIs
<1>3. pool.cfg.max \in Nat BY <1>2 DEF Ws!SocketAssumption, Ws!ConfigSpace
<1>4. Sub(q, pool.idle) BY <1>2, <1>3, SubTrim
<1>5. pool' = [pool EXCEPT !.idle = q] /\ UNCHANGED <<published, conn, phase, leased, sess>>
  BY DEF Ws!Reap
<1> HIDE DEF q
<1> QED BY <1>4, <1>5, FewerIdle

\* So does clear_websockets.
LEMMA ClearPoolKeeps ==
  ASSUME Ws!SocketAssumption, Ws!SocketsInv, Ws!ClearPool PROVE Ws!SocketsInv'
<1>1. Ws!SocketTypes BY DEF Ws!SocketsInv
<1>2. Sub(<<>>, pool.idle)
  <2>1. <<>> \in Seq(Nat) /\ Len(<<>>) = 0 /\ Ws!Items(<<>>) = {} /\ Ws!Distinct(<<>>)
    BY DEF Ws!Items, Ws!Distinct
  <2>2. Len(pool.idle) \in Nat BY <1>1 DEF Ws!SocketTypes
  <2> QED BY <2>1, <2>2 DEF Sub
<1>3. pool' = [pool EXCEPT !.idle = <<>>] /\ UNCHANGED <<published, conn, phase, leased, sess>>
  BY DEF Ws!ClearPool
<1> QED BY <1>2, <1>3, FewerIdle

\* reconcile drops what the new configuration no longer permits.
LEMMA PoolReconciled ==
  ASSUME Ws!SocketAssumption, Ws!SocketsInv, Ws!Reconcile PROVE Ws!SocketsInv'
<1>0. Ws!SocketTypes /\ Ws!PoolInv BY DEF Ws!SocketsInv
<1>1. PICK cfg \in Configs : pool' = [cfg |-> cfg, idle |-> Ws!Reconciled(cfg)]
  BY DEF Ws!Reconcile
<1>2. UNCHANGED <<published, leased, conn, phase, sess>> BY DEF Ws!Reconcile
<1> DEFINE S == {i \in Ws!Conns : cfg.on /\ Ws!Permits(cfg, conn[i].key)}
           o == Ws!Retained(Ws!Pruned(pool.idle), S)
           q == Ws!Reconciled(cfg)
<1>3. Sub(Ws!Pruned(pool.idle), pool.idle) /\ pool.idle \in Seq(Nat) BY <1>0, PrunedIs
<1>4. Sub(o, pool.idle) /\ Ws!Items(o) \subseteq S
  <2> HIDE DEF S
  <2> QED BY <1>3, SubIs
<1>5. cfg.max \in Nat BY DEF Ws!SocketAssumption, Ws!ConfigSpace
<1>6. q = Ws!Trimmed(o, cfg.max) BY DEF Ws!Reconciled
<1> HIDE DEF o
<1>7. Sub(q, pool.idle) /\ Len(q) <= cfg.max /\ Ws!Items(q) \subseteq S
  <2> HIDE DEF S, q
  <2> QED BY <1>3, <1>4, <1>5, <1>6, SubTrim
<1> HIDE DEF q
<1>8. pool'.cfg = cfg /\ pool'.idle = q /\ pool' \in [cfg: Configs, idle: Seq(Nat)]
  BY <1>1, <1>7 DEF Sub, q
<1>9. \A i \in Ws!Items(q) : Ws!Idle(i)'
  BY <1>0, <1>2, <1>7, <1>8 DEF Ws!Idle, Sub, Ws!PoolInv, Ws!Conns, Ws!Permits
<1>10. \A i, j \in Ws!Items(q) : conn'[i].key = conn'[j].key => i = j
  BY <1>0, <1>2, <1>7 DEF Sub, Ws!PoolInv
<1>11. Ws!PoolInv' BY <1>7, <1>8, <1>9, <1>10 DEF Ws!PoolInv, Sub
<1>12. Ws!SocketTypes' /\ Ws!Items(pool'.idle) \subseteq Ws!Items(pool.idle)
  BY <1>0, <1>2, <1>7, <1>8 DEF Ws!SocketTypes, Sub
<1>13. \A i \in Ws!Conns : Alike(i) BY <1>2 DEF Alike, Ws!Conns
<1> QED BY <1>2, <1>11, <1>12, <1>13, QuietStep

\* A connection that ends stays where it is until somebody looks.
LEMMA ConnEndsKeeps ==
  ASSUME Ws!SocketAssumption, Ws!SocketsInv, NEW i \in Ws!Conns, Ws!ConnEnds(i)
  PROVE  Ws!SocketsInv'
<1>0. Ws!SocketTypes /\ Ws!PoolInv /\ UNCHANGED <<published, pool, phase, leased, sess>>
  BY DEF Ws!SocketsInv, Ws!ConnEnds
<1>1. PICK k : k = [conn[i] EXCEPT !.ended = TRUE] OBVIOUS
<1>2. conn' = [conn EXCEPT ![i] = k] BY <1>1 DEF Ws!ConnEnds
<1>3. conn \in Seq(Ws!Connection) /\ conn[i] \in Ws!Connection
  BY <1>0 DEF Ws!SocketTypes, Ws!Conns
<1>4. k \in Ws!Connection /\ k.key = conn[i].key /\ k.busy = conn[i].busy /\ k.served = conn[i].served
  BY <1>1, <1>3 DEF Ws!Connection
<1>5. /\ conn' \in Seq(Ws!Connection) /\ Len(conn') = Len(conn) /\ conn'[i] = k
      /\ \A j \in 1 .. Len(conn) : j # i => conn'[j] = conn[j]
  BY <1>2, <1>3, <1>4 DEF Ws!Conns
<1>6. \A j \in Ws!Conns : Alike(j) BY <1>4, <1>5 DEF Alike, Ws!Conns
<1>7. Ws!SocketTypes' BY <1>0, <1>5 DEF Ws!SocketTypes
<1>8. Ws!PoolInv' /\ Ws!Items(pool'.idle) \subseteq Ws!Items(pool.idle)
  <2>1. \A j \in Ws!Items(pool.idle) : j \in Ws!Conns BY <1>0 DEF Ws!PoolInv, Ws!Idle
  <2>2. pool.idle \in Seq(Nat) /\ Ws!Distinct(pool.idle) BY <1>0 DEF Ws!SocketTypes, Ws!PoolInv
  <2>3. Len(pool.idle) <= Len(pool.idle) BY <2>2
  <2>4. Sub(pool'.idle, pool.idle) BY <1>0, <2>2, <2>3 DEF Sub
  <2> QED BY <1>0, <1>6, <2>1, <2>4, PoolKeeps
<1> QED BY <1>0, <1>6, <1>7, <1>8, QuietStep

\* Snapshot and phase may be replaced at any time.
LEMMA PhaseKeeps ==
  ASSUME Ws!SocketsInv, UNCHANGED <<pool, conn, leased, sess>>,
         published' \in Configs, phase' \in {"running", "draining", "forceClosing"}
  PROVE  Ws!SocketsInv'
<1>1. Ws!SocketTypes /\ Ws!PoolInv BY DEF Ws!SocketsInv
<1>2. Ws!SocketTypes' BY <1>1 DEF Ws!SocketTypes
<1>3. Ws!PoolInv' /\ Ws!Items(pool'.idle) \subseteq Ws!Items(pool.idle)
  BY <1>1 DEF Ws!PoolInv, Ws!Idle, Ws!Conns, Ws!Permits
<1>4. \A i \in Ws!Conns : Alike(i) BY DEF Alike, Ws!Conns
<1> QED BY <1>2, <1>3, <1>4, QuietStep

\* An empty pool is sound.
LEMMA SocketsInit ==
  ASSUME Ws!SocketAssumption, Ws!Init PROVE Ws!SocketsInv
<1>1. Ws!SocketTypes BY DEF Ws!Init, Ws!SocketTypes
<1>2. pool.idle = <<>> BY DEF Ws!Init
<1>3. Ws!PoolInv
  <2>1. Len(<<>>) = 0 /\ Ws!Items(<<>>) = {} /\ Ws!Distinct(<<>>) BY DEF Ws!Items, Ws!Distinct
  <2>2. pool.cfg \in Configs BY <1>1 DEF Ws!SocketTypes
  <2>3. pool.cfg.max \in Nat BY <2>2 DEF Ws!SocketAssumption, Ws!ConfigSpace
  <2> QED BY <1>2, <2>1, <2>3 DEF Ws!PoolInv
<1> DEFINE n == Ws!NoRequest
           z == [pc |-> "recv", next |-> "recv", msgs |-> 0, pinned |-> Ws!NoConn, reusable |-> FALSE,
                 events |-> 0, sends |-> 0, req |-> n]
<1>4. n \in Ws!Request /\ ~n.open BY <1>1, NoRequestIs
<1>5. sess = [s \in Links |-> z] BY DEF Ws!Init
<1> HIDE DEF n
<1>6. z \in Ws!Session BY <1>4 DEF Ws!Session, Ws!Places, Ws!NoConn
<1>7. Ws!Progress(z) BY <1>4 DEF Ws!Progress, Ws!Working
<1>8. z.pinned = Ws!NoConn OBVIOUS
<1> HIDE DEF z
<1>9. sess \in [Links -> Ws!Session] /\ \A s \in Links : sess[s] = z BY <1>5, <1>6
<1>10. Ws!Holders = {} BY <1>8, <1>9 DEF Ws!Holders
<1>11. leased = Cardinality(Ws!Holders) BY <1>10, FS_EmptySet, PoolCounts DEF Ws!Init
<1> QED BY <1>1, <1>3, <1>7, <1>8, <1>9, <1>10, <1>11, PoolCounts DEF Ws!SocketsInv, Ws!Pinning

\* The pool holds each connection once, completed and permitted, what a session has
\* pinned is its own and good for its request, and a request has sent and recorded
\* what its place says.
THEOREM SocketsInvariant == Ws!SocketAssumption /\ Ws!Spec => []Ws!SocketsInv
<1> SUFFICES ASSUME Ws!SocketAssumption PROVE Ws!Spec => []Ws!SocketsInv OBVIOUS
<1>1. Ws!Init => Ws!SocketsInv BY SocketsInit
<1>2. Ws!SocketsInv /\ [Ws!Next]_(Ws!vars) => Ws!SocketsInv'
  <2> SUFFICES ASSUME Ws!SocketsInv, [Ws!Next]_(Ws!vars) PROVE Ws!SocketsInv' OBVIOUS
  <2>t. Ws!SocketTypes BY DEF Ws!SocketsInv
  <2>1. CASE Ws!Reconcile BY <2>1, PoolReconciled
  <2>2. CASE Ws!ReplaceSnapshot
    <3>1. published' \in Configs /\ UNCHANGED <<pool, conn, leased, sess, phase>>
      BY <2>2, <2>t DEF Ws!ReplaceSnapshot, Ws!SocketTypes
    <3> QED BY <2>t, <3>1, PhaseKeeps DEF Ws!SocketTypes
  <2>3. CASE Ws!Reap BY <2>3, ReapKeeps
  <2>4. CASE Ws!BeginDraining \/ Ws!ForceClose
    <3>1. /\ phase' \in {"running", "draining", "forceClosing"}
          /\ UNCHANGED <<pool, conn, leased, sess, published>>
      BY <2>4 DEF Ws!BeginDraining, Ws!ForceClose
    <3> QED BY <2>t, <3>1, PhaseKeeps DEF Ws!SocketTypes
  <2>5. CASE Ws!ClearPool BY <2>5, ClearPoolKeeps
  <2>6. ASSUME NEW i \in Ws!Conns, Ws!ConnEnds(i) PROVE Ws!SocketsInv' BY <2>6, ConnEndsKeeps
  <2>7. ASSUME NEW s \in Links,
               \/ Ws!ReleaseToPool(s) \/ Ws!Receive(s) \/ Ws!RouteFirst(s) \/ Ws!PrepareFails(s) \/ Ws!Attempt(s)
               \/ Ws!Connect(s) \/ Ws!ConnectFails(s) \/ Ws!Send(s) \/ Ws!Terminal(s) \/ Ws!RelayBreaks(s)
               \/ Ws!Force(s) \/ Ws!Leave(s)
        PROVE  Ws!SocketsInv'
    BY <2>7, ReleaseToPoolKeeps, ReceiveKeeps, RouteFirstKeeps, PrepareFailsKeeps, AttemptKeeps,
      ConnectKeeps, ConnectFailsKeeps, SendKeeps, TerminalKeeps, RelayBreaksKeeps, ForceKeeps,
      LeaveKeeps
  <2>8. CASE UNCHANGED Ws!vars BY <2>t, <2>8, PhaseKeeps DEF Ws!vars, Ws!SocketTypes
  <2> QED BY <2>1, <2>2, <2>3, <2>4, <2>5, <2>6, <2>7, <2>8 DEF Ws!Next
<1> QED BY <1>1, <1>2, PTL DEF Ws!Spec

\* For any sessions, clients, channels, configurations and interleaving of sessions with
\* reloads, the reaper and a shutdown: the pool holds only what its configuration
\* permits, one connection per key within its capacity and none with an unfinished
\* response; leased_connections is exact and no connection is in two hands; a
\* previous_response_id travels only over a connection that served the same client; and
\* a request is written once and recorded once (UpstreamWebSocketPool::acquire, release
\* and reconcile, ResponsesWebSocketSession::forward_response_create).
THEOREM SocketsAlwaysSound == Ws!SocketAssumption /\ Ws!Spec => []Ws!SocketsSound
<1> SUFFICES ASSUME Ws!SocketAssumption PROVE Ws!Spec => []Ws!SocketsSound OBVIOUS
<1>1. Ws!SocketsInv => Ws!SocketsSound
  <2> SUFFICES ASSUME Ws!SocketsInv PROVE Ws!SocketsSound OBVIOUS
  <2>0. /\ Ws!SocketTypes /\ Ws!PoolInv /\ sess \in [Links -> Ws!Session]
        /\ \A n \in 1 .. Len(pool.idle) : pool.idle[n] \in Ws!Items(pool.idle)
    BY DEF Ws!SocketsInv, Ws!Items
  <2>1. Ws!PoolCurrent BY <2>0 DEF Ws!PoolCurrent, Ws!PoolInv, Ws!Idle, Ws!Permits
  <2>2. Ws!OnePerKey
    <3> SUFFICES ASSUME NEW m \in 1 .. Len(pool.idle), NEW n \in 1 .. Len(pool.idle),
                        conn[pool.idle[m]].key = conn[pool.idle[n]].key
                 PROVE  m = n
      BY DEF Ws!OnePerKey
    <3>1. pool.idle[m] = pool.idle[n] BY <2>0 DEF Ws!PoolInv
    <3> QED BY <2>0, <3>1 DEF Ws!PoolInv, Ws!Distinct
  <2>3. Ws!LeasedExact
    <3>1. leased = Cardinality({s \in Links : sess[s].pinned # Ws!NoConn})
      BY PoolCounts DEF Ws!SocketsInv, Ws!Holders
    <3>2. \A s, t \in Links : sess[s].pinned # Ws!NoConn /\ s # t => sess[s].pinned # sess[t].pinned
      BY DEF Ws!SocketsInv, Ws!Holders
    <3>3. ASSUME NEW s \in Links, NEW n \in 1 .. Len(pool.idle) PROVE pool.idle[n] # sess[s].pinned
      <4>1. CASE sess[s].pinned = Ws!NoConn
        <5>1. pool.idle[n] \in Ws!Conns BY <2>0 DEF Ws!PoolInv, Ws!Idle
        <5>2. Len(conn) \in Nat BY <2>0 DEF Ws!SocketTypes
        <5> QED BY <4>1, <5>1, <5>2 DEF Ws!Conns, Ws!NoConn
      <4>2. CASE sess[s].pinned # Ws!NoConn BY <2>0, <4>2 DEF Ws!SocketsInv, Ws!Pinning
      <4> QED BY <4>1, <4>2
    <3> QED BY <3>1, <3>2, <3>3, PoolCounts DEF Ws!LeasedExact
  <2>4. Ws!IdleQuiet BY <2>0 DEF Ws!IdleQuiet, Ws!PoolInv, Ws!Idle
  <2>5. Ws!StateStaysHome
    <3> SUFFICES ASSUME NEW s \in Links, sess[s].pc \in {"send", "relay"}
                 PROVE  LET k == conn[sess[s].pinned]
                        IN  k.key.client = ClientOf[s] /\ (sess[s].req.prev => k.served)
      BY DEF Ws!StateStaysHome
    <3>1. Ws!Progress(sess[s]) /\ Ws!Pinning(s, sess[s]) BY DEF Ws!SocketsInv
    <3>2. sess[s].pinned # Ws!NoConn BY <3>1 DEF Ws!Progress
    <3> QED BY <3>1, <3>2 DEF Ws!Pinning
  <2>6. Ws!SentOnce BY DEF Ws!SocketsInv, Ws!SentOnce, Ws!Progress, Ws!Working
  <2>7. Ws!NothingPinnedBetween BY DEF Ws!SocketsInv, Ws!NothingPinnedBetween, Ws!Progress
  <2> QED BY <2>1, <2>2, <2>3, <2>4, <2>5, <2>6, <2>7 DEF Ws!SocketsSound
<1>2. Ws!Spec => []Ws!SocketsInv BY SocketsInvariant
<1> QED BY <1>1, <1>2, PTL
=============================================================================
