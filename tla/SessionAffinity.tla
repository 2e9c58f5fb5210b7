--------------------------- MODULE SessionAffinity ---------------------------
\* The process-local session affinity cache of src/routing/mod.rs: which
\* candidate served a session last, kept per affinity rule and session,
\* with an expiry, a bound on the entries and a queue that orders them by
\* the generation in which they were stored.
\*
\* Every operation is one critical section of the affinity mutex.  Between
\* looking its session up and reporting its outcome a request selects a
\* candidate (module ChannelSelection) and waits for the upstream, while
\* other requests of the session, reloads and administrators change the
\* cache.  The clock is read before the mutex is taken; the model reads it
\* in the same step.
EXTENDS Naturals, Sequences, FiniteSets, FiniteSetsExt

CONSTANTS
  Requests,      \* threads
  Rules,         \* affinity rules, by fingerprint
  Sessions,      \* session hashes, with the API key and the model rule
  Candidates,    \* what a session can be bound to
  None,          \* no candidate
  Caps,          \* max_entries an administrator may set
  Ttl,           \* seconds a binding lives
  CompactSlack,  \* 1024 in the code: superseded queue items that are kept
  MaxTime, MaxStores, MaxReloads   \* bounds

AffinityAssumption ==
  /\ None \notin Candidates /\ Caps \subseteq Nat
  /\ \E m \in Caps : \A c \in Caps : c <= m
  /\ Ttl \in Nat \ {0} /\ CompactSlack \in Nat

Keys == Rules \X Sessions

VARIABLES
  now,
  enabled, cap, rules,   \* settings of the snapshot: active_rules
  entries,               \* key -> [cand, until, gen]
  recency,               \* queue of <<key, generation>>
  generation,            \* next_generation
  pc, key, preferred,    \* of a request: its session and the lookup's answer
  keep,                  \* preserve_inapplicable_affinity
  bound,                 \* the candidate its lease will report, or None
  hit,                   \* which it took from the cache
  reloads

cache == <<entries, recency, generation>>
settings == <<enabled, cap, rules>>
lease == <<key, preferred, keep, bound, hit>>
vars == <<now, enabled, cap, rules, entries, recency, generation, pc, key,
          preferred, keep, bound, hit, reloads>>

NoKey == <<None, None>>

Init ==
  /\ now = 0 /\ enabled = TRUE /\ cap = Max(Caps) /\ rules = Rules
  /\ entries = <<>> /\ recency = <<>> /\ generation = 0
  /\ pc = [r \in Requests |-> "idle"] /\ key = [r \in Requests |-> NoKey]
  /\ preferred = [r \in Requests |-> None]
  /\ bound = [r \in Requests |-> None]
  /\ keep = [r \in Requests |-> FALSE] /\ hit = [r \in Requests |-> FALSE]
  /\ reloads = 0

--------------------
Without(es, S) == [k \in DOMAIN es \ S |-> es[k]]

\* rebuild_affinity_recency: one item per entry, by generation.
Rank(es, k) == Cardinality({j \in DOMAIN es : es[j].gen <= es[k].gen})
Ranked(es, i) == CHOOSE k \in DOMAIN es : Rank(es, k) = i
Rebuilt(es) ==
  [i \in 1..Cardinality(DOMAIN es) |-> <<Ranked(es, i), es[Ranked(es, i)].gen>>]

\* Mutant of Compact: superseded generations stay queued.
CompactNever(es, q) == q

\* compact_affinity_recency
Compact(es, q) ==
  IF Len(q) <= 4 * Cardinality(DOMAIN es) + CompactSlack THEN q
  ELSE Rebuilt(es)

\* trim_affinity_state: items leave the front of the queue, each with its
\* entry unless that was stored again, until the entries fit; an empty queue
\* leaves arbitrary ones to go.  The set of possible results.
Left(es, q, n) ==
  Without(es, {k \in DOMAIN es : \E i \in 1..n : q[i] = <<k, es[k].gen>>})
Fits(es, m) == Cardinality(DOMAIN es) <= m

Trim(es, q, m) ==
  LET enough == {n \in 0..Len(q) : Fits(Left(es, q, n), m)}
      n == IF enough = {} THEN Len(q) ELSE Min(enough)
      left == Left(es, q, n)
  IN {[es |-> e, q |-> SubSeq(q, n + 1, Len(q))] :
        e \in IF Fits(left, m) THEN {left}
              ELSE {[k \in S |-> left[k]] : S \in kSubset(m, DOMAIN left)}}

\* prune_expired_affinity
Current(es) ==
  Without(es, {k \in DOMAIN es : k[1] \notin rules \/ es[k].until <= now})

Prune ==
  /\ Current(entries) # entries
  /\ entries' = Current(entries)
  /\ recency' = Rebuilt(entries')
  /\ UNCHANGED <<now, settings, generation, pc, lease, reloads>>

\* prepare_affinity and affinity_lookup; an expired entry is removed.
Lookup(r, k) ==
  /\ pc[r] = "idle"
  /\ LET known == enabled /\ k[1] \in rules /\ k \in DOMAIN entries
         fresh == known /\ entries[k].until > now
     IN /\ preferred' = [preferred EXCEPT ![r] =
                           IF fresh THEN entries[k].cand ELSE None]
        /\ entries' = IF known /\ ~fresh THEN Without(entries, {k})
                      ELSE entries
  /\ key' = [key EXCEPT ![r] = k]
  /\ pc' = [pc EXCEPT ![r] = "selecting"]
  /\ UNCHANGED <<now, settings, recency, generation, keep, bound, hit,
                 reloads>>

\* Mutant of RemoveIf: whatever the session is bound to now.
RemoveAny(k, c) == entries' = Without(entries, {k})

\* affinity_remove_if_candidate
RemoveIf(k, c) ==
  entries' = IF k \in DOMAIN entries /\ entries[k].cand = c
             THEN Without(entries, {k}) ELSE entries

\* The selection's answer: candidate c, taken from the cache (h), or a
\* request of another transport that must leave a healthy binding alone (p).
Select(r, c, h, p) ==
  /\ pc[r] = "selecting"
  /\ h => c = preferred[r] /\ ~p
  /\ p => preferred[r] # None /\ c # preferred[r]
  /\ bound' = [bound EXCEPT ![r] = IF p THEN None ELSE c]
  /\ hit' = [hit EXCEPT ![r] = h]
  /\ keep' = [keep EXCEPT ![r] = p]
  /\ IF preferred[r] # None /\ ~h /\ ~p
       THEN RemoveIf(key[r], preferred[r]) ELSE UNCHANGED entries
  /\ pc' = [pc EXCEPT ![r] = "leased"]
  /\ UNCHANGED <<now, settings, recency, generation, key, preferred, reloads>>

Forget(r) ==
  /\ pc' = [pc EXCEPT ![r] = "idle"]
  /\ key' = [key EXCEPT ![r] = NoKey]
  /\ preferred' = [preferred EXCEPT ![r] = None]
  /\ bound' = [bound EXCEPT ![r] = None]
  /\ keep' = [keep EXCEPT ![r] = FALSE] /\ hit' = [hit EXCEPT ![r] = FALSE]

\* No candidate is healthy: SelectionResult::NoHealthyChannel.
NoRoute(r, p) ==
  /\ pc[r] = "selecting" /\ (p => preferred[r] # None)
  /\ IF preferred[r] # None /\ ~p
       THEN RemoveIf(key[r], preferred[r]) ELSE UNCHANGED entries
  /\ Forget(r)
  /\ UNCHANGED <<now, settings, recency, generation, reloads>>

\* The early return of affinity_store.
Accepts(k) == enabled /\ cap # 0 /\ k[1] \in rules

\* ChannelLease::request_succeeded and affinity_store.
Succeed(r) ==
  /\ pc[r] = "leased" /\ generation < MaxStores
  /\ IF bound[r] = None \/ ~Accepts(key[r]) THEN UNCHANGED cache
     ELSE /\ generation' = generation + 1
          /\ LET e == [cand |-> bound[r], until |-> now + Ttl,
                       gen |-> generation + 1]
                 es == [k \in DOMAIN entries \cup {key[r]} |->
                          IF k = key[r] THEN e ELSE entries[k]]
                 q == Append(recency, <<key[r], e.gen>>)
             IN \E t \in Trim(es, q, cap) :
                  entries' = t.es /\ recency' = Compact(t.es, t.q)
  /\ Forget(r)
  /\ UNCHANGED <<now, settings, reloads>>

\* ChannelLease::request_failed, or a lease that is dropped with no report.
Fail(r) ==
  /\ pc[r] = "leased"
  /\ \/ hit[r] /\ bound[r] # None /\ RemoveIf(key[r], bound[r])
     \/ UNCHANGED entries
  /\ Forget(r)
  /\ UNCHANGED <<now, settings, recency, generation, reloads>>

Retrimmed(es, q, m) == Trim(es, q, m)

\* reconcile_affinity with the settings of a new snapshot.
Reconcile(on, m, rs) ==
  /\ reloads < MaxReloads /\ reloads' = reloads + 1
  /\ enabled' = on /\ cap' = m /\ rules' = rs
  /\ IF ~on THEN entries' = <<>> /\ recency' = <<>>
     ELSE LET es == IF rs = rules THEN entries
                    ELSE Without(entries, {k \in DOMAIN entries :
                           k[1] \notin rs \/ entries[k].until <= now})
              q == IF rs = rules THEN recency ELSE Rebuilt(es)
          IN \E t \in Retrimmed(es, q, m) :
               entries' = t.es /\ recency' = t.q
  /\ UNCHANGED <<now, generation, pc, lease>>

\* clear_session_affinity_cache of one rule, or of all of them.
Clear(S) ==
  /\ reloads < MaxReloads /\ reloads' = reloads + 1
  /\ entries' = Without(Current(entries),
                        {k \in DOMAIN entries : k[1] \in S})
  /\ recency' = Rebuilt(entries')
  /\ UNCHANGED <<now, settings, generation, pc, lease>>

Tick ==
  /\ now < MaxTime /\ now' = now + 1
  /\ UNCHANGED <<settings, cache, pc, lease, reloads>>

Next ==
  \/ \E r \in Requests :
       \/ \E k \in Keys : Lookup(r, k)
       \/ \E c \in Candidates, h, p \in BOOLEAN : Select(r, c, h, p)
       \/ \E p \in BOOLEAN : NoRoute(r, p)
       \/ Succeed(r) \/ Fail(r)
  \/ \E on \in BOOLEAN, m \in Caps, rs \in SUBSET Rules : Reconcile(on, m, rs)
  \/ \E S \in {Rules} \cup {{x} : x \in rules} : Clear(S)
  \/ Prune \/ Tick

Spec == Init /\ [][Next]_vars

--------------------
\* The cache stays within max_entries of the current settings, is empty when
\* affinity is disabled, and holds no session of a rule that a reload has
\* removed, although requests that matched the rule still report successes.
FollowsSettings ==
  /\ Cardinality(DOMAIN entries) <= (IF enabled THEN cap ELSE 0)
  /\ \A k \in DOMAIN entries : k[1] \in rules

\* Every entry has its own item in the queue, and the queue is in the order
\* of the stores: eviction never has to take an arbitrary entry.
Indexes(q, es) == \A k \in DOMAIN es : \E i \in DOMAIN q : q[i] = <<k, es[k].gen>>
InOrder(q) == \A i, j \in DOMAIN q : i < j => q[i][2] < q[j][2]
QueueIndexesEntries == Indexes(recency, entries) /\ InOrder(recency)

\* The items of superseded generations that the queue keeps are bounded.
QueueBounded == Len(recency) <= 4 * Max(Caps) + CompactSlack

\* A store that evicts sessions evicts the ones stored longest ago, and a
\* session that was stored again since its first item counts as recent.
EvictsOldest ==
  generation' = generation + 1 =>
   \A k \in DOMAIN entries \ DOMAIN entries',
      j \in DOMAIN entries \cap DOMAIN entries' :
        entries[k].gen < entries'[j].gen

\* A request removes the binding of its session only if it is still the one
\* that the request had looked up: what a concurrent request of the session
\* has stored since, for another candidate, survives its failure.
NewerBindingSurvives ==
  \A r \in Requests :
   pc[r] # "idle" /\ pc'[r] # pc[r] /\ generation' = generation =>
     \A k \in DOMAIN entries \ DOMAIN entries' :
       k = key[r] /\ entries[k].cand = preferred[r] /\ ~keep'[r]

\* What the cache always is, and what no step does to it.
CacheStaysBounded == FollowsSettings /\ QueueIndexesEntries /\ QueueBounded
CacheSteps == NewerBindingSurvives /\ EvictsOldest

--------------------
\* The inductive invariant behind them

Entry == [cand: Candidates, until: Nat, gen: Nat]

\* Entries are finitely many and no two were stored at the same time.
Cached(es, g) ==
  /\ DOMAIN es \subseteq Keys /\ IsFiniteSet(DOMAIN es)
  /\ \A k \in DOMAIN es : es[k] \in Entry /\ es[k].gen <= g
  /\ \A j, k \in DOMAIN es : es[j].gen = es[k].gen => j = k

Queued(es, q, g) ==
  /\ q \in Seq(Keys \X Nat) /\ \A i \in DOMAIN q : q[i][2] <= g
  /\ Indexes(q, es) /\ InOrder(q)

\* What a request reports under a hit is what it had looked up.
Leased(r) ==
  /\ pc[r] # "idle" => key[r] \in Keys
  /\ pc[r] = "leased" /\ hit[r] => bound[r] = preferred[r]

AffinityTypes ==
  /\ now \in Nat /\ enabled \in BOOLEAN /\ cap \in Caps /\ rules \subseteq Rules
  /\ generation \in Nat
  /\ pc \in [Requests -> {"idle", "selecting", "leased"}]
  /\ key \in [Requests -> Keys \cup {NoKey}]
  /\ preferred \in [Requests -> Candidates \cup {None}]
  /\ bound \in [Requests -> Candidates \cup {None}]
  /\ keep \in [Requests -> BOOLEAN] /\ hit \in [Requests -> BOOLEAN]

CacheInv ==
  /\ Cached(entries, generation) /\ Queued(entries, recency, generation)
  /\ FollowsSettings /\ QueueBounded

AffinityInv ==
  AffinityTypes /\ CacheInv /\ \A r \in Requests : Leased(r)
=============================================================================
