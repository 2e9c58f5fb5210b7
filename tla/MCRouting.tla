------------------------------ MODULE MCRouting ------------------------------
\* What routes a request to a channel, on small instances: passive channel
\* health, weighted and round-robin selection, the session affinity cache,
\* and the automation that disables and recovers channels.
EXTENDS ChannelHealth, TLC

CONSTANTS
  q1, q2,      \* requests
  c1, c2, c3,  \* candidates, channels
  s1, s2, s3   \* sessions

VARIABLES
  part,  \* the component that this behaviour exercises
  \* ChannelSelection
  health, cursor, selPc, input, tier, pos, allow, seen, ticket, total, picked, hit,
  wasDown, flaps, picks,
  \* SessionAffinity
  clock, enabled, cap, rules, entries, recency, generation, affPc, key, preferred,
  keep, bound, matched, resets,
  \* ChannelAutomation
  up, stored, snap, queue, worker, applying, tester, stopping, round, probe, evidence,
  answered, tally, used

OnePolicy == {[threshold |-> 1, cooldown |-> 1]}
TwoPolicies == OnePolicy \cup {[threshold |-> 2, cooldown |-> 2]}

TwoTiers == <<[strategy |-> "WeightedRandom", cands |-> <<c1, c2>>],
              [strategy |-> "WeightedRoundRobin", cands |-> <<c3>>]>>
OneTier == <<[strategy |-> "WeightedRoundRobin", cands |-> <<c1, c2, c3>>]>>
Weights == c1 :> 1 @@ c2 :> 2 @@ c3 :> 3
Own == c1 :> "x" @@ c2 :> "y" @@ c3 :> "z"
Ask(a, p, q) == [allowed |-> a, preferred |-> p, pin |-> q, retired |-> FALSE]
MixedInputs ==
  {Ask({c1, c2, c3}, None, None), Ask({c1, c2, c3}, c2, None),
   Ask({c1, c3}, c3, None), Ask({c1, c3}, None, None),
   Ask({c1, c2, c3}, None, c3)}
SubsetInputs ==
  {[allowed |-> a, preferred |-> None, pin |-> None, retired |-> q] :
     a \in SUBSET {c1, c2, c3}, q \in BOOLEAN}

\* No reloads, and an administrator who changes the policy.
Breaker == INSTANCE ChannelHealth WITH
  Requests <- Requests, Objs <- Objs, None <- None, Policies <- TwoPolicies,
  MaxSelects <- 3, MaxReloads <- 0, MaxPolicies <- 1

\* A weighted tier over a round-robin tier, two requests at once.
Tiered == INSTANCE ChannelSelection WITH
  Requests <- Requests, Candidates <- {c1, c2, c3}, None <- None, Tiers <- TwoTiers,
  Weight <- Weights, ChannelOf <- Own, Inputs <- MixedInputs, MaxFlaps <- 1,
  MaxSelects <- 2, pc <- selPc, selects <- picks

\* One round-robin tier whose candidates come and go.
Robin == INSTANCE ChannelSelection WITH
  Requests <- {q1}, Candidates <- {c1, c2, c3}, None <- None, Tiers <- OneTier,
  Weight <- Weights, ChannelOf <- Own, Inputs <- SubsetInputs, MaxFlaps <- 0,
  MaxSelects <- 12, pc <- selPc, selects <- picks

\* Two requests of a session, settings that change under them.
Cache == INSTANCE SessionAffinity WITH
  Requests <- Requests, Rules <- {"rule"}, Sessions <- {s1, s2},
  Candidates <- {c1, c2}, None <- None, Caps <- {0, 1, 2}, Ttl <- 1, CompactSlack <- 1,
  MaxTime <- 1, MaxStores <- 2, MaxReloads <- 1, now <- clock, pc <- affPc,
  hit <- matched, reloads <- resets

\* A full cache whose oldest entries are evicted.
Recency == INSTANCE SessionAffinity WITH
  Requests <- {q1}, Rules <- {"rule"}, Sessions <- {s1, s2, s3}, Candidates <- {c1},
  None <- None, Caps <- {2}, Ttl <- 2, CompactSlack <- 0, MaxTime <- 0, MaxStores <- 7,
  MaxReloads <- 0, now <- clock, pc <- affPc, hit <- matched, reloads <- resets

\* Stores enough for its queue to be compacted.
Compacted == INSTANCE SessionAffinity WITH
  Requests <- {q1}, Rules <- {"rule"}, Sessions <- {s1, s2}, Candidates <- {c1},
  None <- None, Caps <- {1}, Ttl <- 2, CompactSlack <- 1, MaxTime <- 0, MaxStores <- 7,
  MaxReloads <- 0, now <- clock, pc <- affPc, hit <- matched, reloads <- resets

\* Two channels, tests and traffic that report on them, an administrator.
Automation == INSTANCE ChannelAutomation WITH
  Channels <- {c1, c2}, Counting <- TRUE, Keyword <- TRUE, Mode <- "global",
  QueueCap <- 1, MaxChunks <- 1, MaxProbes <- 2, MaxRequests <- 1, MaxEdits <- 1,
  MaxFlips <- 2, MaxErrors <- 0, seen <- evidence

ASSUME Breaker!HealthAssumption
ASSUME Tiered!SelectionAssumption /\ Robin!SelectionAssumption
ASSUME Automation!AutomationAssumption
ASSUME /\ Cache!AffinityAssumption /\ Recency!AffinityAssumption
       /\ Compacted!AffinityAssumption

--------------------
\* The variables of a component that is not exercised.
Off == <<>>

tieredVars == <<health, cursor, selPc, input, tier, pos, allow, seen, ticket, total, picked, hit,
                wasDown, flaps, picks>>
TieredOff ==
  /\ health = Off /\ cursor = Off /\ selPc = Off /\ input = Off /\ tier = Off
  /\ pos = Off /\ allow = Off /\ seen = Off /\ ticket = Off /\ total = Off
  /\ picked = Off /\ hit = Off /\ wasDown = Off /\ flaps = Off /\ picks = Off

cacheVars == <<clock, enabled, cap, rules, entries, recency, generation, affPc, key, preferred,
               keep, bound, matched, resets>>
CacheOff ==
  /\ clock = Off /\ enabled = Off /\ cap = Off /\ rules = Off /\ entries = Off
  /\ recency = Off /\ generation = Off /\ affPc = Off /\ key = Off
  /\ preferred = Off /\ keep = Off /\ bound = Off /\ matched = Off /\ resets = Off

automationVars == <<up, stored, snap, queue, worker, applying, tester, stopping, round, probe, evidence,
                    answered, tally, used>>
AutomationOff ==
  /\ up = Off /\ stored = Off /\ snap = Off /\ queue = Off /\ worker = Off
  /\ applying = Off /\ tester = Off /\ stopping = Off /\ round = Off /\ probe = Off
  /\ evidence = Off /\ answered = Off /\ tally = Off /\ used = Off

allVars == <<part, vars, tieredVars, cacheVars, automationVars>>

SuiteInit ==
  \/ /\ part = "reload" /\ Init /\ TieredOff /\ CacheOff /\ AutomationOff
  \/ /\ part = "breaker" /\ Breaker!Init /\ TieredOff /\ CacheOff /\ AutomationOff
  \/ /\ part = "tiers" /\ Tiered!Init /\ Init /\ CacheOff /\ AutomationOff
  \/ /\ part = "robin" /\ Robin!Init /\ Init /\ CacheOff /\ AutomationOff
  \/ /\ part = "cache" /\ Cache!Init /\ Init /\ TieredOff /\ AutomationOff
  \/ /\ part = "recency" /\ Recency!Init /\ Init /\ TieredOff /\ AutomationOff
  \/ /\ part = "compact" /\ Compacted!Init /\ Init /\ TieredOff /\ AutomationOff
  \/ /\ part = "automation" /\ Automation!Init /\ Init /\ TieredOff /\ CacheOff

SuiteNext ==
  \/ /\ part = "reload" /\ Next
     /\ UNCHANGED <<part, tieredVars, cacheVars, automationVars>>
  \/ /\ part = "breaker" /\ Breaker!Next
     /\ UNCHANGED <<part, tieredVars, cacheVars, automationVars>>
  \/ /\ part = "tiers" /\ Tiered!Next
     /\ UNCHANGED <<part, vars, cacheVars, automationVars>>
  \/ /\ part = "robin" /\ Robin!Next
     /\ UNCHANGED <<part, vars, cacheVars, automationVars>>
  \/ /\ part = "cache" /\ Cache!Next
     /\ UNCHANGED <<part, vars, tieredVars, automationVars>>
  \/ /\ part = "recency" /\ Recency!Next
     /\ UNCHANGED <<part, vars, tieredVars, automationVars>>
  \/ /\ part = "compact" /\ Compacted!Next
     /\ UNCHANGED <<part, vars, tieredVars, automationVars>>
  \/ /\ part = "automation" /\ Automation!Next
     /\ UNCHANGED <<part, vars, tieredVars, cacheVars>>

SuiteSpec == SuiteInit /\ [][SuiteNext]_allVars

--------------------
\* The requests of a part do the same.
Interchangeable == Permutations(Requests)

\* What an allocation holds that nobody refers to does not matter.
SuiteView ==
  <<[o \in Objs \ Free |-> <<inFlight[o], failures[o], cooldown[o], active[o]>>],
    now, policy, registry, pc, lease, bounds, part, tieredVars, cacheVars, automationVars>>

\* Selection: a candidate is passed over only if it was down when it was looked
\* at, a healthy preferred candidate is used, and smooth round robin gives
\* every candidate its share although candidates come and go.
SelectionSound ==
  /\ part = "tiers" => Tiered!SkippedWereDown /\ Tiered!StickyWhenHealthy
  /\ part = "robin" => Robin!SharesFair

\* The affinity cache holds what its settings allow, and the queue that orders
\* its entries stays bounded and still finds each of them.
CacheStaysBounded ==
  /\ part = "cache" => Cache!CacheStaysBounded
  /\ part = "recency" => Recency!CacheStaysBounded
  /\ part = "compact" => Compacted!CacheStaysBounded

\* Whoever decided last wins: a failing request does not remove the binding that
\* another one has stored since, a full cache evicts what was stored longest
\* ago, and automation never overrides a setting that was saved in between.
NewerDecisionWins ==
  [][/\ part = "cache" => Cache!CacheSteps
     /\ part = "recency" => Recency!CacheSteps
     /\ part = "compact" => Compacted!CacheSteps
     /\ part = "automation" => Automation!PolicyPrevails]_allVars

\* A channel is disabled for what its own responses have shown, recovered by a
\* complete good answer, every test is logged once, and an orderly shutdown
\* decides every report.
AutomationSound ==
  part = "automation" => Automation!AutomationSound
=============================================================================
