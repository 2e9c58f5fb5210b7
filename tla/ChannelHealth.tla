---------------------------- MODULE ChannelHealth ----------------------------
\* Passive channel health of src/routing/mod.rs: the state object of one
\* channel identity (in-flight count, circuit breaker, half-open probe),
\* the leases that requests hold on it, and the registry entry that
\* snapshot reloads and the last lease of a retired channel clean up.
\*
\* Identities do not interact, so the module follows one of them.  One
\* action is one atomic operation of the code or one critical section of
\* a registry lock.  A request may use an old snapshot, and so select a
\* channel that the registry has dropped; a dropped object lives on in the
\* leases that refer to it.  Time is in milliseconds.
EXTENDS Naturals, FiniteSets

CONSTANTS
  Requests,     \* threads that select, use and release the channel
  Objs,         \* ChannelState allocations
  None,         \* no allocation
  Policies,     \* passive health settings an administrator may choose
  MaxSelects,   \* bound on selections
  MaxReloads,   \* bound on snapshot reloads
  MaxPolicies   \* bound on settings changes

PolicySpace == [threshold: Nat \ {0}, cooldown: Nat \ {0}]

ASSUME HealthAssumption ==
  /\ IsFiniteSet(Requests) /\ IsFiniteSet(Objs) /\ None \notin Objs
  /\ Cardinality(Objs) > Cardinality(Requests)
  /\ Policies \subseteq PolicySpace /\ Policies # {}
  /\ MaxSelects \in Nat /\ MaxReloads \in Nat /\ MaxPolicies \in Nat

VARIABLES
  now, policy,
  entry,        \* the registry's object for the identity
  listed,       \* active_channels: "unset", "in" or "out"
  inFlight, failures, cooldown, active,   \* fields of each ChannelState
  step,         \* where reconcile is
  next,         \* its snapshot has the channel
  pc, obj,      \* where a request is, and the object it has looked up
  claim,        \* half_open_claim of its lease, 0 if it is no probe
  at,           \* the time it has read, or the deadline it is about to store
  threshold,    \* the threshold it has read
  last,         \* its release left nothing in flight
  selects, reloads, policies

object == <<inFlight, failures, cooldown, active>>
registry == <<entry, listed, step, next>>
lease == <<obj, claim, at, threshold, last>>
bounds == <<selects, reloads, policies>>
vars == <<now, policy, entry, listed, inFlight, failures, cooldown, active,
          step, next, pc, obj, claim, at, threshold, last, selects, reloads,
          policies>>

\* cooldown_state: encoded deadline and HALF_OPEN_CLAIM bit; zero is closed.
Word(u, c) == [until |-> u, claimed |-> c]
Closed == Word(0, FALSE)
encode_millis(t) == t + 1
decode_millis(u) == u - 1
Deadline(o) == decode_millis(cooldown[o].until)

Counted == {"leased", "headers", "reached", "failing", "opening", "probing",
            "ended"}
Places == Counted \cup {"idle", "insert", "acquire", "count", "unclaim",
                        "check", "remove"}

TypeOK ==
  /\ now \in Nat /\ policy \in Policies
  /\ entry \in Objs \cup {None} /\ listed \in {"unset", "in", "out"}
  /\ inFlight \in [Objs -> Nat] /\ failures \in [Objs -> Nat]
  /\ cooldown \in [Objs -> [until: Nat, claimed: BOOLEAN]]
  /\ active \in [Objs -> BOOLEAN]
  /\ step \in {"idle", "sweep", "retain", "ensure"} /\ next \in BOOLEAN
  /\ pc \in [Requests -> Places] /\ obj \in [Requests -> Objs \cup {None}]
  /\ \A r \in Requests : obj[r] = None <=> pc[r] \in {"idle", "insert"}
  /\ claim \in [Requests -> Nat] /\ at \in [Requests -> Nat]
  /\ threshold \in [Requests -> Nat] /\ last \in [Requests -> BOOLEAN]
  /\ selects \in 0..MaxSelects /\ reloads \in 0..MaxReloads
  /\ policies \in 0..MaxPolicies

Init ==
  /\ now = 0 /\ policy \in Policies
  /\ entry = None /\ listed = "unset"
  /\ inFlight = [o \in Objs |-> 0] /\ failures = [o \in Objs |-> 0]
  /\ cooldown = [o \in Objs |-> Closed] /\ active = [o \in Objs |-> FALSE]
  /\ step = "idle" /\ next = FALSE
  /\ pc = [r \in Requests |-> "idle"] /\ obj = [r \in Requests |-> None]
  /\ claim = [r \in Requests |-> 0] /\ at = [r \in Requests |-> 0]
  /\ threshold = [r \in Requests |-> 0] /\ last = [r \in Requests |-> FALSE]
  /\ selects = 0 /\ reloads = 0 /\ policies = 0

\* Allocations nobody refers to, and the one that is taken next.
Free == Objs \ ({entry} \cup {obj[r] : r \in Requests})
Fresh == CHOOSE o \in Free : TRUE

\* ChannelState::new
NewState(o, a) ==
  /\ inFlight' = [inFlight EXCEPT ![o] = 0]
  /\ failures' = [failures EXCEPT ![o] = 0]
  /\ cooldown' = [cooldown EXCEPT ![o] = Closed]
  /\ active' = [active EXCEPT ![o] = a]

Goto(r, p) == pc' = [pc EXCEPT ![r] = p]

\* The lease, or the selection that found no healthy channel, is gone.
Forget(r) ==
  /\ Goto(r, "idle")
  /\ obj' = [obj EXCEPT ![r] = None] /\ claim' = [claim EXCEPT ![r] = 0]
  /\ at' = [at EXCEPT ![r] = 0] /\ threshold' = [threshold EXCEPT ![r] = 0]
  /\ last' = [last EXCEPT ![r] = FALSE]

--------------------
\* Selection.  Its usable() filter is checked again by try_acquire.

\* The clock is read, then the registry.
Lookup(r) ==
  /\ pc[r] = "idle" /\ step # "retain" /\ selects < MaxSelects
  /\ selects' = selects + 1
  /\ at' = [at EXCEPT ![r] = now]
  /\ IF entry = None
     THEN Goto(r, "insert") /\ UNCHANGED obj
     ELSE Goto(r, "acquire") /\ obj' = [obj EXCEPT ![r] = entry]
  /\ UNCHANGED <<now, policy, object, registry, claim, threshold, last, reloads,
                 policies>>

\* channel_state_or_insert: an insert waits for a reconciliation that runs.
Insert(r) ==
  /\ pc[r] = "insert"
  /\ IF entry = None THEN step = "idle" ELSE step # "retain"
  /\ \/ /\ entry # None
        /\ obj' = [obj EXCEPT ![r] = entry]
        /\ UNCHANGED <<entry, object>>
     \/ /\ entry = None
        /\ NewState(Fresh, listed # "out")
        /\ entry' = Fresh /\ obj' = [obj EXCEPT ![r] = Fresh]
  /\ Goto(r, "acquire")
  /\ UNCHANGED <<now, policy, listed, step, next, claim, at, threshold, last, bounds>>

\* try_acquire: the breaker is closed, or this request becomes the probe.
Acquire(r) ==
  LET o == obj[r]
  IN /\ pc[r] = "acquire"
     /\ \/ /\ cooldown[o] = Closed
           /\ UNCHANGED <<cooldown, claim>>
        \/ /\ cooldown[o] # Closed
           /\ ~cooldown[o].claimed /\ Deadline(o) <= at[r]
           /\ cooldown' = [cooldown EXCEPT ![o].claimed = TRUE]
           /\ claim' = [claim EXCEPT ![r] = cooldown[o].until]
     /\ Goto(r, "count")
     /\ UNCHANGED <<now, policy, registry, inFlight, failures, active, obj, at,
                    threshold, last, bounds>>

Refuse(r) ==
  /\ pc[r] = "acquire"
  /\ cooldown[obj[r]] # Closed
  /\ cooldown[obj[r]].claimed \/ Deadline(obj[r]) > at[r]
  /\ Forget(r)
  /\ UNCHANGED <<now, policy, registry, object, bounds>>

Count(r) ==
  /\ pc[r] = "count"
  /\ inFlight' = [inFlight EXCEPT ![obj[r]] = @ + 1]
  /\ Goto(r, "leased")
  /\ UNCHANGED <<now, policy, registry, failures, cooldown, active, lease, bounds>>

--------------------
\* What a lease reports.  Headers may be followed by a connection failure:
\* a pinned WebSocket that breaks before the request is sent.

Headers(r) ==
  /\ pc[r] = "leased"
  /\ failures' = [failures EXCEPT ![obj[r]] = 0]
  /\ Goto(r, "headers")
  /\ UNCHANGED <<now, policy, registry, inFlight, cooldown, active, lease, bounds>>

HeadersClose(r) ==
  /\ pc[r] = "headers"
  /\ cooldown' = [cooldown EXCEPT ![obj[r]] = Closed]
  /\ Goto(r, "reached")
  /\ UNCHANGED <<now, policy, registry, inFlight, failures, active, lease, bounds>>

\* connection_failed reads the clock and the policy,
Fail(r) ==
  /\ pc[r] \in {"leased", "reached"}
  /\ at' = [at EXCEPT ![r] = now + policy.cooldown]
  /\ threshold' = [threshold EXCEPT ![r] = policy.threshold]
  /\ Goto(r, "failing")
  /\ UNCHANGED <<now, policy, registry, object, obj, claim, last, bounds>>

\* counts the failure,
FailCount(r) ==
  /\ pc[r] = "failing"
  /\ failures' = [failures EXCEPT ![obj[r]] = @ + 1]
  /\ Goto(r, IF failures[obj[r]] + 1 >= threshold[r] THEN "opening" ELSE "ended")
  /\ UNCHANGED <<now, policy, registry, inFlight, cooldown, active, lease, bounds>>

\* and opens the breaker, whatever its state is by then.
FailOpen(r) ==
  /\ pc[r] = "opening"
  /\ cooldown' = [cooldown EXCEPT ![obj[r]] = Word(encode_millis(at[r]), FALSE)]
  /\ Goto(r, "ended")
  /\ UNCHANGED <<now, policy, registry, inFlight, failures, active, lease, bounds>>

\* probe_failed does nothing for an ordinary request.
ProbeFail(r) ==
  /\ pc[r] = "leased"
  /\ IF claim[r] = 0
     THEN Goto(r, "ended") /\ UNCHANGED at
     ELSE Goto(r, "probing") /\ at' = [at EXCEPT ![r] = now + policy.cooldown]
  /\ UNCHANGED <<now, policy, registry, object, obj, claim, threshold, last, bounds>>

\* compare_exchange on the word that the request claimed.
ExchangeClaim(r, w) ==
  cooldown' = IF claim[r] # 0 /\ cooldown[obj[r]] = Word(claim[r], TRUE)
              THEN [cooldown EXCEPT ![obj[r]] = w]
              ELSE cooldown

ProbeReopen(r) ==
  /\ pc[r] = "probing"
  /\ ExchangeClaim(r, Word(encode_millis(at[r]), FALSE))
  /\ Goto(r, "ended")
  /\ UNCHANGED <<now, policy, registry, inFlight, failures, active, lease, bounds>>

--------------------
\* Drop of a lease

Release(r) ==
  /\ pc[r] \in {"leased", "reached", "ended"}
  /\ inFlight' = [inFlight EXCEPT ![obj[r]] = @ - 1]
  /\ last' = [last EXCEPT ![r] = inFlight[obj[r]] = 1]
  /\ Goto(r, "unclaim")
  /\ UNCHANGED <<now, policy, registry, failures, cooldown, active, obj, claim,
                 at, threshold, bounds>>

\* Mutant of Unclaim: a cancelled probe keeps its claim.
UnclaimNever(r) ==
  /\ pc[r] = "unclaim"
  /\ Goto(r, "check")
  /\ UNCHANGED <<now, policy, registry, object, lease, bounds>>

\* A probe without outcome gives the claim back and keeps the deadline.
Unclaim(r) ==
  /\ pc[r] = "unclaim"
  /\ ExchangeClaim(r, Word(claim[r], FALSE))
  /\ Goto(r, "check")
  /\ UNCHANGED <<now, policy, registry, inFlight, failures, active, lease, bounds>>

\* Was this the last lease of a retired channel?
Check(r) ==
  /\ pc[r] = "check"
  /\ IF last[r] /\ ~active[obj[r]]
     THEN Goto(r, "remove") /\ UNCHANGED lease
     ELSE Forget(r)
  /\ UNCHANGED <<now, policy, registry, object, bounds>>

\* Under the lock of the shard everything is checked again.  A request counts
\* itself without that lock; one that does so between the read of the count and
\* the removal is one that counts itself on the dropped object.
Remove(r) ==
  /\ pc[r] = "remove" /\ step # "retain"
  /\ entry' = IF entry = obj[r] /\ inFlight[obj[r]] = 0 /\ ~active[obj[r]]
              THEN None ELSE entry
  /\ Forget(r)
  /\ UNCHANGED <<now, policy, listed, step, next, object, bounds>>

--------------------
\* reconcile, settings and time

\* A new snapshot has the channel (b) or not; active_channels is locked.
Reload(b) ==
  /\ step = "idle" /\ reloads < MaxReloads
  /\ reloads' = reloads + 1
  /\ step' = "sweep" /\ next' = b
  /\ UNCHANGED <<now, policy, entry, listed, object, pc, lease, selects, policies>>

\* The shard is locked and the object is marked,
Sweep ==
  /\ step = "sweep"
  /\ active' = IF entry = None THEN active ELSE [active EXCEPT ![entry] = next]
  /\ step' = "retain"
  /\ UNCHANGED <<now, policy, entry, listed, next, inFlight, failures, cooldown,
                 pc, lease, bounds>>

\* then dropped unless a lease has counted itself (see Remove).
Retain ==
  /\ step = "retain"
  /\ entry' = IF entry # None /\ ~next /\ inFlight[entry] = 0 THEN None ELSE entry
  /\ step' = "ensure"
  /\ UNCHANGED <<now, policy, listed, next, object, pc, lease, bounds>>

\* The channels of the snapshot get an object, and active_channels is replaced.
Ensure ==
  /\ step = "ensure"
  /\ \/ /\ next /\ entry = None
        /\ NewState(Fresh, TRUE) /\ entry' = Fresh
     \/ /\ next /\ entry # None
        /\ active' = [active EXCEPT ![entry] = TRUE]
        /\ UNCHANGED <<entry, inFlight, failures, cooldown>>
     \/ ~next /\ UNCHANGED <<entry, object>>
  /\ listed' = IF next THEN "in" ELSE "out"
  /\ step' = "idle"
  /\ UNCHANGED <<now, policy, next, pc, lease, bounds>>

\* update_policy: deadlines that were stored stay as they are.
UpdatePolicy(p) ==
  /\ policies < MaxPolicies /\ p # policy
  /\ policies' = policies + 1
  /\ policy' = p
  /\ UNCHANGED <<now, registry, object, pc, lease, selects, reloads>>

\* Time matters only while some deadline is ahead.
Tick ==
  /\ \/ \E o \in Objs \ Free : cooldown[o] # Closed /\ Deadline(o) > now
     \/ \E r \in Requests :
          pc[r] \in {"failing", "opening", "probing"} /\ at[r] > now
  /\ now' = now + 1
  /\ UNCHANGED <<policy, registry, object, pc, lease, bounds>>

--------------------
\* What a request does once it has begun.
Request(r) ==
  \/ Insert(r) \/ Acquire(r) \/ Refuse(r) \/ Count(r)
  \/ Headers(r) \/ HeadersClose(r) \/ Fail(r) \/ FailCount(r) \/ FailOpen(r)
  \/ ProbeFail(r) \/ ProbeReopen(r)
  \/ Release(r) \/ Unclaim(r) \/ Check(r) \/ Remove(r)

Reconcile == Sweep \/ Retain \/ Ensure

Next ==
  \/ \E r \in Requests : Lookup(r) \/ Request(r)
  \/ \E b \in BOOLEAN : Reload(b)
  \/ Reconcile
  \/ \E p \in Policies : UpdatePolicy(p)
  \/ Tick

Spec == Init /\ [][Next]_vars

\* Requests end (timeouts bound every phase of a request), a reload that has
\* begun finishes, and time passes.
FairSpec ==
  /\ Spec
  /\ \A r \in Requests : WF_vars(Request(r))
  /\ WF_vars(Reconcile) /\ WF_vars(Tick)

--------------------
\* Properties

\* Requests that may still give back the claim of object o with deadline u.
Probes(o, u) ==
  {r \in Requests : /\ obj[r] = o /\ claim[r] = u
                    /\ pc[r] \in Counted \cup {"count", "unclaim"}}

\* A half-open claim always belongs to a request that will give it back, even
\* when a late failure of another lease has overwritten the claim, and a second
\* probe has been admitted, in between.  Otherwise no request would ever be
\* sent to the channel again.
NoStuckProbe ==
  \A o \in Objs : cooldown[o].claimed => Probes(o, cooldown[o].until) # {}

\* The state of a retired channel goes away with its last lease: when nothing
\* is in flight somebody is still about to use or to remove it.  reconcile's
\* mark and Drop's check race here.
NoLeakedState ==
  entry # None /\ ~active[entry] /\ inFlight[entry] = 0
    => \/ step = "retain"
       \/ \E r \in Requests :
            /\ obj[r] = entry
            /\ \/ pc[r] \in {"acquire", "count"}
               \/ pc[r] \in {"unclaim", "check", "remove"} /\ last[r]

\* When no reload runs, a channel of the snapshot has an active state, and no
\* other channel does, whatever requests with old snapshots insert or remove.
RegistryFollowsSnapshot ==
  step = "idle" /\ listed # "unset"
    => /\ listed = "in" => entry # None /\ active[entry]
       /\ listed = "out" => entry = None \/ ~active[entry]

\* A request that works on a state the registry has dropped works on a retired
\* one: while the channel is active all of its requests share one state, so that
\* no failure or success is recorded where selection does not see it.
OrphansAreRetired ==
  \A r \in Requests : obj[r] # None /\ obj[r] # entry => ~active[obj[r]]

\* The breaker never locks itself out, the registry follows the snapshot, and a
\* retired state goes away.
HealthSound ==
  NoStuckProbe /\ RegistryFollowsSnapshot /\ OrphansAreRetired /\ NoLeakedState

Usable(o) == cooldown[o] = Closed \/ (~cooldown[o].claimed /\ Deadline(o) <= now)

--------------------
\* The inductive invariants behind the invariants about probes and registry

ProbeTypes ==
  /\ cooldown \in [Objs -> [until: Nat, claimed: BOOLEAN]]
  /\ pc \in [Requests -> Places]
  /\ at \in [Requests -> Nat] /\ now \in Nat /\ policy \in Policies
  /\ DOMAIN obj = Requests /\ DOMAIN claim = Requests

\* The word zero carries no claim.
ClaimHasDeadline == \A o \in Objs : cooldown[o].claimed => cooldown[o].until # 0

ProbeInv == ProbeTypes /\ ClaimHasDeadline /\ NoStuckProbe

RegistryTypes ==
  /\ entry \in Objs \cup {None} /\ listed \in {"unset", "in", "out"}
  /\ active \in [Objs -> BOOLEAN]
  /\ step \in {"idle", "sweep", "retain", "ensure"} /\ next \in BOOLEAN
  /\ obj \in [Requests -> Objs \cup {None}]

\* Until a reload has marked the state, the registry agrees with the previous
\* snapshot, and then with the next one.
MarkFollows ==
  /\ step \in {"idle", "sweep"} /\ listed = "in" => entry # None /\ active[entry]
  /\ step \in {"idle", "sweep"} /\ listed = "out" => entry = None \/ ~active[entry]
  /\ step \in {"retain", "ensure"} /\ entry # None => active[entry] = next

RegistryInv == RegistryTypes /\ MarkFollows /\ OrphansAreRetired

\* A state counts the leases that have counted themselves and have not released.
Holding(o) == {r \in Requests : obj[r] = o /\ pc[r] \in Counted}
CountExact == \A o \in Objs : inFlight[o] = Cardinality(Holding(o))

\* A retired state that nobody holds is kept by the request that released it
\* last, or it is new, and a request that found it is about to count itself: its
\* breaker is closed, so that it cannot be refused.
Keeper(r) == obj[r] = entry /\ pc[r] \in {"unclaim", "check", "remove"} /\ last[r]
RetiredIsKept ==
  entry # None /\ ~active[entry] /\ inFlight[entry] = 0 /\ step # "retain"
    => \/ \E r \in Requests : Keeper(r)
       \/ /\ cooldown[entry] = Closed
          /\ \E r \in Requests : obj[r] = entry /\ pc[r] \in {"acquire", "count"}

HealthInv == TypeOK /\ CountExact /\ RetiredIsKept

=============================================================================
