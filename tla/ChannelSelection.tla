-------------------------- MODULE ChannelSelection --------------------------
\* Channel selection of src/routing/mod.rs: the walk over the priority
\* tiers of a model rule, the weighted ticket, smooth weighted round
\* robin, a session's preferred candidate and the lease of the chosen
\* channel.
\*
\* The code reads the health of one channel at a time while other requests
\* and their outcomes change it, so one action is one such read, one draw,
\* one update of the round-robin cursor under its lock, or one attempt to
\* acquire.  The breaker behind the health is module ChannelHealth; here a
\* channel is up, admits one probe, or is down.  What the API key, the
\* exclusions of a retry and the transport capability permit is the input
\* `allowed' of a selection.
EXTENDS Integers, Sequences, FiniteSets, FiniteSetsExt, SequencesExt

CONSTANTS
  Requests,     \* threads that select
  Candidates,   \* route candidates: a channel and an upstream model
  None,         \* no candidate
  Tiers,        \* a sequence of [strategy, cands], highest priority first
  Weight,       \* the weight of a candidate
  ChannelOf,    \* the channel of a candidate
  Inputs,       \* the inputs of a selection, see InputSpace
  MaxFlaps,     \* bound on health changes
  MaxSelects    \* bound on selections

Channels == {ChannelOf[c] : c \in Candidates}

\* allowed: what key, exclusions and capability permit.  preferred: the
\* candidate the session is bound to.  pin: the candidate a WebSocket session
\* wants to stay on.  retired: a candidate is no longer in the snapshot.
InputSpace ==
  [allowed: SUBSET Candidates, preferred: Candidates \cup {None},
   pin: Candidates \cup {None}, retired: BOOLEAN]

SelectionAssumption ==
  /\ None \notin Candidates /\ IsFiniteSet(Candidates)
  /\ Weight \in [Candidates -> Nat \ {0}]
  /\ Tiers \in Seq([strategy: {"WeightedRandom", "WeightedRoundRobin"},
                    cands: Seq(Candidates)])
  /\ Inputs \subseteq InputSpace
  /\ MaxFlaps \in Nat /\ MaxSelects \in Nat

VARIABLES
  health,     \* "up", "probe" (the cooldown is over) or "down"
  cursor,     \* the round-robin state of the tier: a value per candidate
  pc, input,  \* where a request is, and what it was asked
  tier, pos,  \* the tier and the candidate it looks at
  allow,      \* allow_affinity
  seen,       \* the candidates it has found eligible in this scan
  ticket, total,   \* of weighted_ticket
  picked, hit,     \* the candidate it will acquire, chosen by affinity
  wasDown,    \* channels that were down at some time since it started
  flaps, selects

walk == <<tier, pos, seen>>
draw == <<ticket, total>>
choice == <<picked, hit>>
vars == <<health, cursor, pc, input, tier, pos, allow, seen, ticket,
          total, picked, hit, wasDown, flaps, selects>>

Places == {"idle", "tier", "affinity", "total", "spend", "robin", "pinAny",
           "pinFind", "acquire", "held", "none"}
NoInput == [allowed |-> {}, preferred |-> None, pin |-> None,
            retired |-> FALSE]

TypeOK ==
  /\ health \in [Channels -> {"up", "probe", "down"}]
  /\ cursor \in [Candidates -> Int]
  /\ pc \in [Requests -> Places]
  /\ input \in [Requests -> Inputs \cup {NoInput}]
  /\ tier \in [Requests -> 1..(Len(Tiers) + 1)]
  /\ pos \in [Requests -> Nat \ {0}]
  /\ allow \in [Requests -> BOOLEAN]
  /\ seen \in [Requests -> SUBSET Candidates]
  /\ ticket \in [Requests -> Nat] /\ total \in [Requests -> Nat]
  /\ picked \in [Requests -> Candidates \cup {None}]
  /\ hit \in [Requests -> BOOLEAN]
  /\ wasDown \in [Requests -> SUBSET Channels]
  /\ flaps \in 0..MaxFlaps /\ selects \in 0..MaxSelects

Init ==
  /\ health = [ch \in Channels |-> "up"]
  /\ cursor = [c \in Candidates |-> 0]
  /\ pc = [r \in Requests |-> "idle"]
  /\ input = [r \in Requests |-> NoInput]
  /\ tier = [r \in Requests |-> 1] /\ pos = [r \in Requests |-> 1]
  /\ allow = [r \in Requests |-> TRUE]
  /\ seen = [r \in Requests |-> {}]
  /\ ticket = [r \in Requests |-> 0] /\ total = [r \in Requests |-> 0]
  /\ picked = [r \in Requests |-> None] /\ hit = [r \in Requests |-> FALSE]
  /\ wasDown = [r \in Requests |-> {}]
  /\ flaps = 0 /\ selects = 0

--------------------
Cands(r) == Tiers[tier[r]].cands
WeightOf(S) == MapThenSumSet(LAMBDA c : Weight[c], S)

\* RoutingRuntime's usable(): closed, or a cooldown that is over and that no
\* probe has claimed.
Usable(c) == health[ChannelOf[c]] # "down"
eligible(r, c) == c \in input[r].allowed /\ Usable(c)

Goto(r, p) == pc' = [pc EXCEPT ![r] = p]

\* A scan starts at the tier's first candidate with nothing seen.
Scan(r) ==
  /\ pos' = [pos EXCEPT ![r] = 1]
  /\ seen' = [seen EXCEPT ![r] = {}]

\* The candidates of a set in the order of the tier.
InOrder(r, S) == SelectSeq(Cands(r), LAMBDA c : c \in S)

\* Entry of the selections.
Start(r, i) ==
  /\ pc[r] = "idle" /\ selects < MaxSelects
  /\ selects' = selects + 1
  /\ input' = [input EXCEPT ![r] = i]
  /\ tier' = [tier EXCEPT ![r] = 1]
  /\ allow' = [allow EXCEPT ![r] = TRUE]
  /\ wasDown' = [wasDown EXCEPT ![r] =
                   {ch \in Channels : health[ch] = "down"}]
  /\ Goto(r, IF i.pin = None THEN "tier" ELSE "pinAny")
  /\ Scan(r)
  /\ UNCHANGED <<health, cursor, draw, choice, flaps>>

\* A tier is entered, or the selection ends without a route.
Enter(r) ==
  /\ pc[r] = "tier"
  /\ Goto(r, IF tier[r] > Len(Tiers) THEN "none" ELSE "affinity")
  /\ UNCHANGED <<health, cursor, input, walk, allow, draw, choice,
                 wasDown, flaps, selects>>

\* find_map over the tier for the session's preferred candidate.
Affinity(r) ==
  /\ pc[r] = "affinity"
  /\ LET p == input[r].preferred
         found == allow[r] /\ p \in Range(Cands(r)) /\ eligible(r, p)
     IN /\ hit' = [hit EXCEPT ![r] = found]
        /\ picked' = [picked EXCEPT ![r] = IF found THEN p ELSE None]
        /\ Goto(r, CASE found -> "acquire"
                     [] ~found /\ Tiers[tier[r]].strategy = "WeightedRandom"
                          -> "total"
                     [] OTHER -> "robin")
  /\ Scan(r)
  /\ UNCHANGED <<health, cursor, input, tier, allow, draw, wasDown,
                 flaps, selects>>

\* One candidate of a scan is read.
Look(r) ==
  /\ pc[r] \in {"total", "spend", "robin", "pinAny", "pinFind"}
  /\ pos[r] <= Len(Cands(r))
  /\ seen' = [seen EXCEPT ![r] =
                @ \cup {c \in {Cands(r)[pos[r]]} : eligible(r, c)}]
  /\ pos' = [pos EXCEPT ![r] = @ + 1]
  /\ UNCHANGED <<health, cursor, pc, input, tier, allow, draw, choice,
                 wasDown, flaps, selects>>

Scanned(r, p) == pc[r] = p /\ pos[r] > Len(Cands(r))

\* No candidate: break out of the tier's loop.
NextTier(r) ==
  /\ Goto(r, "tier")
  /\ tier' = [tier EXCEPT ![r] = @ + 1]
  /\ allow' = [allow EXCEPT ![r] = TRUE]

\* weighted_ticket, first pass: the total and a ticket below it.
Total(r) ==
  /\ Scanned(r, "total")
  /\ IF seen[r] = {}
       THEN NextTier(r) /\ UNCHANGED draw
       ELSE /\ total' = [total EXCEPT ![r] = WeightOf(seen[r])]
            /\ \E t \in 0..(WeightOf(seen[r]) - 1) :
                 ticket' = [ticket EXCEPT ![r] = t]
            /\ Goto(r, "spend")
            /\ UNCHANGED <<tier, allow>>
  /\ Scan(r)
  /\ UNCHANGED <<health, cursor, input, choice, wasDown, flaps, selects>>

\* The candidate whose share of the weights holds the ticket.
Spent(s, t) ==
  LET hits == {i \in DOMAIN s :
        LET below == WeightOf(Range(SubSeq(s, 1, i - 1)))
        IN below <= t /\ t < below + Weight[s[i]]}
  IN IF hits = {} THEN None ELSE s[CHOOSE i \in hits : TRUE]

\* Mutant of SameTotal: the ticket is spent on whatever the second pass saw.
AnyTotal(r) == TRUE

\* The two passes observed candidates of the same total.
SameTotal(r) == WeightOf(seen[r]) = total[r]

\* Second pass: the ticket is spent, or both passes are repeated when the
\* observed total is another one.
Spend(r) ==
  /\ Scanned(r, "spend")
  /\ LET c == Spent(InOrder(r, seen[r]), ticket[r])
     IN IF SameTotal(r)
          THEN IF c = None
                 THEN NextTier(r) /\ UNCHANGED picked
                 ELSE /\ picked' = [picked EXCEPT ![r] = c]
                      /\ Goto(r, "acquire") /\ UNCHANGED <<tier, allow>>
          ELSE Goto(r, "total") /\ UNCHANGED <<tier, allow, picked>>
  /\ ticket' = [ticket EXCEPT ![r] = 0]
  /\ total' = [total EXCEPT ![r] = 0]
  /\ Scan(r)
  /\ UNCHANGED <<health, cursor, input, hit, wasDown, flaps, selects>>

\* smooth_round_robin over the eligible candidates s: every one gains its
\* weight, the first of the highest pays the total.
Gained(v, s) ==
  [c \in Candidates |-> IF c \in Range(s) THEN v[c] + Weight[c] ELSE v[c]]
Winner(v, s) ==
  LET best == {i \in DOMAIN s : \A j \in DOMAIN s : v[s[j]] <= v[s[i]]}
  IN s[Min(best)]
Paid(v, s, w) == [v EXCEPT ![w] = @ - WeightOf(Range(s))]

\* The cursor is shared, unless a candidate is no longer active.
Robin(r) ==
  /\ Scanned(r, "robin")
  /\ LET s == InOrder(r, seen[r])
         v == IF input[r].retired THEN [c \in Candidates |-> 0] ELSE cursor
         g == Gained(v, s)
         w == Winner(g, s)
     IN IF s = <<>>
          THEN NextTier(r) /\ UNCHANGED <<cursor, picked>>
          ELSE /\ picked' = [picked EXCEPT ![r] = w]
               /\ cursor' = IF input[r].retired THEN cursor ELSE Paid(g, s, w)
               /\ Goto(r, "acquire") /\ UNCHANGED <<tier, allow>>
  /\ Scan(r)
  /\ UNCHANGED <<health, input, draw, hit, wasDown, flaps, selects>>

\* select_preferred_channel_with_capability: the first tier with an eligible
\* candidate decides; the session's binding goes before the pinned channel.
PinAny(r) ==
  /\ \/ pc[r] = "pinAny" /\ tier[r] > Len(Tiers)
        /\ Goto(r, "none") /\ UNCHANGED tier
     \/ tier[r] <= Len(Tiers) /\ Scanned(r, "pinAny") /\ seen[r] = {}
        /\ tier' = [tier EXCEPT ![r] = @ + 1] /\ UNCHANGED pc
     \/ tier[r] <= Len(Tiers) /\ Scanned(r, "pinAny") /\ seen[r] # {}
        /\ Goto(r, "pinFind") /\ UNCHANGED tier
  /\ Scan(r)
  /\ UNCHANGED <<health, cursor, input, allow, draw, choice, wasDown,
                 flaps, selects>>

PinFind(r) ==
  /\ Scanned(r, "pinFind")
  /\ LET want == <<input[r].preferred, input[r].pin>>
         found == {i \in 1..2 : want[i] \in seen[r]}
     IN IF found = {} THEN Goto(r, "none") /\ UNCHANGED choice
        ELSE /\ Goto(r, "acquire")
             /\ picked' = [picked EXCEPT ![r] = want[Min(found)]]
             /\ hit' = [hit EXCEPT ![r] =
                          want[Min(found)] = input[r].preferred]
  /\ Scan(r)
  /\ UNCHANGED <<health, cursor, input, tier, allow, draw, wasDown,
                 flaps, selects>>

\* A channel goes down, for every request that is selecting.
WentDown(ch) ==
  wasDown' = [r \in Requests |->
                IF pc[r] = "idle" THEN wasDown[r] ELSE wasDown[r] \cup {ch}]

\* try_acquire_channel: an open channel, or the one probe of a half-open
\* one; a refused request looks at the tier again, without its affinity, and
\* a refused pin gives up.
Acquire(r) ==
  /\ pc[r] = "acquire"
  /\ LET ch == ChannelOf[picked[r]]
     IN \/ /\ health[ch] = "up"
           /\ Goto(r, "held")
           /\ UNCHANGED <<health, allow, wasDown>>
        \/ /\ health[ch] = "probe"
           /\ health' = [health EXCEPT ![ch] = "down"]
           /\ WentDown(ch)
           /\ Goto(r, "held") /\ UNCHANGED allow
        \/ /\ health[ch] = "down"
           /\ Goto(r, IF input[r].pin = None THEN "affinity" ELSE "none")
           /\ allow' = [allow EXCEPT ![r] = FALSE]
           /\ UNCHANGED <<health, wasDown>>
  /\ Scan(r)
  /\ UNCHANGED <<cursor, input, tier, draw, choice, flaps, selects>>

\* The caller has its answer.
Done(r) ==
  /\ pc[r] \in {"held", "none"}
  /\ Goto(r, "idle")
  /\ input' = [input EXCEPT ![r] = NoInput]
  /\ picked' = [picked EXCEPT ![r] = None] /\ hit' = [hit EXCEPT ![r] = FALSE]
  /\ wasDown' = [wasDown EXCEPT ![r] = {}]
  /\ tier' = [tier EXCEPT ![r] = 1]
  /\ UNCHANGED <<health, cursor, pos, allow, seen, draw, flaps, selects>>

\* Outcomes of requests and the clock change a channel's health.
Flap(ch, h) ==
  /\ flaps < MaxFlaps /\ health[ch] # h
  /\ flaps' = flaps + 1
  /\ health' = [health EXCEPT ![ch] = h]
  /\ IF h = "down" THEN WentDown(ch) ELSE UNCHANGED wasDown
  /\ UNCHANGED <<cursor, pc, input, walk, allow, draw, choice, selects>>

\* RoutingRuntime::reconcile clears the cursors.
Reconcile ==
  /\ cursor # [c \in Candidates |-> 0]
  /\ cursor' = [c \in Candidates |-> 0]
  /\ UNCHANGED <<health, pc, input, walk, allow, draw, choice, wasDown,
                 flaps, selects>>

Selecting(r) ==
  \/ Enter(r) \/ Affinity(r) \/ Total(r) \/ Spend(r) \/ Robin(r)
  \/ tier[r] <= Len(Tiers) /\ Look(r)
  \/ PinAny(r) \/ PinFind(r) \/ Acquire(r)

Next ==
  \/ \E r \in Requests : Selecting(r) \/ Done(r)
  \/ \E r \in Requests, i \in Inputs : Start(r, i)
  \/ \E ch \in Channels, h \in {"up", "probe", "down"} : Flap(ch, h)
  \/ Reconcile

Spec == Init /\ [][Next]_vars
FairSpec == Spec /\ \A r \in Requests : WF_vars(Selecting(r))

--------------------
TierOf(c) == CHOOSE t \in DOMAIN Tiers : c \in Range(Tiers[t].cands)

\* A request is given a candidate of a lower tier, or no route at all, only
\* if every candidate it was allowed to use in the tiers it left was down at
\* some time since it asked: neither the two passes of weighted_ticket nor a
\* lost race for a probe may skip a candidate that stayed healthy.
SkippedWereDown ==
  \A r \in Requests :
    /\ pc[r] \in {"held", "none"}
    /\ pc[r] = "none" => input[r].pin = None
    => \A c \in input[r].allowed :
         TierOf(c) < (IF pc[r] = "none" THEN Len(Tiers) + 1 ELSE tier[r])
           => ChannelOf[c] \in wasDown[r]

\* A session stays on its candidate: in the tier that serves the request, a
\* preferred candidate whose channel was never down is the one selected.
StickyWhenHealthy ==
  \A r \in Requests :
    /\ pc[r] = "held" /\ input[r].preferred \in input[r].allowed
    /\ TierOf(input[r].preferred) = tier[r]
    /\ ChannelOf[input[r].preferred] \notin wasDown[r]
    => picked[r] = input[r].preferred /\ hit[r]

\* What smooth round robin gives and takes cancels out, and no candidate is
\* ever further from its share than the weights of the tier, whichever
\* candidates were eligible in which round.
SharesFair ==
  /\ MapThenSumSet(LAMBDA c : cursor[c], Candidates) = 0
  /\ \A c \in Candidates :
       -WeightOf(Candidates) <= cursor[c] /\ cursor[c] <= WeightOf(Candidates)
============================================================================
