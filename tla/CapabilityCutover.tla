------------------------- MODULE CapabilityCutover -------------------------
\* The upgrade of a database whose channels carry one API format each to
\* logical channels with one capability per operation:
\*   src/persistence/capability_cutover.rs              rules and grants,
\*   src/persistence/capability_cutover/transfer.rs     the transfer,
\*   src/persistence/capability_cutover/io.rs           its storage,
\*   .../operation_split.rs, operation_split/storage.rs six operations,
\*   .../channel_authorization.rs, credential_ownership.rs  what follows.
\*
\* All stages run in one transaction at startup: a stage that refuses, or
\* a crash, leaves the legacy database as it was, and the next start tries
\* again.  Each legacy database of Legacies is one initial state.  An id
\* derived by hashing is the tuple of what is hashed.  Timestamps, names,
\* revisions and the columns that stages copy unread are left out.
EXTENDS Integers, FiniteSets, Sequences

CONSTANTS
  Legacies,    \* legacy databases
  MaxCrashes

VARIABLES
  legacy,      \* the legacy tables, until they are retired
  stage,       \* "legacy", "transferred", "split", "authorized", "done", "refused"
  topo,        \* the canonical tables
  registry,    \* identity registries: [group, channel, rule], id -> canonical id
  crashes

vars == <<legacy, stage, topo, registry, crashes>>

Empty == [groups |-> {}, accesses |-> {}, channels |-> {}, caps |-> {},
          rules |-> {}, tiers |-> {}, cands |-> {}, grants |-> {}]
NoHistory == [group |-> {}, channel |-> {}, rule |-> {}]
Nothing == <<>>

Pick(S) == CHOOSE x \in S : TRUE
ById(S, i) == CHOOSE x \in S : x.id = i

Init ==
  /\ legacy \in Legacies /\ stage = "legacy" /\ crashes = 0
  /\ topo = Empty /\ registry = NoHistory

--------------------
\* transfer: legacy rows

GroupOf(c) == ById(legacy.groups, c.group)
Codex(c) == GroupOf(c).codex

RequiredOperations(f) ==
  CASE f = "chat" -> {"chat"}
    [] f = "responses" -> {"responses"}
    [] f = "images" -> {"generation", "edit"}

CapabilitySet(c) ==
  RequiredOperations(c.format)
    \cup IF c.format = "responses" /\ c.search THEN {"search"} ELSE {}

CapabilityId(c, op) == c.id \o <<"capability", op>>

\* The Responses group stands for a Codex pool.
ResponsesGroups(pool) ==
  {g \in legacy.groups : g.codex /\ g.pool = pool /\ g.format = "responses"}

CanonicalGroup(g) == IF g.codex THEN Pick(ResponsesGroups(g.pool)).id ELSE g.id

PoolsComplete ==
  \A g \in legacy.groups : g.codex => Cardinality(ResponsesGroups(g.pool)) = 1

\* Codex channels are projections of a credential.
Projections(c) ==
  {p \in legacy.projections : p.channel = c.id /\ p.format = c.format}

Credential(i) == ById(legacy.credentials, i)

\* A projection may only have lost its credential by deletion.
BindingValid(c) ==
  /\ Projections(c) # {}
  /\ LET i == Pick(Projections(c)).credential
     IN /\ \E x \in legacy.credentials : x.id = i
        /\ \/ c.credential = i
           \/ c.credential = Nothing /\ (c.deleted \/ Credential(i).deleted)

LogicalId(c) == IF Codex(c) THEN Pick(Projections(c)).credential ELSE c.id

LogicalIds == {LogicalId(c) : c \in legacy.channels}
Members(l) == {c \in legacy.channels : LogicalId(c) = l}
IsCodex(l) == \E c \in Members(l) : Codex(c)

\* Live projections of one identity share one upstream access.
NetworksAgree(l) ==
  Credential(l).deleted
    \/ \A c, d \in {m \in Members(l) : ~m.deleted} : c.net = d.net

IdentityValid(l) ==
  IsCodex(l) =>
    /\ \E c \in Members(l) : c.format = "responses" /\ c.id = l
    /\ NetworksAgree(l)

\* The row that names a logical channel.
Identity(l) == Pick({c \in Members(l) : IsCodex(l) => c.format = "responses"})

LogicalDeleted(l) ==
  Identity(l).deleted \/ (IsCodex(l) /\ Credential(l).deleted)

Network(l) ==
  LET live == {c \in Members(l) : ~c.deleted}
  IN IF LogicalDeleted(l) THEN "deleted.invalid"
     ELSE IF IsCodex(l) /\ live # {} THEN Pick(live).net ELSE Identity(l).net

RoutingGroups ==
  {[id |-> CanonicalGroup(g), enabled |-> (g.codex \/ g.enabled) /\ ~g.deleted,
    deleted |-> g.deleted] :
     g \in {h \in legacy.groups : h.codex => h.format = "responses"}}

Accesses ==
  {[id |-> l \o <<"access">>, net |-> Network(l), codex |-> IsCodex(l),
    enabled |-> ~LogicalDeleted(l)] : l \in LogicalIds}

LogicalChannels ==
  {[id |-> l, group |-> CanonicalGroup(GroupOf(Identity(l))),
    access |-> l \o <<"access">>,
    credential |-> IF LogicalDeleted(l) THEN Nothing
                   ELSE IF IsCodex(l) THEN l ELSE Identity(l).credential,
    enabled |-> (IsCodex(l) \/ Identity(l).enabled) /\ ~LogicalDeleted(l),
    deleted |-> LogicalDeleted(l)] : l \in LogicalIds}

Transports(c, op) ==
  CASE op = "chat" -> {"json", "sse"}
    [] op = "responses" -> (IF Codex(c) THEN {"sse"} ELSE {"json", "sse"})
                             \cup (IF c.ws THEN {"websocket"} ELSE {})
    [] op \in {"search", "generation"} -> {"json"}
    [] op = "edit" -> {"multipart"}

CapabilityOf(c, op) ==
  LET deleted == c.deleted \/ LogicalDeleted(LogicalId(c))
  IN [id |-> CapabilityId(c, op), channel |-> LogicalId(c), op |-> op,
      transports |-> Transports(c, op),
      enabled |-> (Codex(c) => c.enabled /\ GroupOf(c).enabled) /\ ~deleted,
      probe |-> IF ~Codex(c) /\ op \in {"chat", "responses"} THEN c.probe ELSE "none",
      auto |-> c.auto /\ ~deleted, deleted |-> deleted]

Capabilities ==
  UNION {{CapabilityOf(c, op) : op \in CapabilitySet(c)} : c \in legacy.channels}

\* CapabilitySettings::validate: the probe model is one of the catalogue, and
\* Codex has no chat completions.
SettingsValid(cap, codex) ==
  /\ cap.probe # "unlisted"
  /\ ~(codex /\ cap.op = "chat")

--------------------
\* transfer: rules and grants

\* validate_rule
RuleValid(r) ==
  /\ r.enabled => r.cands # {}
  /\ \A x \in r.cands :
       /\ x.weight > 0
       /\ \E c \in legacy.channels : c.id = x.channel /\ c.format = r.format

RuleOperations(r) ==
  RequiredOperations(r.format)
    \cup {op \in {"search"} : \E x \in r.cands :
                                op \in CapabilitySet(ById(legacy.channels, x.channel))}

LegacyDefault(f) ==
  CASE f = "chat" -> "chat" [] f = "responses" -> "responses" [] f = "images" -> "generation"

OperationRuleId(r, op) ==
  IF op = LegacyDefault(r.format) THEN r.id ELSE r.id \o <<"rule", op>>

\* rewrite_rules, then only live capabilities are kept as candidates.
Candidates(r, op, caps) ==
  {[tier |-> OperationRuleId(r, op) \o <<x.priority>>, op |-> op,
    cap |-> CapabilityId(ById(legacy.channels, x.channel), op),
    model |-> x.model, weight |-> x.weight] :
      x \in {y \in r.cands : \E cap \in caps :
               /\ cap.id = CapabilityId(ById(legacy.channels, y.channel), op)
               /\ ~cap.deleted}}

OperationRules(caps) ==
  UNION {{[id |-> OperationRuleId(r, op), profile |-> r.model, op |-> op,
           enabled |-> r.enabled /\ Candidates(r, op, caps) # {}] :
             op \in RuleOperations(r)} : r \in legacy.rules}

OperationCandidates(caps) ==
  UNION {UNION {Candidates(r, op, caps) : op \in RuleOperations(r)} : r \in legacy.rules}

OperationTiers(caps) ==
  UNION {UNION {{[id |-> OperationRuleId(r, op) \o <<x.priority>>, op |-> op,
                  rule |-> OperationRuleId(r, op), priority |-> x.priority] :
                    x \in {y \in r.cands : \E c \in Candidates(r, op, caps) :
                             c.tier = OperationRuleId(r, op) \o <<y.priority>>}} :
                  op \in RuleOperations(r)} : r \in legacy.rules}

\* add_grants
GrantsOf(k, c, kind, origin) ==
  IF c.format \notin k.formats THEN {}
  ELSE {[owner |-> k.id, cap |-> CapabilityId(c, op), kind |-> kind,
         origin |-> origin] : op \in CapabilitySet(c)}

\* rewrite_target_grants: the channels of the selected group itself.
TargetGrants(k) ==
  UNION {GrantsOf(k, c, "group", CanonicalGroup(GroupOf(c))) :
           c \in {d \in legacy.channels : d.group \in k.groups}}
  \cup UNION {GrantsOf(k, c, "channel", LogicalId(c)) :
                c \in {d \in legacy.channels : d.id \in k.channels}}

OwnersKnown(k) == /\ k.groups \subseteq {g.id : g \in legacy.groups}
                  /\ k.channels \subseteq {c.id : c \in legacy.channels}

\* Physical channels and their capabilities stay resolvable.
ChannelHistory ==
  {<<c.id, LogicalId(c)>> : c \in legacy.channels}
    \cup {<<cap.id, cap.channel>> : cap \in Capabilities}

RuleHistory ==
  {<<r.id, r.id>> : r \in legacy.rules}
    \cup {<<r.id, r.id>> : r \in OperationRules(Capabilities)}

\* What transfer checks, in the order in which later checks may assume earlier.
Transferable ==
  /\ PoolsComplete
  /\ \A c \in legacy.channels : Codex(c) => BindingValid(c)
  /\ \A l \in LogicalIds : IdentityValid(l)
  /\ \A cap \in Capabilities : SettingsValid(cap, IsCodex(cap.channel))
  /\ \A r \in legacy.rules : RuleValid(r) /\ r.model \in legacy.profiles
  /\ \A r, s \in legacy.rules :
       r.model = s.model /\ RuleOperations(r) \cap RuleOperations(s) # {} => r = s
  /\ \A k \in legacy.owners : OwnersKnown(k)

\* What pg_insert and sqlite_insert write, row for row, ...
TransferredTopology ==
  [groups |-> RoutingGroups, accesses |-> Accesses, channels |-> LogicalChannels,
   caps |-> Capabilities, rules |-> OperationRules(Capabilities),
   tiers |-> OperationTiers(Capabilities), cands |-> OperationCandidates(Capabilities),
   grants |-> UNION {TargetGrants(k) : k \in legacy.owners}]

\* ... and the registries to which history is retargeted.
TransferredRegistry ==
  [group |-> {<<g.id, CanonicalGroup(g)>> : g \in legacy.groups},
   channel |-> ChannelHistory, rule |-> RuleHistory]

Transfer ==
  /\ stage = "legacy" /\ topo = Empty /\ Transferable
  /\ topo' = TransferredTopology
  /\ registry' = TransferredRegistry
  /\ stage' = "transferred"
  /\ UNCHANGED <<legacy, crashes>>

--------------------
\* operation_split: Responses over WebSocket becomes an operation

\* capability_operations, in order.
SplitOperations(cap) ==
  IF cap.op # "responses" THEN <<cap.op>>
  ELSE (IF cap.transports \cap {"json", "sse"} # {} THEN <<"responses">> ELSE <<>>)
         \o (IF "websocket" \in cap.transports THEN <<"responses-ws">> ELSE <<>>)

\* The first operation keeps the identity.
SplitId(id, ops, n) == IF n = 1 THEN id ELSE id \o <<"split">>

SplitCapabilities(cap) ==
  LET ops == SplitOperations(cap)
  IN {[[cap EXCEPT !.id = SplitId(cap.id, ops, n), !.op = ops[n]]
        EXCEPT !.probe = IF ops[n] = "responses-ws" THEN "none" ELSE @] :
          n \in DOMAIN ops}

\* The capability that takes over cap for op, if any.
Projection(cap, op) == {x.id : x \in {y \in SplitCapabilities(cap) : y.op = op}}

CapOf(x) == ById(topo.caps, x.cap)
CandsOf(r) == {x \in topo.cands : \E t \in topo.tiers : t.id = x.tier /\ t.rule = r.id}

\* Operations that some candidate of the rule offers, in order.
RuleSplit(r) ==
  LET offered == UNION {{y.op : y \in SplitCapabilities(CapOf(x))} : x \in CandsOf(r)}
      all == IF offered = {} THEN {r.op} ELSE offered
  IN (IF all \ {"responses-ws"} # {} THEN <<Pick(all \ {"responses-ws"})>> ELSE <<>>)
       \o (IF "responses-ws" \in all THEN <<"responses-ws">> ELSE <<>>)

RuleSplitId(r, op) ==
  LET ops == RuleSplit(r)
  IN SplitId(r.id, ops, CHOOSE n \in DOMAIN ops : ops[n] = op)

Offered(r) == {RuleSplit(r)[n] : n \in DOMAIN RuleSplit(r)}
RuleOf(t) == ById(topo.rules, t.rule)

\* Operations some candidate of the tier offers; the first keeps the identity.
TierSplit(t) ==
  SelectSeq(RuleSplit(RuleOf(t)),
            LAMBDA op : \E x \in topo.cands : x.tier = t.id /\ Projection(CapOf(x), op) # {})

TierSplitId(t, op) ==
  LET ops == TierSplit(t)
  IN IF op = ops[1] THEN t.id ELSE t.id \o <<"split">>

\* Candidates whose capability offers the operation.
SplitCandidates(t, op) ==
  UNION {{[x EXCEPT !.op = op, !.tier = TierSplitId(t, op), !.cap = i] :
            i \in Projection(CapOf(x), op)} : x \in {y \in topo.cands : y.tier = t.id}}

\* A grant follows its capability.
SplitGrants(g) == {[g EXCEPT !.cap = x.id] : x \in SplitCapabilities(ById(topo.caps, g.cap))}

SplitTopology ==
  [topo EXCEPT
    !.caps = UNION {SplitCapabilities(cap) : cap \in @},
    !.rules = UNION {{[r EXCEPT !.id = RuleSplitId(r, op), !.op = op] : op \in Offered(r)} :
                       r \in @},
    !.tiers = UNION {{[t EXCEPT !.id = TierSplitId(t, op), !.op = op,
                                !.rule = RuleSplitId(RuleOf(t), op)] :
                        op \in {TierSplit(t)[n] : n \in DOMAIN TierSplit(t)}} : t \in @},
    !.cands = UNION {UNION {SplitCandidates(t, op) : op \in Offered(RuleOf(t))} :
                       t \in topo.tiers},
    !.grants = UNION {SplitGrants(g) : g \in @}]

\* What plan checks: operations agree, and neither a tier nor an enabled rule
\* is without a candidate.
Splittable ==
  /\ \A x \in topo.cands : /\ x.op = CapOf(x).op /\ x.weight > 0
                            /\ \E t \in topo.tiers : t.id = x.tier /\ t.op = x.op
  /\ \A t \in topo.tiers : /\ t.op = RuleOf(t).op
                            /\ \E x \in topo.cands : x.tier = t.id
  /\ \A r \in topo.rules : r.enabled => CandsOf(r) # {}
  /\ \A r, s \in topo.rules : r.profile = s.profile /\ r.op = s.op => r = s

Split ==
  /\ stage = "transferred" /\ Splittable
  /\ topo' = SplitTopology
  /\ registry' = [registry EXCEPT
       !.channel = @ \cup {<<cap.id, cap.channel>> : cap \in topo'.caps},
       !.rule = @ \cup {<<r.id, r.id>> : r \in topo'.rules}]
  /\ stage' = "split"
  /\ UNCHANGED <<legacy, crashes>>

--------------------
\* channel_authorization and credential_ownership

\* A capability's channel is granted, not the current members of a group.
ChannelGrant(g) ==
  {[owner |-> g.owner, cap |-> ById(topo.caps, g.cap).channel, kind |-> g.kind,
    origin |-> g.origin]}

Authorize ==
  /\ stage = "split"
  /\ topo' = [topo EXCEPT !.grants = UNION {ChannelGrant(g) : g \in @}]
  /\ stage' = "authorized"
  /\ UNCHANGED <<legacy, registry, crashes>>

\* The CHECK of 0068: a live Codex credential has an address, hence a channel.
Owned ==
  \A k \in legacy.credentials : ~k.deleted => \E c \in topo.channels : c.credential = k.id

\* Pools go; Codex credentials keep the addresses their channels use.
OwnCredentials ==
  /\ stage = "authorized" /\ Owned
  /\ topo' = [topo EXCEPT !.channels =
       {[id |-> c.id, group |-> c.group, access |-> c.access,
         credential |-> c.credential, enabled |-> c.enabled, deleted |-> c.deleted,
         urls |-> IF c.credential = Nothing \/ ~ById(topo.accesses, c.access).codex THEN {}
                  ELSE {a.net : a \in {b \in topo.accesses :
                          \E d \in topo.channels : /\ d.credential = c.credential
                                                   /\ d.access = b.id}}] : c \in @}]
  /\ stage' = "done"
  /\ UNCHANGED <<legacy, registry, crashes>>

\* The transfer or the CHECK refuses (SplitNeverRefuses): the transaction is
\* rolled back and the gateway does not start.
Refuse ==
  /\ \/ stage = "legacy" /\ ~Transferable
     \/ stage = "authorized" /\ ~Owned
  /\ stage' = "refused" /\ topo' = Empty /\ registry' = NoHistory
  /\ UNCHANGED <<legacy, crashes>>

\* The gateway dies before the commit.
Crash ==
  /\ stage \in {"transferred", "split", "authorized"} /\ crashes < MaxCrashes
  /\ crashes' = crashes + 1
  /\ stage' = "legacy" /\ topo' = Empty /\ registry' = NoHistory
  /\ UNCHANGED legacy

Next == Transfer \/ Split \/ Authorize \/ OwnCredentials \/ Refuse \/ Crash

Spec == Init /\ [][Next]_vars

--------------------
\* What the legacy gateway did

LegacyLive(c) ==
  /\ c.enabled /\ ~c.deleted /\ GroupOf(c).enabled
  /\ Codex(c) => \E p \in Projections(c) : ~Credential(p.credential).deleted

LegacyOperations(c) ==
  CapabilitySet(c) \cup IF c.format = "responses" /\ c.ws THEN {"responses-ws"} ELSE {}

\* A WebSocket request was a Responses request on a channel that supports it.
LegacyRoutes ==
  UNION {UNION {
    {<<r.model, op, x.channel, x.model, x.weight, x.priority>> :
       op \in LegacyOperations(ById(legacy.channels, x.channel))} :
       x \in {y \in r.cands : LegacyLive(ById(legacy.channels, y.channel))}} :
    r \in {s \in legacy.rules : s.enabled}}

LegacySelected(k) ==
  {c \in legacy.channels : /\ c.format \in k.formats
                           /\ c.group \in k.groups \/ c.id \in k.channels}

--------------------
\* What the upgraded gateway does

Serves(cap) ==
  LET ch == ById(topo.channels, cap.channel)
  IN /\ cap.enabled /\ ~cap.deleted /\ ch.enabled /\ ~ch.deleted
     /\ ById(topo.groups, ch.group).enabled /\ ById(topo.accesses, ch.access).enabled

\* The physical channel whose traffic a capability took over.
PhysicalOf(i) == CHOOSE c \in {d.id : d \in legacy.channels} :
                   SubSeq(i, 1, Len(c)) = c /\ i[Len(c) + 1] = "capability"

Routes ==
  UNION {UNION {
    {<<r.profile, r.op, PhysicalOf(x.cap), x.model, x.weight, t.priority>> :
       x \in {y \in topo.cands : y.tier = t.id /\ Serves(ById(topo.caps, y.cap))}} :
       t \in {u \in topo.tiers : u.rule = r.id}} : r \in {s \in topo.rules : s.enabled}}

TypeOK ==
  /\ stage \in {"legacy", "transferred", "split", "authorized", "done", "refused"}
  /\ DOMAIN topo = DOMAIN Empty /\ crashes \in 0..MaxCrashes
  /\ stage \in {"legacy", "refused"} <=> topo = Empty

\* Once operations are split, each model reaches over each operation exactly
\* the upstreams it reached before, with the same upstream names, weights and
\* priorities: the split neither doubles weights nor sends a WebSocket request
\* to a channel without WebSocket, and no switch, of group, channel or
\* credential, is lost when Codex pairs are merged.
RoutesPreserved ==
  stage \in {"split", "authorized", "done"} => Routes = LegacyRoutes

\* "It fails closed whenever a legacy draft cannot be represented without
\* widening or silently dropping authority": until authorization moves to
\* channels a key or policy holds exactly the capabilities of the channels
\* that it had selected in a format it was allowed.
GrantsPreserved ==
  stage \in {"transferred", "split"} =>
    \A k \in legacy.owners :
      {PhysicalOf(g.cap) : g \in {h \in topo.grants : h.owner = k.id}}
        = {c.id : c \in LegacySelected(k)}

\* Channel grants name the logical channels of those selections, "never the
\* current membership of a selected group".
ChannelsNotWidened ==
  stage \in {"authorized", "done"} =>
    \A k \in legacy.owners :
      {g.cap : g \in {h \in topo.grants : h.owner = k.id}}
        = {LogicalId(c) : c \in LegacySelected(k)}

\* A grant that came from a group is live: its origin is the group the channel
\* is in, so that merging groups does not silently drop authority.
OriginsAreLive ==
  stage \in {"authorized", "done"} =>
    \A g \in topo.grants :
      LET ch == ById(topo.channels, g.cap)
      IN g.origin = IF g.kind = "group" THEN ch.group ELSE ch.id

\* Every identity that a request log may hold, legacy or new, resolves to a row
\* that exists.
HistoryResolves ==
  stage \in {"split", "authorized", "done"} =>
    /\ \A g \in legacy.groups : \E h \in registry.group :
         h[1] = g.id /\ h[2] \in {x.id : x \in topo.groups}
    /\ \A i \in {c.id : c \in legacy.channels} \cup {c.id : c \in topo.caps} :
         \E h \in registry.channel : h[1] = i /\ h[2] \in {x.id : x \in topo.channels}
    /\ \A i \in {r.id : r \in legacy.rules} \cup {r.id : r \in topo.rules} :
         \E h \in registry.rule : h[1] = i /\ h[2] \in {x.id : x \in topo.rules}

\* A retired identity is not revived: neither a deleted channel nor a channel
\* of a deleted credential keeps an upstream address, a credential, an enabled
\* capability or a route.
RetiredStaysRetired ==
  stage \in {"transferred", "split", "authorized", "done"} =>
    \A c \in legacy.channels :
      c.deleted \/ (Codex(c) /\ Credential(LogicalId(c)).deleted) =>
        /\ \A x \in topo.caps : PhysicalOf(x.id) = c.id => x.deleted /\ ~x.enabled
        /\ \A x \in topo.cands : PhysicalOf(x.cap) # c.id
        /\ LogicalDeleted(LogicalId(c)) =>
             \A x \in topo.channels : x.id = LogicalId(c) => x.credential = Nothing

\* What the transfer writes, the split accepts: of the stages after the
\* transfer only credential ownership may refuse.
SplitNeverRefuses == stage = "transferred" => Splittable

\* Only a contradictory database is refused: leftovers of deleted rows are not
\* contradictions.
RefusedForCause ==
  stage = "refused" =>
    \/ ~PoolsComplete
    \/ \E c \in legacy.channels : Codex(c) /\ ~BindingValid(c)
    \/ \E c, d \in legacy.channels : /\ ~c.deleted /\ ~d.deleted /\ c.net # d.net
                                     /\ Codex(c) /\ Codex(d) /\ LogicalId(c) = LogicalId(d)
    \/ \E c \in legacy.channels : c.probe = "unlisted"
    \/ \E c \in legacy.channels : Codex(c) /\ c.deleted /\ ~Credential(LogicalId(c)).deleted
    \/ \E r \in legacy.rules : ~RuleValid(r) \/ r.model \notin legacy.profiles

=============================================================================
