--------------------------- MODULE RuntimeCompile ---------------------------
\* The compiler of the runtime configuration (src/runtime_config/mod.rs):
\* the control-plane records and the plugin catalogue become the immutable
\* snapshot (src/domain/compiled_routing.rs) a request is authenticated,
\* authorised and routed with.
\*
\* A channel here is a capability row: one operation of one upstream. Slots
\* are positions in bit sets of WordBits-bit words, as in the code (64).
EXTENDS Integers, FiniteSets, Sequences, SequencesExt

CONSTANTS
  Databases,    \* the records a run compiles, with the state of each plugin
  Models,       \* upstream and client model names
  WordBits,     \* bits in a word of a slot set
  MaxRetries,   \* MAX_REQUEST_RETRIES
  MaxTtl,       \* MAX_SESSION_AFFINITY_TTL_SECONDS
  MaxAge,       \* the upper bound of max_connection_age_seconds
  MinAge,       \* its lower bound
  MaxPrice      \* the largest unit price a request log row can hold

CompileAssumption ==
  /\ WordBits \in Nat \ {0}
  /\ {MaxRetries, MaxTtl, MaxAge, MinAge} \subseteq Nat \ {0}

VARIABLES
  db,       \* RuntimeConfigRecords
  snap      \* the compiled snapshot; Empty before the first compilation

vars == <<db, snap>>

Operations == {"chat_completion", "responses", "responses-ws", "web_search",
               "images_generation", "images_edit"}

Protocols == {"non_stream", "sse", "websocket"}

General == "openai_compatible"

Codex == "codex_oauth"

\* The format a key is permitted and a model list is asked for.
api_format(op) ==
  CASE op = "chat_completion" -> "chat"
    [] op \in {"responses", "responses-ws", "web_search"} -> "responses"
    [] OTHER -> "images"

\* Transports are derived from the operation, never configured.
transports(op) ==
  CASE op \in {"chat_completion", "responses"} -> {"json", "sse"}
    [] op = "responses-ws" -> {"websocket"}
    [] op = "images_edit" -> {"multipart"}
    [] OTHER -> {"json"}

Empty == [ok |-> FALSE, slot |-> <<>>, channel |-> <<>>, probe |-> <<>>,
          rule |-> <<>>, key |-> <<>>, errors |-> <<>>]

--------------------
\* System settings.

RangeOf(f) == {f[x] : x \in DOMAIN f}

Unique(s) == \A i, j \in DOMAIN s : s[i] = s[j] => i = j

\* A key source: a client header that is neither a credential nor about the
\* connection, or a well-formed JSON pointer.
KeySourceValid(src) == src \in {"client header", "pointer"}

\* A session-affinity rule: every rule is validated, enabled or not.
AffinityRuleValid(r, dflt) ==
  /\ r.formats # {} /\ "images" \notin r.formats
  /\ r.sources # {} /\ \A src \in r.sources : KeySourceValid(src)
  /\ LET ttl == IF r.ttl = 0 THEN dflt ELSE r.ttl
     IN ttl \in 1..MaxTtl

AffinityValid(a) ==
  /\ a.entries > 0
  /\ a.ttl \in 1..MaxTtl
  /\ Unique([i \in DOMAIN a.rules |-> a.rules[i].name])
  /\ \A i \in DOMAIN a.rules : AffinityRuleValid(a.rules[i], a.ttl)

SettingsValid(s) ==
  /\ s.connect > 0 /\ s.header > s.connect /\ s.streamIdle > 0
  /\ s.retries \in 1..MaxRetries
  /\ s.threshold > 0 /\ s.cooldown > 0
  /\ s.wsIdle > 0 /\ s.wsAge \in MinAge..MaxAge /\ s.wsIdle < s.wsAge
  /\ AffinityValid(s.affinity)

\* What the consumers of the settings assert or divide by: update_policy's
\* two assertions, and the sweeps of the affinity and WebSocket caches.
PolicyAsserts(s) == s.threshold > 0 /\ s.cooldown > 0

--------------------
\* Plugins.

\* The stages an enabled plugin passes before it is configured, in order;
\* `faults` are the ones that would fail.
Stages(p) ==
  <<"artifact_missing", "artifact_unavailable", "plugin_load_failed",
    "incomplete_plugin_contract", "invalid_settings_schema">>
  \o (IF p.settings THEN <<"settings_missing", "invalid_settings">> ELSE <<>>)
  \o <<"invalid_capabilities">>

Failing(p) == SelectSeq(Stages(p), LAMBDA s : s \in p.faults)

PluginErrors(d) ==
  LET bad == {k \in DOMAIN d.plugin :
                d.plugin[k].on /\ Failing(d.plugin[k]) # <<>>}
  IN [k \in bad |-> Head(Failing(d.plugin[k]))]

Configured(d) ==
  {k \in DOMAIN d.plugin : d.plugin[k].on /\ Failing(d.plugin[k]) = <<>>}

\* The plugin of the channel's connector runs its operation.
Implemented(d, ch) ==
  ch.kind = General \/
  (ch.kind \in Configured(d) /\ ch.op \in DOMAIN d.plugin[ch.kind].protocols)

\* A channel whose plugin is not usable is compiled as a disabled one.
WithPlugins(d) ==
  [d EXCEPT !.channel =
     [c \in DOMAIN @ |-> [@[c] EXCEPT !.on = @ /\ Implemented(d, d.channel[c])]]]

\* A protocol version 3 plugin restricts the transports of its channels.
ProtocolTransport(op, proto) ==
  CASE proto = "non_stream" -> IF op = "images_edit" THEN "multipart" ELSE "json"
    [] proto = "sse" -> "sse"
    [] proto = "websocket" -> "websocket"

Strict(d, ch) == ch.kind \in Configured(d) /\ d.plugin[ch.kind].v3

Mask(d, ch) ==
  IF Strict(d, ch)
  THEN transports(ch.op) \cap
       {ProtocolTransport(ch.op, p) : p \in d.plugin[ch.kind].protocols[ch.op]}
  ELSE transports(ch.op)

--------------------
\* Validation.

\* SOCKS4 has no credentials and SOCKS5 both or none.
validate_proxy_credentials(x) ==
  /\ x.scheme = "socks4" => ~x.user /\ ~x.password
  /\ x.scheme = "socks5" => x.user = x.password

\* Every proxy is validated; only the enabled ones can be referred to.
ProxiesValid(d) ==
  \A x \in DOMAIN d.proxy : validate_proxy_credentials(d.proxy[x])

CompiledProxies(d) == {x \in DOMAIN d.proxy : d.proxy[x].on}

CompiledTemplates(d) == {t \in DOMAIN d.template : d.template[t].on}

ResourcesValid(d, ch) ==
  /\ ch.proxy = "" \/ ch.proxy \in CompiledProxies(d)
  /\ ch.template # "" =>
       /\ ch.template \in CompiledTemplates(d)
       /\ d.template[ch.template].format \in {"", api_format(ch.op)}

\* The largest price a request can be charged, with the channel's and the
\* model's multipliers, must fit the column of the request log.
PriceFits(d, m, ch) ==
  d.price[m].unit * d.price[m].factor * ch.multiplier <= MaxPrice

ChannelValid(d, ch) ==
  /\ ch.group \in DOMAIN d.group
  /\ ch.kind = Codex => ch.op # "chat_completion"
  /\ ch.test # "" =>
       /\ ch.kind = General
       /\ ch.op \in {"chat_completion", "responses"}
       /\ ch.test \in ch.models
  /\ ResourcesValid(d, ch)
  (* An enabled channel's URL and credentials must parse, and a search      *)
  (* channel may not rewrite its body.                                      *)
  /\ ch.on => ch.sound /\ (ch.op = "web_search" => ~ch.rewrites)

\* A scheduled test is billed by a model of its own.
ScheduledTestValid(d, ch) ==
  ch.test # "" => ch.pricing \in DOMAIN d.price /\ PriceFits(d, ch.pricing, ch)

CandidatesOf(r) == FlattenSeq([i \in DOMAIN r.tiers |-> r.tiers[i].cands])

RuleValid(d, r) ==
  /\ r.on => r.tiers # <<>>
  /\ Unique([i \in DOMAIN r.tiers |-> r.tiers[i].priority])
  /\ \A i \in DOMAIN r.tiers :
       /\ r.tiers[i].cands # <<>>
       /\ Unique(r.tiers[i].cands)
  /\ \A c \in RangeOf(CandidatesOf(r)) :
       /\ c[1] \in DOMAIN d.channel
       /\ d.channel[c[1]].op = r.op

\* Two enabled rules may not serve one operation and client model.
Live(r) == r.on /\ r.modelOn

RulesValid(d) ==
  /\ \A i \in DOMAIN d.rule : RuleValid(d, d.rule[i])
  /\ \A i, j \in DOMAIN d.rule :
       Live(d.rule[i]) /\ Live(d.rule[j]) /\
       d.rule[i].op = d.rule[j].op /\ d.rule[i].model = d.rule[j].model
         => i = j

\* Prices are checked for the candidates that offer their model, whether
\* they can be selected or not.
PricesValid(d) ==
  \A r \in RangeOf(d.rule) : Live(r) =>
    \A c \in RangeOf(CandidatesOf(r)) :
      c[2] \in d.channel[c[1]].models => PriceFits(d, r.priced, d.channel[c[1]])

KeyValid(d, k) == k.perms # {} /\ k.channels \subseteq DOMAIN d.channel

Valid(d) ==
  /\ SettingsValid(d.settings)
  /\ ProxiesValid(d)
  /\ \A c \in DOMAIN d.channel :
       ChannelValid(d, d.channel[c]) /\ ScheduledTestValid(d, d.channel[c])
  /\ RulesValid(d) /\ PricesValid(d)
  /\ \A k \in DOMAIN d.key : KeyValid(d, d.key[k])

--------------------
\* Bit sets.

Words(S, n) ==
  [w \in 0 .. ((n + WordBits - 1) \div WordBits) - 1 |->
     {b \in 0 .. WordBits - 1 : w * WordBits + b \in S}]

bit_is_set(words, slot) ==
  LET w == slot \div WordBits
  IN w \in DOMAIN words /\ (slot % WordBits) \in words[w]

Intersect(u, v) == \E w \in DOMAIN u \cap DOMAIN v : u[w] \cap v[w] # {}

AnySet(u) == \E w \in DOMAIN u : u[w] # {}

--------------------
\* Channels, rules and keys.

channel_slots(d) ==
  [c \in DOMAIN d.channel |-> Cardinality({o \in DOMAIN d.channel : o < c})]

CompiledChannel(d, ch) ==
  [kind |-> ch.kind, op |-> ch.op, mask |-> Mask(d, ch), strict |-> Strict(d, ch)]

Probes(d) == {c \in DOMAIN d.channel : d.channel[c].on}

Selectable(d, c) ==
  d.channel[c].on /\ ~d.channel[c].auto /\ d.group[d.channel[c].group].on

Capable(d, r) ==
  SelectSeq(CandidatesOf(r), LAMBDA c : c[2] \in d.channel[c[1]].models)

\* A pair that several tiers name keeps the slot of its first occurrence.
candidate_slots(d, r) ==
  LET act == SelectSeq(Capable(d, r), LAMBDA c : Selectable(d, c[1]))
      First(p) == CHOOSE i \in DOMAIN act :
                    act[i] = p /\ \A j \in 1 .. i - 1 : act[j] # p
  IN [p \in RangeOf(act) |->
        Cardinality({act[j] : j \in 1 .. First(p) - 1})]

Before(a, b) == a.pair[1] < b.pair[1]

\* Mutant of ByPriority: the tiers stay as the record lists them.
ByPriorityListed(r) == r.tiers

ByPriority(r) == SortSeq(r.tiers, LAMBDA s, t : s.priority < t.priority)

\* Tiers in priority order, each with its candidates that can be selected;
\* a tier without one is left out.
compiled_tiers(d, r) ==
  LET slots == candidate_slots(d, r)
      Cands(t) == SelectSeq(t.cands, LAMBDA c : c \in DOMAIN slots)
      Entry(p) == [pair |-> p, slot |-> slots[p], chan |-> channel_slots(d)[p[1]]]
      Compiled(t) ==
        SortSeq([i \in DOMAIN Cands(t) |-> Entry(Cands(t)[i])], Before)
  IN SelectSeq([i \in DOMAIN ByPriority(r) |-> Compiled(ByPriority(r)[i])],
               LAMBDA t : t # <<>>)

CompiledRule(d, r) ==
  LET slot == channel_slots(d)
      n == Cardinality(DOMAIN d.channel)
  IN [op |-> r.op, model |-> r.model, tiers |-> compiled_tiers(d, r),
      target |-> Words({slot[c[1]] : c \in RangeOf(CandidatesOf(r))}, n),
      capable |-> Words({slot[c[1]] : c \in RangeOf(Capable(d, r))}, n)]

\* Route slots number the enabled rules in record order, from zero.
compile_rules(d) ==
  LET live == SelectSeq(d.rule, Live)
  IN [i \in 0 .. Len(live) - 1 |-> CompiledRule(d, live[i + 1])]

\* The routes a channel authorises: those that name it for a model it
\* offers, or that name it when no channel of the route offers the model.
routes_by_channel_slot(d, s) ==
  LET live == SelectSeq(d.rule, Live)
      Chans(seq) == {channel_slots(d)[c[1]] : c \in RangeOf(seq)}
      Authorising(r) == IF Capable(d, r) # <<>> THEN Chans(Capable(d, r))
                        ELSE Chans(CandidatesOf(r))
  IN {i \in 0 .. Len(live) - 1 : s \in Authorising(live[i + 1])}

CompiledKey(d, k) ==
  LET slots == {channel_slots(d)[c] : c \in k.channels}
  IN [perms |-> k.perms,
      channels |-> Words(slots, Cardinality(DOMAIN d.channel)),
      routes |-> Words(UNION {routes_by_channel_slot(d, s) : s \in slots},
                       Len(SelectSeq(d.rule, Live)))]

UsableKey(k) == k.status = "active" /\ k.user = "active"

--------------------
\* The snapshot of records that are valid once the plugins are applied.
Snapshot(d0) ==
  LET d == WithPlugins(d0)
      compiled(S) == [c \in S |-> CompiledChannel(d, d.channel[c])]
      live == {k \in DOMAIN d.key : UsableKey(d.key[k])}
  IN [ok |-> TRUE,
      slot |-> channel_slots(d),
      channel |-> compiled({c \in Probes(d) : Selectable(d, c)}),
      probe |-> compiled(Probes(d)),
      rule |-> compile_rules(d),
      key |-> [k \in live |-> CompiledKey(d, d.key[k])],
      errors |-> PluginErrors(d0)]

Accepts(d0) == Valid(WithPlugins(d0))

Init == db \in Databases /\ snap = Empty

Compile ==
  /\ ~snap.ok
  /\ Accepts(db)
  /\ snap' = Snapshot(db)
  /\ UNCHANGED db

\* A refused compilation leaves the process with the snapshot it had.
Refuse ==
  /\ ~snap.ok
  /\ ~Accepts(db)
  /\ UNCHANGED vars

Next == Compile \/ Refuse

Spec == Init /\ [][Next]_vars

--------------------
\* A request on the snapshot.

\* The channel property an operation needs over a protocol.
for_operation(op, proto) ==
  CASE (proto = "websocket") # (op = "responses-ws") -> "unsupported"
    [] op = "images_edit" -> "multipart"
    [] op = "responses-ws" -> "websocket"
    [] op \in {"web_search", "images_generation"} -> "json"
    [] op \in {"chat_completion", "responses"} /\ proto = "sse" -> "sse"
    [] op = "responses" -> "responses_non_stream"
    [] OTHER -> "json"

\* Codex answers a non-stream request over SSE unless its plugin declares
\* the protocols it speaks.
permits(ch, need) ==
  CASE need = "unsupported" -> FALSE
    [] need = "responses_non_stream" ->
         \/ "json" \in ch.mask
         \/ ch.kind = Codex /\ ~ch.strict /\ "sse" \in ch.mask
    [] OTHER -> need \in ch.mask

RulesFor(s, op, model) ==
  {i \in DOMAIN s.rule : s.rule[i].op = op /\ s.rule[i].model = model}

permits_route(s, k, i) == bit_is_set(s.key[k].routes, i)

\* What selection may choose from in the first tier that has anything, with
\* every channel healthy: <<"unknown">>, <<"no channel">> or the candidates.
Selection(s, k, op, proto, model) ==
  LET found == {i \in RulesFor(s, op, model) : permits_route(s, k, i)}
  IN IF found = {} THEN <<"unknown", {}>>
     ELSE LET rule == s.rule[CHOOSE i \in found : TRUE]
              Eligible(t) == {e.pair : e \in {x \in RangeOf(t) :
                /\ bit_is_set(s.key[k].channels, x.chan)
                /\ permits(s.channel[x.pair[1]], for_operation(op, proto))}}
              open == {i \in DOMAIN rule.tiers : Eligible(rule.tiers[i]) # {}}
          IN IF open = {} THEN <<"no channel", {}>>
             ELSE <<"selected",
                    Eligible(rule.tiers[CHOOSE i \in open : \A j \in open : i <= j])>>

\* The upgrade preflight of a WebSocket client.
has_available_websocket_route(s, k) ==
  \E i \in DOMAIN s.rule :
    /\ s.rule[i].op = "responses-ws"
    /\ permits_route(s, k, i)
    /\ \E t \in RangeOf(s.rule[i].tiers) : \E e \in RangeOf(t) :
         /\ "websocket" \in s.channel[e.pair[1]].mask
         /\ bit_is_set(s.key[k].channels, e.chan)

\* GET /v1/models.
models_for(s, k, format) ==
  IF ~({"proxy", "models.read"} \subseteq s.key[k].perms) THEN {}
  ELSE {s.rule[i].model : i \in {j \in DOMAIN s.rule :
          /\ api_format(s.rule[j].op) = format
          /\ permits_route(s, k, j)
          /\ Intersect(s.rule[j].capable, s.key[k].channels)}}

--------------------
\* Properties.

\* What the records say a request may use, without slots or plans: the
\* candidates of the enabled rule on channels the key was granted, that
\* offer the model, are switched on with their group and their plugin, are
\* not automatically disabled, and speak the protocol.
MayUse(d, k, op, proto, model) ==
  LET Speaks(ch) ==
        LET m == IF Strict(d, ch) THEN d.plugin[ch.kind].protocols[op]
                 ELSE IF op = "responses-ws" THEN {"websocket"}
                 ELSE IF op \in {"chat_completion", "responses"}
                      THEN {"non_stream", "sse"} ELSE {"non_stream"}
        IN \/ op \in {"web_search", "images_generation", "images_edit"} /\
              proto # "websocket" /\ "non_stream" \in m
           \/ op \notin {"web_search", "images_generation", "images_edit"} /\
              proto \in m
      Up(c) == /\ Implemented(d, d.channel[c])
               /\ Selectable(d, c)
               /\ Speaks(d.channel[c])
      rules == {r \in RangeOf(d.rule) : Live(r) /\ r.op = op /\ r.model = model}
  IN UNION {{<<t.priority, c>> : c \in {x \in RangeOf(t.cands) :
               /\ x[1] \in d.key[k].channels
               /\ x[2] \in d.channel[x[1]].models
               /\ Up(x[1])}} : t \in UNION {RangeOf(r.tiers) : r \in rules}}

\* The candidates a key is routed to are exactly what the records grant: the
\* best tier of what the key's channels may serve, no candidate more, none
\* fewer, whatever slots, words and shared profiles stand between. The proto
\* is any a client can ask for.
RoutesAreGranted ==
  snap.ok => \A k \in DOMAIN snap.key, op \in Operations, proto \in Protocols,
                model \in Models :
    LET may == MayUse(db, k, op, proto, model)
        best == {p \in may : \A q \in may : p[1] <= q[1]}
    IN Selection(snap, k, op, proto, model)[2] = {p[2] : p \in best}

\* A client is told that a model does not exist exactly when none of its
\* channels may serve it by configuration; a channel that is merely off, by
\* hand, automatically or with its plugin, must answer as unavailable. The
\* route bits agree with the rule's own candidate bits, which is the debug
\* assertion of compile_accessible_route_slots.
UnknownMeansUngranted ==
  snap.ok => \A k \in DOMAIN snap.key, i \in DOMAIN snap.rule :
    LET rule == snap.rule[i]
        bits == IF AnySet(rule.capable) THEN rule.capable ELSE rule.target
        src == CHOOSE r \in RangeOf(db.rule) :
                 Live(r) /\ r.op = rule.op /\ r.model = rule.model
        named == RangeOf(CandidatesOf(src))
        offers == {c \in named : c[2] \in db.channel[c[1]].models}
        grants == {c[1] : c \in (IF offers = {} THEN named ELSE offers)}
    IN /\ permits_route(snap, k, i) = Intersect(bits, snap.key[k].channels)
       /\ permits_route(snap, k, i) <=> grants \cap db.key[k].channels # {}

\* Every model a key can be served is in the list it reads, and the preflight
\* admits a WebSocket client exactly when some model can be served to it.
ServableIsListed ==
  snap.ok => \A k \in DOMAIN snap.key :
    /\ \A op \in Operations, proto \in Protocols, model \in Models :
         /\ Selection(snap, k, op, proto, model)[1] = "selected"
         /\ {"proxy", "models.read"} \subseteq snap.key[k].perms
         => model \in models_for(snap, k, api_format(op))
    /\ has_available_websocket_route(snap, k) <=>
         \E model \in Models :
           Selection(snap, k, "responses-ws", "websocket", model)[1] = "selected"

\* Retries exclude by candidate slot: a slot names one channel and model of
\* a rule, and the same pair in a lower tier has the same slot.
SlotNamesCandidate ==
  \A i \in DOMAIN snap.rule :
    LET all == UNION {RangeOf(t) : t \in RangeOf(snap.rule[i].tiers)}
    IN /\ \A x, y \in all : x.slot = y.slot <=> x.pair = y.pair
       /\ \A x \in all : x.slot < Cardinality({e.pair : e \in all})

\* A plugin that fails to load, at any stage, never fails the compilation
\* and takes nothing with it but its own channels.
PluginFailureIsContained ==
  snap.ok => \A p \in DOMAIN db.plugin :
    LET broken == [db EXCEPT !.plugin[p].faults = {"plugin_load_failed"}]
        others == {c \in DOMAIN snap.channel : db.channel[c].kind # p}
    IN /\ Accepts(broken)
       /\ LET s == Snapshot(broken)
          IN /\ DOMAIN s.channel = others
             /\ \A c \in others : s.channel[c] = snap.channel[c]
             /\ s.key = snap.key

\* No request, and no scheduled test, on a snapshot can cost a unit price
\* the request log cannot store: settlement would fail after the answer.
PricesPersist ==
  snap.ok =>
    /\ \A i \in DOMAIN snap.rule : \A t \in RangeOf(snap.rule[i].tiers) :
         \A e \in RangeOf(t) : \A r \in RangeOf(db.rule) :
           r.op = snap.rule[i].op /\ r.model = snap.rule[i].model =>
             LET m == db.price[r.priced]
             IN m.unit * m.factor * db.channel[e.pair[1]].multiplier <= MaxPrice
    /\ \A c \in DOMAIN snap.probe :
         LET ch == db.channel[c]
         IN ch.test # "" => /\ ch.pricing \in DOMAIN db.price
                            /\ db.price[ch.pricing].unit * db.price[ch.pricing].factor
                                 * ch.multiplier <= MaxPrice

\* Settings that compile never trip the assertions of their consumers, and
\* a channel that can be selected is always known to the probes.
ConsumersAccept ==
  snap.ok => /\ PolicyAsserts(db.settings)
             /\ DOMAIN snap.channel \subseteq DOMAIN snap.probe

=============================================================================
