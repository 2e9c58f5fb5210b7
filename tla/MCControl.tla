------------------------------ MODULE MCControl ------------------------------
\* The control plane, on small instances: the upstream topology and the
\* keys that may use it, the publication of a change to every gateway, the
\* compilation of a snapshot, and the cutover of a legacy database.
EXTENDS ControlPlanePublish, FiniteSets, TLC

CONSTANTS
  None, Everyone,
  g1, g2, a1, a2, k1, k2, c1, c2, p1, p2, m1, m2, r1, r2, x1, t1,
  n1, n2, u1, u2, um,
  h1, h2,  \* gateways, groups of the key parts
  b1, b2   \* administrators, channels of the key parts

VARIABLES
  part,  \* the component that this behaviour exercises
  \* UpstreamTopology
  store, view,
  \* KeyAuthorization
  group, home, removed, policy, usergroup, user, key, offered, left,
  \* RuntimeCompile
  stored, compiled,
  \* CapabilityCutover
  legacy, stage, topo, catalog, crashes

ActiveGroup(n) == [st |-> "live", name |-> n, on |-> TRUE, ver |-> 0]

AccessOf(conn, u, p) ==
  [st |-> "live", conn |-> conn, url |-> u, proxy |-> p, on |-> TRUE, ver |-> 0]

CredOf(conn, s) ==
  [st |-> "live", conn |-> conn, scope |-> s, on |-> TRUE, ver |-> 0]

ActiveChannel(g, a, k, n) ==
  [st |-> "live", group |-> g, access |-> a, cred |-> k, name |-> n,
   on |-> TRUE, ver |-> 0]

CapOf(c, o, test, t) ==
  [st |-> "live", chan |-> c, op |-> o, on |-> TRUE, models |-> {um},
   test |-> test, template |-> t, allowed |-> TRUE, down |-> FALSE, ver |-> 0]

RoutesOf(m, o, ps) ==
  [st |-> "live", model |-> m, op |-> o, on |-> TRUE,
   tiers |-> [q \in {1, 2} |-> {<<p, um>> : p \in ps}], ver |-> 0]

SwitchOf(on) == [st |-> "live", on |-> on, ver |-> 0]

Missing(row) == [row EXCEPT !.st = "absent"]

FullStore ==
  [clock |-> 0, settings |-> [disable |-> TRUE, recover |-> TRUE, ver |-> 0],
   held |-> {},
   group |-> [g \in {g1, g2} |-> ActiveGroup(IF g = g1 THEN n1 ELSE n2)],
   access |-> [a \in {a1, a2} |->
                 IF a = a1 THEN AccessOf("general", u1, x1)
                 ELSE AccessOf("codex", u2, None)],
   cred |-> [k \in {k1, k2} |->
               IF k = k1 THEN CredOf("general", {u1})
               ELSE CredOf("codex", {u1, u2})],
   chan |-> [c \in {c1, c2} |->
               IF c = c1 THEN ActiveChannel(g1, a1, k1, n1)
               ELSE ActiveChannel(g2, a2, k2, n1)],
   cap |-> [p \in {p1, p2} |->
              IF p = p1 THEN CapOf(c1, "chat", <<um, m1>>, t1)
              ELSE CapOf(c2, "images", None, None)],
   model |-> [m \in {m1} |->
                [st |-> "live", on |-> TRUE, profile |-> TRUE, ver |-> 0]],
   rule |-> [r \in {r1, r2} |->
               IF r = r1 THEN RoutesOf(m1, "chat", {p1})
               ELSE RoutesOf(m1, "images", {p2})],
   proxy |-> [x \in {x1} |-> SwitchOf(TRUE)],
   template |-> [t \in {t1} |-> SwitchOf(TRUE)]]

\* A store in full use.
InUse == {FullStore}

\* The same store as it is being set up: no rule, no capability, or no channel.
SettingUp ==
  LET noRules == [FullStore EXCEPT !.rule = [r \in {r1, r2} |-> Missing(@[r])]]
      noCaps == [noRules EXCEPT
        !.cap = [p \in {p1, p2} |-> Missing(@[p])],
        !.model = [m \in {m1} |-> [Missing(@[m]) EXCEPT !.profile = FALSE]],
        !.template = [t \in {t1} |-> Missing(@[t])]]
      fresh == [noCaps EXCEPT
        !.chan = [c \in {c1, c2} |-> Missing(@[c])],
        !.cred[k1] = Missing(@),
        !.group = [g \in {g1, g2} |-> Missing(@[g])],
        !.access = [a \in {a1, a2} |-> Missing(@[a])],
        !.proxy = [x \in {x1} |-> Missing(@[x])]]
  IN {noCaps, fresh}

Topology2 == [topology |-> 2, policy |-> 0, account |-> 0, key |-> 3]
Policy2 == [topology |-> 0, policy |-> 2, account |-> 1, key |-> 1]
Owner2 == [topology |-> 1, policy |-> 1, account |-> 0, key |-> 2]
Account3 == [topology |-> 0, policy |-> 1, account |-> 3, key |-> 1]

SoundSettings ==
  [connect |-> 1, header |-> 2, streamIdle |-> 1, retries |-> 1, threshold |-> 1,
   cooldown |-> 1, wsIdle |-> 1, wsAge |-> 2,
   affinity |-> [entries |-> 1, ttl |-> 1, rules |-> <<>>]]

CompiledChannel(g, kind, o, ms, st) ==
  [group |-> g, kind |-> kind, op |-> o, models |-> ms, on |-> st # "off",
   auto |-> st = "auto", test |-> "", pricing |-> "", proxy |-> "",
   template |-> "", multiplier |-> 1, sound |-> TRUE, rewrites |-> FALSE]

RuleOf(o, model, tiers) ==
  [op |-> o, model |-> model, on |-> TRUE, modelOn |-> TRUE, tiers |-> tiers,
   priced |-> model]

Tier(p, cs) == [priority |-> p, cands |-> cs]

Prices(f) == [m \in {m1, m2} |-> [unit |-> 1, factor |-> f]]

KeyOf(cs, perms) ==
  [channels |-> cs, perms |-> perms, status |-> "active", user |-> "active"]

PluginOf(on, fs, v3, protocols) ==
  [on |-> on, faults |-> fs, settings |-> TRUE, v3 |-> v3,
   protocols |-> protocols]

BothModes == [o \in {"responses", "responses-ws"} |->
           IF o = "responses" THEN {"non_stream", "sse"} ELSE {"websocket"}]

PluginStates ==
  {PluginOf(TRUE, {}, FALSE, BothModes),
   PluginOf(TRUE, {}, TRUE, [BothModes EXCEPT !["responses"] = {"sse"}]),
   PluginOf(TRUE, {}, TRUE, [o \in {"responses"} |-> {"non_stream"}]),
   PluginOf(TRUE, {"settings_missing", "invalid_capabilities"}, FALSE, BothModes),
   PluginOf(FALSE, {}, FALSE, BothModes)}

\* The pair <<2, m1>> stands in two tiers; the low tier is listed first.
TierSets ==
  {<<Tier(1, <<<<2, m1>>, <<1, m2>>>>), Tier(0, <<<<1, m1>>>>)>>,
   <<Tier(0, <<<<2, m1>>>>), Tier(1, <<<<2, m1>>, <<1, m1>>>>)>>}

RouteDatabases ==
  {[settings |-> SoundSettings, proxy |-> <<>>, template |-> <<>>, price |-> Prices(1),
    group |-> [g \in {"g1", "g2"} |-> [on |-> g \in gs]],
    channel |-> <<CompiledChannel("g1", "openai_compatible", "responses", ms, s1),
                  CompiledChannel("g2", "codex_oauth", "responses", {m1}, s2),
                  CompiledChannel("g2", "codex_oauth", "responses-ws", {m1}, s3)>>,
    rule |-> <<RuleOf("responses", m1, ts),
               [RuleOf("chat_completion", m1, <<>>) EXCEPT !.on = FALSE],
               RuleOf("responses-ws", m2, <<Tier(0, <<<<3, m1>>>>)>>)>>,
    key |-> <<KeyOf(cs, {"proxy", "models.read"}),
              [KeyOf({1, 2}, {"proxy"}) EXCEPT !.user = "suspended"],
              KeyOf({1, 3}, {"proxy"})>>,
    plugin |-> [k \in {"codex_oauth"} |-> p]] :
      gs \in {{"g1", "g2"}, {"g1"}}, ms \in {{m1}, {m2}},
      s1 \in {"on", "off", "auto"}, s2 \in {"on", "auto"}, s3 \in {"on", "off"},
      ts \in TierSets, cs \in SUBSET (1..3), p \in PluginStates}

\* The other inputs: settings, proxies, probes and search channels that may
\* have to be refused, with every stage a plugin can fail in.
AffinityRule(name, ttl, formats) == 
  [name |-> name, ttl |-> ttl, formats |-> formats, sources |-> {"client header"}]

SettingsInputs ==
  {SoundSettings, [SoundSettings EXCEPT !.threshold = 0], [SoundSettings EXCEPT !.cooldown = 0],
   [SoundSettings EXCEPT !.header = 1], [SoundSettings EXCEPT !.wsIdle = 2]} \cup
  {[SoundSettings EXCEPT !.affinity.rules = rs] :
     rs \in {<<AffinityRule("a", 0, {"responses"}), AffinityRule("b", 2, {"chat"})>>,
             <<AffinityRule("a", 0, {"responses"}), AffinityRule("a", 1, {"chat"})>>,
             <<[AffinityRule("a", 1, {"chat"}) EXCEPT !.sources = {"cookie"}]>>,
             <<AffinityRule("a", 3, {"images"})>>}}

PolicyDatabases ==
  {[settings |-> s, price |-> Prices(f),
    proxy |-> [i \in {"x1", "x2"} |->
                 [on |-> i = "x1", scheme |-> "socks5", user |-> us, password |-> TRUE]],
    template |-> [i \in {"t1"} |-> [on |-> TRUE, format |-> tf]],
    group |-> [g \in {"g1"} |-> [on |-> TRUE]],
    channel |-> <<[CompiledChannel("g1", "openai_compatible", "responses", {m1}, "on")
                     EXCEPT !.test = te, !.pricing = te, !.proxy = x,
                            !.template = "t1", !.multiplier = mu],
                  [CompiledChannel("g1", "codex_oauth", "web_search", {m1}, "on")
                     EXCEPT !.rewrites = rw]>>,
    rule |-> <<RuleOf("responses", m1, <<Tier(0, <<<<1, m1>>>>)>>),
               RuleOf("web_search", m1, <<Tier(0, <<<<2, m1>>>>)>>)>>,
    key |-> <<KeyOf({1, 2}, {"proxy"})>>,
    plugin |-> [k \in {"codex_oauth"} |->
                  PluginOf(TRUE, fs, v, [o \in {"web_search"} |-> {"non_stream"}])]] :
      s \in SettingsInputs, te \in {"", m1}, x \in {"x1", "x2"},
      tf \in {"", "chat"}, us \in BOOLEAN, f \in 1..2, mu \in 1..2,
      rw \in BOOLEAN, v \in BOOLEAN,
      fs \in {{}, {"artifact_missing"}, {"invalid_settings", "invalid_capabilities"}}}

CredA == <<"a">>     \* the credential with two projections, and its Responses channel
CredAI == <<"ai">>   \* its Images channel
CredD == <<"d">>     \* a credential with a Responses channel only
PlainB == <<"b">>     \* the plain channel

LegacyGroup(i, f, codex, on) ==
  [id |-> i, format |-> f, codex |-> codex, pool |-> IF codex THEN "p" ELSE "none",
   enabled |-> on, deleted |-> FALSE]

LegacyChannel(i, g, f, state, cred, ws, search, net, probe) ==
  [id |-> i, group |-> g, format |-> f, enabled |-> state = "on",
   deleted |-> state = "deleted", auto |-> TRUE,
   credential |-> IF state = "deleted" THEN <<>> ELSE cred,
   ws |-> ws, search |-> search, net |-> net, probe |-> probe]

Cand(c, w, p) == [channel |-> c, model |-> "up", weight |-> w, priority |-> p]
LegacyRule(i, m, f, on, cs) == [id |-> i, model |-> m, format |-> f, enabled |-> on, cands |-> cs]

RuleShapes == {
  {LegacyRule(<<"r">>, "m", "responses", TRUE, {Cand(CredA, 1, "1"), Cand(CredD, 3, "1"), Cand(PlainB, 2, "2")}),
   LegacyRule(<<"i">>, "m", "images", TRUE, {Cand(CredAI, 1, "1")})},
  {LegacyRule(<<"r">>, "m", "responses", TRUE, {Cand(PlainB, 2, "1")}),
   LegacyRule(<<"s">>, "n", "responses", FALSE, {})},
  {LegacyRule(<<"r">>, "m", "responses", TRUE, {Cand(CredAI, 1, "1")})}}

LegacyOwners == {
  [id |-> <<"k1">>, formats |-> {"responses", "images"}, groups |-> {<<"gi">>}, channels |-> {}],
  [id |-> <<"k2">>, formats |-> {"responses"}, groups |-> {<<"gp">>}, channels |-> {CredA, CredAI}],
  [id |-> <<"k3">>, formats |-> {"chat", "responses", "images"},
   groups |-> {<<"gr">>}, channels |-> {PlainB}]}

\* A deleted credential clears its channels' references; either order of
\* deletion is found in databases.
CredentialRef(cred, gone) == IF gone THEN <<>> ELSE cred

Database(on, as, ais, bs, gone, ws, search, net, bound, probe, rules) ==
  [groups |-> {LegacyGroup(<<"gr">>, "responses", TRUE, on # "gr"),
               LegacyGroup(<<"gi">>, "images", TRUE, on # "gi"),
               LegacyGroup(<<"gp">>, "responses", FALSE, on # "gp")},
   channels |-> {LegacyChannel(CredA, <<"gr">>, "responses", as, CredentialRef(CredA, gone), ws, search, "n1", "none"),
                 LegacyChannel(CredAI, <<"gi">>, "images", ais, CredentialRef(CredA, gone), FALSE, FALSE, net, "none"),
                 LegacyChannel(CredD, <<"gr">>, "responses", "on", CredD, FALSE, TRUE, "n1", "none"),
                 LegacyChannel(PlainB, <<"gp">>, "responses", bs, PlainB, ws, FALSE, "n3", probe)},
   projections |-> {[credential |-> CredA, format |-> "responses", channel |-> CredA],
                    [credential |-> CredD, format |-> "responses", channel |-> CredD]}
                     \cup (IF bound THEN {[credential |-> CredA, format |-> "images", channel |-> CredAI]}
                           ELSE {}),
   credentials |-> {[id |-> CredA, deleted |-> gone], [id |-> CredD, deleted |-> FALSE]},
   rules |-> rules, owners |-> LegacyOwners, profiles |-> {"m", "n"}]

RowStates == {"on", "off", "deleted"}

\* The Responses channel of a credential is its identity and goes last.
StatePairs == {p \in RowStates \X RowStates : p[1] = "deleted" => p[2] = "deleted"}

SomeLegacies ==
  {Database(on, pair[1], pair[2], bs, gone, ws, search, net, bound, probe, rules) :
     on \in {"all", "gr", "gi", "gp"}, pair \in StatePairs, bs \in RowStates,
     gone \in BOOLEAN, bound \in BOOLEAN, ws \in BOOLEAN, search \in BOOLEAN, net \in {"n1", "n2"},
     probe \in {"ok", "unlisted"}, rules \in RuleShapes}

\* A store in full use and the writes of an administrator.
Edit == INSTANCE UpstreamTopology WITH
  Groups <- {g1, g2}, Accesses <- {a1, a2}, Credentials <- {k1, k2},
  Channels <- {c1, c2}, Capabilities <- {p1, p2}, Models <- {m1}, Rules <- {r1, r2},
  Proxies <- {x1}, Templates <- {t1}, Names <- {n1, n2}, Urls <- {u1, u2},
  UpstreamModels <- {um}, Priorities <- {1, 2}, Operations <- {"chat", "images"},
  Connectors <- {"general", "codex"}, Managed <- {"codex"}, Probed <- {"chat"},
  None <- None, MaxWrites <- 2, StartStore <- InUse, db <- store

\* A store that is being set up.
Setup == INSTANCE UpstreamTopology WITH
  Groups <- {g1, g2}, Accesses <- {a1, a2}, Credentials <- {k1, k2},
  Channels <- {c1, c2}, Capabilities <- {p1, p2}, Models <- {m1}, Rules <- {r1, r2},
  Proxies <- {x1}, Templates <- {t1}, Names <- {n1, n2}, Urls <- {u1, u2},
  UpstreamModels <- {um}, Priorities <- {1, 2}, Operations <- {"chat", "images"},
  Connectors <- {"general", "codex"}, Managed <- {"codex"}, Probed <- {"chat"},
  None <- None, MaxWrites <- 2, StartStore <- SettingUp, db <- store

\* Keys while the topology changes under them.
Grants == INSTANCE KeyAuthorization WITH
  Groups <- {h1, h2}, Channels <- {b1, b2}, Policies <- {}, UserGroups <- {},
  Users <- {u1}, Keys <- {k1}, None <- None, Everyone <- Everyone, Writes <- Topology2,
  gone <- removed

\* Keys under a policy that changes.
PolicyKeys == INSTANCE KeyAuthorization WITH
  Groups <- {h1, h2}, Channels <- {b1, b2}, Policies <- {p1}, UserGroups <- {n1},
  Users <- {u1}, Keys <- {k1}, None <- None, Everyone <- Everyone, Writes <- Policy2,
  gone <- removed

\* Keys that their owners edit.
Owners == INSTANCE KeyAuthorization WITH
  Groups <- {h1, h2}, Channels <- {b1, b2}, Policies <- {p1}, UserGroups <- {n1},
  Users <- {u1}, Keys <- {k1}, None <- None, Everyone <- Everyone, Writes <- Owner2,
  gone <- removed

\* Users that come and go.
Accounts == INSTANCE KeyAuthorization WITH
  Groups <- {h1}, Channels <- {b1}, Policies <- {p1}, UserGroups <- {n1},
  Users <- {u1, u2}, Keys <- {k1}, None <- None, Everyone <- Everyone,
  Writes <- Account3, gone <- removed

\* Three channels in two slot words, two groups, a plugin in several states.
Routes == INSTANCE RuntimeCompile WITH
  Models <- {m1, m2}, WordBits <- 2, MaxRetries <- 2, MaxTtl <- 2, MaxAge <- 3,
  MinAge <- 2, MaxPrice <- 2, Databases <- RouteDatabases, db <- stored,
  snap <- compiled

\* Settings, proxies and channels that may have to be refused.
Refusals == INSTANCE RuntimeCompile WITH
  Models <- {m1, m2}, WordBits <- 2, MaxRetries <- 2, MaxTtl <- 2, MaxAge <- 3,
  MinAge <- 2, MaxPrice <- 2, Databases <- PolicyDatabases, db <- stored,
  snap <- compiled

\* Legacy databases with flags, leftovers of deletions and rules that vary.
Cutover == INSTANCE CapabilityCutover WITH
  Legacies <- SomeLegacies, MaxCrashes <- 1, registry <- catalog

ASSUME Edit!TopologyAssumption /\ Setup!TopologyAssumption
ASSUME Grants!KeyAssumption /\ PolicyKeys!KeyAssumption
ASSUME Owners!KeyAssumption /\ Accounts!KeyAssumption
ASSUME Routes!CompileAssumption /\ Refusals!CompileAssumption
ASSUME PublishAssumption

--------------------
\* The variables of a component that is not exercised.
Off == <<>>

editVars == <<store, view>>
EditOff ==
  /\ store = Off /\ view = Off

grantsVars == <<group, home, removed, policy, usergroup, user, key, offered, left>>
GrantsOff ==
  /\ group = Off /\ home = Off /\ removed = Off /\ policy = Off /\ usergroup = Off
  /\ user = Off /\ key = Off /\ offered = Off /\ left = Off

routesVars == <<stored, compiled>>
RoutesOff ==
  /\ stored = Off /\ compiled = Off

cutoverVars == <<legacy, stage, topo, catalog, crashes>>
CutoverOff ==
  /\ legacy = Off /\ stage = Off /\ topo = Off /\ catalog = Off /\ crashes = Off

allVars == <<part, vars, editVars, grantsVars, routesVars, cutoverVars>>

SuiteInit ==
  \/ /\ part = "publish" /\ Init /\ EditOff /\ GrantsOff /\ RoutesOff /\ CutoverOff
  \/ /\ part = "edit" /\ Edit!Init /\ Init /\ GrantsOff /\ RoutesOff /\ CutoverOff
  \/ /\ part = "setup" /\ Setup!Init /\ Init /\ GrantsOff /\ RoutesOff /\ CutoverOff
  \/ /\ part = "grants" /\ Grants!Init /\ Init /\ EditOff /\ RoutesOff /\ CutoverOff
  \/ /\ part = "policies" /\ PolicyKeys!Init /\ Init /\ EditOff /\ RoutesOff
     /\ CutoverOff
  \/ /\ part = "owners" /\ Owners!Init /\ Init /\ EditOff /\ RoutesOff /\ CutoverOff
  \/ /\ part = "users" /\ Accounts!Init /\ Init /\ EditOff /\ RoutesOff
     /\ CutoverOff
  \/ /\ part = "routes" /\ Routes!Init /\ Init /\ EditOff /\ GrantsOff /\ CutoverOff
  \/ /\ part = "settings" /\ Refusals!Init /\ Init /\ EditOff /\ GrantsOff
     /\ CutoverOff
  \/ /\ part = "cutover" /\ Cutover!Init /\ Init /\ EditOff /\ GrantsOff
     /\ RoutesOff

SuiteNext ==
  \/ /\ part = "publish" /\ Next
     /\ UNCHANGED <<part, editVars, grantsVars, routesVars, cutoverVars>>
  \/ /\ part = "edit" /\ Edit!Next
     /\ UNCHANGED <<part, vars, grantsVars, routesVars, cutoverVars>>
  \/ /\ part = "setup" /\ Setup!Next
     /\ UNCHANGED <<part, vars, grantsVars, routesVars, cutoverVars>>
  \/ /\ part = "grants" /\ Grants!Next
     /\ UNCHANGED <<part, vars, editVars, routesVars, cutoverVars>>
  \/ /\ part = "policies" /\ PolicyKeys!Next
     /\ UNCHANGED <<part, vars, editVars, routesVars, cutoverVars>>
  \/ /\ part = "owners" /\ Owners!Next
     /\ UNCHANGED <<part, vars, editVars, routesVars, cutoverVars>>
  \/ /\ part = "users" /\ Accounts!Next
     /\ UNCHANGED <<part, vars, editVars, routesVars, cutoverVars>>
  \/ /\ part = "routes" /\ Routes!Next
     /\ UNCHANGED <<part, vars, editVars, grantsVars, cutoverVars>>
  \/ /\ part = "settings" /\ Refusals!Next
     /\ UNCHANGED <<part, vars, editVars, grantsVars, cutoverVars>>
  \/ /\ part = "cutover" /\ Cutover!Next
     /\ UNCHANGED <<part, vars, editVars, grantsVars, routesVars>>

SuiteSpec == SuiteInit /\ [][SuiteNext]_allVars

--------------------
\* Groups, channels, administrators and gateways of a part do the same, in the
\* parts where they start out alike.
Interchangeable == Permutations({h1, h2}) \cup Permutations({b1, b2})

\* No row refers to what is gone, whatever an administrator committed loads
\* again, a version stands for one state of its row, and names are unique among
\* what is live.
TopologySound ==
  /\ part = "edit" => Edit!TopologySound
  /\ part = "setup" => Setup!NothingDangles /\ Setup!NamesUnique

\* A key reaches what was selected for it, a policy offers what was selected for
\* it, whatever happens to groups and channels in between, and no user is left
\* in a user group that is gone.
KeysSound ==
  /\ part = "grants" => Grants!KeysSound
  /\ part = "policies" => PolicyKeys!KeysSound
  /\ part = "owners" => Owners!KeysSound
  /\ part = "users" => Accounts!KeysSound

\* A revoked key stays revoked, what an owner does to a key stays within the
\* policy of the moment, and a periodic read never publishes an older
\* configuration over a newer one.
NothingGoesBack ==
  [][/\ part = "grants" => Grants!KeyRights
     /\ part = "policies" => PolicyKeys!KeyRights
     /\ part = "owners" => Owners!KeyRights
     /\ part = "publish" => SnapshotMovesForward]_allVars

\* A snapshot routes a key where it was granted and lists what it can serve, a
\* failing plugin takes only its own channels away, and what the snapshot
\* promises its consumers accept; a legacy database is carried over without
\* losing a route or a grant and without widening one, or refused for a cause.
CompileSound ==
  /\ part = "routes" =>
       /\ Routes!RoutesAreGranted /\ Routes!UnknownMeansUngranted
       /\ Routes!ServableIsListed /\ Routes!SlotNamesCandidate
  /\ part = "settings" =>
       /\ Refusals!PluginFailureIsContained /\ Refusals!ConsumersAccept
       /\ Refusals!PricesPersist
  /\ part = "cutover" =>
       /\ Cutover!RoutesPreserved /\ Cutover!GrantsPreserved
       /\ Cutover!ChannelsNotWidened /\ Cutover!OriginsAreLive
       /\ Cutover!HistoryResolves /\ Cutover!RetiredStaysRetired
       /\ Cutover!RefusedForCause /\ Cutover!SplitNeverRefuses
=============================================================================
