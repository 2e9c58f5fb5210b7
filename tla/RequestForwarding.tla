------------------------- MODULE RequestForwarding -------------------------
\* What of a client request reaches an upstream: the body and header
\* policy of the public interfaces (request_policy.rs), the header plan of
\* a channel's transforms (transforms/mod.rs), the connector
\* (application/connector.rs, application/codex/attempt.rs) and the order
\* in which the HTTP proxy, the WebSocket proxy, the scheduled probe and
\* the model discovery apply them.
\*
\* A header name stands for its class, a header value for where it came
\* from: [by, tag] is the value that `by` supplied, tagged with the name
\* under which the client sent it or with the channel whose plan, plugin
\* or credential supplied it.  The JSON documents are the fields the
\* policy and the plugin checks look at.
EXTENDS Integers, Sequences, FiniteSets

CONSTANTS
    Channels,       \* the channels a request may be sent to, one per attempt
    Configs,        \* the stored configurations a channel may have
    ClientHeaders,  \* the sets of header names a client may send
    Declarable,     \* the names a client may list in its Connection header
    ClientBodies,   \* the sets of top-level fields a client may send
    PluginNames,    \* the names a plugin may try to set
    Paths           \* the code paths that send a request

--------------------
\* Header names, one per class the code tells apart.

HopByHopNames == {"connection", "keep-alive", "proxy-authorization"}

\* request_policy.rs header_is_hop_by_hop
HopByHop(n) == n \in HopByHopNames

RequestProtected(n) ==
    \/ HopByHop(n)
    \/ n \in {"host", "content-encoding", "authorization", "cookie", "accept-encoding"}

\* The contract (docs/reference/request-allowlists.json): "forwarded" stands
\* for every explicitly ignored name, "digest" for every digest, ETag and
\* modification-time name, "session" for every other allowed one, "custom"
\* for a name the contract does not know.
Allowed == {"connection", "authorization", "accept-encoding", "host",
            "content-encoding", "content-type", "range", "digest", "session"}

ExplicitlyIgnored == {"forwarded"}

Names == Allowed \cup ExplicitlyIgnored \cup HopByHopNames \cup
         {"custom", "cookie", "x-api-key", "account", "sec-websocket"}

\* request_policy.rs validate_header_policy, validate_contract: one action
\* per name, unknown names ignored.
HeaderPolicySound == Allowed \cap ExplicitlyIgnored = {}

HeaderAction(n) == IF n \in Allowed THEN "allow" ELSE "ignore"

ConnectorForbidden(n) ==
    \/ n # "authorization" /\ RequestProtected(n)
    \/ n = "sec-websocket"
    \/ n \in ExplicitlyIgnored

--------------------
\* Header maps: every name has the set of its values.

Value(by, tag) == [by |-> by, tag |-> tag]

NoHeaders == [n \in Names |-> {}]

Without(h, S) == [n \in Names |-> IF n \in S THEN {} ELSE h[n]]

Insert(h, n, v) == [h EXCEPT ![n] = {v}]

\* The client's Connection header: `names` is what it declares, `text` says
\* that every one of its bytes is visible ASCII.
\*
\* request_policy.rs connection_header_names: a value that is not text
\* declares nothing.
PolicyConnectionNames(c) == IF c.text THEN c.names ELSE {}

\* transforms/mod.rs connection_header_names, parse_connection_header_names:
\* read bytewise, an opaque token does not hide its neighbours.
TransformConnectionNames(c, h) == IF h["connection"] = {} THEN {} ELSE c.names

\* request_policy.rs filter_headers: declared hop-by-hop names stay until the
\* cleanup, so that a transform of theirs is refused.
FilterClientHeaders(c, h) ==
    LET internal == PolicyConnectionNames(c) \cup {"connection"}
        kept == {n \in Names : HeaderAction(n) = "allow" \/ n \in internal}
    IN Without(h, Names \ kept)

\* A WebSocket session keeps the headers without the client's credentials.
IngressRemoves(p) ==
    IF p = "websocket" THEN {"authorization", "proxy-authorization"} ELSE {}

\* The entity metadata that describes a body the gateway has rewritten.
RemoveEntityHeaders(h) == Without(h, {"content-encoding", "digest"})

\* Mutant of ForwardHeaders: the client's own credential is forwarded.
ForwardAuthorization(c, h) ==
    Without(h, TransformConnectionNames(c, h) \cup HopByHopNames
               \cup ExplicitlyIgnored \cup {"host", "accept-encoding"})

\* proxy.rs forward_headers, for a request
ForwardHeaders(c, h) ==
    Without(h, TransformConnectionNames(c, h) \cup HopByHopNames
               \cup ExplicitlyIgnored
               \cup {"host", "authorization", "accept-encoding"})

ForwardWebSocketHeaders(c, h) ==
    Without(ForwardHeaders(c, h), {"host", "authorization", "sec-websocket"})

\* request_policy.rs sanitize_outbound_request_headers: no Connection header
\* is left at that point, so no name is dynamically protected.
Sanitize(h) ==
    Without(h, {n \in Names : n # "cookie" /\ ConnectorForbidden(n)})

--------------------
\* Header plans: a stored plan is its operations in the order of the sections
\* set, remove, rename.

SetOp(n)       == [op |-> "set", name |-> n, to |-> n]
RemoveOp(n)    == [op |-> "remove", name |-> n, to |-> n]
RenameOp(f, t) == [op |-> "rename", name |-> f, to |-> t]

OpNames(o) == {o.name, o.to}

\* transforms/mod.rs compile_headers: no protected name, and no name in two
\* operations; a rename to itself meets its own name.
Compiles(plan) ==
    /\ \A i \in DOMAIN plan : \A n \in OpNames(plan[i]) : ~RequestProtected(n)
    /\ \A i \in DOMAIN plan : plan[i].op = "rename" => plan[i].name # plan[i].to
    /\ \A i, j \in DOMAIN plan :
         i # j => OpNames(plan[i]) \cap OpNames(plan[j]) = {}

ApplyOp(h, o, ch) ==
    CASE o.op = "set"    -> Insert(h, o.name, Value("plan", ch))
      [] o.op = "remove" -> Without(h, {o.name})
      [] o.op = "rename" -> [Without(h, {o.name}) EXCEPT ![o.to] = @ \cup h[o.name]]

\* transforms/mod.rs ensure_runtime_header_allowed on every operation
PlanAllowed(c, h, plan) ==
    \A i \in DOMAIN plan : \A n \in OpNames(plan[i]) :
        ~RequestProtected(n) /\ n \notin TransformConnectionNames(c, h)

\* transforms/mod.rs apply_header_plan_in_scope: run[k] is the map after the
\* first k operations.
ApplyPlan(h, plan, ch) ==
    LET run[k \in 0..Len(plan)] ==
            IF k = 0 THEN h ELSE ApplyOp(run[k - 1], plan[k], ch)
    IN run[Len(plan)]

--------------------
\* Upstream authentication and connectors.

\* domain/upstream_credential.rs compile: a credential header is none of the
\* names the host owns; Cookie is allowed.
AuthCompiles(a) ==
    a.kind = "header" =>
        /\ a.name = "cookie" \/ ~RequestProtected(a.name)
        /\ a.name # "sec-websocket" /\ a.name \notin ExplicitlyIgnored

\* connector.rs inject_standard_auth (also channel_models.rs and
\* channel_probe.rs inject_upstream_auth)
InjectAuth(h, a, ch) ==
    CASE a.kind = "none"   -> h
      [] a.kind = "bearer" -> Insert(h, "authorization", Value("credential", ch))
      [] a.kind = "header" -> Insert(h, a.name, Value("credential", ch))

\* What a plugin may answer to attempt.headers: it may copy any value of the map
\* h that the host passes it (plugin_header_metadata).  A Codex plugin has also
\* been given the client's headers k as the ingress kept them: prepare asks it
\* for the attempt's context, which comes back to it with every call.
PluginPlans(h, k, cfg, ch) ==
    LET seen == UNION {h[n] : n \in Names}
        given == {v \in UNION {k[n] : n \in Names} : v.by = "client"}
        codex == {Value("credential", ch)} \cup {Value("context", v.tag) : v \in given}
        own == {Value("plugin", ch)} \cup (IF cfg.connector = "codex" THEN codex ELSE {})
        \* Codex plugins also set the two headers of the credential
        base == IF cfg.connector = "codex" THEN {{}, {"authorization", "account"}} ELSE {{}}
    IN [remove : {{}} \cup {{n} : n \in PluginNames},
        set : {{}} \cup {{<<n, v>>} : n \in PluginNames, v \in seen \cup own},
        bound : base]

PluginSetNames(p) == {x[1] : x \in p.set} \cup p.bound

\* connector.rs apply_plugin_headers
PluginPlanAccepted(p) == \A n \in PluginSetNames(p) : ~ConnectorForbidden(n)

\* The plan's own entry for a name replaces the bound one.
ApplyPluginPlan(h, p, ch) ==
    LET removed == Without(h, p.remove)
        boundTo == [n \in Names |-> IF n \in p.bound THEN {Value("credential", ch)}
                                    ELSE removed[n]]
    IN [n \in Names |-> IF \E x \in p.set : x[1] = n
                        THEN {x[2] : x \in {y \in p.set : y[1] = n}}
                        ELSE boundTo[n]]

\* codex/mod.rs credential_headers_match
CredentialHeadersMatch(h, ch) ==
    \A n \in {"authorization", "account"} : h[n] = {Value("credential", ch)}

\* connector.rs inject_headers, External
ExternalHeaders(h, p, cfg, ch) ==
    InjectAuth(Without(ApplyPluginPlan(h, p, ch), {"authorization"}), cfg.auth, ch)

--------------------
\* JSON bodies: a body maps each top-level field to where its value is from.

Fields == {"model", "service_tier", "input", "moderation", "moderation_other",
           "unknown"}

Absent == [by |-> "absent", tag |-> "absent"]

\* request_policy.rs field_disposition_for_policy.  "moderation" is the
\* ignored field with an accepted value, "moderation_other" the same field
\* with another value.
Disposition(f) ==
    CASE f \in {"model", "service_tier", "input"} -> "allow"
      [] f = "moderation" -> "ignore"
      [] f \in {"moderation_other", "unknown"} -> "reject"

\* request_policy.rs apply_json_body_policy, for a body it accepts
ApplyBodyPolicy(fields) == {f \in fields : Disposition(f) = "allow"}

\* request_policy.rs apply_client_fast_mode_filter
FastFilter(fields, enabled) == IF enabled THEN fields \ {"service_tier"} ELSE fields

ClientBody(fields) ==
    [f \in Fields |-> IF f \in fields THEN Value("client", f) ELSE Absent]

\* proxy.rs rewrite_model_alias
RewriteModel(b, cfg, ch) ==
    IF cfg.alias THEN [b EXCEPT !["model"] = Value("route", ch)] ELSE b

\* transforms/mod.rs validate_pointer for a request: model and stream are
\* protected, every other field may be added, replaced or removed.
JsonPlanCompiles(plan) == "model" \notin plan.add \cup plan.remove

ApplyJsonPlan(b, plan, ch) ==
    [f \in Fields |-> IF f \in plan.add THEN Value("plan", ch)
                      ELSE IF f \in plan.remove THEN Absent ELSE b[f]]

\* What a plugin may make of a body.
PluginBodies(b, ch) ==
    {[b EXCEPT ![f] = v] : f \in {"model", "service_tier", "input"},
                           v \in {Value("plugin", ch), Absent}} \cup {b}

\* connector.rs validate_plugin_body
PluginBodyAccepted(before, after) ==
    \A f \in {"model", "service_tier"} : before[f] = after[f]

--------------------
\* The configuration of a channel is accepted when the runtime compiler and
\* the credential checks accept it.

ConfigAccepted(cfg) ==
    /\ Compiles(cfg.headers)
    /\ JsonPlanCompiles(cfg.json)
    /\ AuthCompiles(cfg.auth)

AcceptedConfigs == {cfg \in Configs : ConfigAccepted(cfg)}

VARIABLES
    path,       \* the code path, of Paths
    pc,         \* the stage of the request
    conn,       \* what the client's Connection header says
    kept,       \* client_headers: the headers after the ingress policy
    original,   \* original_body: the body after the ingress policy and filter
    touched,    \* the ingress changed or decoded the body
    fast,       \* the key's group filters Fast mode
    tried,      \* the channels attempted so far
    at,         \* the channel of the running attempt
    cfg,        \* its configuration
    body,       \* the attempt's body
    headers,    \* the attempt's headers
    changed,    \* request_body_changed of the attempt
    wire        \* the last request sent: channel, headers, body

vars == <<path, pc, conn, kept, original, touched, fast, tried, at, cfg, body,
          headers, changed, wire>>

ingress == <<path, conn, kept, original, touched, fast>>
attempt == <<tried, at, cfg>>

NoConn == [names |-> {}, text |-> TRUE]
NoWire == [channel |-> "none", cfg |-> CHOOSE c \in AcceptedConfigs : TRUE,
           headers |-> NoHeaders, body |-> ClientBody({}), changed |-> FALSE]

Init ==
    /\ path \in Paths
    /\ pc = "start"
    /\ conn = NoConn
    /\ kept = NoHeaders
    /\ original = ClientBody({})
    /\ touched = FALSE
    /\ fast \in BOOLEAN
    /\ tried = {}
    /\ at = "none"
    /\ cfg = NoWire.cfg
    /\ body = ClientBody({})
    /\ headers = NoHeaders
    /\ changed = FALSE
    /\ wire = NoWire

Public == {"responses", "search", "websocket"}

\* A client request arrives and is refused or reduced by the public policy:
\* decoding, the body allowlist, the Fast filter and the header allowlist.
Receive ==
    /\ pc = "start" /\ path \in Public
    /\ \E names \in ClientHeaders, fields \in ClientBodies,
          declared \in SUBSET Declarable, text \in BOOLEAN, decoded \in BOOLEAN :
         LET c == [names |-> declared, text |-> text]
             raw == [n \in Names |-> IF n \in names THEN {Value("client", n)} ELSE {}]
             policed == ApplyBodyPolicy(fields)
             filtered == FastFilter(policed, fast)
         IN /\ declared # {} => "connection" \in names
            /\ decoded => "content-encoding" \in names /\ path = "responses"
            /\ IF \E f \in fields : Disposition(f) = "reject"
                 THEN /\ pc' = "refused"
                      /\ UNCHANGED <<conn, kept, original, touched>>
                 ELSE /\ conn' = c
                      /\ kept' = Without(FilterClientHeaders(c, raw), IngressRemoves(path))
                      /\ original' = ClientBody(filtered)
                      /\ touched' = (decoded \/ filtered # fields)
                      /\ pc' = "route"
    /\ UNCHANGED <<path, fast, tried, at, cfg, body, headers, changed, wire>>

\* The probe and the model discovery start from a header map of their own and
\* have no ingress.
StartInternal ==
    /\ pc = "start" /\ path \notin Public
    /\ kept' = Insert(NoHeaders, "content-type", Value("host", "host"))
    /\ pc' = "route"
    /\ UNCHANGED <<path, conn, original, touched, fast, tried, at, cfg, body, headers, changed, wire>>

\* Routing picks a channel this request has not tried; every attempt starts
\* again from the request the ingress kept.  connector.rs prepare and
\* can_attempt_responses_websocket decide whether the channel can be tried.
Attempt ==
    /\ pc = "route"
    /\ \E ch \in Channels \ tried, c \in AcceptedConfigs :
         /\ path \notin Public => c.connector = "openai"
         /\ tried' = tried \cup {ch}
         /\ at' = ch
         /\ cfg' = c
    /\ body' = original
    /\ headers' = kept
    /\ changed' = FALSE
    /\ pc' = "body"
    /\ UNCHANGED <<ingress, wire>>

\* proxy.rs encode_upstream_request_body: only the Responses interface (and
\* the probe, which uses it) is compressed.
Encoded == cfg.zstd /\ path \in {"responses", "probe"}

\* connector.rs changes_request_body: what a Codex plugin declares of itself.
Adapts(connector) ==
    CASE connector = "openai" -> {FALSE}
      [] connector = "codex"  -> BOOLEAN
      [] OTHER -> {TRUE}

\* The alias, the JSON transform and the connector's own body adaptation, the
\* last of them checked by the host.  Standalone web search refuses a channel
\* with JSON transforms.
PrepareBody ==
    /\ pc = "body"
    /\ LET planned == ApplyJsonPlan(RewriteModel(body, cfg, at), cfg.json, at)
           answers == IF cfg.connector = "openai" THEN {planned}
                      ELSE PluginBodies(planned, at)
           hasPlan == cfg.json.add \cup cfg.json.remove # {}
       IN IF path = "search" /\ hasPlan
            THEN pc' = "failed" /\ UNCHANGED <<body, changed>>
            ELSE \E b \in answers, adapts \in Adapts(cfg.connector) :
                   /\ pc' = IF PluginBodyAccepted(planned, b) THEN "plan" ELSE "failed"
                   /\ body' = b
                   \* what the code computes: the WebSocket compares the bodies,
                   \* HTTP asks each stage whether it may have changed them
                   /\ changed' = IF path = "websocket" THEN touched \/ b # original
                                 ELSE \/ touched \/ cfg.alias \/ hasPlan \/ Encoded
                                      \/ adapts
    /\ UNCHANGED <<ingress, attempt, headers, wire>>

\* Entity metadata, the transform's header plan, then the cleanup.
PlanHeaders ==
    /\ pc = "plan"
    /\ LET clean == IF changed THEN RemoveEntityHeaders(headers) ELSE headers
           planned == ApplyPlan(clean, cfg.headers, at)
       IN IF PlanAllowed(conn, clean, cfg.headers)
            THEN /\ pc' = "connector"
                 /\ headers' = CASE path = "websocket" -> ForwardWebSocketHeaders(conn, planned)
                                 [] path \in Public \ {"websocket"} -> ForwardHeaders(conn, planned)
                                 [] OTHER -> planned
            ELSE pc' = "failed" /\ UNCHANGED headers
    /\ UNCHANGED <<ingress, attempt, body, changed, wire>>

\* connector.rs inject_headers and codex/attempt.rs inject_headers
InjectHeaders ==
    /\ pc = "connector"
    /\ \/ /\ cfg.connector = "openai"
          /\ headers' = InjectAuth(headers, cfg.auth, at)
          /\ pc' = "send"
       \/ /\ cfg.connector # "openai"
          /\ \E p \in PluginPlans(headers, kept, cfg, at) :
               LET updated == ApplyPluginPlan(headers, p, at)
                   ok == /\ PluginPlanAccepted(p)
                         /\ cfg.connector = "codex" => CredentialHeadersMatch(updated, at)
               IN /\ pc' = IF ok THEN "send" ELSE "failed"
                  /\ headers' = IF ~ok THEN headers
                                ELSE IF cfg.connector = "codex" THEN updated
                                ELSE ExternalHeaders(headers, p, cfg, at)
    /\ UNCHANGED <<ingress, attempt, body, changed, wire>>

\* The final guard, then the headers that only the host writes.
Send ==
    /\ pc = "send"
    /\ LET clean == Sanitize(headers)
           coded == IF Encoded THEN Insert(clean, "content-encoding", Value("host", "host"))
                    ELSE Without(clean, {"content-encoding"})
           typed == IF Encoded /\ path = "responses"
                      THEN Insert(coded, "content-type", Value("host", "host"))
                      ELSE coded
           final == IF path \in {"discovery", "websocket"} THEN clean
                    ELSE Insert(typed, "accept-encoding", Value("host", "host"))
       IN wire' = [channel |-> at, cfg |-> cfg, headers |-> final, body |-> body,
                   changed |-> changed]
    /\ pc' = "sent"
    /\ UNCHANGED <<ingress, attempt, body, headers, changed>>

\* The connection failed before the request was sent: the proxy may retry on
\* another channel (connector.rs allows_automatic_retry), starting again from
\* what the ingress kept.
Retry ==
    /\ pc = "sent" /\ path \in Public
    /\ cfg.connector = "openai"
    /\ Channels \ tried # {}
    /\ pc' = "route"
    /\ UNCHANGED <<ingress, attempt, body, headers, changed, wire>>

Next ==
    \/ Receive \/ StartInternal \/ Attempt \/ PrepareBody \/ PlanHeaders
    \/ InjectHeaders \/ Send \/ Retry

Spec == Init /\ [][Next]_vars

--------------------
Sent == pc = "sent"

WireValues == UNION {wire.headers[n] : n \in Names}

TypeOK ==
    /\ path \in Paths
    /\ pc \in {"start", "refused", "route", "body", "plan", "connector", "send",
               "sent", "failed"}
    /\ at \in Channels \cup {"none"}
    /\ tried \subseteq Channels
    /\ cfg \in AcceptedConfigs
    /\ DOMAIN headers = Names /\ DOMAIN kept = Names
    /\ DOMAIN body = Fields

\* A value the client sent under a name that its Connection header declares
\* hop-by-hop is not forwarded, under that name or, through a rename or a
\* plugin's copy of a header it is shown, under another (request_policy.rs
\* filter_headers, transforms/mod.rs ensure_runtime_header_allowed, proxy.rs
\* forward_headers).  ContextThroughCodexOnly is about the other way out.
DeclaredStaysHome ==
    Sent => \A v \in WireValues : v.by = "client" => v.tag \notin conn.names

\* Forwarding metadata (X-Forwarded-For and the like) is on no request to an
\* upstream, whoever set it: client, transform, plugin or credential
\* (request_policy.rs connector_header_is_forbidden, sanitize).
ForwardingMetadataStaysHome ==
    Sent => /\ \A n \in ExplicitlyIgnored : wire.headers[n] = {}
            /\ \A v \in WireValues : v.by = "client" => v.tag \notin ExplicitlyIgnored

\* The client's gateway key and cookies are not forwarded, and attempt.headers
\* shows them to no plugin (proxy.rs forward_headers, request_header_is_protected).
ClientCredentialStaysHome ==
    Sent => \A v \in WireValues : v.by = "client" => v.tag \notin {"authorization", "cookie"}

\* The names that the ingress may have kept.
Admits == (Allowed \cup conn.names) \ IngressRemoves(path)

\* What the ingress kept of the client's headers, what it declares hop-by-hop and
\* over HTTP its gateway key included, can come back in a header from the context
\* of a Codex plugin, and only from there: on a Codex channel, under a name that
\* connectors may set, and nothing of what the ingress dropped (codex/attempt.rs
\* prepare, websocket.rs prepare, connector.rs apply_plugin_headers).
ContextThroughCodexOnly ==
    Sent => \A n \in Names : \A v \in wire.headers[n] : v.by = "context" =>
              wire.cfg.connector = "codex" /\ ~ConnectorForbidden(n) /\ v.tag \in Admits

\* The headers h carry the credential of channel ch and no other.
Authenticated(h, c, ch) ==
    LET own == {Value("credential", ch)}
    IN CASE c.connector = "codex" -> h["authorization"] = own /\ h["account"] = own
         [] c.connector # "codex" /\ c.auth.kind = "bearer" -> h["authorization"] = own
         [] c.connector # "codex" /\ c.auth.kind = "header" ->
              h[c.auth.name] = own /\ h["authorization"] = {}
         [] OTHER -> h["authorization"] = {}

\* The credential's header is one that the proxy writes itself: Content-Type, which
\* UpstreamAuth::compile does not refuse, on a channel that compresses requests.
HeaderTaken(c) ==
    /\ path = "responses" /\ c.zstd /\ c.connector # "codex"
    /\ c.auth.kind = "header" /\ c.auth.name = "content-type"

\* The upstream is authenticated with the credential of the channel the
\* request goes to and with nothing else: the configured header carries it
\* unless the proxy overwrites that header, and Authorization carries it or
\* is absent (connector.rs inject_headers, codex/attempt.rs inject_headers,
\* sanitize).
CredentialIsTheChannels ==
    Sent => IF HeaderTaken(wire.cfg)
              THEN /\ wire.headers["content-type"] = {Value("host", "host")}
                   /\ wire.headers["authorization"] = {}
              ELSE Authenticated(wire.headers, wire.cfg, wire.channel)

\* Digests and modification times that describe the client's bytes are not
\* forwarded with a body the gateway has changed, even renamed; whether a
\* Codex plugin changes it is what the plugin declares (proxy.rs: stale entity
\* metadata is removed before the plan).
DigestsDescribeTheBody ==
    Sent /\ wire.changed => \A v \in WireValues : v.by = "client" => v.tag # "digest"

\* An attempt carries nothing that the plan, the plugin or the credential of
\* an earlier attempt's channel supplied (proxy.rs: every attempt starts from
\* client_headers and original_body).
AttemptsAreIndependent ==
    Sent => \A v \in WireValues \cup {wire.body[f] : f \in Fields} :
              v.by \in {"plan", "plugin", "credential", "route"} => v.tag = wire.channel

\* What a plugin returns keeps the model that routing selected and the Fast
\* filter: without a transform that writes the field, a filtered service tier
\* does not reach the upstream, and fields the policy ignores do not either
\* (connector.rs validate_plugin_body, request_policy.rs).
SelectionKept ==
    Sent /\ path \in Public =>
        /\ wire.body["model"] = IF wire.cfg.alias THEN Value("route", wire.channel)
                                ELSE original["model"]
        /\ wire.body["service_tier"].by # "plugin"
        /\ fast /\ "service_tier" \notin wire.cfg.json.add
             => wire.body["service_tier"] = Absent
        /\ "moderation" \notin wire.cfg.json.add => wire.body["moderation"] = Absent

\* The orders in which the operations of a plan may be applied.
Orders(plan) ==
    {o \in [DOMAIN plan -> DOMAIN plan] :
        /\ \A i, j \in DOMAIN plan : o[i] = o[j] => i = j
        /\ \A j \in DOMAIN plan : \E i \in DOMAIN plan : o[i] = j}

Reordered(plan, o) == [i \in DOMAIN plan |-> plan[o[i]]]

\* A plan the compiler accepts has one meaning: its operations may be applied
\* in any order (transforms/mod.rs compile_headers: the sections are JSON
\* objects, whose order says nothing).
PlanHasOneMeaning ==
    pc = "plan" =>
        \A o \in Orders(cfg.headers) :
            ApplyPlan(headers, Reordered(cfg.headers, o), at)
              = ApplyPlan(headers, cfg.headers, at)

\* docs/user/billing.md:29: a filtered service_tier "也不会由后续变换或插件重新引入"
\* (is not reintroduced by later transforms or plugins).
FilteredTierStaysOut ==
    Sent /\ path \in Public /\ fast => wire.body["service_tier"] = Absent

\* All that is promised of a request, whichever path, plan and connector.
RequestSound ==
    /\ DeclaredStaysHome /\ ForwardingMetadataStaysHome /\ ClientCredentialStaysHome
    /\ ContextThroughCodexOnly /\ CredentialIsTheChannels /\ DigestsDescribeTheBody
    /\ AttemptsAreIndependent /\ SelectionKept /\ PlanHasOneMeaning

--------------------
\* The inductive invariant behind RequestSound.

IsMap(h) == h = [n \in Names |-> h[n]]

\* A client's value that may be sent.
Clean(v) ==
    v.by = "client" =>
        /\ v.tag \notin conn.names \cup ExplicitlyIgnored \cup {"authorization", "cookie"}
        /\ changed => v.tag # "digest"

\* A value that the gateway supplied is the channel's.
Local(v) == v.by \in {"plan", "plugin", "credential", "route"} => v.tag = at

\* A value of the context is where a Codex plugin may put it.
Returned(n, v) ==
    v.by = "context" =>
        cfg.connector = "codex" /\ ~ConnectorForbidden(n) /\ v.tag \in Admits

KeptFits ==
    /\ IsMap(kept) /\ (conn.names # {} => kept["connection"] # {})
    /\ \A n \in Names : \A v \in kept[n] :
         \/ v = Value("client", n) /\ n \in Admits /\ path \in Public
         \/ v = Value("host", "host") /\ n = "content-type"

OriginalFits ==
    /\ DOMAIN original = Fields
    /\ \A f \in Fields : original[f] \in {Absent, Value("client", f)}
    /\ original["moderation"] = Absent
    /\ fast => original["service_tier"] = Absent

BodyFits ==
    /\ \A f \in Fields : Local(body[f])
    /\ body["model"] = IF cfg.alias THEN Value("route", at) ELSE original["model"]
    /\ body["service_tier"].by # "plugin"
    /\ fast /\ "service_tier" \notin cfg.json.add => body["service_tier"] = Absent
    /\ "moderation" \notin cfg.json.add => body["moderation"] = Absent

HeadersFit ==
    /\ IsMap(headers)
    /\ \A n \in Names : \A v \in headers[n] : Clean(v) /\ Local(v) /\ Returned(n, v)

ForwardInv ==
    /\ pc \in {"start", "refused", "route", "body", "plan", "connector", "send", "sent",
               "failed"}
    /\ OriginalFits /\ (pc = "start" => conn = NoConn)
    /\ pc \in {"route", "body", "plan", "sent"} => KeptFits
    /\ pc \in {"body", "plan", "connector", "send"} => cfg \in AcceptedConfigs
    /\ pc = "body" => body = original
    /\ pc \in {"body", "plan"} => headers = kept
    /\ pc \in {"plan", "connector", "send"} => BodyFits /\ KeptFits
    /\ pc \in {"connector", "send"} => HeadersFit
    /\ pc = "connector" => headers["authorization"] = {}
    /\ pc = "send" => Authenticated(headers, cfg, at)
    /\ pc = "sent" => RequestSound

HeaderOps ==
    {o \in [op : {"set", "remove", "rename"}, name : Names, to : Names] :
        o.op # "rename" => o.to = o.name}

\* Some configuration is accepted, and each has the form the tables give it.
ForwardingAssumption ==
    /\ AcceptedConfigs # {} /\ ClientBodies \subseteq SUBSET Fields
    /\ \A c \in Configs :
         /\ c.headers \in Seq(HeaderOps)
         /\ c.auth.kind \in {"none", "bearer", "header"}
         /\ c.auth.kind = "header" => c.auth.name \in Names
=============================================================================
