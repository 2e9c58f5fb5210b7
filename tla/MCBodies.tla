------------------------------ MODULE MCBodies ------------------------------
\* What is sent on and what is read from the bytes that come back, on small
\* instances: request headers and bodies, transform plans, the framing of
\* event streams and multipart bodies, usage, and error texts.
EXTENDS Integers, Sequences

VARIABLES
  part,  \* the component that this behaviour exercises
  \* RequestForwarding
  path, fwPc, declared, kept, original, touched, fast, tried, at, cfg, sendBody,
  headers, changed, wire,
  \* TransformPlan
  scope, defaults, overrides, planPc, accepted, document, candidate, next,
  \* SseTransformer
  format, patch, fed, source, frame, content, pendingCr, cut, emitted, framer,
  \* MultipartFraming
  text, tokens, reader, held, matched, since,
  \* ErrorKeywordMatcher
  carry, rolling, remaining, hits, all,
  \* UsageCollector
  setup, served, rest, bytes, disabled, usage, outcome, error, ended,
  \* UsageScanner
  members, space, consumed, scan, capture, values, scanned,
  \* ErrorDetails
  body, sent, captured, truncated, summary, summed

NoJson == [add |-> {}, remove |-> {}]
NoneAuth == [kind |-> "none", name |-> "none"]
Bearer == [kind |-> "bearer", name |-> "none"]
HeaderAuth(n) == [kind |-> "header", name |-> n]

Config(connector, auth, plan, json, alias, zstd) ==
    [connector |-> connector, auth |-> auth, headers |-> plan, json |-> json,
     alias |-> alias, zstd |-> zstd]

\* Plans of up to two operations, in section order.
PlanNames == {"session", "custom", "digest", "forwarded", "authorization"}
Rank(o) == CASE o.op = "set" -> 1 [] o.op = "remove" -> 2 [] o.op = "rename" -> 3
SetOp(n) == [op |-> "set", name |-> n, to |-> n]
RemoveOp(n) == [op |-> "remove", name |-> n, to |-> n]
RenameOp(f, t) == [op |-> "rename", name |-> f, to |-> t]
Ops == {SetOp(n) : n \in PlanNames} \cup {RemoveOp(n) : n \in PlanNames}
       \cup {RenameOp(f, t) : f \in PlanNames, t \in PlanNames}
OnePlans == {<<>>} \cup {<<o>> : o \in Ops}
TwoPlans == {<<o, p>> : o \in Ops, p \in Ops}
OrderedTwoPlans == {p \in TwoPlans : Rank(p[1]) <= Rank(p[2])}

Auths == {NoneAuth, Bearer, HeaderAuth("x-api-key"), HeaderAuth("cookie"),
          HeaderAuth("forwarded")}

\* Headers: every plan, the ordinary connector, one channel.
HeaderConfigs ==
    {Config("openai", a, p, NoJson, alias, FALSE) :
        a \in {Bearer, HeaderAuth("cookie"), HeaderAuth("forwarded")},
        p \in OnePlans \cup OrderedTwoPlans, alias \in BOOLEAN}

\* Connectors: every connector and credential, a few plans.
SomePlans == {<<>>, <<RenameOp("session", "custom")>>, <<SetOp("custom")>>}
JsonPlans == {NoJson, [add |-> {"input"}, remove |-> {}],
              [add |-> {"model"}, remove |-> {}],
              [add |-> {"service_tier"}, remove |-> {"input"}]}
ConnectorConfigs ==
    {Config(k, a, p, NoJson, TRUE, FALSE) :
        k \in {"openai", "external", "codex"}, a \in Auths, p \in SomePlans}
    \cup {Config(k, Bearer, <<>>, j, alias, FALSE) :
            k \in {"openai", "external", "codex"}, j \in JsonPlans, alias \in BOOLEAN}
    \cup {Config(k, HeaderAuth("content-type"), <<>>, NoJson, FALSE, zstd) :
            k \in {"openai", "external"}, zstd \in BOOLEAN}

\* Retries: two channels with different configurations.
RetryConfigs ==
    {Config("openai", Bearer, <<SetOp("custom")>>, [add |-> {"input"}, remove |-> {}], TRUE, FALSE),
     Config("openai", HeaderAuth("x-api-key"), <<>>, NoJson, FALSE, TRUE),
     Config("openai", HeaderAuth("cookie"), <<RenameOp("session", "custom")>>, NoJson, TRUE, FALSE),
     Config("external", NoneAuth, <<RemoveOp("session")>>, NoJson, FALSE, FALSE),
     Config("codex", NoneAuth, <<>>, NoJson, FALSE, FALSE)}


PlainBodies == {{"model", "input"}, {"model", "input", "service_tier"}}
MixedBodies == PlainBodies \cup {{"model", "moderation"}, {"model", "moderation_other"},
                                 {"model", "unknown"}}
SomePlugins == {"authorization", "account", "forwarded", "session"}

Obj == [kind |-> "object", items |-> <<>>]
Arr(s) == [kind |-> "array", items |-> s]
Scalar(v) == [kind |-> "scalar", items |-> <<v>>]
Failed == [q \in {} |-> Obj]
With(doc, k, v) ==
    [q \in DOMAIN doc \cup {<<k>> \o x : x \in DOMAIN v} |->
        IF q # <<>> /\ q[1] = k THEN v[Tail(q)] ELSE doc[q]]
Leaf(v) == [q \in {<<>>} |-> Scalar(v)]
Tree(kids) == [q \in {<<>>} \cup {<<k>> : k \in kids} |-> IF q = <<>> THEN Obj ELSE Scalar("n")]

NoExpr == [form |-> "none", value |-> Failed]
Lit(d) == [form |-> "literal", value |-> d]
Current == [form |-> "current", value |-> Failed]
Wrapped == [form |-> "wrapped", value |-> Tree({})]
Template == [form |-> "template", value |-> Failed]
Always == [test |-> "none", arg |-> "none"]
When(t, a) == [test |-> t, arg |-> a]

Op(v, op, p, e, w, i) ==
    [version |-> v, op |-> op, path |-> p, expr |-> e, when |-> w, index |-> i]

\* Request bodies: "a" is an object, an array, a scalar or absent; "b" a scalar.
PathA == <<"a">>
PathAX == <<"a", "x">>
PathB == <<"b">>
Base == [q \in {<<>>, <<"model">>} |-> IF q = <<>> THEN Obj ELSE Scalar("m")]
ADocs == {Failed, Leaf("s"), [q \in {<<>>} |-> Arr(<<>>)], [q \in {<<>>} |-> Arr(<<"i">>)],
          Tree({}), Tree({"x"})}
RequestDocs ==
    {LET d == IF a = Failed THEN Base ELSE With(Base, "a", a)
     IN IF b THEN With(d, "b", Leaf("s")) ELSE d : a \in ADocs, b \in BOOLEAN}

Targets == {PathA, PathAX, PathB, <<>>, <<"model">>, <<"a", "model">>}
Conditions == {Always, When("exists", "true"), When("exists", "false"),
               When("type", "object"), When("type", "array"), When("equals", "s")}

RequestOps ==
    {Op(1, op, p, Lit(Leaf("n")), Always, 0) : op \in {"add", "replace"}, p \in Targets}
    \cup {Op(1, "remove", p, NoExpr, Always, 0) : p \in Targets}
    \cup {Op(2, "add", p, e, w, 0) : p \in {PathA, PathAX}, e \in {Lit(Tree({"x", "model"})), Current},
                                     w \in Conditions}
    \cup {Op(2, "replace", p, e, Always, 0) : p \in {PathA, PathB}, e \in {Wrapped, Template}}
    \cup {Op(2, "remove", p, NoExpr, w, 0) : p \in {PathA, PathAX}, w \in Conditions}
    \cup {Op(2, op, PathA, Lit(Leaf("n")), w, 0) : op \in {"array_append", "array_prepend"},
                                              w \in {Always, When("type", "array")}}
    \cup {Op(2, "array_insert", PathA, Lit(Leaf("n")), Always, i) : i \in 0..1}
    \cup {Op(2, "array_remove", PathA, NoExpr, w, i) : i \in 0..1,
                                                  w \in {Always, When("exists", "false")}}
    \cup {Op(2, "merge", p, Lit(Tree({"x", "model"})), w, 0) :
             p \in {<<>>, PathA, PathAX}, w \in {Always, When("type", "object")}}

\* PathA smaller set for three operations.
CoreOps ==
    {Op(1, op, p, Lit(Leaf("n")), Always, 0) : op \in {"add", "replace"}, p \in {PathA, PathAX, PathB}}
    \cup {Op(1, "remove", p, NoExpr, Always, 0) : p \in {PathA, PathAX, PathB}}
    \cup {Op(2, "merge", PathA, Lit(Tree({"x"})), When("type", "object"), 0),
          Op(2, "add", PathA, Lit(Tree({"x"})), When("exists", "false"), 0),
          Op(2, "remove", PathAX, NoExpr, When("exists", "true"), 0),
          Op(2, "array_append", PathA, Lit(Leaf("n")), When("type", "array"), 0)}

\* Stream events.  The array of choices or output items is the scalar array of
\* its items' ids.
ChatDocs ==
    {[q \in {<<>>, <<"id">>, <<"model">>, <<"choices">>, <<"usage">>} |->
        CASE q = <<>> -> Obj [] q = <<"choices">> -> Arr(<<"i">>) [] OTHER -> Scalar("s")]}
ResponsesDocs ==
    {[q \in {<<>>, <<"type">>, <<"delta">>, <<"response">>, <<"response", "id">>,
             <<"response", "output">>, <<"response", "usage">>} |->
        CASE q \in {<<>>, <<"response">>} -> Obj [] q = <<"response", "output">> -> Arr(<<"i">>)
          [] OTHER -> Scalar("s")]}
StreamTargets ==
    {<<>>, <<"id">>, <<"model">>, <<"choices">>, <<"usage">>, <<"type">>, <<"delta">>,
     <<"response">>, <<"response", "id">>, <<"response", "output">>, <<"response", "usage">>}
StreamOps ==
    {Op(1, "replace", p, Lit(Leaf("n")), Always, 0) : p \in StreamTargets}
    \cup {Op(1, "remove", p, NoExpr, Always, 0) : p \in StreamTargets}
    \cup {Op(2, "merge", p, Lit(Tree({"id", "type"})), Always, 0) : p \in StreamTargets}
    \cup {Op(2, "add", p, Lit(Tree({"id"})), When("exists", "true"), 0) : p \in StreamTargets}
    \cup {Op(2, "array_append", p, Lit(Leaf("n")), When("type", "array"), 0) : p \in StreamTargets}

AllDocuments == [s \in {"request", "chat", "responses"} |->
    CASE s = "request" -> RequestDocs [] s = "chat" -> ChatDocs [] s = "responses" -> ResponsesDocs]

LineOf ==
    [l \in {"e:error", "e:failed", "e:completed", "[DONE]", "garbage", "array", "tick",
            "failure", "half1", "half2", "count", "update", "refused", "unread",
            "summary", "bad summary", "end", "bad end", "envelope"} |->
        CASE l = "e:error" -> [field |-> "event", name |-> "error"]
          [] l = "e:failed" -> [field |-> "event", name |-> "failed"]
          [] l = "e:completed" -> [field |-> "event", name |-> "completed"]
          [] OTHER -> [field |-> "data", name |-> ""]]

Usage(w, i, c, o) == {[whole |-> w, input |-> i, cached |-> c, output |-> o]}

Event(t, e, cl, u) == [object |-> TRUE, type |-> t, error |-> e, closing |-> cl, usage |-> u]

JsonOf ==
    [d \in {<<"array">>, <<"tick">>, <<"failure">>, <<"half1", "half2">>, <<"count">>,
            <<"update">>, <<"refused">>, <<"unread">>, <<"summary">>,
            <<"bad summary">>, <<"end">>, <<"bad end">>, <<"envelope">>} |->
        CASE d = <<"array">> -> [Event("none", FALSE, FALSE, {}) EXCEPT !.object = FALSE]
          [] d = <<"tick">> -> Event("none", FALSE, FALSE, {})
          [] d = <<"failure">> -> Event("failed", FALSE, FALSE, Usage(TRUE, {1}, {0}, {1}))
          [] d = <<"half1", "half2">> -> Event("completed", FALSE, FALSE, Usage(TRUE, {2}, {1}, {2}))
          [] d = <<"count">> -> Event("none", FALSE, FALSE, Usage(TRUE, {1}, {1}, {0}))
          [] d = <<"update">> -> Event("none", FALSE, FALSE, Usage(TRUE, {}, {}, {2}))
          [] d = <<"refused">> -> Event("none", FALSE, FALSE, Usage(FALSE, {}, {}, {}))
          [] d = <<"unread">> -> Event("none", FALSE, FALSE, Usage(TRUE, {}, {-1}, {}))
          [] d = <<"summary">> -> Event("none", FALSE, TRUE, Usage(TRUE, {2}, {}, {2}))
          [] d = <<"bad summary">> -> Event("none", FALSE, TRUE, Usage(TRUE, {0}, {2}, {2}))
          [] d = <<"end">> -> Event("completed", FALSE, FALSE, Usage(TRUE, {2}, {}, {3}))
          [] d = <<"bad end">> -> Event("completed", FALSE, FALSE, Usage(TRUE, {0}, {1}, {0}))
          [] OTHER -> Event("none", TRUE, FALSE, {})]

\* Frames of a stream that ends in every way.
EndFrames ==
    {<<"count">>, <<"summary">>, <<"[DONE]">>, <<"e:completed", "garbage">>, <<"e:completed", "array">>,
     <<"half1", "half2">>, <<"end">>, <<"bad end">>, <<"failure">>, <<"envelope">>,
     <<"e:error", "[DONE]">>, <<"e:failed", "end">>}

\* Frames of a stream that reports in every way.
ReportFrames ==
    {<<"count">>, <<"update">>, <<"refused">>, <<"unread">>,
     <<"summary">>, <<"bad summary">>, <<"[DONE]">>, <<"e:completed", "end">>}

\* Messages of a WebSocket: no event lines.
Messages ==
    {<<"tick">>, <<"count">>, <<"garbage">>, <<"end">>, <<"bad end">>, <<"failure">>, <<"envelope">>}

AnyBreak == {<<"lf">>, <<"cr", "lf">>, <<"cr">>}

LineFeed == {<<"lf">>}

MemberKeys == {<<"u">>, <<"x">>, <<"u", "x">>, <<"b", "q">>, <<>>}

\* A number, strings with every kind of letter, arrays and objects.
MemberValues ==
    {<<"x">>, <<"q", "u", "q">>, <<"q", "b", "q", "{", "q">>, <<"q", "b", "b", "q">>,
     <<"[", "q", "u", "q", "]">>, <<"{", "}">>, <<"{", "q", "u", "q", ":", "x", "}">>,
     <<"{", "q", "b", "q", "}", "q", ":", "x", "}">>,
     <<"[", "{", "q", "u", "q", ":", "{", "}", "}", "]">>,
     <<"{", "q", "x", "q", ":", "{", "}", "s", "s", "}">>}

Spacing == {<<>>, <<"s">>}

Tokens == {<<"cr", "lf">>, <<"cr">>, <<"-">>, <<"-", "-", "b">>, <<"b">>, <<" ">>}
ErrorKeywords == {<<"a", "W">>, <<"b", "a", "b">>}

\* Every header that a client may send.
FullHeaders ==
    LET client == {"connection", "keep-alive", "proxy-authorization", "authorization",
                "accept-encoding", "host", "content-encoding", "content-type", "range",
                "digest", "session", "forwarded", "custom", "cookie", "sec-websocket"}
    IN {client, client \ {"session", "connection"}}

\* Every header plan, the ordinary connector, one channel.
Headers == INSTANCE RequestForwarding WITH
  Channels <- {"c1"}, Configs <- HeaderConfigs, ClientHeaders <- FullHeaders,
  Declarable <- {"session", "custom", "forwarded"},
  ClientBodies <- {{"model", "input"}}, PluginNames <- {},
  Paths <- {"responses", "websocket", "probe", "discovery"}, pc <- fwPc,
  body <- sendBody, conn <- declared

\* Every connector and credential, a few plans.
Connectors == INSTANCE RequestForwarding WITH
  Channels <- {"c1"}, Configs <- ConnectorConfigs, ClientHeaders <- FullHeaders,
  Declarable <- {"session"}, ClientBodies <- MixedBodies, PluginNames <- SomePlugins,
  Paths <- {"responses", "search", "probe"}, pc <- fwPc, body <- sendBody,
  conn <- declared

\* Two channels with different configurations.
Retries == INSTANCE RequestForwarding WITH
  Channels <- {"c1", "c2"}, Configs <- RetryConfigs, ClientHeaders <- FullHeaders,
  Declarable <- {"session"}, ClientBodies <- PlainBodies, PluginNames <- SomePlugins,
  Paths <- {"responses", "websocket"}, pc <- fwPc, body <- sendBody, conn <- declared

\* Every pair of operations on every document.
Pairs == INSTANCE TransformPlan WITH
  Scopes <- {"request"}, Operations <- RequestOps, Documents <- AllDocuments,
  MaxDefaults <- 1, MaxOverrides <- 1, pc <- planPc, received <- accepted

\* Two layers of up to two operations.
Layers == INSTANCE TransformPlan WITH
  Scopes <- {"request"}, Operations <- CoreOps, Documents <- AllDocuments,
  MaxDefaults <- 2, MaxOverrides <- 2, pc <- planPc, received <- accepted

\* Operations on the events of a stream.
Events == INSTANCE TransformPlan WITH
  Scopes <- {"chat", "responses"}, Operations <- StreamOps, Documents <- AllDocuments,
  MaxDefaults <- 1, MaxOverrides <- 1, pc <- planPc, received <- accepted

\* Every stream of eight bytes, in every division into chunks.
Framing == INSTANCE SseTransformer WITH
  Bytes <- {"lf", "cr", "d"}, MaxBytes <- 8, MaxChunk <- 3, MaxFrame <- 5,
  Formats <- {"chat"}, Patches <- {"none", "ok", "fails"}, seen <- fed, out <- emitted,
  state <- framer, frames <- cut

\* Every frame of six lines and letters.
Rewrite == INSTANCE SseTransformer WITH
  Bytes <- {"lf", "p", "q", "e", "f", "z"}, MaxBytes <- 6, MaxChunk <- 1,
  MaxFrame <- 8, Formats <- {"chat", "responses"}, Patches <- {"ok"}, seen <- fed,
  out <- emitted, state <- framer, frames <- cut

\* Every text of eight tokens.
Multipart == INSTANCE MultipartFraming WITH
  Boundary <- <<"b">>, Tokens <- Tokens, MAX_MULTIPART_PREAMBLE_BYTES <- 2,
  MAX_MULTIPART_PART_HEADER_BYTES <- 6, MAX_MULTIPART_BOUNDARY_PADDING_BYTES <- 1,
  MaxTokens <- 8, state <- reader, count <- held

\* Two keywords, one of them with a wide character.
Keywords == INSTANCE ErrorKeywordMatcher WITH
  Letters <- {"a", "b"}, Keywords <- ErrorKeywords, ScanLimit <- 6, MinRolling <- 3,
  Factor <- 1, MaxChunk <- 3, MaxBytes <- 7, found <- hits

\* Streams that end in every way.
Ends == INSTANCE UsageCollector WITH
  Line <- LineOf, Json <- JsonOf, Formats <- {"chat", "responses", "images"},
  Parsers <- {"general"}, Transports <- {"sse"}, Breaks <- AnyBreak,
  Frames <- EndFrames, MaxFrames <- 2, MaxToken <- 3, MaxBuffer <- 6, frames <- served

\* Streams that report in every way.
Reports == INSTANCE UsageCollector WITH
  Line <- LineOf, Json <- JsonOf, Formats <- {"chat", "responses"},
  Parsers <- {"general", "anthropic"}, Transports <- {"sse"}, Breaks <- LineFeed,
  Frames <- ReportFrames, MaxFrames <- 2, MaxToken <- 3, MaxBuffer <- 20,
  frames <- served

\* Counts, their updates and summaries in any order.
Updates == INSTANCE UsageCollector WITH
  Line <- LineOf, Json <- JsonOf, Formats <- {"chat", "responses"},
  Parsers <- {"general", "anthropic"}, Transports <- {"sse"}, Breaks <- LineFeed,
  Frames <- {<<"count">>, <<"update">>, <<"summary">>, <<"[DONE]">>}, MaxFrames <- 3,
  MaxToken <- 3, MaxBuffer <- 20, frames <- served

\* Messages of a WebSocket.
Sockets == INSTANCE UsageCollector WITH
  Line <- LineOf, Json <- JsonOf, Formats <- {"responses"},
  Parsers <- {"general", "anthropic"}, Transports <- {"websocket"}, Breaks <- LineFeed,
  Frames <- Messages, MaxFrames <- 3, MaxToken <- 3, MaxBuffer <- 20, frames <- served

\* JSON objects of two members, cut off anywhere.
Scanner == INSTANCE UsageScanner WITH
  Keys <- MemberKeys, Values <- MemberValues, Spaces <- Spacing, MaxMembers <- 2,
  MaxObject <- 9, ended <- scanned

\* Error bodies with whitespace, control characters and cut characters.
Errors == INSTANCE ErrorDetails WITH
  Bytes <- {"a", "sp", "cr", "lf", "nul", "hi", "lo"}, MaxBody <- 5, MaxSummary <- 4,
  done <- summed

ASSUME /\ Headers!ForwardingAssumption /\ Connectors!ForwardingAssumption
       /\ Retries!ForwardingAssumption

--------------------
\* The variables of a component that is not exercised.
Off == <<>>

headersVars == <<path, fwPc, declared, kept, original, touched, fast, tried, at, cfg, sendBody,
                 headers, changed, wire>>
HeadersOff ==
  /\ path = Off /\ fwPc = Off /\ declared = Off /\ kept = Off /\ original = Off
  /\ touched = Off /\ fast = Off /\ tried = Off /\ at = Off /\ cfg = Off
  /\ sendBody = Off /\ headers = Off /\ changed = Off /\ wire = Off

pairsVars == <<scope, defaults, overrides, planPc, accepted, document, candidate, next>>
PairsOff ==
  /\ scope = Off /\ defaults = Off /\ overrides = Off /\ planPc = Off
  /\ accepted = Off /\ document = Off /\ candidate = Off /\ next = Off

framingVars == <<format, patch, fed, source, frame, content, pendingCr, cut, emitted, framer>>
FramingOff ==
  /\ format = Off /\ patch = Off /\ fed = Off /\ source = Off /\ frame = Off
  /\ content = Off /\ pendingCr = Off /\ cut = Off /\ emitted = Off /\ framer = Off

multipartVars == <<text, tokens, reader, held, matched, since>>
MultipartOff ==
  /\ text = Off /\ tokens = Off /\ reader = Off /\ held = Off /\ matched = Off
  /\ since = Off

keywordsVars == <<carry, rolling, remaining, hits, all>>
KeywordsOff ==
  /\ carry = Off /\ rolling = Off /\ remaining = Off /\ hits = Off /\ all = Off

endsVars == <<setup, served, rest, bytes, disabled, usage, outcome, error, ended>>
EndsOff ==
  /\ setup = Off /\ served = Off /\ rest = Off /\ bytes = Off /\ disabled = Off
  /\ usage = Off /\ outcome = Off /\ error = Off /\ ended = Off

scannerVars == <<members, space, consumed, scan, capture, values, scanned>>
ScannerOff ==
  /\ members = Off /\ space = Off /\ consumed = Off /\ scan = Off /\ capture = Off
  /\ values = Off /\ scanned = Off

errorsVars == <<body, sent, captured, truncated, summary, summed>>
ErrorsOff ==
  /\ body = Off /\ sent = Off /\ captured = Off /\ truncated = Off /\ summary = Off
  /\ summed = Off

allVars == <<part, headersVars, pairsVars, framingVars, multipartVars, keywordsVars, endsVars, scannerVars, errorsVars>>

SuiteInit ==
  \/ /\ part = "headers" /\ Headers!Init /\ PairsOff /\ FramingOff /\ MultipartOff
     /\ KeywordsOff /\ EndsOff /\ ScannerOff /\ ErrorsOff
  \/ /\ part = "connectors" /\ Connectors!Init /\ PairsOff /\ FramingOff
     /\ MultipartOff /\ KeywordsOff /\ EndsOff /\ ScannerOff /\ ErrorsOff
  \/ /\ part = "retries" /\ Retries!Init /\ PairsOff /\ FramingOff /\ MultipartOff
     /\ KeywordsOff /\ EndsOff /\ ScannerOff /\ ErrorsOff
  \/ /\ part = "pairs" /\ Pairs!Init /\ HeadersOff /\ FramingOff /\ MultipartOff
     /\ KeywordsOff /\ EndsOff /\ ScannerOff /\ ErrorsOff
  \/ /\ part = "layers" /\ Layers!Init /\ HeadersOff /\ FramingOff /\ MultipartOff
     /\ KeywordsOff /\ EndsOff /\ ScannerOff /\ ErrorsOff
  \/ /\ part = "events" /\ Events!Init /\ HeadersOff /\ FramingOff /\ MultipartOff
     /\ KeywordsOff /\ EndsOff /\ ScannerOff /\ ErrorsOff
  \/ /\ part = "framing" /\ Framing!Init /\ HeadersOff /\ PairsOff /\ MultipartOff
     /\ KeywordsOff /\ EndsOff /\ ScannerOff /\ ErrorsOff
  \/ /\ part = "rewrite" /\ Rewrite!Init /\ HeadersOff /\ PairsOff /\ MultipartOff
     /\ KeywordsOff /\ EndsOff /\ ScannerOff /\ ErrorsOff
  \/ /\ part = "multipart" /\ Multipart!Init /\ HeadersOff /\ PairsOff /\ FramingOff
     /\ KeywordsOff /\ EndsOff /\ ScannerOff /\ ErrorsOff
  \/ /\ part = "keywords" /\ Keywords!Init /\ HeadersOff /\ PairsOff /\ FramingOff
     /\ MultipartOff /\ EndsOff /\ ScannerOff /\ ErrorsOff
  \/ /\ part = "ends" /\ Ends!Init /\ HeadersOff /\ PairsOff /\ FramingOff
     /\ MultipartOff /\ KeywordsOff /\ ScannerOff /\ ErrorsOff
  \/ /\ part = "reports" /\ Reports!Init /\ HeadersOff /\ PairsOff /\ FramingOff
     /\ MultipartOff /\ KeywordsOff /\ ScannerOff /\ ErrorsOff
  \/ /\ part = "updates" /\ Updates!Init /\ HeadersOff /\ PairsOff /\ FramingOff
     /\ MultipartOff /\ KeywordsOff /\ ScannerOff /\ ErrorsOff
  \/ /\ part = "messages" /\ Sockets!Init /\ HeadersOff /\ PairsOff /\ FramingOff
     /\ MultipartOff /\ KeywordsOff /\ ScannerOff /\ ErrorsOff
  \/ /\ part = "scanner" /\ Scanner!Init /\ HeadersOff /\ PairsOff /\ FramingOff
     /\ MultipartOff /\ KeywordsOff /\ EndsOff /\ ErrorsOff
  \/ /\ part = "errors" /\ Errors!Init /\ HeadersOff /\ PairsOff /\ FramingOff
     /\ MultipartOff /\ KeywordsOff /\ EndsOff /\ ScannerOff

SuiteNext ==
  \/ /\ part = "headers" /\ Headers!Next
     /\ UNCHANGED <<part, pairsVars, framingVars, multipartVars, keywordsVars, endsVars, scannerVars, errorsVars>>
  \/ /\ part = "connectors" /\ Connectors!Next
     /\ UNCHANGED <<part, pairsVars, framingVars, multipartVars, keywordsVars, endsVars, scannerVars, errorsVars>>
  \/ /\ part = "retries" /\ Retries!Next
     /\ UNCHANGED <<part, pairsVars, framingVars, multipartVars, keywordsVars, endsVars, scannerVars, errorsVars>>
  \/ /\ part = "pairs" /\ Pairs!Next
     /\ UNCHANGED <<part, headersVars, framingVars, multipartVars, keywordsVars, endsVars, scannerVars, errorsVars>>
  \/ /\ part = "layers" /\ Layers!Next
     /\ UNCHANGED <<part, headersVars, framingVars, multipartVars, keywordsVars, endsVars, scannerVars, errorsVars>>
  \/ /\ part = "events" /\ Events!Next
     /\ UNCHANGED <<part, headersVars, framingVars, multipartVars, keywordsVars, endsVars, scannerVars, errorsVars>>
  \/ /\ part = "framing" /\ Framing!Next
     /\ UNCHANGED <<part, headersVars, pairsVars, multipartVars, keywordsVars, endsVars, scannerVars, errorsVars>>
  \/ /\ part = "rewrite" /\ Rewrite!Next
     /\ UNCHANGED <<part, headersVars, pairsVars, multipartVars, keywordsVars, endsVars, scannerVars, errorsVars>>
  \/ /\ part = "multipart" /\ Multipart!Next
     /\ UNCHANGED <<part, headersVars, pairsVars, framingVars, keywordsVars, endsVars, scannerVars, errorsVars>>
  \/ /\ part = "keywords" /\ Keywords!Next
     /\ UNCHANGED <<part, headersVars, pairsVars, framingVars, multipartVars, endsVars, scannerVars, errorsVars>>
  \/ /\ part = "ends" /\ Ends!Next
     /\ UNCHANGED <<part, headersVars, pairsVars, framingVars, multipartVars, keywordsVars, scannerVars, errorsVars>>
  \/ /\ part = "reports" /\ Reports!Next
     /\ UNCHANGED <<part, headersVars, pairsVars, framingVars, multipartVars, keywordsVars, scannerVars, errorsVars>>
  \/ /\ part = "updates" /\ Updates!Next
     /\ UNCHANGED <<part, headersVars, pairsVars, framingVars, multipartVars, keywordsVars, scannerVars, errorsVars>>
  \/ /\ part = "messages" /\ Sockets!Next
     /\ UNCHANGED <<part, headersVars, pairsVars, framingVars, multipartVars, keywordsVars, scannerVars, errorsVars>>
  \/ /\ part = "scanner" /\ Scanner!Next
     /\ UNCHANGED <<part, headersVars, pairsVars, framingVars, multipartVars, keywordsVars, endsVars, errorsVars>>
  \/ /\ part = "errors" /\ Errors!Next
     /\ UNCHANGED <<part, headersVars, pairsVars, framingVars, multipartVars, keywordsVars, endsVars, scannerVars>>

SuiteSpec == SuiteInit /\ [][SuiteNext]_allVars

--------------------
\* The transforms of a channel whose group filters the service tier.
Tier == INSTANCE RequestForwarding WITH
  Channels <- {"c1"}, Configs <- ConnectorConfigs, ClientHeaders <- FullHeaders,
  Declarable <- {}, ClientBodies <- PlainBodies, PluginNames <- {},
  Paths <- {"responses"}, pc <- fwPc, body <- sendBody, conn <- declared

TierInit ==
  /\ part = "tier" /\ Tier!Init /\ PairsOff /\ FramingOff /\ MultipartOff
  /\ KeywordsOff /\ EndsOff /\ ScannerOff /\ ErrorsOff
TierNext ==
  /\ Tier!Next
  /\ UNCHANGED <<part, pairsVars, framingVars, multipartVars, keywordsVars, endsVars,
                 scannerVars, errorsVars>>
TierSpec == TierInit /\ [][TierNext]_allVars

\* docs/user/billing.md:29: the service tier that a group filters is not
\* reintroduced by later transforms or plugins.
FilteredTierStaysOut == Tier!FilteredTierStaysOut

\* What leaves the gateway is what the channel is meant to see: no declared,
\* forwarding or client credential header, except what a Codex plugin sets from the
\* context it was given; the channel's own credential, digests of the body that is
\* sent, a plan with one meaning, and attempts that do not inherit from each other.
ForwardingSound ==
  /\ part = "headers" => Headers!RequestSound
  /\ part = "connectors" => Connectors!RequestSound
  /\ part = "retries" => Retries!RequestSound

\* A plan that fails changes nothing, never touches what identifies the request
\* or the event, means the same in every order of its operations, and what its
\* defaults remove does not break its overrides.
TransformSound ==
  /\ part = "pairs" => Pairs!FailureIsAtomic /\ Pairs!IdentityKept
  /\ part = "layers" => Layers!OrderIsIrrelevant /\ Layers!RemovalsDoNotBreakOverrides
  /\ part = "events" => Events!FailureIsAtomic /\ Events!IdentityKept

\* Frames, parts and keywords are found where they are, however the bytes are
\* divided into chunks, within their limits and without losing a byte.
FramingExact ==
  /\ part = "framing" => /\ Framing!FramesIgnoreChunks /\ Framing!NothingLost
                          /\ Framing!SizeLimitExact
  /\ part = "rewrite" => Rewrite!EnvelopeKept /\ Rewrite!TransportsAgree
  /\ part = "multipart" => Multipart!MatcherExact /\ Multipart!AcceptsExactly
  /\ part = "keywords" => Keywords!FindsExactly /\ Keywords!WindowBounded

\* The usage that is billed is the one the upstream reported last, the outcome
\* is the first one it gave, and usage that could not be read whole is unknown,
\* never zero; an error summary fits and shows where it was cut.
UsageSound ==
  /\ part = "ends" => Ends!OutcomeIsFirst /\ Ends!OverflowIsUnknown
  /\ part = "reports" => Reports!BilledAsReported
  /\ part = "updates" => Updates!BilledAsReported
  /\ part = "messages" => Sockets!OutcomeIsFirst /\ Sockets!BilledAsReported
  /\ part = "scanner" => /\ Scanner!FindsUsage /\ Scanner!CutOffIsUnknown
                          /\ Scanner!OversizeIsUnknown
  /\ part = "errors" => Errors!SummaryFits /\ Errors!CutIsMarked

\* Once a response has ended nothing that follows changes its outcome, its error
\* or its bill.
EndIsFinal ==
  [][/\ part = "ends" => Ends!EndIsFinal
     /\ part = "reports" => Reports!EndIsFinal
     /\ part = "updates" => Updates!EndIsFinal
     /\ part = "messages" => Sockets!EndIsFinal]_allVars
=============================================================================
