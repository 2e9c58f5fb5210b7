--------------------------- MODULE UsageCollector ---------------------------
\* What a response is billed for (application/usage.rs UsageCollector): a
\* response arrives as server-sent events in chunks cut anywhere, or as
\* Responses WebSocket events, and the collector keeps the last usage
\* report, the last terminal summary, the first outcome and its error.
\* The scanner of plain JSON responses is the module UsageScanner.
\*
\* An option is a set of at most one element.  A line of an event stream
\* is one letter that Line explains; a chunk cut inside a line behaves as
\* one cut before it, because the buffer is searched anew on every push.
EXTENDS Integers, Sequences, FiniteSets, SequencesExt, FiniteSetsExt

CONSTANTS
    Line,         \* what a line holds: [field, name]
    Json,         \* the JSON value of the data lines that have one
    Formats,      \* "chat", "responses", "images"
    Parsers,      \* "general", "anthropic"
    Transports,   \* "sse", "websocket"
    Breaks,       \* the line endings upstream uses, sequences of "cr" and "lf"
    Frames,       \* the frames upstream may send, sequences of lines
    MaxFrames,    \* the number of frames of a response
    MaxToken,     \* the largest i64
    MaxBuffer     \* MAX_SSE_FRAME_BYTES

BoundsArePositive == {MaxFrames, MaxToken, MaxBuffer} \subseteq Nat \ {0}

VARIABLES
    setup,      \* format, parser, transport of the response
    frames,     \* the frames of the response
    rest,       \* what has not arrived yet: letters, or frames of a WebSocket
    bytes,      \* SseUsageScanner.bytes
    disabled,   \* SseUsageScanner.disabled
    usage,      \* partial, latest, terminal, terminal_usage_seen
    outcome,    \* sse_terminal_outcome
    error,      \* the frame response_error was taken from
    ended       \* the body ended cleanly and was finalized

vars == <<setup, frames, rest, bytes, disabled, usage, outcome, error, ended>>

--------------------
\* Counters.

\* token, optional_token: a counter that is not an i64 >= 0 is refused
IsToken(n) == n \in 0..MaxToken

Readable(counter) == \A n \in counter : IsToken(n)

ValueOr(counter, default) == IF counter = {} THEN default ELSE CHOOSE n \in counter : TRUE

\* CanonicalUsage::validate
Valid(u) == u.cached <= u.input

\* parse_general_usage of the OpenAI formats: totals include the cached part
ParseOpenAi(u) ==
    IF /\ u.whole /\ u.input # {} /\ u.output # {}
       /\ Readable(u.input) /\ Readable(u.cached) /\ Readable(u.output)
    THEN LET p == [input |-> ValueOr(u.input, 0), cached |-> ValueOr(u.cached, 0),
                   output |-> ValueOr(u.output, 0)]
         IN {q \in {p} : Valid(q)}
    ELSE {}

\* AnthropicUsageSnapshot::default and invalidate
FreshSnapshot == [input |-> {}, cached |-> {0}, output |-> {}]

NoSnapshot == [input |-> {}, cached |-> {}, output |-> {}]

\* AnthropicUsageSnapshot::observe: a counter that is there replaces the one
\* kept, by nothing when it cannot be read
ObserveCounters(partial, u) ==
    [c \in {"input", "cached", "output"} |->
        IF u[c] = {} THEN partial[c] ELSE {n \in u[c] : IsToken(n)}]

\* parse_general_usage of the Anthropic format: the cached part is extra
ParseAnthropic(partial) ==
    IF \E c \in DOMAIN partial : partial[c] = {} THEN {}
    ELSE LET in == ValueOr(partial.input, 0) + ValueOr(partial.cached, 0)
         IN IF in > MaxToken THEN {}
            ELSE {[input |-> in, cached |-> ValueOr(partial.cached, 0),
                   output |-> ValueOr(partial.output, 0)]}

\* UsageParserConfig::parse
Parse(parser, partial, u) ==
    IF parser = "general" THEN [partial |-> partial, usage |-> ParseOpenAi(u)]
    ELSE IF ~u.whole THEN [partial |-> NoSnapshot, usage |-> {}]
    ELSE LET p == ObserveCounters(partial, u)
         IN [partial |-> p, usage |-> ParseAnthropic(p)]

--------------------
\* Events.

\* is_terminal_usage_event
IsTerminalUsage(format, v) ==
    CASE format = "chat" -> v.closing
      [] format = "responses" -> v.type \in {"completed", "failed"}
      [] OTHER -> FALSE

\* Mutant of RecordOne: an invalid summary leaves the earlier counts.
RecordOneFallsBack(state, v, isLast) ==
    IF v.usage = {} THEN state
    ELSE LET parsed == Parse(setup.parser, state.partial, CHOOSE u \in v.usage : TRUE)
         IN [partial |-> parsed.partial,
             seen |-> state.seen \/ IsTerminalUsage(setup.format, v) \/ isLast,
             terminal |-> IF parsed.usage # {} /\ (IsTerminalUsage(setup.format, v) \/ isLast)
                          THEN parsed.usage ELSE state.terminal,
             latest |-> parsed.usage]

\* one pass of the loop of record; usage_object is the usage of the value
RecordOne(state, v, isLast) ==
    IF v.usage = {} THEN state
    ELSE LET parsed == Parse(setup.parser, state.partial, CHOOSE u \in v.usage : TRUE)
             closes == IsTerminalUsage(setup.format, v) \/ isLast
         IN [partial |-> parsed.partial,
             seen |-> state.seen \/ closes,
             terminal |-> IF closes \/ parsed.usage = {} THEN parsed.usage ELSE state.terminal,
             latest |-> parsed.usage]

\* record
Record(state, values, terminal) ==
    FoldLeftDomain(LAMBDA st, i : RecordOne(st, values[i], terminal /\ i = Len(values)),
                   state, values)

\* latest
Billed == IF usage.seen THEN usage.terminal ELSE usage.latest

NullUsage == [object |-> TRUE, type |-> "none", error |-> FALSE, closing |-> FALSE,
              usage |-> {[whole |-> FALSE, input |-> {}, cached |-> {}, output |-> {}]}]

\* the fields of a frame: the last event name, and the data lines joined
EventName(frame) ==
    LET names == SelectSeq(frame, LAMBDA l : Line[l].field = "event")
    IN IF names = <<>> THEN "" ELSE Line[Last(names)].name

DataOf(frame) == SelectSeq(frame, LAMBDA l : Line[l].field = "data")

ValueOf(frame) == IF DataOf(frame) \in DOMAIN Json THEN {Json[DataOf(frame)]} ELSE {}

TypeOf(frame) == IF ValueOf(frame) = {} THEN "none" ELSE Json[DataOf(frame)].type

Failed(format, frame) ==
    \/ "error" \in {EventName(frame), TypeOf(frame)}
    \/ \E v \in ValueOf(frame) : v.error
    \/ format = "responses" /\ "failed" \in {EventName(frame), TypeOf(frame)}

Completed(format, frame) ==
    \/ DataOf(frame) = <<"[DONE]">>
    \/ format = "responses" /\ "completed" \in {EventName(frame), TypeOf(frame)}

\* observe_sse_frame
ObserveFrame(format, frame) ==
    [outcome |-> IF Failed(format, frame) THEN {"failed"}
                 ELSE IF Completed(format, frame) THEN {"completed"} ELSE {},
     value |-> IF /\ Completed(format, frame) /\ DataOf(frame) # <<"[DONE]">>
                  /\ \A v \in ValueOf(frame) : ~v.object
               THEN {NullUsage} ELSE ValueOf(frame)]

--------------------
\* The event-stream scanner.

StartsBreak(s, i) == /\ s[i] \in {"cr", "lf"}
                     /\ ~(s[i] = "lf" /\ i > 1 /\ s[IF i > 1 THEN i - 1 ELSE 1] = "cr")

BreakEnd(s, i) == IF s[i] = "cr" /\ i < Len(s) /\ s[IF i < Len(s) THEN i + 1 ELSE i] = "lf"
                  THEN i + 1 ELSE i

\* sse_frame_end: the end of the first empty line, or 0
FrameEnd(s) ==
    LET breaks == {i \in DOMAIN s : StartsBreak(s, i)}
        starts == {1} \union {BreakEnd(s, i) + 1 : i \in breaks}
        empty == breaks \intersect starts
    IN IF empty = {} THEN 0 ELSE BreakEnd(s, Min(empty))

\* next_sse_line: the lines of a frame
LinesOf(s) == SelectSeq(s, LAMBDA b : b \notin {"cr", "lf"})

\* the loop of SseUsageScanner::push: frames are observed up to the first
\* that ends the response
Scan(format, s) ==
    LET cut[t \in {SubSeq(s, i, Len(s)) : i \in 1..Len(s) + 1}] ==
            LET end == FrameEnd(t)
                frame == LinesOf(SubSeq(t, 1, end))
                o == ObserveFrame(format, frame)
                after == SubSeq(t, end + 1, Len(t))
                more == cut[after]
            IN IF end = 0 THEN [bytes |-> t, values |-> <<>>, outcome |-> {}, error |-> <<>>]
               ELSE IF o.outcome # {}
                    THEN [bytes |-> after, values |-> SetToSeq(o.value), outcome |-> o.outcome,
                          error |-> IF o.outcome = {"failed"} THEN frame ELSE <<>>]
                    ELSE [more EXCEPT !.values = SetToSeq(o.value) \o @]
    IN cut[s]

--------------------
\* The wire: the lines of each frame, each frame closed by an empty line,
\* the last one perhaps not.
Wire(fs, brk, closed) ==
    FlattenSeq([i \in DOMAIN fs |->
        FlattenSeq([k \in DOMAIN fs[i] |-> <<fs[i][k]>> \o brk])
        \o (IF i = Len(fs) /\ ~closed THEN <<>> ELSE brk)])

NoUsage == [partial |-> FreshSnapshot, latest |-> {}, terminal |-> {}, seen |-> FALSE]

\* with_parser, with the response upstream will send
Init ==
    /\ setup \in [format : Formats, parser : Parsers, transport : Transports]
    /\ setup.transport = "websocket" => setup.format = "responses"
    /\ \E n \in 1..MaxFrames : frames \in [1..n -> Frames]
    /\ IF setup.transport = "websocket" THEN rest = frames
       ELSE \E brk \in Breaks, closed \in BOOLEAN : rest = Wire(frames, brk, closed)
    /\ bytes = <<>> /\ disabled = FALSE
    /\ usage = NoUsage
    /\ outcome = {} /\ error = <<>> /\ ended = FALSE

\* Mutant of Observe: what follows the end of a response is read as well.
ObserveOn(k) ==
    /\ setup.transport = "sse" /\ ~ended /\ k \in 1..Len(rest)
    /\ rest' = SubSeq(rest, k + 1, Len(rest))
    /\ LET chunk == SubSeq(rest, 1, k)
           s == Scan(setup.format, bytes \o chunk)
       IN IF disabled THEN UNCHANGED <<bytes, disabled, usage, outcome, error>>
          ELSE IF Len(bytes) + k > MaxBuffer
          THEN /\ bytes' = <<>> /\ disabled' = TRUE
               /\ usage' = Record(usage, <<NullUsage>>, FALSE)
               /\ UNCHANGED <<outcome, error>>
          ELSE /\ bytes' = s.bytes
               /\ outcome' = IF outcome = {} THEN s.outcome ELSE outcome
               /\ error' = IF outcome = {} THEN s.error ELSE error
               /\ usage' = Record(usage, s.values, s.outcome # {})
               /\ UNCHANGED disabled
    /\ UNCHANGED <<setup, frames, ended>>

\* observe: a chunk of k letters of an event stream
Observe(k) ==
    /\ setup.transport = "sse" /\ ~ended /\ k \in 1..Len(rest)
    /\ rest' = SubSeq(rest, k + 1, Len(rest))
    /\ LET chunk == SubSeq(rest, 1, k)
           s == Scan(setup.format, bytes \o chunk)
       IN IF outcome # {} \/ disabled THEN UNCHANGED <<bytes, disabled, usage, outcome, error>>
          ELSE IF Len(bytes) + k > MaxBuffer
          THEN /\ bytes' = <<>> /\ disabled' = TRUE
               /\ usage' = Record(usage, <<NullUsage>>, FALSE)
               /\ UNCHANGED <<outcome, error>>
          ELSE /\ bytes' = s.bytes /\ outcome' = s.outcome /\ error' = s.error
               /\ usage' = Record(usage, s.values, s.outcome # {})
               /\ UNCHANGED disabled
    /\ UNCHANGED <<setup, frames, ended>>

\* observe_websocket_event: only the events that end a response are read
ObserveWebSocketEvent ==
    /\ setup.transport = "websocket" /\ ~ended /\ rest # <<>>
    /\ rest' = Tail(rest)
    /\ LET type == TypeOf(Head(rest))
       IN IF outcome = {} /\ type \in {"completed", "failed", "error"}
          THEN /\ outcome' = {IF type = "completed" THEN "completed" ELSE "failed"}
               /\ error' = IF type = "completed" THEN <<>> ELSE Head(rest)
               /\ usage' = Record(usage, SetToSeq(ValueOf(Head(rest))), TRUE)
          ELSE UNCHANGED <<outcome, error, usage>>
    /\ UNCHANGED <<setup, frames, bytes, disabled, ended>>

\* finalize: the body ended cleanly, the frame in the buffer counts
Finalize ==
    /\ setup.transport = "sse" /\ rest = <<>> /\ ~ended
    /\ ended' = TRUE /\ bytes' = <<>>
    /\ LET o == ObserveFrame(setup.format, LinesOf(bytes))
       IN IF outcome # {} \/ disabled THEN UNCHANGED <<outcome, error, usage>>
          ELSE /\ outcome' = o.outcome
               /\ error' = IF o.outcome = {"failed"} THEN LinesOf(bytes) ELSE <<>>
               /\ usage' = Record(usage, SetToSeq(o.value), o.outcome # {})
    /\ UNCHANGED <<setup, frames, rest, disabled>>

Next ==
    \/ \E k \in 1..Len(rest) : Observe(k)
    \/ ObserveWebSocketEvent
    \/ Finalize

Spec == Init /\ [][Next]_vars

--------------------
\* What the response says, read as a whole.

TypeOK ==
    /\ usage.latest \subseteq [input : 0..MaxToken, cached : 0..MaxToken, output : 0..MaxToken]
    /\ usage.terminal \subseteq [input : 0..MaxToken, cached : 0..MaxToken, output : 0..MaxToken]
    /\ outcome \in SUBSET {"completed", "failed"} /\ Cardinality(outcome) <= 1
    /\ Len(bytes) <= MaxBuffer /\ disabled \in BOOLEAN /\ ended \in BOOLEAN

\* a WebSocket carries the type in the event only, and reads nothing else
EventOutcome(i) ==
    IF setup.transport = "sse" THEN ObserveFrame(setup.format, frames[i]).outcome
    ELSE CASE TypeOf(frames[i]) = "completed" -> {"completed"}
           [] TypeOf(frames[i]) \in {"failed", "error"} -> {"failed"}
           [] OTHER -> {}

EventValue(i) ==
    IF setup.transport = "sse" THEN ObserveFrame(setup.format, frames[i]).value
    ELSE IF EventOutcome(i) = {} THEN {} ELSE ValueOf(frames[i])

\* the first frame that ends the response, or the last one
EndingFrames == {i \in DOMAIN frames : EventOutcome(i) # {}}

LastFrame == IF EndingFrames = {} THEN Len(frames) ELSE Min(EndingFrames)

\* the usage objects of the frames that have one
Reports ==
    LET from == {i \in 1..LastFrame : \E v \in EventValue(i) : v.usage # {}}
    IN [i \in from |-> CHOOSE u \in (CHOOSE v \in EventValue(i) : TRUE).usage : TRUE]

Summaries ==
    {i \in 1..LastFrame :
        \E v \in EventValue(i) :
            v.usage # {} /\ (i \in EndingFrames \/ IsTerminalUsage(setup.format, v))}

\* what a counter of the Anthropic dialect stands at after report i: its last
\* mention, unless a whole report was refused in between
CounterAt(reports, c, i) ==
    LET refused == {j \in DOMAIN reports : j <= i /\ ~reports[j].whole}
        mentions == {j \in DOMAIN reports : /\ j <= i /\ reports[j].whole /\ reports[j][c] # {}
                                            /\ \A r \in refused : r < j}
    IN IF mentions # {} THEN {n \in reports[Max(mentions)][c] : IsToken(n)}
       ELSE IF refused = {} THEN FreshSnapshot[c] ELSE {}

CountsAt(reports, i) ==
    IF setup.parser = "general" THEN ParseOpenAi(reports[i])
    ELSE IF ~reports[i].whole THEN {}
    ELSE ParseAnthropic([c \in {"input", "cached", "output"} |-> CounterAt(reports, c, i)])

LastReport(reports) ==
    IF DOMAIN reports = {} THEN {} ELSE CountsAt(reports, Max(DOMAIN reports))

LastSummary(reports, summaries) ==
    IF summaries = {} THEN LastReport(reports)
    ELSE IF \E i \in DOMAIN reports : i > Max(summaries) /\ CountsAt(reports, i) = {} THEN {}
    ELSE CountsAt(reports, Max(summaries))

Settled == outcome # {} \/ ended \/ (setup.transport = "websocket" /\ rest = <<>>)

\* However the stream is cut into chunks, and over both transports, the
\* response ends with the first event that ends it, a failure before a
\* completion when one event says both, and the error is that event's
\* (observe, SseUsageScanner::push, observe_websocket_event).
OutcomeIsFirst ==
    Settled /\ ~disabled =>
        /\ outcome = (IF EndingFrames = {} THEN {} ELSE EventOutcome(LastFrame))
        /\ error = (IF outcome = {"failed"} THEN frames[LastFrame] ELSE <<>>)

\* Whatever the chunks, a response is billed for its last summary, never for
\* counts that an invalid one has superseded, nor for the counters of a
\* report that was refused.  A Chat stream that goes on reporting after its
\* summary is the one exception: when [DONE] shares a chunk with the last
\* report, record takes that report for the summary.
BilledAsReported ==
    Settled /\ ~disabled =>
        LET reports == Reports
            summary == LastSummary(reports, Summaries)
        IN IF setup.format = "chat" THEN Billed \in {summary, LastReport(reports)}
           ELSE Billed = summary

\* A stream whose frame outgrows the buffer is billed as unknown, whatever it
\* reported before (SseUsageScanner::push reports an unreadable usage).
OverflowIsUnknown == disabled => Billed = {} /\ outcome = {}

\* Once the response has ended nothing that follows changes the outcome, the
\* error or the bill (docs/development/usage-normalization.md: no new
\* summary is accepted after the real end).
EndIsFinal == outcome # {} => Billed' = Billed /\ UNCHANGED <<outcome, error>>

=============================================================================
