--------------------------- MODULE SseTransformer ---------------------------
\* The pull-driven transformer of server-sent events
\* (transforms/mod.rs SseTransformer): an upstream response arrives in
\* chunks cut anywhere, the transformer cuts it into frames at blank lines
\* (LF, CR or CRLF), patches the JSON of the frames the channel's plan
\* selects and passes every other byte on.
\*
\* A byte is "lf", "cr" or a letter.  The first letter of a line stands
\* for the field it holds: "d" is a data line with the JSON of an event,
\* "p" and "q" are data lines with its two halves, "n" is a data line that
\* is not JSON, "e" an event line with the name of that event, "f" one
\* with another name, "z" an event line with an empty name, anything else
\* a comment.  "R" is a rewritten data line.
EXTENDS Integers, Sequences, FiniteSets, SequencesExt, FiniteSetsExt

CONSTANTS
    Bytes,      \* the bytes upstream may send
    MaxBytes,   \* the length of a response
    MaxChunk,   \* the length of a chunk
    MaxFrame,   \* MAX_FRAME_BYTES
    Formats,    \* "chat", "responses"
    Patches     \* how the patch of the selected event goes: "none", "ok", "fails"

BoundsAreCounts == {MaxBytes, MaxChunk, MaxFrame} \subseteq Nat \ {0}

DataLetters == {"d", "p", "q", "n", "R"}
EventLetters == {"e", "f", "z"}

--------------------
\* Lines of a complete frame.

\* next_sse_line: where the lines of s end
LineEnds(s) ==
    {i \in DOMAIN s : \/ s[i] = "lf"
                      \/ s[i] = "cr" /\ (i < Len(s) => s[i + 1] # "lf")}

Lines(s) ==
    LET ends == SetToSortSeq(LineEnds(s), <)
    IN [k \in DOMAIN ends |-> SubSeq(s, IF k = 1 THEN 1 ELSE ends[k - 1] + 1, ends[k])]

IsLetter(b) == b \notin {"lf", "cr"}

Content(line) == SelectSeq(line, IsLetter)

Ending(line) == SelectSeq(line, LAMBDA b : ~IsLetter(b))

\* sse_field
Field(line) ==
    CASE Content(line) = <<>> -> "blank"
      [] Content(line) # <<>> /\ Head(Content(line)) \in DataLetters -> "data"
      [] Content(line) # <<>> /\ Head(Content(line)) \in EventLetters -> "event"
      [] OTHER -> "other"

DataOf(s) ==
    LET ls == SelectSeq(Lines(s), LAMBDA l : Field(l) = "data")
    IN [k \in DOMAIN ls |-> Content(ls[k])]

IsEventJson(data) == data \in {<<<<"d">>>>, <<<<"p">>, <<"q">>>>}

\* The name of the last event line, "none" without one.
NameOf(s) ==
    LET ls == SelectSeq(Lines(s), LAMBDA l : Field(l) = "event")
    IN IF ls = <<>> THEN "none" ELSE Head(Content(ls[Len(ls)]))

\* transform_sse_frame, apply_matching_chat_entries and
\* apply_matching_response_entries: the frame's JSON is the event the plan
\* names, and an event line does not contradict it.
Selected(s, format, patch) ==
    /\ IsEventJson(DataOf(s)) /\ patch # "none"
    /\ NameOf(s) \in IF format = "chat" THEN {"none", "z"} ELSE {"none", "e"}

\* rewrite_sse_data_lines: the first data line gets the new document and keeps
\* its line ending, the other data lines go.
RewriteDataLines(s) ==
    LET ls == Lines(s)
        first == Min({k \in DOMAIN ls : Field(ls[k]) = "data"})
    IN FlattenSeq([k \in DOMAIN ls |->
         IF k = first THEN <<"R">> \o Ending(ls[k])
         ELSE IF Field(ls[k]) = "data" THEN <<>> ELSE ls[k]])

\* apply_websocket_event_plan on the message whose JSON is the event
WebSocketSelected(data, format, patch) ==
    IsEventJson(data) /\ patch # "none" /\ format = "responses"

--------------------
VARIABLES
    format, patch,  \* the plan
    seen,           \* every byte upstream has sent
    source,         \* the rest of the current chunk
    frame,          \* the unfinished frame
    content,        \* line_has_content
    pendingCr,      \* pending_cr
    frames,         \* the frames cut so far, as they came
    out,            \* what the client got for each
    state           \* "open", "ended", "large" or "failed"

vars == <<format, patch, seen, source, frame, content, pendingCr, frames, out, state>>

plan == <<format, patch>>

Init ==
    /\ format \in Formats /\ patch \in Patches
    /\ seen = <<>> /\ source = <<>> /\ frame = <<>>
    /\ content = FALSE /\ pendingCr = FALSE
    /\ frames = <<>> /\ out = <<>>
    /\ state = "open"

\* push: only once the last chunk is drained
Push ==
    /\ state = "open" /\ source = <<>>
    /\ \E n \in 1..MaxChunk : \E chunk \in [1..n -> Bytes] :
         /\ Len(seen) + n <= MaxBytes
         /\ source' = chunk
         /\ seen' = seen \o chunk
    /\ UNCHANGED <<plan, frame, content, pendingCr, frames, out, state>>

\* Yield the frame f: transform_sse_frame.
Yield(f) ==
    IF Selected(f, format, patch) /\ patch = "fails"
      THEN state' = "failed" /\ UNCHANGED <<frames, out>>
      ELSE /\ frames' = Append(frames, f)
           /\ out' = Append(out, IF Selected(f, format, patch) THEN RewriteDataLines(f) ELSE f)
           /\ UNCHANGED state

TooLarge ==
    /\ state' = "large"
    /\ UNCHANGED <<source, frame, content, pendingCr, frames, out>>

\* A carriage return is resolved by its successor, which belongs to the line
\* ending when it is a line feed and to the next line when it is not.
ResolveCr ==
    /\ state = "open" /\ source # <<>> /\ pendingCr
    /\ LET lf == Head(source) = "lf"
           full == IF lf THEN Append(frame, "lf") ELSE frame
       IN IF lf /\ Len(frame) = MaxFrame THEN TooLarge
          ELSE /\ pendingCr' = FALSE
               /\ source' = IF lf THEN Tail(source) ELSE source
               /\ content' = FALSE
               /\ IF content THEN frame' = full /\ UNCHANGED <<frames, out, state>>
                  ELSE frame' = <<>> /\ Yield(full)
    /\ UNCHANGED <<plan, seen>>

\* Mutant of Consume: a carriage return ends the line at once.
ConsumeCrAtOnce ==
    /\ state = "open" /\ source # <<>> /\ ~pendingCr
    /\ LET b == Head(source)
           full == Append(frame, b)
       IN IF Len(frame) = MaxFrame THEN TooLarge
          ELSE /\ source' = Tail(source)
               /\ content' = IsLetter(b)
               /\ IF ~IsLetter(b) /\ ~content THEN frame' = <<>> /\ Yield(full)
                  ELSE frame' = full /\ UNCHANGED <<frames, out, state>>
    /\ UNCHANGED <<plan, seen, pendingCr>>

\* next_frame: one byte
Consume ==
    /\ state = "open" /\ source # <<>> /\ ~pendingCr
    /\ LET b == Head(source)
           full == Append(frame, b)
       IN IF Len(frame) = MaxFrame THEN TooLarge
          ELSE /\ source' = Tail(source)
               /\ pendingCr' = (b = "cr")
               /\ content' = (b # "lf" /\ (content \/ IsLetter(b)))
               /\ IF b = "lf" /\ ~content THEN frame' = <<>> /\ Yield(full)
                  ELSE frame' = full /\ UNCHANGED <<frames, out, state>>
    /\ UNCHANGED <<plan, seen>>

\* A clean end passes the unfinished frame on as it came.
Finish ==
    /\ state = "open" /\ source = <<>>
    /\ state' = "ended"
    /\ frame' = <<>>
    /\ frames' = IF frame = <<>> THEN frames ELSE Append(frames, frame)
    /\ out' = IF frame = <<>> THEN out ELSE Append(out, frame)
    /\ UNCHANGED <<plan, seen, source, content, pendingCr>>

Next == Push \/ ResolveCr \/ Consume \/ Finish

Spec == Init /\ [][Next]_vars

--------------------
\* Where the frames of a response end, whatever its chunks: a line ends at a
\* line feed or at a carriage return whose successor is not one, and a blank
\* line ends a frame.
FrameEnds(s) ==
    LET ends == {i \in DOMAIN s : \/ s[i] = "lf"
                                  \/ s[i] = "cr" /\ i < Len(s) /\ s[i + 1] # "lf"}
        Start(i) == Max({0} \cup {j \in ends : j < i}) + 1
    IN {i \in ends : \A k \in Start(i)..i : ~IsLetter(s[k])}

\* The chunks do not show: once a chunk is drained, the frames cut are exactly
\* those of the whole response so far (next_frame, pending_cr).
FramesIgnoreChunks ==
    state = "open" /\ source = <<>> =>
        {Len(FlattenSeq(SubSeq(frames, 1, k))) : k \in DOMAIN frames} = FrameEnds(seen)

\* No byte is lost, doubled or reordered: what has been cut, what is being cut
\* and what is still unread is what upstream sent, and at a clean end the
\* client has the last, unfinished frame too (take_frame, finish).
NothingLost ==
    /\ state = "open" => FlattenSeq(frames) \o frame \o source = seen
    /\ state = "ended" => FlattenSeq(frames) = seen

WithoutData(s) == SelectSeq(Lines(s), LAMBDA l : Field(l) # "data")

\* Of a rewritten frame every line that is not data stays, in its place and
\* with its ending, and exactly one data line is left; a frame is rewritten
\* only when its event line agrees with its JSON (rewrite_sse_data_lines).
EnvelopeKept ==
    \A k \in DOMAIN out :
        /\ WithoutData(out[k]) = WithoutData(frames[k])
        /\ out[k] # frames[k] =>
             /\ Len(DataOf(out[k])) = 1
             /\ format = "responses" => NameOf(frames[k]) # "f"
             /\ LineEnds(out[k]) # {} /\ FrameEnds(out[k]) = {Len(out[k])}

\* A response is refused for its size only when a frame really is larger than
\* the limit, and no frame above it is ever held or sent (append).
SizeLimitExact ==
    /\ Len(frame) <= MaxFrame
    /\ \A k \in DOMAIN frames : Len(frames[k]) <= MaxFrame
    /\ state = "large" =>
         \A e \in FrameEnds(seen) :
            e > Len(FlattenSeq(frames)) => e - Len(FlattenSeq(frames)) > MaxFrame

\* One set of rules serves both transports: an unnamed event is patched over
\* server-sent events of the Responses format exactly when the same message
\* over a WebSocket is (apply_websocket_event_plan).
TransportsAgree ==
    \A k \in DOMAIN out :
        k <= Cardinality(FrameEnds(seen)) /\ format = "responses"
            /\ NameOf(frames[k]) = "none" =>
            (out[k] # frames[k]) = WebSocketSelected(DataOf(frames[k]), format, patch)
=============================================================================
