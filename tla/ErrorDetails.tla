---------------------------- MODULE ErrorDetails ----------------------------
\* The error text kept from an unsuccessful response
\* (application/usage.rs ErrorBodyCapture, sanitize_error_text): a bounded
\* prefix of the body is captured as chunks arrive, decoded, cleaned of
\* control characters and cut to a limit in bytes, and a cut is marked by
\* an ellipsis.  Bodies that are JSON take the text from a field and go
\* through the same cleaning.
\*
\* A byte is "a", "sp", "cr", "lf", "nul", or one of the two bytes "hi",
\* "lo" of one character; a lone one decodes to the replacement character.
EXTENDS Integers, Sequences, FiniteSets, SequencesExt, FiniteSetsExt

CONSTANTS
    Bytes,      \* the bytes of bodies
    MaxBody,    \* the length of a body
    MaxSummary  \* MAX_ERROR_SUMMARY_BYTES

EllipsisBytes == 3

RoomForTheMark == MaxSummary \in Nat /\ MaxSummary >= EllipsisBytes

VARIABLES
    body,       \* what upstream sends
    sent,       \* how much of it has arrived
    captured,   \* ErrorBodyCapture.bytes
    truncated,  \* ErrorBodyCapture.truncated
    summary,    \* ResponseErrorDetails.summary, characters; <<>> is None
    done

vars == <<body, sent, captured, truncated, summary, done>>

--------------------
\* Text.  Characters: the ASCII bytes, "wide" (two bytes), "bad" (U+FFFD) and
\* the ellipsis.
Width(c) == CASE c = "wide" -> 2 [] c \in {"bad", "..."} -> 3 [] OTHER -> 1

Size(text) == FoldLeft(LAMBDA n, c : n + Width(c), 0, text)

\* String::from_utf8_lossy
Decode(s) ==
    LET second(i) == i > 1 /\ s[i] = "lo" /\ s[IF i > 1 THEN i - 1 ELSE 1] = "hi"
        first(i) == i < Len(s) /\ s[i] = "hi" /\ s[IF i < Len(s) THEN i + 1 ELSE 1] = "lo"
    IN FlattenSeq([i \in DOMAIN s |->
           CASE second(i) -> <<>>
             [] first(i) -> <<"wide">>
             [] s[i] \in {"hi", "lo"} /\ ~second(i) /\ ~first(i) -> <<"bad">>
             [] OTHER -> <<s[i]>>])

\* the loop of sanitize_error_text, without its limit: CR and CRLF are line
\* feeds, other control characters are spaces
Cleaned(text) ==
    FlattenSeq([i \in DOMAIN text |->
        CASE text[i] = "lf" /\ i > 1 /\ text[IF i > 1 THEN i - 1 ELSE 1] = "cr" -> <<>>
          [] text[i] = "cr" -> <<"lf">>
          [] text[i] = "nul" -> <<"sp">>
          [] OTHER -> <<text[i]>>])

IsBlank(c) == c \in {"sp", "lf"}

Trim(text) ==
    LET solid == {i \in DOMAIN text : ~IsBlank(text[i])}
    IN IF solid = {} THEN <<>> ELSE SubSeq(text, Min(solid), Max(solid))

\* the longest prefix of at most n bytes that ends between characters
Prefix(text, n) ==
    SubSeq(text, 1, Max({k \in 0..Len(text) : Size(SubSeq(text, 1, k)) <= n}))

\* sanitize_error_text
Sanitize(text, forced) ==
    LET kept == Prefix(Cleaned(text), MaxSummary)
        trimmed == Trim(kept)
    IN IF trimmed = <<>> THEN <<>>
       ELSE IF forced \/ kept # Cleaned(text)
       THEN Append(Prefix(trimmed, MaxSummary - EllipsisBytes), "...")
       ELSE trimmed

--------------------
\* capture_error_body
Init ==
    /\ \E n \in 1..MaxBody : body \in [1..n -> Bytes]
    /\ sent = 0 /\ captured = <<>> /\ truncated = FALSE /\ summary = <<>> /\ done = FALSE

\* ErrorBodyCapture::push, a chunk of k bytes
Push(k) ==
    /\ ~done /\ k \in 1..Len(body) - sent
    /\ LET room == MaxSummary - Len(captured)
           copied == Min({room, k})
       IN /\ captured' = captured \o SubSeq(body, sent + 1, sent + copied)
          /\ truncated' = (truncated \/ copied < k)
    /\ sent' = sent + k
    /\ UNCHANGED <<body, summary, done>>

\* ErrorBodyCapture::details
Details ==
    /\ ~done /\ sent = Len(body)
    /\ done' = TRUE
    /\ summary' = Sanitize(Decode(captured), truncated)
    /\ UNCHANGED <<body, sent, captured, truncated>>

Next == (\E k \in 1..Len(body) : Push(k)) \/ Details

Spec == Init /\ [][Next]_vars

--------------------
TypeOK == /\ Len(captured) <= MaxSummary /\ truncated \in BOOLEAN
          /\ sent \in 0..Len(body) /\ done \in BOOLEAN

\* The stored text fits its column and is clean: never longer than the limit
\* in bytes, the mark and replacement characters included, no control
\* character, no carriage return and nothing blank around it
\* (sanitize_error_text, MAX_ERROR_SUMMARY_BYTES).
SummaryFits ==
    /\ Size(summary) <= MaxSummary
    /\ \A i \in DOMAIN summary : summary[i] \notin {"cr", "nul"}
    /\ summary # <<>> => ~IsBlank(summary[1])

\* However the body arrives in chunks, a text that is not all of it carries
\* the mark and one that is does not (ErrorBodyCapture::push, details).
CutIsMarked ==
    done /\ summary # <<>> =>
        ((Last(summary) = "...")
            <=> (Len(body) > MaxSummary \/ Size(Cleaned(Decode(body))) > MaxSummary))

=============================================================================
