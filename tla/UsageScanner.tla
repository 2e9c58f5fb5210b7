---------------------------- MODULE UsageScanner ----------------------------
\* The incremental scanner of plain JSON responses (application/usage.rs
\* TopLevelUsageScanner, JsonObjectCapture): it finds the top-level usage
\* member of a body it never buffers, one byte at a time, so that only
\* that object is kept and never more than MAX_USAGE_OBJECT_BYTES of it.
\*
\* A byte is a letter: "{" "}" "[" "]" ":" "," "q" (a quote), "b" (a
\* backslash), "s" (white space), "u" and "x".  The key "usage" is the
\* letter "u".
EXTENDS Integers, Sequences, SequencesExt

CONSTANTS
    Keys,       \* the keys of top-level members, without their quotes
    Values,     \* the values of members
    Spaces,     \* white space around the colon: sequences of "s"
    MaxMembers, \* the number of top-level members
    MaxObject   \* MAX_USAGE_OBJECT_BYTES

UsageKey == <<"u">>

VARIABLES
    members,    \* the members of the body, in order: <<key, value>>
    space,      \* the white space it is written with
    consumed,   \* how many bytes have arrived
    scan,       \* the fields of TopLevelUsageScanner
    capture,    \* its JsonObjectCapture, of no bytes when there is none
    values,     \* what push returned: the text of an object, or <<>> for null
    ended       \* finalize has run

vars == <<members, space, consumed, scan, capture, values, ended>>

\* The body upstream sends.
Quoted(s) == <<"q">> \o s \o <<"q">>

MemberText(m) == Quoted(m[1]) \o space \o <<":">> \o space \o m[2]

Body ==
    <<"{">> \o FlattenSeq([i \in DOMAIN members |->
                  (IF i = 1 THEN <<>> ELSE <<",">>) \o MemberText(members[i])]) \o <<"}">>

NoCapture == [bytes |-> <<>>, depth |-> 0, in_string |-> FALSE, escaped |-> FALSE]

Init ==
    /\ \E n \in 0..MaxMembers : members \in [1..n -> Keys \X Values]
    /\ space \in Spaces
    /\ consumed = 0
    /\ scan = [depth |-> 0, in_string |-> FALSE, escaped |-> FALSE, key |-> <<>>, reading |-> FALSE,
               colon |-> FALSE, value |-> FALSE, disabled |-> FALSE]
    /\ capture = NoCapture
    /\ values = <<>>
    /\ ended = FALSE

--------------------
\* JsonObjectCapture::push; the object is complete when the depth is 0
CapturePush(c, b) ==
    LET kept == [c EXCEPT !.bytes = Append(@, b)]
    IN IF c.in_string
       THEN [kept EXCEPT !.escaped = ~c.escaped /\ b = "b",
                         !.in_string = c.escaped \/ b # "q"]
       ELSE CASE b = "q" -> [kept EXCEPT !.in_string = TRUE]
              [] b \in {"{", "["} -> [kept EXCEPT !.depth = @ + 1]
              [] b \in {"}", "]"} -> [kept EXCEPT !.depth = @ - 1]
              [] OTHER -> kept

\* push_key: a key longer than "usage" is not it
PushKey(s, b) ==
    IF Len(s.key) < Len(UsageKey) THEN [s EXCEPT !.key = Append(@, b)]
    ELSE [s EXCEPT !.reading = FALSE]

InString(s, b) ==
    CASE s.escaped -> LET t == [s EXCEPT !.escaped = FALSE]
                      IN IF s.reading THEN PushKey(t, b) ELSE t
      [] ~s.escaped /\ b = "b" -> [s EXCEPT !.escaped = TRUE]
      [] ~s.escaped /\ b = "q" -> [s EXCEPT !.in_string = FALSE, !.reading = FALSE,
                                            !.colon = s.reading /\ s.key = UsageKey]
      [] OTHER -> IF s.reading THEN PushKey(s, b) ELSE s

OutsideString(s, b) ==
    CASE b \in {"{", "["} -> [s EXCEPT !.depth = @ + 1]
      [] b \in {"}", "]"} -> [s EXCEPT !.depth = IF @ > 0 THEN @ - 1 ELSE 0]
      [] b = "q" -> [s EXCEPT !.in_string = TRUE, !.reading = (s.depth = 1), !.key = <<>>]
      [] OTHER -> s

PlainByte(s, b) == IF s.in_string THEN InString(s, b) ELSE OutsideString(s, b)

\* a byte of the object under capture
Captured(b) ==
    IF Len(capture.bytes) = MaxObject
    THEN /\ capture' = NoCapture /\ scan' = [scan EXCEPT !.disabled = TRUE]
         /\ values' = Append(values, <<>>)
    ELSE LET c == CapturePush(capture, b)
         IN /\ IF c.depth = 0 THEN values' = Append(values, c.bytes) /\ capture' = NoCapture
               ELSE capture' = c /\ UNCHANGED values
            /\ UNCHANGED scan

\* a byte outside a capture: the colon and the value after the key, else a
\* plain byte
Scanned(b) ==
    LET afterColon == [scan EXCEPT !.colon = FALSE]
        afterValue == [afterColon EXCEPT !.value = FALSE]
    IN CASE (scan.colon \/ scan.value) /\ b = "s" -> UNCHANGED <<scan, capture, values>>
         [] scan.colon /\ b = ":" ->
                scan' = [afterColon EXCEPT !.value = TRUE] /\ UNCHANGED <<capture, values>>
         [] scan.value /\ b = "{" ->
                /\ scan' = afterValue /\ UNCHANGED values
                /\ capture' = [NoCapture EXCEPT !.bytes = <<"{">>, !.depth = 1]
         [] scan.value /\ b \notin {"s", "{"} ->
                /\ scan' = PlainByte(afterValue, b) /\ values' = Append(values, <<>>)
                /\ UNCHANGED capture
         [] OTHER -> scan' = PlainByte(afterColon, b) /\ UNCHANGED <<capture, values>>

\* push, one byte of a chunk
Push ==
    /\ ~ended /\ consumed < Len(Body)
    /\ consumed' = consumed + 1
    /\ LET b == Body[consumed + 1]
       IN IF scan.disabled THEN UNCHANGED <<scan, capture, values>>
          ELSE IF capture # NoCapture THEN Captured(b)
          ELSE Scanned(b)
    /\ UNCHANGED <<members, space, ended>>

\* finalize: the body ended, here or before its time
Finalize ==
    /\ ~ended /\ ended' = TRUE
    /\ IF ~scan.disabled /\ (capture # NoCapture \/ scan.value \/ scan.colon)
       THEN /\ capture' = NoCapture /\ scan' = [scan EXCEPT !.disabled = TRUE]
            /\ values' = Append(values, <<>>)
       ELSE UNCHANGED <<scan, capture, values>>
    /\ UNCHANGED <<members, space, consumed>>

Next == Push \/ Finalize

Spec == Init /\ [][Next]_vars

--------------------
TypeOK ==
    /\ consumed \in 0..Len(Body)
    /\ scan.depth \in Nat /\ Len(scan.key) <= Len(UsageKey)
    /\ Len(capture.bytes) <= MaxObject

\* what the body says: the usage members up to one that is too large
UsageMembers == SelectSeq(members, LAMBDA m : m[1] = UsageKey)

IsObject(v) == v[1] = "{"

Fits(v) == IsObject(v) => Len(v) <= MaxObject

Expected ==
    LET big == {i \in DOMAIN UsageMembers : ~Fits(UsageMembers[i][2])}
        stop == IF big = {} THEN Len(UsageMembers) ELSE CHOOSE i \in big : \A j \in big : i <= j
    IN [i \in 1..stop |->
            IF IsObject(UsageMembers[i][2]) /\ i \notin big THEN UsageMembers[i][2] ELSE <<>>]

\* From a complete body the scanner takes exactly the top-level usage
\* members, whole objects as they were written and nothing for the others,
\* whatever strings, escapes and nested members surround them; an object
\* that is too large is the last (TopLevelUsageScanner::push).
FindsUsage == ended /\ consumed = Len(Body) => values = Expected

\* how many bytes precede member i
MemberStart(i) ==
    1 + Len(FlattenSeq([j \in 1..i - 1 |-> MemberText(members[j])])) + i - 1

\* A body that is cut off inside a usage member, after its key, leaves the
\* usage unknown instead of the counts of an earlier member
\* (TopLevelUsageScanner::finalize).
CutOffIsUnknown ==
    ended => \A i \in DOMAIN members :
        (/\ members[i][1] = UsageKey
         /\ consumed >= MemberStart(i) + 2 + Len(UsageKey)
         /\ consumed < MemberStart(i) + Len(MemberText(members[i])))
            => values # <<>> /\ Last(values) = <<>>

\* When the scanner gives up on an object beyond MAX_USAGE_OBJECT_BYTES, the
\* last thing it has said is that the usage cannot be read: the counts of an
\* earlier member do not stand.
OversizeIsUnknown == scan.disabled => values # <<>> /\ Last(values) = <<>>

=============================================================================
