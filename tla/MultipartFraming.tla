--------------------------- MODULE MultipartFraming ---------------------------
\* MultipartStructureValidator and BytePatternMatcher of
\* src/application/request_body.rs: the guard that bounds what the
\* multipart parser has to buffer, fed byte by byte with a matcher that
\* never looks back, checked against the framing it stands for.
EXTENDS Naturals, Sequences, SequencesExt, FiniteSetsExt

CONSTANTS
  Boundary,      \* the boundary of the Content-Type, a sequence of bytes
  Tokens,        \* what the body is made of, short sequences of bytes
  MAX_MULTIPART_PREAMBLE_BYTES, MAX_MULTIPART_PART_HEADER_BYTES,
  MAX_MULTIPART_BOUNDARY_PADDING_BYTES,
  MaxTokens      \* bound on the length of the body

VARIABLES text, tokens, state, count, matched, since
vars == <<text, tokens, state, count, matched, since>>

CR == "cr"
LF == "lf"
Dash == "-"
first_boundary == <<Dash, Dash>> \o Boundary
field_boundary == <<CR, LF>> \o first_boundary
header_terminator == <<CR, LF, CR, LF>>

\* BytePatternMatcher::new: each border extends the one before it, or a
\* border of that one.
PrefixTable(p) ==
  LET table[i \in 1..Len(p)] ==
        IF i = 1 THEN 0
        ELSE LET fall[m \in 0..Len(p) - 1] ==
                   IF m > 0 /\ p[i] # p[m + 1] THEN fall[table[m]] ELSE m
                 m == fall[table[i - 1]]
             IN IF p[i] = p[m + 1] THEN m + 1 ELSE m
  IN table

\* BytePatternMatcher::push: the bytes matched after this one.
Push(p, m, byte) ==
  LET table == PrefixTable(p)
      fall[k \in 0..Len(p) - 1] == IF k > 0 /\ byte # p[k + 1] THEN fall[table[k]] ELSE k
      k == fall[m]
  IN IF byte = p[k + 1] THEN k + 1 ELSE k

To(s, n) == [state |-> s, count |-> n, matched |-> 0]
At(s, n, m) == [state |-> s, count |-> n, matched |-> m]
Bad == To("error", 0)

\* push_byte.
Preamble(v, byte) ==
  LET m == Push(first_boundary, v.matched, byte)
  IN IF m = Len(first_boundary) THEN To("suffix", 0)
     ELSE IF v.count + 1 - m > MAX_MULTIPART_PREAMBLE_BYTES THEN Bad
     ELSE At("preamble", v.count + 1, m)

Suffix(v, byte) ==
  CASE byte = Dash /\ v.count = 0 -> To("dash", 0)
    [] byte = " " -> IF v.count + 1 > MAX_MULTIPART_BOUNDARY_PADDING_BYTES THEN Bad
                     ELSE To("suffix", v.count + 1)
    [] byte = CR -> To("cr", 0)
    [] OTHER -> Bad

Headers(v, byte) ==
  LET m == Push(header_terminator, v.matched, byte)
  IN IF v.count + 1 > MAX_MULTIPART_PART_HEADER_BYTES THEN Bad
     ELSE IF m = Len(header_terminator) THEN To("data", 0)
     ELSE At("headers", v.count + 1, m)

Data(v, byte) ==
  LET m == Push(field_boundary, v.matched, byte)
  IN IF m = Len(field_boundary) THEN To("suffix", 0) ELSE At("data", 0, m)

push_byte(v, byte) ==
  CASE v.state = "preamble" -> Preamble(v, byte)
    [] v.state = "suffix" -> Suffix(v, byte)
    [] v.state = "dash" -> IF byte = Dash THEN To("done", 0) ELSE Bad
    [] v.state = "cr" -> IF byte = LF THEN To("headers", 0) ELSE Bad
    [] v.state = "headers" -> Headers(v, byte)
    [] v.state = "data" -> Data(v, byte)
    [] OTHER -> v

Init == /\ text = <<>> /\ tokens = 0 /\ state = "preamble" /\ count = 0 /\ matched = 0
        /\ since = <<>>

\* The next bytes of the body, one chunk; since is what the matcher has seen.
Feed(t) ==
  /\ tokens < MaxTokens /\ state \notin {"error", "done"} /\ tokens' = tokens + 1
  /\ LET fed == FoldLeft(
           LAMBDA w, byte : LET v == push_byte(w.v, byte)
                            IN [v |-> v, since |-> IF v.state = w.v.state
                                                     THEN Append(w.since, byte) ELSE <<>>],
           [v |-> At(state, count, matched), since |-> since], t)
     IN state' = fed.v.state /\ count' = fed.v.count /\ matched' = fed.v.matched
        /\ since' = fed.since
  /\ text' = text \o t

Next == \E t \in Tokens : Feed(t)
Spec == Init /\ [][Next]_vars

--------------------
Pattern == CASE state = "preamble" -> first_boundary
             [] state = "headers" -> header_terminator
             [] OTHER -> field_boundary

\* The matcher, which remembers a number, knows the longest beginning of its
\* pattern that the bytes seen so far end with.
MatcherExact ==
  state \in {"preamble", "headers", "data"} =>
    matched = Max({k \in 0..Min({Len(Pattern) - 1, Len(since)}) :
                     SubSeq(Pattern, 1, k) = SubSeq(since, Len(since) - k + 1, Len(since))})

\* The first place at or after i where pattern p begins, 0 if there is none.
Find(p, i) ==
  LET at == {j \in i..Len(text) + 1 - Len(p) : SubSeq(text, j, j + Len(p) - 1) = p}
  IN IF at = {} THEN 0 ELSE Min(at)

Padding(i) == Max({n \in 0..Len(text) + 1 - i : \A j \in i..i + n - 1 : text[j] = " "})
Reads(p, i) == i + Len(p) - 1 <= Len(text) /\ SubSeq(text, i, i + Len(p) - 1) = p

\* What is left from a boundary on: the closing dashes, or padding, a line end,
\* headers within their limit, data and the next boundary.
Closes ==
  LET rest[i \in 1..Len(text) + 1] ==
        \/ Reads(<<Dash, Dash>>, i)
        \/ LET pad == Padding(i)
               body == i + pad + 2
               h == Find(header_terminator, body)
               b == IF h = 0 THEN 0 ELSE Find(field_boundary, h + 4)
           IN /\ pad <= MAX_MULTIPART_BOUNDARY_PADDING_BYTES
              /\ Reads(<<CR, LF>>, i + pad) /\ b # 0
              /\ h + 4 - body <= MAX_MULTIPART_PART_HEADER_BYTES
              /\ rest[b + Len(field_boundary)]
      start == Find(first_boundary, 1)
  IN start # 0 /\ start - 1 <= MAX_MULTIPART_PREAMBLE_BYTES
       /\ rest[start + Len(first_boundary)]

\* The guard lets exactly the well-framed bodies through, however the bytes
\* are cut into chunks and wherever the limits fall.
AcceptsExactly == (state = "done") <=> Closes
=============================================================================
