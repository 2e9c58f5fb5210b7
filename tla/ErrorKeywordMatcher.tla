------------------------ MODULE ErrorKeywordMatcher ------------------------
\* ErrorKeywordMatcher of src/application/channel_automation.rs: looks for
\* keywords in a response that arrives in arbitrary chunks of bytes, which
\* may cut a character, and keeps only a rolling suffix of the text.
\*
\* A byte is a letter (a character of its own), "L" (the first byte of a
\* two-byte character) or "C" (its second).  Every other sequence is
\* invalid and dropped, one byte at a time.  Case folding is left out.
EXTENDS Integers, Sequences, SequencesExt

CONSTANTS
  Letters,    \* one-byte characters
  Keywords,   \* sequences of characters
  ScanLimit,  \* ERROR_KEYWORD_SCAN_LIMIT_BYTES
  MinRolling, \* the least size of the rolling window (16)
  Factor,     \* window per byte of the longest keyword (4)
  MaxChunk, MaxBytes

Wide == "W"   \* the two-byte character
Bytes == Letters \cup {"L", "C"}

VARIABLES
  carry,      \* bytes of a character that is not complete
  rolling,    \* suffix of the text so far
  remaining,  \* bytes still to be looked at
  found,      \* a keyword was reported (the caller drops the matcher then)
  all         \* all bytes received (history)

vars == <<carry, rolling, remaining, found, all>>

Width(c) == IF c = Wide THEN 2 ELSE 1
Size(t) == FoldLeft(LAMBDA n, c : n + Width(c), 0, t)
KeywordMax == CHOOSE n \in {Size(k) : k \in Keywords} : \A k \in Keywords : Size(k) <= n
RollingLimit == IF KeywordMax * Factor > MinRolling THEN KeywordMax * Factor ELSE MinRolling

Init == /\ carry = <<>> /\ rolling = <<>> /\ remaining = ScanLimit
        /\ found = FALSE /\ all = <<>>

Valid(b, i) == IF b[i] \in Letters THEN 1
               ELSE IF b[i] = "L" /\ i < Len(b) /\ b[i + 1] = "C" THEN 2 ELSE 0

\* The valid characters of b, and the incomplete one that may end it: what
\* the loop over from_utf8 errors takes out of the carried bytes.
Decode(b) ==
  LET step(acc, i) ==
        IF i < acc.next THEN acc
        ELSE CASE Valid(b, i) = 1 -> [acc EXCEPT !.text = Append(@, b[i]), !.next = i + 1]
               [] Valid(b, i) = 2 -> [acc EXCEPT !.text = Append(@, Wide), !.next = i + 2]
               [] b[i] = "L" /\ i = Len(b) -> [acc EXCEPT !.rest = <<"L">>, !.next = i + 1]
               [] OTHER -> [acc EXCEPT !.next = i + 1]
  IN FoldLeft(step, [text |-> <<>>, rest |-> <<>>, next |-> 1], [i \in DOMAIN b |-> i])

Occurs(k, t) == \E i \in 0..(Len(t) - Len(k)) : SubSeq(t, i + 1, i + Len(k)) = k
Matches(t) == \E k \in Keywords : Occurs(k, t)

\* The longest suffix of whole characters that fits.
TrimToSuffix(t) ==
  LET from == CHOOSE i \in 1..(Len(t) + 1) :
                /\ Size(SubSeq(t, i, Len(t))) <= RollingLimit
                /\ \A j \in 1..(i - 1) : Size(SubSeq(t, j, Len(t))) > RollingLimit
  IN SubSeq(t, from, Len(t))

\* observe: the chunk is cut at the scan limit.
Observe(chunk) ==
  /\ ~found /\ Len(all) + Len(chunk) <= MaxBytes
  /\ all' = all \o chunk
  /\ IF remaining = 0 THEN UNCHANGED <<carry, rolling, remaining, found>>
     ELSE LET n == IF Len(chunk) < remaining THEN Len(chunk) ELSE remaining
              d == Decode(carry \o SubSeq(chunk, 1, n))
              text == rolling \o d.text
          IN /\ remaining' = remaining - n
             /\ carry' = d.rest
             /\ found' = Matches(text)
             /\ rolling' = TrimToSuffix(text)

Next == \E n \in 1..MaxChunk : \E chunk \in [1..n -> Bytes] : Observe(chunk)

Spec == Init /\ [][Next]_vars

--------------------

TypeOK == /\ carry \in {<<>>, <<"L">>} /\ remaining \in 0..ScanLimit
          /\ rolling \in Seq(Letters \cup {Wide})

\* Whatever way the response is cut into chunks, a keyword is reported exactly
\* when the decodable text of the first ScanLimit bytes holds it.
FindsExactly ==
  found <=> Matches(Decode(SubSeq(all, 1, IF Len(all) < ScanLimit THEN Len(all)
                                          ELSE ScanLimit)).text)

\* What is kept does not grow with the response.
WindowBounded == Size(rolling) <= RollingLimit /\ Len(carry) <= 1

=============================================================================
