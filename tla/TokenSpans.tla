----------------------------- MODULE TokenSpans -----------------------------
(* token_spans.py: how a span of characters of a completion becomes a span of
   the tokens that were generated.  A completion of n tokens is the function b
   from 0..n to the number of characters its first i tokens decode to; a token
   may decode to several characters, or, a special one, to none.            *)
EXTENDS Integers

Tokens(b) == {i \in DOMAIN b : i + 1 \in DOMAIN b}
Count(b) == CHOOSE n \in DOMAIN b : \A i \in DOMAIN b : i <= n
Middle(low, high) == (low + high) \div 2

\* The two binary searches.  An interval is <<low, high>>.
Intervals(b) == (DOMAIN b) \X (DOMAIN b)
RightmostBoundary(b, c) ==
  LET search[w \in Intervals(b)] ==
        IF w[1] >= w[2] THEN w[1]
        ELSE LET mid == Middle(w[1], w[2] + 1)
             IN IF b[mid] <= c THEN search[<<mid, w[2]>>] ELSE search[<<w[1], mid - 1>>]
  IN search[<<0, Count(b)>>]
LeftmostBoundary(b, c) ==
  LET search[w \in Intervals(b)] ==
        IF w[1] >= w[2] THEN w[1]
        ELSE LET mid == Middle(w[1], w[2])
             IN IF b[mid] >= c THEN search[<<w[1], mid>>] ELSE search[<<mid + 1, w[2]>>]
  IN search[<<0, Count(b)>>]

\* map_completion_span refuses a span that is empty or leaves the text, and one
\* whose tokens do not enclose it or are more than it needs.
Envelope(b, from, to) == [start |-> RightmostBoundary(b, from),
                          end |-> LeftmostBoundary(b, to)]
Maps(b, from, to) ==
  LET e == Envelope(b, from, to)
  IN /\ 0 <= from /\ from < to /\ to <= b[Count(b)]
     /\ e.start < e.end
     /\ b[e.start] <= from /\ to <= b[e.end]
     /\ e.start < Count(b) => b[e.start + 1] > from
     /\ e.end > 0 => b[e.end - 1] < to

\* locate_completion_sections: a completion is its reasoning, the closing tag
\* and its answer; text is <<end of the reasoning, start of the answer>>.
InReasoning(text, from, to) == from < to /\ to <= text[1]
InAnswer(b, text, from, to) == text[2] <= from /\ from < to /\ to <= b[Count(b)]
=============================================================================
