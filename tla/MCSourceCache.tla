---------------------------- MODULE MCSourceCache -----------------------------
(* Model-checking instances of SourceCache. *)
EXTENDS SourceCache

Span(o, n) == [key |-> "k", offset |-> o, length |-> n]

\* A range and a part of it; with a budget of two bytes the part has to make room
\* for the whole.
RangeAndPart == {Span(0, 2), Span(0, 1)}
==============================================================================
