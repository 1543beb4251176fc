--------------------------- MODULE MCSegmentCache ----------------------------
(* Small instances of SegmentCache. *)
EXTENDS SegmentCache, TLC

\* Files and readers are interchangeable.
Interchangeable == Permutations(Files) \cup Permutations(Readers)
===============================================================================
