---------------------------- MODULE MCMediaBuffer ----------------------------
(* Model-checking instance of MediaBuffer. *)
EXTENDS MediaBuffer, TLC

\* Requests and chunks are interchangeable: no action or property names one.
Symmetry == Permutations(Requests) \cup Permutations(Chunks)
=============================================================================
