---------------------------- MODULE MCUpstreamAuth ----------------------------
(* Instances of UpstreamAuth for TLC. *)
EXTENDS UpstreamAuth, TLC

Symmetry == Permutations(Callers)
=============================================================================
