----------------------------- MODULE MCMediaCopy -----------------------------
(* Model-checking instance of MediaCopy. *)
EXTENDS MediaCopy, TLC

\* No Content-Length, or one that is shorter than, equal to or longer than what
\* the upstream delivers.
ManyLengths == {Unknown, 1, 2}
=============================================================================
