----------------------------- MODULE MCTranscode ------------------------------
(* Small instances of Transcode. *)
EXTENDS Transcode, TLC

\* Requests and jobs are interchangeable.
Interchangeable == Permutations(Openers) \cup Permutations(Jobs)

\* Of two jobs one is the older plan, which the other may replace.
OnlyOldReplaced ==
  \A j \in Jobs : job[j].replacement # Nothing => j = CHOOSE i \in Jobs : TRUE
===============================================================================
