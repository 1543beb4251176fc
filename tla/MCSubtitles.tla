------------------------------ MODULE MCSubtitles ------------------------------
(* Model-checking instance of Subtitles: one owner with a preview and a playback, *)
(* and a second owner with a playback.                                            *)
EXTENDS Subtitles, TLC

CONSTANTS preview, playing, other

OwnerOf == [p \in {preview, playing, other} |-> IF p = other THEN "B" ELSE "A"]

\* The detail page probes and recovers, a catalog page only looks; a playback has
\* chosen the track or has switched it off.
Sel(playback, probe, index) ==
  [playback |-> playback, recover |-> probe, probe |-> probe, index |-> index]
UsualSelections ==
  {Sel(FALSE, TRUE, "track"), Sel(FALSE, FALSE, "none"),
   Sel(TRUE, TRUE, "track"), Sel(TRUE, TRUE, "off")}

\* The two playbacks of owner A, requests and grants are interchangeable.
Symmetry == Permutations({preview, playing}) \cup Permutations(Requests)
              \cup Permutations(GrantIds)
================================================================================
