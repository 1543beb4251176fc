----------------------------- MODULE SegmentStore -----------------------------
(***************************************************************************)
(* What the catalog of internal/transcode/cache.go promises to the manager *)
(* of the jobs: a set of complete segments that may forget a segment at    *)
(* any time, but none that is read or waited for.  SegmentCache implements *)
(* it, Transcode is built on it.                                           *)
(***************************************************************************)
EXTENDS Integers

CONSTANTS Jobs, Segments, Readers, Nothing

Keys == Jobs \X Segments

VARIABLES
  entries,  \* the keys that can be opened
  wanted,   \* how many demands protect a key
  held      \* held[r]: what r has open, and whether the catalog still lists it

storeVars == <<entries, wanted, held>>

Init ==
  /\ entries = {}
  /\ wanted = [k \in Keys |-> 0]
  /\ held = [r \in Readers |-> Nothing]

-----------------------------------------------------------------------------
\* What may be forgotten.
Idle ==
  {k \in entries : wanted[k] = 0 /\ \A r \in Readers : held[r] # [key |-> k, listed |-> TRUE]}

Protect(k, d) ==
  /\ wanted' = [wanted EXCEPT ![k] = @ + d]
  /\ UNCHANGED <<entries, held>>

Open(r, k) ==
  /\ held[r] = Nothing /\ k \in entries
  /\ held' = [held EXCEPT ![r] = [key |-> k, listed |-> TRUE]]
  /\ UNCHANGED <<entries, wanted>>

Close(r) ==
  /\ held[r] # Nothing
  /\ held' = [held EXCEPT ![r] = Nothing]
  /\ UNCHANGED <<entries, wanted>>

\* The segments of jobs are forgotten; those who read one keep it.
Drop(js) ==
  /\ entries' = {k \in entries : k[1] \notin js}
  /\ held' = [r \in Readers |->
                IF held[r] # Nothing /\ held[r].key[1] \in js
                  THEN [held[r] EXCEPT !.listed = FALSE] ELSE held[r]]
  /\ UNCHANGED wanted

\* Room is made for a segment, whether or not it is published in the end.
Forget(ks) ==
  /\ ks \subseteq Idle
  /\ entries' = entries \ ks
  /\ UNCHANGED <<wanted, held>>

Put(k, ks) ==
  /\ ks \subseteq Idle \ {k}
  /\ entries' = (entries \ ks) \cup {k}
  /\ UNCHANGED <<wanted, held>>

Next ==
  \/ \E k \in Keys : \/ Protect(k, 1) \/ (wanted[k] > 0 /\ Protect(k, -1))
                     \/ \E r \in Readers : Open(r, k)
                     \/ \E ks \in SUBSET Idle : Put(k, ks)
  \/ \E r \in Readers : Close(r)
  \/ \E j \in Jobs : Drop({j})
  \/ \E ks \in SUBSET Idle : Forget(ks)

Spec == Init /\ [][Next]_storeVars
===============================================================================
