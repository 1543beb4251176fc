----------------------------- MODULE SegmentCache -----------------------------
(***************************************************************************)
(* The catalog of converted media segments, internal/transcode/cache.go.   *)
(*                                                                         *)
(* Workers write segments through cacheWriters, which reserve their bytes  *)
(* before they touch the disk and publish the complete segment at once.    *)
(* Readers hold leases that pin an artifact, demands protect the artifact  *)
(* they wait for, and the others are evicted in the order of their use     *)
(* when bytes or artifacts run out.  The artifacts of a job that ended are *)
(* retired, and the last reader of one removes it.                         *)
(*                                                                         *)
(* Every critical section of c.mu is one step.  The file is the identity   *)
(* of a writer and of the artifact it becomes.                             *)
(***************************************************************************)
EXTENDS Integers, FiniteSets, Functions

CONSTANTS
  Jobs, Segments,  \* a key is a job and one of its segments
  Files,           \* the files that may ever be created
  Readers,         \* those who open artifacts
  Budget,          \* catalog.budget
  MaxArtifacts,    \* maxCacheArtifacts
  MaxSize,         \* model bound: bytes of a segment
  MaxLeaks,        \* model bound: removals that fail and are ignored
  Nothing          \* no artifact

Keys == Jobs \X Segments

ASSUME SegmentCacheAssumption ==
  /\ {Budget, MaxArtifacts, MaxSize} \subseteq Nat \ {0} /\ MaxLeaks \in Nat
  /\ MaxSize <= Budget /\ Nothing \notin Files
  /\ Nothing \notin [key : Keys, listed : BOOLEAN]
  /\ IsFiniteSet(Files) /\ IsFiniteSet(Readers)

VARIABLES
  file,      \* file[f]: the cacheWriter, then the artifact, that owns f
  older,     \* older[f]: the artifacts in c.entries used before f
  wanted,    \* c.wanted
  used, reserved,
  lease,     \* lease[r]: the artifact r has open
  disk       \* the files that exist

cacheVars == <<file, older, wanted, used, reserved, lease, disk>>

NoFile == [st |-> "none", key |-> Nothing, bytes |-> 0, pending |-> 0, pins |-> 0]

Init ==
  /\ file = [f \in Files |-> NoFile]
  /\ older = [f \in Files |-> {}]
  /\ wanted = [k \in Keys |-> 0]
  /\ used = 0 /\ reserved = 0
  /\ lease = [r \in Readers |-> Nothing]
  /\ disk = {}

-----------------------------------------------------------------------------
In(states) == {f \in Files : file[f].st \in states}
Listed == In({"stored"})                     \* c.entries

Bytes(fs) == SumFunctionOnSet([f \in Files |-> file[f].bytes], fs)

\* c.entries[k]
Entry(k) == {f \in Listed : file[f].key = k}
Has(k) == Entry(k) # {}

\* The files fs are removed; a failure is ignored (_ = os.Remove).
Unlink(fs) ==
  \E left \in SUBSET (fs \cap disk) :
    /\ left # {} => Cardinality(left) + Cardinality(disk \cap In({"gone"})) <= MaxLeaks
    /\ disk' = disk \ (fs \ left)

\* f is used now.
Touch(f) ==
  older' = [g \in Files |-> IF g = f THEN Listed \ {f} ELSE older[g] \ {f}]

\* The artifacts fs leave c.entries.
Unlist(fs) ==
  older' = [g \in Files |-> IF g \in fs THEN {} ELSE older[g] \ fs]

\* evictOne picks the least recently used of these.
Evictable_Faulty == {f \in Listed : wanted[file[f].key] = 0}

Evictable == {f \in Listed : file[f].pins = 0 /\ wanted[file[f].key] = 0}

\* What evictOne, called again and again, has taken so far.
Victims == {V \in SUBSET Evictable : \A v \in V, e \in Evictable \ V : v \in older[e]}

Evict(V) ==
  /\ Unlist(V)
  /\ used' = used - Bytes(V)
  /\ disk' = disk \ V

Without(fs) == [f \in Files |-> IF f \in fs THEN [file[f] EXCEPT !.st = "gone"] ELSE file[f]]

-----------------------------------------------------------------------------
(* Demands and leases *)

\* protect
Protect(k, d) ==
  /\ wanted' = [wanted EXCEPT ![k] = @ + d]
  /\ UNCHANGED <<file, older, used, reserved, lease, disk>>

\* open finds the artifact and can open its file.
OpenEntry(r, k) ==
  /\ lease[r] = Nothing
  /\ \E f \in Entry(k) :
       /\ file' = [file EXCEPT ![f].pins = @ + 1]
       /\ lease' = [lease EXCEPT ![r] = f]
       /\ Touch(f)
  /\ UNCHANGED <<wanted, used, reserved, disk>>

\* lease.Close: the last reader of a retired artifact removes it.
CloseLease_Faulty(r) ==
  LET f == lease[r] IN
  /\ f # Nothing
  /\ lease' = [lease EXCEPT ![r] = Nothing]
  /\ file' = [file EXCEPT ![f].pins = @ - 1]
  /\ UNCHANGED <<older, wanted, used, reserved, disk>>

CloseLease(r) ==
  LET f == lease[r] IN
  /\ f # Nothing
  /\ lease' = [lease EXCEPT ![r] = Nothing]
  /\ IF file[f].st = "retired" /\ file[f].pins = 1
       THEN /\ file' = [file EXCEPT ![f].pins = 0, ![f].st = "gone"]
            /\ used' = used - file[f].bytes
            /\ Unlink({f})
       ELSE /\ file' = [file EXCEPT ![f].pins = @ - 1]
            /\ UNCHANGED <<used, disk>>
  /\ UNCHANGED <<older, wanted, reserved>>

\* dropPrefix: what is being read is retired, the rest is removed.
DropPrefix_Faulty(j) ==
  LET dropped == {f \in Listed : file[f].key[1] = j} IN
  /\ Unlist(dropped)
  /\ file' = Without(dropped)
  /\ used' = used - Bytes(dropped)
  /\ Unlink(dropped)
  /\ UNCHANGED <<wanted, reserved, lease>>

DropPrefix(j) ==
  LET dropped == {f \in Listed : file[f].key[1] = j}
      idle    == {f \in dropped : file[f].pins = 0} IN
  /\ Unlist(dropped)
  /\ file' = [f \in Files |-> IF f \in dropped \ idle
                              THEN [file[f] EXCEPT !.st = "retired"] ELSE Without(idle)[f]]
  /\ used' = used - Bytes(idle)
  /\ Unlink(idle)
  /\ UNCHANGED <<wanted, reserved, lease>>

-----------------------------------------------------------------------------
(* Writers *)

\* begin creates a temporary file.
Begin(f, k) ==
  /\ file[f].st = "none"
  /\ file' = [file EXCEPT ![f].st = "part", ![f].key = k]
  /\ disk' = disk \cup {f}
  /\ UNCHANGED <<older, wanted, used, reserved, lease>>

Fits(V, n) == used - Bytes(V) + reserved + n <= Budget

\* The first half of Write: n bytes are reserved, others are evicted for them, one
\* at a time until they fit.
Reserve(f, n) ==
  /\ file[f].st = "part" /\ file[f].pending = 0
  /\ \E V \in Victims :
       /\ Fits(V, n) /\ \A W \in Victims : W \subseteq V /\ Fits(W, n) => W = V
       /\ Evict(V)
       /\ file' = [Without(V) EXCEPT ![f].pending = n]
  /\ reserved' = reserved + n
  /\ UNCHANGED <<wanted, lease>>

\* ErrCapacity: nothing is left to evict, or a file cannot be removed.
ReserveFails(f, n) ==
  /\ file[f].st = "part" /\ file[f].pending = 0
  /\ \E V \in Victims :
       /\ \A W \in Victims : W \subseteq V => ~Fits(W, n)
       /\ Evict(V)
       /\ file' = Without(V)
  /\ UNCHANGED <<wanted, reserved, lease>>

\* The second half of Write: m of the reserved bytes are in the file.
WriteFile_Faulty(f, m) ==
  /\ file[f].st = "part" /\ file[f].pending > 0
  /\ file' = [file EXCEPT ![f].bytes = @ + m, ![f].pending = 0]
  /\ UNCHANGED <<older, wanted, used, reserved, lease, disk>>

WriteFile(f, m) ==
  /\ file[f].st = "part" /\ file[f].pending > 0
  /\ reserved' = reserved - (file[f].pending - m)
  /\ file' = [file EXCEPT ![f].bytes = @ + m, ![f].pending = 0]
  /\ UNCHANGED <<older, wanted, used, lease, disk>>

Abort(f) ==
  /\ file[f].st = "part" /\ file[f].pending = 0
  /\ file' = [file EXCEPT ![f].st = "gone"]
  /\ reserved' = reserved - file[f].bytes
  /\ Unlink({f})
  /\ UNCHANGED <<older, wanted, used, lease>>

\* commit makes room in the catalog when it is full.
Crowd == IF Cardinality(Listed) >= MaxArtifacts THEN 1 ELSE 0

\* The artifacts V make room for f, the most recently used from now on.
Publish(f, V) ==
  /\ Cardinality(V) = Crowd
  /\ older' = [g \in Files |-> IF g = f THEN Listed \ V
                               ELSE IF g \in V THEN {} ELSE older[g] \ V]
  /\ used' = used - Bytes(V) + file[f].bytes
  /\ disk' = disk \ V
  /\ file' = [Without(V) EXCEPT ![f].st = "stored"]

\* commit succeeds: the segment is published, unless it already was.
Commit(f) ==
  /\ file[f].st = "part" /\ file[f].pending = 0
  /\ \/ /\ ~Has(file[f].key)
        /\ \E V \in Victims : Publish(f, V)
     \/ /\ Has(file[f].key)
        /\ file' = [file EXCEPT ![f].st = "gone"]
        /\ Unlink({f})
        /\ UNCHANGED <<older, used>>
  /\ reserved' = reserved - file[f].bytes
  /\ UNCHANGED <<wanted, lease>>

\* commit fails: the file cannot be closed or renamed, or there is no room; the
\* writer is aborted afterwards.
CommitFails(f) ==
  /\ file[f].st = "part" /\ file[f].pending = 0
  /\ \E V \in Victims :
       /\ Cardinality(V) <= Crowd /\ (V # {} => ~Has(file[f].key))
       /\ Evict(V)
       /\ file' = Without(V)
  /\ UNCHANGED <<wanted, reserved, lease>>

-----------------------------------------------------------------------------
Next ==
  \/ \E k \in Keys : \/ wanted[k] < Cardinality(Readers) /\ Protect(k, 1)
                     \/ wanted[k] > 0 /\ Protect(k, -1)
                     \/ \E r \in Readers : OpenEntry(r, k)
                     \/ \E f \in Files : Begin(f, k)
  \/ \E r \in Readers : CloseLease(r)
  \/ \E j \in Jobs : DropPrefix(j)
  \/ \E f \in Files :
       \/ \E n \in 1..(MaxSize - file[f].bytes) : Reserve(f, n) \/ ReserveFails(f, n)
       \/ \E m \in 0..file[f].pending : WriteFile(f, m)
       \/ Abort(f) \/ Commit(f) \/ CommitFails(f)

Spec == Init /\ [][Next]_cacheVars

-----------------------------------------------------------------------------
(* Properties *)

\* The catalog keeps its types.
TypeOK ==
  /\ file \in [Files -> [st : {"none", "part", "stored", "retired", "gone"},
                         key : Keys \cup {Nothing}, bytes : 0..MaxSize,
                         pending : 0..MaxSize, pins : 0..Cardinality(Readers)]]
  /\ older \in [Files -> SUBSET Files]
  /\ wanted \in [Keys -> 0..Cardinality(Readers)]
  /\ {used, reserved} \subseteq 0..Budget
  /\ lease \in [Readers -> Files \cup {Nothing}]
  /\ disk \subseteq Files

Pending(fs) == SumFunctionOnSet([f \in Files |-> file[f].pending], fs)

\* What the catalog charges is what is there, each segment once: the artifacts,
\* with the retired ones that are still read, and what writers reserved and
\* wrote, whichever writes were short, aborted, or lost the race to publish.
\* "Enforce a global storage budget including in-progress reservations, a
\* 16,384-artifact metadata bound" (docs/adr/0004:229).
Accounting ==
  /\ TypeOK
  /\ \A f, g \in Listed : file[f].key = file[g].key => f = g
  /\ used = Bytes(In({"stored", "retired"}))
  /\ reserved = Bytes(In({"part"})) + Pending(In({"part"}))
  /\ used + reserved <= Budget /\ Cardinality(Listed) <= MaxArtifacts

\* A file is on the disk only for a writer, the catalog or a reader, and who
\* lets go of it last removes it: nothing else stays, but for failed removals.
NothingLeftOnDisk ==
  LET needed == In({"part", "stored"}) \cup {f \in In({"retired"}) : file[f].pins > 0} IN
  needed \subseteq disk /\ Cardinality(disk \ needed) <= MaxLeaks

\* What is charged and what is on the disk.
BooksBalance == Accounting /\ NothingLeftOnDisk

\* A reader keeps the artifact it has open: it is pinned by its readers and by
\* nobody else, and neither an eviction nor the end of its job removes the file.
ReadersKeepTheirFile ==
  /\ \A f \in Files : file[f].pins = Cardinality({r \in Readers : lease[r] = f})
  /\ \A r \in Readers : lease[r] # Nothing =>
       lease[r] \in disk /\ file[lease[r]].st \in {"stored", "retired"}

\* The catalog is the store the manager relies on: whatever it evicts or
\* retires, it never takes away what is read or waited for.
Store == INSTANCE SegmentStore WITH
  entries <- {file[f].key : f \in Listed},
  held    <- [r \in Readers |->
                IF lease[r] = Nothing THEN Nothing
                ELSE [key |-> file[lease[r]].key, listed |-> file[lease[r]].st = "stored"]]
StoreSpec == Store!Spec
===============================================================================
