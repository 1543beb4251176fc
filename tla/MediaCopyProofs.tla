---------------------------- MODULE MediaCopyProofs ----------------------------
(***************************************************************************)
(* What is true of the buffer controller and of the media copies for every *)
(* number of responses, every budget, length and failure.                  *)
(*                                                                         *)
(* The controller comes first.  Its inductive invariant is a predicate of  *)
(* the controller record, and every helper of the code preserves it (one   *)
(* lemma per helper), so the proof of an operation follows the order in    *)
(* which it calls the helpers.                                             *)
(*                                                                         *)
(* Then the copies: a buffer is in one pair of hands, what is written is   *)
(* the next piece of the body, nothing is left behind, and a copy is a     *)
(* pipe.  The leases the controller knows of a response are the buffers in *)
(* flight between its producer and its consumer, each of them in one       *)
(* place.  So nobody else reads into a buffer in flight, and as long as    *)
(* the consumer has met no failure the pieces in flight follow one another *)
(* from what was sent to what was received.                                *)
(***************************************************************************)
EXTENDS MediaCopy, FiniteSetTheorems, TLAPS

--------------------------------------------------------------------------------
(* The controller *)

Busy(p) == {c \in Chunks : p.owner[c] # Nobody}

\* A lease held by a request, or offered to it, is the current grant of a chunk
\* that this request owns; the offered lease is not also held.
LeaseInv(p) ==
  /\ \A r \in Requests : \A l \in p.chunks[r] :
       p.owner[l.chunk] = r /\ p.gen[l.chunk] = l.gen
  /\ \A r \in Requests : p.pending[r] # NoLease =>
       /\ p.owner[p.pending[r].chunk] = r
       /\ p.gen[p.pending[r].chunk] = p.pending[r].gen
       /\ p.pending[r] \notin p.chunks[r]

\* The counters agree with the ownership of the chunks.
CountInv(p) ==
  /\ p.allocated <= Budget
  /\ p.allocated = p.busy + Cardinality(p.free)
  /\ p.busy = Cardinality(Busy(p))
  /\ \A c \in p.free : p.owner[c] = Nobody /\ p.gen[c] > 0
  /\ \A c \in Chunks : p.gen[c] = 0 => p.owner[c] = Nobody
  /\ \A r \in Requests : p.owned[r] = Cardinality(Owned(p, r))

\* Queue membership, grant and wakeup token exclude one another.
WakeInv(p) ==
  \A r \in Requests :
    /\ p.waiting[r] => p.notify[r] = 0 /\ p.pending[r] = NoLease
    /\ p.notify[r] = 1 => p.pending[r] # NoLease
    /\ p.waiting[r] <=> r \in p.waiters

PoolInv(p) == p \in Controllers /\ LeaseInv(p) /\ CountInv(p) /\ WakeInv(p)

\* The leases the callers still hold are the leases the controller recorded.
LedgerInv == \A r \in Requests : outstanding[r] \subseteq pool.chunks[r]

IInv == PoolInv(pool) /\ NoMissedGrant
        /\ outstanding \in [Requests -> SUBSET Leases] /\ LedgerInv

-----------------------------------------------------------------------------
(* The helpers *)

\* releaseOwnedChunkLocked: giving back chunks that no lease of the request
\* names any more keeps every counter and every other lease right.
LEMMA ReleaseOwnedChunksLemma ==
  ASSUME NEW p, PoolInv(p), NEW r \in Requests, NEW cs \in SUBSET Owned(p, r),
         \A s \in Requests : \A l \in p.chunks[s] : l.chunk \notin cs,
         \A s \in Requests : p.pending[s] # NoLease => p.pending[s].chunk \notin cs
  PROVE  PoolInv(ReleaseOwnedChunks(p, r, cs))
<1> DEFINE q == ReleaseOwnedChunks(p, r, cs)
<1> USE ConstantsAssumption, NoLeaseAssumption
<1>t. p \in Controllers
  BY DEF PoolInv
<1>c. /\ cs \subseteq Chunks /\ IsFiniteSet(cs)
      /\ cs \subseteq Busy(p) /\ cs \cap p.free = {}
  <2>1. cs \subseteq Chunks /\ cs \subseteq Busy(p)
    BY DEF Owned, Busy
  <2>2. cs \cap p.free = {}
    BY <2>1 DEF PoolInv, CountInv, Busy
  <2> QED BY <2>1, <2>2, FS_Subset
<1>n. Cardinality(cs) \in Nat
  BY <1>c, FS_CardinalityType
<1>o. \A s \in Requests : IsFiniteSet(Owned(p, s)) /\ Cardinality(Owned(p, s)) \in Nat
  <2> SUFFICES ASSUME NEW s \in Requests
               PROVE  IsFiniteSet(Owned(p, s)) /\ Cardinality(Owned(p, s)) \in Nat
    OBVIOUS
  <2>1. Owned(p, s) \in SUBSET Chunks
    BY DEF Owned
  <2> QED BY <2>1, FS_Subset, FS_CardinalityType
<1>b. IsFiniteSet(Busy(p)) /\ Cardinality(Busy(p)) \in Nat
  <2>1. Busy(p) \in SUBSET Chunks
    BY DEF Busy
  <2> QED BY <2>1, FS_Subset, FS_CardinalityType
<1>f. IsFiniteSet(p.free) /\ Cardinality(p.free) \in Nat
  <2>1. p.free \in SUBSET Chunks
    BY <1>t DEF Controllers
  <2> QED BY <2>1, FS_Subset, FS_CardinalityType
<1>1. /\ q.owner = [c \in Chunks |-> IF c \in cs THEN Nobody ELSE p.owner[c]]
      /\ q.owned = [p.owned EXCEPT ![r] = @ - Cardinality(cs)]
      /\ q.busy = p.busy - Cardinality(cs)
      /\ q.free = p.free \cup cs
      /\ q.gen = p.gen /\ q.chunks = p.chunks /\ q.pending = p.pending
      /\ q.notify = p.notify /\ q.waiting = p.waiting /\ q.waiters = p.waiters
      /\ q.allocated = p.allocated
  BY <1>t DEF ReleaseOwnedChunks, Controllers
<1>2. /\ Busy(q) = Busy(p) \ cs
      /\ Cardinality(Busy(q)) = Cardinality(Busy(p)) - Cardinality(cs)
  <2>1. Busy(q) = Busy(p) \ cs
    BY <1>1, <1>c DEF Busy
  <2>2. Busy(p) \cap cs = cs
    BY <1>c
  <2> QED BY <2>1, <2>2, <1>b, FS_Difference
<1>3. Cardinality(q.free) = Cardinality(p.free) + Cardinality(cs)
  <2>1. p.free \cap cs = {}
    BY <1>c
  <2>2. Cardinality(p.free \cap cs) = 0
    BY <2>1, FS_EmptySet
  <2>3. Cardinality(p.free \cup cs)
          = Cardinality(p.free) + Cardinality(cs) - Cardinality(p.free \cap cs)
    BY <1>c, <1>f, FS_Union
  <2> QED BY <2>2, <2>3, <1>1, <1>f, <1>n
<1>4. \A s \in Requests : q.owned[s] = Cardinality(Owned(q, s))
  <2> SUFFICES ASSUME NEW s \in Requests PROVE q.owned[s] = Cardinality(Owned(q, s))
    OBVIOUS
  <2>1. p.owned[s] = Cardinality(Owned(p, s))
    BY DEF PoolInv, CountInv
  <2>2. CASE s = r
    <3>1. Owned(q, s) = Owned(p, s) \ cs
      BY <2>2, <1>1, <1>c DEF Owned
    <3>2. Owned(p, s) \cap cs = cs
      BY <2>2
    <3>3. Cardinality(Owned(q, s)) = Cardinality(Owned(p, s)) - Cardinality(cs)
      BY <3>1, <3>2, <1>o, FS_Difference
    <3> QED BY <3>3, <2>1, <2>2, <1>1, <1>t DEF Controllers
  <2>3. CASE s # r
    <3>1. Owned(q, s) = Owned(p, s)
      BY <2>3, <1>1, <1>c DEF Owned
    <3> QED BY <3>1, <2>1, <2>3, <1>1, <1>t DEF Controllers
  <2> QED BY <2>2, <2>3
<1>5. q \in Controllers
  <2>1. p.owned[r] - Cardinality(cs) \in Nat
    <3>1. Cardinality(cs) <= Cardinality(Owned(p, r))
      BY <1>o, FS_Subset
    <3> QED BY <3>1, <1>n, <1>o DEF PoolInv, CountInv
  <2>2. p.busy - Cardinality(cs) \in Nat
    <3>1. Cardinality(cs) <= Cardinality(Busy(p))
      BY <1>b, <1>c, FS_Subset
    <3> QED BY <3>1, <1>n, <1>b DEF PoolInv, CountInv
  <2> QED BY <2>1, <2>2, <1>t, <1>c DEF ReleaseOwnedChunks, Controllers
<1>6. LeaseInv(q)
  BY <1>1, <1>t DEF PoolInv, LeaseInv, Controllers, Leases
<1>7. CountInv(q)
  <2>1. \A c \in q.free : q.owner[c] = Nobody /\ q.gen[c] > 0
    <3>1. \A c \in cs : p.gen[c] > 0
      BY <1>c, <1>t DEF PoolInv, CountInv, Busy, Controllers
    <3> QED BY <3>1, <1>1, <1>c, <1>t DEF PoolInv, CountInv, Controllers
  <2>2. \A c \in Chunks : q.gen[c] = 0 => q.owner[c] = Nobody
    BY <1>1 DEF PoolInv, CountInv
  <2>3. /\ q.allocated <= Budget
        /\ q.allocated = q.busy + Cardinality(q.free)
        /\ q.busy = Cardinality(Busy(q))
    BY <1>1, <1>2, <1>3, <1>n, <1>b, <1>f, <1>t DEF PoolInv, CountInv, Controllers
  <2> QED BY <2>1, <2>2, <2>3, <1>4 DEF CountInv
<1>8. WakeInv(q)
  BY <1>1 DEF PoolInv, WakeInv
<1> QED BY <1>5, <1>6, <1>7, <1>8 DEF PoolInv

\* reclaimPendingLocked: the offered chunk goes back, with its wakeup token.
LEMMA ReclaimPendingLemma ==
  ASSUME NEW p, PoolInv(p), NEW r \in Requests, p.pending[r] # NoLease
  PROVE  PoolInv(ReclaimPending(p, r))
<1> DEFINE q == [p EXCEPT !.pending[r] = NoLease, !.notify[r] = 0]
           c == p.pending[r].chunk
<1>t. /\ p \in Controllers
      /\ p.pending[r] \in Leases
  BY DEF PoolInv, Controllers
<1>1. /\ q.pending = [p.pending EXCEPT ![r] = NoLease]
      /\ q.notify = [p.notify EXCEPT ![r] = 0]
      /\ q.owner = p.owner /\ q.gen = p.gen /\ q.chunks = p.chunks
      /\ q.waiting = p.waiting /\ q.waiters = p.waiters /\ q.owned = p.owned
      /\ q.allocated = p.allocated /\ q.busy = p.busy /\ q.free = p.free
  BY <1>t DEF Controllers
<1>2. PoolInv(q)
  <2>1. q \in Controllers
    BY <1>t DEF Controllers
  <2>2. LeaseInv(q)
    BY <1>1, <1>t DEF PoolInv, LeaseInv, Controllers
  <2>3. CountInv(q)
    BY <1>1 DEF PoolInv, CountInv, Busy, Owned
  <2>4. WakeInv(q)
    BY <1>1, <1>t DEF PoolInv, WakeInv, Controllers
  <2> QED BY <2>1, <2>2, <2>3, <2>4 DEF PoolInv
<1>3. {c} \in SUBSET Owned(q, r)
  BY <1>1, <1>t DEF PoolInv, LeaseInv, Owned, Leases
<1>4. \A s \in Requests : \A l \in q.chunks[s] : l.chunk \notin {c}
  <2> SUFFICES ASSUME NEW s \in Requests, NEW l \in p.chunks[s], l.chunk = c
               PROVE  FALSE
    BY <1>1
  <2>1. l \in Leases
    BY <1>t DEF Controllers
  <2>2. s = r /\ l.gen = p.pending[r].gen
    BY DEF PoolInv, LeaseInv
  <2>3. l = p.pending[r]
    BY <2>1, <2>2, <1>t DEF Leases
  <2> QED BY <2>2, <2>3 DEF PoolInv, LeaseInv
<1>5. \A s \in Requests : q.pending[s] # NoLease => q.pending[s].chunk \notin {c}
  BY <1>1, <1>t DEF PoolInv, LeaseInv, Controllers
<1>6. ReclaimPending(p, r) = ReleaseOwnedChunks(q, r, {c})
  BY DEF ReclaimPending
<1> HIDE DEF q, c
<1> QED BY <1>2, <1>3, <1>4, <1>5, <1>6, ReleaseOwnedChunksLemma

\* releaseAcceptedLocked: a request gives back any of the leases it holds.
LEMMA ReleaseAcceptedLemma ==
  ASSUME NEW p, PoolInv(p), NEW r \in Requests, NEW ls \in SUBSET p.chunks[r]
  PROVE  PoolInv(ReleaseAccepted(p, r, ls))
<1> DEFINE q == [p EXCEPT !.chunks[r] = @ \ ls]
           cs == {l.chunk : l \in ls}
<1>t. /\ p \in Controllers
      /\ \A s \in Requests : \A l \in p.chunks[s] : l \in Leases
  BY DEF PoolInv, Controllers
<1>1. /\ q.chunks = [p.chunks EXCEPT ![r] = @ \ ls]
      /\ q.pending = p.pending /\ q.notify = p.notify
      /\ q.owner = p.owner /\ q.gen = p.gen
      /\ q.waiting = p.waiting /\ q.waiters = p.waiters /\ q.owned = p.owned
      /\ q.allocated = p.allocated /\ q.busy = p.busy /\ q.free = p.free
  BY <1>t DEF Controllers
<1>2. PoolInv(q)
  <2>1. q \in Controllers
    BY <1>t DEF Controllers
  <2>2. LeaseInv(q)
    BY <1>1, <1>t DEF PoolInv, LeaseInv, Controllers
  <2>3. CountInv(q)
    BY <1>1 DEF PoolInv, CountInv, Busy, Owned
  <2>4. WakeInv(q)
    BY <1>1 DEF PoolInv, WakeInv
  <2> QED BY <2>1, <2>2, <2>3, <2>4 DEF PoolInv
<1>3. cs \in SUBSET Owned(q, r)
  BY <1>1, <1>t DEF PoolInv, LeaseInv, Owned, Leases
<1>4. \A s \in Requests : \A l \in q.chunks[s] : l.chunk \notin cs
  <2> SUFFICES ASSUME NEW s \in Requests, NEW l \in q.chunks[s], NEW m \in ls,
                      l.chunk = m.chunk
               PROVE  FALSE
    OBVIOUS
  <2>1. l \in p.chunks[s] /\ m \in p.chunks[r]
    BY <1>1, <1>t DEF Controllers
  <2>2. s = r /\ l.gen = m.gen
    BY <2>1 DEF PoolInv, LeaseInv
  <2>3. l = m
    BY <2>1, <2>2, <1>t DEF Leases
  <2> QED BY <2>2, <2>3, <1>1, <1>t DEF Controllers
<1>5. \A s \in Requests : q.pending[s] # NoLease => q.pending[s].chunk \notin cs
  <2> SUFFICES ASSUME NEW s \in Requests, p.pending[s] # NoLease, NEW m \in ls,
                      p.pending[s].chunk = m.chunk
               PROVE  FALSE
    BY <1>1
  <2>1. p.pending[s] \in Leases /\ m \in Leases
    BY <1>t DEF Controllers
  <2>2. s = r /\ p.pending[s].gen = m.gen
    BY DEF PoolInv, LeaseInv
  <2>3. p.pending[s] = m
    BY <2>1, <2>2 DEF Leases
  <2> QED BY <2>2, <2>3 DEF PoolInv, LeaseInv
<1>6. ReleaseAccepted(p, r, ls) = ReleaseOwnedChunks(q, r, cs)
  BY DEF ReleaseAccepted
<1> HIDE DEF q, cs
<1> QED BY <1>2, <1>3, <1>4, <1>5, <1>6, ReleaseOwnedChunksLemma

\* recomputeTargetsLocked: the shares of a non-empty population are numbers.
LEMMA RecomputeTargetsLemma ==
  ASSUME NEW p, PoolInv(p)
  PROVE  PoolInv(RecomputeTargets(p))
<1> DEFINE q == RecomputeTargets(p)
<1> USE ConstantsAssumption
<1>t. p \in Controllers
  BY DEF PoolInv
<1>1. \A r \in p.active : FairShare(Cardinality(p.active)) \in Nat
  <2>1. p.active \in SUBSET Requests
    BY <1>t DEF Controllers
  <2>2. IsFiniteSet(p.active)
    BY <2>1, FS_Subset
  <2>3. Cardinality(p.active) \in Nat /\ (Cardinality(p.active) = 0 <=> p.active = {})
    BY <2>2, FS_CardinalityType, FS_EmptySet
  <2>4. \A n \in Nat \ {0} : FairShare(n) \in Nat
    BY DEF FairShare
  <2> QED BY <2>3, <2>4
<1>2. q \in Controllers
  BY <1>t, <1>1 DEF Controllers, RecomputeTargets
<1>3. /\ q.pending = p.pending /\ q.notify = p.notify /\ q.chunks = p.chunks
      /\ q.owner = p.owner /\ q.gen = p.gen
      /\ q.waiting = p.waiting /\ q.waiters = p.waiters /\ q.owned = p.owned
      /\ q.allocated = p.allocated /\ q.busy = p.busy /\ q.free = p.free
  BY <1>t DEF Controllers, RecomputeTargets
<1> QED BY <1>2, <1>3 DEF PoolInv, LeaseInv, CountInv, WakeInv, Busy, Owned

\* removeWaiterLocked: leaving the queue touches nothing but the queue.
LEMMA RemoveWaiterLemma ==
  ASSUME NEW p, PoolInv(p), NEW r \in Requests
  PROVE  PoolInv(RemoveWaiter(p, r))
<1> DEFINE q == RemoveWaiter(p, r)
<1>t. p \in Controllers
  BY DEF PoolInv
<1>1. q \in Controllers
  BY <1>t DEF Controllers, RemoveWaiter, Dequeue
<1>2. /\ q.waiting = [p.waiting EXCEPT ![r] = FALSE]
      /\ q.waiters = p.waiters \ {r}
      /\ q.pending = p.pending /\ q.notify = p.notify /\ q.chunks = p.chunks
      /\ q.owner = p.owner /\ q.gen = p.gen /\ q.owned = p.owned
      /\ q.allocated = p.allocated /\ q.busy = p.busy /\ q.free = p.free
  BY <1>t DEF Controllers, RemoveWaiter, Dequeue
<1>3. LeaseInv(q) /\ CountInv(q)
  BY <1>2 DEF PoolInv, LeaseInv, CountInv, Busy, Owned
<1>4. WakeInv(q)
  <2> HIDE DEF q
  <2> SUFFICES ASSUME NEW s \in Requests
               PROVE  /\ q.waiting[s] => q.notify[s] = 0 /\ q.pending[s] = NoLease
                      /\ q.notify[s] = 1 => q.pending[s] # NoLease
                      /\ q.waiting[s] <=> s \in q.waiters
    BY DEF WakeInv
  <2>1. /\ p.waiting[s] => p.notify[s] = 0 /\ p.pending[s] = NoLease
        /\ p.notify[s] = 1 => p.pending[s] # NoLease
        /\ p.waiting[s] <=> s \in p.waiters
    BY DEF PoolInv, WakeInv
  <2>2. /\ q.waiting[s] = (IF s = r THEN FALSE ELSE p.waiting[s])
        /\ s \in q.waiters <=> s \in p.waiters /\ s # r
    BY <1>2, <1>t DEF Controllers
  <2> QED BY <2>1, <2>2, <1>2
<1> QED BY <1>1, <1>3, <1>4 DEF PoolInv

\* requestOptional: a request that neither waits nor has a grant joins the
\* queue; no wakeup token can be left over from an earlier grant.
LEMMA EnqueueLemma ==
  ASSUME NEW p, PoolInv(p), NEW r \in Requests, p.pending[r] = NoLease
  PROVE  PoolInv([Enqueue(p, r) EXCEPT !.waiting[r] = TRUE])
<1> DEFINE q == [Enqueue(p, r) EXCEPT !.waiting[r] = TRUE]
<1>t. p \in Controllers
  BY DEF PoolInv
<1>1. q \in Controllers
  BY <1>t DEF Controllers, Enqueue
<1>2. /\ q.waiting = [p.waiting EXCEPT ![r] = TRUE]
      /\ q.waiters = p.waiters \cup {r}
      /\ q.pending = p.pending /\ q.notify = p.notify /\ q.chunks = p.chunks
      /\ q.owner = p.owner /\ q.gen = p.gen /\ q.owned = p.owned
      /\ q.allocated = p.allocated /\ q.busy = p.busy /\ q.free = p.free
  BY <1>t DEF Controllers, Enqueue
<1>3. LeaseInv(q) /\ CountInv(q)
  <2> HIDE DEF q
  <2> QED BY <1>2 DEF PoolInv, LeaseInv, CountInv, Busy, Owned
<1>4. WakeInv(q)
  <2> HIDE DEF q
  <2> SUFFICES ASSUME NEW s \in Requests
               PROVE  /\ q.waiting[s] => q.notify[s] = 0 /\ q.pending[s] = NoLease
                      /\ q.notify[s] = 1 => q.pending[s] # NoLease
                      /\ q.waiting[s] <=> s \in q.waiters
    BY DEF WakeInv
  <2>1. /\ p.waiting[s] => p.notify[s] = 0 /\ p.pending[s] = NoLease
        /\ p.notify[s] = 1 => p.pending[s] # NoLease
        /\ p.waiting[s] <=> s \in p.waiters
    BY DEF PoolInv, WakeInv
  <2>2. /\ q.waiting[s] = (IF s = r THEN TRUE ELSE p.waiting[s])
        /\ s \in q.waiters <=> s \in p.waiters \/ s = r
        /\ p.notify[s] \in {0, 1}
    BY <1>2, <1>t DEF Controllers
  <2> QED BY <2>1, <2>2, <1>2
<1> QED BY <1>1, <1>3, <1>4 DEF PoolInv

\* scheduleLocked: the granted chunks come from the pool's room and nobody else
\* owned them, and afterwards nobody who could be granted a chunk still waits.
LEMMA GrantLemma ==
  ASSUME NEW p, PoolInv(p), NEW G \in SUBSET p.waiters, FirstServed(p, G),
         NEW f \in Assignments(p, G)
  PROVE  /\ PoolInv(Grant(p, G, f))
         /\ Grant(p, G, f).chunks = p.chunks
         /\ \A r \in Requests : ~CanGrant(Grant(p, G, f), r)
<1> DEFINE q == Grant(p, G, f)
           taken == {f[r] : r \in G}
           waiting == [r \in Requests |-> IF r \in G THEN FALSE ELSE p.waiting[r]]
           notify == [r \in Requests |-> IF r \in G THEN 1 ELSE p.notify[r]]
           pending == [r \in Requests |->
             IF r \in G THEN [chunk |-> f[r], gen |-> p.gen[f[r]] + 1] ELSE p.pending[r]]
           owned == [r \in Requests |-> IF r \in G THEN p.owned[r] + 1 ELSE p.owned[r]]
           owner == [c \in Chunks |->
             IF c \in taken THEN CHOOSE r \in G : f[r] = c ELSE p.owner[c]]
           gen == [c \in Chunks |-> IF c \in taken THEN p.gen[c] + 1 ELSE p.gen[c]]
           ahead == [r \in Requests |-> IF r \in G THEN {} ELSE p.ahead[r] \ G]
           allocated == p.allocated + Cardinality(taken \ p.free)
           busy == p.busy + Cardinality(taken)
<1> USE ConstantsAssumption, NoLeaseAssumption
<1>t. p \in Controllers
  BY DEF PoolInv
<1>g. G \subseteq Requests /\ IsFiniteSet(G) /\ Cardinality(G) \in Nat
  <2>1. G \in SUBSET Requests
    BY <1>t DEF Controllers
  <2> QED BY <2>1, FS_Subset, FS_CardinalityType
<1>f. /\ \A r \in G : f[r] \in Chunks /\ p.owner[f[r]] = Nobody
      /\ \A r, s \in G : f[r] = f[s] => r = s
      /\ f \in [G -> p.free \cup NewChunks(p)]
      /\ taken \subseteq p.free \/ p.free \subseteq taken
  BY <1>t DEF Assignments, NewChunks, PoolInv, CountInv, Controllers
<1>k. /\ taken \subseteq Chunks /\ taken \cap Busy(p) = {}
      /\ IsFiniteSet(taken) /\ Cardinality(taken) = Cardinality(G)
  <2>1. taken \subseteq Chunks /\ taken \cap Busy(p) = {}
    BY <1>f DEF Busy
  <2>2. f \in Bijection(G, taken)
    BY <1>f DEF Bijection, Injection, Surjection, IsInjective
  <2> QED BY <1>g, <2>1, <2>2, FS_Bijection DEF ExistsBijection
<1>b. IsFiniteSet(Busy(p)) /\ Cardinality(Busy(p)) \in Nat
  <2>1. Busy(p) \in SUBSET Chunks
    BY DEF Busy
  <2> QED BY <2>1, FS_Subset, FS_CardinalityType
<1>e. IsFiniteSet(p.free) /\ Cardinality(p.free) \in Nat
  <2>1. p.free \in SUBSET Chunks
    BY <1>t DEF Controllers
  <2> QED BY <2>1, FS_Subset, FS_CardinalityType
<1>n. /\ p.allocated \in Nat /\ p.busy = Cardinality(Busy(p))
      /\ p.allocated <= Budget
      /\ p.allocated = Cardinality(Busy(p)) + Cardinality(p.free)
  BY <1>t DEF PoolInv, CountInv, Controllers
<1>0. q = [[p EXCEPT !.waiters = p.waiters \ G, !.ahead = ahead] EXCEPT
             !.waiting = waiting, !.notify = notify, !.pending = pending,
             !.owned = owned, !.owner = owner, !.gen = gen,
             !.free = p.free \ taken, !.allocated = allocated, !.busy = busy]
  BY <1>t DEF Grant, Dequeue, Controllers
<1>1. /\ q.waiting = waiting /\ q.notify = notify /\ q.pending = pending
      /\ q.owned = owned /\ q.owner = owner /\ q.gen = gen
      /\ q.free = p.free \ taken /\ q.allocated = allocated /\ q.busy = busy
      /\ q.waiters = p.waiters \ G /\ q.chunks = p.chunks /\ q.target = p.target
      /\ q.closed = p.closed
  <2> HIDE DEF q, taken, waiting, notify, pending, owned, owner, gen, ahead,
               allocated, busy
  <2> QED BY <1>0, <1>t DEF Controllers
<1> HIDE DEF q
<1>2. \A r \in G : q.owner[f[r]] = r /\ q.gen[f[r]] = p.gen[f[r]] + 1
  BY <1>1, <1>f
<1>3. \A c \in Chunks \ taken : q.owner[c] = p.owner[c] /\ q.gen[c] = p.gen[c]
  BY <1>1
<1>4. \A c \in taken : q.owner[c] \in G /\ f[q.owner[c]] = c
  BY <1>2
<1>5. Cardinality(Busy(q)) = Cardinality(Busy(p)) + Cardinality(taken)
  <2>1. Busy(q) = Busy(p) \cup taken
    BY <1>3, <1>4, <1>g, <1>k DEF Busy
  <2>2. Cardinality(Busy(p) \cap taken) = 0
    BY <1>k, FS_EmptySet
  <2>3. Cardinality(Busy(p) \cup taken)
          = Cardinality(Busy(p)) + Cardinality(taken) - Cardinality(Busy(p) \cap taken)
    BY <1>b, <1>k, FS_Union
  <2> QED BY <2>1, <2>2, <2>3, <1>b, <1>k, <1>g
<1>6. /\ Cardinality(q.free) \in Nat /\ Cardinality(taken \ p.free) \in Nat
      /\ Cardinality(q.free) = Cardinality(p.free)
                                 - (Cardinality(taken) - Cardinality(taken \ p.free))
      /\ Cardinality(taken \ p.free) <= Budget - p.allocated
  <2> DEFINE both == Cardinality(p.free \cap taken)
  <2>1. /\ Cardinality(p.free \ taken) = Cardinality(p.free) - both
        /\ Cardinality(taken \ p.free) = Cardinality(taken) - both
    <3>1. taken \cap p.free = p.free \cap taken
      OBVIOUS
    <3>2. Cardinality(p.free \ taken) = Cardinality(p.free) - both
      BY <1>e, FS_Difference
    <3>3. Cardinality(taken \ p.free) = Cardinality(taken) - Cardinality(taken \cap p.free)
      BY <1>k, FS_Difference
    <3> QED BY <3>1, <3>2, <3>3
  <2>2. /\ IsFiniteSet(p.free \ taken) /\ Cardinality(p.free \ taken) \in Nat
        /\ IsFiniteSet(taken \ p.free) /\ Cardinality(taken \ p.free) \in Nat
        /\ both \in Nat
    BY <1>e, <1>k, FS_Difference, FS_Intersection, FS_CardinalityType
  <2>3. CASE taken \subseteq p.free
    <3>1. Cardinality(taken \ p.free) = 0
      BY <2>3, FS_EmptySet
    <3> HIDE DEF taken, both, waiting, notify, pending, owned, owner, gen, ahead
    <3> QED BY <3>1, <2>1, <2>2, <1>1, <1>n, <1>e, <1>k, <1>g
  <2>4. CASE p.free \subseteq taken
    <3>1. p.free \cap taken = p.free
      BY <2>4
    <3>2. Cardinality(G) <= Cardinality(p.free) + (Budget - p.allocated)
      BY DEF FirstServed, Room
    <3>3. both = Cardinality(p.free)
      BY <3>1
    <3> HIDE DEF taken, both, waiting, notify, pending, owned, owner, gen, ahead
    <3> QED BY <3>3, <3>2, <2>1, <2>2, <1>1, <1>n, <1>e, <1>k, <1>g
  <2> QED BY <2>3, <2>4, <1>f
<1>7. \A r \in Requests : q.owned[r] = Cardinality(Owned(q, r))
  <2> SUFFICES ASSUME NEW r \in Requests PROVE q.owned[r] = Cardinality(Owned(q, r))
    OBVIOUS
  <2>1. p.owned[r] = Cardinality(Owned(p, r))
    BY DEF PoolInv, CountInv
  <2>2. IsFiniteSet(Owned(p, r))
    <3>1. Owned(p, r) \in SUBSET Chunks
      BY DEF Owned
    <3> QED BY <3>1, FS_Subset
  <2>3. CASE r \in G
    <3>1. Owned(q, r) = Owned(p, r) \cup {f[r]}
      BY <2>3, <1>2, <1>3, <1>4, <1>f DEF Owned
    <3>2. f[r] \notin Owned(p, r)
      BY <2>3, <1>f DEF Owned
    <3>3. Cardinality(Owned(p, r) \cup {f[r]}) = Cardinality(Owned(p, r)) + 1
      BY <2>2, <3>2, FS_AddElement
    <3> QED BY <2>1, <2>3, <3>1, <3>3, <1>1
  <2>4. CASE r \notin G
    <3>1. Owned(q, r) = Owned(p, r)
      BY <2>4, <1>3, <1>4, <1>f, <1>k DEF Owned
    <3> QED BY <2>1, <2>4, <3>1, <1>1
  <2> QED BY <2>3, <2>4
<1>8. q \in Controllers
  <2>1. allocated \in Nat /\ busy \in Nat
    BY <1>1, <1>6, <1>n, <1>b, <1>k, <1>g
  <2>2. owner \in [Chunks -> Requests \cup {Nobody}] /\ gen \in [Chunks -> Nat]
    <3>1. \A c \in Chunks : owner[c] \in Requests \cup {Nobody}
      BY <1>1, <1>4, <1>3, <1>g, <1>t DEF Controllers
    <3> QED BY <3>1, <1>t DEF Controllers
  <2>3. pending \in [Requests -> Leases \cup {NoLease}]
    BY <1>f, <1>t DEF Controllers, Leases
  <2>4. waiting \in [Requests -> BOOLEAN]
    BY <1>t DEF Controllers
  <2>5. notify \in [Requests -> {0, 1}]
    BY <1>t DEF Controllers
  <2>6. owned \in [Requests -> Nat]
    BY <1>t DEF Controllers
  <2>7. ahead \in [Requests -> SUBSET Requests]
    BY <1>t DEF Controllers
  <2>8. p.waiters \ G \in SUBSET Requests /\ p.free \ taken \in SUBSET Chunks
    BY <1>t DEF Controllers
  <2> HIDE DEF taken, waiting, notify, pending, owned, owner, gen, ahead,
               allocated, busy
  <2>9. [[p EXCEPT !.waiters = p.waiters \ G, !.ahead = ahead] EXCEPT
            !.waiting = waiting, !.notify = notify, !.pending = pending,
            !.owned = owned, !.owner = owner, !.gen = gen,
            !.free = p.free \ taken, !.allocated = allocated, !.busy = busy]
          \in Controllers
    BY <2>1, <2>2, <2>3, <2>4, <2>5, <2>6, <2>7, <2>8, <1>t DEF Controllers
  <2> QED BY <2>9, <1>0, Zenon
<1>9. LeaseInv(q)
  <2>1. ASSUME NEW r \in Requests, NEW l \in q.chunks[r]
        PROVE  q.owner[l.chunk] = r /\ q.gen[l.chunk] = l.gen
    <3>1. l \in Leases /\ p.owner[l.chunk] = r /\ p.gen[l.chunk] = l.gen
      BY <2>1, <1>1, <1>t DEF PoolInv, LeaseInv, Controllers
    <3>2. l.chunk \in Chunks \ taken
      BY <3>1, <1>f DEF Leases
    <3> QED BY <3>1, <3>2, <1>3
  <2>2. ASSUME NEW r \in Requests, q.pending[r] # NoLease
        PROVE  /\ q.owner[q.pending[r].chunk] = r
               /\ q.gen[q.pending[r].chunk] = q.pending[r].gen
               /\ q.pending[r] \notin q.chunks[r]
    <3>1. CASE r \in G
      <4>1. q.pending[r] = [chunk |-> f[r], gen |-> p.gen[f[r]] + 1]
        BY <3>1, <1>1
      <4>2. \A l \in q.chunks[r] : l.chunk # f[r]
        BY <3>1, <1>1, <1>f, <1>t DEF PoolInv, LeaseInv, Controllers
      <4> QED BY <3>1, <4>1, <4>2, <1>2
    <3>2. CASE r \notin G
      <4>1. q.pending[r] = p.pending[r] /\ q.chunks[r] = p.chunks[r]
        BY <3>2, <1>1
      <4>2. /\ p.pending[r] \in Leases /\ p.owner[p.pending[r].chunk] = r
            /\ p.gen[p.pending[r].chunk] = p.pending[r].gen
            /\ p.pending[r] \notin p.chunks[r]
        BY <2>2, <4>1, <1>t DEF PoolInv, LeaseInv, Controllers
      <4>3. p.pending[r].chunk \in Chunks \ taken
        BY <4>2, <1>f DEF Leases
      <4> QED BY <4>1, <4>2, <4>3, <1>3
    <3> QED BY <3>1, <3>2
  <2> QED BY <2>1, <2>2 DEF LeaseInv
<1>10. CountInv(q)
  <2>1. /\ q.allocated <= Budget
        /\ q.allocated = q.busy + Cardinality(q.free)
        /\ q.busy = Cardinality(Busy(q))
    BY <1>1, <1>5, <1>6, <1>n, <1>b, <1>e, <1>k, <1>g
  <2>2. \A c \in q.free : q.owner[c] = Nobody /\ q.gen[c] > 0
    BY <1>1, <1>3, <1>t DEF PoolInv, CountInv, Controllers
  <2>3. \A c \in Chunks : q.gen[c] = 0 => q.owner[c] = Nobody
    <3>1. \A c \in taken : q.gen[c] # 0
      BY <1>1, <1>f, <1>t DEF Controllers
    <3> QED BY <3>1, <1>3 DEF PoolInv, CountInv
  <2> QED BY <2>1, <2>2, <2>3, <1>7 DEF CountInv
<1>11. WakeInv(q)
  <2> SUFFICES ASSUME NEW s \in Requests
               PROVE  /\ q.waiting[s] => q.notify[s] = 0 /\ q.pending[s] = NoLease
                      /\ q.notify[s] = 1 => q.pending[s] # NoLease
                      /\ q.waiting[s] <=> s \in q.waiters
    BY DEF WakeInv
  <2>1. /\ p.waiting[s] => p.notify[s] = 0 /\ p.pending[s] = NoLease
        /\ p.notify[s] = 1 => p.pending[s] # NoLease
        /\ p.waiting[s] <=> s \in p.waiters
    BY DEF PoolInv, WakeInv
  <2>2. CASE s \in G
    <3>1. [chunk |-> f[s], gen |-> p.gen[f[s]] + 1] \in Leases
      BY <2>2, <1>f, <1>t DEF Leases, Controllers
    <3> QED BY <2>2, <3>1, <1>1
  <2>3. CASE s \notin G
    BY <2>1, <2>3, <1>1
  <2> QED BY <2>2, <2>3
<1>12. PoolInv(q)
  BY <1>8, <1>9, <1>10, <1>11 DEF PoolInv
<1>13. ASSUME NEW r \in Requests, CanGrant(q, r) PROVE FALSE
  <2>1. r \notin G /\ r \in p.waiters /\ Entitled(p, r)
    BY <1>13, <1>1, <1>12 DEF CanGrant, Entitled, Debt, PoolInv, WakeInv
  <2>2. Cardinality(G) = Room(p)
    BY <2>1 DEF FirstServed
  <2>3. Room(q) = 0
    BY <2>2, <1>1, <1>6, <1>n, <1>b, <1>e, <1>k, <1>g DEF Room
  <2> QED BY <1>13, <2>3 DEF CanGrant
<1> QED BY <1>1, <1>12, <1>13 DEF q

-----------------------------------------------------------------------------
(* The operations *)

\* An operation that ends with a scheduling pass leaves no grant behind.
LEMMA ScheduleLemma ==
  ASSUME NEW p, PoolInv(p), Schedule(p)
  PROVE  PoolInv(pool') /\ NoMissedGrant' /\ pool'.chunks = p.chunks
<1>1. PICK G \in SUBSET p.waiters :
        /\ FirstServed(p, G)
        /\ \E f \in Assignments(p, G) : pool' = Grant(p, G, f)
  BY DEF Schedule
<1>2. PICK f \in Assignments(p, G) : pool' = Grant(p, G, f)
  BY <1>1
<1> QED BY <1>1, <1>2, GrantLemma DEF NoMissedGrant, CanGrant, Entitled, Debt, Room

\* The controller starts empty: nothing is owned, free, queued or offered.
LEMMA InitLemma == Init => IInv
<1> SUFFICES ASSUME Init PROVE IInv
  OBVIOUS
<1> USE ConstantsAssumption, NoLeaseAssumption
<1>1. pool \in Controllers
  BY DEF Init, Controllers
<1>2. /\ \A r \in Requests : /\ pool.chunks[r] = {} /\ pool.pending[r] = NoLease
                             /\ pool.waiting[r] = FALSE /\ pool.notify[r] = 0
                             /\ pool.owned[r] = 0
      /\ \A c \in Chunks : pool.owner[c] = Nobody
      /\ pool.free = {} /\ pool.waiters = {} /\ pool.allocated = 0 /\ pool.busy = 0
  BY DEF Init
<1>3. LeaseInv(pool) /\ WakeInv(pool)
  BY <1>2 DEF LeaseInv, WakeInv
<1>4. CountInv(pool)
  <2>1. Busy(pool) = {} /\ \A r \in Requests : Owned(pool, r) = {}
    BY <1>2 DEF Busy, Owned
  <2>2. Cardinality({}) = 0
    BY FS_EmptySet
  <2>3. \A r \in Requests : pool.owned[r] = Cardinality(Owned(pool, r))
    BY <1>2, <2>1, <2>2, Zenon
  <2>4. Cardinality(Busy(pool)) = 0 /\ Cardinality(pool.free) = 0
    BY <1>2, <2>1, <2>2, Zenon
  <2> QED BY <1>2, <2>3, <2>4 DEF CountInv
<1>5. NoMissedGrant
  BY <1>2 DEF NoMissedGrant, CanGrant, Entitled
<1>6. outstanding \in [Requests -> SUBSET Leases] /\ LedgerInv
  BY DEF Init, LedgerInv
<1> QED BY <1>1, <1>3, <1>4, <1>5, <1>6 DEF IInv, PoolInv

\* Taking the notification and accepting the lease do not make anyone else
\* entitled: the request itself no longer waits.
LEMMA AcceptLemma ==
  ASSUME IInv, NEW r \in Requests, AcceptOptional(r) \/ TakeNotification(r)
  PROVE  IInv'
<1>t. /\ pool \in Controllers /\ LeaseInv(pool) /\ CountInv(pool) /\ WakeInv(pool)
      /\ outstanding \in [Requests -> SUBSET Leases]
  BY DEF IInv, PoolInv
<1>1. CASE AcceptOptional(r)
  <2> DEFINE l == pool.pending[r]
  <2>1. l \in Leases /\ l # NoLease /\ pool.owner[l.chunk] = r
        /\ pool.gen[l.chunk] = l.gen
    BY <1>1, <1>t DEF AcceptOptional, LeaseInv, Controllers
  <2>2. /\ pool'.pending = [pool.pending EXCEPT ![r] = NoLease]
        /\ pool'.notify = [pool.notify EXCEPT ![r] = 0]
        /\ pool'.chunks = [pool.chunks EXCEPT ![r] = @ \cup {l}]
        /\ pool'.owner = pool.owner /\ pool'.gen = pool.gen
        /\ pool'.waiting = pool.waiting /\ pool'.waiters = pool.waiters
        /\ pool'.owned = pool.owned /\ pool'.target = pool.target
        /\ pool'.closed = pool.closed /\ pool'.allocated = pool.allocated
        /\ pool'.busy = pool.busy /\ pool'.free = pool.free
        /\ pool' \in Controllers
    BY <1>1, <1>t, <2>1 DEF AcceptOptional, Controllers
  <2>3. LeaseInv(pool')
    BY <2>1, <2>2, <1>t DEF LeaseInv, Controllers
  <2>4. CountInv(pool')
    BY <2>2, <1>t DEF CountInv, Busy, Owned
  <2>5. ~pool.waiting[r]
    BY <2>1, <1>t DEF WakeInv
  <2>6. WakeInv(pool')
    BY <2>2, <2>5, <1>t DEF WakeInv, Controllers
  <2>7. NoMissedGrant'
    <3> SUFFICES ASSUME NEW s \in Requests, CanGrant(pool', s) PROVE FALSE
      BY DEF NoMissedGrant, CanGrant, Entitled, Debt, Room
    <3>1. s # r
      BY <2>2, <2>5 DEF CanGrant, Entitled
    <3>2. CanGrant(pool, s)
      BY <3>1, <2>2, <1>t DEF CanGrant, Entitled, Debt, Room, Controllers
    <3> QED BY <3>2 DEF IInv, NoMissedGrant
  <2>8. outstanding' \in [Requests -> SUBSET Leases] /\ LedgerInv'
    BY <1>1, <2>1, <2>2, <1>t DEF AcceptOptional, IInv, LedgerInv, Controllers
  <2> QED BY <2>2, <2>3, <2>4, <2>6, <2>7, <2>8 DEF IInv, PoolInv
<1>2. CASE TakeNotification(r)
  <2>1. /\ pool'.notify = [pool.notify EXCEPT ![r] = 0]
        /\ pool'.pending = pool.pending /\ pool'.chunks = pool.chunks
        /\ pool'.owner = pool.owner /\ pool'.gen = pool.gen
        /\ pool'.waiting = pool.waiting /\ pool'.waiters = pool.waiters
        /\ pool'.owned = pool.owned /\ pool'.target = pool.target
        /\ pool'.closed = pool.closed /\ pool'.allocated = pool.allocated
        /\ pool'.busy = pool.busy /\ pool'.free = pool.free
        /\ pool' \in Controllers /\ outstanding' = outstanding
    BY <1>2, <1>t DEF TakeNotification, Controllers
  <2>2. LeaseInv(pool') /\ CountInv(pool')
    BY <2>1, <1>t DEF LeaseInv, CountInv, Busy, Owned
  <2>3. WakeInv(pool')
    BY <2>1, <1>t DEF WakeInv, Controllers
  <2>4. NoMissedGrant'
    <3> SUFFICES ASSUME NEW s \in Requests, CanGrant(pool', s) PROVE FALSE
      BY DEF NoMissedGrant, CanGrant, Entitled, Debt, Room
    <3>1. CanGrant(pool, s)
      BY <2>1 DEF CanGrant, Entitled, Debt, Room
    <3> QED BY <3>1 DEF IInv, NoMissedGrant
  <2> QED BY <2>1, <2>2, <2>3, <2>4, <1>t DEF IInv, PoolInv, LedgerInv
<1> QED BY <1>1, <1>2

\* A producer that gives up, while it waits or holding an unaccepted grant.
LEMMA CancelLemma ==
  ASSUME IInv, NEW r \in Requests, CancelOptional(r)
  PROVE  IInv'
<1>t. /\ pool \in Controllers /\ PoolInv(pool)
      /\ outstanding' = outstanding
  BY DEF IInv, PoolInv, CancelOptional
<1>1. CASE pool.pending[r] # NoLease /\ Schedule(ReclaimPending(pool, r))
  <2>1. ReclaimPending(pool, r).chunks = pool.chunks
    BY <1>t DEF ReclaimPending, ReleaseOwnedChunks, Controllers
  <2>2. PoolInv(pool') /\ NoMissedGrant' /\ pool'.chunks = pool.chunks
    BY <1>1, <1>t, <2>1, ReclaimPendingLemma, ScheduleLemma
  <2> QED BY <2>2, <1>t DEF IInv, LedgerInv
<1>2. CASE pool' = RemoveWaiter(pool, r)
  <2>1. /\ pool'.waiting = [pool.waiting EXCEPT ![r] = FALSE]
        /\ pool'.pending = pool.pending /\ pool'.chunks = pool.chunks
        /\ pool'.owned = pool.owned /\ pool'.target = pool.target
        /\ pool'.closed = pool.closed /\ pool'.allocated = pool.allocated
        /\ pool'.free = pool.free
    BY <1>2, <1>t DEF RemoveWaiter, Dequeue, Controllers
  <2>2. PoolInv(pool')
    BY <1>2, <1>t, RemoveWaiterLemma
  <2>3. NoMissedGrant'
    <3> SUFFICES ASSUME NEW s \in Requests, CanGrant(pool', s) PROVE FALSE
      BY DEF NoMissedGrant, CanGrant, Entitled, Debt, Room
    <3>1. CanGrant(pool, s)
      BY <2>1, <1>t DEF CanGrant, Entitled, Debt, Room, Controllers
    <3> QED BY <3>1 DEF IInv, NoMissedGrant
  <2> QED BY <2>1, <2>2, <2>3, <1>t DEF IInv, LedgerInv
<1> QED BY <1>1, <1>2 DEF CancelOptional

\* Presenting a lease: a valid one returns its chunk, any other does nothing.
LEMMA ReleaseLemma ==
  ASSUME IInv, NEW r \in Requests, NEW l \in Leases, ReleaseOptional(r, l)
  PROVE  IInv'
<1>t. /\ pool \in Controllers /\ PoolInv(pool)
      /\ outstanding \in [Requests -> SUBSET Leases] /\ LedgerInv
      /\ outstanding' = [outstanding EXCEPT ![r] = @ \ {l}]
  BY DEF IInv, PoolInv, ReleaseOptional
<1>o. /\ outstanding' \in [Requests -> SUBSET Leases]
      /\ \A s \in Requests : outstanding'[s] \subseteq outstanding[s]
      /\ l \notin outstanding'[r]
  BY <1>t
<1>1. CASE ValidLease(pool, r, l)
  <2>1. {l} \in SUBSET pool.chunks[r]
    BY <1>1 DEF ValidLease
  <2>2. ReleaseAccepted(pool, r, {l}).chunks = [pool.chunks EXCEPT ![r] = @ \ {l}]
    BY <1>t DEF ReleaseAccepted, ReleaseOwnedChunks, Controllers
  <2>3. /\ PoolInv(pool') /\ NoMissedGrant'
        /\ pool'.chunks = [pool.chunks EXCEPT ![r] = @ \ {l}]
    <3>1. PoolInv(ReleaseAccepted(pool, r, {l}))
      BY <1>t, <2>1, ReleaseAcceptedLemma
    <3>2. Schedule(ReleaseAccepted(pool, r, {l}))
      BY <1>1 DEF ReleaseOptional
    <3> QED BY <3>1, <3>2, <2>2, ScheduleLemma
  <2>4. LedgerInv'
    BY <2>3, <1>o, <1>t DEF LedgerInv, Controllers
  <2> QED BY <2>3, <2>4, <1>o DEF IInv
<1>2. CASE ~ValidLease(pool, r, l)
  <2>1. pool' = pool
    BY <1>2 DEF ReleaseOptional
  <2>2. NoMissedGrant'
    BY <2>1 DEF IInv, NoMissedGrant, CanGrant, Entitled, Debt, Room
  <2> QED BY <2>1, <2>2, <1>o, <1>t DEF IInv, LedgerInv
<1> QED BY <1>1, <1>2

\* Closing a request returns everything it has, in the order of the code: its
\* place in the queue, its unaccepted grant, its leases, its share.
LEMMA CloseLemma ==
  ASSUME IInv, NEW r \in Requests, Close(r)
  PROVE  IInv'
<1> DEFINE marked    == [pool EXCEPT !.closed = @ \cup {r}]
           unqueued  == IF marked.waiting[r] THEN RemoveWaiter(marked, r) ELSE marked
           reclaimed == IF unqueued.pending[r] # NoLease THEN ReclaimPending(unqueued, r)
                                                         ELSE unqueued
           released  == ReleaseAccepted(reclaimed, r, reclaimed.chunks[r])
           left      == [released EXCEPT !.active = @ \ {r}, !.notify[r] = 0]
<1>t. /\ pool \in Controllers /\ PoolInv(pool)
      /\ outstanding \in [Requests -> SUBSET Leases] /\ LedgerInv
  BY DEF IInv, PoolInv
<1>1. PoolInv(marked) /\ marked.chunks = pool.chunks
  <2>1. /\ marked \in Controllers /\ marked.owner = pool.owner /\ marked.gen = pool.gen
        /\ marked.chunks = pool.chunks /\ marked.pending = pool.pending
        /\ marked.notify = pool.notify /\ marked.waiting = pool.waiting
        /\ marked.waiters = pool.waiters /\ marked.owned = pool.owned
        /\ marked.allocated = pool.allocated /\ marked.busy = pool.busy
        /\ marked.free = pool.free
    BY <1>t DEF Controllers
  <2> HIDE DEF marked
  <2> QED BY <2>1, <1>t DEF PoolInv, LeaseInv, CountInv, WakeInv, Busy, Owned
<1> HIDE DEF marked
<1>2. PoolInv(unqueued) /\ unqueued.chunks = pool.chunks
  <2>1. RemoveWaiter(marked, r).chunks = marked.chunks
    BY <1>1 DEF RemoveWaiter, Dequeue, PoolInv, Controllers
  <2> QED BY <1>1, <2>1, RemoveWaiterLemma
<1> HIDE DEF unqueued
<1>3. PoolInv(reclaimed) /\ reclaimed.chunks = pool.chunks
  <2>1. ReclaimPending(unqueued, r).chunks = unqueued.chunks
    BY <1>2 DEF ReclaimPending, ReleaseOwnedChunks, PoolInv, Controllers
  <2> QED BY <1>2, <2>1, ReclaimPendingLemma
<1>4. reclaimed.pending[r] = NoLease
  <2>1. unqueued.pending[r] # NoLease => ReclaimPending(unqueued, r).pending[r] = NoLease
    BY <1>2 DEF ReclaimPending, ReleaseOwnedChunks, PoolInv, Controllers
  <2> QED BY <2>1
<1> HIDE DEF reclaimed
<1>5. /\ PoolInv(released)
      /\ released.chunks = [pool.chunks EXCEPT ![r] = {}]
      /\ released.pending[r] = NoLease
  <2>1. PoolInv(released)
    BY <1>3, ReleaseAcceptedLemma
  <2>2. /\ released.chunks = [pool.chunks EXCEPT ![r] = {}]
        /\ released.pending = reclaimed.pending
    BY <1>3, <1>t DEF ReleaseAccepted, ReleaseOwnedChunks, PoolInv, Controllers
  <2> QED BY <2>1, <2>2, <1>4
<1> HIDE DEF released
<1>6. PoolInv(left) /\ left.chunks = [pool.chunks EXCEPT ![r] = {}]
  <2>t. released \in Controllers
    BY <1>5 DEF PoolInv
  <2>1. /\ left \in Controllers /\ left.owner = released.owner /\ left.gen = released.gen
        /\ left.chunks = released.chunks /\ left.pending = released.pending
        /\ left.notify = [released.notify EXCEPT ![r] = 0]
        /\ left.waiting = released.waiting
        /\ left.waiters = released.waiters /\ left.owned = released.owned
        /\ left.allocated = released.allocated /\ left.busy = released.busy
        /\ left.free = released.free
    BY <2>t DEF Controllers
  <2> HIDE DEF left
  <2>2. LeaseInv(left) /\ CountInv(left)
    BY <2>1, <1>5 DEF PoolInv, LeaseInv, CountInv, Busy, Owned
  <2>3. WakeInv(left)
    BY <2>1, <2>t, <1>5 DEF PoolInv, WakeInv, Controllers
  <2> QED BY <2>1, <2>2, <2>3, <1>5 DEF PoolInv
<1>7. Unregister(released, r) = RecomputeTargets(left)
  BY DEF Unregister
<1> HIDE DEF left
<1>8. /\ PoolInv(RecomputeTargets(left))
      /\ RecomputeTargets(left).chunks = [pool.chunks EXCEPT ![r] = {}]
  <2>1. RecomputeTargets(left).chunks = left.chunks
    BY <1>6 DEF RecomputeTargets, PoolInv, Controllers
  <2> QED BY <2>1, <1>6, RecomputeTargetsLemma
<1>9. Schedule(Unregister(released, r)) /\ outstanding' = [outstanding EXCEPT ![r] = {}]
  BY DEF Close, marked, unqueued, reclaimed, released
<1>10. /\ PoolInv(pool') /\ NoMissedGrant'
       /\ pool'.chunks = [pool.chunks EXCEPT ![r] = {}]
  BY <1>7, <1>8, <1>9, ScheduleLemma
<1>11. outstanding' \in [Requests -> SUBSET Leases] /\ LedgerInv'
  BY <1>9, <1>10, <1>t DEF LedgerInv, Controllers
<1> QED BY <1>10, <1>11 DEF IInv

-----------------------------------------------------------------------------
(* The theorems *)

\* Every operation preserves the inductive invariant.
LEMMA NextLemma == IInv /\ [Next]_vars => IInv'
<1> SUFFICES ASSUME IInv, [Next]_vars PROVE IInv'
  OBVIOUS
<1>t. PoolInv(pool) /\ pool \in Controllers /\ outstanding \in [Requests -> SUBSET Leases]
  BY DEF IInv, PoolInv
<1>1. ASSUME NEW r \in Requests, Register(r) PROVE IInv'
  <2> DEFINE joined == [pool EXCEPT !.active = @ \cup {r}]
  <2>1. /\ joined \in Controllers /\ joined.owner = pool.owner /\ joined.gen = pool.gen
        /\ joined.chunks = pool.chunks /\ joined.pending = pool.pending
        /\ joined.notify = pool.notify /\ joined.waiting = pool.waiting
        /\ joined.waiters = pool.waiters /\ joined.owned = pool.owned
        /\ joined.allocated = pool.allocated /\ joined.busy = pool.busy
        /\ joined.free = pool.free
    BY <1>t DEF Controllers
  <2>2. Schedule(RecomputeTargets(joined)) /\ outstanding' = outstanding
    BY <1>1 DEF Register
  <2> HIDE DEF joined
  <2>3. PoolInv(joined)
    BY <2>1, <1>t DEF PoolInv, LeaseInv, CountInv, WakeInv, Busy, Owned
  <2>4. RecomputeTargets(joined).chunks = pool.chunks
    BY <2>1 DEF RecomputeTargets, Controllers
  <2>5. PoolInv(pool') /\ NoMissedGrant' /\ pool'.chunks = pool.chunks
    BY <2>2, <2>3, <2>4, RecomputeTargetsLemma, ScheduleLemma
  <2> QED BY <2>2, <2>5 DEF IInv, LedgerInv
<1>2. ASSUME NEW r \in Requests, RequestOptional(r) PROVE IInv'
  <2>1. [Enqueue(pool, r) EXCEPT !.waiting[r] = TRUE].chunks = pool.chunks
    BY <1>t DEF Enqueue, Controllers
  <2>2. PoolInv(pool') /\ NoMissedGrant' /\ pool'.chunks = pool.chunks
    BY <1>2, <1>t, <2>1, EnqueueLemma, ScheduleLemma DEF RequestOptional
  <2>3. outstanding' = outstanding
    BY <1>2 DEF RequestOptional
  <2> QED BY <2>2, <2>3 DEF IInv, LedgerInv
<1>3. ASSUME NEW r \in Requests, TakeNotification(r) \/ AcceptOptional(r) PROVE IInv'
  BY <1>3, AcceptLemma
<1>4. ASSUME NEW r \in Requests, CancelOptional(r) PROVE IInv'
  BY <1>4, CancelLemma
<1>5. ASSUME NEW r \in Requests, NEW l \in Presentable, ReleaseOptional(r, l) PROVE IInv'
  <2>1. l \in Leases
    <3>1. Requests \in SUBSET Requests /\ Cardinality(Requests) \in Nat
      BY ConstantsAssumption, FS_CardinalityType
    <3> QED BY <3>1, ConstantsAssumption DEF Presentable, Leases
  <2> QED BY <1>5, <2>1, ReleaseLemma
<1>6. ASSUME NEW r \in Requests, Close(r) PROVE IInv'
  BY <1>6, CloseLemma
<1>7. CASE UNCHANGED vars
  <2>1. pool' = pool /\ outstanding' = outstanding
    BY <1>7 DEF vars
  <2>2. NoMissedGrant'
    BY <2>1 DEF IInv, NoMissedGrant, CanGrant, Entitled, Debt, Room
  <2> QED BY <2>1, <2>2 DEF IInv, LedgerInv
<1> QED BY <1>1, <1>2, <1>3, <1>4, <1>5, <1>6, <1>7 DEF Next

\* The inductive invariant holds in every reachable state.
THEOREM Invariance == Spec => []IInv
<1>1. Init => IInv
  BY InitLemma
<1>2. IInv /\ [Next]_vars => IInv'
  BY NextLemma
<1> QED BY <1>1, <1>2, PTL DEF Spec

\* The controller's fields keep their types: no counter is ever negative.
THEOREM TypeCorrect == Spec => []TypeOK
<1>1. IInv => TypeOK
  BY DEF IInv, PoolInv, TypeOK
<1> QED BY <1>1, Invariance, PTL

\* assertAccountingLocked never panics, for any budget and any number of
\* responses: the budget is kept and every chunk is accounted for.
THEOREM AccountingCorrect == Spec => []Accounting
<1>1. IInv => Accounting
  BY DEF IInv, PoolInv, CountInv, Busy, Accounting, TypeOK
<1> QED BY <1>1, Invariance, PTL

\* A lease that was accepted names a chunk its holder owns until the holder
\* releases it, whatever the other responses do.
THEOREM LeasesStayValid == Spec => []AcceptedLeaseStaysValid
<1>1. IInv => AcceptedLeaseStaysValid
  BY DEF IInv, PoolInv, LeaseInv, LedgerInv, AcceptedLeaseStaysValid
<1> QED BY <1>1, Invariance, PTL

\* Two holders of leases never write to the same buffer.
THEOREM ChunksNotShared == Spec => []NoSharedChunk
<1>1. IInv => NoSharedChunk
  <2> SUFFICES ASSUME IInv, NEW r \in Requests, NEW s \in Requests,
                      NEW l \in outstanding[r], NEW m \in outstanding[s],
                      l.chunk = m.chunk
               PROVE  r = s /\ l = m
    BY DEF NoSharedChunk
  <2>1. l \in pool.chunks[r] /\ m \in pool.chunks[s] /\ l \in Leases /\ m \in Leases
    BY DEF IInv, LedgerInv
  <2>2. /\ pool.owner[l.chunk] = r /\ pool.owner[m.chunk] = s
        /\ pool.gen[l.chunk] = l.gen /\ pool.gen[m.chunk] = m.gen
    BY <2>1 DEF IInv, PoolInv, LeaseInv
  <2> QED BY <2>1, <2>2 DEF Leases
<1> QED BY <1>1, Invariance, PTL

\* A grant sends exactly one wakeup, so the non-blocking send of the scheduler
\* never finds its slot taken.
THEOREM WakeupsMatch == Spec => []WakeupMatchesGrant
<1>1. IInv => WakeupMatchesGrant
  BY DEF IInv, PoolInv, WakeInv, WakeupMatchesGrant
<1> QED BY <1>1, Invariance, PTL

\* A grant belongs to one holder from its announcement to its release.
THEOREM GrantsAreSound == Spec => []GrantsSound
<1>1. AcceptedLeaseStaysValid /\ WakeupMatchesGrant => GrantsSound
  BY DEF GrantsSound
<1> QED BY <1>1, LeasesStayValid, WakeupsMatch, PTL

\* No operation forgets to schedule: nobody waits for a chunk that is there.
THEOREM GrantsNotMissed == Spec => []NoMissedGrant
<1>1. IInv => NoMissedGrant
  BY DEF IInv
<1> QED BY <1>1, Invariance, PTL

-----------------------------------------------------------------------------
(* The shares and the order of the queue *)

\* The targets are the fair share of the population.
SharesFollow(p) == \A r \in p.active : p.target[r] = FairShare(Cardinality(p.active))

\* Of two waiters one is ahead of the other at most, and nobody is ahead of himself.
QueueOrdered(p) ==
  \A s \in Requests : /\ p.ahead[s] \subseteq p.waiters \ {s}
                      /\ \A r \in p.ahead[s] : s \notin p.ahead[r]

\* Who is closed neither takes part nor waits.
ClosedIsOut(p) == p.closed \cap (p.active \cup p.waiters) = {}

TurnInv == SharesFollow(pool) /\ QueueOrdered(pool) /\ ClosedIsOut(pool)

\* What the helpers that give chunks back leave alone.
KeepsTurns(p, q) ==
  /\ q.active = p.active /\ q.closed = p.closed /\ q.target = p.target
  /\ q.waiters = p.waiters /\ q.ahead = p.ahead

\* The scheduling pass: the order of those who still wait stays, and who is passed over
\* is kept from another chunk by its own share.
LEMMA PassLemma ==
  ASSUME NEW p, PoolInv(p), QueueOrdered(p), ClosedIsOut(p), SharesFollow(p), Schedule(p)
  PROVE  /\ TurnInv'
         /\ \A r, s \in Requests :
              /\ r \in p.ahead[s] /\ p.pending[s] = NoLease /\ pool'.pending[s] # NoLease
              /\ pool'.waiting[r]
              => pool'.owned[r] + 1 > pool'.target[r]
<1>1. PICK G \in SUBSET p.waiters :
        /\ FirstServed(p, G)
        /\ \E f \in Assignments(p, G) : pool' = Grant(p, G, f)
  BY DEF Schedule
<1>2. p \in Controllers
  BY DEF PoolInv
<1>3. /\ pool'.active = p.active /\ pool'.closed = p.closed /\ pool'.target = p.target
      /\ pool'.waiters = p.waiters \ G
      /\ pool'.ahead = [r \in Requests |-> IF r \in G THEN {} ELSE p.ahead[r] \ G]
  BY <1>1, <1>2 DEF Grant, Dequeue, Controllers
<1>4. /\ pool'.owned = [r \in Requests |-> IF r \in G THEN p.owned[r] + 1 ELSE p.owned[r]]
      /\ pool'.waiting = [r \in Requests |-> IF r \in G THEN FALSE ELSE p.waiting[r]]
      /\ \A r \in Requests \ G : pool'.pending[r] = p.pending[r]
  BY <1>1, <1>2 DEF Grant, Dequeue, Controllers
<1>5. SharesFollow(pool') /\ ClosedIsOut(pool')
  BY <1>3 DEF SharesFollow, ClosedIsOut
<1>6. QueueOrdered(pool')
  <2>1. p.waiters \subseteq Requests
    BY <1>2 DEF Controllers
  <2>2. \A s \in Requests : pool'.ahead[s] \subseteq p.ahead[s] \ G
    BY <1>3
  <2> QED BY <1>3, <2>1, <2>2 DEF QueueOrdered
<1>7. ASSUME NEW r \in Requests, NEW s \in Requests,
             r \in p.ahead[s], p.pending[s] = NoLease, pool'.pending[s] # NoLease,
             pool'.waiting[r]
      PROVE  pool'.owned[r] + 1 > pool'.target[r]
  <2>1. s \in G /\ r \notin G /\ p.waiting[r]
    BY <1>4, <1>7
  <2>2. r \in p.waiters /\ s \notin p.ahead[r]
    BY <1>7 DEF QueueOrdered
  <2>3. ~Entitled(p, r)
    BY <1>1, <2>1, <2>2 DEF FirstServed
  <2>4. r \notin p.closed /\ p.pending[r] = NoLease
    BY <2>1, <2>2 DEF ClosedIsOut, PoolInv, WakeInv
  <2>5. Debt(p, r) # 0 \/ ~(p.owned[r] + 1 <= p.target[r])
    BY <2>1, <2>3, <2>4 DEF Entitled
  <2>6. p.owned[r] \in Nat /\ p.target[r] \in Nat
    BY <1>2 DEF Controllers
  <2>7. p.owned[r] + 1 > p.target[r]
    BY <2>5, <2>6 DEF Debt
  <2> QED BY <1>3, <1>4, <2>1, <2>7
<1> QED BY <1>5, <1>6, <1>7 DEF TurnInv, SharesFollow, QueueOrdered, ClosedIsOut

\* The helpers that give chunks back leave the shares and the queue alone.
LEMMA GivesBack ==
  ASSUME NEW p \in Controllers, NEW r \in Requests
  PROVE  /\ KeepsTurns(p, ReclaimPending(p, r))
         /\ \A s \in Requests : ReclaimPending(p, r).pending[s] # NoLease
                                => p.pending[s] # NoLease
         /\ \A ls : /\ KeepsTurns(p, ReleaseAccepted(p, r, ls))
                    /\ ReleaseAccepted(p, r, ls).pending = p.pending
<1>1. KeepsTurns(p, ReclaimPending(p, r))
  BY DEF KeepsTurns, ReclaimPending, ReleaseOwnedChunks, Controllers
<1>2. ReclaimPending(p, r).pending = [p.pending EXCEPT ![r] = NoLease]
  BY DEF ReclaimPending, ReleaseOwnedChunks, Controllers
<1>3. ASSUME NEW ls
      PROVE  /\ KeepsTurns(p, ReleaseAccepted(p, r, ls))
             /\ ReleaseAccepted(p, r, ls).pending = p.pending
  BY DEF KeepsTurns, ReleaseAccepted, ReleaseOwnedChunks, Controllers
<1> QED BY <1>1, <1>2, <1>3 DEF Controllers

\* recomputeTargetsLocked gives everybody his share and leaves the queue alone.
LEMMA SharesOut ==
  ASSUME NEW p \in Controllers
  PROVE  LET q == RecomputeTargets(p) IN
         /\ SharesFollow(q)
         /\ q.active = p.active /\ q.closed = p.closed
         /\ q.waiters = p.waiters /\ q.ahead = p.ahead /\ q.pending = p.pending
<1> DEFINE q == RecomputeTargets(p)
<1>1. /\ q.target = [r \in Requests |-> IF r \in p.active THEN FairShare(Cardinality(p.active))
                                        ELSE p.target[r]]
      /\ q.active = p.active /\ q.closed = p.closed
      /\ q.waiters = p.waiters /\ q.ahead = p.ahead /\ q.pending = p.pending
  BY DEF RecomputeTargets, Controllers
<1>2. p.active \subseteq Requests
  BY DEF Controllers
<1> HIDE DEF q
<1>3. SharesFollow(q)
  BY <1>1, <1>2 DEF SharesFollow
<1> QED BY <1>1, <1>3 DEF q

\* First come, first served, in one step.
NobodyPassed ==
  \A r, s \in Requests :
    /\ r \in pool.ahead[s]
    /\ pool.waiting[s] /\ pool'.pending[s] # NoLease
    /\ pool'.waiting[r]
    => pool'.owned[r] + 1 > pool'.target[r]

\* An operation that ends with a scheduling pass over p, before which everybody kept his
\* place and nobody was offered a chunk.
LEMMA OperationLemma ==
  ASSUME PoolInv(pool), NEW p, PoolInv(p), QueueOrdered(p), ClosedIsOut(p), SharesFollow(p),
         Schedule(p),
         \A r, s \in p.waiters : r \in pool.ahead[s] => r \in p.ahead[s],
         \A s \in Requests : p.pending[s] # NoLease => pool.pending[s] # NoLease
  PROVE  TurnInv' /\ NobodyPassed
<1>1. /\ TurnInv'
      /\ \A r, s \in Requests :
           /\ r \in p.ahead[s] /\ p.pending[s] = NoLease /\ pool'.pending[s] # NoLease
           /\ pool'.waiting[r]
           => pool'.owned[r] + 1 > pool'.target[r]
  BY PassLemma
<1>2. ASSUME NEW r \in Requests, NEW s \in Requests, r \in pool.ahead[s],
             pool.waiting[s], pool'.pending[s] # NoLease, pool'.waiting[r]
      PROVE  pool'.owned[r] + 1 > pool'.target[r]
  <2>1. PICK G \in SUBSET p.waiters : \E f : pool' = Grant(p, G, f)
    BY DEF Schedule
  <2>2. p \in Controllers
    BY DEF PoolInv
  <2>3. /\ pool'.waiting = [n \in Requests |-> IF n \in G THEN FALSE ELSE p.waiting[n]]
        /\ \A n \in Requests \ G : pool'.pending[n] = p.pending[n]
    BY <2>1, <2>2 DEF Grant, Dequeue, Controllers
  <2>4. p.pending[s] = NoLease
    BY <1>2 DEF PoolInv, WakeInv
  <2>5. r \in p.waiters /\ s \in p.waiters
    BY <1>2, <2>3, <2>4 DEF PoolInv, WakeInv
  <2> QED BY <1>1, <1>2, <2>4, <2>5
<1> QED BY <1>1, <1>2 DEF NobodyPassed

\* An operation without a scheduling pass: nobody is offered a chunk.
LEMMA QuietLemma ==
  ASSUME PoolInv(pool), TurnInv, pool' \in Controllers,
         pool'.active = pool.active, pool'.closed = pool.closed, pool'.target = pool.target,
         pool'.waiters \subseteq pool.waiters,
         \A s \in Requests : /\ pool'.ahead[s] \subseteq pool.ahead[s] \cap pool'.waiters
                             /\ pool'.pending[s] # NoLease => pool.pending[s] # NoLease
  PROVE  TurnInv' /\ NobodyPassed
<1>1. SharesFollow(pool') /\ ClosedIsOut(pool')
  BY DEF TurnInv, SharesFollow, ClosedIsOut
<1>2. QueueOrdered(pool')
  BY DEF TurnInv, QueueOrdered, Controllers
<1>3. NobodyPassed
  BY DEF NobodyPassed, PoolInv, WakeInv
<1> QED BY <1>1, <1>2, <1>3 DEF TurnInv, SharesFollow, QueueOrdered, ClosedIsOut

\* registerRequest: the shares shrink, and the queue is what it was.
LEMMA RegisterTurns ==
  ASSUME IInv, TurnInv, NEW r \in Requests, Register(r)
  PROVE  TurnInv' /\ NobodyPassed
<1> DEFINE joined == [pool EXCEPT !.active = @ \cup {r}]
           p == RecomputeTargets(joined)
<1>1. pool \in Controllers /\ PoolInv(pool)
  BY DEF IInv, PoolInv
<1>2. /\ joined \in Controllers /\ joined.owner = pool.owner /\ joined.gen = pool.gen
      /\ joined.chunks = pool.chunks /\ joined.pending = pool.pending
      /\ joined.notify = pool.notify /\ joined.waiting = pool.waiting
      /\ joined.waiters = pool.waiters /\ joined.owned = pool.owned
      /\ joined.allocated = pool.allocated /\ joined.busy = pool.busy
      /\ joined.free = pool.free /\ joined.ahead = pool.ahead
      /\ joined.closed = pool.closed /\ joined.active = pool.active \cup {r}
  BY <1>1 DEF Controllers
<1>3. Schedule(p) /\ r \notin pool.closed
  BY DEF Register
<1> HIDE DEF joined
<1>4. PoolInv(joined)
  BY <1>1, <1>2 DEF PoolInv, LeaseInv, CountInv, WakeInv, Busy, Owned
<1>5. PoolInv(p)
  BY <1>4, RecomputeTargetsLemma
<1>6. /\ SharesFollow(p)
      /\ p.active = joined.active /\ p.closed = joined.closed
      /\ p.waiters = joined.waiters /\ p.ahead = joined.ahead /\ p.pending = joined.pending
  BY <1>2, SharesOut
<1> HIDE DEF p
<1>7. QueueOrdered(p) /\ ClosedIsOut(p)
  BY <1>2, <1>3, <1>6 DEF TurnInv, QueueOrdered, ClosedIsOut
<1> QED BY <1>1, <1>2, <1>3, <1>5, <1>6, <1>7, OperationLemma

\* requestOptional: who comes last has everybody ahead.
LEMMA RequestTurns ==
  ASSUME IInv, TurnInv, NEW r \in Requests, RequestOptional(r)
  PROVE  TurnInv' /\ NobodyPassed
<1> DEFINE p == [Enqueue(pool, r) EXCEPT !.waiting[r] = TRUE]
<1>1. pool \in Controllers /\ PoolInv(pool)
  BY DEF IInv, PoolInv
<1>2. /\ p.active = pool.active /\ p.closed = pool.closed /\ p.target = pool.target
      /\ p.waiters = pool.waiters \cup {r} /\ p.pending = pool.pending
      /\ p.ahead = [pool.ahead EXCEPT ![r] = pool.waiters]
  BY <1>1 DEF Enqueue, Controllers
<1>3. Schedule(p) /\ r \in pool.active /\ ~pool.waiting[r]
  BY DEF RequestOptional
<1>4. PoolInv(p)
  BY <1>1, EnqueueLemma DEF RequestOptional
<1> HIDE DEF p
<1>5. r \notin pool.waiters /\ \A s \in Requests : r \notin pool.ahead[s]
  BY <1>1, <1>3 DEF PoolInv, WakeInv, TurnInv, QueueOrdered
<1>6. p.ahead[r] = pool.waiters /\ \A s \in Requests \ {r} : p.ahead[s] = pool.ahead[s]
  BY <1>1, <1>2 DEF Controllers
<1>7. QueueOrdered(p)
  BY <1>1, <1>2, <1>5, <1>6 DEF TurnInv, QueueOrdered, Controllers
<1>8. ClosedIsOut(p) /\ SharesFollow(p)
  BY <1>2, <1>3 DEF TurnInv, ClosedIsOut, SharesFollow
<1>9. \A n, s \in p.waiters : n \in pool.ahead[s] => n \in p.ahead[s]
  <2>1. p.waiters \subseteq Requests
    BY <1>4 DEF PoolInv, Controllers
  <2> QED BY <1>2, <1>6, <2>1 DEF TurnInv, QueueOrdered
<1> QED BY <1>1, <1>2, <1>3, <1>4, <1>7, <1>8, <1>9, OperationLemma

\* cancelOptional: an offered chunk goes to the next one; who waited leaves the queue.
LEMMA CancelTurns ==
  ASSUME IInv, TurnInv, NEW r \in Requests, CancelOptional(r)
  PROVE  TurnInv' /\ NobodyPassed
<1>1. pool \in Controllers /\ PoolInv(pool)
  BY DEF IInv, PoolInv
<1>2. CASE pool.pending[r] # NoLease /\ Schedule(ReclaimPending(pool, r))
  <2>1. PICK p : p = ReclaimPending(pool, r)
    OBVIOUS
  <2>2. /\ PoolInv(p) /\ Schedule(p) /\ KeepsTurns(pool, p)
        /\ \A s \in Requests : p.pending[s] # NoLease => pool.pending[s] # NoLease
    BY <1>1, <1>2, <2>1, ReclaimPendingLemma, GivesBack
  <2>3. QueueOrdered(p) /\ ClosedIsOut(p) /\ SharesFollow(p)
    BY <2>2 DEF KeepsTurns, TurnInv, QueueOrdered, ClosedIsOut, SharesFollow
  <2> QED BY <1>1, <2>2, <2>3, OperationLemma DEF KeepsTurns
<1>3. CASE pool' = RemoveWaiter(pool, r)
  <2>1. /\ pool'.active = pool.active /\ pool'.closed = pool.closed
        /\ pool'.target = pool.target /\ pool'.waiters = pool.waiters \ {r}
        /\ pool'.pending = pool.pending
        /\ pool'.ahead = [s \in Requests |-> IF s \in {r} THEN {} ELSE pool.ahead[s] \ {r}]
    BY <1>1, <1>3 DEF RemoveWaiter, Dequeue, Controllers
  <2>2. pool' \in Controllers
    BY <1>1, <1>3, RemoveWaiterLemma DEF PoolInv
  <2>3. \A s \in Requests : pool'.ahead[s] \subseteq pool.ahead[s] \cap pool'.waiters
    BY <2>1 DEF TurnInv, QueueOrdered
  <2> QED BY <1>1, <2>1, <2>2, <2>3, QuietLemma
<1> QED BY <1>2, <1>3 DEF CancelOptional

\* releaseOptional: a valid lease makes room for the first who may have it.
LEMMA ReleaseTurns ==
  ASSUME IInv, TurnInv, NEW r \in Requests, NEW l \in Leases, ReleaseOptional(r, l)
  PROVE  TurnInv' /\ NobodyPassed
<1>1. pool \in Controllers /\ PoolInv(pool)
  BY DEF IInv, PoolInv
<1>2. CASE ValidLease(pool, r, l)
  <2>1. PICK p : p = ReleaseAccepted(pool, r, {l})
    OBVIOUS
  <2>2. {l} \in SUBSET pool.chunks[r]
    BY <1>2 DEF ValidLease
  <2>3. PoolInv(p)
    BY <1>1, <2>1, <2>2, ReleaseAcceptedLemma
  <2>4. KeepsTurns(pool, p) /\ p.pending = pool.pending
    BY <1>1, <2>1, GivesBack
  <2>5. Schedule(p)
    BY <1>2, <2>1 DEF ReleaseOptional
  <2>6. QueueOrdered(p) /\ ClosedIsOut(p) /\ SharesFollow(p)
    BY <2>4 DEF KeepsTurns, TurnInv, QueueOrdered, ClosedIsOut, SharesFollow
  <2> QED BY <1>1, <2>3, <2>4, <2>5, <2>6, OperationLemma DEF KeepsTurns
<1>3. CASE ~ValidLease(pool, r, l)
  <2>1. pool' = pool
    BY <1>3 DEF ReleaseOptional
  <2>2. \A s \in Requests : pool'.ahead[s] \subseteq pool.ahead[s] \cap pool'.waiters
    BY <2>1 DEF TurnInv, QueueOrdered
  <2> QED BY <1>1, <2>1, <2>2, QuietLemma
<1> QED BY <1>2, <1>3

\* acceptOptional and the notification: the queue is what it was.
LEMMA AcceptTurns ==
  ASSUME IInv, TurnInv, NEW r \in Requests, AcceptOptional(r) \/ TakeNotification(r)
  PROVE  TurnInv' /\ NobodyPassed
<1>1. pool \in Controllers /\ PoolInv(pool) /\ pool' \in Controllers
  BY AcceptLemma DEF IInv, PoolInv
<1>2. /\ pool'.active = pool.active /\ pool'.closed = pool.closed
      /\ pool'.target = pool.target /\ pool'.waiters = pool.waiters
      /\ pool'.ahead = pool.ahead
      /\ \A s \in Requests : pool'.pending[s] # NoLease => pool.pending[s] # NoLease
  <2>1. CASE AcceptOptional(r)
    <3>1. pool'.pending = [pool.pending EXCEPT ![r] = NoLease]
      BY <1>1, <2>1 DEF AcceptOptional, Controllers
    <3>2. /\ pool'.active = pool.active /\ pool'.closed = pool.closed
          /\ pool'.target = pool.target /\ pool'.waiters = pool.waiters
          /\ pool'.ahead = pool.ahead
      BY <1>1, <2>1 DEF AcceptOptional, Controllers
    <3> QED BY <1>1, <3>1, <3>2 DEF Controllers
  <2>2. CASE TakeNotification(r)
    BY <1>1, <2>2 DEF TakeNotification, Controllers
  <2> QED BY <2>1, <2>2
<1>3. \A s \in Requests : pool'.ahead[s] \subseteq pool.ahead[s] \cap pool'.waiters
  BY <1>2 DEF TurnInv, QueueOrdered
<1> QED BY <1>1, <1>2, <1>3, QuietLemma

\* closeRequest: who leaves was served or gives up, and the shares grow.
LEMMA CloseTurns ==
  ASSUME IInv, TurnInv, NEW r \in Requests, Close(r)
  PROVE  TurnInv' /\ NobodyPassed
<1> DEFINE marked    == [pool EXCEPT !.closed = @ \cup {r}]
           unqueued  == IF marked.waiting[r] THEN RemoveWaiter(marked, r) ELSE marked
           reclaimed == IF unqueued.pending[r] # NoLease THEN ReclaimPending(unqueued, r)
                                                         ELSE unqueued
           released  == ReleaseAccepted(reclaimed, r, reclaimed.chunks[r])
           left      == [released EXCEPT !.active = @ \ {r}, !.notify[r] = 0]
<1>t. /\ pool \in Controllers /\ PoolInv(pool)
      /\ outstanding \in [Requests -> SUBSET Leases] /\ LedgerInv
  BY DEF IInv, PoolInv
<1>1. /\ PoolInv(marked) /\ marked.pending = pool.pending
      /\ marked.waiting = pool.waiting /\ marked.waiters = pool.waiters
      /\ marked.ahead = pool.ahead /\ marked.active = pool.active
      /\ marked.target = pool.target /\ marked.closed = pool.closed \cup {r}
  <2>1. /\ marked \in Controllers /\ marked.owner = pool.owner /\ marked.gen = pool.gen
        /\ marked.chunks = pool.chunks /\ marked.pending = pool.pending
        /\ marked.notify = pool.notify /\ marked.waiting = pool.waiting
        /\ marked.waiters = pool.waiters /\ marked.owned = pool.owned
        /\ marked.allocated = pool.allocated /\ marked.busy = pool.busy
        /\ marked.free = pool.free
        /\ marked.ahead = pool.ahead /\ marked.active = pool.active
        /\ marked.target = pool.target /\ marked.closed = pool.closed \cup {r}
    BY <1>t DEF Controllers
  <2> HIDE DEF marked
  <2> QED BY <2>1, <1>t DEF PoolInv, LeaseInv, CountInv, WakeInv, Busy, Owned
<1> HIDE DEF marked
<1>2. /\ PoolInv(unqueued) /\ unqueued.pending = pool.pending
      /\ unqueued.waiters = pool.waiters \ {r}
      /\ \A s \in unqueued.waiters : unqueued.ahead[s] = pool.ahead[s] \ {r}
      /\ \A s \in Requests : unqueued.ahead[s] \subseteq pool.ahead[s] \ {r}
      /\ unqueued.active = pool.active /\ unqueued.closed = pool.closed \cup {r}
  <2>1. CASE marked.waiting[r]
    <3>1. /\ unqueued.waiters = pool.waiters \ {r} /\ unqueued.pending = pool.pending
          /\ unqueued.ahead = [s \in Requests |-> IF s \in {r} THEN {}
                                                  ELSE pool.ahead[s] \ {r}]
          /\ unqueued.active = pool.active /\ unqueued.closed = pool.closed \cup {r}
      BY <1>1, <2>1 DEF RemoveWaiter, Dequeue, PoolInv, Controllers
    <3>2. PoolInv(unqueued)
      BY <1>1, <2>1, RemoveWaiterLemma
    <3>3. unqueued.waiters \subseteq Requests
      BY <3>2 DEF PoolInv, Controllers
    <3> HIDE DEF unqueued
    <3> QED BY <3>1, <3>2, <3>3
  <2>2. CASE ~marked.waiting[r]
    <3>1. r \notin pool.waiters
      BY <1>1, <1>t, <2>2 DEF PoolInv, WakeInv
    <3>2. \A s \in Requests : r \notin pool.ahead[s]
      BY <3>1 DEF TurnInv, QueueOrdered
    <3>3. pool.waiters \subseteq Requests
      BY <1>t DEF Controllers
    <3> QED BY <1>1, <2>2, <3>1, <3>2, <3>3
  <2> QED BY <2>1, <2>2
<1> HIDE DEF unqueued
<1>3. /\ PoolInv(reclaimed) /\ KeepsTurns(unqueued, reclaimed)
      /\ \A s \in Requests : reclaimed.pending[s] # NoLease => pool.pending[s] # NoLease
      /\ reclaimed.pending[r] = NoLease
  <2>1. unqueued \in Controllers
    BY <1>2 DEF PoolInv
  <2>2. CASE unqueued.pending[r] # NoLease
    <3>1. ReclaimPending(unqueued, r).pending[r] = NoLease
      BY <2>1 DEF ReclaimPending, ReleaseOwnedChunks, Controllers
    <3> QED BY <1>2, <2>1, <2>2, <3>1, GivesBack, ReclaimPendingLemma
  <2>3. CASE unqueued.pending[r] = NoLease
    BY <1>2, <2>3 DEF KeepsTurns
  <2> QED BY <2>2, <2>3
<1> HIDE DEF reclaimed
<1>4. /\ PoolInv(released) /\ KeepsTurns(reclaimed, released)
      /\ released.pending = reclaimed.pending
  <2>1. reclaimed \in Controllers
    BY <1>3 DEF PoolInv
  <2> QED BY <1>3, <2>1, GivesBack, ReleaseAcceptedLemma
<1> HIDE DEF released
<1>5. /\ PoolInv(left) /\ left.pending = released.pending
      /\ left.active = released.active \ {r} /\ left.closed = released.closed
      /\ left.waiters = released.waiters /\ left.ahead = released.ahead
  <2>t. released \in Controllers
    BY <1>4 DEF PoolInv
  <2>1. /\ left \in Controllers /\ left.owner = released.owner /\ left.gen = released.gen
        /\ left.chunks = released.chunks /\ left.pending = released.pending
        /\ left.notify = [released.notify EXCEPT ![r] = 0]
        /\ left.waiting = released.waiting
        /\ left.waiters = released.waiters /\ left.owned = released.owned
        /\ left.allocated = released.allocated /\ left.busy = released.busy
        /\ left.free = released.free /\ left.ahead = released.ahead
        /\ left.active = released.active \ {r} /\ left.closed = released.closed
    BY <2>t DEF Controllers
  <2> HIDE DEF left
  <2>2. LeaseInv(left) /\ CountInv(left)
    BY <2>1, <1>4 DEF PoolInv, LeaseInv, CountInv, Busy, Owned
  <2>3. WakeInv(left)
    BY <2>1, <2>t, <1>3, <1>4 DEF PoolInv, WakeInv, Controllers
  <2> QED BY <2>1, <2>2, <2>3 DEF PoolInv
<1>6. PICK p : p = Unregister(released, r)
  OBVIOUS
<1>7. p = RecomputeTargets(left)
  BY <1>6 DEF Unregister
<1> HIDE DEF left
<1>8. /\ PoolInv(p) /\ SharesFollow(p)
      /\ p.active = left.active /\ p.closed = left.closed
      /\ p.waiters = left.waiters /\ p.ahead = left.ahead /\ p.pending = left.pending
  <2>1. left \in Controllers
    BY <1>5 DEF PoolInv
  <2> QED BY <1>5, <1>7, <2>1, SharesOut, RecomputeTargetsLemma
<1>9. Schedule(p)
  BY <1>6 DEF Close, marked, unqueued, reclaimed, released
<1>10. /\ p.waiters = pool.waiters \ {r} /\ p.closed = pool.closed \cup {r}
       /\ p.active = pool.active \ {r}
       /\ \A s \in p.waiters : p.ahead[s] = pool.ahead[s] \ {r}
       /\ \A s \in Requests : p.ahead[s] \subseteq pool.ahead[s] \ {r}
  BY <1>2, <1>3, <1>4, <1>5, <1>8 DEF KeepsTurns
<1>11. QueueOrdered(p) /\ ClosedIsOut(p)
  <2>1. ClosedIsOut(p)
    BY <1>10 DEF TurnInv, ClosedIsOut
  <2>2. pool.waiters \subseteq Requests
    BY <1>t DEF Controllers
  <2>3. QueueOrdered(p)
    BY <1>10, <2>2 DEF TurnInv, QueueOrdered
  <2> QED BY <2>1, <2>3
<1>12. \A s \in Requests : p.pending[s] # NoLease => pool.pending[s] # NoLease
  BY <1>3, <1>4, <1>5, <1>8
<1>13. \A n, s \in p.waiters : n \in pool.ahead[s] => n \in p.ahead[s]
  BY <1>10
<1> QED BY <1>t, <1>8, <1>9, <1>11, <1>12, <1>13, OperationLemma

\* No operation changes the population without the shares, or the order of the queue.
LEMMA TurnLemma ==
  ASSUME IInv, TurnInv, [Next]_vars
  PROVE  TurnInv' /\ [NobodyPassed]_vars
<1>1. CASE Next
  <2>1. PICK r \in Requests :
          \/ Register(r) \/ RequestOptional(r)
          \/ TakeNotification(r) \/ AcceptOptional(r) \/ CancelOptional(r)
          \/ \E l \in Presentable : ReleaseOptional(r, l)
          \/ Close(r)
    BY <1>1 DEF Next
  <2>2. Presentable \subseteq Leases
    <3>1. Cardinality(Requests) \in Nat
      BY ConstantsAssumption, FS_CardinalityType
    <3> QED BY <3>1, ConstantsAssumption DEF Presentable, Leases
  <2>3. TurnInv' /\ NobodyPassed
    BY <2>1, <2>2, RegisterTurns, RequestTurns, AcceptTurns, CancelTurns, ReleaseTurns,
       CloseTurns
  <2> QED BY <2>3
<1>2. CASE UNCHANGED vars
  BY <1>2 DEF vars, TurnInv, SharesFollow, QueueOrdered, ClosedIsOut
<1> QED BY <1>1, <1>2

\* Nobody takes part or waits at the start.
LEMMA TurnInitLemma == Init => TurnInv
<1> SUFFICES ASSUME Init
             PROVE  TurnInv
  OBVIOUS
<1>1. /\ pool.active = {} /\ pool.closed = {} /\ pool.waiters = {}
      /\ \A r \in Requests : pool.ahead[r] = {}
  BY DEF Init
<1> QED BY <1>1 DEF TurnInv, SharesFollow, QueueOrdered, ClosedIsOut

\* A share is what a division leaves of the budget, or the cap.
LEMMA ShareIsFair ==
  ASSUME NEW n \in Nat \ {0}
  PROVE  /\ FairShare(n) \in Nat /\ n * FairShare(n) <= Budget /\ FairShare(n) <= RequestCap
         /\ FairShare(n) < RequestCap => n * (FairShare(n) + 1) > Budget
<1>1. PICK B \in Nat, C \in Nat : B = Budget /\ C = RequestCap
  BY ConstantsAssumption
<1>2. PICK q \in Nat : q = B \div n
  OBVIOUS
<1>3. n * q <= B /\ n * (q + 1) > B
  BY <1>2
<1>4. CASE q > C
  <2>1. FairShare(n) = C
    BY <1>1, <1>2, <1>4 DEF FairShare
  <2>2. n * C <= n * q
    BY <1>4
  <2> QED BY <1>1, <1>3, <2>1, <2>2
<1>5. CASE ~(q > C)
  <2>1. FairShare(n) = q
    BY <1>1, <1>2, <1>5 DEF FairShare
  <2> QED BY <1>1, <1>3, <1>5, <2>1
<1> QED BY <1>4, <1>5

\* The shares and the order of the queue are kept from the start on.
LEMMA TurnsInvariance == Spec => [](IInv /\ TurnInv)
<1>1. Init => IInv /\ TurnInv
  BY InitLemma, TurnInitLemma
<1>2. IInv /\ TurnInv /\ [Next]_vars => (IInv /\ TurnInv)'
  BY NextLemma, TurnLemma
<1> QED BY <1>1, <1>2, PTL DEF Spec

\* The shares follow the population: whoever joins or leaves, they are equal, fit in the
\* budget together, and leave nothing unshared that another chunk for everybody would allow.
THEOREM TargetsAreFair == Spec => []FairTargets
<1>1. IInv /\ TurnInv => FairTargets
  <2> SUFFICES ASSUME IInv, TurnInv, NEW r \in pool.active
               PROVE  LET n == Cardinality(pool.active) IN
                      /\ n * pool.target[r] <= Budget
                      /\ pool.target[r] <= RequestCap
                      /\ pool.target[r] < RequestCap => n * (pool.target[r] + 1) > Budget
    BY DEF FairTargets
  <2>1. PICK n : n = Cardinality(pool.active)
    OBVIOUS
  <2>2. n \in Nat \ {0}
    <3>1. pool.active \in SUBSET Requests /\ pool.active # {}
      BY DEF IInv, PoolInv, Controllers
    <3>2. IsFiniteSet(pool.active)
      BY <3>1, ConstantsAssumption, FS_Subset
    <3> QED BY <2>1, <3>1, <3>2, FS_CardinalityType, FS_EmptySet
  <2>3. pool.target[r] = FairShare(n)
    BY <2>1 DEF TurnInv, SharesFollow
  <2> QED BY <2>1, <2>2, <2>3, ShareIsFair
<1> QED BY <1>1, TurnsInvariance, PTL

\* First come, first served: whoever is passed over for a later waiter is kept from another
\* chunk by its own share.
THEOREM NobodyIsOvertaken == Spec => NoOvertaking
<1>1. IInv /\ TurnInv /\ [Next]_vars => [NobodyPassed]_vars
  BY TurnLemma
<1>2. Spec => [][NobodyPassed]_vars
  BY <1>1, TurnsInvariance, PTL DEF Spec
<1> QED BY <1>2 DEF NoOvertaking, NobodyPassed

--------------------------------------------------------------------------------
(* The copies *)

\* The records of the producer, the consumer and the queue.
ProducerRec ==
  [pc : {"idle", "read", "publish", "publishEnd", "drop", "acquire", "request", "poll", "wait",
         "withdraw", "accept", "done"},
   buf : Buffers \cup {NoBuffer}, len : 0..BufferSize, end : Terminals]

ConsumerRec ==
  [pc : {"idle", "next", "sleep", "write", "return", "stop", "cancel", "cancelRequest",
         "closeSource", "join", "drain", "done"},
   buf : Buffers \cup {NoBuffer}, len : 0..BufferSize, end : Terminals, drained : Seq(Event)]

\* The types.
Typed ==
  /\ memory \in [Chunks \cup Requests -> (Requests \cup {Nobody}) \X (0..MaxBlocks)]
  /\ producer \in [Requests -> ProducerRec] /\ consumer \in [Requests -> ConsumerRec]
  /\ queue \in [Requests -> Seq(Event)]
  /\ {signal, closing, baseReady, cancelled, gone, shut, ended, broken}
       \subseteq [Requests -> BOOLEAN]
  /\ announced \in [Requests -> Lengths \cup {Unknown}]
  /\ received \in [Requests -> 0..MaxBlocks] /\ sent \in [Requests -> 0..MaxBlocks]

\* The events between the producer and the consumer: queued, or taken over for clean-up.
Events(r) == IF closing[r] THEN consumer[r].drained ELSE queue[r]

\* The buffers in flight.
InFlight(r, b) ==
  \/ producer[r].buf = b \/ consumer[r].buf = b
  \/ \E i \in 1..Len(Events(r)) : Events(r)[i].buf = b

\* Which half is where.
Cleaning == {"cancelRequest", "closeSource", "join", "drain", "done"}
Asking == {"poll", "wait", "withdraw", "accept"}
Reading == {"read", "acquire", "request"} \cup Asking

InStep(r) ==
  /\ consumer[r].pc = "idle" <=> producer[r].pc = "idle"
  /\ producer[r].pc = "idle" => /\ queue[r] = <<>> /\ ~baseReady[r] /\ ~ended[r]
                                /\ received[r] = 0 /\ sent[r] = 0
  /\ closing[r] <=> consumer[r].pc \in {"cancel"} \cup Cleaning
  /\ closing[r] => queue[r] = <<>>
  /\ ~closing[r] => consumer[r].drained = <<>>
  /\ consumer[r].pc \in Cleaning => cancelled[r]
  /\ consumer[r].pc \in {"drain", "done"} => producer[r].pc = "done"
  /\ consumer[r].pc = "done" => consumer[r].drained = <<>>
  /\ consumer[r].pc \in {"idle", "next", "sleep", "write"} => consumer[r].end = "open"
  /\ consumer[r].pc = "return" => consumer[r].end # "complete"
  /\ consumer[r].pc \in {"stop", "cancel"} \cup Cleaning => consumer[r].end # "open"

\* A terminal carries no buffer; it is the last event, and its producer is through.
EventsSound(r) ==
  \A i \in 1..Len(Events(r)) :
    /\ Events(r)[i].end = "open" <=> Events(r)[i].buf # NoBuffer
    /\ Events(r)[i].end # "open" => i = Len(Events(r)) /\ producer[r].pc = "done"

\* Who holds a buffer, and that no two do.
HandsSound(r) ==
  /\ producer[r].pc \in {"read", "publish", "drop"} => producer[r].buf # NoBuffer
  /\ producer[r].buf \notin {NoBuffer, Base} => producer[r].pc \in {"read", "publish", "drop"}
  /\ producer[r].buf = Base => producer[r].pc \in {"read", "publish", "drop", "withdraw"}
  /\ consumer[r].buf # NoBuffer <=> consumer[r].pc \in {"write", "return"}
  /\ consumer[r].buf # NoBuffer => consumer[r].buf # producer[r].buf
  /\ \A i \in 1..Len(Events(r)) : Events(r)[i].buf # NoBuffer =>
       /\ Events(r)[i].buf \notin {producer[r].buf, consumer[r].buf}
       /\ \A k \in 1..Len(Events(r)) : Events(r)[k].buf = Events(r)[i].buf => k = i
  /\ baseReady[r] => ~InFlight(r, Base)

\* The controller's leases are the ones in flight, and its grants are for those who ask.
PoolSound(r) ==
  /\ \A l \in Leases : l \in pool.chunks[r] <=> InFlight(r, l)
  /\ producer[r].pc \notin Asking => ~pool.waiting[r] /\ pool.pending[r] = NoLease
  /\ producer[r].pc = "accept" => /\ ~pool.waiting[r]
                                  /\ pool.pending[r] # NoLease \/ producerGone(r)
  /\ ~broken[r]

\* Where the next piece of the body begins, for the i-th event of the queue.
Offset(r, b) == memory[Place(r, b)][2]
Begin(r) == IF consumer[r].pc = "write" THEN sent[r] + consumer[r].len ELSE sent[r]
Before(r, i) ==
  IF i = 1 THEN Begin(r) ELSE Offset(r, queue[r][i - 1].buf) + queue[r][i - 1].len

\* The announced length bounds what is kept of the body.
Limit(r) ==
  IF announced[r] = Unknown \/ received[r] <= announced[r] THEN received[r] ELSE announced[r]

\* The consumer has met no failure.
Flowing(r) ==
  \/ consumer[r].pc \in {"idle", "next", "sleep", "write"}
  \/ consumer[r].pc = "return" /\ consumer[r].end = "open"

\* A piece is in its buffer, and within what may be sent.
Kept(r, b, n) ==
  /\ memory[Place(r, b)][1] = r /\ Offset(r, b) + n <= Limit(r)

\* The pieces follow one another: what is queued, what is published next and what is
\* read after that.
Contiguous(r) ==
  Flowing(r) =>
    /\ consumer[r].pc = "write" =>
         Kept(r, consumer[r].buf, consumer[r].len) /\ Offset(r, consumer[r].buf) = sent[r]
    /\ \A i \in 1..Len(queue[r]) : queue[r][i].end = "open" =>
         Kept(r, queue[r][i].buf, queue[r][i].len) /\ Offset(r, queue[r][i].buf) = Before(r, i)
    /\ producer[r].pc = "publish" => Offset(r, producer[r].buf) = Before(r, Len(queue[r]) + 1)
    /\ \/ producer[r].pc \in Reading
       \/ producer[r].pc \in {"publishEnd", "drop"} /\ producer[r].end = "complete"
       => received[r] = Before(r, Len(queue[r]) + 1)
    /\ \A i \in 1..Len(queue[r]) : queue[r][i].end = "complete" => received[r] = Before(r, i)

\* The body: what is read, and when it is whole.
WholeBody(r) == ended[r] /\ announced[r] \in {Unknown, received[r]}

BodySound(r) ==
  /\ sent[r] <= Limit(r)
  /\ producer[r].pc = "publishEnd" => producer[r].end # "open"
  /\ producer[r].pc \in Reading => ~ended[r]
  /\ \/ producer[r].pc \in Reading
     \/ producer[r].pc = "publish" /\ producer[r].end = "open"
     => ~ended[r] /\ (announced[r] = Unknown \/ received[r] <= announced[r])
  /\ producer[r].pc = "publish" =>
       /\ Kept(r, producer[r].buf, producer[r].len)
       /\ producer[r].end \in {"open", "complete"} =>
            Offset(r, producer[r].buf) + producer[r].len = received[r]
  /\ producer[r].pc \in {"publish", "publishEnd", "drop"} /\ producer[r].end = "complete"
     => WholeBody(r)
  /\ \A i \in 1..Len(queue[r]) : queue[r][i].end = "complete" => WholeBody(r)
  /\ consumer[r].end = "complete" => WholeBody(r) /\ sent[r] = received[r]

CopySound(r) ==
  /\ InStep(r) /\ EventsSound(r) /\ HandsSound(r) /\ PoolSound(r)
  /\ Contiguous(r) /\ BodySound(r)

\* What every step keeps.
CopyInv == IInv /\ Typed /\ \A r \in Requests : CopySound(r)
-----------------------------------------------------------------------------
(* The controller, as the copies see it *)

\* What a scheduling pass gives is given to those who wait.
GivesToWaiters(p) ==
  /\ pool'.chunks = p.chunks
  /\ \A s \in Requests :
       /\ pool'.waiting[s] => p.waiting[s]
       /\ p.pending[s] # NoLease => pool'.pending[s] = p.pending[s]
       /\ pool'.pending[s] # NoLease => p.pending[s] # NoLease \/ p.waiting[s]

\* scheduleLocked
LEMMA Serves ==
  ASSUME NEW p, PoolInv(p), Schedule(p)
  PROVE  GivesToWaiters(p)
<1>1. PICK G \in SUBSET p.waiters :
        /\ FirstServed(p, G)
        /\ \E f \in Assignments(p, G) : pool' = Grant(p, G, f)
  BY DEF Schedule
<1>2. PICK f \in Assignments(p, G) : pool' = Grant(p, G, f)
  BY <1>1
<1>3. p \in Controllers
  BY DEF PoolInv
<1>4. /\ pool'.chunks = p.chunks
      /\ pool'.waiting = [r \in Requests |-> IF r \in G THEN FALSE ELSE p.waiting[r]]
      /\ \A r \in Requests \ G : pool'.pending[r] = p.pending[r]
  BY <1>2, <1>3 DEF Grant, Dequeue, Controllers
<1>5. \A r \in G : r \in Requests /\ p.waiting[r] /\ p.pending[r] = NoLease
  <2>1. G \subseteq Requests
    BY <1>3 DEF Controllers
  <2> QED BY <2>1 DEF PoolInv, WakeInv
<1> QED BY <1>4, <1>5 DEF GivesToWaiters

\* What another response's operation leaves to s.
PoolKeeps(s) ==
  /\ pool'.chunks[s] = pool.chunks[s]
  /\ pool'.waiting[s] => pool.waiting[s]
  /\ pool.pending[s] # NoLease => pool'.pending[s] # NoLease
  /\ pool'.pending[s] # NoLease => pool.pending[s] # NoLease \/ pool.waiting[s]

\* The helpers change r's part of the pool only.
LEMMA Registering ==
  ASSUME IInv, NEW r \in Requests, Register(r)
  PROVE  IInv' /\ \A s \in Requests : PoolKeeps(s)
<1> DEFINE joined == [pool EXCEPT !.active = @ \cup {r}]
           p == RecomputeTargets(joined)
<1>1. IInv'
  <2>1. Next
    BY DEF Next
  <2> QED BY <2>1, NextLemma
<1>2. pool \in Controllers /\ PoolInv(pool)
  BY DEF IInv, PoolInv
<1>3. /\ joined \in Controllers /\ joined.owner = pool.owner /\ joined.gen = pool.gen
      /\ joined.chunks = pool.chunks /\ joined.pending = pool.pending
      /\ joined.free = pool.free /\ joined.busy = pool.busy /\ joined.owned = pool.owned
      /\ joined.allocated = pool.allocated /\ joined.waiting = pool.waiting
      /\ joined.waiters = pool.waiters /\ joined.notify = pool.notify
  BY <1>2 DEF Controllers
<1>4. PoolInv(joined)
  BY <1>2, <1>3 DEF PoolInv, LeaseInv, CountInv, WakeInv, Busy, Owned
<1>5. p.chunks = joined.chunks /\ p.pending = joined.pending /\ p.waiting = joined.waiting
  BY <1>3 DEF RecomputeTargets, Controllers
<1>6. PoolInv(p) /\ Schedule(p)
  BY <1>4, RecomputeTargetsLemma DEF Register
<1> HIDE DEF p, joined
<1>7. GivesToWaiters(p)
  BY <1>6, Serves
<1> QED BY <1>1, <1>3, <1>5, <1>7 DEF GivesToWaiters, PoolKeeps

\* A request for a chunk
LEMMA Requesting ==
  ASSUME IInv, NEW r \in Requests, RequestOptional(r)
  PROVE  /\ IInv' /\ \A s \in Requests \ {r} : PoolKeeps(s)
         /\ pool'.chunks[r] = pool.chunks[r]
<1> DEFINE p == [Enqueue(pool, r) EXCEPT !.waiting[r] = TRUE]
<1>1. IInv'
  <2>1. Next
    BY DEF Next
  <2> QED BY <2>1, NextLemma
<1>2. pool \in Controllers /\ PoolInv(pool)
  BY DEF IInv, PoolInv
<1>3. /\ p.pending = pool.pending /\ p.chunks = pool.chunks
      /\ p.waiting = [pool.waiting EXCEPT ![r] = TRUE]
  BY <1>2 DEF Enqueue, Controllers
<1>4. PoolInv(p) /\ Schedule(p)
  BY <1>2, EnqueueLemma DEF RequestOptional
<1> HIDE DEF p
<1>5. GivesToWaiters(p)
  BY <1>4, Serves
<1>6. \A s \in Requests \ {r} : p.waiting[s] = pool.waiting[s]
  BY <1>2, <1>3 DEF Controllers
<1> QED BY <1>1, <1>3, <1>5, <1>6 DEF GivesToWaiters, PoolKeeps

\* A wakeup is received, or a grant accepted.
LEMMA Accepting ==
  ASSUME IInv, NEW r \in Requests
  PROVE  /\ TakeNotification(r) =>
              /\ IInv' /\ \A s \in Requests : PoolKeeps(s)
              /\ pool.pending[r] # NoLease /\ ~pool.waiting[r]
         /\ AcceptOptional(r) =>
              /\ IInv' /\ \A s \in Requests \ {r} : PoolKeeps(s)
              /\ pool.pending[r] \in Leases \ pool.chunks[r]
              /\ pool'.chunks[r] = pool.chunks[r] \cup {pool.pending[r]}
              /\ pool'.pending[r] = NoLease /\ ~pool'.waiting[r]
<1>1. pool \in Controllers /\ WakeInv(pool) /\ LeaseInv(pool)
  BY DEF IInv, PoolInv
<1>2. ASSUME TakeNotification(r)
      PROVE  /\ IInv' /\ \A s \in Requests : PoolKeeps(s)
             /\ pool.pending[r] # NoLease /\ ~pool.waiting[r]
  <2>1. IInv'
    BY <1>2, AcceptLemma
  <2>2. /\ pool'.chunks = pool.chunks /\ pool'.waiting = pool.waiting
        /\ pool'.pending = pool.pending
    BY <1>1, <1>2 DEF TakeNotification, Controllers
  <2> QED BY <1>1, <1>2, <2>1, <2>2 DEF TakeNotification, WakeInv, PoolKeeps
<1>3. ASSUME AcceptOptional(r)
      PROVE  /\ IInv' /\ \A s \in Requests \ {r} : PoolKeeps(s)
             /\ pool.pending[r] \in Leases \ pool.chunks[r]
             /\ pool'.chunks[r] = pool.chunks[r] \cup {pool.pending[r]}
             /\ pool'.pending[r] = NoLease /\ ~pool'.waiting[r]
  <2>1. IInv'
    BY <1>3, AcceptLemma
  <2>2. /\ pool'.chunks = [pool.chunks EXCEPT ![r] = @ \cup {pool.pending[r]}]
        /\ pool'.waiting = pool.waiting
        /\ pool'.pending = [pool.pending EXCEPT ![r] = NoLease]
    BY <1>1, <1>3 DEF AcceptOptional, Controllers
  <2>3. pool.pending[r] \in Leases \ pool.chunks[r] /\ ~pool.waiting[r]
    BY <1>1, <1>3 DEF AcceptOptional, LeaseInv, WakeInv, Controllers
  <2>4. /\ \A s \in Requests \ {r} : /\ pool'.chunks[s] = pool.chunks[s]
                                     /\ pool'.pending[s] = pool.pending[s]
        /\ pool'.chunks[r] = pool.chunks[r] \cup {pool.pending[r]}
        /\ pool'.pending[r] = NoLease
    BY <1>1, <2>2 DEF Controllers
  <2> QED BY <2>1, <2>2, <2>3, <2>4 DEF PoolKeeps
<1> QED BY <1>2, <1>3

\* A request is withdrawn, with the grant it may have.
LEMMA Cancelling ==
  ASSUME IInv, NEW r \in Requests, CancelRequest(r)
  PROVE  /\ IInv' /\ \A s \in Requests \ {r} : PoolKeeps(s)
         /\ pool'.chunks[r] = pool.chunks[r]
         /\ pool'.pending[r] = NoLease /\ ~pool'.waiting[r]
<1>1. pool \in Controllers /\ PoolInv(pool) /\ WakeInv(pool)
  BY DEF IInv, PoolInv
<1>2. CASE ~pool.waiting[r] /\ pool.pending[r] = NoLease
  <2>1. UNCHANGED <<pool, outstanding>>
    BY <1>2 DEF CancelRequest, poolVars
  <2>2. IInv'
    BY <2>1, NextLemma DEF vars
  <2> QED BY <1>2, <2>1, <2>2 DEF PoolKeeps
<1>3. CASE pool.pending[r] # NoLease /\ CancelOptional(r)
  <2>1. IInv'
    BY <1>3, CancelLemma
  <2>2. PICK p : p = ReclaimPending(pool, r)
    OBVIOUS
  <2>3. PoolInv(p) /\ Schedule(p)
    BY <1>1, <1>3, <2>2, ReclaimPendingLemma DEF CancelOptional
  <2>4. /\ p.chunks = pool.chunks /\ p.waiting = pool.waiting
        /\ p.pending = [pool.pending EXCEPT ![r] = NoLease]
    BY <1>1, <2>2 DEF ReclaimPending, ReleaseOwnedChunks, Controllers
  <2>5. GivesToWaiters(p)
    BY <2>3, Serves
  <2>6. ~pool.waiting[r]
    BY <1>1, <1>3 DEF WakeInv
  <2>7. p.pending[r] = NoLease /\ \A s \in Requests \ {r} : p.pending[s] = pool.pending[s]
    BY <1>1, <2>4 DEF Controllers
  <2> QED BY <2>1, <2>4, <2>5, <2>6, <2>7 DEF GivesToWaiters, PoolKeeps
<1>4. CASE pool.pending[r] = NoLease /\ pool.waiting[r] /\ CancelOptional(r)
  <2>1. IInv'
    BY <1>4, CancelLemma
  <2>2. pool' = RemoveWaiter(pool, r)
    BY <1>4 DEF CancelOptional
  <2>3. /\ pool'.chunks = pool.chunks /\ pool'.pending = pool.pending
        /\ pool'.waiting = [pool.waiting EXCEPT ![r] = FALSE]
    BY <1>1, <2>2 DEF RemoveWaiter, Dequeue, Controllers
  <2>4. ~pool'.waiting[r] /\ \A s \in Requests \ {r} : pool'.waiting[s] = pool.waiting[s]
    BY <1>1, <2>3 DEF Controllers
  <2> QED BY <1>4, <2>1, <2>3, <2>4 DEF PoolKeeps
<1> QED BY <1>2, <1>3, <1>4 DEF CancelRequest

\* A lease is given back by the one who holds it.
LEMMA Releasing ==
  ASSUME IInv, NEW r \in Requests, NEW l \in Leases, l \in pool.chunks[r],
         ReleaseOptional(r, l)
  PROVE  /\ IInv' /\ \A s \in Requests \ {r} : PoolKeeps(s)
         /\ ValidLease(pool, r, l)
         /\ pool'.chunks[r] = pool.chunks[r] \ {l}
         /\ pool'.waiting[r] => pool.waiting[r]
         /\ pool.pending[r] # NoLease => pool'.pending[r] # NoLease
         /\ pool'.pending[r] # NoLease => pool.pending[r] # NoLease \/ pool.waiting[r]
<1>1. pool \in Controllers /\ PoolInv(pool) /\ LeaseInv(pool)
  BY DEF IInv, PoolInv
<1>2. IInv'
  BY ReleaseLemma
<1>3. ValidLease(pool, r, l)
  BY <1>1 DEF LeaseInv, ValidLease
<1>4. PICK p : p = ReleaseAccepted(pool, r, {l})
  OBVIOUS
<1>5. PoolInv(p) /\ Schedule(p)
  <2>1. {l} \in SUBSET pool.chunks[r]
    OBVIOUS
  <2>2. PoolInv(p)
    BY <1>1, <1>4, <2>1, ReleaseAcceptedLemma
  <2> QED BY <1>3, <1>4, <2>2 DEF ReleaseOptional
<1>6. /\ p.waiting = pool.waiting /\ p.pending = pool.pending
      /\ p.chunks = [pool.chunks EXCEPT ![r] = @ \ {l}]
  BY <1>1, <1>4 DEF ReleaseAccepted, ReleaseOwnedChunks, Controllers
<1>7. p.chunks[r] = pool.chunks[r] \ {l}
      /\ \A s \in Requests \ {r} : p.chunks[s] = pool.chunks[s]
  BY <1>1, <1>6 DEF Controllers
<1>8. GivesToWaiters(p)
  BY <1>5, Serves
<1> QED BY <1>2, <1>3, <1>6, <1>7, <1>8 DEF GivesToWaiters, PoolKeeps

\* The registered request is closed: nothing of it is left.
LEMMA Closing ==
  ASSUME IInv, NEW r \in Requests, Close(r), pool.chunks[r] = {},
         ~pool.waiting[r], pool.pending[r] = NoLease
  PROVE  /\ IInv' /\ \A s \in Requests : PoolKeeps(s)
<1> DEFINE marked == [pool EXCEPT !.closed = @ \cup {r}]
           released == ReleaseAccepted(marked, r, {})
           left == [released EXCEPT !.active = @ \ {r}, !.notify[r] = 0]
           p == RecomputeTargets(left)
<1>1. IInv'
  BY CloseLemma
<1>2. pool \in Controllers /\ PoolInv(pool)
  BY DEF IInv, PoolInv
<1>3. /\ marked.waiting = pool.waiting /\ marked.pending = pool.pending
      /\ marked.chunks = pool.chunks /\ marked \in Controllers
      /\ marked.owner = pool.owner /\ marked.gen = pool.gen
      /\ marked.free = pool.free /\ marked.busy = pool.busy /\ marked.owned = pool.owned
      /\ marked.allocated = pool.allocated
      /\ marked.waiters = pool.waiters /\ marked.notify = pool.notify
  BY <1>2 DEF Controllers
<1>4. Schedule(Unregister(released, r))
  BY <1>3 DEF Close
<1>5. Unregister(released, r) = p
  BY DEF Unregister
<1>6. PoolInv(marked)
  BY <1>2, <1>3 DEF PoolInv, LeaseInv, CountInv, WakeInv, Busy, Owned
<1>7. PoolInv(released)
  <2> HIDE DEF marked
  <2>1. {} \in SUBSET marked.chunks[r]
    OBVIOUS
  <2> QED BY <1>6, <2>1, ReleaseAcceptedLemma
<1>8. released.waiting = pool.waiting /\ released.pending = pool.pending
      /\ \A s \in Requests : released.chunks[s] = pool.chunks[s]
  <2> HIDE DEF marked
  <2>1. /\ released.waiting = marked.waiting /\ released.pending = marked.pending
        /\ released.chunks = [marked.chunks EXCEPT ![r] = @ \ {}]
    BY <1>3 DEF ReleaseAccepted, ReleaseOwnedChunks, Controllers
  <2> QED BY <1>3, <2>1 DEF Controllers
<1>9. PoolInv(left) /\ left.waiting = pool.waiting /\ left.pending = pool.pending
      /\ left.chunks = released.chunks /\ left \in Controllers
  <2>1. released \in Controllers
    BY <1>7 DEF PoolInv
  <2>2. PICK q : q = released
    OBVIOUS
  <2>3. q \in Controllers /\ q.waiting[r] = FALSE /\ q.pending[r] = NoLease /\ PoolInv(q)
    <3>1. pool.waiting[r] = FALSE
      BY <1>2 DEF Controllers
    <3> QED BY <1>7, <1>8, <2>1, <2>2, <3>1
  <2>4. PICK g : g = [q EXCEPT !.active = @ \ {r}, !.notify[r] = 0]
    OBVIOUS
  <2>5. /\ g \in Controllers /\ g.owner = q.owner /\ g.gen = q.gen
        /\ g.chunks = q.chunks /\ g.pending = q.pending
        /\ g.free = q.free /\ g.busy = q.busy /\ g.owned = q.owned
        /\ g.allocated = q.allocated /\ g.waiting = q.waiting
        /\ g.waiters = q.waiters /\ g.notify = [q.notify EXCEPT ![r] = 0]
    BY <2>3, <2>4 DEF Controllers
  <2>6. \A s \in Requests : g.notify[s] \in {0, q.notify[s]}
    BY <2>3, <2>5 DEF Controllers
  <2>7. PoolInv(g)
    BY <2>3, <2>5, <2>6 DEF PoolInv, LeaseInv, CountInv, WakeInv, Busy, Owned
  <2> QED BY <1>8, <2>2, <2>4, <2>5, <2>7
<1>10. /\ PoolInv(p)
       /\ p.chunks = left.chunks /\ p.pending = left.pending /\ p.waiting = left.waiting
  <2> HIDE DEF left
  <2>1. PoolInv(p)
    BY <1>9, RecomputeTargetsLemma
  <2> QED BY <1>9, <2>1 DEF RecomputeTargets, Controllers
<1>11. GivesToWaiters(p)
  BY <1>4, <1>5, <1>10, Serves
<1> HIDE DEF p, left, released
<1> QED BY <1>1, <1>8, <1>9, <1>10, <1>11 DEF GivesToWaiters, PoolKeeps
-----------------------------------------------------------------------------
(* A step of one response leaves the others alone *)

\* The step is not one of s; its client may leave.
SameCopy(s) ==
  /\ producer'[s] = producer[s] /\ consumer'[s] = consumer[s] /\ queue'[s] = queue[s]
  /\ closing'[s] = closing[s] /\ baseReady'[s] = baseReady[s] /\ cancelled'[s] = cancelled[s]
  /\ (gone[s] => gone'[s]) /\ announced'[s] = announced[s] /\ received'[s] = received[s]
  /\ sent'[s] = sent[s] /\ ended'[s] = ended[s] /\ broken'[s] = broken[s]

\* The buffers in flight keep what was read into them.
MemoryKeeps(s) ==
  \A b \in Buffers : InFlight(s, b) => memory'[Place(s, b)] = memory[Place(s, b)]

\* The fields of a response have their types.
LEMMA Fields ==
  ASSUME Typed, NEW r \in Requests
  PROVE  /\ producer[r] \in ProducerRec /\ consumer[r] \in ConsumerRec
         /\ queue[r] \in Seq(Event) /\ Events(r) \in Seq(Event)
         /\ announced[r] \in Nat \cup {Unknown}
         /\ received[r] \in Nat /\ received[r] <= MaxBlocks
         /\ sent[r] \in Nat /\ sent[r] <= MaxBlocks
         /\ {closing[r], baseReady[r], cancelled[r], gone[r], shut[r], ended[r], broken[r]}
              \subseteq BOOLEAN
<1>1. producer[r] \in ProducerRec /\ consumer[r] \in ConsumerRec /\ queue[r] \in Seq(Event)
  BY DEF Typed
<1>2. consumer[r].drained \in Seq(Event)
  BY <1>1 DEF ConsumerRec
<1>3. Events(r) \in Seq(Event)
  BY <1>1, <1>2 DEF Events
<1>4. announced[r] \in Nat \cup {Unknown}
  BY MediaCopyAssumption DEF Typed
<1>5. /\ received[r] \in Nat /\ received[r] <= MaxBlocks
      /\ sent[r] \in Nat /\ sent[r] <= MaxBlocks
  BY MediaCopyAssumption DEF Typed
<1>6. /\ closing[r] \in BOOLEAN /\ baseReady[r] \in BOOLEAN /\ cancelled[r] \in BOOLEAN
      /\ gone[r] \in BOOLEAN /\ shut[r] \in BOOLEAN /\ ended[r] \in BOOLEAN
      /\ broken[r] \in BOOLEAN
  BY DEF Typed
<1> QED BY <1>1, <1>3, <1>4, <1>5, <1>6

\* While the consumer has met no failure the queue is what is in flight, and its
\* pieces are in buffers.
LEMMA Pieces ==
  ASSUME Typed, NEW r \in Requests, InStep(r), EventsSound(r), Flowing(r)
  PROVE  /\ ~closing[r] /\ Events(r) = queue[r]
         /\ \A i \in 1..Len(queue[r]) : queue[r][i].end = "open" =>
              queue[r][i].buf \in Buffers /\ InFlight(r, queue[r][i].buf)
         /\ \A i \in 1..Len(queue[r]) : i # 1 => queue[r][i - 1].end = "open"
<1>1. ~closing[r] /\ Events(r) = queue[r]
  BY DEF InStep, Flowing, Cleaning, Events
<1>2. queue[r] \in Seq(Event)
  BY Fields
<1>3. ASSUME NEW i \in 1..Len(queue[r]), queue[r][i].end = "open"
      PROVE  queue[r][i].buf \in Buffers /\ InFlight(r, queue[r][i].buf)
  <2>1. queue[r][i] \in Event
    BY <1>2
  <2> QED BY <1>1, <1>3, <2>1 DEF EventsSound, Event, InFlight
<1>4. ASSUME NEW i \in 1..Len(queue[r]), i # 1
      PROVE  queue[r][i - 1].end = "open"
  <2>1. i - 1 \in 1..Len(queue[r]) /\ i - 1 # Len(queue[r])
    BY <1>2, <1>4
  <2> QED BY <1>1, <2>1 DEF EventsSound
<1> QED BY <1>1, <1>3, <1>4

\* Where a piece begins does not change while the pieces stay in their buffers.
LEMMA SamePlaces ==
  ASSUME Typed, NEW s \in Requests, InStep(s), EventsSound(s), Flowing(s),
         queue'[s] = queue[s], Begin(s)' = Begin(s), MemoryKeeps(s)
  PROVE  /\ \A i \in 1..Len(queue[s]) : Before(s, i)' = Before(s, i)
         /\ producer[s].pc # "done" =>
              Before(s, Len(queue[s]) + 1)' = Before(s, Len(queue[s]) + 1)
<1>1. /\ \A i \in 1..Len(queue[s]) : queue[s][i].end = "open" =>
            queue[s][i].buf \in Buffers /\ InFlight(s, queue[s][i].buf)
      /\ \A i \in 1..Len(queue[s]) : i # 1 => queue[s][i - 1].end = "open"
      /\ Events(s) = queue[s]
  BY Pieces
<1>2. queue[s] \in Seq(Event)
  BY Fields
<1>3. \A i \in 1..Len(queue[s]) : queue[s][i].end = "open" =>
        Offset(s, queue[s][i].buf)' = Offset(s, queue[s][i].buf)
  BY <1>1 DEF MemoryKeeps, Offset, Place
<1>4. ASSUME NEW i \in 1..Len(queue[s]) + 1, i = 1 \/ queue[s][i - 1].end = "open"
      PROVE  Before(s, i)' = Before(s, i)
  <2>1. CASE i = 1
    BY <2>1 DEF Before
  <2>2. CASE i # 1
    <3>1. i - 1 \in 1..Len(queue[s])
      BY <1>2, <2>2
    <3> QED BY <1>3, <1>4, <2>2, <3>1 DEF Before
  <2> QED BY <2>1, <2>2
<1>5. \A i \in 1..Len(queue[s]) : Before(s, i)' = Before(s, i)
  <2>1. Len(queue[s]) \in Nat
    BY <1>2
  <2> QED BY <1>1, <1>4, <2>1
<1>6. ASSUME producer[s].pc # "done"
      PROVE  Before(s, Len(queue[s]) + 1)' = Before(s, Len(queue[s]) + 1)
  <2>1. Len(queue[s]) \in Nat
    BY <1>2
  <2>2. Len(queue[s]) = 0 \/ queue[s][Len(queue[s])].end = "open"
    BY <1>1, <1>6, <2>1 DEF EventsSound
  <2> QED BY <1>4, <2>1, <2>2
<1> QED BY <1>5, <1>6

\* The pieces in flight still follow one another when none is added or taken.
LEMMA StillContiguous ==
  ASSUME Typed, NEW s \in Requests, InStep(s), EventsSound(s), HandsSound(s), Contiguous(s),
         Flowing(s)' => Flowing(s) /\ Begin(s)' = Begin(s),
         queue'[s] = queue[s], MemoryKeeps(s),
         received'[s] = received[s], announced'[s] = announced[s],
         consumer'[s].pc = "write" => consumer'[s] = consumer[s] /\ sent'[s] = sent[s],
         producer'[s].pc = "publish" =>
           producer[s].pc = "publish" /\ producer'[s].buf = producer[s].buf,
         \/ producer'[s].pc \in Reading
         \/ producer'[s].pc \in {"publishEnd", "drop"} /\ producer'[s].end = "complete"
         => \/ producer[s].pc \in Reading
            \/ producer[s].pc \in {"publishEnd", "drop"} /\ producer[s].end = "complete"
  PROVE  Contiguous(s)'
<1> SUFFICES ASSUME Flowing(s)' PROVE Contiguous(s)'
  BY DEF Contiguous
<1>1. Flowing(s) /\ Begin(s)' = Begin(s)
  OBVIOUS
<1>2. /\ \A i \in 1..Len(queue[s]) : queue[s][i].end = "open" =>
            queue[s][i].buf \in Buffers /\ InFlight(s, queue[s][i].buf)
      /\ queue[s] \in Seq(Event)
  BY <1>1, Pieces, Fields
<1>3. /\ \A i \in 1..Len(queue[s]) : Before(s, i)' = Before(s, i)
      /\ producer[s].pc # "done" =>
           Before(s, Len(queue[s]) + 1)' = Before(s, Len(queue[s]) + 1)
  BY <1>1, SamePlaces
<1>4. \A b \in Buffers : InFlight(s, b) => /\ Offset(s, b)' = Offset(s, b)
                                           /\ \A n : Kept(s, b, n)' <=> Kept(s, b, n)
  BY DEF MemoryKeeps, Offset, Kept, Limit, Place
<1>5. consumer[s].buf # NoBuffer => consumer[s].buf \in Buffers /\ InFlight(s, consumer[s].buf)
  BY Fields DEF ConsumerRec, InFlight
<1>6. producer[s].buf # NoBuffer => producer[s].buf \in Buffers /\ InFlight(s, producer[s].buf)
  BY Fields DEF ProducerRec, InFlight
<1>7. consumer'[s].pc = "write" =>
        /\ Kept(s, consumer[s].buf, consumer[s].len)' /\ consumer'[s] = consumer[s]
        /\ Offset(s, consumer[s].buf)' = sent'[s]
  BY <1>1, <1>4, <1>5 DEF Contiguous, HandsSound
<1>8. \A i \in 1..Len(queue[s]) : queue[s][i].end = "open" =>
        Kept(s, queue[s][i].buf, queue[s][i].len)'
        /\ Offset(s, queue[s][i].buf)' = Before(s, i)'
  BY <1>1, <1>2, <1>3, <1>4 DEF Contiguous
<1>9. producer'[s].pc = "publish" =>
        Offset(s, producer[s].buf)' = Before(s, Len(queue[s]) + 1)'
  BY <1>1, <1>3, <1>4, <1>6 DEF Contiguous, HandsSound
<1>10. \/ producer'[s].pc \in Reading
       \/ producer'[s].pc \in {"publishEnd", "drop"} /\ producer'[s].end = "complete"
       => received'[s] = Before(s, Len(queue[s]) + 1)'
  BY <1>1, <1>3 DEF Contiguous, Reading, Asking
<1>11. \A i \in 1..Len(queue[s]) : queue[s][i].end = "complete" =>
         received'[s] = Before(s, i)'
  BY <1>1, <1>3 DEF Contiguous
<1> QED BY <1>7, <1>8, <1>9, <1>10, <1>11 DEF Contiguous

\* What was sound of a response still is after a step of another one.
LEMMA Bystander ==
  ASSUME Typed, NEW s \in Requests, CopySound(s),
         SameCopy(s), PoolKeeps(s), MemoryKeeps(s)
  PROVE  CopySound(s)'
<1>1. /\ InStep(s) /\ EventsSound(s) /\ HandsSound(s) /\ PoolSound(s)
      /\ Contiguous(s) /\ BodySound(s)
  BY DEF CopySound
<1>2. Events(s)' = Events(s) /\ \A b : InFlight(s, b)' <=> InFlight(s, b)
  BY DEF SameCopy, Events, InFlight
<1>3. InStep(s)'
  BY <1>1 DEF SameCopy, InStep
<1>4. EventsSound(s)'
  BY <1>1, <1>2 DEF SameCopy, EventsSound
<1>5. HandsSound(s)'
  BY <1>1, <1>2 DEF SameCopy, HandsSound
<1>6. PoolSound(s)'
  BY <1>1, <1>2 DEF SameCopy, PoolSound, PoolKeeps, producerGone, Asking
<1>7. \A b \in Buffers : InFlight(s, b) => /\ Offset(s, b)' = Offset(s, b)
                                           /\ \A n : Kept(s, b, n)' <=> Kept(s, b, n)
  BY DEF SameCopy, MemoryKeeps, Offset, Kept, Limit, Place
<1>8. Contiguous(s)'
  BY <1>1, StillContiguous DEF SameCopy, Flowing, Begin
<1>9. BodySound(s)'
  <2>1. producer[s].pc = "publish" => /\ producer[s].buf \in Buffers
                                      /\ InFlight(s, producer[s].buf)
    BY <1>1, Fields DEF HandsSound, InFlight, ProducerRec
  <2> QED BY <1>1, <1>7, <2>1 DEF SameCopy, BodySound, Limit, WholeBody
<1> QED BY <1>3, <1>4, <1>5, <1>6, <1>8, <1>9 DEF CopySound
-----------------------------------------------------------------------------
(* The steps of a response *)

\* A step of r is known by what it does to r.
LEMMA OneStep ==
  ASSUME CopyInv, NEW r \in Requests, IInv', Typed', CopySound(r)',
         \A s \in Requests \ {r} : SameCopy(s) /\ PoolKeeps(s) /\ MemoryKeeps(s)
  PROVE  CopyInv'
<1>1. ASSUME NEW s \in Requests \ {r}
      PROVE  CopySound(s)'
  BY Bystander, <1>1 DEF CopyInv
<1> QED BY <1>1 DEF CopyInv

\* Disconnect
LEMMA DisconnectStep ==
  ASSUME CopyInv, NEW r \in Requests, Disconnect(r)
  PROVE  CopyInv'
<1>1. IInv'
  <2>1. UNCHANGED vars
    BY DEF Disconnect, poolVars, vars
  <2> QED BY <2>1, NextLemma DEF CopyInv
<1>2. Typed'
  BY DEF CopyInv, Typed, Disconnect
<1>3. \A s \in Requests : SameCopy(s) /\ PoolKeeps(s) /\ MemoryKeeps(s)
  <2>1. \A s \in Requests : gone[s] => gone'[s]
    BY DEF CopyInv, Typed, Disconnect
  <2> QED BY <2>1 DEF SameCopy, PoolKeeps, MemoryKeeps, Place, Disconnect, poolVars
<1>4. CopySound(r)'
  BY <1>3, Bystander DEF CopyInv
<1> QED BY <1>1, <1>2, <1>3, <1>4, OneStep

\* Start
LEMMA StartStep ==
  ASSUME CopyInv, NEW r \in Requests, Start(r)
  PROVE  CopyInv'
<1>1. IInv' /\ \A s \in Requests : PoolKeeps(s)
  BY Registering DEF CopyInv, Start
<1>2. PICK n \in Lengths : announced' = [announced EXCEPT ![r] = n]
  BY DEF Start
<1>3. n \in Nat \cup {Unknown}
  BY MediaCopyAssumption
<1>4. PICK p \in ProducerRec : p = producer[r]
  BY DEF CopyInv, Typed
<1>5. PICK c \in ConsumerRec : c = consumer[r]
  BY DEF CopyInv, Typed
<1>6. PICK q : q = [p EXCEPT !.pc = "read", !.buf = Base]
  OBVIOUS
<1>7. PICK d : d = [c EXCEPT !.pc = "next"]
  OBVIOUS
<1>8. /\ q \in ProducerRec /\ q.pc = "read" /\ q.buf = Base /\ q.len = p.len /\ q.end = p.end
      /\ d \in ConsumerRec /\ d.pc = "next" /\ d.buf = c.buf /\ d.end = c.end
      /\ d.drained = c.drained
  BY <1>6, <1>7 DEF ProducerRec, ConsumerRec, Buffers
<1>9. /\ producer' = [producer EXCEPT ![r] = q] /\ consumer' = [consumer EXCEPT ![r] = d]
  BY <1>4, <1>5, <1>6, <1>7 DEF Start
<1>10. Typed'
  <2>1. /\ producer' \in [Requests -> ProducerRec] /\ consumer' \in [Requests -> ConsumerRec]
        /\ announced' \in [Requests -> Lengths \cup {Unknown}]
    BY <1>2, <1>8, <1>9 DEF CopyInv, Typed
  <2> QED BY <2>1 DEF CopyInv, Typed, Start
<1>11. \A s \in Requests \ {r} : SameCopy(s) /\ MemoryKeeps(s)
  <2>1. \A s \in Requests : MemoryKeeps(s)
    BY DEF MemoryKeeps, Place, Start
  <2>2. ASSUME NEW s \in Requests \ {r}
        PROVE  producer'[s] = producer[s] /\ consumer'[s] = consumer[s]
               /\ announced'[s] = announced[s]
    BY <1>2, <1>9, <2>2 DEF CopyInv, Typed
  <2> QED BY <2>1, <2>2 DEF SameCopy, Start
<1>12. /\ producer'[r] = q /\ consumer'[r] = d /\ announced'[r] = n
       /\ queue'[r] = queue[r] /\ closing'[r] = closing[r] /\ baseReady'[r] = baseReady[r]
       /\ cancelled'[r] = cancelled[r] /\ received'[r] = received[r] /\ sent'[r] = sent[r]
       /\ ended'[r] = ended[r] /\ broken'[r] = broken[r] /\ c.pc = "idle"
  BY <1>2, <1>5, <1>9 DEF Start, CopyInv, Typed
<1>13. InStep(r) /\ EventsSound(r) /\ HandsSound(r) /\ PoolSound(r)
  BY DEF CopyInv, CopySound
<1>14. /\ p.pc = "idle" /\ queue[r] = <<>> /\ ~baseReady[r] /\ ~ended[r] /\ ~closing[r]
       /\ received[r] = 0 /\ sent[r] = 0 /\ c.drained = <<>> /\ c.end = "open"
  BY <1>4, <1>5, <1>12, <1>13 DEF InStep, Cleaning
<1>15. Events(r) = <<>> /\ Events(r)' = <<>>
  BY <1>12, <1>14 DEF Events
<1>16. p.buf = NoBuffer /\ c.buf = NoBuffer
  BY <1>4, <1>5, <1>12, <1>13, <1>14 DEF HandsSound
<1>17. InStep(r)'
  BY <1>8, <1>12, <1>14 DEF InStep, Cleaning
<1>18. EventsSound(r)'
  BY <1>15 DEF EventsSound
<1>19. HandsSound(r)'
  BY <1>8, <1>12, <1>14, <1>15, <1>16, MediaCopyAssumption DEF HandsSound
<1>20. PoolSound(r)'
  <2>1. \A l \in Leases : InFlight(r, l)' <=> InFlight(r, l)
    BY <1>4, <1>5, <1>8, <1>12, <1>15, <1>16, MediaCopyAssumption DEF InFlight
  <2> QED BY <1>1, <1>4, <1>8, <1>12, <1>13, <1>14, <2>1 DEF PoolSound, PoolKeeps, Asking
<1>21. Contiguous(r)'
  BY <1>8, <1>12, <1>14 DEF Contiguous, Before, Begin
<1>22. BodySound(r)'
  BY <1>3, <1>8, <1>12, <1>14 DEF BodySound, Limit, Reading, Asking
<1>23. CopySound(r)'
  BY <1>17, <1>18, <1>19, <1>20, <1>21, <1>22 DEF CopySound
<1> QED BY <1>1, <1>10, <1>11, <1>23, OneStep

\* The controller is not called.
LEMMA PoolStill ==
  ASSUME IInv, UNCHANGED poolVars
  PROVE  IInv' /\ pool' = pool /\ \A s \in Requests : PoolKeeps(s)
<1>1. UNCHANGED vars
  BY DEF poolVars, vars
<1> QED BY <1>1, NextLemma DEF PoolKeeps, vars

\* One of the two goes on to its next step.
LEMMA ConsumerGoes ==
  ASSUME Typed, NEW r \in Requests, NEW x, [consumer[r] EXCEPT !.pc = x] \in ConsumerRec,
         consumer' = [consumer EXCEPT ![r].pc = x]
  PROVE  /\ consumer' \in [Requests -> ConsumerRec]
         /\ \A s \in Requests \ {r} : consumer'[s] = consumer[s]
         /\ consumer'[r].pc = x /\ consumer'[r].buf = consumer[r].buf
         /\ consumer'[r].len = consumer[r].len /\ consumer'[r].end = consumer[r].end
         /\ consumer'[r].drained = consumer[r].drained
<1>1. consumer \in [Requests -> ConsumerRec]
  BY DEF Typed
<1>2. PICK c \in ConsumerRec : c = consumer[r]
  BY <1>1
<1>3. PICK d \in ConsumerRec : d = [c EXCEPT !.pc = x]
  BY <1>2
<1>4. /\ d.pc = x /\ d.buf = c.buf /\ d.len = c.len /\ d.end = c.end /\ d.drained = c.drained
  BY <1>3 DEF ConsumerRec
<1>5. consumer' = [consumer EXCEPT ![r] = d]
  BY <1>2, <1>3
<1> QED BY <1>1, <1>2, <1>4, <1>5

\* (the producer)
LEMMA ProducerGoes ==
  ASSUME Typed, NEW r \in Requests, NEW x, [producer[r] EXCEPT !.pc = x] \in ProducerRec,
         producer' = [producer EXCEPT ![r].pc = x]
  PROVE  /\ producer' \in [Requests -> ProducerRec]
         /\ \A s \in Requests \ {r} : producer'[s] = producer[s]
         /\ producer'[r].pc = x /\ producer'[r].buf = producer[r].buf
         /\ producer'[r].len = producer[r].len /\ producer'[r].end = producer[r].end
<1>1. producer \in [Requests -> ProducerRec]
  BY DEF Typed
<1>2. PICK p \in ProducerRec : p = producer[r]
  BY <1>1
<1>3. PICK q \in ProducerRec : q = [p EXCEPT !.pc = x]
  BY <1>2
<1>4. q.pc = x /\ q.buf = p.buf /\ q.len = p.len /\ q.end = p.end
  BY <1>3 DEF ProducerRec
<1>5. producer' = [producer EXCEPT ![r] = q]
  BY <1>2, <1>3
<1> QED BY <1>1, <1>2, <1>4, <1>5

\* The clean-up: nothing is written any more, the events are taken over.
LEMMA CleaningKeeps ==
  ASSUME Typed, NEW r \in Requests, CopySound(r),
         producer'[r] = producer[r], memory' = memory, ended' = ended,
         received' = received, sent' = sent, announced' = announced,
         Events(r)' = Events(r), ~Flowing(r)',
         queue'[r] \in {queue[r], <<>>},
         baseReady'[r] = baseReady[r],
         consumer'[r].buf = consumer[r].buf,
         consumer'[r].end \in {consumer[r].end, "failed"},
         consumer[r].pc \notin {"write", "return"}, consumer'[r].pc \notin {"write", "return"}
  PROVE  /\ EventsSound(r)' /\ HandsSound(r)' /\ Contiguous(r)' /\ BodySound(r)'
         /\ \A b : InFlight(r, b)' <=> InFlight(r, b)
<1>1. EventsSound(r) /\ HandsSound(r) /\ BodySound(r)
  BY DEF CopySound
<1>2. \A b : InFlight(r, b)' <=> InFlight(r, b)
  BY DEF InFlight
<1>3. EventsSound(r)'
  BY <1>1 DEF EventsSound
<1>4. HandsSound(r)'
  BY <1>1, <1>2 DEF HandsSound
<1>5. Contiguous(r)'
  BY DEF Contiguous
<1>6. BodySound(r)'
  BY <1>1 DEF BodySound, Kept, Offset, Limit, WholeBody, Place
<1> QED BY <1>2, <1>3, <1>4, <1>5, <1>6

\* CloseQueue
LEMMA CloseQueueStep ==
  ASSUME CopyInv, NEW r \in Requests, CloseQueue(r)
  PROVE  CopyInv'
<1>1. Typed /\ CopySound(r) /\ IInv
  BY DEF CopyInv
<1>2. IInv' /\ pool' = pool /\ \A s \in Requests : PoolKeeps(s)
  BY <1>1, PoolStill DEF CloseQueue
<1>3. PICK c \in ConsumerRec : c = consumer[r]
  BY <1>1 DEF Typed
<1>4. PICK e \in Seq(Event) : e = queue[r]
  BY <1>1 DEF Typed
<1>5. PICK d : d = [c EXCEPT !.drained = e, !.pc = "cancel"]
  OBVIOUS
<1>6. /\ d \in ConsumerRec /\ d.pc = "cancel" /\ d.buf = c.buf /\ d.end = c.end
      /\ d.drained = e
  BY <1>5 DEF ConsumerRec
<1>7. consumer' = [consumer EXCEPT ![r] = d]
  BY <1>3, <1>4, <1>5 DEF CloseQueue
<1>8. Typed'
  <2>1. consumer' \in [Requests -> ConsumerRec] /\ queue' \in [Requests -> Seq(Event)]
    BY <1>1, <1>6, <1>7 DEF Typed, CloseQueue
  <2> QED BY <1>1, <2>1 DEF Typed, CloseQueue
<1>9. \A s \in Requests \ {r} : SameCopy(s) /\ MemoryKeeps(s)
  <2>1. \A s \in Requests : MemoryKeeps(s)
    BY DEF MemoryKeeps, Place, CloseQueue
  <2>2. ASSUME NEW s \in Requests \ {r}
        PROVE  consumer'[s] = consumer[s] /\ queue'[s] = queue[s] /\ closing'[s] = closing[s]
    BY <1>1, <1>7, <2>2 DEF Typed, CloseQueue
  <2> QED BY <2>1, <2>2 DEF SameCopy, CloseQueue
<1>10. consumer'[r] = d /\ queue'[r] = <<>> /\ closing'[r] /\ c.pc = "stop"
  BY <1>1, <1>3, <1>7 DEF CloseQueue, Typed
<1>11. ~closing[r] /\ InStep(r) /\ PoolSound(r)
  BY <1>1, <1>3, <1>10 DEF CopySound, InStep, Cleaning
<1>12. Events(r)' = Events(r)
  BY <1>4, <1>6, <1>10, <1>11 DEF Events
<1>13. InStep(r)'
  BY <1>3, <1>6, <1>10, <1>11 DEF InStep, Cleaning, CloseQueue
<1>14. /\ EventsSound(r)' /\ HandsSound(r)' /\ Contiguous(r)' /\ BodySound(r)'
       /\ \A b : InFlight(r, b)' <=> InFlight(r, b)
  BY <1>1, <1>3, <1>6, <1>10, <1>12, CleaningKeeps DEF CloseQueue, Flowing
<1>15. PoolSound(r)'
  BY <1>2, <1>11, <1>14 DEF PoolSound, producerGone, CloseQueue
<1>16. CopySound(r)'
  BY <1>13, <1>14, <1>15 DEF CopySound
<1> QED BY <1>2, <1>8, <1>9, <1>16, OneStep

\* CancelProducer, CloseSource, Join
LEMMA CleanupSteps ==
  ASSUME CopyInv, NEW r \in Requests, CancelProducer(r) \/ CloseSource(r) \/ Join(r)
  PROVE  CopyInv'
<1> DEFINE To(x) == consumer' = [consumer EXCEPT ![r].pc = x]
<1>1. Typed /\ CopySound(r) /\ IInv
  BY DEF CopyInv
<1>2. IInv' /\ pool' = pool /\ \A s \in Requests : PoolKeeps(s)
  BY <1>1, PoolStill DEF CancelProducer, CloseSource, Join
<1>3. PICK c \in ConsumerRec : c = consumer[r]
  BY <1>1 DEF Typed
<1>4. PICK x \in {"cancelRequest", "join", "drain"} :
        /\ To(x)
        /\ x = "cancelRequest" => c.pc = "cancel" /\ cancelled' = [cancelled EXCEPT ![r] = TRUE]
        /\ x = "join" => c.pc = "closeSource" /\ cancelled' = cancelled
        /\ x = "drain" => /\ c.pc = "join" /\ cancelled' = cancelled
                          /\ producer[r].pc = "done"
  BY <1>3 DEF CancelProducer, CloseSource, Join
<1>5. [c EXCEPT !.pc = x] \in ConsumerRec
  BY DEF ConsumerRec
<1>6. /\ consumer' \in [Requests -> ConsumerRec]
      /\ \A s \in Requests \ {r} : consumer'[s] = consumer[s]
      /\ consumer'[r].pc = x /\ consumer'[r].buf = c.buf
      /\ consumer'[r].end = c.end /\ consumer'[r].drained = c.drained
  <2>1. consumer' = [consumer EXCEPT ![r].pc = x]
    BY <1>4
  <2> QED BY <1>1, <1>3, <1>5, <2>1, ConsumerGoes
<1>7. /\ UNCHANGED <<memory, producer, queue, signal, closing, baseReady, gone, announced,
                     received, sent, ended, broken>>
      /\ shut' \in [Requests -> BOOLEAN] /\ cancelled' \in [Requests -> BOOLEAN]
      /\ \A s \in Requests \ {r} : cancelled'[s] = cancelled[s]
      /\ x = "cancelRequest" \/ cancelled[r] => cancelled'[r]
  BY <1>1, <1>4 DEF CancelProducer, CloseSource, Join, Typed
<1>8. Typed'
  BY <1>1, <1>6, <1>7 DEF Typed
<1>9. \A s \in Requests \ {r} : SameCopy(s) /\ MemoryKeeps(s)
  BY <1>6, <1>7 DEF SameCopy, MemoryKeeps, Place
<1>10. InStep(r) /\ PoolSound(r)
  BY <1>1 DEF CopySound
<1>11. Events(r)' = Events(r)
  BY <1>3, <1>6, <1>7 DEF Events
<1>12. InStep(r)'
  BY <1>3, <1>4, <1>6, <1>7, <1>10 DEF InStep, Cleaning
<1>13. /\ EventsSound(r)' /\ HandsSound(r)' /\ Contiguous(r)' /\ BodySound(r)'
       /\ \A b : InFlight(r, b)' <=> InFlight(r, b)
  BY <1>1, <1>3, <1>4, <1>6, <1>7, <1>11, CleaningKeeps DEF Flowing
<1>14. PoolSound(r)'
  BY <1>1, <1>2, <1>7, <1>10, <1>13 DEF PoolSound, producerGone, Typed
<1>15. CopySound(r)'
  BY <1>12, <1>13, <1>14 DEF CopySound
<1> QED BY <1>2, <1>8, <1>9, <1>15, OneStep

\* A lease that is not in flight is not held; when the copy is over nothing is.
LEMMA NothingHeld ==
  ASSUME CopyInv, NEW r \in Requests, consumer[r].pc = "drain", consumer[r].drained = <<>>
  PROVE  pool.chunks[r] = {} /\ ~pool.waiting[r] /\ pool.pending[r] = NoLease
<1>1. Typed /\ InStep(r) /\ HandsSound(r) /\ PoolSound(r)
  BY DEF CopyInv, CopySound
<1>2. producer[r].pc = "done" /\ closing[r]
  BY <1>1 DEF InStep, Cleaning
<1>3. Events(r) = <<>>
  BY <1>2 DEF Events
<1>4. consumer[r].buf = NoBuffer /\ producer[r].buf \in {NoBuffer, Base}
  BY <1>1, <1>2 DEF HandsSound
<1>5. \A l \in Leases : ~InFlight(r, l)
  BY <1>3, <1>4, MediaCopyAssumption DEF InFlight
<1>6. pool.chunks[r] \subseteq Leases
  BY DEF CopyInv, IInv, PoolInv, Controllers
<1> QED BY <1>1, <1>2, <1>5, <1>6 DEF PoolSound, Asking

\* CleanRequest
LEMMA CleanRequestStep ==
  ASSUME CopyInv, NEW r \in Requests, CleanRequest(r)
  PROVE  CopyInv'
<1>1. Typed /\ CopySound(r) /\ IInv
  BY DEF CopyInv
<1>2. /\ IInv' /\ \A s \in Requests \ {r} : PoolKeeps(s)
      /\ pool'.chunks[r] = pool.chunks[r]
      /\ pool'.pending[r] = NoLease /\ ~pool'.waiting[r]
  BY <1>1, Cancelling DEF CleanRequest
<1>3. PICK c \in ConsumerRec : c = consumer[r]
  BY <1>1 DEF Typed
<1>4. [c EXCEPT !.pc = "closeSource"] \in ConsumerRec
  BY DEF ConsumerRec
<1>5. /\ consumer' \in [Requests -> ConsumerRec]
      /\ \A s \in Requests \ {r} : consumer'[s] = consumer[s]
      /\ consumer'[r].pc = "closeSource" /\ consumer'[r].buf = c.buf
      /\ consumer'[r].end = c.end /\ consumer'[r].drained = c.drained
  BY <1>1, <1>3, <1>4, ConsumerGoes DEF CleanRequest
<1>6. /\ UNCHANGED <<memory, producer, queue, signal, closing, baseReady, cancelled, gone,
                     shut, announced, received, sent, ended, broken>>
      /\ c.pc = "cancelRequest"
  BY <1>3 DEF CleanRequest
<1>7. Typed'
  BY <1>1, <1>5, <1>6 DEF Typed
<1>8. \A s \in Requests \ {r} : SameCopy(s) /\ MemoryKeeps(s)
  BY <1>5, <1>6 DEF SameCopy, MemoryKeeps, Place
<1>9. InStep(r) /\ PoolSound(r)
  BY <1>1 DEF CopySound
<1>10. Events(r)' = Events(r)
  BY <1>3, <1>5, <1>6 DEF Events
<1>11. InStep(r)'
  BY <1>3, <1>5, <1>6, <1>9 DEF InStep, Cleaning
<1>12. /\ EventsSound(r)' /\ HandsSound(r)' /\ Contiguous(r)' /\ BodySound(r)'
       /\ \A b : InFlight(r, b)' <=> InFlight(r, b)
  BY <1>1, <1>3, <1>5, <1>6, <1>10, CleaningKeeps DEF Flowing
<1>13. cancelled[r]
  BY <1>3, <1>6, <1>9 DEF InStep, Cleaning
<1>14. PoolSound(r)'
  BY <1>2, <1>6, <1>9, <1>12, <1>13 DEF PoolSound, producerGone
<1>15. CopySound(r)'
  BY <1>11, <1>12, <1>14 DEF CopySound
<1> QED BY <1>2, <1>7, <1>8, <1>15, OneStep

\* Finish
LEMMA FinishStep ==
  ASSUME CopyInv, NEW r \in Requests, Finish(r)
  PROVE  /\ CopyInv'
         /\ consumer'[r].pc = "done" /\ consumer'[r].end = consumer[r].end
         /\ \A s \in Requests \ {r} : consumer'[s] = consumer[s]
<1>1. Typed /\ CopySound(r) /\ IInv
  BY DEF CopyInv
<1>2. IInv' /\ \A s \in Requests : PoolKeeps(s)
  BY <1>1, NothingHeld, Closing DEF Finish
<1>3. PICK c \in ConsumerRec : c = consumer[r]
  BY <1>1 DEF Typed
<1>4. PICK d : d = [c EXCEPT !.pc = "done"]
  OBVIOUS
<1>5. InStep(r) /\ PoolSound(r)
  BY <1>1 DEF CopySound
<1>6. ~broken[r]
  BY <1>5 DEF PoolSound
<1>7. consumer' = [consumer EXCEPT ![r] = d]
  <2>1. d = [c EXCEPT !.pc = "done", !.end = c.end]
    BY <1>4 DEF ConsumerRec
  <2> QED BY <1>3, <1>6, <2>1 DEF Finish
<1>8. /\ d \in ConsumerRec /\ d.pc = "done" /\ d.buf = c.buf /\ d.end = c.end
      /\ d.drained = c.drained
  BY <1>4 DEF ConsumerRec
<1>9. /\ consumer' \in [Requests -> ConsumerRec] /\ consumer'[r] = d
      /\ \A s \in Requests \ {r} : consumer'[s] = consumer[s]
  BY <1>1, <1>7, <1>8 DEF Typed
<1>10. /\ UNCHANGED <<memory, producer, queue, signal, closing, baseReady, cancelled, gone,
                      shut, announced, received, sent, ended, broken>>
       /\ c.pc = "drain" /\ c.drained = <<>>
  BY <1>3 DEF Finish
<1>11. Typed'
  BY <1>1, <1>9, <1>10 DEF Typed
<1>12. \A s \in Requests \ {r} : SameCopy(s) /\ MemoryKeeps(s)
  BY <1>9, <1>10 DEF SameCopy, MemoryKeeps, Place
<1>13. Events(r)' = Events(r)
  BY <1>3, <1>8, <1>9, <1>10 DEF Events
<1>14. InStep(r)'
  BY <1>3, <1>5, <1>8, <1>9, <1>10 DEF InStep, Cleaning
<1>15. /\ EventsSound(r)' /\ HandsSound(r)' /\ Contiguous(r)' /\ BodySound(r)'
       /\ \A b : InFlight(r, b)' <=> InFlight(r, b)
  BY <1>1, <1>3, <1>8, <1>9, <1>10, <1>13, CleaningKeeps DEF Flowing
<1>16. PoolSound(r)'
  BY <1>2, <1>5, <1>10, <1>15 DEF PoolSound, PoolKeeps, producerGone, Asking
<1>17. CopySound(r)'
  BY <1>14, <1>15, <1>16 DEF CopySound
<1>18. CopyInv'
  BY <1>2, <1>11, <1>12, <1>17, OneStep
<1> QED BY <1>3, <1>8, <1>9, <1>18

\* The consumer finds nothing, or sleeps: the events stay where they are.
LEMMA IdleKeeps ==
  ASSUME Typed, NEW r \in Requests, CopySound(r),
         UNCHANGED <<memory, producer, queue, closing, baseReady, cancelled, gone, shut,
                     announced, received, sent, ended, broken>>,
         UNCHANGED pool,
         consumer[r].pc \in {"next", "sleep"}, consumer'[r].pc \in {"next", "sleep", "stop"},
         consumer'[r].buf = consumer[r].buf, consumer'[r].drained = consumer[r].drained,
         consumer'[r].end = IF consumer'[r].pc = "stop" THEN "failed" ELSE consumer[r].end
  PROVE  CopySound(r)'
<1>1. /\ InStep(r) /\ EventsSound(r) /\ HandsSound(r) /\ PoolSound(r)
      /\ Contiguous(r) /\ BodySound(r)
  BY DEF CopySound
<1>2. Events(r)' = Events(r)
  BY DEF Events
<1>3. \A b : InFlight(r, b)' <=> InFlight(r, b)
  BY <1>2 DEF InFlight
<1>4. InStep(r)'
  BY <1>1 DEF InStep, Cleaning
<1>5. EventsSound(r)'
  BY <1>1, <1>2 DEF EventsSound
<1>6. HandsSound(r)'
  BY <1>1, <1>2, <1>3 DEF HandsSound
<1>7. PoolSound(r)'
  BY <1>1, <1>3 DEF PoolSound, producerGone
<1>8. Contiguous(r)'
  <2>1. MemoryKeeps(r)
    BY DEF MemoryKeeps, Place
  <2>2. Flowing(r)' => Flowing(r) /\ Begin(r)' = Begin(r)
    BY DEF Flowing, Begin
  <2> QED BY <1>1, <2>1, <2>2, StillContiguous
<1>9. BodySound(r)'
  BY <1>1 DEF BodySound, Kept, Offset, Limit, WholeBody, Place
<1> QED BY <1>4, <1>5, <1>6, <1>7, <1>8, <1>9 DEF CopySound

\* Sleep
LEMMA SleepStep ==
  ASSUME CopyInv, NEW r \in Requests, Sleep(r)
  PROVE  CopyInv'
<1>1. Typed /\ CopySound(r) /\ IInv
  BY DEF CopyInv
<1>2. IInv' /\ pool' = pool /\ \A s \in Requests : PoolKeeps(s)
  BY <1>1, PoolStill DEF Sleep
<1>3. PICK c \in ConsumerRec : c = consumer[r]
  BY <1>1 DEF Typed
<1>4. PICK d : /\ consumer' = [consumer EXCEPT ![r] = d]
               /\ \/ d = [c EXCEPT !.end = "failed", !.pc = "stop"]
                  \/ d = [c EXCEPT !.pc = "next"]
  BY <1>3 DEF Sleep, Select
<1>5. /\ d \in ConsumerRec /\ d.pc \in {"stop", "next"} /\ d.buf = c.buf
      /\ d.end = IF d.pc = "stop" THEN "failed" ELSE c.end
      /\ d.drained = c.drained
  BY <1>4 DEF ConsumerRec, Terminals
<1>6. /\ consumer' \in [Requests -> ConsumerRec] /\ consumer'[r] = d
      /\ \A s \in Requests \ {r} : consumer'[s] = consumer[s]
  BY <1>1, <1>4, <1>5 DEF Typed
<1>7. /\ UNCHANGED <<memory, producer, queue, closing, baseReady, cancelled, gone,
                     shut, announced, received, sent, ended, broken>>
      /\ c.pc = "sleep" /\ signal' \in [Requests -> BOOLEAN]
  BY <1>1, <1>3 DEF Sleep, Typed
<1>8. Typed'
  BY <1>1, <1>6, <1>7 DEF Typed
<1>9. \A s \in Requests \ {r} : SameCopy(s) /\ MemoryKeeps(s)
  BY <1>6, <1>7 DEF SameCopy, MemoryKeeps, Place
<1>10. CopySound(r)'
  BY <1>1, <1>2, <1>3, <1>5, <1>6, <1>7, IdleKeeps
<1> QED BY <1>2, <1>8, <1>9, <1>10, OneStep

\* The first event is taken off a list of events.
LEMMA Taking ==
  ASSUME NEW e \in Seq(Event), e # <<>>
  PROVE  /\ Tail(e) \in Seq(Event) /\ Len(Tail(e)) = Len(e) - 1 /\ Len(e) \in Nat \ {0}
         /\ Head(e) = e[1] /\ e[1] \in Event
         /\ \A i \in 1..Len(Tail(e)) : i + 1 \in 1..Len(e) /\ Tail(e)[i] = e[i + 1]
         /\ \A i \in 1..Len(e) : i # 1 => /\ i - 1 \in 1..Len(Tail(e))
                                          /\ Tail(e)[i - 1] = e[i]
<1>1. Len(e) \in Nat \ {0} /\ Tail(e) \in Seq(Event) /\ Len(Tail(e)) = Len(e) - 1
      /\ Head(e) = e[1] /\ e[1] \in Event
  OBVIOUS
<1>2. \A i \in 1..Len(Tail(e)) : i + 1 \in 1..Len(e) /\ Tail(e)[i] = e[i + 1]
  BY <1>1
<1>3. ASSUME NEW i \in 1..Len(e), i # 1
      PROVE  i - 1 \in 1..Len(Tail(e)) /\ Tail(e)[i - 1] = e[i]
  <2>1. i - 1 \in 1..Len(Tail(e))
    BY <1>1, <1>3
  <2>2. Tail(e)[i - 1] = e[(i - 1) + 1]
    BY <1>2, <2>1
  <2> QED BY <2>1, <2>2
<1> QED BY <1>1, <1>2, <1>3

\* The consumer receives a piece: it is the next one, and the others follow it.
LEMMA ReceivesPiece ==
  ASSUME Typed, NEW r \in Requests, CopySound(r),
         UNCHANGED <<memory, producer, closing, baseReady, cancelled, gone, shut,
                     announced, received, sent, ended, broken>>,
         UNCHANGED pool,
         queue[r] # <<>>, queue'[r] = Tail(queue[r]), queue[r][1].end = "open",
         consumer[r].pc = "next", consumer'[r].pc = "write",
         consumer'[r].buf = queue[r][1].buf, consumer'[r].len = queue[r][1].len,
         consumer'[r].end = consumer[r].end, consumer'[r].drained = consumer[r].drained
  PROVE  CopySound(r)'
<1>1. /\ InStep(r) /\ EventsSound(r) /\ HandsSound(r) /\ PoolSound(r)
      /\ Contiguous(r) /\ BodySound(r)
  BY DEF CopySound
<1>2. PICK e \in Seq(Event) : e = queue[r]
  BY DEF Typed
<1>3. PICK f : f = Tail(e)
  OBVIOUS
<1>4. /\ f \in Seq(Event) /\ Len(f) = Len(e) - 1 /\ Len(e) \in Nat \ {0}
      /\ e[1] \in Event
      /\ \A i \in 1..Len(f) : i + 1 \in 1..Len(e) /\ f[i] = e[i + 1]
      /\ \A i \in 1..Len(e) : i # 1 => i - 1 \in 1..Len(f) /\ f[i - 1] = e[i]
  BY <1>2, <1>3, Taking
<1>5. PICK d : d = consumer'[r]
  OBVIOUS
<1>6. /\ d = consumer'[r] /\ d.pc = "write" /\ d.buf = e[1].buf /\ d.len = e[1].len
      /\ d.end = consumer[r].end /\ d.drained = consumer[r].drained
  BY <1>2, <1>5
<1>7. e = queue[r] /\ f = queue'[r] /\ e[1].end = "open"
  BY <1>2, <1>3
<1>8. ~closing[r] /\ Events(r) = e /\ Events(r)' = f /\ consumer[r].buf = NoBuffer
  BY <1>1, <1>7 DEF InStep, Cleaning, Events, HandsSound
<1>9. /\ e[1].end = "open" /\ e[1].buf \in Buffers /\ e[1].buf # NoBuffer /\ e[1].len \in Nat
  <2>1. e[1].end = "open" /\ 1 \in 1..Len(e)
    BY <1>7, <1>4
  <2>2. e[1].buf # NoBuffer
    BY <1>1, <1>8, <2>1 DEF EventsSound
  <2> QED BY <1>4, <2>1, <2>2, MediaCopyAssumption DEF Event
<1>10. \A b : b # NoBuffer => (InFlight(r, b)' <=> InFlight(r, b))
  <2>1. ASSUME NEW b, b # NoBuffer, InFlight(r, b)
        PROVE  InFlight(r, b)'
    <3>1. CASE producer[r].buf = b
      BY <3>1 DEF InFlight
    <3>2. CASE consumer[r].buf = b
      BY <1>8, <2>1, <3>2
    <3>3. ASSUME NEW i \in 1..Len(e), e[i].buf = b
          PROVE  InFlight(r, b)'
      <4>1. CASE i = 1
        BY <1>6, <3>3, <4>1 DEF InFlight
      <4>2. CASE i # 1
        <5>1. i - 1 \in 1..Len(f) /\ f[i - 1] = e[i]
          BY <1>4, <4>2
        <5> QED BY <1>8, <3>3, <5>1 DEF InFlight
      <4> QED BY <4>1, <4>2
    <3> QED BY <1>4, <1>8, <2>1, <3>1, <3>2, <3>3 DEF InFlight
  <2>2. ASSUME NEW b, b # NoBuffer, InFlight(r, b)'
        PROVE  InFlight(r, b)
    <3>1. CASE producer[r].buf = b
      BY <3>1 DEF InFlight
    <3>2. CASE d.buf = b
      <4>1. 1 \in 1..Len(Events(r)) /\ Events(r)[1].buf = b
        BY <1>4, <1>6, <1>8, <3>2
      <4> QED BY <4>1 DEF InFlight
    <3>3. ASSUME NEW i \in 1..Len(f), f[i].buf = b
          PROVE  InFlight(r, b)
      <4>1. i + 1 \in 1..Len(Events(r)) /\ Events(r)[i + 1].buf = b
        BY <1>4, <1>8, <3>3
      <4> QED BY <4>1 DEF InFlight
    <3>4. producer[r].buf = b \/ d.buf = b \/ \E i \in 1..Len(f) : f[i].buf = b
      BY <1>6, <1>8, <2>2 DEF InFlight
    <3> QED BY <3>1, <3>2, <3>3, <3>4
  <2> QED BY <2>1, <2>2
<1>11. InStep(r)'
  BY <1>1, <1>8 DEF InStep, Cleaning
<1>12. EventsSound(r)'
  <2>1. \A i \in 1..Len(e) :
          /\ e[i].end = "open" <=> e[i].buf # NoBuffer
          /\ e[i].end # "open" => i = Len(e) /\ producer[r].pc = "done"
    BY <1>1, <1>8 DEF EventsSound
  <2>2. ASSUME NEW i \in 1..Len(f)
        PROVE  /\ f[i].end = "open" <=> f[i].buf # NoBuffer
               /\ f[i].end # "open" => i = Len(f) /\ producer[r].pc = "done"
    <3>1. i + 1 \in 1..Len(e) /\ f[i] = e[i + 1] /\ (i + 1 = Len(e) => i = Len(f))
      BY <1>4
    <3> QED BY <2>1, <3>1
  <2> QED BY <1>8, <2>2 DEF EventsSound
<1>13. HandsSound(r)'
  <2>1. \A i \in 1..Len(e) : e[i].buf # NoBuffer =>
          /\ e[i].buf # producer[r].buf
          /\ \A k \in 1..Len(e) : e[k].buf = e[i].buf => k = i
    BY <1>1, <1>8 DEF HandsSound
  <2>2. \A i \in 1..Len(f) : f[i].buf # NoBuffer =>
          /\ f[i].buf \notin {producer[r].buf, d.buf}
          /\ \A k \in 1..Len(f) : f[k].buf = f[i].buf => k = i
    <3> SUFFICES ASSUME NEW i \in 1..Len(f), f[i].buf # NoBuffer
                 PROVE  /\ f[i].buf \notin {producer[r].buf, d.buf}
                        /\ \A k \in 1..Len(f) : f[k].buf = f[i].buf => k = i
      OBVIOUS
    <3>1. i + 1 \in 1..Len(e) /\ f[i] = e[i + 1] /\ 1 \in 1..Len(e)
      BY <1>4
    <3>2. \A k \in 1..Len(e) : e[k].buf = e[i + 1].buf => k = i + 1
      BY <2>1, <3>1
    <3>3. f[i].buf # d.buf
      BY <1>6, <3>1, <3>2
    <3>4. ASSUME NEW k \in 1..Len(f), f[k].buf = f[i].buf
          PROVE  k = i
      <4>1. k + 1 \in 1..Len(e) /\ f[k] = e[k + 1]
        BY <1>4
      <4>2. k + 1 = i + 1
        BY <3>1, <3>2, <3>4, <4>1
      <4> QED BY <4>2
    <3> QED BY <2>1, <3>1, <3>3, <3>4
  <2>3. d.buf # producer[r].buf
    BY <1>4, <1>6, <1>9, <2>1
  <2>4. baseReady[r] => ~InFlight(r, Base)'
    <3>1. baseReady[r] => ~InFlight(r, Base)
      BY <1>1 DEF HandsSound
    <3>2. Base # NoBuffer
      BY MediaCopyAssumption
    <3>3. InFlight(r, Base)' <=> InFlight(r, Base)
      BY <1>10, <3>2
    <3> QED BY <3>1, <3>3
  <2>5. /\ producer[r].pc \in {"read", "publish", "drop"} => producer[r].buf # NoBuffer
        /\ producer[r].buf \notin {NoBuffer, Base} =>
             producer[r].pc \in {"read", "publish", "drop"}
        /\ producer[r].buf = Base => producer[r].pc \in {"read", "publish", "drop", "withdraw"}
    BY <1>1 DEF HandsSound
  <2>6. (/\ consumer[r].buf # NoBuffer <=> consumer[r].pc \in {"write", "return"}
         /\ consumer[r].buf # NoBuffer => consumer[r].buf # producer[r].buf)'
    BY <1>6, <1>9, <2>3
  <2>7. (\A i \in 1..Len(Events(r)) : Events(r)[i].buf # NoBuffer =>
          /\ Events(r)[i].buf \notin {producer[r].buf, consumer[r].buf}
          /\ \A k \in 1..Len(Events(r)) : Events(r)[k].buf = Events(r)[i].buf => k = i)'
    BY <1>6, <1>8, <2>2
  <2> QED BY <2>4, <2>5, <2>6, <2>7 DEF HandsSound
<1>14. PoolSound(r)'
  BY <1>1, <1>10, MediaCopyAssumption DEF PoolSound, producerGone
<1>15. /\ Flowing(r) /\ Begin(r) = sent[r]
       /\ Offset(r, e[1].buf) = sent[r] /\ Kept(r, e[1].buf, e[1].len)
  <2>1. Flowing(r) /\ Begin(r) = sent[r] /\ 1 \in 1..Len(e)
    BY <1>4, <1>9 DEF Flowing, Begin
  <2> QED BY <1>1, <1>7, <1>9, <2>1 DEF Contiguous, Before
<1>16. \A i \in 1..Len(f) + 1 : Before(r, i)' = Before(r, i + 1)
  <2> SUFFICES ASSUME NEW i \in 1..Len(f) + 1
               PROVE  Before(r, i)' = Before(r, i + 1)
    OBVIOUS
  <2>1. CASE i = 1
    <3>1. Before(r, i + 1) = Offset(r, e[1].buf) + e[1].len
      BY <1>7, <2>1 DEF Before
    <3>2. Before(r, i)' = sent[r] + e[1].len
      BY <1>6, <2>1 DEF Before, Begin
    <3> QED BY <1>15, <3>1, <3>2
  <2>2. CASE i # 1
    <3>1. i - 1 \in 1..Len(f) /\ f[i - 1] = e[i] /\ i \in 1..Len(e) /\ i + 1 # 1
          /\ (i + 1) - 1 = i
      BY <1>4, <2>2
    <3> QED BY <1>7, <1>8, <2>2, <3>1 DEF Before, Offset, Place
  <2> QED BY <2>1, <2>2
<1>17. Contiguous(r)'
  <2>1. Kept(r, d.buf, d.len)' /\ Offset(r, d.buf)' = sent'[r]
    BY <1>6, <1>15 DEF Kept, Offset, Limit, Place
  <2>2. \A i \in 1..Len(e) : e[i].end = "open" =>
          Kept(r, e[i].buf, e[i].len) /\ Offset(r, e[i].buf) = Before(r, i)
    BY <1>1, <1>7, <1>15 DEF Contiguous
  <2>3. \A i \in 1..Len(f) : f[i].end = "open" =>
          Kept(r, f[i].buf, f[i].len)' /\ Offset(r, f[i].buf)' = Before(r, i)'
    <3> SUFFICES ASSUME NEW i \in 1..Len(f), f[i].end = "open"
                 PROVE  Kept(r, f[i].buf, f[i].len)' /\ Offset(r, f[i].buf)' = Before(r, i)'
      OBVIOUS
    <3>1. i + 1 \in 1..Len(e) /\ f[i] = e[i + 1] /\ i \in 1..Len(f) + 1
      BY <1>4
    <3>2. Kept(r, f[i].buf, f[i].len) /\ Offset(r, f[i].buf) = Before(r, i + 1)
      BY <2>2, <3>1
    <3> QED BY <1>16, <3>1, <3>2 DEF Kept, Offset, Limit, Place
  <2>4. Before(r, Len(f) + 1)' = Before(r, Len(e) + 1)
    <3>1. Len(f) + 1 \in 1..Len(f) + 1 /\ (Len(f) + 1) + 1 = Len(e) + 1
      BY <1>4
    <3> QED BY <1>16, <3>1
  <2>5. \A i \in 1..Len(f) : f[i].end = "complete" => received[r] = Before(r, i)'
    <3> SUFFICES ASSUME NEW i \in 1..Len(f), f[i].end = "complete"
                 PROVE  received[r] = Before(r, i)'
      OBVIOUS
    <3>1. i + 1 \in 1..Len(e) /\ f[i] = e[i + 1] /\ i \in 1..Len(f) + 1
      BY <1>4
    <3>2. received[r] = Before(r, i + 1)
      BY <1>1, <1>7, <1>15, <3>1 DEF Contiguous
    <3> QED BY <1>16, <3>1, <3>2
  <2>6. producer[r].pc = "publish" => Offset(r, producer[r].buf) = Before(r, Len(e) + 1)
    BY <1>1, <1>7, <1>15 DEF Contiguous
  <2>7. \/ producer[r].pc \in Reading
        \/ producer[r].pc \in {"publishEnd", "drop"} /\ producer[r].end = "complete"
        => received[r] = Before(r, Len(e) + 1)
    BY <1>1, <1>7, <1>15 DEF Contiguous
  <2>8. Offset(r, producer[r].buf)' = Offset(r, producer[r].buf)
    BY DEF Offset, Place
  <2>9. (consumer[r].pc = "write" =>
          Kept(r, consumer[r].buf, consumer[r].len) /\ Offset(r, consumer[r].buf) = sent[r])'
    BY <1>6, <2>1
  <2>11. (\A i \in 1..Len(queue[r]) : queue[r][i].end = "open" =>
           Kept(r, queue[r][i].buf, queue[r][i].len)
           /\ Offset(r, queue[r][i].buf) = Before(r, i))'
    BY <1>7, <2>3
  <2>10. /\ (producer[r].pc = "publish" =>
               Offset(r, producer[r].buf) = Before(r, Len(queue[r]) + 1))'
         /\ (\/ producer[r].pc \in Reading
             \/ producer[r].pc \in {"publishEnd", "drop"} /\ producer[r].end = "complete"
             => received[r] = Before(r, Len(queue[r]) + 1))'
         /\ (\A i \in 1..Len(queue[r]) :
               queue[r][i].end = "complete" => received[r] = Before(r, i))'
    BY <1>7, <2>4, <2>5, <2>6, <2>7, <2>8
  <2> QED BY <2>9, <2>10, <2>11 DEF Contiguous
<1>18. BodySound(r)'
  <2>1. \A i \in 1..Len(f) : f[i].end = "complete" => WholeBody(r)
    BY <1>1, <1>7, <1>4 DEF BodySound
  <2>2. d.end # "complete"
    BY <1>1, <1>4, <1>6, <1>9 DEF InStep
  <2> QED BY <1>1, <1>6, <1>8, <2>1, <2>2 DEF BodySound, Kept, Offset, Limit, WholeBody, Place
<1> QED BY <1>11, <1>12, <1>13, <1>14, <1>17, <1>18 DEF CopySound

\* The consumer receives the terminal, which is the last event.
LEMMA ReceivesTerminal ==
  ASSUME Typed, NEW r \in Requests, CopySound(r),
         UNCHANGED <<memory, producer, closing, baseReady, cancelled, gone, shut,
                     announced, received, sent, ended, broken>>,
         UNCHANGED pool,
         queue[r] # <<>>, queue'[r] = Tail(queue[r]), queue[r][1].end # "open",
         consumer[r].pc = "next", consumer'[r].pc = "stop",
         consumer'[r].buf = consumer[r].buf, consumer'[r].end = queue[r][1].end,
         consumer'[r].drained = consumer[r].drained
  PROVE  CopySound(r)'
<1>1. /\ InStep(r) /\ EventsSound(r) /\ HandsSound(r) /\ PoolSound(r)
      /\ Contiguous(r) /\ BodySound(r)
  BY DEF CopySound
<1>2. PICK e \in Seq(Event) : e = queue[r]
  BY DEF Typed
<1>3. ~closing[r] /\ Events(r) = e
  BY <1>1, <1>2 DEF InStep, Cleaning, Events
<1>4. 1 \in 1..Len(e) /\ e[1] \in Event
  BY <1>2, Taking
<1>5. Len(e) = 1 /\ e[1].buf = NoBuffer
  BY ZenonT(60), <1>1, <1>2, <1>3, <1>4 DEF EventsSound
<1>6. Len(queue'[r]) = 0 /\ Len(Events(r)') = 0
  <2>1. e # <<>>
    BY <1>2
  <2>2. Len(Tail(e)) = 0
    BY <1>5, <2>1, Taking
  <2> QED BY <1>2, <1>3, <2>2 DEF Events
<1>7. \A b \in Buffers : InFlight(r, b)' <=> InFlight(r, b)
  <2>1. \A b \in Buffers : \A i \in 1..Len(e) : e[i].buf # b
    BY <1>5, MediaCopyAssumption DEF Buffers
  <2> QED BY <1>3, <1>6, <2>1 DEF InFlight
<1>8. InStep(r)'
  BY <1>1, <1>3, <1>6 DEF InStep, Cleaning
<1>9. EventsSound(r)'
  BY <1>6 DEF EventsSound
<1>10. HandsSound(r)'
  <2>1. (baseReady[r] => ~InFlight(r, Base))'
    BY <1>1, <1>7 DEF HandsSound, Buffers
  <2> QED BY <1>1, <1>6, <2>1 DEF HandsSound
<1>11. PoolSound(r)'
  BY <1>1, <1>7 DEF PoolSound, producerGone, Buffers
<1>12. Contiguous(r)'
  BY DEF Contiguous, Flowing
<1>13. BodySound(r)'
  <2>1. e[1].end = "complete" => WholeBody(r) /\ sent[r] = received[r]
    <3>1. Flowing(r) /\ Before(r, 1) = sent[r]
      BY DEF Flowing, Before, Begin
    <3> QED BY <1>1, <1>2, <1>4, <3>1 DEF BodySound, Contiguous
  <2> QED BY <1>1, <1>2, <1>6, <2>1 DEF BodySound, Kept, Offset, Limit, WholeBody, Place
<1> QED BY <1>8, <1>9, <1>10, <1>11, <1>12, <1>13 DEF CopySound

\* NextEvent
LEMMA NextEventStep ==
  ASSUME CopyInv, NEW r \in Requests, NextEvent(r)
  PROVE  CopyInv'
<1>1. Typed /\ CopySound(r) /\ IInv
  BY DEF CopyInv
<1>2. IInv' /\ pool' = pool /\ \A s \in Requests : PoolKeeps(s)
  BY <1>1, PoolStill DEF NextEvent
<1>3. PICK c \in ConsumerRec : c = consumer[r]
  BY <1>1 DEF Typed
<1>4. PICK e \in Seq(Event) : e = queue[r]
  BY <1>1 DEF Typed
<1>5. e # <<>> => e[1] \in Event /\ Head(e) = e[1] /\ Tail(e) \in Seq(Event)
  BY Taking
<1>6. PICK d, f :
        /\ consumer' = [consumer EXCEPT ![r] = d] /\ queue' = [queue EXCEPT ![r] = f]
        /\ \/ /\ d = [c EXCEPT !.end = "failed", !.pc = "stop"] /\ f = e
           \/ /\ d = [c EXCEPT !.pc = "sleep"] /\ f = e
           \/ /\ d = [c EXCEPT !.end = e[1].end, !.pc = "stop"] /\ f = Tail(e)
              /\ e # <<>> /\ e[1].end # "open"
           \/ /\ d = [c EXCEPT !.buf = e[1].buf, !.len = e[1].len, !.pc = "write"]
              /\ f = Tail(e) /\ e # <<>> /\ e[1].end = "open"
  <2>1. queue \in [Requests -> Seq(Event)] /\ queue = [queue EXCEPT ![r] = e]
    BY <1>1, <1>4 DEF Typed
  <2>2. CASE gone[r]
    BY <1>3, <2>1, <2>2 DEF NextEvent, Select
  <2>3. CASE ~gone[r] /\ e = <<>>
    BY <1>3, <1>4, <2>1, <2>3 DEF NextEvent
  <2>4. CASE ~gone[r] /\ e # <<>> /\ e[1].end # "open"
    BY <1>3, <1>4, <1>5, <2>4 DEF NextEvent, Select
  <2>5. CASE ~gone[r] /\ e # <<>> /\ e[1].end = "open"
    BY <1>3, <1>4, <1>5, <2>5 DEF NextEvent
  <2> QED BY <2>2, <2>3, <2>4, <2>5
<1>7. /\ d \in ConsumerRec /\ d.drained = c.drained /\ d.pc \in {"stop", "sleep", "write"}
      /\ d.pc # "write" => d.buf = c.buf
      /\ f \in Seq(Event)
  BY <1>5, <1>6 DEF ConsumerRec, Event, Terminals
<1>8. /\ consumer' \in [Requests -> ConsumerRec] /\ consumer'[r] = d
      /\ queue' \in [Requests -> Seq(Event)] /\ queue'[r] = f
      /\ \A s \in Requests \ {r} : consumer'[s] = consumer[s] /\ queue'[s] = queue[s]
  BY <1>1, <1>6, <1>7 DEF Typed
<1>9. /\ UNCHANGED <<memory, producer, signal, closing, baseReady, cancelled, gone,
                     shut, announced, received, sent, ended, broken>>
      /\ c.pc = "next"
  BY <1>3 DEF NextEvent
<1>10. Typed'
  BY <1>1, <1>8, <1>9 DEF Typed
<1>11. \A s \in Requests \ {r} : SameCopy(s) /\ MemoryKeeps(s)
  BY <1>8, <1>9 DEF SameCopy, MemoryKeeps, Place
<1>12. CopySound(r)'
  <2>1. CASE d = [c EXCEPT !.end = "failed", !.pc = "stop"] /\ f = e
    <3>1. d.pc = "stop" /\ d.end = "failed" /\ d.buf = c.buf /\ d.drained = c.drained
      BY <2>1 DEF ConsumerRec
    <3>2. queue' = queue
      BY <1>1, <1>4, <1>6, <2>1 DEF Typed
    <3> QED BY <1>1, <1>2, <1>3, <1>8, <1>9, <3>1, <3>2, IdleKeeps
  <2>2. CASE d = [c EXCEPT !.pc = "sleep"] /\ f = e
    <3>1. d.pc = "sleep" /\ d.end = c.end /\ d.buf = c.buf /\ d.drained = c.drained
      BY <2>2 DEF ConsumerRec
    <3>2. queue' = queue
      BY <1>1, <1>4, <1>6, <2>2 DEF Typed
    <3> QED BY <1>1, <1>2, <1>3, <1>8, <1>9, <3>1, <3>2, IdleKeeps
  <2>3. CASE /\ d = [c EXCEPT !.end = e[1].end, !.pc = "stop"] /\ f = Tail(e)
             /\ e # <<>> /\ e[1].end # "open"
    <3>1. d.pc = "stop" /\ d.end = e[1].end /\ d.buf = c.buf /\ d.drained = c.drained
      BY <2>3 DEF ConsumerRec
    <3> QED BY <1>1, <1>2, <1>3, <1>4, <1>8, <1>9, <2>3, <3>1, ReceivesTerminal
  <2>4. CASE /\ d = [c EXCEPT !.buf = e[1].buf, !.len = e[1].len, !.pc = "write"]
             /\ f = Tail(e) /\ e # <<>> /\ e[1].end = "open"
    <3>1. /\ d.pc = "write" /\ d.end = c.end /\ d.buf = e[1].buf /\ d.len = e[1].len
          /\ d.drained = c.drained
      BY <2>4 DEF ConsumerRec
    <3> QED BY ZenonT(60), <1>1, <1>2, <1>3, <1>4, <1>8, <1>9, <2>4, <3>1, ReceivesPiece
  <2> QED BY <1>6, <2>1, <2>2, <2>3, <2>4
<1> QED BY <1>2, <1>10, <1>11, <1>12, OneStep

\* Write
LEMMA WriteStep ==
  ASSUME CopyInv, NEW r \in Requests, Write(r)
  PROVE  /\ CopyInv'
         /\ sent'[r] \in sent[r]..Limit(r)
<1>1. Typed /\ CopySound(r) /\ IInv
  BY DEF CopyInv
<1>2. IInv' /\ pool' = pool /\ \A s \in Requests : PoolKeeps(s)
  BY <1>1, PoolStill DEF Write
<1>3. PICK c \in ConsumerRec : c = consumer[r]
  BY <1>1 DEF Typed
<1>4. PICK k \in 0..c.len, fine \in BOOLEAN :
        /\ sent' = [sent EXCEPT ![r] = sent[r] + k]
        /\ consumer' = [consumer EXCEPT ![r] = [c EXCEPT !.pc = "return",
             !.end = IF fine /\ k = c.len THEN "open" ELSE "failed"]]
  BY <1>3 DEF Write
<1>5. PICK d : d = [c EXCEPT !.pc = "return",
                      !.end = IF fine /\ k = c.len THEN "open" ELSE "failed"]
  OBVIOUS
<1>6. /\ d \in ConsumerRec /\ d.pc = "return" /\ d.buf = c.buf /\ d.drained = c.drained
      /\ d.end \in {"open", "failed"} /\ (d.end = "open" => k = c.len)
  BY <1>5 DEF ConsumerRec, Terminals
<1>7. /\ consumer' \in [Requests -> ConsumerRec] /\ consumer'[r] = d
      /\ \A s \in Requests \ {r} : consumer'[s] = consumer[s]
  BY <1>1, <1>4, <1>5, <1>6 DEF Typed
<1>8. /\ UNCHANGED <<memory, producer, queue, signal, closing, baseReady, cancelled, gone,
                     shut, announced, received, ended, broken>>
      /\ c.pc = "write"
  BY <1>3 DEF Write
<1>9. /\ InStep(r) /\ EventsSound(r) /\ HandsSound(r) /\ PoolSound(r)
      /\ Contiguous(r) /\ BodySound(r)
  BY <1>1 DEF CopySound
<1>10. /\ sent[r] \in Nat /\ received[r] \in Nat /\ received[r] <= MaxBlocks /\ k \in Nat
       /\ c.len \in Nat /\ announced[r] \in Nat \cup {Unknown} /\ MaxBlocks \in Nat /\ k <= c.len
  BY <1>1, Fields, MediaCopyAssumption DEF ConsumerRec
<1>11. sent[r] + c.len <= Limit(r) /\ Limit(r) <= received[r] /\ Limit(r) \in Int
  <2>1. Kept(r, c.buf, c.len) /\ Offset(r, c.buf) = sent[r]
    BY <1>3, <1>8, <1>9 DEF Contiguous, Flowing
  <2>2. Limit(r) <= received[r] /\ Limit(r) \in Int
    BY <1>10 DEF Limit, Unknown
  <2> QED BY <2>1, <2>2 DEF Kept
<1>12. /\ sent'[r] = sent[r] + k /\ sent' \in [Requests -> 0..MaxBlocks]
       /\ \A s \in Requests \ {r} : sent'[s] = sent[s]
  <2>1. sent[r] + k \in 0..MaxBlocks
    BY <1>10, <1>11
  <2> QED BY <1>1, <1>4, <2>1 DEF Typed
<1>13. Typed'
  BY <1>1, <1>7, <1>8, <1>12 DEF Typed
<1>14. \A s \in Requests \ {r} : SameCopy(s) /\ MemoryKeeps(s)
  BY <1>7, <1>8, <1>12 DEF SameCopy, MemoryKeeps, Place
<1>15. Events(r)' = Events(r) /\ \A b : InFlight(r, b)' <=> InFlight(r, b)
  <2>1. Events(r)' = Events(r)
    BY <1>3, <1>6, <1>7, <1>8 DEF Events
  <2> QED BY <1>3, <1>6, <1>7, <1>8, <2>1 DEF InFlight
<1>16. InStep(r)'
  BY <1>3, <1>6, <1>7, <1>8, <1>9 DEF InStep, Cleaning
<1>17. EventsSound(r)'
  BY <1>8, <1>9, <1>15 DEF EventsSound
<1>18. HandsSound(r)'
  BY <1>3, <1>6, <1>7, <1>8, <1>9, <1>15 DEF HandsSound
<1>19. PoolSound(r)'
  BY <1>2, <1>8, <1>9, <1>15 DEF PoolSound, producerGone
<1>20. Contiguous(r)'
  <2>1. MemoryKeeps(r)
    BY <1>8 DEF MemoryKeeps, Place
  <2>2. Flowing(r)' => Flowing(r) /\ Begin(r)' = Begin(r)
    BY <1>3, <1>6, <1>7, <1>8, <1>12 DEF Flowing, Begin
  <2> QED BY <1>1, <1>6, <1>7, <1>8, <1>9, <2>1, <2>2, StillContiguous
<1>21. BodySound(r)'
  <2>1. sent'[r] <= Limit(r)'
    BY <1>8, <1>10, <1>11, <1>12 DEF Limit
  <2> QED BY <1>6, <1>7, <1>8, <1>9, <2>1 DEF BodySound, Kept, Offset, Limit, WholeBody, Place
<1>22. CopySound(r)'
  BY <1>16, <1>17, <1>18, <1>19, <1>20, <1>21 DEF CopySound
<1>23. CopyInv'
  BY <1>2, <1>13, <1>14, <1>22, OneStep
<1> QED BY <1>10, <1>11, <1>12, <1>23

\* What the pool does to r when one of its leases is given back.
PoolLetsGo(r) ==
  /\ pool'.waiting[r] => pool.waiting[r]
  /\ pool.pending[r] # NoLease => pool'.pending[r] # NoLease
  /\ pool'.pending[r] # NoLease => pool.pending[r] # NoLease \/ pool.waiting[r]

\* releaseBufferedCopyBuffer, for a buffer in flight
LEMMA Giving ==
  ASSUME CopyInv, NEW r \in Requests, NEW b \in Buffers, InFlight(r, b), ReturnBuffer(r, b)
  PROVE  /\ IInv' /\ \A s \in Requests \ {r} : PoolKeeps(s)
         /\ PoolLetsGo(r)
         /\ \A l \in Leases : l \in pool'.chunks[r] <=> l \in pool.chunks[r] /\ l # b
         /\ baseReady' \in [Requests -> BOOLEAN]
         /\ baseReady'[r] <=> baseReady[r] \/ b = Base
         /\ \A s \in Requests \ {r} : baseReady'[s] = baseReady[s]
         /\ broken' = broken
<1>1. Typed /\ IInv /\ HandsSound(r) /\ PoolSound(r)
  BY DEF CopyInv, CopySound
<1>2. baseReady \in [Requests -> BOOLEAN] /\ broken \in [Requests -> BOOLEAN] /\ ~broken[r]
  BY <1>1 DEF Typed, PoolSound
<1>3. CASE b = Base
  <2>1. ~baseReady[r]
    BY <1>1, <1>3 DEF HandsSound
  <2>2. IInv' /\ pool' = pool /\ \A s \in Requests : PoolKeeps(s)
    BY <1>1, <1>3, PoolStill DEF ReturnBuffer
  <2>3. baseReady' = [baseReady EXCEPT ![r] = TRUE]
    BY <1>3 DEF ReturnBuffer
  <2>4. broken' = broken
    BY <1>2, <1>3, <2>1 DEF ReturnBuffer
  <2>5. \A l \in Leases : l # b
    BY <1>3, MediaCopyAssumption
  <2> QED BY <1>2, <1>3, <2>2, <2>3, <2>4, <2>5 DEF PoolLetsGo, PoolKeeps
<1>4. CASE b # Base
  <2>1. b \in Leases /\ b \in pool.chunks[r]
    BY <1>1, <1>4 DEF Buffers, PoolSound
  <2>2. ReleaseLease(r, b) /\ baseReady' = baseReady
    BY <1>4 DEF ReturnBuffer
  <2>3. /\ IInv' /\ \A s \in Requests \ {r} : PoolKeeps(s)
        /\ ValidLease(pool, r, b)
        /\ pool'.chunks[r] = pool.chunks[r] \ {b} /\ PoolLetsGo(r)
    BY <1>1, <2>1, <2>2, Releasing DEF ReleaseLease, PoolLetsGo
  <2>4. broken' = broken
    BY <1>2, <2>2, <2>3 DEF ReleaseLease
  <2> QED BY <1>2, <1>4, <2>2, <2>3, <2>4
<1> QED BY <1>3, <1>4

\* Return
LEMMA ReturnStep ==
  ASSUME CopyInv, NEW r \in Requests, Return(r)
  PROVE  CopyInv'
<1>1. Typed /\ CopySound(r) /\ IInv
  BY DEF CopyInv
<1>2. /\ InStep(r) /\ EventsSound(r) /\ HandsSound(r) /\ PoolSound(r)
      /\ Contiguous(r) /\ BodySound(r)
  BY <1>1 DEF CopySound
<1>3. PICK c \in ConsumerRec : c = consumer[r]
  BY <1>1 DEF Typed
<1>4. /\ UNCHANGED <<memory, producer, queue, signal, closing, cancelled, gone,
                     shut, announced, received, sent, ended>>
      /\ c.pc = "return" /\ ReturnBuffer(r, c.buf)
  BY <1>3 DEF Return
<1>5. c.buf \in Buffers /\ c.buf # NoBuffer /\ InFlight(r, c.buf)
  BY <1>2, <1>3, <1>4 DEF HandsSound, InFlight, ConsumerRec
<1>6. /\ IInv' /\ \A s \in Requests \ {r} : PoolKeeps(s)
      /\ PoolLetsGo(r)
      /\ \A l \in Leases : l \in pool'.chunks[r] <=> l \in pool.chunks[r] /\ l # c.buf
      /\ baseReady' \in [Requests -> BOOLEAN]
      /\ baseReady'[r] <=> baseReady[r] \/ c.buf = Base
      /\ \A s \in Requests \ {r} : baseReady'[s] = baseReady[s]
      /\ broken' = broken
  BY <1>4, <1>5, Giving
<1>7. ~broken'[r]
  BY <1>2, <1>6 DEF PoolSound
<1>8. PICK d : d = [c EXCEPT !.buf = NoBuffer, !.len = 0,
                      !.pc = IF c.end = "open" THEN "next" ELSE "stop", !.end = c.end]
  OBVIOUS
<1>9. /\ d \in ConsumerRec /\ d.pc = (IF c.end = "open" THEN "next" ELSE "stop")
      /\ d.buf = NoBuffer /\ d.drained = c.drained /\ d.end = c.end
  <2>1. 0 \in 0..BufferSize
    BY MediaCopyAssumption
  <2>2. PICK x \in {"next", "stop"} : x = IF c.end = "open" THEN "next" ELSE "stop"
    OBVIOUS
  <2>3. d = [c EXCEPT !.buf = NoBuffer, !.len = 0, !.pc = x, !.end = c.end]
    BY <1>8, <2>2
  <2> QED BY <2>1, <2>2, <2>3 DEF ConsumerRec
<1>10. /\ consumer' \in [Requests -> ConsumerRec] /\ consumer'[r] = d
       /\ \A s \in Requests \ {r} : consumer'[s] = consumer[s]
  <2>1. consumer' = [consumer EXCEPT ![r] = d]
    BY <1>3, <1>7, <1>8 DEF Return
  <2> QED BY <1>1, <1>9, <2>1 DEF Typed
<1>11. Typed'
  BY <1>1, <1>4, <1>6, <1>10 DEF Typed
<1>12. \A s \in Requests \ {r} : SameCopy(s) /\ MemoryKeeps(s)
  BY <1>4, <1>6, <1>10 DEF SameCopy, MemoryKeeps, Place
<1>13. Events(r)' = Events(r)
  BY <1>3, <1>4, <1>9, <1>10 DEF Events
<1>14. \A b \in Buffers : InFlight(r, b)' <=> InFlight(r, b) /\ b # c.buf
  <2> SUFFICES ASSUME NEW b \in Buffers
               PROVE  InFlight(r, b)' <=> InFlight(r, b) /\ b # c.buf
    OBVIOUS
  <2>1. NoBuffer # b /\ c.buf # producer[r].buf
    BY <1>2, <1>3, <1>5, MediaCopyAssumption DEF HandsSound, Buffers
  <2>2. \A i \in 1..Len(Events(r)) : Events(r)[i].buf # c.buf
    BY <1>2, <1>3, <1>5 DEF HandsSound
  <2> QED BY <1>3, <1>4, <1>9, <1>10, <1>13, <2>1, <2>2 DEF InFlight
<1>15. InStep(r)'
  BY <1>2, <1>3, <1>4, <1>9, <1>10 DEF InStep, Cleaning
<1>16. EventsSound(r)'
  BY <1>2, <1>4, <1>13 DEF EventsSound
<1>17. HandsSound(r)'
  <2>1. (baseReady[r] => ~InFlight(r, Base))'
    BY <1>2, <1>6, <1>14 DEF HandsSound, Buffers
  <2>2. /\ producer'[r] = producer[r] /\ consumer'[r].buf = NoBuffer
        /\ consumer'[r].pc \notin {"write", "return"}
    BY <1>4, <1>9, <1>10
  <2> QED BY <1>2, <1>13, <2>1, <2>2 DEF HandsSound
<1>18. PoolSound(r)'
  <2>1. \A l \in Leases : l \in pool'.chunks[r] <=> InFlight(r, l)'
    BY <1>2, <1>6, <1>14 DEF PoolSound, Buffers
  <2> QED BY <1>2, <1>4, <1>6, <1>7, <2>1 DEF PoolSound, PoolLetsGo, producerGone
<1>19. Contiguous(r)'
  <2>1. MemoryKeeps(r)
    BY <1>4 DEF MemoryKeeps, Place
  <2>2. Flowing(r)' => Flowing(r) /\ Begin(r)' = Begin(r)
    BY <1>3, <1>4, <1>9, <1>10 DEF Flowing, Begin
  <2> QED BY <1>1, <1>2, <1>4, <1>9, <1>10, <2>1, <2>2, StillContiguous
<1>20. BodySound(r)'
  BY <1>2, <1>3, <1>4, <1>9, <1>10 DEF BodySound, Kept, Offset, Limit, WholeBody, Place
<1>21. CopySound(r)'
  BY <1>15, <1>16, <1>17, <1>18, <1>19, <1>20 DEF CopySound
<1> QED BY <1>6, <1>11, <1>12, <1>21, OneStep

\* Drain
LEMMA DrainStep ==
  ASSUME CopyInv, NEW r \in Requests, Drain(r)
  PROVE  CopyInv'
<1>1. Typed /\ CopySound(r) /\ IInv
  BY DEF CopyInv
<1>2. /\ InStep(r) /\ EventsSound(r) /\ HandsSound(r) /\ PoolSound(r)
      /\ Contiguous(r) /\ BodySound(r)
  BY <1>1 DEF CopySound
<1>3. PICK c \in ConsumerRec : c = consumer[r]
  BY <1>1 DEF Typed
<1>4. PICK e \in Seq(Event) : e = c.drained
  BY <1>3 DEF ConsumerRec
<1>5. PICK f : f = Tail(e)
  OBVIOUS
<1>6. /\ UNCHANGED <<memory, producer, queue, signal, closing, cancelled, gone,
                     shut, announced, received, sent, ended>>
      /\ c.pc = "drain" /\ e # <<>>
  BY <1>3, <1>4 DEF Drain
<1>7. /\ f \in Seq(Event) /\ Len(f) = Len(e) - 1 /\ Len(e) \in Nat \ {0}
      /\ Head(e) = e[1] /\ e[1] \in Event
      /\ \A i \in 1..Len(f) : i + 1 \in 1..Len(e) /\ f[i] = e[i + 1]
      /\ \A i \in 1..Len(e) : i # 1 => i - 1 \in 1..Len(f) /\ f[i - 1] = e[i]
  BY <1>5, <1>6, Taking
<1>8. closing[r] /\ Events(r) = e /\ queue[r] = <<>>
  BY <1>2, <1>3, <1>4, <1>6 DEF InStep, Cleaning, Events
<1>9. PICK d : d = [c EXCEPT !.drained = f]
  OBVIOUS
<1>10. /\ d \in ConsumerRec /\ d.pc = "drain" /\ d.buf = c.buf /\ d.end = c.end
       /\ d.drained = f
  BY <1>6, <1>7, <1>9 DEF ConsumerRec
<1>11. /\ consumer' \in [Requests -> ConsumerRec] /\ consumer'[r] = d
       /\ \A s \in Requests \ {r} : consumer'[s] = consumer[s]
  <2>1. consumer' = [consumer EXCEPT ![r] = d]
    BY <1>3, <1>4, <1>5, <1>9 DEF Drain
  <2> QED BY <1>1, <1>10, <2>1 DEF Typed
<1>12. Events(r)' = f
  BY <1>6, <1>8, <1>10, <1>11 DEF Events
<1>13. \A i \in 1..Len(e) :
         /\ e[i].end = "open" <=> e[i].buf # NoBuffer
         /\ e[i].end # "open" => i = Len(e) /\ producer[r].pc = "done"
         /\ e[i].buf # NoBuffer =>
              /\ e[i].buf \notin {producer[r].buf, c.buf}
              /\ \A k \in 1..Len(e) : e[k].buf = e[i].buf => k = i
  BY <1>2, <1>3, <1>8 DEF EventsSound, HandsSound
<1>14. EventsSound(r)'
  <2>1. ASSUME NEW i \in 1..Len(f)
        PROVE  /\ f[i].end = "open" <=> f[i].buf # NoBuffer
               /\ f[i].end # "open" => i = Len(f) /\ producer[r].pc = "done"
    <3>1. i + 1 \in 1..Len(e) /\ f[i] = e[i + 1] /\ (i + 1 = Len(e) => i = Len(f))
      BY <1>7
    <3> QED BY <1>13, <3>1
  <2> QED BY <1>6, <1>12, <2>1 DEF EventsSound
<1>15. \A b \in Buffers : InFlight(r, b)' <=> InFlight(r, b) /\ b # e[1].buf
  <2> SUFFICES ASSUME NEW b \in Buffers
               PROVE  InFlight(r, b)' <=> InFlight(r, b) /\ b # e[1].buf
    OBVIOUS
  <2>1. b # NoBuffer /\ 1 \in 1..Len(e)
    BY <1>7, MediaCopyAssumption DEF Buffers
  <2>2. ASSUME InFlight(r, b), b # e[1].buf
        PROVE  InFlight(r, b)'
    <3>1. CASE producer[r].buf = b \/ c.buf = b
      BY <1>6, <1>10, <1>11, <3>1 DEF InFlight
    <3>2. ASSUME NEW i \in 1..Len(e), e[i].buf = b
          PROVE  InFlight(r, b)'
      <4>1. i - 1 \in 1..Len(f) /\ f[i - 1] = e[i]
        BY <1>7, <2>2, <3>2
      <4> QED BY <1>12, <3>2, <4>1 DEF InFlight
    <3> QED BY <1>3, <1>8, <2>2, <3>1, <3>2 DEF InFlight
  <2>3. ASSUME InFlight(r, b)'
        PROVE  InFlight(r, b) /\ b # e[1].buf
    <3>1. CASE producer[r].buf = b \/ c.buf = b
      BY <1>3, <1>13, <2>1, <3>1 DEF InFlight
    <3>2. ASSUME NEW i \in 1..Len(f), f[i].buf = b
          PROVE  InFlight(r, b) /\ b # e[1].buf
      <4>1. i + 1 \in 1..Len(e) /\ f[i] = e[i + 1] /\ i + 1 # 1
        BY <1>7
      <4>2. b # e[1].buf
        BY <1>13, <2>1, <3>2, <4>1
      <4> QED BY <1>8, <3>2, <4>1, <4>2 DEF InFlight
    <3>3. producer[r].buf = b \/ c.buf = b \/ \E i \in 1..Len(f) : f[i].buf = b
      BY <1>6, <1>10, <1>11, <1>12, <2>3 DEF InFlight
    <3> QED BY <3>1, <3>2, <3>3
  <2> QED BY <2>2, <2>3
<1>16. /\ IInv' /\ \A s \in Requests \ {r} : PoolKeeps(s)
       /\ PoolLetsGo(r)
       /\ \A l \in Leases : l \in pool'.chunks[r] <=> l \in pool.chunks[r] /\ l # e[1].buf
       /\ baseReady' \in [Requests -> BOOLEAN]
       /\ baseReady'[r] <=> baseReady[r] \/ e[1].buf = Base
       /\ \A s \in Requests \ {r} : baseReady'[s] = baseReady[s]
       /\ broken' = broken
  <2>1. CASE e[1].end = "open"
    <3>1. 1 \in 1..Len(e)
      BY <1>7
    <3>2. e[1].buf # NoBuffer /\ e[1].buf \in Buffers
      BY <1>7, <1>13, <2>1, <3>1 DEF Event
    <3>3. InFlight(r, e[1].buf)
      BY <1>8, <3>1 DEF InFlight
    <3>4. ReturnBuffer(r, e[1].buf)
      BY <1>3, <1>4, <1>7, <2>1 DEF Drain
    <3> QED BY <3>2, <3>3, <3>4, Giving
  <2>2. CASE e[1].end # "open"
    <3>1. 1 \in 1..Len(e)
      BY <1>7
    <3>2. e[1].buf = NoBuffer
      BY <1>13, <2>2, <3>1
    <3>3. UNCHANGED poolVars /\ baseReady' = baseReady /\ broken' = broken
      BY <1>3, <1>4, <1>7, <2>2 DEF Drain
    <3>4. IInv' /\ pool' = pool /\ \A s \in Requests : PoolKeeps(s)
      BY <1>1, <3>3, PoolStill
    <3>5. NoBuffer # Base /\ NoBuffer \notin Leases
      BY MediaCopyAssumption
    <3>6. PoolLetsGo(r)
      BY <3>4 DEF PoolLetsGo
    <3>7. baseReady' \in [Requests -> BOOLEAN]
      BY <1>1, <3>3 DEF Typed
    <3> QED BY <3>2, <3>3, <3>4, <3>5, <3>6, <3>7
  <2> QED BY <2>1, <2>2
<1>17. Typed'
  BY <1>1, <1>6, <1>11, <1>16 DEF Typed
<1>18. \A s \in Requests \ {r} : SameCopy(s) /\ MemoryKeeps(s)
  BY <1>6, <1>11, <1>16 DEF SameCopy, MemoryKeeps, Place
<1>19. InStep(r)'
  <2>1. producer[r].pc # "idle" /\ cancelled[r] /\ producer[r].pc = "done" /\ c.end # "open"
    BY <1>2, <1>3, <1>6 DEF InStep, Cleaning
  <2> QED BY <1>6, <1>8, <1>10, <1>11, <2>1 DEF InStep, Cleaning
<1>20. HandsSound(r)'
  <2>1. (baseReady[r] => ~InFlight(r, Base))'
    BY <1>2, <1>15, <1>16 DEF HandsSound, Buffers
  <2>2. ASSUME NEW i \in 1..Len(f), f[i].buf # NoBuffer
        PROVE  /\ f[i].buf \notin {producer[r].buf, c.buf}
               /\ \A k \in 1..Len(f) : f[k].buf = f[i].buf => k = i
    <3>1. i + 1 \in 1..Len(e) /\ f[i] = e[i + 1]
      BY <1>7
    <3>2. ASSUME NEW k \in 1..Len(f), f[k].buf = f[i].buf
          PROVE  k = i
      <4>1. k + 1 \in 1..Len(e) /\ f[k] = e[k + 1]
        BY <1>7
      <4>2. k + 1 = i + 1
        BY <1>13, <2>2, <3>1, <3>2, <4>1
      <4> QED BY <4>2
    <3>3. f[i].buf \notin {producer[r].buf, c.buf}
      BY <1>13, <2>2, <3>1
    <3> QED BY <3>2, <3>3
  <2>3. (\A i \in 1..Len(Events(r)) : Events(r)[i].buf # NoBuffer =>
          /\ Events(r)[i].buf \notin {producer[r].buf, consumer[r].buf}
          /\ \A k \in 1..Len(Events(r)) : Events(r)[k].buf = Events(r)[i].buf => k = i)'
    BY <1>6, <1>10, <1>11, <1>12, <2>2
  <2>4. producer'[r] = producer[r] /\ consumer'[r].buf = consumer[r].buf
        /\ consumer'[r].pc = consumer[r].pc
    BY <1>3, <1>6, <1>10, <1>11
  <2> QED BY <1>2, <2>1, <2>3, <2>4 DEF HandsSound
<1>21. PoolSound(r)'
  <2>1. \A l \in Leases : l \in pool'.chunks[r] <=> InFlight(r, l)'
    BY <1>2, <1>15, <1>16 DEF PoolSound, Buffers
  <2> QED BY <1>2, <1>6, <1>16, <2>1 DEF PoolSound, PoolLetsGo, producerGone
<1>22. Contiguous(r)'
  BY <1>10, <1>11 DEF Contiguous, Flowing
<1>23. BodySound(r)'
  BY <1>2, <1>3, <1>6, <1>10, <1>11 DEF BodySound, Kept, Offset, Limit, WholeBody, Place
<1>24. CopySound(r)'
  BY <1>14, <1>19, <1>20, <1>21, <1>22, <1>23 DEF CopySound
<1> QED BY <1>16, <1>17, <1>18, <1>24, OneStep

\* The producer asks for a buffer or gives up: it holds the same as before.
LEMMA AskingKeeps ==
  ASSUME Typed, NEW r \in Requests, CopySound(r),
         UNCHANGED <<memory, consumer, queue, closing, baseReady, cancelled, gone, shut,
                     announced, received, sent, ended, broken>>,
         producer[r].pc \in {"acquire", "request", "poll", "wait", "withdraw", "accept"},
         producer'[r].pc \in Reading \cup {"done"},
         producer'[r].pc = "read" <=> producer[r].buf = Base,
         producer'[r].buf = producer[r].buf, producer'[r].end = producer[r].end
  PROVE  /\ InStep(r)' /\ EventsSound(r)' /\ HandsSound(r)' /\ Contiguous(r)' /\ BodySound(r)'
         /\ \A b : InFlight(r, b)' <=> InFlight(r, b)
<1>1. /\ InStep(r) /\ EventsSound(r) /\ HandsSound(r) /\ PoolSound(r)
      /\ Contiguous(r) /\ BodySound(r)
  BY DEF CopySound
<1>2. Events(r)' = Events(r)
  BY DEF Events
<1>3. \A b : InFlight(r, b)' <=> InFlight(r, b)
  BY <1>2 DEF InFlight
<1>4. producer[r].pc \in Reading /\ producer[r].pc # "done" /\ producer[r].pc # "idle"
  BY DEF Reading, Asking
<1>5. producer'[r].pc \notin {"idle", "publish", "publishEnd", "drop"}
  BY DEF Reading, Asking
<1>6. InStep(r)'
  BY <1>1, <1>4, <1>5 DEF InStep, Cleaning
<1>7. EventsSound(r)'
  BY <1>1, <1>2, <1>4 DEF EventsSound
<1>8. HandsSound(r)'
  <2>1. producer[r].buf \in {NoBuffer, Base} /\ (producer[r].buf = Base => Base # NoBuffer)
    BY <1>1, MediaCopyAssumption DEF HandsSound
  <2>2. /\ producer'[r].pc \in {"read", "publish", "drop"} => producer'[r].buf # NoBuffer
        /\ producer'[r].buf \notin {NoBuffer, Base} =>
             producer'[r].pc \in {"read", "publish", "drop"}
        /\ producer'[r].buf = Base => producer'[r].pc \in {"read", "publish", "drop", "withdraw"}
    BY <1>5, <2>1
  <2> QED BY <1>1, <1>2, <1>3, <2>2 DEF HandsSound
<1>9. Contiguous(r)'
  <2>1. MemoryKeeps(r)
    BY DEF MemoryKeeps, Place
  <2>2. Flowing(r)' => Flowing(r) /\ Begin(r)' = Begin(r)
    BY DEF Flowing, Begin
  <2> QED BY <1>1, <1>4, <1>5, <2>1, <2>2, StillContiguous
<1>10. BodySound(r)'
  BY <1>1, <1>4, <1>5 DEF BodySound, Kept, Offset, Limit, WholeBody, Place
<1> QED BY <1>3, <1>6, <1>7, <1>8, <1>9, <1>10

\* The producer takes a buffer that is not in flight.
LEMMA TakingKeeps ==
  ASSUME Typed, NEW r \in Requests, CopySound(r), NEW b \in Buffers, ~InFlight(r, b),
         UNCHANGED <<memory, consumer, queue, closing, cancelled, gone, shut,
                     announced, received, sent, ended, broken>>,
         producer[r].pc \in {"acquire", "poll", "wait", "accept"},
         producer'[r].pc = "read" \/ (producer'[r].pc = "withdraw" /\ b = Base),
         producer'[r].buf = b, producer'[r].end = producer[r].end,
         baseReady'[r] => baseReady[r] /\ b # Base
  PROVE  /\ InStep(r)' /\ EventsSound(r)' /\ HandsSound(r)' /\ Contiguous(r)' /\ BodySound(r)'
         /\ \A l \in Buffers : InFlight(r, l)' <=> InFlight(r, l) \/ l = b
<1>1. /\ InStep(r) /\ EventsSound(r) /\ HandsSound(r) /\ PoolSound(r)
      /\ Contiguous(r) /\ BodySound(r)
  BY DEF CopySound
<1>2. Events(r)' = Events(r)
  BY DEF Events
<1>3. b # NoBuffer
  BY MediaCopyAssumption DEF Buffers
<1>4. producer[r].buf = NoBuffer
  BY <1>1 DEF HandsSound
<1>5. \A l \in Buffers : InFlight(r, l)' <=> InFlight(r, l) \/ l = b
  <2>1. \A l \in Buffers : l # NoBuffer
    BY MediaCopyAssumption DEF Buffers
  <2> QED BY <1>2, <1>4, <2>1 DEF InFlight
<1>6. producer[r].pc \in Reading /\ producer[r].pc # "done" /\ producer[r].pc # "idle"
  BY DEF Reading, Asking
<1>7. producer'[r].pc \in Reading \ {"idle", "publish", "publishEnd", "drop", "done"}
  BY DEF Reading, Asking
<1>8. InStep(r)'
  BY <1>1, <1>6, <1>7 DEF InStep, Cleaning
<1>9. EventsSound(r)'
  BY <1>1, <1>2, <1>6 DEF EventsSound
<1>10. HandsSound(r)'
  <2>1. consumer[r].buf # b /\ \A i \in 1..Len(Events(r)) : Events(r)[i].buf # b
    BY DEF InFlight
  <2>2. (baseReady[r] => ~InFlight(r, Base))'
    BY <1>1, <1>5 DEF HandsSound, Buffers
  <2>3. /\ producer'[r].pc \in {"read", "publish", "drop"} => producer'[r].buf # NoBuffer
        /\ producer'[r].buf \notin {NoBuffer, Base} =>
             producer'[r].pc \in {"read", "publish", "drop"}
        /\ producer'[r].buf = Base => producer'[r].pc \in {"read", "publish", "drop", "withdraw"}
    BY <1>3
  <2> QED BY <1>1, <1>2, <2>1, <2>2, <2>3 DEF HandsSound
<1>11. Contiguous(r)'
  <2>1. MemoryKeeps(r)
    BY DEF MemoryKeeps, Place
  <2>2. Flowing(r)' => Flowing(r) /\ Begin(r)' = Begin(r)
    BY DEF Flowing, Begin
  <2> QED BY <1>1, <1>6, <1>7, <2>1, <2>2, StillContiguous
<1>12. BodySound(r)'
  BY <1>1, <1>6, <1>7 DEF BodySound, Kept, Offset, Limit, WholeBody, Place
<1> QED BY <1>5, <1>8, <1>9, <1>10, <1>11, <1>12

\* The leases in flight and the controller's are still the same.
LEMMA PoolKept ==
  ASSUME NEW r \in Requests, PoolSound(r), UNCHANGED <<cancelled, gone, broken>>,
         pool'.chunks[r] = pool.chunks[r], \A b : InFlight(r, b)' <=> InFlight(r, b),
         producer'[r].pc \notin Asking => ~pool'.waiting[r] /\ pool'.pending[r] = NoLease,
         producer'[r].pc = "accept" => ~pool'.waiting[r] /\ pool'.pending[r] # NoLease
  PROVE  PoolSound(r)'
BY DEF PoolSound, producerGone

\* Request
LEMMA RequestStep ==
  ASSUME CopyInv, NEW r \in Requests, Request(r)
  PROVE  CopyInv'
<1>1. Typed /\ CopySound(r) /\ IInv /\ PoolSound(r) /\ HandsSound(r)
  BY DEF CopyInv, CopySound
<1>2. /\ IInv' /\ \A s \in Requests \ {r} : PoolKeeps(s)
      /\ pool'.chunks[r] = pool.chunks[r]
  <2>1. CASE UNCHANGED poolVars
    BY <1>1, <2>1, PoolStill
  <2>2. CASE RequestOptional(r)
    BY <1>1, <2>2, Requesting
  <2> QED BY <2>1, <2>2 DEF Request
<1>3. PICK p \in ProducerRec : p = producer[r]
  BY <1>1 DEF Typed
<1>4. [p EXCEPT !.pc = "poll"] \in ProducerRec
  BY DEF ProducerRec
<1>5. /\ producer' \in [Requests -> ProducerRec]
      /\ \A s \in Requests \ {r} : producer'[s] = producer[s]
      /\ producer'[r].pc = "poll" /\ producer'[r].buf = producer[r].buf
      /\ producer'[r].len = producer[r].len /\ producer'[r].end = producer[r].end
  BY <1>1, <1>3, <1>4, ProducerGoes DEF Request
<1>6. /\ UNCHANGED <<memory, consumer, queue, signal, closing, baseReady, cancelled, gone,
                     shut, announced, received, sent, ended, broken>>
      /\ producer[r].pc = "request"
  BY DEF Request
<1>7. Typed'
  BY <1>1, <1>5, <1>6 DEF Typed
<1>8. \A s \in Requests \ {r} : SameCopy(s) /\ MemoryKeeps(s)
  BY <1>5, <1>6 DEF SameCopy, MemoryKeeps, Place
<1>9. producer[r].buf # Base
  BY <1>1, <1>6 DEF HandsSound
<1>10. /\ InStep(r)' /\ EventsSound(r)' /\ HandsSound(r)' /\ Contiguous(r)' /\ BodySound(r)'
       /\ \A b : InFlight(r, b)' <=> InFlight(r, b)
  <2>1. producer'[r].pc \in Reading \cup {"done"}
    BY <1>5 DEF Reading, Asking
  <2> QED BY <1>1, <1>5, <1>6, <1>9, <2>1, AskingKeeps
<1>11. PoolSound(r)'
  BY <1>1, <1>2, <1>5, <1>6, <1>10, PoolKept DEF Asking
<1>12. CopySound(r)'
  BY <1>10, <1>11 DEF CopySound
<1> QED BY <1>2, <1>7, <1>8, <1>12, OneStep

\* Withdraw
LEMMA WithdrawStep ==
  ASSUME CopyInv, NEW r \in Requests, Withdraw(r)
  PROVE  CopyInv'
<1>1. Typed /\ CopySound(r) /\ IInv /\ PoolSound(r) /\ HandsSound(r)
  BY DEF CopyInv, CopySound
<1>2. /\ IInv' /\ \A s \in Requests \ {r} : PoolKeeps(s)
      /\ pool'.chunks[r] = pool.chunks[r]
      /\ pool'.pending[r] = NoLease /\ ~pool'.waiting[r]
  BY <1>1, Cancelling DEF Withdraw
<1>3. PICK p \in ProducerRec : p = producer[r]
  BY <1>1 DEF Typed
<1>4. PICK x \in {"read", "done"} : x = IF p.buf = Base THEN "read" ELSE "done"
  OBVIOUS
<1>5. [p EXCEPT !.pc = x] \in ProducerRec
  BY DEF ProducerRec
<1>6. /\ producer' \in [Requests -> ProducerRec]
      /\ \A s \in Requests \ {r} : producer'[s] = producer[s]
      /\ producer'[r].pc = x /\ producer'[r].buf = producer[r].buf
      /\ producer'[r].len = producer[r].len /\ producer'[r].end = producer[r].end
  <2>1. producer' = [producer EXCEPT ![r].pc = x]
    BY <1>3, <1>4 DEF Withdraw
  <2> QED BY <1>1, <1>3, <1>5, <2>1, ProducerGoes
<1>7. /\ UNCHANGED <<memory, consumer, queue, signal, closing, baseReady, cancelled, gone,
                     shut, announced, received, sent, ended, broken>>
      /\ producer[r].pc = "withdraw"
  BY DEF Withdraw
<1>8. Typed'
  BY <1>1, <1>6, <1>7 DEF Typed
<1>9. \A s \in Requests \ {r} : SameCopy(s) /\ MemoryKeeps(s)
  BY <1>6, <1>7 DEF SameCopy, MemoryKeeps, Place
<1>10. /\ InStep(r)' /\ EventsSound(r)' /\ HandsSound(r)' /\ Contiguous(r)' /\ BodySound(r)'
       /\ \A b : InFlight(r, b)' <=> InFlight(r, b)
  <2>1. /\ producer'[r].pc \in Reading \cup {"done"}
        /\ producer'[r].pc = "read" <=> producer[r].buf = Base
    BY <1>3, <1>4, <1>6 DEF Reading, Asking
  <2> QED BY <1>1, <1>6, <1>7, <2>1, AskingKeeps
<1>11. PoolSound(r)'
  BY <1>1, <1>2, <1>4, <1>6, <1>7, <1>10, PoolKept DEF Asking
<1>12. CopySound(r)'
  BY <1>10, <1>11 DEF CopySound
<1> QED BY <1>2, <1>8, <1>9, <1>12, OneStep

\* What a step of the producer towards its next buffer does.
Asks(r, p, q) ==
  /\ producer' = [producer EXCEPT ![r] = q]
  /\ \/ /\ q = [p EXCEPT !.pc = "request"] /\ p.pc = "acquire"
        /\ UNCHANGED poolVars /\ baseReady' = baseReady
     \/ /\ q = [p EXCEPT !.pc = "done"] /\ p.pc = "acquire"
        /\ UNCHANGED poolVars /\ baseReady' = baseReady
     \/ /\ q = [p EXCEPT !.pc = "wait"] /\ p.pc = "poll"
        /\ UNCHANGED poolVars /\ baseReady' = baseReady
     \/ /\ q = [p EXCEPT !.pc = "withdraw"] /\ p.pc = "wait"
        /\ UNCHANGED poolVars /\ baseReady' = baseReady
     \/ /\ q = [p EXCEPT !.pc = "accept"] /\ p.pc \in {"poll", "wait"}
        /\ TakeNotification(r) /\ baseReady' = baseReady

Takes(r, p, q) ==
  /\ producer' = [producer EXCEPT ![r] = q]
  /\ \/ q = [p EXCEPT !.buf = Base, !.pc = "read"] /\ p.pc = "acquire"
     \/ q = [p EXCEPT !.buf = Base, !.pc = "withdraw"] /\ p.pc \in {"poll", "wait"}
  /\ baseReady[r] /\ baseReady' = [baseReady EXCEPT ![r] = FALSE]
  /\ UNCHANGED poolVars

Elsewhere ==
  UNCHANGED <<memory, consumer, queue, signal, closing, cancelled, gone,
              shut, announced, received, sent, ended, broken>>

\* (no buffer taken)
LEMMA AskingStep ==
  ASSUME CopyInv, NEW r \in Requests, NEW p \in ProducerRec, p = producer[r],
         NEW q, Asks(r, p, q), Elsewhere
  PROVE  CopyInv'
<1>1. Typed /\ CopySound(r) /\ IInv /\ PoolSound(r) /\ HandsSound(r)
  BY DEF CopyInv, CopySound
<1>2. /\ q \in ProducerRec /\ q.buf = p.buf /\ q.end = p.end
      /\ q.pc \in {"request", "done", "wait", "withdraw", "accept"}
      /\ p.pc \in {"acquire", "poll", "wait"} /\ baseReady' = baseReady
  BY DEF Asks, ProducerRec
<1>3. /\ IInv' /\ \A s \in Requests : PoolKeeps(s)
      /\ pool'.chunks[r] = pool.chunks[r]
      /\ q.pc \notin Asking => p.pc \notin Asking
      /\ q.pc = "accept" => pool.pending[r] # NoLease /\ ~pool.waiting[r]
  <2>1. CASE UNCHANGED poolVars /\ q.pc # "accept" /\ (q.pc \notin Asking => p.pc \notin Asking)
    BY <1>1, <2>1, PoolStill
  <2>2. CASE TakeNotification(r) /\ q.pc = "accept"
    BY <1>1, <2>2, Accepting DEF PoolKeeps, Asking
  <2>3. \/ UNCHANGED poolVars /\ q.pc # "accept" /\ (q.pc \notin Asking => p.pc \notin Asking)
        \/ TakeNotification(r) /\ q.pc = "accept"
    BY DEF Asks, Asking, ProducerRec
  <2> QED BY <2>1, <2>2, <2>3
<1>4. /\ producer' \in [Requests -> ProducerRec] /\ producer'[r] = q
      /\ \A s \in Requests \ {r} : producer'[s] = producer[s]
  BY <1>1, <1>2 DEF Asks, Typed
<1>5. Typed'
  BY <1>1, <1>2, <1>4 DEF Typed, Elsewhere
<1>6. \A s \in Requests \ {r} : SameCopy(s) /\ MemoryKeeps(s)
  BY <1>2, <1>4 DEF SameCopy, MemoryKeeps, Place, Elsewhere
<1>7. producer[r].buf # Base
  BY <1>1, <1>2 DEF HandsSound
<1>8. /\ InStep(r)' /\ EventsSound(r)' /\ HandsSound(r)' /\ Contiguous(r)' /\ BodySound(r)'
      /\ \A b : InFlight(r, b)' <=> InFlight(r, b)
  <2>1. producer'[r].pc \in Reading \cup {"done"}
    BY <1>2, <1>4 DEF Reading, Asking
  <2> QED BY <1>1, <1>2, <1>4, <1>7, <2>1, AskingKeeps DEF Elsewhere
<1>9. PoolSound(r)'
  <2>1. producer'[r].pc \notin Asking => ~pool'.waiting[r] /\ pool'.pending[r] = NoLease
    BY <1>1, <1>3, <1>4 DEF PoolSound, PoolKeeps
  <2>2. producer'[r].pc = "accept" => ~pool'.waiting[r] /\ pool'.pending[r] # NoLease
    BY <1>3, <1>4 DEF PoolKeeps
  <2> QED BY <1>1, <1>3, <1>8, <2>1, <2>2, PoolKept DEF Elsewhere
<1>10. CopySound(r)'
  BY <1>8, <1>9 DEF CopySound
<1> QED BY <1>3, <1>5, <1>6, <1>10, OneStep

\* (the base taken)
LEMMA TakingStep ==
  ASSUME CopyInv, NEW r \in Requests, NEW p \in ProducerRec, p = producer[r],
         NEW q, Takes(r, p, q), Elsewhere
  PROVE  CopyInv'
<1>1. Typed /\ CopySound(r) /\ IInv /\ PoolSound(r) /\ HandsSound(r)
  BY DEF CopyInv, CopySound
<1>2. /\ q \in ProducerRec /\ q.buf = Base /\ q.end = p.end
      /\ \/ q.pc = "read" /\ p.pc = "acquire"
         \/ q.pc = "withdraw" /\ p.pc \in {"poll", "wait"}
      /\ Base \in Buffers
  BY DEF Takes, ProducerRec, Buffers
<1>3. IInv' /\ pool' = pool /\ \A s \in Requests : PoolKeeps(s)
  BY <1>1, PoolStill DEF Takes
<1>4. /\ producer' \in [Requests -> ProducerRec] /\ producer'[r] = q
      /\ \A s \in Requests \ {r} : producer'[s] = producer[s]
      /\ baseReady' \in [Requests -> BOOLEAN] /\ ~baseReady'[r] /\ baseReady[r]
      /\ \A s \in Requests \ {r} : baseReady'[s] = baseReady[s]
  BY <1>1, <1>2 DEF Takes, Typed
<1>5. Typed'
  BY <1>1, <1>4 DEF Typed, Elsewhere
<1>6. \A s \in Requests \ {r} : SameCopy(s) /\ MemoryKeeps(s)
  BY <1>4 DEF SameCopy, MemoryKeeps, Place, Elsewhere
<1>7. ~InFlight(r, Base)
  BY <1>1, <1>4 DEF HandsSound
<1>8. /\ InStep(r)' /\ EventsSound(r)' /\ HandsSound(r)' /\ Contiguous(r)' /\ BodySound(r)'
      /\ \A l \in Buffers : InFlight(r, l)' <=> InFlight(r, l) \/ l = Base
  BY <1>1, <1>2, <1>4, <1>7, TakingKeeps DEF Elsewhere
<1>9. PoolSound(r)'
  <2>1. \A l \in Leases : l \in pool'.chunks[r] <=> InFlight(r, l)'
    BY <1>1, <1>3, <1>8, MediaCopyAssumption DEF PoolSound, Buffers
  <2>2. producer'[r].pc \notin Asking => ~pool'.waiting[r] /\ pool'.pending[r] = NoLease
    BY <1>1, <1>2, <1>3, <1>4 DEF PoolSound, Asking
  <2> QED BY <1>1, <1>2, <1>4, <2>1, <2>2 DEF PoolSound, Elsewhere
<1>10. CopySound(r)'
  BY <1>8, <1>9 DEF CopySound
<1> QED BY <1>3, <1>5, <1>6, <1>10, OneStep

\* Acquire, Poll, Wait
LEMMA AcquirePollWaitStep ==
  ASSUME CopyInv, NEW r \in Requests, Acquire(r) \/ Poll(r) \/ Wait(r)
  PROVE  CopyInv'
<1>1. PICK p \in ProducerRec : p = producer[r]
  BY DEF CopyInv, Typed
<1>2. Elsewhere
  BY DEF Acquire, Poll, Wait, Elsewhere
<1>3. ASSUME Acquire(r)
      PROVE  \E q : Asks(r, p, q) \/ Takes(r, p, q)
  <2>1. CASE baseReady[r]
    <3>1. Takes(r, p, [p EXCEPT !.buf = Base, !.pc = "read"])
      BY <1>1, <1>3, <2>1 DEF Acquire, Takes
    <3> QED BY <3>1
  <2>2. CASE ~baseReady[r] /\ producerGone(r)
    <3>1. Asks(r, p, [p EXCEPT !.pc = "done"])
      BY <1>1, <1>3, <2>2 DEF Acquire, Asks
    <3> QED BY <3>1
  <2>3. CASE ~baseReady[r] /\ ~producerGone(r)
    <3>1. Asks(r, p, [p EXCEPT !.pc = "request"])
      BY <1>1, <1>3, <2>3 DEF Acquire, Asks
    <3> QED BY <3>1
  <2> QED BY <2>1, <2>2, <2>3
<1>4. ASSUME TakeBase(r), p.pc \in {"poll", "wait"}
      PROVE  \E q : Asks(r, p, q) \/ Takes(r, p, q)
  <2>1. Takes(r, p, [p EXCEPT !.buf = Base, !.pc = "withdraw"])
    BY <1>1, <1>4 DEF TakeBase, Takes
  <2> QED BY <2>1
<1>5. ASSUME TakeGrant(r), p.pc \in {"poll", "wait"}
      PROVE  \E q : Asks(r, p, q) \/ Takes(r, p, q)
  <2>1. Asks(r, p, [p EXCEPT !.pc = "accept"])
    BY <1>1, <1>5 DEF TakeGrant, Asks
  <2> QED BY <2>1
<1>6. ASSUME GiveUp(r), p.pc = "wait"
      PROVE  \E q : Asks(r, p, q) \/ Takes(r, p, q)
  <2>1. Asks(r, p, [p EXCEPT !.pc = "withdraw"])
    BY <1>1, <1>6 DEF GiveUp, Asks
  <2> QED BY <2>1
<1>7. ASSUME Poll(r)
      PROVE  \E q : Asks(r, p, q) \/ Takes(r, p, q)
  <2>1. CASE TakeBase(r) \/ TakeGrant(r)
    BY <1>1, <1>4, <1>5, <1>7, <2>1 DEF Poll
  <2>2. CASE /\ producer' = [producer EXCEPT ![r].pc = "wait"]
             /\ UNCHANGED <<poolVars, baseReady>>
    <3>1. Asks(r, p, [p EXCEPT !.pc = "wait"])
      BY <1>1, <1>7, <2>2 DEF Poll, Asks
    <3> QED BY <3>1
  <2> QED BY <1>7, <2>1, <2>2 DEF Poll
<1>8. \E q : Asks(r, p, q) \/ Takes(r, p, q)
  BY <1>1, <1>3, <1>4, <1>5, <1>6, <1>7 DEF Wait
<1>9. PICK q : Asks(r, p, q) \/ Takes(r, p, q)
  BY <1>8
<1> QED BY <1>1, <1>2, <1>9, AskingStep, TakingStep

\* Accept: a grant that was announced is still there, or the copy is over.
LEMMA AcceptStep ==
  ASSUME CopyInv, NEW r \in Requests, Accept(r)
  PROVE  CopyInv'
<1>1. Typed /\ CopySound(r) /\ IInv /\ PoolSound(r) /\ HandsSound(r)
  BY DEF CopyInv, CopySound
<1>2. PICK p \in ProducerRec : p = producer[r]
  BY <1>1 DEF Typed
<1>3. /\ UNCHANGED <<memory, consumer, queue, signal, closing, baseReady, cancelled, gone,
                     shut, announced, received, sent, ended>>
      /\ p.pc = "accept"
  BY <1>2 DEF Accept
<1>4. ~pool.waiting[r] /\ (pool.pending[r] # NoLease \/ producerGone(r))
  BY <1>1, <1>2, <1>3 DEF PoolSound
<1>5. CASE pool.pending[r] # NoLease
  <2>1. PICK b : b = pool.pending[r]
    OBVIOUS
  <2>2. AcceptOptional(r) /\ broken' = broken
    BY <1>5 DEF Accept
  <2>3. /\ IInv' /\ \A s \in Requests \ {r} : PoolKeeps(s)
        /\ b \in Leases \ pool.chunks[r]
        /\ pool'.chunks[r] = pool.chunks[r] \cup {b}
        /\ pool'.pending[r] = NoLease /\ ~pool'.waiting[r]
    BY <1>1, <2>1, <2>2, Accepting
  <2>4. PICK q : q = [p EXCEPT !.buf = b, !.pc = "read"]
    OBVIOUS
  <2>5. q \in ProducerRec /\ q.buf = b /\ q.pc = "read" /\ q.end = p.end
    BY <2>3, <2>4 DEF ProducerRec, Buffers
  <2>6. /\ producer' \in [Requests -> ProducerRec] /\ producer'[r] = q
        /\ \A s \in Requests \ {r} : producer'[s] = producer[s]
    <3>1. producer' = [producer EXCEPT ![r] = q]
      BY <1>2, <1>5, <2>1, <2>4 DEF Accept
    <3> QED BY <1>1, <2>5, <3>1 DEF Typed
  <2>7. Typed'
    BY <1>1, <1>3, <2>2, <2>6 DEF Typed
  <2>8. \A s \in Requests \ {r} : SameCopy(s) /\ MemoryKeeps(s)
    BY <1>3, <2>2, <2>6 DEF SameCopy, MemoryKeeps, Place
  <2>9. b \in Buffers /\ ~InFlight(r, b) /\ b # Base
    BY <1>1, <2>3, MediaCopyAssumption DEF PoolSound, Buffers
  <2>10. /\ InStep(r)' /\ EventsSound(r)' /\ HandsSound(r)' /\ Contiguous(r)' /\ BodySound(r)'
         /\ \A l \in Buffers : InFlight(r, l)' <=> InFlight(r, l) \/ l = b
    <3>1. /\ producer[r].pc = "accept" /\ producer'[r].pc = "read" /\ producer'[r].buf = b
          /\ producer'[r].end = producer[r].end /\ (baseReady'[r] => baseReady[r] /\ b # Base)
      BY <1>2, <1>3, <2>5, <2>6, <2>9
    <3> QED BY <1>1, <1>3, <2>2, <2>9, <3>1, TakingKeeps
  <2>11. PoolSound(r)'
    <3>1. \A l \in Leases : l \in pool'.chunks[r] <=> InFlight(r, l)'
      BY <1>1, <2>3, <2>10 DEF PoolSound, Buffers
    <3> QED BY <1>1, <2>2, <2>3, <2>5, <2>6, <3>1 DEF PoolSound
  <2>12. CopySound(r)'
    BY <2>10, <2>11 DEF CopySound
  <2> QED BY <2>3, <2>7, <2>8, <2>12, OneStep
<1>6. CASE pool.pending[r] = NoLease
  <2>1. UNCHANGED poolVars /\ producer' = [producer EXCEPT ![r].pc = "done"]
        /\ broken' = broken
    BY <1>4, <1>6 DEF Accept
  <2>2. IInv' /\ pool' = pool /\ \A s \in Requests : PoolKeeps(s)
    BY <1>1, <2>1, PoolStill
  <2>3. [p EXCEPT !.pc = "done"] \in ProducerRec
    BY DEF ProducerRec
  <2>4. /\ producer' \in [Requests -> ProducerRec]
        /\ \A s \in Requests \ {r} : producer'[s] = producer[s]
        /\ producer'[r].pc = "done" /\ producer'[r].buf = producer[r].buf
        /\ producer'[r].end = producer[r].end
    BY <1>1, <1>2, <2>1, <2>3, ProducerGoes
  <2>5. Typed'
    BY <1>1, <1>3, <2>1, <2>4 DEF Typed
  <2>6. \A s \in Requests \ {r} : SameCopy(s) /\ MemoryKeeps(s)
    BY <1>3, <2>1, <2>4 DEF SameCopy, MemoryKeeps, Place
  <2>7. producer[r].buf # Base
    BY <1>1, <1>2, <1>3 DEF HandsSound
  <2>8. /\ InStep(r)' /\ EventsSound(r)' /\ HandsSound(r)' /\ Contiguous(r)' /\ BodySound(r)'
        /\ \A b : InFlight(r, b)' <=> InFlight(r, b)
    BY <1>1, <1>2, <1>3, <2>1, <2>4, <2>7, AskingKeeps
  <2>9. PoolSound(r)'
    BY <1>1, <1>3, <1>4, <1>6, <2>1, <2>2, <2>4, <2>8, PoolKept
  <2>10. CopySound(r)'
    BY <2>8, <2>9 DEF CopySound
  <2> QED BY <2>2, <2>5, <2>6, <2>10, OneStep
<1> QED BY <1>5, <1>6

\* An event is queued.
LEMMA Queueing ==
  ASSUME NEW e \in Seq(Event), NEW x \in Event
  PROVE  /\ Append(e, x) \in Seq(Event) /\ Len(e) \in Nat /\ Len(Append(e, x)) = Len(e) + 1
         /\ \A i \in 1..Len(e) : i \in 1..Len(e) + 1 /\ Append(e, x)[i] = e[i]
         /\ Append(e, x)[Len(e) + 1] = x /\ Len(e) + 1 \in 1..Len(e) + 1
         /\ \A i \in 1..Len(e) + 1 : i \in 1..Len(e) \/ i = Len(e) + 1
OBVIOUS

\* What holds of a queue to which x was appended.
LEMMA QueuedSound ==
  ASSUME Typed, NEW r \in Requests, CopySound(r), ~closing[r], ~closing'[r],
         NEW x \in Event, queue'[r] = Append(queue[r], x),
         producer[r].pc \in {"publish", "publishEnd"},
         producer'[r].pc \in {"acquire", "publishEnd", "done"}, producer'[r].buf = NoBuffer,
         x.buf = producer[r].buf,
         x.end = "open" <=> x.buf # NoBuffer,
         x.end # "open" => producer'[r].pc = "done",
         UNCHANGED <<memory, consumer, closing, baseReady, cancelled, gone, shut,
                     announced, received, sent, ended, broken>>
  PROVE  /\ InStep(r)' /\ EventsSound(r)' /\ HandsSound(r)'
         /\ \A b \in Buffers : InFlight(r, b)' <=> InFlight(r, b)
         /\ Flowing(r) => \A i \in 1..Len(queue[r]) + 1 : Before(r, i)' = Before(r, i)
<1>1. /\ InStep(r) /\ EventsSound(r) /\ HandsSound(r) /\ PoolSound(r)
      /\ Contiguous(r) /\ BodySound(r)
  BY DEF CopySound
<1>2. PICK e \in Seq(Event) : e = queue[r]
  BY DEF Typed
<1>3. PICK f : f = Append(e, x)
  OBVIOUS
<1>4. /\ f \in Seq(Event) /\ Len(e) \in Nat /\ Len(f) = Len(e) + 1
      /\ \A i \in 1..Len(e) : i \in 1..Len(f) /\ f[i] = e[i]
      /\ f[Len(e) + 1] = x /\ Len(e) + 1 \in 1..Len(f)
      /\ \A i \in 1..Len(f) : i \in 1..Len(e) \/ i = Len(e) + 1
  BY <1>3, Queueing
<1>5. Events(r) = e /\ Events(r)' = f /\ queue'[r] = f
  BY <1>2, <1>3 DEF Events
<1>6. producer[r].pc \notin {"idle", "done"} /\ producer'[r].pc # "idle"
  OBVIOUS
<1>7. InStep(r)'
  <2>1. consumer'[r] = consumer[r] /\ consumer[r].pc \notin {"drain", "done", "idle"}
    BY <1>1, <1>6 DEF InStep
  <2> QED BY <1>1, <1>6, <2>1 DEF InStep, Cleaning
<1>8. \A i \in 1..Len(e) : e[i].end = "open" /\ e[i].buf # NoBuffer
  BY <1>1, <1>5, <1>6 DEF EventsSound
<1>9. EventsSound(r)'
  <2>1. ASSUME NEW i \in 1..Len(f)
        PROVE  /\ f[i].end = "open" <=> f[i].buf # NoBuffer
               /\ f[i].end # "open" => i = Len(f) /\ producer'[r].pc = "done"
    BY <1>4, <1>8
  <2> QED BY <1>5, <2>1 DEF EventsSound
<1>10. \A b \in Buffers : InFlight(r, b)' <=> InFlight(r, b)
  <2> SUFFICES ASSUME NEW b \in Buffers
               PROVE  InFlight(r, b)' <=> InFlight(r, b)
    OBVIOUS
  <2>1. b # NoBuffer
    BY MediaCopyAssumption DEF Buffers
  <2>2. (\E i \in 1..Len(f) : f[i].buf = b) <=> (x.buf = b \/ \E i \in 1..Len(e) : e[i].buf = b)
    BY <1>4
  <2>3. InFlight(r, b) <=> \/ x.buf = b \/ consumer[r].buf = b
                           \/ \E i \in 1..Len(e) : e[i].buf = b
    BY <1>5 DEF InFlight
  <2>4. InFlight(r, b)' <=> consumer[r].buf = b \/ \E i \in 1..Len(f) : f[i].buf = b
    BY <1>5, <2>1 DEF InFlight
  <2> QED BY <2>2, <2>3, <2>4
<1>11. HandsSound(r)'
  <2>1. (baseReady[r] => ~InFlight(r, Base))'
    BY <1>1, <1>10 DEF HandsSound, Buffers
  <2>2. \A i \in 1..Len(e) :
          /\ e[i].buf \notin {x.buf, consumer[r].buf}
          /\ \A k \in 1..Len(e) : e[k].buf = e[i].buf => k = i
    BY <1>1, <1>5, <1>8 DEF HandsSound
  <2>3. x.buf # NoBuffer => x.buf # consumer[r].buf
    BY <1>1 DEF HandsSound
  <2>4. ASSUME NEW i \in 1..Len(f), f[i].buf # NoBuffer
        PROVE  /\ f[i].buf \notin {NoBuffer, consumer[r].buf}
               /\ \A k \in 1..Len(f) : f[k].buf = f[i].buf => k = i
    <3>1. f[i].buf # consumer[r].buf
      BY <1>4, <2>2, <2>3, <2>4
    <3>2. ASSUME NEW k \in 1..Len(f), f[k].buf = f[i].buf
          PROVE  k = i
      <4>1. CASE i \in 1..Len(e) /\ k \in 1..Len(e)
        <5>1. e[k].buf = e[i].buf
          BY <1>4, <3>2, <4>1
        <5> QED BY <2>2, <4>1, <5>1
      <4>2. CASE i \in 1..Len(e) /\ k = Len(e) + 1
        <5>1. e[i].buf = x.buf
          BY <1>4, <3>2, <4>2
        <5> QED BY <2>2, <4>2, <5>1
      <4>3. CASE k \in 1..Len(e) /\ i = Len(e) + 1
        <5>1. e[k].buf = x.buf
          BY <1>4, <3>2, <4>3
        <5> QED BY <2>2, <4>3, <5>1
      <4> QED BY <1>4, <4>1, <4>2, <4>3
    <3> QED BY <2>4, <3>1, <3>2
  <2>5. (\A i \in 1..Len(Events(r)) : Events(r)[i].buf # NoBuffer =>
          /\ Events(r)[i].buf \notin {producer[r].buf, consumer[r].buf}
          /\ \A k \in 1..Len(Events(r)) : Events(r)[k].buf = Events(r)[i].buf => k = i)'
    BY <1>5, <2>4
  <2>6. NoBuffer # Base
    BY MediaCopyAssumption
  <2> QED BY <1>1, <2>1, <2>5, <2>6 DEF HandsSound
<1>12. Flowing(r) => \A i \in 1..Len(e) + 1 : Before(r, i)' = Before(r, i)
  <2> SUFFICES ASSUME Flowing(r), NEW i \in 1..Len(e) + 1
               PROVE  Before(r, i)' = Before(r, i)
    OBVIOUS
  <2>1. CASE i = 1
    BY <2>1 DEF Before, Begin
  <2>2. CASE i # 1
    <3>1. i - 1 \in 1..Len(e) /\ f[i - 1] = e[i - 1]
      BY <1>4, <2>2
    <3> QED BY <1>2, <1>5, <2>2, <3>1 DEF Before, Offset, Place
  <2> QED BY <2>1, <2>2
<1> QED BY <1>2, <1>7, <1>9, <1>10, <1>11, <1>12

\* Publish, on a queue that is closing
LEMMA PublishRefused ==
  ASSUME CopyInv, NEW r \in Requests, Publish(r), closing[r]
  PROVE  CopyInv'
<1>1. Typed /\ CopySound(r) /\ IInv
  BY DEF CopyInv
<1>2. /\ InStep(r) /\ EventsSound(r) /\ HandsSound(r) /\ PoolSound(r)
      /\ Contiguous(r) /\ BodySound(r)
  BY <1>1 DEF CopySound
<1>3. PICK p \in ProducerRec : p = producer[r]
  BY <1>1 DEF Typed
<1>4. PICK q : q = [p EXCEPT !.pc = "drop", !.end = "open"]
  OBVIOUS
<1>5. q \in ProducerRec /\ q.buf = p.buf /\ q.pc = "drop" /\ q.end = "open"
  BY <1>4 DEF ProducerRec, Terminals
<1>6. /\ UNCHANGED <<memory, consumer, queue, signal, closing, baseReady, cancelled, gone,
                     shut, announced, received, sent, ended, broken>>
      /\ UNCHANGED poolVars /\ p.pc = "publish"
  BY <1>3 DEF Publish
<1>7. /\ producer' \in [Requests -> ProducerRec] /\ producer'[r] = q
      /\ \A s \in Requests \ {r} : producer'[s] = producer[s]
  <2>1. producer' = [producer EXCEPT ![r] = q]
    BY <1>3, <1>4 DEF Publish
  <2> QED BY <1>1, <1>5, <2>1 DEF Typed
<1>8. IInv' /\ pool' = pool /\ \A s \in Requests : PoolKeeps(s)
  BY <1>1, <1>6, PoolStill
<1>9. Typed'
  BY <1>1, <1>6, <1>7 DEF Typed
<1>10. \A s \in Requests \ {r} : SameCopy(s) /\ MemoryKeeps(s)
  BY <1>6, <1>7 DEF SameCopy, MemoryKeeps, Place
<1>11. Events(r)' = Events(r)
  BY <1>6 DEF Events
<1>12. \A b : InFlight(r, b)' <=> InFlight(r, b)
  BY <1>3, <1>5, <1>6, <1>7, <1>11 DEF InFlight
<1>13. ~Flowing(r)'
  BY <1>2, <1>6 DEF InStep, Flowing, Cleaning
<1>14. InStep(r)'
  BY <1>2, <1>3, <1>5, <1>6, <1>7 DEF InStep, Cleaning
<1>15. EventsSound(r)'
  BY <1>2, <1>3, <1>5, <1>6, <1>7, <1>11 DEF EventsSound
<1>16. HandsSound(r)'
  BY <1>2, <1>3, <1>5, <1>6, <1>7, <1>11, <1>12 DEF HandsSound
<1>17. PoolSound(r)'
  BY <1>2, <1>3, <1>5, <1>6, <1>7, <1>8, <1>12 DEF PoolSound, producerGone, Asking
<1>18. Contiguous(r)'
  BY <1>13 DEF Contiguous
<1>19. BodySound(r)'
  BY <1>2, <1>5, <1>6, <1>7
     DEF BodySound, Kept, Offset, Limit, WholeBody, Place, Reading, Asking
<1>20. CopySound(r)'
  BY <1>14, <1>15, <1>16, <1>17, <1>18, <1>19 DEF CopySound
<1> QED BY <1>8, <1>9, <1>10, <1>20, OneStep

\* Publish, on an open queue: the piece goes from the producer's hands to the queue.
LEMMA PublishAccepted ==
  ASSUME CopyInv, NEW r \in Requests, Publish(r), ~closing[r]
  PROVE  CopyInv'
<1>1. Typed /\ CopySound(r) /\ IInv
  BY DEF CopyInv
<1>2. /\ InStep(r) /\ EventsSound(r) /\ HandsSound(r) /\ PoolSound(r)
      /\ Contiguous(r) /\ BodySound(r)
  BY <1>1 DEF CopySound
<1>3. PICK p \in ProducerRec : p = producer[r]
  BY <1>1 DEF Typed
<1>4. PICK z \in {"acquire", "publishEnd"} : z = IF p.end = "open" THEN "acquire" ELSE "publishEnd"
  OBVIOUS
<1>5. PICK q : q = [p EXCEPT !.buf = NoBuffer, !.pc = z]
  OBVIOUS
<1>6. q \in ProducerRec /\ q.buf = NoBuffer /\ q.pc = z /\ q.end = p.end /\ q.len = p.len
  BY <1>5 DEF ProducerRec
<1>7. /\ UNCHANGED <<memory, consumer, closing, baseReady, cancelled, gone,
                     shut, announced, received, sent, ended, broken>>
      /\ UNCHANGED poolVars /\ p.pc = "publish"
  BY <1>3 DEF Publish
<1>8. PICK x : x = [buf |-> p.buf, len |-> p.len, end |-> "open"]
  OBVIOUS
<1>9. x \in Event /\ x.buf = p.buf /\ x.len = p.len /\ x.end = "open"
  BY <1>8 DEF Event, ProducerRec, Terminals
<1>10. p.buf # NoBuffer /\ p.buf \in Buffers /\ p.len \in Nat
  BY <1>2, <1>3, <1>7, MediaCopyAssumption DEF HandsSound, ProducerRec
<1>11. PICK e \in Seq(Event) : e = queue[r]
  BY <1>1 DEF Typed
<1>12. PICK f : f = Append(e, x)
  OBVIOUS
<1>13. /\ f \in Seq(Event) /\ Len(e) \in Nat /\ Len(f) = Len(e) + 1
       /\ \A i \in 1..Len(e) : i \in 1..Len(f) /\ f[i] = e[i]
       /\ f[Len(e) + 1] = x /\ Len(e) + 1 \in 1..Len(f)
       /\ \A i \in 1..Len(f) : i \in 1..Len(e) \/ i = Len(e) + 1
  BY <1>9, <1>12, Queueing
<1>14. /\ producer' \in [Requests -> ProducerRec] /\ producer'[r] = q
       /\ \A s \in Requests \ {r} : producer'[s] = producer[s]
  <2>1. producer' = [producer EXCEPT ![r] = q]
    BY <1>3, <1>4, <1>5 DEF Publish
  <2> QED BY <1>1, <1>6, <2>1 DEF Typed
<1>15. /\ queue' \in [Requests -> Seq(Event)] /\ queue'[r] = f
       /\ \A s \in Requests \ {r} : queue'[s] = queue[s]
       /\ signal' \in [Requests -> BOOLEAN]
  <2>1. queue' = [queue EXCEPT ![r] = f]
    BY <1>3, <1>8, <1>11, <1>12 DEF Publish
  <2>2. signal' \in [Requests -> BOOLEAN]
    BY <1>1 DEF Publish, Typed
  <2> QED BY <1>1, <1>13, <2>1, <2>2 DEF Typed
<1>16. IInv' /\ pool' = pool /\ \A s \in Requests : PoolKeeps(s)
  BY <1>1, <1>7, PoolStill
<1>17. Typed'
  BY <1>1, <1>7, <1>14, <1>15 DEF Typed
<1>18. \A s \in Requests \ {r} : SameCopy(s) /\ MemoryKeeps(s)
  BY <1>7, <1>14, <1>15 DEF SameCopy, MemoryKeeps, Place
<1>19. /\ InStep(r)' /\ EventsSound(r)' /\ HandsSound(r)'
       /\ \A b \in Buffers : InFlight(r, b)' <=> InFlight(r, b)
       /\ Flowing(r) => \A i \in 1..Len(e) + 1 : Before(r, i)' = Before(r, i)
  <2>1. /\ ~closing'[r] /\ queue'[r] = Append(queue[r], x)
        /\ producer[r].pc \in {"publish", "publishEnd"}
        /\ producer'[r].pc \in {"acquire", "publishEnd", "done"} /\ producer'[r].buf = NoBuffer
        /\ x.buf = producer[r].buf
        /\ x.end = "open" <=> x.buf # NoBuffer
        /\ x.end # "open" => producer'[r].pc = "done"
    BY <1>3, <1>6, <1>7, <1>9, <1>10, <1>11, <1>12, <1>14, <1>15
  <2> QED BY <1>1, <1>7, <1>9, <1>11, <2>1, QueuedSound
<1>20. PoolSound(r)'
  <2>1. \A l \in Leases : l \in pool'.chunks[r] <=> InFlight(r, l)'
    BY <1>2, <1>16, <1>19 DEF PoolSound, Buffers
  <2>2. /\ producer[r].pc \notin Asking /\ producer'[r].pc \notin Asking
        /\ producer'[r].pc # "accept"
    BY <1>3, <1>6, <1>7, <1>14 DEF Asking
  <2> QED BY <1>2, <1>7, <1>16, <2>1, <2>2 DEF PoolSound
<1>21. Contiguous(r)'
  <2> SUFFICES ASSUME Flowing(r)' PROVE Contiguous(r)'
    BY DEF Contiguous
  <2>1. Flowing(r) /\ Offset(r, p.buf) = Before(r, Len(e) + 1)
    <3>1. Flowing(r)
      BY <1>7 DEF Flowing
    <3> QED BY <1>2, <1>3, <1>7, <1>11, <3>1 DEF Contiguous
  <2>2. /\ Kept(r, p.buf, p.len)
        /\ p.end \in {"open", "complete"} => Offset(r, p.buf) + p.len = received[r]
    BY <1>2, <1>3, <1>7 DEF BodySound
  <2>3. \A b : /\ Offset(r, b)' = Offset(r, b)
               /\ \A n : Kept(r, b, n)' <=> Kept(r, b, n)
    BY <1>7 DEF Offset, Kept, Limit, Place
  <2>4. \A i \in 1..Len(e) + 1 : Before(r, i)' = Before(r, i)
    BY <1>19, <2>1
  <2>5. (consumer[r].pc = "write" =>
           Kept(r, consumer[r].buf, consumer[r].len) /\ Offset(r, consumer[r].buf) = sent[r])'
    BY <1>2, <1>7, <2>1, <2>3 DEF Contiguous
  <2>6. \A i \in 1..Len(f) : f[i].end = "open" =>
          Kept(r, f[i].buf, f[i].len)' /\ Offset(r, f[i].buf)' = Before(r, i)'
    <3> SUFFICES ASSUME NEW i \in 1..Len(f), f[i].end = "open"
                 PROVE  Kept(r, f[i].buf, f[i].len)' /\ Offset(r, f[i].buf)' = Before(r, i)'
      OBVIOUS
    <3>1. CASE i \in 1..Len(e)
      <4>1. f[i] = e[i] /\ i \in 1..Len(e) + 1
        BY <1>13, <3>1
      <4>2. Kept(r, e[i].buf, e[i].len) /\ Offset(r, e[i].buf) = Before(r, i)
        BY <1>2, <1>11, <2>1, <3>1, <4>1 DEF Contiguous
      <4> QED BY <2>3, <2>4, <4>1, <4>2
    <3>2. CASE i = Len(e) + 1
      <4>1. f[i] = x /\ i \in 1..Len(e) + 1
        BY <1>13, <3>2
      <4> QED BY <1>9, <2>1, <2>2, <2>3, <2>4, <3>2, <4>1
    <3> QED BY <1>13, <3>1, <3>2
  <2>7. Before(r, Len(f) + 1)' = Offset(r, p.buf) + p.len
    <3>1. Before(r, Len(f) + 1)' = Offset(r, f[Len(f)].buf)' + f[Len(f)].len
      <4>1. Len(f) + 1 # 1 /\ (Len(f) + 1) - 1 = Len(f)
        BY <1>13
      <4> QED BY <1>15, <4>1 DEF Before, Offset, Place
    <3> QED BY <1>9, <1>13, <2>3, <3>1
  <2>8. \/ producer'[r].pc \in Reading
        \/ producer'[r].pc \in {"publishEnd", "drop"} /\ producer'[r].end = "complete"
        => received[r] = Before(r, Len(f) + 1)'
    <3>1. \/ producer'[r].pc \in Reading
          \/ producer'[r].pc \in {"publishEnd", "drop"} /\ producer'[r].end = "complete"
          => p.end \in {"open", "complete"}
      BY <1>4, <1>6, <1>14 DEF Reading, Asking
    <3> QED BY <2>2, <2>7, <3>1
  <2>9. \A i \in 1..Len(f) : f[i].end # "complete"
    <3>1. \A i \in 1..Len(e) : e[i].end = "open"
      BY <1>2, <1>3, <1>7, <1>11 DEF EventsSound, Events
    <3> QED BY <1>9, <1>13, <3>1
  <2>10. producer'[r].pc # "publish"
    BY <1>6, <1>14
  <2>11. (\A i \in 1..Len(queue[r]) : queue[r][i].end = "open" =>
           Kept(r, queue[r][i].buf, queue[r][i].len)
           /\ Offset(r, queue[r][i].buf) = Before(r, i))'
    BY <1>15, <2>6
  <2>12. /\ (producer[r].pc = "publish" =>
               Offset(r, producer[r].buf) = Before(r, Len(queue[r]) + 1))'
         /\ (\/ producer[r].pc \in Reading
             \/ producer[r].pc \in {"publishEnd", "drop"} /\ producer[r].end = "complete"
             => received[r] = Before(r, Len(queue[r]) + 1))'
         /\ (\A i \in 1..Len(queue[r]) :
               queue[r][i].end = "complete" => received[r] = Before(r, i))'
    BY <1>7, <1>15, <2>8, <2>9, <2>10
  <2> QED BY <2>5, <2>11, <2>12 DEF Contiguous
<1>22. BodySound(r)'
  <2>1. \A i \in 1..Len(f) : f[i].end = "complete" => WholeBody(r)
    <3>1. \A i \in 1..Len(e) : e[i].end = "complete" => WholeBody(r)
      BY <1>2, <1>11 DEF BodySound
    <3> QED BY <1>9, <1>13, <3>1
  <2>2. producer'[r].pc \in Reading <=> p.end = "open"
    BY <1>4, <1>6, <1>14 DEF Reading, Asking
  <2>3. /\ producer'[r].pc = "publishEnd" => p.end # "open"
        /\ producer'[r].pc # "publish" /\ producer'[r].pc # "drop" /\ producer'[r].end = p.end
    BY <1>4, <1>6, <1>14
  <2>4. /\ WholeBody(r)' <=> WholeBody(r)
        /\ Limit(r)' = Limit(r)
    BY <1>7 DEF WholeBody, Limit
  <2>5. /\ p.end = "open" => ~ended[r] /\ (announced[r] = Unknown \/ received[r] <= announced[r])
        /\ p.end = "complete" => WholeBody(r)
        /\ sent[r] <= Limit(r)
        /\ consumer[r].end = "complete" => WholeBody(r) /\ sent[r] = received[r]
    BY <1>2, <1>3, <1>7 DEF BodySound
  <2> QED BY <1>7, <1>15, <2>1, <2>2, <2>3, <2>4, <2>5 DEF BodySound
<1>23. CopySound(r)'
  BY <1>19, <1>20, <1>21, <1>22 DEF CopySound
<1> QED BY <1>16, <1>17, <1>18, <1>23, OneStep

\* The producer is done, or through with its buffer, and nothing else happens.
LEMMA LeavingKeeps ==
  ASSUME Typed, NEW r \in Requests, CopySound(r),
         UNCHANGED <<memory, consumer, queue, closing, baseReady, cancelled, gone, shut,
                     announced, received, sent, ended, broken>>,
         producer[r].pc \in {"drop", "publishEnd"},
         producer'[r].pc \in {"publishEnd", "done"}, producer'[r].buf = NoBuffer,
         producer'[r].end = producer[r].end,
         producer'[r].pc = "publishEnd" => producer[r].end # "open"
  PROVE  /\ InStep(r)' /\ EventsSound(r)' /\ HandsSound(r)' /\ Contiguous(r)' /\ BodySound(r)'
         /\ \A b \in Buffers : InFlight(r, b)' <=> InFlight(r, b) /\ b # producer[r].buf
<1>1. /\ InStep(r) /\ EventsSound(r) /\ HandsSound(r) /\ PoolSound(r)
      /\ Contiguous(r) /\ BodySound(r)
  BY DEF CopySound
<1>2. Events(r)' = Events(r)
  BY DEF Events
<1>3. \A b \in Buffers : InFlight(r, b)' <=> InFlight(r, b) /\ b # producer[r].buf
  <2> SUFFICES ASSUME NEW b \in Buffers
               PROVE  InFlight(r, b)' <=> InFlight(r, b) /\ b # producer[r].buf
    OBVIOUS
  <2>1. b # NoBuffer
    BY MediaCopyAssumption DEF Buffers
  <2>2. b = producer[r].buf =>
          consumer[r].buf # b /\ \A i \in 1..Len(Events(r)) : Events(r)[i].buf # b
    BY <1>1, <2>1 DEF HandsSound
  <2> QED BY <1>2, <2>1, <2>2 DEF InFlight
<1>4. InStep(r)'
  BY <1>1 DEF InStep, Cleaning
<1>5. EventsSound(r)'
  BY <1>1, <1>2 DEF EventsSound
<1>6. HandsSound(r)'
  <2>1. (baseReady[r] => ~InFlight(r, Base))'
    BY <1>1, <1>3 DEF HandsSound, Buffers
  <2>2. NoBuffer # Base
    BY MediaCopyAssumption
  <2> QED BY <1>1, <1>2, <2>1, <2>2 DEF HandsSound
<1>7. Contiguous(r)'
  <2>1. MemoryKeeps(r)
    BY DEF MemoryKeeps, Place
  <2>2. Flowing(r)' => Flowing(r) /\ Begin(r)' = Begin(r)
    BY DEF Flowing, Begin
  <2>3. producer'[r].pc \notin Reading \cup {"drop", "publish"}
    BY DEF Reading, Asking
  <2> QED BY <1>1, <2>1, <2>2, <2>3, StillContiguous
<1>8. BodySound(r)'
  <2>1. producer'[r].pc \notin Reading \cup {"drop", "publish"}
    BY DEF Reading, Asking
  <2> QED BY <1>1, <2>1 DEF BodySound, Kept, Offset, Limit, WholeBody, Place
<1> QED BY <1>3, <1>4, <1>5, <1>6, <1>7, <1>8

\* Drop
LEMMA DropStep ==
  ASSUME CopyInv, NEW r \in Requests, Drop(r)
  PROVE  CopyInv'
<1>1. Typed /\ CopySound(r) /\ IInv /\ HandsSound(r) /\ PoolSound(r)
  BY DEF CopyInv, CopySound
<1>2. PICK p \in ProducerRec : p = producer[r]
  BY <1>1 DEF Typed
<1>3. /\ UNCHANGED <<memory, consumer, queue, signal, closing, baseReady, cancelled, gone,
                     shut, announced, received, sent, ended>>
      /\ p.pc = "drop"
  BY <1>2 DEF Drop
<1>4. PICK z \in {"done", "publishEnd"} : z = IF p.end = "open" THEN "done" ELSE "publishEnd"
  OBVIOUS
<1>5. PICK q : q = [p EXCEPT !.buf = NoBuffer, !.pc = z]
  OBVIOUS
<1>6. q \in ProducerRec /\ q.buf = NoBuffer /\ q.pc = z /\ q.end = p.end
  BY <1>5 DEF ProducerRec
<1>7. /\ producer' \in [Requests -> ProducerRec] /\ producer'[r] = q
      /\ \A s \in Requests \ {r} : producer'[s] = producer[s]
  <2>1. producer' = [producer EXCEPT ![r] = q]
    BY <1>2, <1>4, <1>5 DEF Drop
  <2> QED BY <1>1, <1>6, <2>1 DEF Typed
<1>8. p.buf \in Buffers /\ InFlight(r, p.buf)
  BY <1>1, <1>2, <1>3 DEF HandsSound, InFlight, ProducerRec
<1>9. /\ IInv' /\ \A s \in Requests \ {r} : PoolKeeps(s)
      /\ PoolLetsGo(r)
      /\ \A l \in Leases : l \in pool'.chunks[r] <=> l \in pool.chunks[r] /\ l # p.buf
      /\ broken' = broken
  <2>1. CASE p.buf = Base
    <3>1. UNCHANGED poolVars /\ broken' = broken
      BY <1>2, <2>1 DEF Drop
    <3>2. IInv' /\ pool' = pool /\ \A s \in Requests : PoolKeeps(s)
      BY <1>1, <3>1, PoolStill
    <3>3. \A l \in Leases : l # p.buf
      BY <2>1, MediaCopyAssumption
    <3> QED BY <3>1, <3>2, <3>3 DEF PoolLetsGo
  <2>2. CASE p.buf # Base
    <3>1. p.buf \in Leases /\ p.buf \in pool.chunks[r]
      BY <1>1, <1>8, <2>2 DEF Buffers, PoolSound
    <3>2. ReleaseLease(r, p.buf)
      BY <1>2, <2>2 DEF Drop
    <3>3. /\ IInv' /\ \A s \in Requests \ {r} : PoolKeeps(s)
          /\ ValidLease(pool, r, p.buf)
          /\ pool'.chunks[r] = pool.chunks[r] \ {p.buf} /\ PoolLetsGo(r)
      BY <1>1, <3>1, <3>2, Releasing DEF ReleaseLease, PoolLetsGo
    <3>4. broken' = broken
      BY <1>1, <3>2, <3>3 DEF ReleaseLease, Typed, PoolSound
    <3> QED BY <3>3, <3>4
  <2> QED BY <2>1, <2>2
<1>10. Typed'
  BY <1>1, <1>3, <1>7, <1>9 DEF Typed
<1>11. \A s \in Requests \ {r} : SameCopy(s) /\ MemoryKeeps(s)
  BY <1>3, <1>7, <1>9 DEF SameCopy, MemoryKeeps, Place
<1>12. /\ InStep(r)' /\ EventsSound(r)' /\ HandsSound(r)' /\ Contiguous(r)' /\ BodySound(r)'
       /\ \A b \in Buffers : InFlight(r, b)' <=> InFlight(r, b) /\ b # producer[r].buf
  <2>1. /\ producer[r].pc = "drop" /\ producer'[r].pc \in {"publishEnd", "done"}
        /\ producer'[r].buf = NoBuffer /\ producer'[r].end = producer[r].end
        /\ producer'[r].pc = "publishEnd" => producer[r].end # "open"
    BY <1>2, <1>3, <1>4, <1>6, <1>7
  <2> QED BY <1>1, <1>3, <1>9, <2>1, LeavingKeeps
<1>13. PoolSound(r)'
  <2>1. \A l \in Leases : l \in pool'.chunks[r] <=> InFlight(r, l)'
    BY <1>1, <1>2, <1>9, <1>12 DEF PoolSound, Buffers
  <2>2. /\ producer[r].pc \notin Asking /\ producer'[r].pc \notin Asking
        /\ producer'[r].pc # "accept"
    BY <1>2, <1>3, <1>4, <1>6, <1>7 DEF Asking
  <2> QED BY <1>1, <1>9, <2>1, <2>2 DEF PoolSound, PoolLetsGo
<1>14. CopySound(r)'
  BY <1>12, <1>13 DEF CopySound
<1> QED BY <1>9, <1>10, <1>11, <1>14, OneStep

\* PublishEnd
LEMMA PublishEndStep ==
  ASSUME CopyInv, NEW r \in Requests, PublishEnd(r)
  PROVE  CopyInv'
<1>1. Typed /\ CopySound(r) /\ IInv
  BY DEF CopyInv
<1>2. /\ InStep(r) /\ EventsSound(r) /\ HandsSound(r) /\ PoolSound(r)
      /\ Contiguous(r) /\ BodySound(r)
  BY <1>1 DEF CopySound
<1>3. PICK p \in ProducerRec : p = producer[r]
  BY <1>1 DEF Typed
<1>4. [p EXCEPT !.pc = "done"] \in ProducerRec
  BY DEF ProducerRec
<1>5. /\ producer' \in [Requests -> ProducerRec]
      /\ \A s \in Requests \ {r} : producer'[s] = producer[s]
      /\ producer'[r].pc = "done" /\ producer'[r].buf = p.buf
      /\ producer'[r].end = p.end
  BY <1>1, <1>3, <1>4, ProducerGoes DEF PublishEnd
<1>6. /\ UNCHANGED <<memory, consumer, closing, baseReady, cancelled, gone,
                     shut, announced, received, sent, ended, broken>>
      /\ UNCHANGED poolVars /\ p.pc = "publishEnd"
  BY <1>3 DEF PublishEnd
<1>7. p.buf = NoBuffer /\ p.end # "open"
  <2>1. p.buf = NoBuffer
    BY <1>2, <1>3, <1>6 DEF HandsSound
  <2>2. p.end # "open"
    BY <1>2, <1>3, <1>6 DEF BodySound
  <2> QED BY <2>1, <2>2
<1>8. PICK x : x = [buf |-> NoBuffer, len |-> 0, end |-> p.end]
  OBVIOUS
<1>9. x \in Event /\ x.buf = NoBuffer /\ x.end = p.end
  <2>1. 0 \in 0..BufferSize
    BY MediaCopyAssumption
  <2> QED BY <1>8, <2>1 DEF Event, ProducerRec
<1>10. PICK e \in Seq(Event) : e = queue[r]
  BY <1>1 DEF Typed
<1>11. PICK f : f = Append(e, x)
  OBVIOUS
<1>12. /\ f \in Seq(Event) /\ Len(e) \in Nat /\ Len(f) = Len(e) + 1
       /\ \A i \in 1..Len(e) : i \in 1..Len(f) /\ f[i] = e[i]
       /\ f[Len(e) + 1] = x /\ Len(e) + 1 \in 1..Len(f)
       /\ \A i \in 1..Len(f) : i \in 1..Len(e) \/ i = Len(e) + 1
  BY <1>9, <1>11, Queueing
<1>13. /\ queue' \in [Requests -> Seq(Event)] /\ signal' \in [Requests -> BOOLEAN]
       /\ queue'[r] = IF closing[r] THEN e ELSE f
       /\ \A s \in Requests \ {r} : queue'[s] = queue[s]
  <2>1. CASE closing[r]
    BY <1>1, <1>10, <2>1 DEF PublishEnd, Typed
  <2>2. CASE ~closing[r]
    <3>1. queue' = [queue EXCEPT ![r] = f]
      BY <1>3, <1>8, <1>10, <1>11, <2>2 DEF PublishEnd
    <3>2. signal' \in [Requests -> BOOLEAN]
      BY <1>1, <2>2 DEF PublishEnd, Typed
    <3> QED BY <1>1, <1>12, <2>2, <3>1, <3>2 DEF Typed
  <2> QED BY <2>1, <2>2
<1>14. IInv' /\ pool' = pool /\ \A s \in Requests : PoolKeeps(s)
  BY <1>1, <1>6, PoolStill
<1>15. Typed'
  BY <1>1, <1>5, <1>6, <1>13 DEF Typed
<1>16. \A s \in Requests \ {r} : SameCopy(s) /\ MemoryKeeps(s)
  BY <1>5, <1>6, <1>13 DEF SameCopy, MemoryKeeps, Place
<1>17. ASSUME InStep(r)', EventsSound(r)', HandsSound(r)', Contiguous(r)', BodySound(r)',
              \A b \in Buffers : InFlight(r, b)' <=> InFlight(r, b)
       PROVE  CopySound(r)'
  <2>1. \A l \in Leases : l \in pool'.chunks[r] <=> InFlight(r, l)'
    BY <1>2, <1>14, <1>17 DEF PoolSound, Buffers
  <2>2. /\ producer[r].pc \notin Asking /\ producer'[r].pc \notin Asking
        /\ producer'[r].pc # "accept"
    BY <1>3, <1>5, <1>6 DEF Asking
  <2>3. PoolSound(r)'
    BY <1>2, <1>6, <1>14, <2>1, <2>2 DEF PoolSound
  <2> QED BY <1>17, <2>3 DEF CopySound
<1>18. CASE closing[r]
  <2>1. queue' = queue
    BY <1>18 DEF PublishEnd
  <2>2. \A b \in Buffers : b # NoBuffer
    BY MediaCopyAssumption DEF Buffers
  <2>3. /\ InStep(r)' /\ EventsSound(r)' /\ HandsSound(r)' /\ Contiguous(r)' /\ BodySound(r)'
        /\ \A b \in Buffers : InFlight(r, b)' <=> InFlight(r, b) /\ b # producer[r].buf
    BY <1>1, <1>3, <1>5, <1>6, <1>7, <2>1, LeavingKeeps
  <2>4. CopySound(r)'
    BY <1>3, <1>7, <1>17, <2>2, <2>3
  <2> QED BY <1>14, <1>15, <1>16, <2>4, OneStep
<1>19. CASE ~closing[r]
  <2>1. queue'[r] = f
    BY <1>13, <1>19
  <2>2. /\ InStep(r)' /\ EventsSound(r)' /\ HandsSound(r)'
        /\ \A b \in Buffers : InFlight(r, b)' <=> InFlight(r, b)
        /\ Flowing(r) => \A i \in 1..Len(e) + 1 : Before(r, i)' = Before(r, i)
    <3>1. /\ ~closing'[r] /\ queue'[r] = Append(queue[r], x)
          /\ producer[r].pc \in {"publish", "publishEnd"}
          /\ producer'[r].pc \in {"acquire", "publishEnd", "done"}
          /\ producer'[r].buf = NoBuffer /\ x.buf = producer[r].buf
          /\ x.end = "open" <=> x.buf # NoBuffer
          /\ x.end # "open" => producer'[r].pc = "done"
      BY <1>3, <1>5, <1>6, <1>7, <1>9, <1>10, <1>11, <1>19, <2>1
    <3> QED BY <1>1, <1>6, <1>9, <1>10, <1>19, <3>1, QueuedSound
  <2>3. producer'[r].pc \notin Reading \cup {"publish", "publishEnd", "drop"}
    BY <1>5 DEF Reading, Asking
  <2>4. Contiguous(r)'
    <3> SUFFICES ASSUME Flowing(r)' PROVE Contiguous(r)'
      BY DEF Contiguous
    <3>1. Flowing(r)
      BY <1>6 DEF Flowing
    <3>2. \A b : /\ Offset(r, b)' = Offset(r, b)
                 /\ \A n : Kept(r, b, n)' <=> Kept(r, b, n)
      BY <1>6 DEF Offset, Kept, Limit, Place
    <3>3. \A i \in 1..Len(e) + 1 : Before(r, i)' = Before(r, i)
      BY <2>2, <3>1
    <3>4. (consumer[r].pc = "write" =>
             Kept(r, consumer[r].buf, consumer[r].len)
             /\ Offset(r, consumer[r].buf) = sent[r])'
      BY <1>2, <1>6, <3>1, <3>2 DEF Contiguous
    <3>5. \A i \in 1..Len(f) : f[i].end = "open" =>
            Kept(r, f[i].buf, f[i].len)' /\ Offset(r, f[i].buf)' = Before(r, i)'
      <4> SUFFICES ASSUME NEW i \in 1..Len(f), f[i].end = "open"
                   PROVE  Kept(r, f[i].buf, f[i].len)' /\ Offset(r, f[i].buf)' = Before(r, i)'
        OBVIOUS
      <4>1. f[i] = e[i] /\ i \in 1..Len(e) + 1 /\ i \in 1..Len(e)
        BY <1>7, <1>9, <1>12
      <4>2. Kept(r, e[i].buf, e[i].len) /\ Offset(r, e[i].buf) = Before(r, i)
        BY <1>2, <1>10, <3>1, <4>1 DEF Contiguous
      <4> QED BY <3>2, <3>3, <4>1, <4>2
    <3>6. \A i \in 1..Len(f) : f[i].end = "complete" => received[r] = Before(r, i)'
      <4> SUFFICES ASSUME NEW i \in 1..Len(f), f[i].end = "complete"
                   PROVE  received[r] = Before(r, i)'
        OBVIOUS
      <4>1. CASE i \in 1..Len(e)
        <5>1. f[i] = e[i] /\ i \in 1..Len(e) + 1
          BY <1>12, <4>1
        <5>2. received[r] = Before(r, i)
          BY <1>2, <1>10, <3>1, <4>1, <5>1 DEF Contiguous
        <5> QED BY <3>3, <5>1, <5>2
      <4>2. CASE i = Len(e) + 1
        <5>1. p.end = "complete" /\ i \in 1..Len(e) + 1
          BY <1>9, <1>12, <4>2
        <5>2. received[r] = Before(r, Len(e) + 1)
          BY <1>2, <1>3, <1>6, <1>10, <3>1, <5>1 DEF Contiguous
        <5> QED BY <3>3, <4>2, <5>1, <5>2
      <4> QED BY <1>12, <4>1, <4>2
    <3>7. (\A i \in 1..Len(queue[r]) : queue[r][i].end = "open" =>
            Kept(r, queue[r][i].buf, queue[r][i].len)
            /\ Offset(r, queue[r][i].buf) = Before(r, i))'
      BY <2>1, <3>5
    <3>8. /\ (producer[r].pc = "publish" =>
                Offset(r, producer[r].buf) = Before(r, Len(queue[r]) + 1))'
          /\ (\/ producer[r].pc \in Reading
              \/ producer[r].pc \in {"publishEnd", "drop"} /\ producer[r].end = "complete"
              => received[r] = Before(r, Len(queue[r]) + 1))'
          /\ (\A i \in 1..Len(queue[r]) :
                queue[r][i].end = "complete" => received[r] = Before(r, i))'
      BY <1>6, <2>1, <2>3, <3>6
    <3> QED BY <3>4, <3>7, <3>8 DEF Contiguous
  <2>5. BodySound(r)'
    <3>1. \A i \in 1..Len(f) : f[i].end = "complete" => WholeBody(r)
      <4>1. \A i \in 1..Len(e) : e[i].end = "complete" => WholeBody(r)
        BY <1>2, <1>10 DEF BodySound
      <4>2. p.end = "complete" => WholeBody(r)
        BY <1>2, <1>3, <1>6 DEF BodySound
      <4> QED BY <1>9, <1>12, <4>1, <4>2
    <3>2. /\ WholeBody(r)' <=> WholeBody(r)
          /\ Limit(r)' = Limit(r)
      BY <1>6 DEF WholeBody, Limit
    <3>3. /\ sent[r] <= Limit(r)
          /\ consumer[r].end = "complete" => WholeBody(r) /\ sent[r] = received[r]
      BY <1>2 DEF BodySound
    <3> QED BY <1>6, <2>1, <2>3, <3>1, <3>2, <3>3 DEF BodySound
  <2>6. CopySound(r)'
    BY <1>17, <2>2, <2>4, <2>5
  <2> QED BY <1>14, <1>15, <1>16, <2>6, OneStep
<1> QED BY <1>18, <1>19
-----------------------------------------------------------------------------
(* A read *)

\* Two buffers in flight are two places in memory.
LEMMA Apart ==
  ASSUME IInv, NEW r \in Requests, NEW s \in Requests, PoolSound(r), PoolSound(s),
         NEW b \in Buffers, NEW d \in Buffers, InFlight(r, b), InFlight(s, d),
         r # s \/ b # d
  PROVE  Place(r, b) # Place(s, d)
<1>1. \A c \in Buffers \ {Base} : c \in Leases /\ c.chunk \in Chunks
  BY DEF Buffers, Leases
<1>2. \A q \in Requests : q \notin Chunks
  BY MediaCopyAssumption
<1>3. CASE b = Base \/ d = Base
  BY <1>1, <1>2, <1>3 DEF Place
<1>4. CASE b # Base /\ d # Base
  <2>1. b \in Leases /\ d \in Leases /\ b \in pool.chunks[r] /\ d \in pool.chunks[s]
    BY <1>1, <1>4 DEF PoolSound
  <2>2. /\ pool.owner[b.chunk] = r /\ pool.gen[b.chunk] = b.gen
        /\ pool.owner[d.chunk] = s /\ pool.gen[d.chunk] = d.gen
    BY <2>1 DEF IInv, PoolInv, LeaseInv
  <2>3. b.chunk = d.chunk => r = s /\ b.gen = d.gen
    BY <2>2
  <2>4. b.chunk = d.chunk /\ b.gen = d.gen => b = d
    BY <2>1 DEF Leases
  <2> QED BY <1>4, <2>3, <2>4 DEF Place
<1> QED BY <1>3, <1>4

\* What a read of r does to r.
LEMMA ReadDoes ==
  ASSUME Typed, NEW r \in Requests, BodySound(r), HandsSound(r), Read(r)
  PROVE  /\ Typed' /\ producer'[r].buf = producer[r].buf
         /\ producer'[r].pc \in {"publish", "drop"}
         /\ received'[r] \in Nat /\ received'[r] \in received[r]..received[r] + BufferSize
         /\ Limit(r)' \in Nat /\ Limit(r)' >= Limit(r)
         /\ \A x \in Chunks \cup Requests :
              x # Place(r, producer[r].buf) => memory'[x] = memory[x]
         /\ producer'[r].pc = "publish" =>
              /\ memory'[Place(r, producer[r].buf)] = <<r, received[r]>>
              /\ received[r] + producer'[r].len <= Limit(r)'
              /\ producer'[r].end # "failed" => received[r] + producer'[r].len = received'[r]
              /\ producer'[r].end = "open" =>
                   ~ended'[r] /\ (announced[r] = Unknown \/ received'[r] <= announced[r])
         /\ producer'[r].end = "complete" => WholeBody(r)'
         /\ producer'[r].pc = "drop" /\ producer'[r].end = "complete" => received'[r] = received[r]
         /\ \A s \in Requests \ {r} : /\ producer'[s] = producer[s]
                                      /\ received'[s] = received[s] /\ ended'[s] = ended[s]
<1>1. PICK n \in 0..BufferSize, how \in {"more", "eof", "error"} :
        /\ received[r] + n <= MaxBlocks
        /\ n = 0 => how # "more"
        /\ LET total == received[r] + n
               fits  == Allowed(r, n)
               end   == IF fits < n THEN "failed"
                        ELSE IF how = "more" THEN "open"
                        ELSE Classify(how, total, announced[r])
           IN /\ producer' = [producer EXCEPT ![r] = [producer[r] EXCEPT
                    !.pc = IF fits > 0 THEN "publish" ELSE "drop",
                    !.len = fits, !.end = end]]
              /\ memory' = IF n = 0 THEN memory
                           ELSE [memory EXCEPT ![Place(r, producer[r].buf)] = <<r, received[r]>>]
              /\ received' = [received EXCEPT ![r] = total]
              /\ ended' = [ended EXCEPT ![r] = how = "eof"]
  BY DEF Read
<1>2. PICK p \in ProducerRec : p = producer[r]
  BY DEF Typed
<1>3. PICK k : k = received[r]
  OBVIOUS
<1>4. PICK a : a = announced[r]
  OBVIOUS
<1>5. /\ k \in Nat /\ a \in Nat \cup {Unknown} /\ n \in Nat /\ n <= BufferSize
      /\ BufferSize \in Nat /\ k + n <= MaxBlocks /\ MaxBlocks \in Nat
  BY <1>1, <1>3, <1>4, Fields, MediaCopyAssumption
<1>6. p.pc = "read" /\ ~ended[r] /\ (a = Unknown \/ k <= a)
  BY <1>2, <1>3, <1>4 DEF BodySound, Reading, Read
<1>7. PICK m : m = Allowed(r, n)
  OBVIOUS
<1>8. /\ m \in Nat /\ m <= n
      /\ a = Unknown \/ k + m <= a
      /\ m < n => a # Unknown /\ k + m = a
      /\ m = n => a = Unknown \/ k + n <= a
  <2>1. CASE a = Unknown \/ k + n <= a
    <3>1. m = n
      BY <1>3, <1>4, <1>7, <2>1 DEF Allowed
    <3> QED BY <1>5, <2>1, <3>1
  <2>2. CASE ~(a = Unknown \/ k + n <= a)
    <3>1. a \in Nat /\ k <= a /\ k + n > a
      BY <1>5, <1>6, <2>2
    <3>2. m = n - (k + n - a)
      BY <1>3, <1>4, <1>7, <2>2 DEF Allowed
    <3> QED BY <1>5, <2>2, <3>1, <3>2
  <2> QED BY <2>1, <2>2
<1>9. PICK e : e = IF m < n THEN "failed"
                   ELSE IF how = "more" THEN "open" ELSE Classify(how, k + n, a)
  OBVIOUS
<1>10. PICK z : z = IF m > 0 THEN "publish" ELSE "drop"
  OBVIOUS
<1>11. /\ e \in Terminals
       /\ e # "failed" => m = n
       /\ e = "open" => how = "more"
       /\ e = "complete" => how = "eof" /\ (a = Unknown \/ k + n >= a)
  BY <1>8, <1>9 DEF Classify, Terminals
<1>12. PICK q : q = [p EXCEPT !.pc = z, !.len = m, !.end = e]
  OBVIOUS
<1>13. /\ q \in ProducerRec /\ q.pc = z /\ q.len = m /\ q.end = e /\ q.buf = p.buf
  <2>1. m \in 0..BufferSize /\ z \in {"publish", "drop"}
    BY <1>5, <1>8, <1>10
  <2> QED BY <1>11, <1>12, <2>1 DEF ProducerRec
<1>14. producer' = [producer EXCEPT ![r] = q]
  BY <1>1, <1>2, <1>3, <1>4, <1>7, <1>9, <1>10, <1>12
<1>15. /\ producer' \in [Requests -> ProducerRec] /\ producer'[r] = q
       /\ \A s \in Requests \ {r} : producer'[s] = producer[s]
  BY <1>13, <1>14 DEF Typed
<1>16. /\ received' \in [Requests -> 0..MaxBlocks] /\ received'[r] = k + n
       /\ \A s \in Requests \ {r} : received'[s] = received[s]
  <2>1. received' = [received EXCEPT ![r] = k + n] /\ k + n \in 0..MaxBlocks
    BY <1>1, <1>3, <1>5
  <2> QED BY <2>1 DEF Typed
<1>17. /\ ended' \in [Requests -> BOOLEAN] /\ ended'[r] = (how = "eof")
       /\ \A s \in Requests \ {r} : ended'[s] = ended[s]
  BY <1>1 DEF Typed
<1>18. Place(r, p.buf) \in Chunks \cup Requests
  <2>1. p.buf \in Buffers
    BY <1>2, <1>6 DEF HandsSound, ProducerRec
  <2> QED BY <2>1 DEF Place, Buffers, Leases
<1>19. /\ memory' \in [Chunks \cup Requests -> (Requests \cup {Nobody}) \X (0..MaxBlocks)]
       /\ \A x \in Chunks \cup Requests : x # Place(r, p.buf) => memory'[x] = memory[x]
       /\ n # 0 => memory'[Place(r, p.buf)] = <<r, k>>
  <2>1. CASE n = 0
    BY <1>1, <2>1 DEF Typed
  <2>2. CASE n # 0
    <3>1. memory' = [memory EXCEPT ![Place(r, p.buf)] = <<r, k>>]
      BY <1>1, <1>2, <1>3, <2>2
    <3>2. <<r, k>> \in (Requests \cup {Nobody}) \X (0..MaxBlocks)
      BY <1>5
    <3>3. memory \in [Chunks \cup Requests -> (Requests \cup {Nobody}) \X (0..MaxBlocks)]
      BY DEF Typed
    <3> QED BY <1>18, <3>1, <3>2, <3>3
  <2> QED BY <2>1, <2>2
<1>20. Typed'
  <2>1. UNCHANGED <<consumer, queue, signal, closing, baseReady, cancelled,
                    gone, shut, announced, sent, broken>>
    BY DEF Read
  <2> QED BY <1>15, <1>16, <1>17, <1>19, <2>1 DEF Typed
<1>21. announced'[r] = a
  BY <1>4 DEF Read
<1>22. /\ Limit(r) = k /\ Limit(r)' \in Nat /\ Limit(r)' >= k /\ k + m <= Limit(r)'
  BY <1>3, <1>4, <1>5, <1>6, <1>8, <1>16, <1>21 DEF Limit, Unknown
<1>23. e = "complete" => WholeBody(r)'
  <2> SUFFICES ASSUME e = "complete" PROVE WholeBody(r)'
    OBVIOUS
  <2>1. how = "eof" /\ m = n /\ (a = Unknown \/ k + n = a)
    BY <1>5, <1>8, <1>11
  <2>2. ended'[r]
    BY <1>17, <2>1
  <2> QED BY <1>16, <1>21, <2>1, <2>2 DEF WholeBody
<1>24. z = "publish" =>
         /\ memory'[Place(r, p.buf)] = <<r, k>> /\ k + m <= Limit(r)'
         /\ e # "failed" => k + m = k + n
         /\ e = "open" => ~ended'[r] /\ (a = Unknown \/ k + n <= a)
  <2> SUFFICES ASSUME z = "publish"
               PROVE  /\ memory'[Place(r, p.buf)] = <<r, k>> /\ k + m <= Limit(r)'
                      /\ e # "failed" => k + m = k + n
                      /\ e = "open" => ~ended'[r] /\ (a = Unknown \/ k + n <= a)
    OBVIOUS
  <2>1. n # 0
    BY <1>5, <1>8, <1>10
  <2>2. e = "open" => ~ended'[r] /\ m = n
    BY <1>11, <1>17
  <2> QED BY <1>8, <1>11, <1>19, <1>22, <2>1, <2>2
<1>25. z = "drop" /\ e = "complete" => k + n = k
  BY <1>5, <1>8, <1>10, <1>11
<1>26. z \in {"publish", "drop"} /\ k + n \in Nat /\ k + n \in k..k + BufferSize
  BY <1>5, <1>10
<1> QED BY <1>2, <1>3, <1>4, <1>13, <1>15, <1>16, <1>17, <1>19, <1>20, <1>22, <1>23, <1>24,
          <1>25, <1>26

\* Where the pieces begin does not change when the producer reads the next one.
LEMMA ReadElsewhere ==
  ASSUME Typed, NEW r \in Requests, CopySound(r), producer[r].pc = "read", Flowing(r),
         UNCHANGED <<consumer, queue, closing, sent>>,
         \A b \in Buffers : InFlight(r, b) /\ b # producer[r].buf =>
           memory'[Place(r, b)] = memory[Place(r, b)]
  PROVE  /\ \A i \in 1..Len(queue[r]) : /\ queue[r][i].end = "open"
                                        /\ queue[r][i].buf \in Buffers \ {producer[r].buf}
                                        /\ InFlight(r, queue[r][i].buf)
         /\ \A i \in 1..Len(queue[r]) + 1 : Before(r, i)' = Before(r, i)
<1>1. InStep(r) /\ EventsSound(r) /\ HandsSound(r)
  BY DEF CopySound
<1>2. queue[r] \in Seq(Event)
  BY Fields
<1>3. /\ Events(r) = queue[r]
      /\ \A i \in 1..Len(queue[r]) : queue[r][i].end = "open" =>
           queue[r][i].buf \in Buffers /\ InFlight(r, queue[r][i].buf)
  BY <1>1, Pieces
<1>4. ASSUME NEW i \in 1..Len(queue[r])
      PROVE  /\ queue[r][i].end = "open"
             /\ queue[r][i].buf \in Buffers \ {producer[r].buf}
             /\ InFlight(r, queue[r][i].buf)
  <2>1. queue[r][i].end = "open"
    BY <1>1, <1>3 DEF EventsSound
  <2>2. queue[r][i].buf # producer[r].buf
    BY <1>1, <1>3, <2>1 DEF EventsSound, HandsSound
  <2> QED BY <1>3, <2>1, <2>2
<1>5. ASSUME NEW i \in 1..Len(queue[r]) + 1
      PROVE  Before(r, i)' = Before(r, i)
  <2>1. CASE i = 1
    BY <2>1 DEF Before, Begin
  <2>2. CASE i # 1
    <3>1. i - 1 \in 1..Len(queue[r])
      BY <1>2, <2>2
    <3>2. Offset(r, queue[r][i - 1].buf)' = Offset(r, queue[r][i - 1].buf)
      BY <1>4, <3>1 DEF Offset, Place
    <3> QED BY <2>2, <3>2 DEF Before
  <2> QED BY <2>1, <2>2
<1> QED BY <1>4, <1>5

\* Read
LEMMA ReadStep ==
  ASSUME CopyInv, NEW r \in Requests, Read(r)
  PROVE  CopyInv'
<1>1. Typed /\ CopySound(r) /\ IInv
  BY DEF CopyInv
<1>2. /\ InStep(r) /\ EventsSound(r) /\ HandsSound(r) /\ PoolSound(r)
      /\ Contiguous(r) /\ BodySound(r)
  BY <1>1 DEF CopySound
<1>3. /\ UNCHANGED <<poolVars, consumer, queue, signal, closing, baseReady, cancelled,
                     gone, shut, announced, sent, broken>>
      /\ producer[r].pc = "read"
  BY DEF Read
<1>4. /\ Typed' /\ producer'[r].buf = producer[r].buf
      /\ producer'[r].pc \in {"publish", "drop"}
      /\ received'[r] \in Nat
      /\ Limit(r)' \in Nat /\ Limit(r)' >= Limit(r)
      /\ \A x \in Chunks \cup Requests :
           x # Place(r, producer[r].buf) => memory'[x] = memory[x]
      /\ producer'[r].pc = "publish" =>
           /\ memory'[Place(r, producer[r].buf)] = <<r, received[r]>>
           /\ received[r] + producer'[r].len <= Limit(r)'
           /\ producer'[r].end # "failed" => received[r] + producer'[r].len = received'[r]
           /\ producer'[r].end = "open" =>
                ~ended'[r] /\ (announced[r] = Unknown \/ received'[r] <= announced[r])
      /\ producer'[r].end = "complete" => WholeBody(r)'
      /\ producer'[r].pc = "drop" /\ producer'[r].end = "complete" => received'[r] = received[r]
      /\ \A s \in Requests \ {r} : /\ producer'[s] = producer[s]
                                   /\ received'[s] = received[s] /\ ended'[s] = ended[s]
  BY <1>1, <1>2, ReadDoes
<1>5. IInv' /\ pool' = pool /\ \A s \in Requests : PoolKeeps(s)
  BY <1>1, <1>3, PoolStill
<1>6. producer[r].buf \in Buffers /\ InFlight(r, producer[r].buf)
  BY <1>1, <1>2, <1>3 DEF Typed, ProducerRec, HandsSound, InFlight
<1>7. \A s \in Requests : \A b \in Buffers : InFlight(s, b) /\ (s # r \/ b # producer[r].buf) =>
        memory'[Place(s, b)] = memory[Place(s, b)]
  <2> SUFFICES ASSUME NEW s \in Requests, NEW b \in Buffers, InFlight(s, b),
                      s # r \/ b # producer[r].buf
               PROVE  memory'[Place(s, b)] = memory[Place(s, b)]
    OBVIOUS
  <2>1. PoolSound(s)
    BY DEF CopyInv, CopySound
  <2>2. Place(s, b) # Place(r, producer[r].buf)
    BY <1>1, <1>2, <1>6, <2>1, Apart
  <2>3. Place(s, b) \in Chunks \cup Requests
    BY DEF Place, Buffers, Leases
  <2> QED BY <1>4, <2>2, <2>3
<1>8. \A s \in Requests \ {r} : SameCopy(s) /\ MemoryKeeps(s)
  BY <1>3, <1>4, <1>7 DEF SameCopy, MemoryKeeps
<1>9. Events(r)' = Events(r) /\ \A b : InFlight(r, b)' <=> InFlight(r, b)
  BY <1>3, <1>4 DEF Events, InFlight
<1>10. producer[r].pc \notin {"idle", "done"} /\ producer'[r].pc \notin {"idle", "done"}
       /\ producer[r].pc \notin Asking /\ producer'[r].pc \notin Asking
       /\ producer'[r].pc \notin Reading /\ producer[r].pc \in Reading
  BY <1>3, <1>4 DEF Asking, Reading
<1>11. InStep(r)'
  BY <1>2, <1>3, <1>10 DEF InStep, Cleaning
<1>12. EventsSound(r)'
  BY <1>2, <1>9, <1>10 DEF EventsSound
<1>13. HandsSound(r)'
  <2>1. producer[r].buf # NoBuffer
    BY <1>2, <1>3 DEF HandsSound
  <2> QED BY <1>2, <1>3, <1>4, <1>9, <2>1 DEF HandsSound
<1>14. PoolSound(r)'
  <2>1. producer'[r].pc # "accept"
    BY <1>4
  <2> QED BY <1>2, <1>3, <1>5, <1>9, <1>10, <2>1 DEF PoolSound
<1>15. \A b \in Buffers : InFlight(r, b) /\ b # producer[r].buf =>
         /\ Offset(r, b)' = Offset(r, b)
         /\ \A n \in Nat : Kept(r, b, n) => Kept(r, b, n)'
  <2> SUFFICES ASSUME NEW b \in Buffers, InFlight(r, b), b # producer[r].buf
               PROVE  /\ Offset(r, b)' = Offset(r, b)
                      /\ \A n \in Nat : Kept(r, b, n) => Kept(r, b, n)'
    OBVIOUS
  <2>1. memory'[Place(r, b)] = memory[Place(r, b)]
    BY <1>7
  <2>2. Offset(r, b) \in Nat
    <3>1. Place(r, b) \in Chunks \cup Requests
      BY DEF Place, Buffers, Leases
    <3> QED BY <1>1, <3>1, MediaCopyAssumption DEF Typed, Offset
  <2>3. Limit(r) \in Nat
    BY <1>1, Fields DEF Limit
  <2> QED BY <1>4, <2>1, <2>2, <2>3 DEF Kept, Offset, Place
<1>16. ~ended[r] /\ received[r] = Limit(r) /\ consumer[r].end # "complete"
       /\ \A i \in 1..Len(queue[r]) : queue[r][i].end # "complete"
  BY <1>2, <1>10 DEF BodySound, WholeBody, Limit
<1>17. producer'[r].pc = "publish" =>
         /\ (Kept(r, producer[r].buf, producer[r].len))'
         /\ (Offset(r, producer[r].buf))' = received[r]
  <2> SUFFICES ASSUME producer'[r].pc = "publish"
               PROVE  /\ (Kept(r, producer[r].buf, producer[r].len))'
                      /\ (Offset(r, producer[r].buf))' = received[r]
    OBVIOUS
  <2>1. PICK c : c = Place(r, producer[r].buf)
    OBVIOUS
  <2>2. /\ memory'[c] = <<r, received[r]>> /\ producer'[r].buf = producer[r].buf
        /\ received[r] + producer'[r].len <= Limit(r)'
    BY <1>4, <2>1
  <2>3. Place(r, producer[r].buf)' = c
    BY <2>1, <2>2 DEF Place
  <2> QED BY <2>2, <2>3 DEF Kept, Offset
<1>18. Contiguous(r)'
  <2> SUFFICES ASSUME Flowing(r)' PROVE Contiguous(r)'
    BY DEF Contiguous
  <2>1. Flowing(r)
    BY <1>3 DEF Flowing
  <2>2. /\ \A i \in 1..Len(queue[r]) : /\ queue[r][i].end = "open"
                                       /\ queue[r][i].buf \in Buffers \ {producer[r].buf}
                                       /\ InFlight(r, queue[r][i].buf)
        /\ \A i \in 1..Len(queue[r]) + 1 : Before(r, i)' = Before(r, i)
    BY <1>1, <1>3, <1>7, <2>1, ReadElsewhere
  <2>3. queue[r] \in Seq(Event) /\ Len(queue[r]) \in Nat
    BY <1>1, Fields
  <2>4. consumer[r].pc = "write" => /\ Kept(r, consumer[r].buf, consumer[r].len)'
                                    /\ Offset(r, consumer[r].buf)' = sent[r]
    <3> SUFFICES ASSUME consumer[r].pc = "write"
                 PROVE  /\ Kept(r, consumer[r].buf, consumer[r].len)'
                        /\ Offset(r, consumer[r].buf)' = sent[r]
      OBVIOUS
    <3>1. /\ consumer[r].buf \in Buffers /\ consumer[r].len \in Nat
          /\ consumer[r].buf # producer[r].buf /\ InFlight(r, consumer[r].buf)
      BY <1>1, <1>2, MediaCopyAssumption DEF Typed, ConsumerRec, HandsSound, InFlight
    <3>2. /\ Kept(r, consumer[r].buf, consumer[r].len)
          /\ Offset(r, consumer[r].buf) = sent[r]
      BY <1>2, <2>1 DEF Contiguous
    <3>3. /\ Offset(r, consumer[r].buf)' = Offset(r, consumer[r].buf)
          /\ Kept(r, consumer[r].buf, consumer[r].len)'
      BY <1>3, <1>15, <3>1, <3>2
    <3> QED BY <3>2, <3>3
  <2>5. \A i \in 1..Len(queue[r]) : /\ Kept(r, queue[r][i].buf, queue[r][i].len)'
                                    /\ Offset(r, queue[r][i].buf)' = Before(r, i)'
    <3> SUFFICES ASSUME NEW i \in 1..Len(queue[r])
                 PROVE  /\ Kept(r, queue[r][i].buf, queue[r][i].len)'
                        /\ Offset(r, queue[r][i].buf)' = Before(r, i)'
      OBVIOUS
    <3>1. /\ Kept(r, queue[r][i].buf, queue[r][i].len)
          /\ Offset(r, queue[r][i].buf) = Before(r, i)
      BY <1>2, <2>1, <2>2 DEF Contiguous
    <3>2. queue[r][i].len \in Nat
      <4>1. queue[r][i] \in Event
        BY <2>3
      <4> QED BY <4>1, MediaCopyAssumption DEF Event
    <3>3. i \in 1..Len(queue[r]) + 1
      BY <2>3
    <3>4. PICK x : x = queue[r][i]
      OBVIOUS
    <3>5. /\ Kept(r, x.buf, x.len)' /\ Offset(r, x.buf)' = Offset(r, x.buf)
      BY <1>15, <2>2, <3>1, <3>2, <3>4
    <3> QED BY <1>3, <2>2, <3>1, <3>3, <3>4, <3>5
  <2>6. received[r] = Before(r, Len(queue[r]) + 1)
        /\ Before(r, Len(queue[r]) + 1)' = Before(r, Len(queue[r]) + 1)
    <3>1. Len(queue[r]) + 1 \in 1..Len(queue[r]) + 1
      BY <2>3
    <3>2. received[r] = Before(r, Len(queue[r]) + 1)
      BY <1>2, <1>10, <2>1 DEF Contiguous
    <3>3. PICK j \in 1..Len(queue[r]) + 1 : j = Len(queue[r]) + 1
      BY <3>1
    <3>4. Before(r, j)' = Before(r, j)
      BY <2>2
    <3>5. (Len(queue[r]) + 1)' = j
      BY <1>3, <3>3
    <3> QED BY <3>2, <3>3, <3>4, <3>5
  <2>7. (consumer[r].pc = "write" =>
           Kept(r, consumer[r].buf, consumer[r].len)
           /\ Offset(r, consumer[r].buf) = sent[r])'
    BY <1>3, <2>4
  <2>8. (\A i \in 1..Len(queue[r]) : queue[r][i].end = "open" =>
           Kept(r, queue[r][i].buf, queue[r][i].len)
           /\ Offset(r, queue[r][i].buf) = Before(r, i))'
    BY <1>3, <2>5
  <2>9. (producer[r].pc = "publish" =>
           Offset(r, producer[r].buf) = Before(r, Len(queue[r]) + 1))'
    BY <1>3, <1>4, <1>17, <2>6
  <2>10. (\/ producer[r].pc \in Reading
          \/ producer[r].pc \in {"publishEnd", "drop"} /\ producer[r].end = "complete"
          => received[r] = Before(r, Len(queue[r]) + 1))'
    BY <1>3, <1>4, <1>10, <2>6
  <2>11. (\A i \in 1..Len(queue[r]) :
            queue[r][i].end = "complete" => received[r] = Before(r, i))'
    BY <1>3, <1>16
  <2> QED BY <2>7, <2>8, <2>9, <2>10, <2>11 DEF Contiguous
<1>19. BodySound(r)'
  <2>1. (sent[r] <= Limit(r))'
    <3>1. sent[r] \in Nat /\ Limit(r) \in Nat /\ sent[r] <= Limit(r)
      BY <1>1, <1>2, Fields DEF BodySound, Limit
    <3> QED BY <1>3, <1>4, <3>1
  <2>2. (producer[r].pc = "publish" =>
          /\ Kept(r, producer[r].buf, producer[r].len)
          /\ producer[r].end \in {"open", "complete"} =>
               Offset(r, producer[r].buf) + producer[r].len = received[r])'
    <3>1. producer'[r].end \in {"open", "complete"} => producer'[r].end # "failed"
      OBVIOUS
    <3> QED BY <1>4, <1>17, <3>1
  <2>3. (\/ producer[r].pc \in Reading
         \/ producer[r].pc = "publish" /\ producer[r].end = "open"
         => ~ended[r] /\ (announced[r] = Unknown \/ received[r] <= announced[r]))'
    BY <1>3, <1>4, <1>10
  <2>4. (producer[r].pc \in {"publish", "publishEnd", "drop"} /\ producer[r].end = "complete"
         => WholeBody(r))'
    BY <1>4
  <2>5. (\A i \in 1..Len(queue[r]) : queue[r][i].end = "complete" => WholeBody(r))'
    BY <1>3, <1>16
  <2>6. (consumer[r].end = "complete" => WholeBody(r) /\ sent[r] = received[r])'
    BY <1>3, <1>16
  <2>7. (producer[r].pc = "publishEnd" => producer[r].end # "open")'
        /\ (producer[r].pc \in Reading => ~ended[r])'
    BY <1>4, <1>10
  <2> QED BY <2>1, <2>2, <2>3, <2>4, <2>5, <2>6, <2>7 DEF BodySound
<1>20. CopySound(r)'
  BY <1>11, <1>12, <1>13, <1>14, <1>18, <1>19 DEF CopySound
<1> QED BY <1>4, <1>5, <1>8, <1>20, OneStep
-----------------------------------------------------------------------------
(* The invariant is inductive *)

\* Nothing was started.
LEMMA CopyInitLemma == CopyInit => CopyInv
<1> SUFFICES ASSUME CopyInit PROVE CopyInv
  OBVIOUS
<1> USE MediaCopyAssumption
<1>1. IInv /\ \A r \in Requests : /\ pool.chunks[r] = {} /\ ~pool.waiting[r]
                                  /\ pool.pending[r] = NoLease
  BY InitLemma DEF CopyInit, Init
<1>2. \A r \in Requests :
        /\ producer[r] = [pc |-> "idle", buf |-> NoBuffer, len |-> 0, end |-> "open"]
        /\ consumer[r] = [pc |-> "idle", buf |-> NoBuffer, len |-> 0, end |-> "open",
                          drained |-> <<>>]
        /\ queue[r] = <<>> /\ ~closing[r] /\ ~baseReady[r] /\ ~ended[r] /\ ~broken[r]
        /\ announced[r] = Unknown /\ received[r] = 0 /\ sent[r] = 0
  BY DEF CopyInit
<1>3. Typed
  <2>1. [pc |-> "idle", buf |-> NoBuffer, len |-> 0, end |-> "open"] \in ProducerRec
    BY DEF ProducerRec, Terminals
  <2>2. <<>> \in Seq(Event)
    OBVIOUS
  <2>3. [pc |-> "idle", buf |-> NoBuffer, len |-> 0, end |-> "open", drained |-> <<>>]
          \in ConsumerRec
    BY <2>2 DEF ConsumerRec, Terminals
  <2>4. producer \in [Requests -> ProducerRec] /\ consumer \in [Requests -> ConsumerRec]
    BY <2>1, <2>3 DEF CopyInit
  <2>5. 0 \in 0..MaxBlocks
    OBVIOUS
  <2> QED BY <2>2, <2>4, <2>5 DEF Typed, CopyInit
<1>4. ASSUME NEW r \in Requests
      PROVE  CopySound(r)
  <2>1. Events(r) = <<>> /\ Len(queue[r]) = 0
    BY <1>2 DEF Events
  <2>2. InStep(r)
    BY <1>2 DEF InStep, Cleaning
  <2>3. EventsSound(r)
    BY <2>1 DEF EventsSound
  <2>4. HandsSound(r)
    BY <1>2, <2>1 DEF HandsSound
  <2>5. PoolSound(r)
    BY <1>1, <1>2, <2>1 DEF PoolSound, InFlight
  <2>6. Contiguous(r)
    BY <1>2, <2>1 DEF Contiguous, Reading, Asking
  <2>7. BodySound(r)
    BY <1>2, <2>1 DEF BodySound, Limit, Reading, Asking
  <2> QED BY <2>2, <2>3, <2>4, <2>5, <2>6, <2>7 DEF CopySound
<1> QED BY <1>1, <1>3, <1>4 DEF CopyInv

\* Nothing happens.
LEMMA CopyStutter ==
  ASSUME CopyInv, UNCHANGED copyVars
  PROVE  CopyInv'
<1>1. IInv'
  BY NextLemma DEF CopyInv, copyVars, vars
<1>2. Typed'
  BY DEF CopyInv, Typed, copyVars
<1>3. ASSUME NEW s \in Requests
      PROVE  CopySound(s)'
  <2>1. SameCopy(s) /\ PoolKeeps(s) /\ MemoryKeeps(s)
    BY DEF SameCopy, PoolKeeps, MemoryKeeps, Place, copyVars
  <2> QED BY <2>1, Bystander DEF CopyInv
<1> QED BY <1>1, <1>2, <1>3 DEF CopyInv

\* Every step keeps the invariant.
LEMMA CopyNextLemma == CopyInv /\ [CopyNext]_copyVars => CopyInv'
<1> SUFFICES ASSUME CopyInv, [CopyNext]_copyVars PROVE CopyInv'
  OBVIOUS
<1>1. CASE UNCHANGED copyVars
  BY <1>1, CopyStutter
<1>2. ASSUME NEW r \in Requests, Start(r) \/ Disconnect(r) \/ Read(r)
      PROVE  CopyInv'
  BY <1>2, StartStep, DisconnectStep, ReadStep
<1>3. ASSUME NEW r \in Requests, ProducerStep(r)
      PROVE  CopyInv'
  <2>1. CASE Publish(r)
    BY <2>1, PublishRefused, PublishAccepted
  <2>2. CASE PublishEnd(r)
    BY <2>2, PublishEndStep
  <2>3. CASE Drop(r)
    BY <2>3, DropStep
  <2>4. CASE Acquire(r) \/ Poll(r) \/ Wait(r)
    BY <2>4, AcquirePollWaitStep
  <2>5. CASE Request(r)
    BY <2>5, RequestStep
  <2>6. CASE Withdraw(r)
    BY <2>6, WithdrawStep
  <2>7. CASE Accept(r)
    BY <2>7, AcceptStep
  <2> QED BY <1>3, <2>1, <2>2, <2>3, <2>4, <2>5, <2>6, <2>7 DEF ProducerStep
<1>4. ASSUME NEW r \in Requests, ConsumerStep(r)
      PROVE  CopyInv'
  <2>1. CASE NextEvent(r)
    BY <2>1, NextEventStep
  <2>2. CASE Sleep(r)
    BY <2>2, SleepStep
  <2>3. CASE Write(r)
    BY <2>3, WriteStep
  <2>4. CASE Return(r)
    BY <2>4, ReturnStep
  <2>5. CASE CloseQueue(r)
    BY <2>5, CloseQueueStep
  <2>6. CASE CancelProducer(r) \/ CloseSource(r) \/ Join(r)
    BY <2>6, CleanupSteps
  <2>7. CASE CleanRequest(r)
    BY <2>7, CleanRequestStep
  <2>8. CASE Drain(r)
    BY <2>8, DrainStep
  <2>9. CASE Finish(r)
    BY <2>9, FinishStep
  <2> QED BY <1>4, <2>1, <2>2, <2>3, <2>4, <2>5, <2>6, <2>7, <2>8, <2>9 DEF ConsumerStep
<1> QED BY <1>1, <1>2, <1>3, <1>4 DEF CopyNext

\* The copies stay sound, whatever the interleaving and the failures.
THEOREM CopiesStaySound == CopySpec => []CopyInv
<1>1. CopyInit => CopyInv
  BY CopyInitLemma
<1>2. CopyInv /\ [CopyNext]_copyVars => CopyInv'
  BY CopyNextLemma
<1> QED BY <1>1, <1>2, PTL DEF CopySpec

\* The code never meets errMediaBufferCopyInvariant, and when a copy returns it has given
\* back its chunks, its place in the queue and its grant.
THEOREM BuffersAlwaysSound == CopySpec => []BuffersSound
<1>1. CopyInv => BuffersSound
  <2> SUFFICES ASSUME CopyInv PROVE BuffersSound
    OBVIOUS
  <2>1. TypeOK
    BY DEF CopyInv, IInv, PoolInv, TypeOK
  <2>2. ASSUME NEW r \in Requests
        PROVE  /\ producer[r].buf \in Buffers \cup {NoBuffer}
               /\ producer[r].len \in 0..BufferSize /\ producer[r].end \in Terminals
               /\ consumer[r].buf \in Buffers \cup {NoBuffer}
               /\ consumer[r].len \in 0..BufferSize /\ consumer[r].end \in Terminals
               /\ \A i \in DOMAIN queue[r] : queue[r][i] \in Event
               /\ \A i \in DOMAIN consumer[r].drained : consumer[r].drained[i] \in Event
               /\ announced[r] \in Lengths \cup {Unknown}
               /\ {received[r], sent[r]} \subseteq 0..MaxBlocks
    <3>1. /\ producer[r] \in ProducerRec /\ consumer[r] \in ConsumerRec
          /\ queue[r] \in Seq(Event) /\ announced[r] \in Lengths \cup {Unknown}
          /\ received[r] \in 0..MaxBlocks /\ sent[r] \in 0..MaxBlocks
      BY DEF CopyInv, Typed
    <3>2. consumer[r].drained \in Seq(Event)
      BY <3>1 DEF ConsumerRec
    <3>3. \A q \in Seq(Event) : \A i \in DOMAIN q : q[i] \in Event
      OBVIOUS
    <3>4. /\ producer[r].buf \in Buffers \cup {NoBuffer}
          /\ producer[r].len \in 0..BufferSize /\ producer[r].end \in Terminals
          /\ consumer[r].buf \in Buffers \cup {NoBuffer}
          /\ consumer[r].len \in 0..BufferSize /\ consumer[r].end \in Terminals
      BY <3>1 DEF ProducerRec, ConsumerRec
    <3>5. \A i \in DOMAIN queue[r] : queue[r][i] \in Event
      BY <3>1, <3>3
    <3>6. \A i \in DOMAIN consumer[r].drained : consumer[r].drained[i] \in Event
      BY <3>2, <3>3
    <3> QED BY <3>1, <3>4, <3>5, <3>6
  <2>3. CopiesTyped
    BY <2>1, <2>2 DEF CopiesTyped, CopyInv, Typed
  <2>4. \A r \in Requests : ~broken[r]
    BY DEF CopyInv, CopySound, PoolSound
  <2>5. ASSUME NEW r \in Requests, consumer[r].pc = "drain", consumer[r].drained = <<>>
        PROVE  /\ pool.chunks[r] = {} /\ outstanding[r] = {}
               /\ ~pool.waiting[r] /\ pool.pending[r] = NoLease
    <3>1. pool.chunks[r] = {} /\ ~pool.waiting[r] /\ pool.pending[r] = NoLease
      BY <2>5, NothingHeld
    <3>2. outstanding[r] \subseteq pool.chunks[r]
      BY DEF CopyInv, IInv, LedgerInv
    <3> QED BY <3>1, <3>2
  <2> QED BY <2>3, <2>4, <2>5 DEF BuffersSound, NoInvariantError, NothingLeftBehind
<1> QED BY <1>1, CopiesStaySound, PTL

\* What a client is written is always the next piece of its own body: nobody reads into a
\* buffer before the consumer is through with it.
THEOREM NextBytesAreWritten == CopySpec => []WritesNextBytes
<1>1. CopyInv => WritesNextBytes
  <2> SUFFICES ASSUME CopyInv, NEW r \in Requests, consumer[r].pc = "write"
               PROVE  memory[Place(r, consumer[r].buf)] = <<r, sent[r]>>
    BY DEF WritesNextBytes
  <2>1. /\ Kept(r, consumer[r].buf, consumer[r].len) /\ Offset(r, consumer[r].buf) = sent[r]
    BY DEF CopyInv, CopySound, Contiguous, Flowing
  <2>2. PICK m : m = memory[Place(r, consumer[r].buf)]
    OBVIOUS
  <2>3. m[1] = r /\ m[2] = sent[r]
    BY <2>1, <2>2 DEF Kept, Offset
  <2>4. consumer[r].buf \in Buffers
    <3>1. consumer[r] \in ConsumerRec /\ consumer[r].buf # NoBuffer
      BY DEF CopyInv, Typed, CopySound, HandsSound
    <3> QED BY <3>1 DEF ConsumerRec
  <2>5. Place(r, consumer[r].buf) \in Chunks \cup Requests
    BY <2>4 DEF Place, Buffers, Leases
  <2>6. m \in (Requests \cup {Nobody}) \X (0..MaxBlocks)
    BY <2>2, <2>5 DEF CopyInv, Typed
  <2> QED BY <2>2, <2>3, <2>6
<1> QED BY <1>1, CopiesStaySound, PTL
-----------------------------------------------------------------------------
(* A copy is a pipe *)

\* What a caller sees of a copy.
LEMMA Statuses ==
  /\ PipeStatus \in [Requests -> {"idle", "copying"} \cup {consumer[s].end : s \in Requests}]
  /\ \A r \in Requests :
       /\ consumer[r].pc = "idle" => PipeStatus[r] = "idle"
       /\ consumer[r].pc = "done" => PipeStatus[r] = consumer[r].end
       /\ consumer[r].pc \notin {"idle", "done"} => PipeStatus[r] = "copying"
BY DEF PipeStatus

\* The same, of the state after a step.
LEMMA StatusesAfter ==
  /\ PipeStatus' = [r \in Requests |-> PipeStatus'[r]]
  /\ \A r \in Requests :
       /\ consumer'[r].pc = "idle" => PipeStatus'[r] = "idle"
       /\ consumer'[r].pc = "done" => PipeStatus'[r] = consumer'[r].end
       /\ consumer'[r].pc \notin {"idle", "done"} => PipeStatus'[r] = "copying"
BY DEF PipeStatus

\* A copy that is under way stays so.
Underway(r) ==
  /\ consumer[r].pc \notin {"idle", "done"} /\ consumer'[r].pc \notin {"idle", "done"}
  /\ \A s \in Requests \ {r} : consumer'[s] = consumer[s]

\* (so the caller sees no change)
LEMMA SameStatus ==
  ASSUME NEW r \in Requests, Underway(r)
  PROVE  PipeStatus' = PipeStatus /\ PipeStatus[r] = "copying"
<1>1. ASSUME NEW s \in Requests
      PROVE  PipeStatus'[s] = PipeStatus[s]
  <2>1. CASE s = r
    BY <2>1, Statuses, StatusesAfter DEF Underway
  <2>2. CASE s # r
    <3>1. consumer'[s] = consumer[s]
      BY <2>2 DEF Underway
    <3> QED BY <3>1, Statuses, StatusesAfter
  <2> QED BY <2>1, <2>2
<1>2. PipeStatus' = [s \in Requests |-> PipeStatus'[s]]
      /\ PipeStatus = [s \in Requests |-> PipeStatus[s]]
  BY Statuses, StatusesAfter
<1> QED BY <1>1, <1>2, Statuses DEF Underway

\* The consumer's steps before the last.
LEMMA ConsumerUnderway ==
  ASSUME Typed, NEW r \in Requests,
         \/ NextEvent(r) \/ Sleep(r) \/ Write(r) \/ Return(r) \/ CloseQueue(r)
         \/ CancelProducer(r) \/ CleanRequest(r) \/ CloseSource(r) \/ Join(r) \/ Drain(r)
  PROVE  Underway(r)
<1>1. PICK c \in ConsumerRec : c = consumer[r]
  BY DEF Typed
<1>2. ASSUME NEW d, d.pc \notin {"idle", "done"}, c.pc \notin {"idle", "done"},
             consumer' = [consumer EXCEPT ![r] = d]
      PROVE  Underway(r)
  BY <1>1, <1>2 DEF Underway, Typed
<1>3. ASSUME NEW x \in {"sleep", "next", "cancelRequest", "closeSource", "join", "drain"},
             c.pc \notin {"idle", "done"}, consumer' = [consumer EXCEPT ![r].pc = x]
      PROVE  Underway(r)
  <2>1. PICK d : d = [c EXCEPT !.pc = x]
    OBVIOUS
  <2>2. d.pc = x /\ consumer' = [consumer EXCEPT ![r] = d]
    BY <1>1, <1>3, <2>1 DEF ConsumerRec
  <2> QED BY <1>2, <1>3, <2>2
<1>4. ASSUME NEW e, c.pc \notin {"idle", "done"}, Select(r, e)
      PROVE  Underway(r)
  <2>1. PICK d : d = [c EXCEPT !.end = e, !.pc = "stop"]
    OBVIOUS
  <2>2. d.pc = "stop" /\ consumer' = [consumer EXCEPT ![r] = d]
    BY <1>1, <1>4, <2>1 DEF ConsumerRec, Select
  <2> QED BY <1>2, <1>4, <2>2
<1>5. CASE NextEvent(r)
  <2>1. c.pc = "next"
    BY <1>1, <1>5 DEF NextEvent
  <2>2. CASE consumer' = [consumer EXCEPT ![r] =
               [c EXCEPT !.buf = Head(queue[r]).buf, !.len = Head(queue[r]).len, !.pc = "write"]]
    <3>1. PICK d : d = [c EXCEPT !.buf = Head(queue[r]).buf, !.len = Head(queue[r]).len,
                                 !.pc = "write"]
      OBVIOUS
    <3>2. d.pc = "write"
      BY <3>1 DEF ConsumerRec
    <3> QED BY <1>2, <2>1, <2>2, <3>1, <3>2
  <2>3. CASE consumer' = [consumer EXCEPT ![r].pc = "sleep"]
    BY <1>3, <2>1, <2>3
  <2>4. CASE Select(r, "failed") \/ Select(r, Head(queue[r]).end)
    BY <1>4, <2>1, <2>4
  <2> QED BY <1>1, <1>5, <2>2, <2>3, <2>4 DEF NextEvent
<1>6. CASE Sleep(r)
  <2>1. c.pc = "sleep"
    BY <1>1, <1>6 DEF Sleep
  <2>2. CASE consumer' = [consumer EXCEPT ![r].pc = "next"]
    BY <1>3, <2>1, <2>2
  <2>3. CASE Select(r, "failed")
    BY <1>4, <2>1, <2>3
  <2> QED BY <1>6, <2>2, <2>3 DEF Sleep
<1>7. CASE Write(r)
  <2>1. PICK e : consumer' = [consumer EXCEPT ![r] = [c EXCEPT !.pc = "return", !.end = e]]
    BY <1>1, <1>7 DEF Write
  <2>2. PICK d : d = [c EXCEPT !.pc = "return", !.end = e]
    OBVIOUS
  <2>3. d.pc = "return" /\ c.pc = "write"
    BY <1>1, <1>7, <2>2 DEF ConsumerRec, Write
  <2> QED BY <1>2, <2>1, <2>2, <2>3
<1>8. CASE Return(r)
  <2>1. PICK x \in {"next", "stop"} :
          x = IF c.end = "open" /\ ~broken'[r] THEN "next" ELSE "stop"
    OBVIOUS
  <2>2. PICK d : d = [c EXCEPT !.buf = NoBuffer, !.len = 0, !.pc = x,
                               !.end = IF broken'[r] THEN "failed" ELSE c.end]
    OBVIOUS
  <2>3. d.pc = x /\ c.pc = "return" /\ consumer' = [consumer EXCEPT ![r] = d]
    BY <1>1, <1>8, <2>1, <2>2 DEF ConsumerRec, Return
  <2> QED BY <1>2, <2>1, <2>3
<1>9. CASE CloseQueue(r)
  <2>1. PICK d : d = [c EXCEPT !.drained = queue[r], !.pc = "cancel"]
    OBVIOUS
  <2>2. d.pc = "cancel" /\ c.pc = "stop" /\ consumer' = [consumer EXCEPT ![r] = d]
    BY <1>1, <1>9, <2>1 DEF ConsumerRec, CloseQueue
  <2> QED BY <1>2, <2>2
<1>10. CASE CancelProducer(r) \/ CleanRequest(r) \/ CloseSource(r) \/ Join(r)
  <2>1. c.pc \notin {"idle", "done"}
    BY <1>1, <1>10 DEF CancelProducer, CleanRequest, CloseSource, Join
  <2>2. \E x \in {"sleep", "next", "cancelRequest", "closeSource", "join", "drain"} :
          consumer' = [consumer EXCEPT ![r].pc = x]
    BY <1>10 DEF CancelProducer, CleanRequest, CloseSource, Join
  <2> QED BY <1>3, <2>1, <2>2
<1>11. CASE Drain(r)
  <2>1. PICK d : d = [c EXCEPT !.drained = Tail(c.drained)]
    OBVIOUS
  <2>2. d.pc = "drain" /\ c.pc = "drain" /\ consumer' = [consumer EXCEPT ![r] = d]
    BY <1>1, <1>11, <2>1 DEF ConsumerRec, Drain
  <2> QED BY <1>2, <2>2
<1> QED BY <1>5, <1>6, <1>7, <1>8, <1>9, <1>10, <1>11

\* Before anything is started.
LEMMA PipeInitLemma == CopyInit => Pipe!Init
<1> SUFFICES ASSUME CopyInit PROVE Pipe!Init
  OBVIOUS
<1>1. \A r \in Requests : consumer[r].pc = "idle"
  BY DEF CopyInit
<1>2. PipeStatus = [r \in Requests |-> "idle"]
  BY <1>1, Statuses
<1> QED BY <1>2 DEF CopyInit, Pipe!Init, Unknown, Pipe!Unknown

\* The handler starts the copy.
LEMMA StartsPipe ==
  ASSUME CopyInv, NEW r \in Requests, Start(r)
  PROVE  Pipe!Start(r)
<1>1. PICK c \in ConsumerRec : c = consumer[r]
  BY DEF CopyInv, Typed
<1>2. PICK d : d = [c EXCEPT !.pc = "next"]
  OBVIOUS
<1>3. d.pc = "next" /\ c.pc = "idle" /\ consumer' = [consumer EXCEPT ![r] = d]
  BY <1>1, <1>2 DEF ConsumerRec, Start
<1>4. consumer'[r] = d /\ \A s \in Requests \ {r} : consumer'[s] = consumer[s]
  BY <1>3 DEF CopyInv, Typed
<1>5. \A s \in Requests : PipeStatus'[s] = IF s = r THEN "copying" ELSE PipeStatus[s]
  <2>1. PipeStatus'[r] = "copying"
    BY <1>3, <1>4, StatusesAfter
  <2>2. ASSUME NEW s \in Requests \ {r}
        PROVE  PipeStatus'[s] = PipeStatus[s]
    BY <1>4, <2>2, Statuses, StatusesAfter
  <2> QED BY <2>1, <2>2
<1>6. PipeStatus' = [PipeStatus EXCEPT ![r] = "copying"]
  BY <1>5, Statuses, StatusesAfter
<1>7. PipeStatus[r] = "idle"
  BY <1>1, <1>3, Statuses
<1> QED BY <1>6, <1>7 DEF Start, Pipe!Start

\* The upstream delivers.
LEMMA ReadReceives ==
  ASSUME CopyInv, NEW r \in Requests, Read(r)
  PROVE  Pipe!Receive(r)
<1>1. Typed /\ BodySound(r) /\ HandsSound(r) /\ InStep(r)
  BY DEF CopyInv, CopySound
<1>2. /\ received'[r] \in received[r]..received[r] + BufferSize
      /\ \A s \in Requests \ {r} : received'[s] = received[s] /\ ended'[s] = ended[s]
      /\ Typed'
  BY <1>1, ReadDoes
<1>3. producer[r].pc = "read" /\ UNCHANGED <<consumer, announced, sent>>
  BY DEF Read
<1>4. consumer[r].pc \notin {"idle", "done"} /\ ~ended[r]
  <2>1. ~ended[r]
    BY <1>1, <1>3 DEF BodySound, Reading
  <2> QED BY <1>1, <1>3, <2>1 DEF InStep
<1>5. PipeStatus' = PipeStatus /\ PipeStatus[r] = "copying"
  BY <1>3, <1>4, SameStatus DEF Underway
<1>6. \E n \in 0..BufferSize : received' = [received EXCEPT ![r] = received[r] + n]
  <2>1. PICK k \in Nat : k = received[r]
    BY <1>1, Fields
  <2>2. PICK m : m = received'[r]
    OBVIOUS
  <2>3. PICK n \in 0..BufferSize : m = k + n
    <3>1. m \in k..k + BufferSize
      BY <1>2, <2>1, <2>2
    <3>2. BufferSize \in Nat
      BY MediaCopyAssumption
    <3>3. m - k \in 0..BufferSize /\ m = k + (m - k)
      BY <3>1, <3>2
    <3> QED BY <3>3
  <2>4. received' = [received EXCEPT ![r] = m]
    BY <1>1, <1>2, <2>2 DEF Typed
  <2> QED BY <2>1, <2>3, <2>4
<1>7. ended' \in {ended, [ended EXCEPT ![r] = TRUE]}
  <2>1. ended \in [Requests -> BOOLEAN] /\ ended' \in [Requests -> BOOLEAN]
    BY <1>1, <1>2 DEF Typed
  <2>2. CASE ended'[r]
    <3>1. ended' = [ended EXCEPT ![r] = TRUE]
      BY <1>2, <2>1, <2>2
    <3> QED BY <3>1
  <2>3. CASE ~ended'[r]
    <3>1. ended' = ended
      BY <1>2, <1>4, <2>1, <2>3
    <3> QED BY <3>1
  <2> QED BY <2>2, <2>3
<1> QED BY <1>3, <1>4, <1>5, <1>6, <1>7 DEF Pipe!Receive

\* A write sends.
LEMMA WriteSends ==
  ASSUME CopyInv, NEW r \in Requests, Write(r)
  PROVE  Pipe!Send(r)
<1>1. Typed /\ sent'[r] \in sent[r]..Limit(r)
  BY WriteStep DEF CopyInv
<1>2. PipeStatus' = PipeStatus /\ PipeStatus[r] = "copying"
  BY <1>1, ConsumerUnderway, SameStatus
<1>3. Pipe!Limit(r) = Limit(r)
  BY DEF Pipe!Limit, Limit, Pipe!Unknown, Unknown
<1>4. sent' = [sent EXCEPT ![r] = sent'[r]]
  <2>1. PICK k : sent' = [sent EXCEPT ![r] = k]
    BY DEF Write
  <2> QED BY <1>1, <2>1 DEF Typed
<1>5. UNCHANGED <<announced, received, ended>>
  BY DEF Write
<1> QED BY <1>1, <1>2, <1>3, <1>4, <1>5 DEF Pipe!Send

\* The copy returns: complete only when the whole body went through.
LEMMA FinishEnds ==
  ASSUME CopyInv, NEW r \in Requests, Finish(r)
  PROVE  Pipe!Finish(r)
<1>1. /\ consumer'[r].pc = "done" /\ consumer'[r].end = consumer[r].end
      /\ \A s \in Requests \ {r} : consumer'[s] = consumer[s]
  BY FinishStep
<1>2. consumer[r].pc = "drain" /\ UNCHANGED <<announced, received, sent, ended>>
  BY DEF Finish
<1>3. PICK e : e = consumer[r].end
  OBVIOUS
<1>4. e \in {"complete", "failed"}
  <2>1. consumer[r] \in ConsumerRec /\ InStep(r)
    BY DEF CopyInv, CopySound, Typed
  <2> QED BY <1>2, <1>3, <2>1 DEF ConsumerRec, Terminals, InStep, Cleaning
<1>5. e = "complete" => Pipe!WholeBodySent(r)
  BY <1>3 DEF CopyInv, CopySound, BodySound, WholeBody, Pipe!WholeBodySent, Unknown,
              Pipe!Unknown
<1>6. PipeStatus' = [PipeStatus EXCEPT ![r] = e]
  <2>1. PipeStatus'[r] = e
    BY <1>1, <1>3, StatusesAfter
  <2>2. ASSUME NEW s \in Requests \ {r}
        PROVE  PipeStatus'[s] = PipeStatus[s]
    BY <1>1, <2>2, Statuses, StatusesAfter
  <2> QED BY <2>1, <2>2, Statuses, StatusesAfter
<1>7. PipeStatus[r] = "copying"
  BY <1>2, Statuses
<1> QED BY <1>2, <1>4, <1>5, <1>6, <1>7 DEF Pipe!Finish

\* All other steps are not seen from outside.
LEMMA OthersUnseen ==
  ASSUME CopyInv, NEW r \in Requests,
         \/ Disconnect(r) \/ ProducerStep(r)
         \/ NextEvent(r) \/ Sleep(r) \/ Return(r) \/ CloseQueue(r)
         \/ CancelProducer(r) \/ CleanRequest(r) \/ CloseSource(r) \/ Join(r) \/ Drain(r)
  PROVE  UNCHANGED Pipe!pipe
<1>1. CASE Disconnect(r) \/ ProducerStep(r)
  <2>1. UNCHANGED <<consumer, announced, received, sent, ended>>
    BY <1>1 DEF Disconnect, ProducerStep, Publish, PublishEnd, Drop, Acquire, Request, Poll,
                Wait, Withdraw, Accept
  <2> QED BY <2>1 DEF Pipe!pipe, PipeStatus
<1>2. CASE \/ NextEvent(r) \/ Sleep(r) \/ Return(r) \/ CloseQueue(r)
           \/ CancelProducer(r) \/ CleanRequest(r) \/ CloseSource(r) \/ Join(r) \/ Drain(r)
  <2>1. UNCHANGED <<announced, received, sent, ended>>
    BY <1>2 DEF NextEvent, Sleep, Return, CloseQueue, CancelProducer, CleanRequest,
                CloseSource, Join, Drain
  <2>2. PipeStatus' = PipeStatus
    BY <1>2, ConsumerUnderway, SameStatus DEF CopyInv
  <2> QED BY <2>1, <2>2 DEF Pipe!pipe
<1> QED BY <1>1, <1>2

\* Every step is one of the pipe, or not seen from outside.
LEMMA PipeNextLemma == CopyInv /\ [CopyNext]_copyVars => [Pipe!Next]_Pipe!pipe
<1> SUFFICES ASSUME CopyInv, [CopyNext]_copyVars PROVE [Pipe!Next]_Pipe!pipe
  OBVIOUS
<1>1. CASE UNCHANGED copyVars
  BY <1>1 DEF copyVars, Pipe!pipe, PipeStatus
<1>2. ASSUME NEW r \in Requests, Start(r) \/ Read(r) \/ Write(r) \/ Finish(r)
      PROVE  Pipe!Next
  BY <1>2, StartsPipe, ReadReceives, WriteSends, FinishEnds DEF Pipe!Next
<1>3. ASSUME NEW r \in Requests,
             \/ Disconnect(r) \/ ProducerStep(r)
             \/ NextEvent(r) \/ Sleep(r) \/ Return(r) \/ CloseQueue(r)
             \/ CancelProducer(r) \/ CleanRequest(r) \/ CloseSource(r) \/ Join(r) \/ Drain(r)
      PROVE  UNCHANGED Pipe!pipe
  BY <1>3, OthersUnseen
<1> QED BY <1>1, <1>2, <1>3 DEF CopyNext, ConsumerStep

\* What leaves is a prefix of what came, within the announced length, and a copy that
\* reports success has passed on the whole body.
THEOREM CopyIsAPipe == CopySpec => PipeSpec
<1>1. CopyInit => Pipe!Init
  BY PipeInitLemma
<1>2. CopyInv /\ [CopyNext]_copyVars => [Pipe!Next]_Pipe!pipe
  BY PipeNextLemma
<1> QED BY <1>1, <1>2, CopiesStaySound, PTL DEF CopySpec, PipeSpec, Pipe!Spec
=============================================================================
