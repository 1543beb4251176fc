----------------------------- MODULE MediaBuffer -----------------------------
(***************************************************************************)
(* The adaptive media-buffer controller, internal/gateway/media_buffer.go. *)
(*                                                                         *)
(* A fixed hard budget of 32 KiB chunks is shared by the media responses   *)
(* being proxied.  Every response registers a request; its producer asks   *)
(* for one optional chunk at a time, is granted one when the request is    *)
(* below its fair share and the pool has room, accepts the grant, and the  *)
(* consumer gives the chunk back after writing it.  Every operation runs   *)
(* under the controller's mutex, so it is one atomic step here, including  *)
(* the recomputation of the fair shares and the scheduling pass it ends    *)
(* with.  Sizes are counted in chunks.                                     *)
(*                                                                         *)
(* The controller's fields are one record, so that the helpers of the code *)
(* (releaseOwnedChunkLocked, recomputeTargetsLocked, ...) are operators    *)
(* from a controller to a controller and an operation composes them in the *)
(* order of the code.                                                      *)
(***************************************************************************)
EXTENDS Integers, FiniteSets

CONSTANTS
  Requests,    \* identities of the media responses that may register
  Chunks,      \* identities of the chunks the process could ever make
  Budget,      \* the hard budget, in chunks
  RequestCap,  \* the most chunks one request may be entitled to (512 MiB)
  MaxGrants,   \* model bound: grants of one chunk before requests stop asking
  Nobody,      \* the owner of a chunk that no request owns (ownerID = 0)
  NoLease      \* the absence of a pending lease (nil)

ASSUME ConstantsAssumption ==
  /\ IsFiniteSet(Requests)
  /\ IsFiniteSet(Chunks)
  /\ Budget \in Nat \ {0}
  /\ RequestCap \in Nat \ {0}
  /\ MaxGrants \in Nat
  /\ Nobody \notin Requests
  /\ Cardinality(Chunks) > Budget

\* A lease names a chunk and the grant it comes from.  The code stamps a grant
\* with a global counter; stamps are only ever compared for the same chunk, so
\* the model numbers the grants of each chunk.
Leases == [chunk : Chunks, gen : Nat]

ASSUME NoLeaseAssumption == NoLease \notin Leases

VARIABLES
  pool,         \* the controller and the fields of its requests
  outstanding   \* ghost: the leases each caller accepted and has not released

vars == <<pool, outstanding>>

Controllers ==
  [ active    : SUBSET Requests,                     \* b.requests
    closed    : SUBSET Requests,                     \* r.closed
    target    : [Requests -> Nat],
    owned     : [Requests -> Nat],                   \* r.owned
    waiting   : [Requests -> BOOLEAN],               \* r.waiting
    waiters   : SUBSET Requests,                     \* members of b.waiters
    ahead     : [Requests -> SUBSET Requests],       \* who precedes r in it
    notify    : [Requests -> {0, 1}],                \* tokens in r.notify
    pending   : [Requests -> Leases \cup {NoLease}],
    chunks    : [Requests -> SUBSET Leases],         \* accepted leases
    owner     : [Chunks -> Requests \cup {Nobody}],  \* chunk.ownerID
    gen       : [Chunks -> Nat],                     \* chunk.generation
    free      : SUBSET Chunks,
    allocated : Nat,
    busy      : Nat ]                                \* b.owned

-----------------------------------------------------------------------------
(* Helpers of the code.  An operator whose name ends in _Faulty is a variant  *)
(* with a plausible bug; it is used by no definition and serves to test that  *)
(* the properties notice the bug.                                             *)

\* recomputeDebtLocked
Debt(p, r) == IF p.owned[r] > p.target[r] THEN p.owned[r] - p.target[r] ELSE 0

\* recomputeTargetsLocked: an equal share for everybody, rounded down, capped
FairShare(n) == IF Budget \div n > RequestCap THEN RequestCap ELSE Budget \div n

RecomputeTargets(p) ==
  [p EXCEPT !.target = [r \in Requests |->
     IF r \in p.active THEN FairShare(Cardinality(p.active)) ELSE p.target[r]]]

\* releaseOwnedChunkLocked
ReleaseOwnedChunks(p, r, cs) ==
  [p EXCEPT !.owner = [c \in Chunks |-> IF c \in cs THEN Nobody ELSE p.owner[c]],
            !.owned[r] = @ - Cardinality(cs),
            !.busy = @ - Cardinality(cs),
            !.free = @ \cup cs]

\* reclaimPendingLocked, with the notification it drains
ReclaimPending_Faulty(p, r) ==
  ReleaseOwnedChunks([p EXCEPT !.pending[r] = NoLease], r, {p.pending[r].chunk})

ReclaimPending(p, r) ==
  ReleaseOwnedChunks([p EXCEPT !.pending[r] = NoLease, !.notify[r] = 0],
                     r, {p.pending[r].chunk})

\* The order of the waiters' list is kept as each waiter's set of predecessors.
Enqueue(p, r) ==
  [p EXCEPT !.waiters = @ \cup {r}, !.ahead[r] = p.waiters]

Dequeue(p, G) ==
  [p EXCEPT !.waiters = @ \ G,
            !.ahead = [r \in Requests |-> IF r \in G THEN {} ELSE p.ahead[r] \ G]]

\* removeWaiterLocked
RemoveWaiter(p, r) ==
  [Dequeue(p, {r}) EXCEPT !.waiting[r] = FALSE]

\* validAcceptedLeaseLocked
ValidLease_Faulty(p, r, l) == p.gen[l.chunk] > 0 /\ p.gen[l.chunk] >= l.gen

ValidLease(p, r, l) ==
  /\ p.owner[l.chunk] = r
  /\ p.gen[l.chunk] = l.gen
  /\ l \in p.chunks[r]

\* The chunks that takeChunkLocked can still hand out: recycled ones, and new
\* ones while the budget lasts.
Room(p) == Cardinality(p.free) + (Budget - p.allocated)

\* canGrantLocked, apart from the pool's own condition (Room)
Entitled(p, r) ==
  /\ r \notin p.closed
  /\ p.waiting[r]
  /\ p.pending[r] = NoLease
  /\ Debt(p, r) = 0
  /\ p.owned[r] + 1 <= p.target[r]

CanGrant(p, r) == Entitled(p, r) /\ Room(p) > 0

\* One scheduling pass goes through the queue in order and grants one chunk to
\* every entitled waiter until the pool is exhausted.
FirstServed_Faulty(p, G) ==
  LET entitled == {r \in p.waiters : Entitled(p, r)} IN
  /\ G \subseteq entitled
  /\ Cardinality(G) <= Room(p)
  /\ Cardinality(G) = Room(p) \/ G = entitled

FirstServed(p, G) ==
  LET entitled == {r \in p.waiters : Entitled(p, r)} IN
  /\ G \subseteq entitled
  /\ Cardinality(G) <= Room(p)
  /\ Cardinality(G) = Room(p) \/ G = entitled
  /\ \A r \in G, s \in entitled \ G : r \in p.ahead[s]

\* takeChunkLocked: recycled chunks before new ones
NewChunks(p) == {c \in Chunks : p.gen[c] = 0}

Assignments_Faulty(p, G) ==
  { f \in [G -> p.free \cup NewChunks(p)] : \A r, s \in G : f[r] = f[s] => r = s }

Assignments(p, G) ==
  { f \in [G -> p.free \cup NewChunks(p)] :
      /\ \A r, s \in G : f[r] = f[s] => r = s
      /\ (\A r \in G : f[r] \in p.free) \/ (\A c \in p.free : \E r \in G : f[r] = c) }

\* The grants of a pass: the chosen chunks change owner and generation, and
\* every granted request gets a pending lease and a notification.
Grant(p, G, f) ==
  LET taken == {f[r] : r \in G} IN
  [Dequeue(p, G) EXCEPT
     !.waiting = [r \in Requests |-> IF r \in G THEN FALSE ELSE p.waiting[r]],
     !.notify  = [r \in Requests |-> IF r \in G THEN 1 ELSE p.notify[r]],
     !.pending = [r \in Requests |->
                    IF r \in G THEN [chunk |-> f[r], gen |-> p.gen[f[r]] + 1]
                               ELSE p.pending[r]],
     !.owned   = [r \in Requests |-> IF r \in G THEN p.owned[r] + 1 ELSE p.owned[r]],
     !.owner   = [c \in Chunks |-> IF c \in taken THEN CHOOSE r \in G : f[r] = c
                                                  ELSE p.owner[c]],
     !.gen     = [c \in Chunks |-> IF c \in taken THEN p.gen[c] + 1 ELSE p.gen[c]],
     !.free      = @ \ taken,
     !.allocated = @ + Cardinality(taken \ p.free),
     !.busy      = @ + Cardinality(taken)]

\* scheduleLocked, the last call of every operation that can make room
Schedule(p) ==
  \E G \in SUBSET p.waiters :
    /\ FirstServed(p, G)
    /\ \E f \in Assignments(p, G) : pool' = Grant(p, G, f)

-----------------------------------------------------------------------------
(* The operations of the controller *)

Init ==
  /\ pool =
       [ active |-> {}, closed |-> {},
         target |-> [r \in Requests |-> 0], owned |-> [r \in Requests |-> 0],
         waiting |-> [r \in Requests |-> FALSE], waiters |-> {},
         ahead |-> [r \in Requests |-> {}],
         notify |-> [r \in Requests |-> 0],
         pending |-> [r \in Requests |-> NoLease],
         chunks |-> [r \in Requests |-> {}],
         owner |-> [c \in Chunks |-> Nobody], gen |-> [c \in Chunks |-> 0],
         free |-> {}, allocated |-> 0, busy |-> 0 ]
  /\ outstanding = [r \in Requests |-> {}]

Register(r) ==
  /\ r \notin pool.active \cup pool.closed
  /\ Schedule(RecomputeTargets([pool EXCEPT !.active = @ \cup {r}]))
  /\ UNCHANGED outstanding

\* A request that already waits or has a grant is left as it is.
RequestOptional(r) ==
  /\ r \in pool.active
  /\ ~pool.waiting[r] /\ pool.pending[r] = NoLease
  /\ \A c \in Chunks : pool.gen[c] < MaxGrants
  /\ Schedule([Enqueue(pool, r) EXCEPT !.waiting[r] = TRUE])
  /\ UNCHANGED outstanding

\* The producer receives from the notification channel, before it accepts.
TakeNotification(r) ==
  /\ r \in pool.active
  /\ pool.notify[r] = 1
  /\ pool' = [pool EXCEPT !.notify[r] = 0]
  /\ UNCHANGED outstanding

AcceptOptional(r) ==
  /\ r \in pool.active
  /\ pool.pending[r] # NoLease
  /\ pool' = [pool EXCEPT !.pending[r] = NoLease, !.notify[r] = 0,
                          !.chunks[r] = @ \cup {pool.pending[r]}]
  /\ outstanding' = [outstanding EXCEPT ![r] = @ \cup {pool.pending[r]}]

CancelOptional_Faulty(r) ==
  /\ r \in pool.active
  /\ \/ pool.pending[r] # NoLease /\ pool' = ReclaimPending(pool, r)
     \/ /\ pool.pending[r] = NoLease /\ pool.waiting[r]
        /\ pool' = RemoveWaiter(pool, r)
  /\ UNCHANGED outstanding

CancelOptional(r) ==
  /\ r \in pool.active
  /\ \/ /\ pool.pending[r] # NoLease
        /\ Schedule(ReclaimPending(pool, r))
     \/ /\ pool.pending[r] = NoLease /\ pool.waiting[r]
        /\ pool' = RemoveWaiter(pool, r)
  /\ UNCHANGED outstanding

\* releaseAcceptedLocked for every lease of ls
ReleaseAccepted(p, r, ls) ==
  ReleaseOwnedChunks([p EXCEPT !.chunks[r] = @ \ ls], r, {l.chunk : l \in ls})

ReleaseOptional_Faulty(r, l) ==
  /\ r \in pool.active
  /\ pool' = IF ValidLease(pool, r, l) THEN ReleaseAccepted(pool, r, {l}) ELSE pool
  /\ outstanding' = [outstanding EXCEPT ![r] = @ \ {l}]

\* Any lease may be presented, also one that was released before: only a valid
\* one changes the controller, the others get errMediaBufferOwnership.
ReleaseOptional(r, l) ==
  /\ r \in pool.active
  /\ IF ValidLease(pool, r, l)
       THEN Schedule(ReleaseAccepted(pool, r, {l}))
       ELSE UNCHANGED pool
  /\ outstanding' = [outstanding EXCEPT ![r] = @ \ {l}]

Unregister_Faulty(p, r) == [p EXCEPT !.active = @ \ {r}, !.notify[r] = 0]

Unregister(p, r) ==
  RecomputeTargets([p EXCEPT !.active = @ \ {r}, !.notify[r] = 0])

Close(r) ==
  /\ r \in pool.active
  /\ LET marked    == [pool EXCEPT !.closed = @ \cup {r}]
         unqueued  == IF marked.waiting[r] THEN RemoveWaiter(marked, r) ELSE marked
         reclaimed == IF unqueued.pending[r] # NoLease THEN ReclaimPending(unqueued, r)
                                                       ELSE unqueued
         released  == ReleaseAccepted(reclaimed, r, reclaimed.chunks[r])
     IN Schedule(Unregister(released, r))
  /\ outstanding' = [outstanding EXCEPT ![r] = {}]

Presentable == [chunk : Chunks, gen : 1..(MaxGrants + Cardinality(Requests))]

Next ==
  \E r \in Requests :
    \/ Register(r)
    \/ RequestOptional(r)
    \/ TakeNotification(r)
    \/ AcceptOptional(r)
    \/ CancelOptional(r)
    \/ \E l \in Presentable : ReleaseOptional(r, l)
    \/ Close(r)

Spec == Init /\ [][Next]_vars

\* Consumers that hold chunks write and release them, and producers that are
\* notified accept: nothing else is assumed of the callers.
Fairness ==
  \A r \in Requests :
    /\ WF_vars(AcceptOptional(r))
    /\ WF_vars(\E l \in outstanding[r] : ReleaseOptional(r, l))

FairSpec == Spec /\ Fairness

-----------------------------------------------------------------------------
(* Properties *)

\* The controller's fields keep their types.
TypeOK ==
  /\ pool \in Controllers
  /\ outstanding \in [Requests -> SUBSET Leases]

Owned(p, r) == {c \in Chunks : p.owner[c] = r}

\* assertAccountingLocked never panics, and its counters, of the right type, are
\* the truth: the budget is respected, every allocated chunk is either free or owned by one
\* request, and each request is charged for exactly the chunks it owns.
Accounting ==
  /\ TypeOK
  /\ pool.allocated <= Budget
  /\ pool.allocated = pool.busy + Cardinality(pool.free)
  /\ pool.busy = Cardinality({c \in Chunks : pool.owner[c] # Nobody})
  /\ \A c \in pool.free : pool.owner[c] = Nobody
  /\ \A r \in Requests : pool.owned[r] = Cardinality(Owned(pool, r))

\* A caller that accepted a lease keeps the chunk until it releases that very
\* lease or its request closes: no stale or repeated release of an earlier
\* grant of the chunk, no reclaim and no scheduling pass takes the buffer away
\* from under a producer or consumer that is using it.
AcceptedLeaseStaysValid ==
  \A r \in Requests : \A l \in outstanding[r] :
    pool.owner[l.chunk] = r /\ pool.gen[l.chunk] = l.gen /\ l \in pool.chunks[r]

\* Two holders never use the same buffer.
NoSharedChunk ==
  \A r, s \in Requests : \A l \in outstanding[r], m \in outstanding[s] :
    l.chunk = m.chunk => r = s /\ l = m

\* Every operation that makes room for somebody runs the scheduler: between
\* two operations no waiter is entitled to a chunk that the pool could give.
NoMissedGrant == \A r \in Requests : ~CanGrant(pool, r)

\* The shares always follow the population: they are equal, fit in the budget
\* together, and leave nothing unshared that another chunk for everybody, or
\* the cap, would still allow.
FairTargets ==
  LET n == Cardinality(pool.active) IN
  \A r \in pool.active :
    /\ n * pool.target[r] <= Budget
    /\ pool.target[r] <= RequestCap
    /\ pool.target[r] < RequestCap => n * (pool.target[r] + 1) > Budget

\* Exactly one wakeup per grant: a waiter has no token left over (so the send
\* in scheduleLocked never finds the slot occupied and panics), and a token
\* always announces a lease that is still there to accept.
WakeupMatchesGrant ==
  \A r \in Requests :
    /\ pool.waiting[r] => pool.notify[r] = 0 /\ pool.pending[r] = NoLease
    /\ pool.notify[r] = 1 => pool.pending[r] # NoLease
    /\ pool.waiting[r] <=> r \in pool.waiters

\* From its announcement to its release a grant is one holder's: what was
\* announced is there to accept, and what was accepted stays.
GrantsSound == AcceptedLeaseStaysValid /\ WakeupMatchesGrant

\* First come, first served: a waiter that is passed over for a later one is
\* one that its own share (or its debt) keeps from another chunk.
NoOvertaking ==
  [][\A r, s \in Requests :
       /\ r \in pool.ahead[s]
       /\ pool.waiting[s] /\ pool'.pending[s] # NoLease
       /\ pool'.waiting[r]
       => pool'.owned[r] + 1 > pool'.target[r]]_vars

\* A waiter is eventually served, or stops waiting, or its fair share is less
\* than what it already owns (with more responses than chunks it is zero).
WaiterServed ==
  \A r \in Requests :
    pool.waiting[r] ~> (~pool.waiting[r] \/ pool.owned[r] + 1 > pool.target[r])
=============================================================================
