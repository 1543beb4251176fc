-------------------------- MODULE SourceCacheProofs ---------------------------
(***************************************************************************)
(* What is true of the range cache for every number of calls, pages and    *)
(* ranges, and every budget: the books balance, the index is sound, who    *)
(* cancels fails nobody else, and after Close all is quiet.                *)
(*                                                                         *)
(* A step of the cache is a sequence of changes: blocks are evicted, a     *)
(* flight is started, moves on or ends, a caller comes, waits, reads or    *)
(* goes.  The invariant is split by what a change can disturb: each fill   *)
(* by itself (Fine), the counters (Books), the callers of each fill        *)
(* (Held), the ranges (Unique), the order of use (Ordered), and the        *)
(* threads that start and stop (Control).  Each part is stated on values,  *)
(* so that a step can be taken apart into its changes.                     *)
(***************************************************************************)
EXTENDS SourceCache, Sums, SequenceTheorems

Busy == {"create", "write", "finish"}

\* The values of a fill and of a call.
FillType ==
  [st : Busy \cup {"none", "done"}, span : Ranges \cup {Nothing}, waiters : Nat,
   attached : BOOLEAN, cancelled : BOOLEAN, entry : BOOLEAN,
   err : {"none", "source", "storage", "canceled"}, pins : Nat]

CallType ==
  [pc : {"idle", "wait", "reading", "over"}, span : Ranges \cup {Nothing},
   at : Fills \cup {Nothing}, left : BOOLEAN, err : {"none", "source"}]

\* The entries of the fills fl, those at work, the files that could not be removed,
\* and what is kept in reserve for files.
Stored(fl) == {f \in Fills : fl[f].entry}
AtWork(fl) == {f \in Fills : fl[f].st \in Busy}
Lost(fl, dk) == {f \in Fills : f \in dk /\ fl[f].st = "done" /\ ~fl[f].entry}
Kept(fl, dk) == AtWork(fl) \cup Lost(fl, dk)

Span(v) == IF v.span = Nothing THEN 0 ELSE v.span.length
Size(fl) == [f \in Fills |-> Span(fl[f])]

\* The calls that are in state pc with the fill f.
Here(cl, f, pc) == {o \in Calls : cl[o].at = f /\ cl[o].pc = pc}

-----------------------------------------------------------------------------
(* The invariant *)

\* A fill v named f, with its file on the disk dk or not; cd: the cache is closed,
\* ov: Close is over.
Progress(f, v, dk) ==
  /\ v.st = "none" <=> v.span = Nothing
  /\ v.st \in {"none", "create"} => f \notin dk
  /\ v.st = "write" => f \in dk
  /\ v.st = "finish" /\ v.err = "none" => f \in dk
  /\ v.st \in {"none", "create", "write"} => v.err = "none"

Shared(f, v) ==
  /\ v.attached => v.st \in Busy
  /\ v.st \in Busy /\ ~v.attached => f \in Calls /\ v.waiters = 0
  /\ v.cancelled => f \in Calls /\ v.waiters = 0 /\ ~v.attached

Answered(f, v, cd) ==
  /\ v.entry => v.st = "done" /\ v.err = "none"
  /\ v.st = "done" /\ v.err = "none" /\ ~v.entry => v.waiters = 0
  /\ v.err = "canceled" => cd \/ (v.waiters = 0 /\ ~v.attached)

Fine(f, v, dk, cd, ov) ==
  /\ Progress(f, v, dk) /\ Shared(f, v) /\ Answered(f, v, cd)
  /\ v.entry /\ ~ov => f \in dk

AllFine(fl, dk, cd, ov) ==
  /\ fl \in [Fills -> FillType] /\ dk \in SUBSET Fills
  /\ \A f \in Fills : Fine(f, fl[f], dk, cd, ov)

\* The counters us, rs and nf are the bytes stored and reserved and the fills at
\* work; they stay within the limits, and nothing is admitted besides a lost file.
Limits(fl, us, rs, nf, dk) ==
  /\ us + rs <= Budget
  /\ Cardinality(Stored(fl)) + nf + Cardinality(Lost(fl, dk)) <= MaxEntries

Books(fl, us, rs, nf, dk, ov) ==
  /\ us = Sum(Size(fl), Stored(fl)) /\ rs \in Nat /\ us + rs <= Budget
  /\ nf = Cardinality(AtWork(fl))
  /\ ~ov => rs = Sum(Size(fl), Kept(fl, dk)) /\ Limits(fl, us, rs, nf, dk)
  /\ ov => /\ AtWork(fl) = {}
           /\ Sum(Size(fl), dk) <= Budget /\ Cardinality(dk) <= MaxEntries

\* Every caller waits for a fill that covers its range, or reads an entry that does,
\* and the fills know their callers.
Served(fl, c) ==
  /\ c.pc \in {"wait", "reading"} =>
       /\ c.at \in Fills /\ c.span \in Ranges /\ fl[c.at].span \in Ranges
       /\ Covers(fl[c.at].span, c.span)
  /\ c.pc = "reading" => fl[c.at].entry

Counted(fl, cl, f) ==
  /\ fl[f].waiters = Cardinality(Here(cl, f, "wait"))
  /\ fl[f].pins = IF fl[f].entry
                  THEN Cardinality(Here(cl, f, "wait")) + Cardinality(Here(cl, f, "reading"))
                  ELSE 0

Held(fl, cl) ==
  /\ cl \in [Calls -> CallType]
  /\ \A o \in Calls : Served(fl, cl[o])
  /\ \A f \in Fills : Counted(fl, cl, f)

Named(fl) == {f \in Fills : fl[f].entry \/ fl[f].attached}

Unique(fl) == \A f, g \in Named(fl) : fl[f].span = fl[g].span => f = g

Ordered(fl, od) ==
  /\ od \in [Fills -> SUBSET Fills]
  /\ \A f \in Fills : od[f] \subseteq (IF f \in Stored(fl) THEN Stored(fl) \ {f} ELSE {})
  /\ \A f, g \in Stored(fl) : f # g => (f \in od[g] <=> g \notin od[f])

\* Fills are started by calls and pages that are past their beginning.
Started(fl, cl, pg) ==
  /\ \A o \in Calls : cl[o].pc = "idle" => fl[o].st = "none"
  /\ \A p \in Pages : pg[p] # "gone" => fl[p].st = "none"

\* The queue holds the pages that were sent, each once; only who holds captureMu
\* sends, and nobody does once Close stopped the capture.
Queued ==
  /\ page \in [Pages -> {"idle", "locked", "admitted", "queued", "gone"}]
  /\ queue \in Seq(Pages) /\ Len(queue) <= QueueLimit
  /\ \A i \in 1..Len(queue) : page[queue[i]] = "queued"
  /\ \A i, j \in 1..Len(queue) : queue[i] = queue[j] => i = j
  /\ lock \in Pages \cup {Nothing}
  /\ \A p \in Pages : page[p] \in {"locked", "admitted"} => lock = p

Closing ==
  /\ closer \in [pc : {"open", "barrier", "mark", "readers", "wait", "done"},
                 readers : SUBSET Calls]
  /\ writer \in {"loop", "drain", "done"} /\ stopped \in BOOLEAN /\ disabled \in BOOLEAN
  /\ closer.pc \notin {"open", "barrier"} => stopped /\ lock = Nothing
  /\ writer # "loop" => closed
  /\ writer = "done" => queue = <<>>
  /\ closer.pc = "done" => writer = "done"

\* Close waits for the readers that were open when it began, and no other can be.
Leaving ==
  /\ closer.pc = "readers" => \A o \in Calls : call[o].pc = "reading" => o \in closer.readers
  /\ closer.pc \in {"wait", "done"} => \A o \in Calls : call[o].pc # "reading"

ended == closer.pc = "done"

\* What every step keeps.
IInv ==
  /\ AllFine(fill, disk, closed, ended)
  /\ Books(fill, used, reserved, inflight, disk, ended)
  /\ Lost(fill, disk) # {} /\ ~ended => disabled
  /\ Held(fill, call)
  /\ Unique(fill)
  /\ Ordered(fill, older)
  /\ Started(fill, call, page)
  /\ Queued
  /\ Closing
  /\ Leaving

-----------------------------------------------------------------------------
(* What the constants are *)

\* The bounds are numbers, and what is counted is finite.
LEMMA Constants ==
  /\ Budget \in Nat /\ MaxEntries \in Nat /\ QueueLimit \in Nat
  /\ IsFiniteSet(Fills) /\ IsFiniteSet(Calls)
  /\ Nothing \notin Ranges /\ Nothing \notin Fills /\ Nothing \notin Pages
  /\ \A s \in Ranges : s.offset \in Nat /\ s.length \in Nat
<1>1. IsFiniteSet(Fills) /\ Calls \in SUBSET Fills
  BY SourceCacheAssumption DEF Fills
<1>2. IsFiniteSet(Calls)
  BY <1>1, FS_Subset
<1> QED BY <1>1, <1>2, SourceCacheAssumption DEF Fills

\* Every set of fills is finite.
LEMMA FewFills ==
  ASSUME NEW S \in SUBSET Fills
  PROVE  IsFiniteSet(S) /\ Cardinality(S) \in Nat
BY Constants, FS_Subset, FS_CardinalityType

\* The sizes are numbers.
LEMMA Sizes ==
  ASSUME NEW fl \in [Fills -> FillType]
  PROVE  /\ Size(fl) \in [Fills -> Nat] /\ Size(fl) \in [Fills -> Int]
         /\ \A f \in Fills : Size(fl)[f] = Span(fl[f]) /\ Span(fl[f]) \in Nat
<1>1. \A f \in Fills : Span(fl[f]) \in Nat
  BY Constants DEF Span, FillType
<1> QED BY <1>1 DEF Size

\* The sets of fills are sets of fills, and their bytes a number.
LEMMA Totals ==
  ASSUME NEW fl \in [Fills -> FillType], NEW S \in SUBSET Fills
  PROVE  Sum(Size(fl), S) \in Nat
BY Sizes, SumType, Constants

\* ... those named here among them.
LEMMA Subsets ==
  ASSUME NEW fl, NEW dk
  PROVE  /\ Stored(fl) \in SUBSET Fills /\ AtWork(fl) \in SUBSET Fills
         /\ Lost(fl, dk) \in SUBSET Fills /\ Kept(fl, dk) \in SUBSET Fills
BY DEF Stored, AtWork, Lost, Kept

\* A larger set of fills has no fewer bytes.
LEMMA SumMonotone ==
  ASSUME NEW fl \in [Fills -> FillType], NEW S \in SUBSET Fills, NEW R \in SUBSET S
  PROVE  Sum(Size(fl), R) <= Sum(Size(fl), S)
<1>1. Sum(Size(fl), S \ R) = Sum(Size(fl), S) - Sum(Size(fl), R)
  BY Sizes, Constants, SumDifference
<1>2. S \ R \in SUBSET Fills /\ R \in SUBSET Fills
  OBVIOUS
<1>3. /\ Sum(Size(fl), S \ R) \in Nat /\ Sum(Size(fl), R) \in Nat
      /\ Sum(Size(fl), S) \in Nat
  BY <1>2, Totals
<1> QED BY <1>1, <1>3

-----------------------------------------------------------------------------
(* The books *)

\* What a fill v counts for, with its file on the disk dk or not.
Weight(b, v) == IF b THEN Span(v) ELSE 0
Unit(b) == IF b THEN 1 ELSE 0
IsLost(f, v, dk) == f \in dk /\ v.st = "done" /\ ~v.entry
IsKept(f, v, dk) == v.st \in Busy \/ IsLost(f, v, dk)

\* One fill changes, and nothing but its file on the disk: the sums and the numbers
\* change by what it counted for and what it counts for.
LEMMA OneFill ==
  ASSUME NEW fl \in [Fills -> FillType], NEW f \in Fills, NEW v \in FillType,
         NEW dk, NEW dk2, dk2 \ {f} = dk \ {f}, NEW gl, gl = [fl EXCEPT ![f] = v]
  PROVE  /\ Moves(Sum(Size(fl), Stored(fl)), Sum(Size(gl), Stored(gl)),
                  Weight(fl[f].entry, fl[f]), Weight(v.entry, v))
         /\ Moves(Sum(Size(fl), Kept(fl, dk)), Sum(Size(gl), Kept(gl, dk2)),
                  Weight(IsKept(f, fl[f], dk), fl[f]), Weight(IsKept(f, v, dk2), v))
         /\ Moves(Cardinality(Stored(fl)), Cardinality(Stored(gl)),
                  Unit(fl[f].entry), Unit(v.entry))
         /\ Moves(Cardinality(AtWork(fl)), Cardinality(AtWork(gl)),
                  Unit(fl[f].st \in Busy), Unit(v.st \in Busy))
         /\ Moves(Cardinality(Lost(fl, dk)), Cardinality(Lost(gl, dk2)),
                  Unit(IsLost(f, fl[f], dk)), Unit(IsLost(f, v, dk2)))
         /\ gl \in [Fills -> FillType]
<1>1. gl \in [Fills -> FillType] /\ gl[f] = v /\ \A g \in Fills \ {f} : gl[g] = fl[g]
  OBVIOUS
<1>d. \A g \in Fills \ {f} : g \in dk2 <=> g \in dk
  OBVIOUS
<1>2. /\ Stored(fl) \ {f} = Stored(gl) \ {f}
      /\ f \in Stored(fl) <=> fl[f].entry
      /\ f \in Stored(gl) <=> v.entry
  BY <1>1 DEF Stored
<1>3. /\ AtWork(fl) \ {f} = AtWork(gl) \ {f}
      /\ f \in AtWork(fl) <=> fl[f].st \in Busy
      /\ f \in AtWork(gl) <=> v.st \in Busy
  BY <1>1 DEF AtWork
<1>4. /\ Lost(fl, dk) \ {f} = Lost(gl, dk2) \ {f}
      /\ f \in Lost(fl, dk) <=> IsLost(f, fl[f], dk)
      /\ f \in Lost(gl, dk2) <=> IsLost(f, v, dk2)
  BY <1>1, <1>d DEF Lost, IsLost
<1>5. /\ Kept(fl, dk) \ {f} = Kept(gl, dk2) \ {f}
      /\ f \in Kept(fl, dk) <=> IsKept(f, fl[f], dk)
      /\ f \in Kept(gl, dk2) <=> IsKept(f, v, dk2)
  BY <1>3, <1>4 DEF Kept, IsKept
<1> DEFINE a == Size(fl)
           b == Size(gl)
<1>6. a \in [Fills -> Int] /\ b \in [Fills -> Int] /\ a[f] = Span(fl[f]) /\ b[f] = Span(v)
  BY <1>1, Sizes
<1>7. \A g \in Fills \ {f} : a[g] = b[g]
  BY <1>1 DEF Size
<1>s. /\ Stored(fl) \in SUBSET Fills /\ AtWork(fl) \in SUBSET Fills
      /\ Lost(fl, dk) \in SUBSET Fills /\ Kept(fl, dk) \in SUBSET Fills
      /\ Stored(gl) \in SUBSET Fills /\ AtWork(gl) \in SUBSET Fills
      /\ Lost(gl, dk2) \in SUBSET Fills /\ Kept(gl, dk2) \in SUBSET Fills
      /\ IsFiniteSet(Fills)
  BY Subsets, Constants
<1> HIDE DEF a, b
<1>8. Moves(Sum(a, Stored(fl)), Sum(b, Stored(gl)), Term(a, Stored(fl), f), Term(b, Stored(gl), f))
  BY <1>2, <1>6, <1>7, <1>s, SumChange
<1>9. Moves(Sum(a, Kept(fl, dk)), Sum(b, Kept(gl, dk2)),
            Term(a, Kept(fl, dk), f), Term(b, Kept(gl, dk2), f))
  <2>1. \A g \in Kept(fl, dk) \ {f} : a[g] = b[g]
    BY <1>7, <1>s
  <2> QED BY <2>1, <1>5, <1>6, <1>s, SumChange
<1>10. /\ Term(a, Stored(fl), f) = Weight(fl[f].entry, fl[f])
       /\ Term(b, Stored(gl), f) = Weight(v.entry, v)
       /\ Term(a, Kept(fl, dk), f) = Weight(IsKept(f, fl[f], dk), fl[f])
       /\ Term(b, Kept(gl, dk2), f) = Weight(IsKept(f, v, dk2), v)
  BY <1>2, <1>5, <1>6 DEF Term, Weight
<1>11. Moves(Cardinality(Stored(fl)), Cardinality(Stored(gl)),
             One(Stored(fl), f), One(Stored(gl), f))
  BY <1>2, <1>s, CountChange
<1>12. Moves(Cardinality(AtWork(fl)), Cardinality(AtWork(gl)),
             One(AtWork(fl), f), One(AtWork(gl), f))
  BY <1>3, <1>s, CountChange
<1>13. Moves(Cardinality(Lost(fl, dk)), Cardinality(Lost(gl, dk2)),
             One(Lost(fl, dk), f), One(Lost(gl, dk2), f))
  BY <1>4, <1>s, CountChange
<1>14. /\ One(Stored(fl), f) = Unit(fl[f].entry) /\ One(Stored(gl), f) = Unit(v.entry)
       /\ One(AtWork(fl), f) = Unit(fl[f].st \in Busy)
       /\ One(AtWork(gl), f) = Unit(v.st \in Busy)
       /\ One(Lost(fl, dk), f) = Unit(IsLost(f, fl[f], dk))
       /\ One(Lost(gl, dk2), f) = Unit(IsLost(f, v, dk2))
  BY <1>2, <1>3, <1>4 DEF One, Unit
<1> QED BY <1>1, <1>8, <1>9, <1>10, <1>11, <1>12, <1>13, <1>14 DEF a, b

\* What does not change the states, ranges and entries of the fills leaves the books
\* alone.
Alike(fl, gl) ==
  \A f \in Fills : gl[f].st = fl[f].st /\ gl[f].span = fl[f].span /\ (gl[f].entry <=> fl[f].entry)

\* The sets and sizes are the same then.
LEMMA SameBooks ==
  ASSUME NEW fl, NEW gl, Alike(fl, gl), NEW dk
  PROVE  /\ Stored(gl) = Stored(fl) /\ AtWork(gl) = AtWork(fl) /\ Lost(gl, dk) = Lost(fl, dk)
         /\ Kept(gl, dk) = Kept(fl, dk) /\ Size(gl) = Size(fl)
BY DEF Alike, Stored, AtWork, Lost, Kept, Size, Span

\* ... and so are the books.
LEMMA BooksAlike ==
  ASSUME NEW fl, NEW gl, Alike(fl, gl), NEW us, NEW rs, NEW nf, NEW dk, NEW ov,
         Books(fl, us, rs, nf, dk, ov)
  PROVE  Books(gl, us, rs, nf, dk, ov)
BY SameBooks DEF Books, Limits

\* The counters are numbers.
LEMMA Counters ==
  ASSUME NEW fl \in [Fills -> FillType], NEW us, NEW rs, NEW nf, NEW dk, NEW ov,
         Books(fl, us, rs, nf, dk, ov)
  PROVE  /\ us \in Nat /\ rs \in Nat /\ nf \in Nat /\ us + rs <= Budget
         /\ Cardinality(Stored(fl)) \in Nat /\ Cardinality(Lost(fl, dk)) \in Nat
         /\ Budget \in Nat /\ MaxEntries \in Nat
<1>1. us \in Nat
  BY Subsets, Totals DEF Books
<1>2. nf \in Nat
  BY Subsets, FewFills DEF Books
<1> QED BY <1>1, <1>2, Subsets, FewFills, Constants DEF Books

\* One fill changes while the cache is in use: the counters follow, and stay within
\* their limits.
Room(fl, nf, dk, p, q) ==
  Cardinality(Stored(fl)) + nf + Cardinality(Lost(fl, dk)) - p + q <= MaxEntries

Load(f, v, dk) == Unit(v.entry) + Unit(v.st \in Busy) + Unit(IsLost(f, v, dk))

\* The books after such a change.
LEMMA BooksChange ==
  ASSUME NEW fl \in [Fills -> FillType], NEW f \in Fills, NEW v \in FillType,
         NEW dk, NEW dk2, dk2 \ {f} = dk \ {f}, NEW gl, gl = [fl EXCEPT ![f] = v],
         NEW us, NEW rs, NEW nf, Books(fl, us, rs, nf, dk, FALSE),
         NEW us2, NEW rs2, NEW nf2,
         Moves(us, us2, Weight(fl[f].entry, fl[f]), Weight(v.entry, v)),
         Moves(rs, rs2, Weight(IsKept(f, fl[f], dk), fl[f]), Weight(IsKept(f, v, dk2), v)),
         Moves(nf, nf2, Unit(fl[f].st \in Busy), Unit(v.st \in Busy)),
         us2 + rs2 <= Budget, Room(fl, nf, dk, Load(f, fl[f], dk), Load(f, v, dk2))
  PROVE  Books(gl, us2, rs2, nf2, dk2, FALSE)
<1>1. /\ us = Sum(Size(fl), Stored(fl)) /\ rs = Sum(Size(fl), Kept(fl, dk))
      /\ nf = Cardinality(AtWork(fl))
  BY DEF Books
<1>2. /\ Moves(us, Sum(Size(gl), Stored(gl)), Weight(fl[f].entry, fl[f]), Weight(v.entry, v))
      /\ Moves(rs, Sum(Size(gl), Kept(gl, dk2)),
               Weight(IsKept(f, fl[f], dk), fl[f]), Weight(IsKept(f, v, dk2), v))
      /\ Moves(Cardinality(Stored(fl)), Cardinality(Stored(gl)),
               Unit(fl[f].entry), Unit(v.entry))
      /\ Moves(nf, Cardinality(AtWork(gl)), Unit(fl[f].st \in Busy), Unit(v.st \in Busy))
      /\ Moves(Cardinality(Lost(fl, dk)), Cardinality(Lost(gl, dk2)),
               Unit(IsLost(f, fl[f], dk)), Unit(IsLost(f, v, dk2)))
      /\ gl \in [Fills -> FillType]
  BY <1>1, OneFill
<1>3. /\ us2 = Sum(Size(gl), Stored(gl)) /\ rs2 = Sum(Size(gl), Kept(gl, dk2))
      /\ nf2 = Cardinality(AtWork(gl))
  BY <1>2 DEF Moves
<1>4. rs2 \in Nat
  BY <1>2, <1>3, Subsets, Totals
<1>5. Cardinality(Stored(gl)) + nf2 + Cardinality(Lost(gl, dk2)) <= MaxEntries
  <2>1. /\ Cardinality(Stored(fl)) \in Nat /\ Cardinality(Lost(fl, dk)) \in Nat /\ nf \in Nat
        /\ MaxEntries \in Nat
    BY Counters
  <2>2. \A b \in BOOLEAN : Unit(b) \in Nat
    BY DEF Unit
  <2>3. /\ Unit(fl[f].entry) \in Nat /\ Unit(v.entry) \in Nat
        /\ Unit(fl[f].st \in Busy) \in Nat /\ Unit(v.st \in Busy) \in Nat
        /\ Unit(IsLost(f, fl[f], dk)) \in Nat /\ Unit(IsLost(f, v, dk2)) \in Nat
    BY DEF Unit
  <2> QED BY <1>2, <1>3, <2>1, <2>3 DEF Moves, Room, Load
<1> QED BY <1>3, <1>4, <1>5 DEF Books, Limits

\* The entries V are evicted.
Without(fl, V) == [e \in Fills |-> IF e \in V THEN [fl[e] EXCEPT !.entry = FALSE] ELSE fl[e]]

\* They lose their place among the entries and nothing else.
LEMMA WithoutIs ==
  ASSUME NEW fl \in [Fills -> FillType], NEW V \in SUBSET Fills
  PROVE  /\ Without(fl, V) \in [Fills -> FillType]
         /\ \A f \in Fills : f \notin V => Without(fl, V)[f] = fl[f]
         /\ \A f \in Fills : f \in V =>
              /\ ~Without(fl, V)[f].entry
              /\ Without(fl, V)[f].st = fl[f].st /\ Without(fl, V)[f].span = fl[f].span
              /\ Without(fl, V)[f].waiters = fl[f].waiters
              /\ Without(fl, V)[f].pins = fl[f].pins
              /\ Without(fl, V)[f].attached = fl[f].attached
              /\ Without(fl, V)[f].cancelled = fl[f].cancelled
              /\ Without(fl, V)[f].err = fl[f].err
BY DEF Without, FillType

\* The books after an eviction: what was stored is given back.
LEMMA BooksEvict ==
  ASSUME NEW fl, NEW dk, NEW cd, AllFine(fl, dk, cd, FALSE), NEW V \in SUBSET Stored(fl),
         NEW us, NEW rs, NEW nf, Books(fl, us, rs, nf, dk, FALSE)
  PROVE  /\ Books(Without(fl, V), us - Sum(Size(fl), V), rs, nf, dk \ V, FALSE)
         /\ Stored(Without(fl, V)) = Stored(fl) \ V
         /\ AtWork(Without(fl, V)) = AtWork(fl)
         /\ Lost(Without(fl, V), dk \ V) = Lost(fl, dk)
         /\ Sum(Size(fl), V) \in Nat
<1> DEFINE gl == Without(fl, V)
<1>t. fl \in [Fills -> FillType]
  BY DEF AllFine
<1>v. V \in SUBSET Fills /\ \A f \in V : fl[f].entry /\ fl[f].st = "done"
  BY DEF Stored, AllFine, Fine, Answered
<1>1. /\ Stored(gl) = Stored(fl) \ V /\ AtWork(gl) = AtWork(fl)
      /\ Lost(gl, dk \ V) = Lost(fl, dk) /\ Size(gl) = Size(fl)
  <2> HIDE DEF gl
  <2>1. \A f \in Fills : /\ gl[f].st = fl[f].st /\ gl[f].span = fl[f].span
                         /\ gl[f].entry = (fl[f].entry /\ f \notin V)
    BY <1>t, <1>v, WithoutIs DEF gl, FillType
  <2> QED BY <2>1, <1>v DEF Stored, AtWork, Lost, Size, Span
<1>2. Kept(gl, dk \ V) = Kept(fl, dk)
  BY <1>1 DEF Kept
<1>3. Sum(Size(fl), Stored(fl) \ V) = Sum(Size(fl), Stored(fl)) - Sum(Size(fl), V)
  <2>1. Stored(fl) \in SUBSET Fills /\ Size(fl) \in [Fills -> Int] /\ IsFiniteSet(Fills)
    BY <1>t, Subsets, Sizes, Constants
  <2> QED BY <2>1, SumDifference
<1>4. Sum(Size(fl), V) \in Nat
  BY <1>t, <1>v, Totals
<1>5. Cardinality(Stored(fl) \ V) <= Cardinality(Stored(fl)) /\ Cardinality(Stored(fl) \ V) \in Nat
  <2>1. Stored(fl) \in SUBSET Fills /\ Stored(fl) \ V \in SUBSET Fills
    BY Subsets
  <2>2. IsFiniteSet(Stored(fl))
    BY <2>1, FewFills
  <2> QED BY <2>1, <2>2, FewFills, FS_Subset
<1>6. /\ us \in Nat /\ rs \in Nat /\ nf \in Nat /\ us + rs <= Budget /\ MaxEntries \in Nat
      /\ Cardinality(Stored(fl)) \in Nat /\ Cardinality(Lost(fl, dk)) \in Nat /\ Budget \in Nat
  BY <1>t, Counters
<1>b. /\ us = Sum(Size(fl), Stored(fl)) /\ rs = Sum(Size(fl), Kept(fl, dk))
      /\ nf = Cardinality(AtWork(fl))
      /\ Cardinality(Stored(fl)) + nf + Cardinality(Lost(fl, dk)) <= MaxEntries
  BY DEF Books, Limits
<1> HIDE DEF gl
<1>7. us - Sum(Size(fl), V) + rs <= Budget
  BY <1>4, <1>6
<1>8. Cardinality(Stored(gl)) + nf + Cardinality(Lost(gl, dk \ V)) <= MaxEntries
  BY <1>1, <1>5, <1>6, <1>b
<1>9. us - Sum(Size(fl), V) = Sum(Size(gl), Stored(gl))
  BY <1>1, <1>3, <1>b
<1>10. rs = Sum(Size(gl), Kept(gl, dk \ V)) /\ nf = Cardinality(AtWork(gl))
  BY <1>1, <1>2, <1>b
<1>11. Books(gl, us - Sum(Size(fl), V), rs, nf, dk \ V, FALSE)
  BY <1>6, <1>7, <1>8, <1>9, <1>10 DEF Books, Limits
<1> QED BY <1>1, <1>4, <1>11 DEF gl

\* While the cache is in use, the files on the disk are within the limits.
LEMMA DiskKept ==
  ASSUME NEW fl, NEW dk, NEW cd, AllFine(fl, dk, cd, FALSE),
         NEW us, NEW rs, NEW nf, Books(fl, us, rs, nf, dk, FALSE)
  PROVE  Sum(Size(fl), dk) <= Budget /\ Cardinality(dk) <= MaxEntries
<1>t. fl \in [Fills -> FillType]
  BY DEF AllFine
<1> DEFINE S == Stored(fl)
           A == AtWork(fl)
           L == Lost(fl, dk)
           K == Kept(fl, dk)
<1>1. /\ S \in SUBSET Fills /\ A \in SUBSET Fills /\ L \in SUBSET Fills /\ K \in SUBSET Fills
      /\ dk \in SUBSET Fills
  BY Subsets DEF AllFine
<1>2. /\ dk \subseteq S \cup K /\ S \cap K = {} /\ A \cap L = {} /\ K = A \cup L
  <2>1. \A f \in Fills : fl[f].entry => fl[f].st = "done"
    BY DEF AllFine, Fine, Answered
  <2>2. \A f \in Fills : f \in dk => fl[f].st # "none"
    BY DEF AllFine, Fine, Progress
  <2>3. \A f \in Fills : fl[f].st \in Busy \cup {"none", "done"}
    BY <1>t DEF FillType
  <2> QED BY <1>1, <2>1, <2>2, <2>3 DEF Stored, AtWork, Lost, Kept, Busy
<1>3. /\ us = Sum(Size(fl), S) /\ rs = Sum(Size(fl), K) /\ us + rs <= Budget
      /\ Cardinality(S) + Cardinality(A) + Cardinality(L) <= MaxEntries
  BY DEF Books, Limits
<1>n. Budget \in Nat /\ MaxEntries \in Nat
  BY Constants
<1> HIDE DEF S, A, L, K
<1>4. Sum(Size(fl), S \cup K) = Sum(Size(fl), S) + Sum(Size(fl), K)
  BY <1>t, <1>1, <1>2, Sizes, Constants, SumUnion
<1>5. S \cup K \in SUBSET Fills /\ dk \in SUBSET (S \cup K)
  BY <1>1, <1>2
<1>6. Sum(Size(fl), dk) <= Sum(Size(fl), S \cup K)
  BY <1>t, <1>5, SumMonotone
<1>7. Sum(Size(fl), dk) \in Nat /\ Sum(Size(fl), S) \in Nat /\ Sum(Size(fl), K) \in Nat
  BY <1>t, <1>1, Totals
<1>8. /\ IsFiniteSet(S) /\ IsFiniteSet(A) /\ IsFiniteSet(L) /\ IsFiniteSet(K)
      /\ Cardinality(S) \in Nat /\ Cardinality(A) \in Nat /\ Cardinality(L) \in Nat
      /\ Cardinality(K) \in Nat /\ IsFiniteSet(S \cup K) /\ Cardinality(S \cup K) \in Nat
      /\ Cardinality(dk) \in Nat
  BY <1>1, <1>5, FewFills
<1>9. Cardinality(K) = Cardinality(A) + Cardinality(L)
  <2>1. Cardinality(A \cap L) = 0
    BY <1>2, FS_EmptySet
  <2>2. Cardinality(A \cup L) = Cardinality(A) + Cardinality(L) - Cardinality(A \cap L)
    BY <1>8, FS_Union
  <2> QED BY <1>2, <1>8, <2>1, <2>2
<1>10. Cardinality(S \cup K) = Cardinality(S) + Cardinality(K)
  <2>1. Cardinality(S \cap K) = 0
    BY <1>2, FS_EmptySet
  <2>2. Cardinality(S \cup K) = Cardinality(S) + Cardinality(K) - Cardinality(S \cap K)
    BY <1>8, FS_Union
  <2> QED BY <1>8, <2>1, <2>2
<1>11. Cardinality(dk) <= Cardinality(S \cup K)
  BY <1>5, <1>8, FS_Subset
<1>12. Sum(Size(fl), dk) <= Budget
  BY <1>3, <1>4, <1>6, <1>7, <1>n
<1>13. Cardinality(dk) <= MaxEntries
  BY <1>3, <1>8, <1>9, <1>10, <1>11, <1>n
<1> QED BY <1>12, <1>13

-----------------------------------------------------------------------------
(* The callers *)

\* What a call c counts for in state pc with the fill f.
At(c, f, pc) == Unit(c.at = f /\ c.pc = pc)

\* The callers of a fill are finitely many.
LEMMA HereIs ==
  ASSUME NEW cl, NEW f, NEW pc
  PROVE  /\ Here(cl, f, pc) \in SUBSET Calls /\ IsFiniteSet(Here(cl, f, pc))
         /\ Cardinality(Here(cl, f, pc)) \in Nat
         /\ Cardinality(Here(cl, f, pc)) = 0 <=> Here(cl, f, pc) = {}
<1>1. Here(cl, f, pc) \in SUBSET Calls
  BY DEF Here
<1>2. IsFiniteSet(Here(cl, f, pc))
  BY <1>1, Constants, FS_Subset
<1> QED BY <1>1, <1>2, FS_CardinalityType, FS_EmptySet

\* One call changes its state.
LEMMA OneCall ==
  ASSUME NEW cl \in [Calls -> CallType], NEW o \in Calls, NEW c \in CallType,
         NEW dl, dl = [cl EXCEPT ![o] = c], NEW f, NEW pc
  PROVE  Moves(Cardinality(Here(cl, f, pc)), Cardinality(Here(dl, f, pc)),
               At(cl[o], f, pc), At(c, f, pc))
<1>1. dl[o] = c /\ \A q \in Calls \ {o} : dl[q] = cl[q]
  OBVIOUS
<1>2. /\ Here(cl, f, pc) \ {o} = Here(dl, f, pc) \ {o}
      /\ o \in Here(cl, f, pc) <=> cl[o].at = f /\ cl[o].pc = pc
      /\ o \in Here(dl, f, pc) <=> c.at = f /\ c.pc = pc
  BY <1>1 DEF Here
<1>3. Moves(Cardinality(Here(cl, f, pc)), Cardinality(Here(dl, f, pc)),
            One(Here(cl, f, pc), o), One(Here(dl, f, pc), o))
  BY <1>2, HereIs, Constants, CountChange
<1>4. One(Here(cl, f, pc), o) = At(cl[o], f, pc) /\ One(Here(dl, f, pc), o) = At(c, f, pc)
  BY <1>2 DEF One, At, Unit
<1> QED BY <1>3, <1>4

\* Who waits is counted, and who reads is.
LEMMA Callers ==
  ASSUME NEW fl, NEW cl, Held(fl, cl), NEW o \in Calls
  PROVE  /\ cl[o].pc \in {"wait", "reading"} =>
              /\ cl[o].at \in Fills /\ cl[o].span \in Ranges
              /\ fl[cl[o].at].span \in Ranges /\ Covers(fl[cl[o].at].span, cl[o].span)
         /\ cl[o].pc = "wait" => fl[cl[o].at].waiters > 0
         /\ cl[o].pc = "wait" /\ fl[cl[o].at].entry => fl[cl[o].at].pins > 0
         /\ cl[o].pc = "reading" => fl[cl[o].at].entry /\ fl[cl[o].at].pins > 0
<1>1. Served(fl, cl[o])
  BY DEF Held
<1>2. cl[o].pc \in {"wait", "reading"} => o \in Here(cl, cl[o].at, cl[o].pc)
  BY DEF Here
<1>3. cl[o].pc \in {"wait", "reading"} => Cardinality(Here(cl, cl[o].at, cl[o].pc)) # 0
  BY <1>2, HereIs
<1>4. /\ Cardinality(Here(cl, cl[o].at, "wait")) \in Nat
      /\ Cardinality(Here(cl, cl[o].at, "reading")) \in Nat
  BY HereIs
<1>5. cl[o].at \in Fills => Counted(fl, cl, cl[o].at)
  BY DEF Held
<1>6. CASE cl[o].pc = "wait"
  <2>1. cl[o].at \in Fills /\ Cardinality(Here(cl, cl[o].at, "wait")) > 0
    BY <1>1, <1>3, <1>4, <1>6 DEF Served
  <2> QED BY <2>1, <1>1, <1>4, <1>5, <1>6 DEF Counted, Served
<1>7. CASE cl[o].pc = "reading"
  <2>1. cl[o].at \in Fills /\ Cardinality(Here(cl, cl[o].at, "reading")) > 0
    BY <1>1, <1>3, <1>4, <1>7 DEF Served
  <2> QED BY <2>1, <1>1, <1>4, <1>5, <1>7 DEF Counted, Served
<1> QED BY <1>6, <1>7

\* An entry nobody pins has no caller.
LEMMA Unpinning ==
  ASSUME NEW fl \in [Fills -> FillType], NEW cl, Held(fl, cl), NEW f \in Fills,
         fl[f].entry, fl[f].pins = 0
  PROVE  fl[f].waiters = 0
<1>1. Counted(fl, cl, f)
  BY DEF Held
<1>2. /\ Cardinality(Here(cl, f, "wait")) \in Nat /\ Cardinality(Here(cl, f, "reading")) \in Nat
  BY HereIs
<1> QED BY <1>1, <1>2 DEF Counted

\* A call changes its state, and with it the fill g it is with, before or after.
With(c, g) == c.pc \in {"wait", "reading"} => c.at = g

\* The callers are held as before, if the fill counts the change.
LEMMA HeldTurn ==
  ASSUME NEW fl \in [Fills -> FillType], NEW cl, Held(fl, cl),
         NEW o \in Calls, NEW c \in CallType, NEW dl, dl = [cl EXCEPT ![o] = c],
         NEW g \in Fills, NEW v \in FillType, NEW gl, gl = [fl EXCEPT ![g] = v],
         With(cl[o], g), With(c, g), v.entry <=> fl[g].entry,
         v.span = fl[g].span \/ (fl[g].waiters = 0 /\ ~fl[g].entry),
         Moves(fl[g].waiters, v.waiters, At(cl[o], g, "wait"), At(c, g, "wait")),
         v.entry => Moves(fl[g].pins, v.pins,
                          At(cl[o], g, "wait") + At(cl[o], g, "reading"),
                          At(c, g, "wait") + At(c, g, "reading")),
         ~v.entry => v.pins = 0,
         Served(gl, c)
  PROVE  Held(gl, dl)
<1>1. /\ gl \in [Fills -> FillType] /\ gl[g] = v /\ \A f \in Fills \ {g} : gl[f] = fl[f]
      /\ cl \in [Calls -> CallType] /\ dl \in [Calls -> CallType]
      /\ dl[o] = c /\ \A q \in Calls \ {o} : dl[q] = cl[q]
  BY DEF Held
<1>2. \A q \in Calls : Served(gl, dl[q])
  <2> SUFFICES ASSUME NEW q \in Calls, q # o PROVE Served(gl, cl[q])
    BY <1>1
  <2>1. Served(fl, cl[q])
    BY DEF Held
  <2>2. CASE v.span = fl[g].span
    <3>1. cl[q].at \in Fills =>
            gl[cl[q].at].span = fl[cl[q].at].span /\ (gl[cl[q].at].entry <=> fl[cl[q].at].entry)
      BY <1>1, <2>2
    <3> QED BY <3>1, <2>1 DEF Served
  <2>3. CASE fl[g].waiters = 0 /\ ~fl[g].entry
    <3>1. cl[q].pc \in {"wait", "reading"} => cl[q].at # g
      BY <2>3, Callers
    <3>2. cl[q].pc \in {"wait", "reading"} => gl[cl[q].at] = fl[cl[q].at]
      BY <3>1, <2>1, <1>1 DEF Served
    <3> QED BY <3>2, <2>1 DEF Served
  <2> QED BY <2>2, <2>3
<1>3. ASSUME NEW f \in Fills PROVE Counted(gl, dl, f)
  <2>1. Counted(fl, cl, f)
    BY <1>3 DEF Held
  <2>2. Moves(Cardinality(Here(cl, f, "wait")), Cardinality(Here(dl, f, "wait")),
              At(cl[o], f, "wait"), At(c, f, "wait"))
    BY <1>1, OneCall
  <2>3. Moves(Cardinality(Here(cl, f, "reading")), Cardinality(Here(dl, f, "reading")),
              At(cl[o], f, "reading"), At(c, f, "reading"))
    BY <1>1, OneCall
  <2>4. /\ Cardinality(Here(cl, f, "wait")) \in Nat /\ Cardinality(Here(cl, f, "reading")) \in Nat
        /\ Cardinality(Here(dl, f, "wait")) \in Nat /\ Cardinality(Here(dl, f, "reading")) \in Nat
    BY HereIs
  <2>5. CASE f # g
    <3>1. /\ At(cl[o], f, "wait") = 0 /\ At(c, f, "wait") = 0
          /\ At(cl[o], f, "reading") = 0 /\ At(c, f, "reading") = 0
      BY <2>5 DEF At, Unit, With
    <3>2. gl[f] = fl[f]
      BY <2>5, <1>1, <1>3
    <3> QED BY <2>1, <2>2, <2>3, <2>4, <3>1, <3>2 DEF Counted, Moves
  <2>6. CASE f = g
    <3>1. /\ At(cl[o], g, "wait") \in Nat /\ At(c, g, "wait") \in Nat
          /\ At(cl[o], g, "reading") \in Nat /\ At(c, g, "reading") \in Nat
      BY DEF At, Unit
    <3>2. v.waiters = Cardinality(Here(dl, g, "wait"))
      BY <2>1, <2>2, <2>4, <2>6, <3>1 DEF Counted, Moves
    <3>3. v.entry => v.pins = Cardinality(Here(dl, g, "wait"))
                              + Cardinality(Here(dl, g, "reading"))
      BY <2>1, <2>2, <2>3, <2>4, <2>6, <3>1 DEF Counted, Moves
    <3> QED BY <3>2, <3>3, <1>1, <2>6 DEF Counted
  <2> QED BY <2>5, <2>6
<1> QED BY <1>1, <1>2, <1>3 DEF Held

\* The fills change, and not what their callers are told.
Steady(v, w) ==
  /\ w.waiters = v.waiters
  /\ w.span = v.span \/ (v.waiters = 0 /\ ~v.entry)
  /\ \/ (w.entry <=> v.entry) /\ w.pins = v.pins
     \/ v.entry /\ ~w.entry /\ v.pins = 0 /\ w.pins = 0
     \/ ~v.entry /\ w.entry /\ w.pins = v.waiters

\* ... and the callers are held by them as before.
LEMMA HeldFills ==
  ASSUME NEW fl \in [Fills -> FillType], NEW cl, Held(fl, cl), NEW gl \in [Fills -> FillType],
         \A f \in Fills : Steady(fl[f], gl[f])
  PROVE  Held(gl, cl)
<1>1. ASSUME NEW q \in Calls PROVE Served(gl, cl[q])
  <2>1. Served(fl, cl[q])
    BY DEF Held
  <2>2. CASE cl[q].pc = "wait"
    <3>1. cl[q].at \in Fills /\ fl[cl[q].at].waiters > 0
      BY <2>2, Callers
    <3>2. gl[cl[q].at].span = fl[cl[q].at].span
      BY <3>1 DEF Steady
    <3> QED BY <2>1, <2>2, <3>2 DEF Served
  <2>3. CASE cl[q].pc = "reading"
    <3>1. cl[q].at \in Fills /\ fl[cl[q].at].entry /\ fl[cl[q].at].pins > 0
      BY <2>3, Callers
    <3>2. gl[cl[q].at].span = fl[cl[q].at].span /\ gl[cl[q].at].entry
      BY <3>1 DEF Steady
    <3> QED BY <2>1, <2>3, <3>2 DEF Served
  <2>4. CASE cl[q].pc \notin {"wait", "reading"}
    BY <2>4 DEF Served
  <2> QED BY <2>2, <2>3, <2>4
<1>2. ASSUME NEW f \in Fills PROVE Counted(gl, cl, f)
  <2>1. Counted(fl, cl, f) /\ Steady(fl[f], gl[f])
    BY <1>2 DEF Held
  <2>2. /\ Cardinality(Here(cl, f, "wait")) \in Nat
        /\ Cardinality(Here(cl, f, "reading")) \in Nat
    BY HereIs
  <2>3. CASE (gl[f].entry <=> fl[f].entry) /\ gl[f].pins = fl[f].pins
    BY <2>1, <2>3 DEF Counted, Steady
  <2>4. CASE fl[f].entry /\ ~gl[f].entry /\ fl[f].pins = 0 /\ gl[f].pins = 0
    BY <2>1, <2>4 DEF Counted, Steady
  <2>5. CASE ~fl[f].entry /\ gl[f].entry /\ gl[f].pins = fl[f].waiters
    <3>1. Here(cl, f, "reading") = {}
      <4> SUFFICES ASSUME NEW q \in Here(cl, f, "reading") PROVE FALSE
        OBVIOUS
      <4>1. q \in Calls /\ cl[q].at = f /\ cl[q].pc = "reading"
        BY DEF Here
      <4>2. fl[cl[q].at].entry
        BY <4>1, Callers
      <4> QED BY <4>1, <4>2, <2>5
    <3>2. Cardinality(Here(cl, f, "reading")) = 0
      BY <3>1, HereIs
    <3> QED BY <2>1, <2>2, <2>5, <3>2 DEF Counted, Steady
  <2> QED BY <2>1, <2>3, <2>4, <2>5 DEF Steady
<1> QED BY <1>1, <1>2 DEF Held

-----------------------------------------------------------------------------
(* The fills, their ranges and their order *)

\* One fill changes, and nothing but its file on the disk.
LEMMA FineChange ==
  ASSUME NEW fl, NEW dk, NEW cd, NEW ov, AllFine(fl, dk, cd, ov),
         NEW f \in Fills, NEW v \in FillType, NEW dk2 \in SUBSET Fills, dk2 \ {f} = dk \ {f},
         Fine(f, v, dk2, cd, ov), NEW gl, gl = [fl EXCEPT ![f] = v]
  PROVE  AllFine(gl, dk2, cd, ov)
<1>1. /\ fl \in [Fills -> FillType] /\ gl \in [Fills -> FillType]
      /\ gl[f] = v /\ \A g \in Fills \ {f} : gl[g] = fl[g]
  BY DEF AllFine
<1>2. ASSUME NEW g \in Fills \ {f} PROVE Fine(g, gl[g], dk2, cd, ov)
  <2>1. Fine(g, fl[g], dk, cd, ov) /\ gl[g] = fl[g]
    BY <1>1, <1>2 DEF AllFine
  <2>2. g \in dk2 <=> g \in dk
    BY <1>2
  <2>3. Progress(g, fl[g], dk2)
    BY <2>1, <2>2 DEF Fine, Progress
  <2> QED BY <2>1, <2>2, <2>3 DEF Fine
<1> QED BY <1>1, <1>2 DEF AllFine

\* Entries without callers are evicted.
LEMMA FineEvict ==
  ASSUME NEW fl, NEW dk, NEW cd, NEW ov, AllFine(fl, dk, cd, ov),
         NEW V \in SUBSET Stored(fl), \A f \in V : fl[f].waiters = 0
  PROVE  AllFine(Without(fl, V), dk \ V, cd, ov)
<1> DEFINE gl == Without(fl, V)
<1>1. /\ fl \in [Fills -> FillType] /\ V \in SUBSET Fills /\ \A f \in V : fl[f].entry
      /\ dk \in SUBSET Fills
  BY DEF AllFine, Stored
<1>2. gl \in [Fills -> FillType] /\ \A f \in Fills \ V : gl[f] = fl[f]
  BY <1>1, WithoutIs
<1>3. \A f \in V :
        /\ ~gl[f].entry /\ gl[f].st = fl[f].st /\ gl[f].span = fl[f].span
        /\ gl[f].waiters = fl[f].waiters /\ gl[f].attached = fl[f].attached
        /\ gl[f].cancelled = fl[f].cancelled /\ gl[f].err = fl[f].err
  BY <1>1, WithoutIs
<1> HIDE DEF gl
<1>4. ASSUME NEW f \in Fills \ V PROVE Fine(f, gl[f], dk \ V, cd, ov)
  <2>1. Fine(f, fl[f], dk, cd, ov) /\ gl[f] = fl[f]
    BY <1>2, <1>4 DEF AllFine
  <2>2. Progress(f, fl[f], dk \ V)
    BY <1>4, <2>1 DEF Fine, Progress
  <2> QED BY <1>4, <2>1, <2>2 DEF Fine
<1>5. ASSUME NEW f \in V PROVE Fine(f, gl[f], dk \ V, cd, ov)
  <2>1. Fine(f, fl[f], dk, cd, ov) /\ fl[f].entry
    BY <1>1, <1>5 DEF AllFine
  <2>2. fl[f].st = "done"
    BY <2>1 DEF Fine, Answered
  <2>3. Progress(f, gl[f], dk \ V)
    BY <1>3, <1>5, <2>1, <2>2 DEF Fine, Progress
  <2>4. Shared(f, gl[f])
    BY <1>3, <1>5, <2>1, <2>2 DEF Fine, Shared
  <2>5. Answered(f, gl[f], cd)
    BY <1>3, <1>5, <2>1, <2>2 DEF Fine, Answered
  <2> QED BY <1>3, <1>5, <2>3, <2>4, <2>5 DEF Fine
<1> QED BY <1>1, <1>2, <1>4, <1>5 DEF AllFine, gl

\* The ranges stay unique when a fill keeps its range, or takes one that is free.
LEMMA UniqueChange ==
  ASSUME NEW fl, Unique(fl), NEW gl, NEW f \in Fills,
         \A g \in Fills \ {f} : gl[g] = fl[g],
         gl[f].entry \/ gl[f].attached =>
           \/ (fl[f].entry \/ fl[f].attached) /\ gl[f].span = fl[f].span
           \/ \A g \in Named(fl) \ {f} : fl[g].span # gl[f].span
  PROVE  Unique(gl)
<1>1. \A g \in Fills \ {f} : g \in Named(gl) <=> g \in Named(fl)
  BY DEF Named
<1>2. f \in Named(gl) => \A g \in Named(gl) \ {f} : gl[g].span # gl[f].span
  <2>1. CASE (fl[f].entry \/ fl[f].attached) /\ gl[f].span = fl[f].span
    BY <2>1, <1>1 DEF Unique, Named
  <2>2. CASE \A g \in Named(fl) \ {f} : fl[g].span # gl[f].span
    BY <2>2, <1>1 DEF Named
  <2> QED BY <2>1, <2>2 DEF Named
<1> QED BY <1>1, <1>2 DEF Unique, Named

\* ... or when fewer fills have a name.
LEMMA UniqueFewer ==
  ASSUME NEW fl, Unique(fl), NEW gl,
         \A f \in Fills : /\ gl[f].span = fl[f].span
                          /\ gl[f].entry \/ gl[f].attached => fl[f].entry \/ fl[f].attached
  PROVE  Unique(gl)
BY DEF Unique, Named

\* An entry is used, or becomes one.
Used(fl, od, e) == [g \in Fills |-> IF g = e THEN Stored(fl) \ {e} ELSE od[g] \ {e}]

\* The order with e as the entry used last.
LEMMA OrderedUse ==
  ASSUME NEW fl, NEW od, Ordered(fl, od), NEW gl, NEW e \in Fills,
         Stored(gl) = Stored(fl) \cup {e}
  PROVE  Ordered(gl, Used(fl, od, e))
<1> DEFINE od2 == Used(fl, od, e)
<1>0. od2 = [g \in Fills |-> IF g = e THEN Stored(fl) \ {e} ELSE od[g] \ {e}]
  BY DEF Used
<1> HIDE DEF od2
<1>1. od2 \in [Fills -> SUBSET Fills]
  BY <1>0 DEF Ordered, Stored
<1>2. \A f \in Fills : od2[f] \subseteq (IF f \in Stored(gl) THEN Stored(gl) \ {f} ELSE {})
  BY <1>0 DEF Ordered
<1>3. \A f, g \in Stored(gl) : f # g => (f \in od2[g] <=> g \notin od2[f])
  BY <1>0 DEF Ordered, Stored
<1> QED BY <1>1, <1>2, <1>3 DEF Ordered, od2

\* Entries are evicted.
Unused(od, V) == [g \in Fills |-> IF g \in V THEN {} ELSE od[g] \ V]

\* The order without the entries V.
LEMMA OrderedEvict ==
  ASSUME NEW fl, NEW od, Ordered(fl, od), NEW gl, NEW V, Stored(gl) = Stored(fl) \ V
  PROVE  Ordered(gl, Unused(od, V))
<1> DEFINE od2 == Unused(od, V)
<1>0. od2 = [g \in Fills |-> IF g \in V THEN {} ELSE od[g] \ V]
  BY DEF Unused
<1> HIDE DEF od2
<1>1. od2 \in [Fills -> SUBSET Fills]
  BY <1>0 DEF Ordered
<1>2. \A f \in Fills : od2[f] \subseteq (IF f \in Stored(gl) THEN Stored(gl) \ {f} ELSE {})
  BY <1>0 DEF Ordered
<1>3. \A f, g \in Stored(gl) : f # g => (f \in od2[g] <=> g \notin od2[f])
  BY <1>0 DEF Ordered, Stored
<1> QED BY <1>1, <1>2, <1>3 DEF Ordered, od2

-----------------------------------------------------------------------------
(* The steps of one call *)

\* What the invariant says of one fill.
LEMMA FillIs ==
  ASSUME IInv, NEW f \in Fills
  PROVE  /\ fill \in [Fills -> FillType] /\ fill[f] \in FillType /\ disk \in SUBSET Fills
         /\ Fine(f, fill[f], disk, closed, ended)
         /\ ~fill[f].entry => fill[f].pins = 0
BY DEF IInv, AllFine, Held, Counted

\* ... and of one call.
LEMMA CallIs ==
  ASSUME IInv, NEW o \in Calls
  PROVE  /\ call \in [Calls -> CallType] /\ call[o] \in CallType
         /\ call[o].pc \in {"idle", "wait", "reading", "over"}
         /\ o \in Fills
BY DEF IInv, Held, CallType, Fills

\* A fill that was not started has no callers.
LEMMA NotStarted ==
  ASSUME IInv, NEW f \in Fills, fill[f].st = "none"
  PROVE  fill[f].waiters = 0 /\ ~fill[f].entry /\ fill[f].pins = 0 /\ f \notin disk
<1>1. Fine(f, fill[f], disk, closed, ended) /\ (~fill[f].entry => fill[f].pins = 0)
  BY FillIs
<1>2. ~fill[f].entry /\ f \notin disk /\ fill[f].span = Nothing
  BY <1>1 DEF Fine, Answered, Progress
<1>3. Here(call, f, "wait") = {}
  <2> SUFFICES ASSUME NEW o \in Here(call, f, "wait") PROVE FALSE
    OBVIOUS
  <2>1. o \in Calls /\ call[o].at = f /\ call[o].pc = "wait"
    BY DEF Here
  <2>2. Held(fill, call)
    BY DEF IInv
  <2>3. fill[call[o].at].span \in Ranges
    BY <2>1, <2>2, Callers
  <2> QED BY <2>1, <2>3, <1>2, Constants
<1>4. fill[f].waiters = Cardinality(Here(call, f, "wait"))
  BY DEF IInv, Held, Counted
<1>5. fill[f].waiters = 0
  BY <1>3, <1>4, HereIs
<1> QED BY <1>1, <1>2, <1>5

\* The call o becomes c, and the fill g it is with becomes v.
Turn(o, c, g, v) ==
  /\ v.st = fill[g].st /\ v.span = fill[g].span /\ (v.entry <=> fill[g].entry)
  /\ v.attached => fill[g].attached
  /\ Fine(g, v, disk, closed, ended)
  /\ With(call[o], g) /\ With(c, g)
  /\ Moves(fill[g].waiters, v.waiters, At(call[o], g, "wait"), At(c, g, "wait"))
  /\ v.entry => Moves(fill[g].pins, v.pins,
                      At(call[o], g, "wait") + At(call[o], g, "reading"),
                      At(c, g, "wait") + At(c, g, "reading"))
  /\ ~v.entry => v.pins = 0
  /\ c.pc \in {"wait", "reading"} =>
       c.at = g /\ c.span \in Ranges /\ v.span \in Ranges /\ Covers(v.span, c.span)
  /\ c.pc = "reading" => v.entry /\ ~closed
  /\ c.pc # "idle"

Still == UNCHANGED <<used, reserved, inflight, disk, page, lock, queue, writer, closer>>

\* The threads that start and stop are not disturbed by the callers and fills.
LEMMA ControlKept ==
  ASSUME IInv, Disable \/ StayEnabled, UNCHANGED <<page, lock, queue, writer, closer>>
  PROVE  /\ Queued' /\ Closing' /\ closed' = closed /\ ended' = ended
         /\ (disabled => disabled')
<1>1. Queued'
  BY DEF IInv, Queued
<1>2. closed' = closed /\ ended' = ended
  BY DEF closed, ended
<1>3. (stopped => stopped') /\ stopped' \in BOOLEAN /\ disabled' \in BOOLEAN
      /\ (disabled => disabled')
  BY DEF IInv, Closing, Disable, StayEnabled
<1>4. Closing'
  BY <1>2, <1>3 DEF IInv, Closing
<1> QED BY <1>1, <1>2, <1>3, <1>4

\* Such a turn keeps the invariant.
LEMMA Turned ==
  ASSUME IInv, NEW o \in Calls, NEW c \in CallType, NEW g \in Fills, NEW v \in FillType,
         Turn(o, c, g, v), call' = [call EXCEPT ![o] = c], fill' = [fill EXCEPT ![g] = v],
         UNCHANGED older \/ (fill[g].entry /\ MoveToFront(g)), Disable \/ StayEnabled, Still
  PROVE  IInv'
<1>t. /\ fill \in [Fills -> FillType] /\ call \in [Calls -> CallType]
      /\ fill[g] \in FillType /\ call[o] \in CallType
  BY FillIs, CallIs
<1>f. /\ fill'[g] = v /\ \A f \in Fills \ {g} : fill'[f] = fill[f]
      /\ call'[o] = c /\ \A q \in Calls \ {o} : call'[q] = call[q]
  BY <1>t
<1>u. /\ disk' = disk /\ used' = used /\ reserved' = reserved /\ inflight' = inflight
      /\ page' = page /\ lock' = lock /\ queue' = queue /\ writer' = writer
      /\ closer' = closer
  BY DEF Still
<1>c. /\ Queued' /\ Closing' /\ closed' = closed /\ ended' = ended
      /\ (disabled => disabled')
  BY <1>u, ControlKept
<1>a. Alike(fill, fill')
  BY <1>f DEF Alike, Turn
<1>1. AllFine(fill', disk, closed, ended)
  <2>1. AllFine(fill, disk, closed, ended) /\ disk \in SUBSET Fills
    BY DEF IInv, AllFine
  <2>2. Fine(g, v, disk, closed, ended)
    BY DEF Turn
  <2> QED BY <2>1, <2>2, FineChange
<1>2. Books(fill', used, reserved, inflight, disk, ended)
  BY <1>a, BooksAlike DEF IInv
<1>3. Lost(fill', disk) # {} /\ ~ended => disabled
  BY <1>a, SameBooks DEF IInv
<1>4. Held(fill', call')
  <2>1. Held(fill, call)
    BY DEF IInv
  <2>2. Served(fill', c)
    BY <1>f DEF Turn, Served
  <2>3. /\ With(call[o], g) /\ With(c, g) /\ (v.entry <=> fill[g].entry)
        /\ v.span = fill[g].span
        /\ Moves(fill[g].waiters, v.waiters, At(call[o], g, "wait"), At(c, g, "wait"))
        /\ v.entry => Moves(fill[g].pins, v.pins,
                            At(call[o], g, "wait") + At(call[o], g, "reading"),
                            At(c, g, "wait") + At(c, g, "reading"))
        /\ ~v.entry => v.pins = 0
    BY DEF Turn
  <2> QED BY <1>t, <2>1, <2>2, <2>3, HeldTurn
<1>5. Unique(fill')
  <2>1. \A f \in Fills :
          /\ fill'[f].span = fill[f].span
          /\ fill'[f].entry \/ fill'[f].attached => fill[f].entry \/ fill[f].attached
    BY <1>f DEF Turn
  <2> QED BY <2>1, UniqueFewer DEF IInv
<1>o. Ordered(fill', older')
  <2>1. Ordered(fill, older) /\ Stored(fill') = Stored(fill)
    BY <1>a, SameBooks DEF IInv
  <2>2. CASE UNCHANGED older
    BY <2>1, <2>2 DEF Ordered
  <2>3. CASE fill[g].entry /\ MoveToFront(g)
    <3>1. Stored(fill') = Stored(fill) \cup {g}
      BY <2>1, <2>3 DEF Stored
    <3>2. older' = Used(fill, older, g)
      BY <2>3 DEF MoveToFront, Entries, Stored, Used
    <3>3. Ordered(fill', Used(fill, older, g))
      BY <2>1, <3>1, OrderedUse
    <3> QED BY <3>2, <3>3
  <2> QED BY <2>2, <2>3
<1>6. Started(fill', call', page)
  <2>1. Started(fill, call, page)
    BY DEF IInv
  <2>2. \A f \in Fills : fill'[f].st = fill[f].st
    BY <1>a DEF Alike
  <2>3. c.pc # "idle"
    BY DEF Turn
  <2> QED BY <2>1, <2>2, <2>3, <1>f DEF Started, Fills
<1>7. Leaving'
  <2>1. Leaving
    BY DEF IInv
  <2>2. c.pc = "reading" => ~closed
    BY DEF Turn
  <2>3. closer.pc \in {"readers", "wait", "done"} => closed
    BY DEF closed
  <2> QED BY <2>1, <2>2, <2>3, <1>f, <1>u DEF Leaving
<1> QED BY <1>1, <1>2, <1>3, <1>4, <1>5, <1>6, <1>7, <1>c, <1>o, <1>u DEF IInv

\* What a call is when it is over.
Done(err) == [pc |-> "over", span |-> Nothing, at |-> Nothing, left |-> FALSE, err |-> err]

\* It is a call that waits for nothing and reads nothing.
LEMMA DoneIs ==
  ASSUME NEW err \in {"none", "source"}
  PROVE  Done(err) \in CallType /\ Done(err).pc = "over"
BY DEF Done, CallType

\* A fill that is told nothing stays as fine as it was.
LEMMA StaysFine ==
  ASSUME NEW f, NEW v, NEW w, NEW dk, NEW cd, NEW ov, Fine(f, v, dk, cd, ov),
         w.st = v.st, w.span = v.span, w.attached <=> v.attached,
         w.cancelled <=> v.cancelled, w.entry <=> v.entry, w.err = v.err,
         w.waiters = v.waiters
  PROVE  Fine(f, w, dk, cd, ov)
BY DEF Fine, Progress, Shared, Answered

\* ... and so does one that a caller leaves.
LEMMA FewerWaiters ==
  ASSUME NEW f, NEW v \in FillType, NEW w \in FillType, NEW dk, NEW cd, NEW ov,
         Fine(f, v, dk, cd, ov), v.waiters > 0, w.waiters = v.waiters - 1,
         w.st = v.st, w.span = v.span, w.attached <=> v.attached,
         w.cancelled <=> v.cancelled, w.entry <=> v.entry, w.err = v.err
  PROVE  Fine(f, w, dk, cd, ov)
<1>1. v.waiters \in Nat /\ v.waiters # 0
  BY DEF FillType
<1>2. Progress(f, w, dk)
  BY DEF Fine, Progress
<1>3. Shared(f, w)
  BY <1>1 DEF Fine, Shared
<1>4. Answered(f, w, cd)
  BY <1>1 DEF Fine, Answered
<1> QED BY <1>2, <1>3, <1>4 DEF Fine

\* A caller that goes gives back its wait, its pin, or both.
Gone(x, a, b) ==
  IF a = 0 THEN [x EXCEPT !.pins = @ - 1]
  ELSE IF b = 0 THEN [x EXCEPT !.waiters = @ - 1]
  ELSE [x EXCEPT !.waiters = @ - 1, !.pins = @ - 1]

\* The fill is changed in nothing else.
LEMMA GoneIs ==
  ASSUME NEW x \in FillType, NEW a \in {0, 1}, NEW b \in {0, 1}, a = 0 => b = 1,
         a = 1 => x.waiters > 0, b = 1 => x.pins > 0
  PROVE  /\ Gone(x, a, b) \in FillType
         /\ Gone(x, a, b).st = x.st /\ Gone(x, a, b).span = x.span
         /\ Gone(x, a, b).attached = x.attached /\ Gone(x, a, b).cancelled = x.cancelled
         /\ Gone(x, a, b).entry = x.entry /\ Gone(x, a, b).err = x.err
         /\ Gone(x, a, b).waiters = x.waiters - a /\ Gone(x, a, b).pins = x.pins - b
         /\ x.waiters \in Nat /\ x.pins \in Nat
<1>n. x.waiters \in Nat /\ x.pins \in Nat
  BY DEF FillType
<1>1. CASE a = 0
  <2>1. b = 1 /\ x.pins - 1 \in Nat
    BY <1>1, <1>n
  <2>2. Gone(x, a, b) = [x EXCEPT !.pins = x.pins - 1]
    BY <1>1 DEF Gone
  <2> QED BY <1>1, <1>n, <2>1, <2>2 DEF FillType
<1>2. CASE a = 1 /\ b = 0
  <2>1. x.waiters - 1 \in Nat
    BY <1>2, <1>n
  <2>2. Gone(x, a, b) = [x EXCEPT !.waiters = x.waiters - 1]
    BY <1>2 DEF Gone
  <2> QED BY <1>2, <1>n, <2>1, <2>2 DEF FillType
<1>3. CASE a = 1 /\ b = 1
  <2>1. x.waiters - 1 \in Nat /\ x.pins - 1 \in Nat
    BY <1>3, <1>n
  <2>2. Gone(x, a, b) = [x EXCEPT !.waiters = x.waiters - 1, !.pins = x.pins - 1]
    BY <1>3 DEF Gone
  <2> QED BY <1>3, <1>n, <2>1, <2>2 DEF FillType
<1> QED BY <1>1, <1>2, <1>3

\* A call comes to an end without a fill.
LEMMA OpenPastKeeps ==
  ASSUME IInv, NEW o \in Calls, call[o].pc = "idle", NEW err \in {"none", "source"},
         End(o, err), UNCHANGED <<fill, older>>, Disable \/ StayEnabled, Still
  PROVE  IInv'
<1>0. /\ o \in Fills /\ fill[o] \in FillType /\ fill = [fill EXCEPT ![o] = fill[o]]
      /\ Fine(o, fill[o], disk, closed, ended) /\ (~fill[o].entry => fill[o].pins = 0)
  BY CallIs, FillIs
<1>1. call' = [call EXCEPT ![o] = Done(err)] /\ Done(err) \in CallType /\ Done(err).pc = "over"
  BY DoneIs DEF End, Done
<1>2. fill[o].waiters \in Int /\ fill[o].pins \in Int
  BY <1>0 DEF FillType
<1>3. \A pc \in {"wait", "reading"} : At(call[o], o, pc) = 0 /\ At(Done(err), o, pc) = 0
  BY <1>1 DEF At, Unit
<1>4. Turn(o, Done(err), o, fill[o])
  BY <1>0, <1>1, <1>2, <1>3 DEF Turn, With, Moves
<1> QED BY <1>0, <1>1, <1>4, Turned

\* Open finds an entry.
LEMMA OpenHitKeeps ==
  ASSUME IInv, NEW o \in Calls, call[o].pc = "idle", NEW s \in Ranges, ~closed,
         OpenHit(o, s), UNCHANGED <<capture, closer>>
  PROVE  IInv'
<1>1. PICK e \in CoveringEntries(s) : OpenReader(o, s, e, FALSE)
  BY DEF OpenHit
<1>2. Still
  BY DEF OpenHit, counters, capture, Still
<1>3. e \in Fills /\ fill[e].entry /\ Covers(fill[e].span, s)
  BY DEF CoveringEntries, Entries
<1>4. /\ fill \in [Fills -> FillType] /\ fill[e] \in FillType
      /\ Fine(e, fill[e], disk, closed, ended)
  BY <1>3, FillIs
<1>5. call[o] \in CallType /\ call \in [Calls -> CallType]
  BY CallIs
<1>6. CASE /\ call' = [call EXCEPT ![o].pc = "reading", ![o].span = s, ![o].at = e]
           /\ fill' = [fill EXCEPT ![e].pins = @ + 1]
           /\ MoveToFront(e) /\ StayEnabled
  <2>1. PICK c : c = [call[o] EXCEPT !.pc = "reading", !.span = s, !.at = e]
    OBVIOUS
  <2>2. PICK v : v = [fill[e] EXCEPT !.pins = @ + 1]
    OBVIOUS
  <2>3. /\ c \in CallType /\ c.pc = "reading" /\ c.span = s /\ c.at = e
        /\ call' = [call EXCEPT ![o] = c]
    BY <1>3, <1>5, <1>6, <2>1 DEF CallType
  <2>4. /\ v \in FillType /\ v.st = fill[e].st /\ v.span = fill[e].span
        /\ v.attached = fill[e].attached /\ v.cancelled = fill[e].cancelled
        /\ v.entry = fill[e].entry /\ v.err = fill[e].err /\ v.waiters = fill[e].waiters
        /\ v.pins = fill[e].pins + 1 /\ fill[e].pins \in Nat /\ fill[e].waiters \in Nat
        /\ fill' = [fill EXCEPT ![e] = v]
    BY <1>4, <1>6, <2>2 DEF FillType
  <2>5. Fine(e, v, disk, closed, ended)
    BY <1>4, <2>4, StaysFine
  <2>6. /\ At(call[o], e, "wait") = 0 /\ At(call[o], e, "reading") = 0
        /\ At(c, e, "wait") = 0 /\ At(c, e, "reading") = 1
    BY <2>3 DEF At, Unit
  <2>7. v.span \in Ranges
    BY <1>3, <1>4, <2>4 DEF Fine, Answered, Progress, FillType
  <2>8. Turn(o, c, e, v)
    BY <1>3, <2>3, <2>4, <2>5, <2>6, <2>7 DEF Turn, With, Moves
  <2> QED BY <1>2, <1>3, <1>6, <2>3, <2>4, <2>8, Turned
<1>7. CASE End(o, "none") /\ fill' = fill /\ Disable /\ UNCHANGED older
  BY <1>2, <1>7, OpenPastKeeps
<1> QED BY <1>1, <1>6, <1>7 DEF OpenReader

\* Open joins a fill.
LEMMA OpenJoinKeeps ==
  ASSUME IInv, NEW o \in Calls, call[o].pc = "idle", NEW s \in Ranges,
         OpenJoin(o, s), UNCHANGED <<capture, closer>>
  PROVE  IInv'
<1>1. PICK e \in CoveringFlights(s) :
         /\ fill' = [fill EXCEPT ![e].waiters = @ + 1]
         /\ call' = [call EXCEPT ![o].pc = "wait", ![o].span = s, ![o].at = e]
  BY DEF OpenJoin
<1>2. Still /\ StayEnabled /\ UNCHANGED older
  BY DEF OpenJoin, counters, capture, Still, StayEnabled
<1>3. e \in Fills /\ fill[e].attached /\ Covers(fill[e].span, s)
  BY DEF CoveringFlights, Attached
<1>4. /\ fill \in [Fills -> FillType] /\ fill[e] \in FillType
      /\ Fine(e, fill[e], disk, closed, ended) /\ (~fill[e].entry => fill[e].pins = 0)
  BY <1>3, FillIs
<1>5. call[o] \in CallType /\ call \in [Calls -> CallType]
  BY CallIs
<1>c. PICK c : c = [call[o] EXCEPT !.pc = "wait", !.span = s, !.at = e]
  OBVIOUS
<1>v. PICK v : v = [fill[e] EXCEPT !.waiters = @ + 1]
  OBVIOUS
<1>6. /\ c \in CallType /\ c.pc = "wait" /\ c.span = s /\ c.at = e
      /\ call' = [call EXCEPT ![o] = c]
  BY <1>1, <1>3, <1>5, <1>c DEF CallType
<1>7. /\ v \in FillType /\ v.st = fill[e].st /\ v.span = fill[e].span
      /\ v.attached = fill[e].attached /\ v.cancelled = fill[e].cancelled
      /\ v.entry = fill[e].entry /\ v.err = fill[e].err
      /\ v.waiters = fill[e].waiters + 1 /\ v.pins = fill[e].pins
      /\ fill[e].waiters \in Nat
      /\ fill' = [fill EXCEPT ![e] = v]
  BY <1>1, <1>4, <1>v DEF FillType
<1>8. fill[e].st \in Busy /\ ~fill[e].entry /\ ~fill[e].cancelled
  BY <1>3, <1>4 DEF Fine, Shared, Answered, Busy
<1>9. Fine(e, v, disk, closed, ended)
  <2>1. Progress(e, v, disk)
    BY <1>4, <1>7 DEF Fine, Progress
  <2>2. Shared(e, v)
    BY <1>3, <1>4, <1>7, <1>8 DEF Fine, Shared
  <2>3. Answered(e, v, closed)
    BY <1>3, <1>4, <1>7, <1>8 DEF Fine, Answered, Busy
  <2> QED BY <1>7, <1>8, <2>1, <2>2, <2>3 DEF Fine
<1>10. At(call[o], e, "wait") = 0 /\ At(c, e, "wait") = 1
  BY <1>6 DEF At, Unit
<1>11. v.span \in Ranges
  BY <1>4, <1>7, <1>8 DEF Fine, Progress, FillType, Busy
<1>12. Turn(o, c, e, v)
  BY <1>3, <1>4, <1>6, <1>7, <1>8, <1>9, <1>10, <1>11 DEF Turn, With, Moves
<1> QED BY <1>2, <1>3, <1>6, <1>7, <1>12, Turned

\* The caller's context ends.
LEMMA LeaveKeeps ==
  ASSUME IInv, NEW o \in Calls, Leave(o)
  PROVE  IInv'
<1> DEFINE g == call[o].at
<1>1. call[o].pc = "wait" /\ call[o] \in CallType /\ call \in [Calls -> CallType]
  BY CallIs DEF Leave
<1>2. Still /\ StayEnabled /\ UNCHANGED older /\ fill' = fill
  BY DEF Leave, counters, capture, Still, StayEnabled
<1>h. Held(fill, call)
  BY DEF IInv
<1>3. g \in Fills /\ call[o].span \in Ranges /\ fill[g].span \in Ranges
      /\ Covers(fill[g].span, call[o].span)
  BY <1>1, <1>h, Callers
<1>4. /\ fill \in [Fills -> FillType] /\ fill[g] \in FillType
      /\ Fine(g, fill[g], disk, closed, ended) /\ (~fill[g].entry => fill[g].pins = 0)
  BY <1>3, FillIs
<1>c. PICK c : c = [call[o] EXCEPT !.left = TRUE]
  OBVIOUS
<1>6. /\ c \in CallType /\ c.pc = "wait" /\ c.span = call[o].span /\ c.at = g
      /\ call' = [call EXCEPT ![o] = c]
  BY <1>1, <1>c DEF CallType, Leave
<1>7. fill' = [fill EXCEPT ![g] = fill[g]]
  BY <1>2, <1>4
<1>8. fill[g].waiters \in Int /\ fill[g].pins \in Int
  BY <1>4 DEF FillType
<1>9. /\ At(call[o], g, "wait") = 1 /\ At(c, g, "wait") = 1
      /\ At(call[o], g, "reading") = 0 /\ At(c, g, "reading") = 0
  BY <1>1, <1>6 DEF At, Unit
<1> HIDE DEF g
<1>10. Turn(o, c, g, fill[g])
  <2>1. With(call[o], g) /\ With(c, g)
    BY <1>6 DEF With, g
  <2> QED BY <1>3, <1>4, <1>6, <1>8, <1>9, <2>1 DEF Turn, Moves
<1> QED BY <1>2, <1>3, <1>4, <1>6, <1>7, <1>10, Turned

\* A caller closes its reader.
LEMMA CloseReaderKeeps ==
  ASSUME IInv, NEW o \in Calls, CloseReader(o)
  PROVE  IInv'
<1> DEFINE g == call[o].at
<1>1. call[o].pc = "reading" /\ call[o] \in CallType /\ call \in [Calls -> CallType]
  BY CallIs DEF CloseReader
<1>2. Still /\ StayEnabled /\ UNCHANGED older
  BY DEF CloseReader, counters, capture, Still, StayEnabled
<1>h. Held(fill, call)
  BY DEF IInv
<1>3. g \in Fills /\ fill[g].entry /\ fill[g].pins > 0
  BY <1>1, <1>h, Callers
<1>4. /\ fill \in [Fills -> FillType] /\ fill[g] \in FillType
      /\ Fine(g, fill[g], disk, closed, ended)
  BY <1>3, FillIs
<1>6. /\ call' = [call EXCEPT ![o] = Done("none")] /\ Done("none") \in CallType
      /\ Done("none").pc = "over"
  BY DoneIs DEF CloseReader, End, Done
<1>v. PICK v : v = Gone(fill[g], 0, 1)
  OBVIOUS
<1>p. /\ 0 \in {0, 1} /\ 1 \in {0, 1} /\ (0 = 0 => 1 = 1)
      /\ 0 = 1 => fill[g].waiters > 0
      /\ 1 = 1 => fill[g].pins > 0
  BY <1>3
<1>7. /\ v \in FillType /\ v.st = fill[g].st /\ v.span = fill[g].span
      /\ v.attached = fill[g].attached /\ v.cancelled = fill[g].cancelled
      /\ v.entry = fill[g].entry /\ v.err = fill[g].err
      /\ v.waiters = fill[g].waiters - 0 /\ v.pins = fill[g].pins - 1
      /\ fill[g].waiters \in Nat /\ fill[g].pins \in Nat
  BY <1>4, <1>p, <1>v, GoneIs
<1>x. v.waiters = fill[g].waiters
  BY <1>7
<1>e. fill' = [fill EXCEPT ![g] = v]
  BY <1>3, <1>4, <1>v DEF CloseReader, Gone
<1>9. /\ At(call[o], g, "wait") = 0 /\ At(Done("none"), g, "wait") = 0
      /\ At(call[o], g, "reading") = 1 /\ At(Done("none"), g, "reading") = 0
  BY <1>1, <1>6 DEF At, Unit
<1>w. With(call[o], g) /\ With(Done("none"), g)
  BY <1>6 DEF With
<1> HIDE DEF g
<1>10. Fine(g, v, disk, closed, ended)
  BY <1>4, <1>7, <1>x, StaysFine
<1>11. Turn(o, Done("none"), g, v)
  BY <1>3, <1>6, <1>7, <1>9, <1>10, <1>w, <1>x DEF Turn, Moves
<1> QED BY <1>2, <1>3, <1>6, <1>7, <1>11, <1>e, Turned

\* A caller that waits is turned away.
LEMMA WaitTurnedAwayKeeps ==
  ASSUME IInv, NEW o \in Calls, WaitTurnedAway(o)
  PROVE  IInv'
<1> DEFINE g == call[o].at
<1>1. call[o].pc = "wait" /\ call[o] \in CallType /\ call \in [Calls -> CallType]
  BY CallIs DEF WaitTurnedAway
<1>2. Still /\ StayEnabled /\ UNCHANGED older
  BY DEF WaitTurnedAway, counters, capture, Still, StayEnabled
<1>h. Held(fill, call)
  BY DEF IInv
<1>3. g \in Fills /\ fill[g].waiters > 0 /\ (fill[g].entry => fill[g].pins > 0)
      /\ fill[g].span \in Ranges
  BY <1>1, <1>h, Callers
<1>4. /\ fill \in [Fills -> FillType] /\ fill[g] \in FillType
      /\ Fine(g, fill[g], disk, closed, ended) /\ (~fill[g].entry => fill[g].pins = 0)
      /\ fill[g].pins \in Nat /\ fill[g].waiters \in Nat
  BY <1>3, FillIs DEF FillType
<1>6. /\ call' = [call EXCEPT ![o] = Done("none")] /\ Done("none") \in CallType
      /\ Done("none").pc = "over"
  BY DoneIs DEF WaitTurnedAway, End, Done
<1>9. /\ At(call[o], g, "wait") = 1 /\ At(Done("none"), g, "wait") = 0
      /\ At(call[o], g, "reading") = 0 /\ At(Done("none"), g, "reading") = 0
  BY <1>1, <1>6 DEF At, Unit
<1>w. With(call[o], g) /\ With(Done("none"), g)
  BY <1>6 DEF With
<1>t. TurnAway(o, g)
  BY DEF WaitTurnedAway
<1> HIDE DEF g
<1>10. CASE fill[g].entry
  <2>v. PICK v : v = Gone(fill[g], 1, 1)
    OBVIOUS
  <2>p. /\ 1 \in {0, 1} /\ (1 = 0 => 1 = 1)
        /\ 1 = 1 => fill[g].waiters > 0
        /\ 1 = 1 => fill[g].pins > 0
    BY <1>3, <1>10
  <2>e. v = [fill[g] EXCEPT !.waiters = fill[g].waiters - 1, !.pins = fill[g].pins - 1]
    BY <2>v DEF Gone
  <2>1. /\ v \in FillType /\ v.st = fill[g].st /\ v.span = fill[g].span
        /\ v.attached = fill[g].attached /\ v.cancelled = fill[g].cancelled
        /\ v.entry = fill[g].entry /\ v.err = fill[g].err
        /\ v.waiters = fill[g].waiters - 1 /\ v.pins = fill[g].pins - 1
    BY <1>4, <2>p, <2>v, GoneIs
  <2>2. fill' = [fill EXCEPT ![g] = v]
    BY <1>3, <1>4, <1>10, <1>t, <2>e DEF TurnAway
  <2>3. Fine(g, v, disk, closed, ended)
    BY <1>3, <1>4, <2>1, FewerWaiters
  <2>4. Turn(o, Done("none"), g, v)
    BY <1>3, <1>4, <1>6, <1>9, <1>10, <1>w, <2>1, <2>3 DEF Turn, Moves
  <2> QED BY <1>2, <1>3, <1>6, <2>1, <2>2, <2>4, Turned
<1>11. CASE ~fill[g].entry /\ fill[g].st # "done" /\ fill[g].waiters = 1 /\ g \in Calls
  <2>v. PICK v : v = [fill[g] EXCEPT !.waiters = 0, !.attached = FALSE, !.cancelled = TRUE]
    OBVIOUS
  <2>1. /\ v \in FillType /\ v.st = fill[g].st /\ v.span = fill[g].span
        /\ v.attached = FALSE /\ v.cancelled = TRUE
        /\ v.entry = fill[g].entry /\ v.err = fill[g].err
        /\ v.waiters = 0 /\ v.pins = fill[g].pins
    BY <1>4, <2>v DEF FillType
  <2>2. fill' = [fill EXCEPT ![g] = v]
    BY <1>3, <1>4, <1>11, <1>t, <2>v DEF TurnAway
  <2>3. Fine(g, v, disk, closed, ended)
    <3>1. Progress(g, v, disk)
      BY <1>4, <2>1 DEF Fine, Progress
    <3>2. Shared(g, v)
      BY <1>4, <1>11, <2>1 DEF Fine, Shared
    <3>3. Answered(g, v, closed)
      BY <1>4, <1>11, <2>1 DEF Fine, Answered
    <3> QED BY <1>11, <2>1, <3>1, <3>2, <3>3 DEF Fine
  <2>4. Turn(o, Done("none"), g, v)
    <3>1. /\ ~v.entry /\ v.pins = 0 /\ (v.attached => fill[g].attached)
          /\ (v.entry <=> fill[g].entry)
      BY <1>4, <1>11, <2>1
    <3>2. Moves(fill[g].waiters, v.waiters, 1, 0)
      BY <1>11, <2>1 DEF Moves
    <3> QED BY <1>6, <1>9, <1>w, <2>1, <2>3, <3>1, <3>2 DEF Turn
  <2> QED BY <1>2, <1>3, <1>6, <2>1, <2>2, <2>4, Turned
<1>12. CASE ~fill[g].entry /\ ~(fill[g].st # "done" /\ fill[g].waiters = 1 /\ g \in Calls)
  <2>v. PICK v : v = Gone(fill[g], 1, 0)
    OBVIOUS
  <2>1. /\ v \in FillType /\ v.st = fill[g].st /\ v.span = fill[g].span
        /\ v.attached = fill[g].attached /\ v.cancelled = fill[g].cancelled
        /\ v.entry = fill[g].entry /\ v.err = fill[g].err
        /\ v.waiters = fill[g].waiters - 1 /\ v.pins = fill[g].pins - 0
    BY <1>3, <1>4, <1>12, <2>v, GoneIs
  <2>2. fill' = [fill EXCEPT ![g] = v]
    BY <1>3, <1>4, <1>12, <1>t, <2>v DEF TurnAway, Gone
  <2>3. Fine(g, v, disk, closed, ended)
    BY <1>3, <1>4, <2>1, FewerWaiters
  <2>4. Turn(o, Done("none"), g, v)
    BY <1>3, <1>4, <1>6, <1>9, <1>12, <1>w, <2>1, <2>3 DEF Turn, Moves
  <2> QED BY <1>2, <1>3, <1>6, <2>1, <2>2, <2>4, Turned
<1> QED BY <1>10, <1>11, <1>12

\* A caller is told that its fill failed; for a cancelled fill it is not.
LEMMA WaitFailedKeeps ==
  ASSUME IInv, NEW o \in Calls, WaitFailed(o)
  PROVE  IInv'
<1> DEFINE g == call[o].at
           err == IF fill[g].err = "storage" THEN "none" ELSE fill[g].err
<1>1. call[o].pc = "wait" /\ call[o] \in CallType /\ call \in [Calls -> CallType]
  BY CallIs DEF WaitFailed
<1>2. Still /\ StayEnabled /\ UNCHANGED older
  BY DEF WaitFailed, counters, capture, Still, StayEnabled
<1>h. Held(fill, call)
  BY DEF IInv
<1>3. g \in Fills /\ fill[g].waiters > 0 /\ fill[g].span \in Ranges
  BY <1>1, <1>h, Callers
<1>4. /\ fill \in [Fills -> FillType] /\ fill[g] \in FillType
      /\ Fine(g, fill[g], disk, closed, ended) /\ (~fill[g].entry => fill[g].pins = 0)
      /\ fill[g].pins \in Nat /\ fill[g].waiters \in Nat
      /\ fill[g].err \in {"none", "source", "storage", "canceled"}
  BY <1>3, FillIs DEF FillType
<1>5. fill[g].err # "none" /\ ~closed /\ fill' = [fill EXCEPT ![g].waiters = @ - 1]
  BY DEF WaitFailed
<1>e. ~fill[g].entry /\ fill[g].err # "canceled"
  BY <1>3, <1>4, <1>5 DEF Fine, Answered
<1>r. err \in {"none", "source"}
  BY <1>4, <1>5, <1>e
<1>f. call' = [call EXCEPT ![o] = Done(err)]
  BY DEF WaitFailed, End, Done
<1> HIDE DEF err
<1>6. Done(err) \in CallType /\ Done(err).pc = "over"
  BY <1>r, DoneIs
<1>9. At(call[o], g, "wait") = 1 /\ At(Done(err), g, "wait") = 0
  BY <1>1, <1>6 DEF At, Unit
<1>w. With(call[o], g) /\ With(Done(err), g)
  BY <1>6 DEF With
<1> HIDE DEF g
<1>v. PICK v : v = Gone(fill[g], 1, 0)
  OBVIOUS
<1>10. /\ v \in FillType /\ v.st = fill[g].st /\ v.span = fill[g].span
       /\ v.attached = fill[g].attached /\ v.cancelled = fill[g].cancelled
       /\ v.entry = fill[g].entry /\ v.err = fill[g].err
       /\ v.waiters = fill[g].waiters - 1 /\ v.pins = fill[g].pins - 0
  BY <1>3, <1>4, <1>v, GoneIs
<1>11. fill' = [fill EXCEPT ![g] = v]
  BY <1>3, <1>4, <1>5, <1>v DEF Gone
<1>12. Fine(g, v, disk, closed, ended)
  BY <1>3, <1>4, <1>10, FewerWaiters
<1>13. Turn(o, Done(err), g, v)
  BY <1>3, <1>4, <1>6, <1>9, <1>e, <1>w, <1>10, <1>12 DEF Turn, Moves
<1> QED BY <1>2, <1>3, <1>6, <1>f, <1>10, <1>11, <1>13, Turned

\* A caller gets its reader, or fails to open the file.
LEMMA WaitServedKeeps ==
  ASSUME IInv, NEW o \in Calls, WaitServed(o)
  PROVE  IInv'
<1> DEFINE g == call[o].at
<1>1. call[o].pc = "wait" /\ call[o] \in CallType /\ call \in [Calls -> CallType] /\ ~closed
  BY CallIs DEF WaitServed
<1>2. Still
  BY DEF WaitServed, counters, capture, Still
<1>h. Held(fill, call)
  BY DEF IInv
<1>3. g \in Fills /\ fill[g].waiters > 0 /\ (fill[g].entry => fill[g].pins > 0)
      /\ fill[g].span \in Ranges /\ call[o].span \in Ranges
      /\ Covers(fill[g].span, call[o].span)
  BY <1>1, <1>h, Callers
<1>4. /\ fill \in [Fills -> FillType] /\ fill[g] \in FillType
      /\ Fine(g, fill[g], disk, closed, ended)
      /\ fill[g].pins \in Nat /\ fill[g].waiters \in Nat
  BY <1>3, FillIs DEF FillType
<1>5. fill[g].st = "done" /\ fill[g].err = "none" /\ OpenReader(o, call[o].span, g, TRUE)
  BY DEF WaitServed
<1>e. fill[g].entry
  BY <1>3, <1>4, <1>5 DEF Fine, Answered
<1>a. At(call[o], g, "wait") = 1 /\ At(call[o], g, "reading") = 0 /\ With(call[o], g)
  BY <1>1 DEF At, Unit, With
<1> DEFINE s == call[o].span
<1> HIDE DEF g
<1>6. CASE /\ call' = [call EXCEPT ![o].pc = "reading", ![o].span = s, ![o].at = g]
           /\ fill' = [fill EXCEPT ![g].waiters = @ - 1]
           /\ MoveToFront(g) /\ StayEnabled
  <2>c. PICK c : c = [call[o] EXCEPT !.pc = "reading", !.span = s, !.at = g]
    OBVIOUS
  <2>1. /\ c \in CallType /\ c.pc = "reading" /\ c.span = s /\ c.at = g
        /\ call' = [call EXCEPT ![o] = c]
    BY <1>1, <1>3, <1>6, <2>c DEF CallType
  <2>v. PICK v : v = Gone(fill[g], 1, 0)
    OBVIOUS
  <2>2. /\ v \in FillType /\ v.st = fill[g].st /\ v.span = fill[g].span
        /\ v.attached = fill[g].attached /\ v.cancelled = fill[g].cancelled
        /\ v.entry = fill[g].entry /\ v.err = fill[g].err
        /\ v.waiters = fill[g].waiters - 1 /\ v.pins = fill[g].pins - 0
    BY <1>3, <1>4, <2>v, GoneIs
  <2>3. fill' = [fill EXCEPT ![g] = v]
    BY <1>3, <1>4, <1>6, <2>v DEF Gone
  <2>4. Fine(g, v, disk, closed, ended)
    BY <1>3, <1>4, <2>2, FewerWaiters
  <2>5. At(c, g, "wait") = 0 /\ At(c, g, "reading") = 1 /\ With(c, g)
    BY <2>1 DEF At, Unit, With
  <2>6. Turn(o, c, g, v)
    BY <1>1, <1>3, <1>4, <1>a, <1>e, <2>1, <2>2, <2>4, <2>5 DEF Turn, Moves
  <2> QED BY <1>2, <1>3, <1>e, <1>6, <2>1, <2>2, <2>3, <2>6, Turned
<1>7. CASE /\ End(o, "none")
           /\ fill' = [fill EXCEPT ![g].waiters = @ - 1, ![g].pins = @ - 1]
           /\ Disable /\ UNCHANGED older
  <2>1. /\ call' = [call EXCEPT ![o] = Done("none")] /\ Done("none") \in CallType
        /\ Done("none").pc = "over"
    BY <1>7, DoneIs DEF End, Done
  <2>v. PICK v : v = Gone(fill[g], 1, 1)
    OBVIOUS
  <2>p. /\ 1 \in {0, 1} /\ (1 = 0 => 1 = 1)
        /\ 1 = 1 => fill[g].waiters > 0
        /\ 1 = 1 => fill[g].pins > 0
    BY <1>3, <1>e
  <2>e. v = [fill[g] EXCEPT !.waiters = fill[g].waiters - 1, !.pins = fill[g].pins - 1]
    BY <2>v DEF Gone
  <2>2. /\ v \in FillType /\ v.st = fill[g].st /\ v.span = fill[g].span
        /\ v.attached = fill[g].attached /\ v.cancelled = fill[g].cancelled
        /\ v.entry = fill[g].entry /\ v.err = fill[g].err
        /\ v.waiters = fill[g].waiters - 1 /\ v.pins = fill[g].pins - 1
    BY <1>4, <2>p, <2>v, GoneIs
  <2>3. fill' = [fill EXCEPT ![g] = v]
    BY <1>3, <1>4, <1>7, <2>e
  <2>4. Fine(g, v, disk, closed, ended)
    BY <1>3, <1>4, <2>2, FewerWaiters
  <2>5. /\ At(Done("none"), g, "wait") = 0 /\ At(Done("none"), g, "reading") = 0
        /\ With(Done("none"), g)
    BY <2>1 DEF At, Unit, With
  <2>6. Turn(o, Done("none"), g, v)
    BY <1>1, <1>3, <1>4, <1>a, <1>e, <2>1, <2>2, <2>4, <2>5 DEF Turn, Moves
  <2> QED BY <1>2, <1>3, <1>7, <2>1, <2>2, <2>3, <2>6, Turned
<1> QED BY <1>5, <1>6, <1>7 DEF OpenReader

-----------------------------------------------------------------------------
(* Room is made *)

\* What is evicted had no callers, and the cache is intact without it.
LEMMA Evicted ==
  ASSUME IInv, ~closed, NEW V \in Victims
  PROVE  /\ V \in SUBSET Fills /\ fill \in [Fills -> FillType] /\ ended = FALSE
         /\ Without(fill, V) \in [Fills -> FillType] /\ Remaining(V) = Without(fill, V)
         /\ Bytes(V) = Sum(Size(fill), V)
         /\ AllFine(Without(fill, V), disk \ V, closed, FALSE)
         /\ Books(Without(fill, V), used - Bytes(V), reserved, inflight, disk \ V, FALSE)
         /\ Stored(Without(fill, V)) = Stored(fill) \ V
         /\ Lost(Without(fill, V), disk \ V) = Lost(fill, disk)
         /\ Held(Without(fill, V), call)
         /\ Unique(Without(fill, V))
         /\ Ordered(fill, older)
         /\ Started(Without(fill, V), call, page)
<1>1. V \in SUBSET Unpinned
  BY DEF Victims
<1>2. V \in SUBSET Stored(fill) /\ V \in SUBSET Fills /\ \A f \in V : fill[f].pins = 0
  BY <1>1 DEF Unpinned, Entries, Stored
<1>e. ended = FALSE
  BY DEF ended, closed
<1>3. /\ AllFine(fill, disk, closed, FALSE)
      /\ Books(fill, used, reserved, inflight, disk, FALSE)
      /\ Held(fill, call) /\ Unique(fill) /\ Ordered(fill, older) /\ Started(fill, call, page)
  BY <1>e DEF IInv
<1>4. fill \in [Fills -> FillType]
  BY <1>3 DEF AllFine
<1>5. \A f \in V : fill[f].waiters = 0
  <2> SUFFICES ASSUME NEW f \in V PROVE fill[f].waiters = 0
    OBVIOUS
  <2>1. f \in Fills /\ fill[f].entry /\ fill[f].pins = 0
    BY <1>2 DEF Stored
  <2> QED BY <2>1, <1>3, <1>4, Unpinning
<1>6. Remaining(V) = Without(fill, V)
  BY DEF Remaining, Without
<1>7. Bytes(V) = Sum(Size(fill), V)
  <2>1. \A f \in Fills : Length(f) = Span(fill[f])
    BY DEF Length, Span
  <2>2. [f \in Fills |-> Length(f)] = Size(fill)
    BY <2>1 DEF Size
  <2> QED BY <2>2 DEF Bytes, Sum
<1>8. AllFine(Without(fill, V), disk \ V, closed, FALSE)
  BY <1>2, <1>3, <1>5, FineEvict
<1>9. /\ Books(Without(fill, V), used - Sum(Size(fill), V), reserved, inflight, disk \ V, FALSE)
      /\ Stored(Without(fill, V)) = Stored(fill) \ V
      /\ Lost(Without(fill, V), disk \ V) = Lost(fill, disk)
  BY <1>2, <1>3, BooksEvict
<1> DEFINE gl == Without(fill, V)
<1>10. /\ gl \in [Fills -> FillType]
       /\ \A f \in Fills : f \notin V => gl[f] = fill[f]
       /\ \A f \in Fills : f \in V =>
            /\ ~gl[f].entry /\ gl[f].st = fill[f].st /\ gl[f].span = fill[f].span
            /\ gl[f].waiters = fill[f].waiters /\ gl[f].pins = fill[f].pins
            /\ gl[f].attached = fill[f].attached
  BY <1>2, <1>4, WithoutIs
<1> HIDE DEF gl
<1>11. \A f \in Fills : Steady(fill[f], gl[f])
  <2> SUFFICES ASSUME NEW f \in Fills PROVE Steady(fill[f], gl[f])
    OBVIOUS
  <2>1. CASE f \notin V
    BY <2>1, <1>10 DEF Steady
  <2>2. CASE f \in V
    BY <2>2, <1>2, <1>10 DEF Steady, Stored
  <2> QED BY <2>1, <2>2
<1>12. Held(gl, call)
  BY <1>3, <1>4, <1>10, <1>11, HeldFills
<1>13. \A f \in Fills : /\ gl[f].span = fill[f].span /\ gl[f].st = fill[f].st
                        /\ gl[f].entry \/ gl[f].attached => fill[f].entry \/ fill[f].attached
  BY <1>10
<1>14. Unique(gl)
  BY <1>3, <1>13, UniqueFewer
<1>15. Started(gl, call, page)
  BY <1>3, <1>13 DEF Started, Fills
<1> QED BY <1>2, <1>3, <1>4, <1>6, <1>7, <1>8, <1>9, <1>10, <1>12, <1>14, <1>15, <1>e DEF gl

\* There is no room: entries may be gone, and nothing else changed.
LEMMA Refused ==
  ASSUME IInv, ~closed, NEW n, Refuse(n)
  PROVE  /\ AllFine(fill', disk', closed, ended)
         /\ Books(fill', used', reserved', inflight', disk', ended)
         /\ Lost(fill', disk') = Lost(fill, disk)
         /\ Held(fill', call) /\ Unique(fill') /\ Ordered(fill', older')
         /\ Started(fill', call, page)
         /\ Disable \/ StayEnabled
<1>1. PICK V \in Victims :
        /\ Evict(V) /\ fill' = Remaining(V)
        /\ IF V # Unpinned THEN Disable ELSE StayEnabled
        /\ UNCHANGED <<reserved, inflight>>
  BY DEF Refuse
<1>2. /\ ended = FALSE /\ Remaining(V) = Without(fill, V)
      /\ AllFine(Without(fill, V), disk \ V, closed, FALSE)
      /\ Books(Without(fill, V), used - Bytes(V), reserved, inflight, disk \ V, FALSE)
      /\ Stored(Without(fill, V)) = Stored(fill) \ V
      /\ Lost(Without(fill, V), disk \ V) = Lost(fill, disk)
      /\ Held(Without(fill, V), call)
      /\ Unique(Without(fill, V))
      /\ Ordered(fill, older)
      /\ Started(Without(fill, V), call, page)
  BY Evicted
<1>3. /\ used' = used - Bytes(V) /\ disk' = disk \ V /\ older' = Unused(older, V)
      /\ fill' = Without(fill, V) /\ reserved' = reserved /\ inflight' = inflight
  BY <1>1, <1>2 DEF Evict, Unused
<1>4. Stored(fill') = Stored(fill) \ V
  BY <1>2, <1>3
<1>5. Ordered(fill', Unused(older, V))
  BY <1>2, <1>4, OrderedEvict
<1> QED BY <1>1, <1>2, <1>3, <1>5

\* What a flight is when it starts.
LEMMA FlightIs ==
  ASSUME NEW s \in Ranges, NEW n \in Nat
  PROVE  /\ NewFlight(s, n) \in FillType
         /\ NewFlight(s, n).st = "create" /\ NewFlight(s, n).span = s
         /\ NewFlight(s, n).waiters = n /\ NewFlight(s, n).attached
         /\ ~NewFlight(s, n).cancelled /\ ~NewFlight(s, n).entry
         /\ NewFlight(s, n).err = "none" /\ NewFlight(s, n).pins = 0
BY DEF NewFlight, NoFill, FillType, Busy

\* A flight is started: nothing has its range, and there is room for it.
LEMMA Admitted ==
  ASSUME IInv, ~closed, ~disabled, NEW f \in Fills, fill[f].st = "none",
         NEW s \in Ranges, CoveringEntries(s) = {}, CoveringFlights(s) = {},
         NEW n \in Nat, Admit(f, NewFlight(s, n))
  PROVE  /\ AllFine(fill', disk', closed, ended)
         /\ Books(fill', used', reserved', inflight', disk', ended)
         /\ Lost(fill', disk') = {}
         /\ Unique(fill') /\ Ordered(fill', older')
         /\ StayEnabled
         /\ \E V \in SUBSET Fills :
              /\ Without(fill, V) \in [Fills -> FillType]
              /\ Held(Without(fill, V), call) /\ Started(Without(fill, V), call, page)
              /\ fill' = [Without(fill, V) EXCEPT ![f] = NewFlight(s, n)]
              /\ Without(fill, V)[f].st = "none" /\ Without(fill, V)[f].waiters = 0
              /\ ~Without(fill, V)[f].entry /\ Without(fill, V)[f].pins = 0
<1> DEFINE new == NewFlight(s, n)
<1>1. PICK V \in Victims :
        /\ Fits(V, new.span.length) /\ Evict(V)
        /\ fill' = [Remaining(V) EXCEPT ![f] = new]
        /\ reserved' = reserved + new.span.length /\ inflight' = inflight + 1
        /\ StayEnabled
  BY DEF Admit
<1>n. /\ new \in FillType /\ new.st = "create" /\ new.span = s /\ new.waiters = n
      /\ new.attached /\ ~new.cancelled /\ ~new.entry
      /\ new.err = "none" /\ new.pins = 0
  <2> HIDE DEF new
  <2>1. new = NewFlight(s, n)
    BY DEF new
  <2> QED BY <2>1, FlightIs
<1> DEFINE gl == Without(fill, V)
<1>2. /\ V \in SUBSET Fills /\ fill \in [Fills -> FillType] /\ ended = FALSE
      /\ gl \in [Fills -> FillType] /\ Remaining(V) = gl
      /\ AllFine(gl, disk \ V, closed, FALSE)
      /\ Books(gl, used - Bytes(V), reserved, inflight, disk \ V, FALSE)
      /\ Stored(gl) = Stored(fill) \ V
      /\ Lost(gl, disk \ V) = Lost(fill, disk)
      /\ Held(gl, call) /\ Unique(gl) /\ Ordered(fill, older) /\ Started(gl, call, page)
  BY Evicted
<1>3. fill[f].waiters = 0 /\ ~fill[f].entry /\ fill[f].pins = 0 /\ f \notin disk
  BY NotStarted
<1>4. f \notin V
  BY <1>3 DEF Victims, Unpinned, Entries
<1>5. /\ \A g \in Fills : gl[g].span = fill[g].span
      /\ \A g \in Fills : gl[g].entry \/ gl[g].attached => fill[g].entry \/ fill[g].attached
      /\ gl[f] = fill[f]
  BY <1>2, <1>4, WithoutIs
<1> HIDE DEF gl, new
<1>6. /\ fill' = [gl EXCEPT ![f] = new] /\ used' = used - Bytes(V) /\ disk' = disk \ V
      /\ older' = Unused(older, V)
  BY <1>1, <1>2 DEF Evict, Unused
<1>7. fill'[f] = new /\ \A g \in Fills \ {f} : fill'[g] = gl[g]
  BY <1>2, <1>6
<1>d. f \notin disk \ V /\ disk \ V \in SUBSET Fills
  BY <1>2, <1>3 DEF AllFine
<1>8. AllFine(fill', disk', closed, FALSE)
  <2>1. Progress(f, new, disk \ V)
    BY <1>d, <1>n, Constants DEF Progress
  <2>2. Shared(f, new)
    BY <1>n DEF Shared, Busy
  <2>3. Answered(f, new, closed)
    BY <1>n DEF Answered
  <2>4. Fine(f, new, disk \ V, closed, FALSE)
    BY <1>n, <2>1, <2>2, <2>3 DEF Fine
  <2>5. AllFine(fill', disk \ V, closed, FALSE)
    BY <1>2, <1>6, <1>d, <1>n, <2>4, FineChange
  <2> QED BY <2>5, <1>6
<1>l. Lost(fill, disk) = {}
  BY <1>2 DEF IInv
<1>9. Books(fill', used', reserved', inflight', disk', FALSE)
  <2>1. s \in Ranges /\ s # Nothing /\ s.length \in Nat
    BY Constants
  <2>2. /\ Weight(gl[f].entry, gl[f]) = 0 /\ Weight(new.entry, new) = 0
        /\ Unit(gl[f].st \in Busy) = 0 /\ Unit(new.st \in Busy) = 1
        /\ Unit(gl[f].entry) = 0 /\ Unit(new.entry) = 0
    BY <1>3, <1>5, <1>n DEF Weight, Unit, Busy
  <2>3. /\ ~IsKept(f, gl[f], disk \ V) /\ IsKept(f, new, disk \ V)
        /\ ~IsLost(f, gl[f], disk \ V) /\ ~IsLost(f, new, disk \ V)
    BY <1>5, <1>d, <1>n DEF IsKept, IsLost, Busy
  <2>4. /\ Weight(IsKept(f, gl[f], disk \ V), gl[f]) = 0
        /\ Weight(IsKept(f, new, disk \ V), new) = s.length
    BY <2>1, <2>3, <1>n DEF Weight, Span
  <2>5. Load(f, gl[f], disk \ V) = 0 /\ Load(f, new, disk \ V) = 1
    <3>1. Unit(IsLost(f, gl[f], disk \ V)) = 0 /\ Unit(IsLost(f, new, disk \ V)) = 0
      BY <2>3 DEF Unit
    <3> QED BY <2>2, <3>1 DEF Load
  <2>6. /\ used - Bytes(V) \in Nat /\ reserved \in Nat /\ inflight \in Nat
        /\ Cardinality(Stored(gl)) \in Nat /\ Cardinality(Lost(gl, disk \ V)) \in Nat
        /\ Budget \in Nat /\ MaxEntries \in Nat
    BY <1>2, Counters
  <2>7. Cardinality(Lost(gl, disk \ V)) = 0
    BY <1>2, <1>l, FS_EmptySet
  <2>8. /\ used - Bytes(V) + reserved <= Budget - s.length
        /\ Cardinality(Stored(gl)) + inflight < MaxEntries
    BY <1>1, <1>2, <1>n DEF Fits, Entries, Stored
  <2>9. Room(gl, inflight, disk \ V, 0, 1)
    BY <2>6, <2>7, <2>8 DEF Room
  <2>10. /\ Moves(used - Bytes(V), used', 0, 0) /\ Moves(reserved, reserved', 0, s.length)
         /\ Moves(inflight, inflight', 0, 1) /\ used' + reserved' <= Budget
    <3> DEFINE u == used - Bytes(V)
    <3>1. used' = u /\ reserved' = reserved + s.length /\ inflight' = inflight + 1
      BY <1>1, <1>6, <1>n
    <3>2. u \in Nat /\ u + reserved <= Budget - s.length
      BY <2>6, <2>8
    <3> HIDE DEF u
    <3>3. /\ Moves(u, used', 0, 0) /\ Moves(reserved, reserved', 0, s.length)
          /\ Moves(inflight, inflight', 0, 1) /\ used' + reserved' <= Budget
      BY <2>1, <2>6, <3>1, <3>2 DEF Moves
    <3> QED BY <3>3 DEF u
  <2>11. /\ Moves(used - Bytes(V), used', Weight(gl[f].entry, gl[f]), Weight(new.entry, new))
         /\ Moves(reserved, reserved', Weight(IsKept(f, gl[f], disk \ V), gl[f]),
                                       Weight(IsKept(f, new, disk \ V), new))
         /\ Moves(inflight, inflight', Unit(gl[f].st \in Busy), Unit(new.st \in Busy))
         /\ Room(gl, inflight, disk \ V, Load(f, gl[f], disk \ V), Load(f, new, disk \ V))
    BY <2>2, <2>4, <2>5, <2>9, <2>10
  <2>12. Books(fill', used', reserved', inflight', disk \ V, FALSE)
    BY <1>2, <1>6, <1>n, <2>10, <2>11, BooksChange
  <2> QED BY <2>12, <1>6
<1>10. Lost(fill', disk') = {}
  <2>1. Lost(gl, disk \ V) = {}
    BY <1>2, <1>l
  <2>2. ASSUME NEW g \in Lost(fill', disk \ V) PROVE FALSE
    <3>1. g \in Fills /\ g \in disk \ V /\ fill'[g].st = "done" /\ ~fill'[g].entry
      BY <2>2 DEF Lost
    <3>2. g # f
      BY <3>1, <1>d
    <3>3. g \in Lost(gl, disk \ V)
      BY <3>1, <3>2, <1>7 DEF Lost
    <3> QED BY <3>3, <2>1
  <2> QED BY <2>2, <1>6
<1>11. Unique(fill')
  <2>1. ASSUME NEW g \in Named(gl) \ {f}, gl[g].span = s PROVE FALSE
    <3>1. g \in Fills /\ fill[g].span = s /\ (fill[g].entry \/ fill[g].attached)
      BY <2>1, <1>5 DEF Named
    <3>2. Covers(s, s)
      BY Constants DEF Covers
    <3>3. g \in CoveringEntries(s) \/ g \in CoveringFlights(s)
      BY <3>1, <3>2 DEF CoveringEntries, CoveringFlights, Entries, Attached
    <3> QED BY <3>3
  <2>2. fill'[f].span = s
    BY <1>7, <1>n
  <2> QED BY <1>2, <1>7, <2>1, <2>2, UniqueChange
<1>12. Ordered(fill', older')
  <2>1. Stored(fill') = Stored(gl)
    BY <1>3, <1>5, <1>7, <1>n DEF Stored
  <2>2. Stored(fill') = Stored(fill) \ V
    BY <2>1, <1>2
  <2>3. Ordered(fill', Unused(older, V))
    BY <2>2, <1>2, OrderedEvict
  <2> QED BY <2>3, <1>6
<1>13. /\ gl[f].st = "none" /\ gl[f].waiters = 0 /\ ~gl[f].entry /\ gl[f].pins = 0
  BY <1>3, <1>5
<1> QED BY <1>1, <1>2, <1>6, <1>8, <1>9, <1>10, <1>11, <1>12, <1>13 DEF gl, new

-----------------------------------------------------------------------------
(* Fills are started *)

\* The parts of the invariant make it up, when the threads that start and stop are
\* left alone.
LEMMA Assembled ==
  ASSUME IInv, Disable \/ StayEnabled, UNCHANGED <<page, lock, queue, writer, closer>>,
         AllFine(fill', disk', closed, ended),
         Books(fill', used', reserved', inflight', disk', ended),
         Lost(fill', disk') # {} /\ ~ended => disabled',
         Held(fill', call'), Unique(fill'), Ordered(fill', older'),
         Started(fill', call', page),
         \A o \in Calls : call'[o].pc = "reading" => call[o].pc = "reading"
  PROVE  IInv'
<1>1. Queued' /\ Closing' /\ closed' = closed /\ ended' = ended /\ page' = page
  BY ControlKept
<1>2. Leaving'
  BY DEF IInv, Leaving
<1> QED BY <1>1, <1>2 DEF IInv

\* A call that is over holds nothing.
LEMMA HeldOver ==
  ASSUME NEW fl \in [Fills -> FillType], NEW cl, Held(fl, cl), NEW o \in Calls,
         cl[o].pc = "idle", NEW c \in CallType, c.pc = "over",
         NEW dl, dl = [cl EXCEPT ![o] = c], ~fl[o].entry => fl[o].pins = 0
  PROVE  Held(fl, dl)
<1>1. o \in Fills /\ fl[o] \in FillType /\ fl = [fl EXCEPT ![o] = fl[o]]
  BY DEF Fills
<1>2. /\ At(cl[o], o, "wait") = 0 /\ At(cl[o], o, "reading") = 0
      /\ At(c, o, "wait") = 0 /\ At(c, o, "reading") = 0
      /\ With(cl[o], o) /\ With(c, o) /\ Served(fl, c)
  BY DEF At, Unit, With, Served
<1>3. fl[o].waiters \in Int /\ fl[o].pins \in Int
  BY <1>1 DEF FillType
<1>4. /\ Moves(fl[o].waiters, fl[o].waiters, At(cl[o], o, "wait"), At(c, o, "wait"))
      /\ Moves(fl[o].pins, fl[o].pins, At(cl[o], o, "wait") + At(cl[o], o, "reading"),
                                       At(c, o, "wait") + At(c, o, "reading"))
  BY <1>2, <1>3 DEF Moves
<1> QED BY <1>1, <1>2, <1>4, HeldTurn

\* Open starts a fill and waits for it, or finds no room.
LEMMA OpenMissKeeps ==
  ASSUME IInv, NEW o \in Calls, call[o].pc = "idle", NEW s \in Ranges, ~closed, ~disabled,
         OpenMiss(o, s), UNCHANGED <<capture, closer>>
  PROVE  IInv'
<1>1. /\ CoveringEntries(s) = {} /\ CoveringFlights(s) = {}
      /\ page' = page /\ lock' = lock /\ queue' = queue /\ writer' = writer
      /\ closer' = closer
  BY DEF OpenMiss, capture
<1>2. /\ call[o] \in CallType /\ call \in [Calls -> CallType] /\ o \in Fills
      /\ fill[o].st = "none"
  BY CallIs DEF IInv, Started
<1>3. CASE /\ Admit(o, NewFlight(s, 1))
           /\ call' = [call EXCEPT ![o].pc = "wait", ![o].span = s, ![o].at = o]
  <2>c. PICK c : c = [call[o] EXCEPT !.pc = "wait", !.span = s, !.at = o]
    OBVIOUS
  <2>1. /\ c \in CallType /\ c.pc = "wait" /\ c.span = s /\ c.at = o
        /\ call' = [call EXCEPT ![o] = c]
    BY <1>2, <1>3, <2>c DEF CallType
  <2>2. /\ NewFlight(s, 1) \in FillType /\ NewFlight(s, 1).span = s
        /\ NewFlight(s, 1).waiters = 1 /\ ~NewFlight(s, 1).entry
        /\ NewFlight(s, 1).pins = 0
    <3>1. 1 \in Nat
      OBVIOUS
    <3> QED BY <3>1, FlightIs
  <2>3. /\ AllFine(fill', disk', closed, ended)
        /\ Books(fill', used', reserved', inflight', disk', ended)
        /\ Lost(fill', disk') = {}
        /\ Unique(fill') /\ Ordered(fill', older')
        /\ StayEnabled
        /\ \E V \in SUBSET Fills :
             /\ Without(fill, V) \in [Fills -> FillType]
             /\ Held(Without(fill, V), call) /\ Started(Without(fill, V), call, page)
             /\ fill' = [Without(fill, V) EXCEPT ![o] = NewFlight(s, 1)]
             /\ Without(fill, V)[o].st = "none" /\ Without(fill, V)[o].waiters = 0
             /\ ~Without(fill, V)[o].entry /\ Without(fill, V)[o].pins = 0
    <3>1. 1 \in Nat
      OBVIOUS
    <3> QED BY <1>1, <1>2, <1>3, <3>1, Admitted
  <2>4. PICK gl \in [Fills -> FillType] :
          /\ Held(gl, call) /\ Started(gl, call, page)
          /\ fill' = [gl EXCEPT ![o] = NewFlight(s, 1)]
          /\ gl[o].waiters = 0 /\ ~gl[o].entry
    BY <2>3
  <2>5. /\ At(call[o], o, "wait") = 0 /\ At(c, o, "wait") = 1
        /\ With(call[o], o) /\ With(c, o)
    BY <2>1 DEF At, Unit, With
  <2>6. Moves(gl[o].waiters, NewFlight(s, 1).waiters,
              At(call[o], o, "wait"), At(c, o, "wait"))
    BY <2>2, <2>4, <2>5 DEF Moves
  <2>f. fill'[o] = NewFlight(s, 1) /\ \A g \in Fills \ {o} : fill'[g] = gl[g]
    BY <1>2, <2>4
  <2>7. Served(fill', c)
    <3>1. Covers(s, s)
      BY Constants DEF Covers
    <3> QED BY <1>2, <2>1, <2>2, <2>f, <3>1 DEF Served
  <2>8. Held(fill', call')
    BY <1>2, <2>1, <2>2, <2>4, <2>5, <2>6, <2>7, HeldTurn
  <2>9. Started(fill', call', page)
    BY <1>2, <2>1, <2>4, <2>f, SourceCacheAssumption DEF Started, Fills
  <2>10. \A q \in Calls : call'[q].pc = "reading" => call[q].pc = "reading"
    BY <1>2, <2>1
  <2> QED BY <1>1, <2>3, <2>8, <2>9, <2>10, Assembled
<1>4. CASE Refuse(s.length) /\ End(o, "none")
  <2>1. /\ call' = [call EXCEPT ![o] = Done("none")] /\ Done("none") \in CallType
        /\ Done("none").pc = "over"
    BY <1>4, DoneIs DEF End, Done
  <2>2. /\ AllFine(fill', disk', closed, ended)
        /\ Books(fill', used', reserved', inflight', disk', ended)
        /\ Lost(fill', disk') = Lost(fill, disk)
        /\ Held(fill', call) /\ Unique(fill') /\ Ordered(fill', older')
        /\ Started(fill', call, page)
        /\ Disable \/ StayEnabled
    BY <1>4, Refused
  <2>3. fill' \in [Fills -> FillType] /\ (~fill'[o].entry => fill'[o].pins = 0)
    BY <1>2, <2>2 DEF AllFine, Held, Counted
  <2>4. Held(fill', call')
    BY <1>2, <2>1, <2>2, <2>3, HeldOver
  <2>5. /\ \A q \in Calls : call'[q].pc = "reading" => call[q].pc = "reading"
        /\ \A q \in Calls : call'[q].pc = "idle" => call[q].pc = "idle"
    BY <1>2, <2>1
  <2>6. Started(fill', call', page)
    BY <2>2, <2>5 DEF Started
  <2>7. Lost(fill', disk') # {} /\ ~ended => disabled'
    BY <2>2 DEF IInv, Disable, StayEnabled
  <2> QED BY <1>1, <2>2, <2>4, <2>5, <2>6, <2>7, Assembled
<1> QED BY <1>3, <1>4 DEF OpenMiss

\* Every way through Open.
LEMMA OpenKeeps ==
  ASSUME IInv, NEW o \in Calls, Open(o)
  PROVE  IInv'
<1>1. call[o].pc = "idle" /\ UNCHANGED <<capture, closer>>
  BY DEF Open
<1>2. PICK s \in Ranges :
        \/ OpenPast(o, s)
        \/ /\ ~closed /\ ~disabled /\ s.length <= Budget
           /\ OpenHit(o, s) \/ OpenJoin(o, s) \/ OpenMiss(o, s)
  BY DEF Open
<1>3. CASE OpenPast(o, s)
  <2>1. /\ End(o, "none") /\ UNCHANGED <<fill, older>> /\ StayEnabled /\ Still
        /\ "none" \in {"none", "source"}
    BY <1>1, <1>3 DEF OpenPast, Still, StayEnabled, counters, capture
  <2> QED BY <1>1, <2>1, OpenPastKeeps
<1>4. CASE ~closed /\ ~disabled /\ OpenHit(o, s)
  BY <1>1, <1>4, OpenHitKeeps
<1>5. CASE ~closed /\ ~disabled /\ OpenJoin(o, s)
  BY <1>1, <1>5, OpenJoinKeeps
<1>6. CASE ~closed /\ ~disabled /\ OpenMiss(o, s)
  BY <1>1, <1>6, OpenMissKeeps
<1> QED BY <1>2, <1>3, <1>4, <1>5, <1>6

-----------------------------------------------------------------------------
(* The work of a flight *)

\* A fill at work is no entry yet, and Close is not over.
LEMMA Working ==
  ASSUME IInv, NEW f \in Fills, fill[f].st \in Busy
  PROVE  /\ ended = FALSE
         /\ fill \in [Fills -> FillType] /\ fill[f] \in FillType
         /\ AllFine(fill, disk, closed, FALSE)
         /\ Books(fill, used, reserved, inflight, disk, FALSE)
         /\ Fine(f, fill[f], disk, closed, ended)
         /\ ~fill[f].entry /\ fill[f].pins = 0 /\ fill[f].span \in Ranges
         /\ Span(fill[f]) = fill[f].span.length /\ Span(fill[f]) \in Nat
<1>1. /\ fill \in [Fills -> FillType] /\ fill[f] \in FillType
      /\ Fine(f, fill[f], disk, closed, ended)
      /\ (~fill[f].entry => fill[f].pins = 0)
  BY FillIs
<1>2. f \in AtWork(fill)
  BY DEF AtWork
<1>3. ended = FALSE
  <2>1. ~ended
    BY <1>2 DEF IInv, Books
  <2> QED BY <2>1 DEF ended
<1>4. /\ AllFine(fill, disk, closed, FALSE)
      /\ Books(fill, used, reserved, inflight, disk, FALSE)
  BY <1>3 DEF IInv
<1>5. ~fill[f].entry /\ fill[f].span # Nothing
  BY <1>1 DEF Fine, Answered, Progress, Busy
<1>6. fill[f].span \in Ranges
  BY <1>1, <1>5 DEF FillType
<1>7. Span(fill[f]) = fill[f].span.length
  BY <1>5 DEF Span
<1>8. Span(fill[f]) \in Nat
  BY <1>1, Sizes
<1> QED BY <1>1, <1>3, <1>4, <1>5, <1>6, <1>7, <1>8

\* What a fill at work counts for.
LEMMA WorkIs ==
  ASSUME NEW f, NEW v, v.st \in Busy, ~v.entry, NEW dk
  PROVE  /\ Weight(v.entry, v) = 0 /\ Unit(v.st \in Busy) = 1
         /\ Weight(IsKept(f, v, dk), v) = Span(v) /\ Load(f, v, dk) = 1
<1>1. IsKept(f, v, dk) /\ ~IsLost(f, v, dk)
  BY DEF IsKept, IsLost, Busy
<1>2. Unit(v.entry) = 0 /\ Unit(v.st \in Busy) = 1 /\ Unit(IsLost(f, v, dk)) = 0
  BY <1>1 DEF Unit
<1> QED BY <1>1, <1>2 DEF Weight, Load

\* A flight goes on.
LEMMA Worked ==
  ASSUME IInv, NEW f \in Fills, fill[f].st \in Busy, NEW v \in FillType,
         fill' = [fill EXCEPT ![f] = v],
         UNCHANGED <<call, older, counters, disabled, stopped, capture, closer>>,
         v.st \in Busy, v.span = fill[f].span, v.waiters = fill[f].waiters,
         v.attached <=> fill[f].attached, v.entry <=> fill[f].entry, v.pins = fill[f].pins,
         disk' \in SUBSET Fills, disk' \ {f} = disk \ {f}, Fine(f, v, disk', closed, ended)
  PROVE  IInv'
<1>1. /\ ended = FALSE
      /\ fill \in [Fills -> FillType] /\ fill[f] \in FillType
      /\ AllFine(fill, disk, closed, FALSE)
      /\ Books(fill, used, reserved, inflight, disk, FALSE)
      /\ ~fill[f].entry /\ fill[f].pins = 0 /\ Span(fill[f]) \in Nat
  BY Working
<1>2. fill'[f] = v /\ \A g \in Fills \ {f} : fill'[g] = fill[g]
  BY <1>1
<1>3. /\ page' = page /\ lock' = lock /\ queue' = queue /\ writer' = writer
      /\ closer' = closer /\ call' = call /\ older' = older /\ StayEnabled
      /\ used' = used /\ reserved' = reserved /\ inflight' = inflight
  BY DEF capture, counters, StayEnabled
<1>4. AllFine(fill', disk', closed, ended)
  <2>1. AllFine(fill, disk, closed, ended)
    BY <1>1
  <2> QED BY <2>1, FineChange
<1>5. Books(fill', used', reserved', inflight', disk', FALSE)
  <2>1. /\ Weight(fill[f].entry, fill[f]) = 0 /\ Unit(fill[f].st \in Busy) = 1
        /\ Weight(IsKept(f, fill[f], disk), fill[f]) = Span(fill[f])
        /\ Load(f, fill[f], disk) = 1
    BY <1>1, WorkIs
  <2>2. /\ Weight(v.entry, v) = 0 /\ Unit(v.st \in Busy) = 1
        /\ Weight(IsKept(f, v, disk'), v) = Span(v) /\ Load(f, v, disk') = 1
    BY <1>1, WorkIs
  <2>3. Span(v) = Span(fill[f])
    BY DEF Span
  <2>4. /\ used \in Nat /\ reserved \in Nat /\ inflight \in Nat /\ used + reserved <= Budget
        /\ Cardinality(Stored(fill)) \in Nat /\ Cardinality(Lost(fill, disk)) \in Nat
        /\ MaxEntries \in Nat
    BY <1>1, Counters
  <2>5. Room(fill, inflight, disk, 1, 1)
    <3>1. Cardinality(Stored(fill)) + inflight + Cardinality(Lost(fill, disk)) <= MaxEntries
      BY <1>1 DEF Books, Limits
    <3> QED BY <2>4, <3>1 DEF Room
  <2>6. /\ Moves(used, used', 0, 0) /\ Moves(reserved, reserved', Span(fill[f]), Span(v))
        /\ Moves(inflight, inflight', 1, 1) /\ used' + reserved' <= Budget
    BY <1>1, <1>3, <2>3, <2>4 DEF Moves
  <2>7. /\ Moves(used, used', Weight(fill[f].entry, fill[f]), Weight(v.entry, v))
        /\ Moves(reserved, reserved', Weight(IsKept(f, fill[f], disk), fill[f]),
                                      Weight(IsKept(f, v, disk'), v))
        /\ Moves(inflight, inflight', Unit(fill[f].st \in Busy), Unit(v.st \in Busy))
        /\ Room(fill, inflight, disk, Load(f, fill[f], disk), Load(f, v, disk'))
    BY <2>1, <2>2, <2>5, <2>6
  <2> QED BY <1>1, <2>6, <2>7, BooksChange
<1>6. Lost(fill', disk') # {} => disabled'
  <2>1. Lost(fill', disk') \subseteq Lost(fill, disk)
    <3> SUFFICES ASSUME NEW g \in Lost(fill', disk') PROVE g \in Lost(fill, disk)
      OBVIOUS
    <3>1. g \in Fills /\ g \in disk' /\ fill'[g].st = "done" /\ ~fill'[g].entry
      BY DEF Lost
    <3>2. g # f
      BY <3>1, <1>2 DEF Busy
    <3> QED BY <3>1, <3>2, <1>2 DEF Lost
  <2>2. Lost(fill, disk) # {} => disabled
    BY <1>1 DEF IInv
  <2>3. disabled => disabled'
    BY <1>3 DEF StayEnabled
  <2>4. Lost(fill', disk') # {} => Lost(fill, disk) # {}
    BY <2>1
  <2> QED BY <2>2, <2>3, <2>4
<1>7. Held(fill', call')
  <2>1. Held(fill, call) /\ fill' \in [Fills -> FillType]
    BY <1>1 DEF IInv
  <2>2. \A g \in Fills : Steady(fill[g], fill'[g])
    BY <1>2 DEF Steady
  <2>3. Held(fill', call)
    BY <1>1, <2>1, <2>2, HeldFills
  <2> QED BY <2>3, <1>3
<1>8. Unique(fill')
  <2>1. \A g \in Fills :
          /\ fill'[g].span = fill[g].span
          /\ fill'[g].entry \/ fill'[g].attached => fill[g].entry \/ fill[g].attached
    BY <1>2
  <2> QED BY <2>1, UniqueFewer DEF IInv
<1>9. Ordered(fill', older')
  <2>1. Ordered(fill, older)
    BY DEF IInv
  <2>2. Stored(fill') = Stored(fill)
    BY <1>2 DEF Stored
  <2>3. Ordered(fill', older)
    BY <2>1, <2>2 DEF Ordered
  <2> QED BY <2>3, <1>3
<1>10. Started(fill', call', page)
  <2>1. Started(fill, call, page) /\ fill[f].st # "none"
    BY DEF IInv, Busy
  <2>2. Started(fill', call, page)
    BY <2>1, <1>2 DEF Started, Fills
  <2> QED BY <2>2, <1>3
<1> QED BY <1>1, <1>3, <1>4, <1>5, <1>6, <1>7, <1>8, <1>9, <1>10, Assembled

\* The file is created, or is not.
LEMMA CreateKeeps ==
  ASSUME IInv, NEW f \in Fills, CreateFile(f)
  PROVE  IInv'
<1>1. fill[f].st = "create" /\ fill[f].st \in Busy
      /\ UNCHANGED <<call, older, counters, disabled, stopped, capture, closer>>
  BY DEF CreateFile, Busy
<1>2. /\ fill \in [Fills -> FillType] /\ fill[f] \in FillType
      /\ Fine(f, fill[f], disk, closed, ended) /\ ~fill[f].entry
      /\ disk \in SUBSET Fills /\ fill[f].span \in Ranges
  BY <1>1, Working, FillIs
<1>3. CASE fill' = [fill EXCEPT ![f].st = "write"] /\ disk' = disk \cup {f}
  <2>v. PICK v : v = [fill[f] EXCEPT !.st = "write"]
    OBVIOUS
  <2>1. /\ v \in FillType /\ v.st = "write" /\ v.span = fill[f].span
        /\ v.waiters = fill[f].waiters /\ v.attached = fill[f].attached
        /\ v.cancelled = fill[f].cancelled /\ v.entry = fill[f].entry
        /\ v.err = fill[f].err /\ v.pins = fill[f].pins
        /\ fill' = [fill EXCEPT ![f] = v]
    BY <1>2, <1>3, <2>v DEF FillType, Busy
  <2>2. Fine(f, v, disk', closed, ended)
    <3>1. Progress(f, v, disk')
      BY <1>1, <1>2, <1>3, <2>1, Constants DEF Fine, Progress
    <3>2. Shared(f, v)
      BY <1>1, <1>2, <2>1 DEF Fine, Shared, Busy
    <3>3. Answered(f, v, closed)
      BY <1>1, <1>2, <2>1 DEF Fine, Answered, Progress
    <3> QED BY <1>2, <2>1, <3>1, <3>2, <3>3 DEF Fine
  <2>3. disk' \in SUBSET Fills /\ disk' \ {f} = disk \ {f} /\ v.st \in Busy
    BY <1>2, <1>3, <2>1 DEF Busy
  <2> QED BY <1>1, <2>1, <2>2, <2>3, Worked
<1>4. ASSUME NEW e \in {"storage", "canceled"}, e = "canceled" => Cancellable(f),
             fill' = [fill EXCEPT ![f].st = "finish", ![f].err = e], UNCHANGED disk
      PROVE  IInv'
  <2>v. PICK v : v = [fill[f] EXCEPT !.st = "finish", !.err = e]
    OBVIOUS
  <2>1. /\ v \in FillType /\ v.st = "finish" /\ v.span = fill[f].span
        /\ v.waiters = fill[f].waiters /\ v.attached = fill[f].attached
        /\ v.cancelled = fill[f].cancelled /\ v.entry = fill[f].entry
        /\ v.err = e /\ v.pins = fill[f].pins
        /\ fill' = [fill EXCEPT ![f] = v]
    BY <1>2, <1>4, <2>v DEF FillType, Busy
  <2>2. Fine(f, v, disk, closed, ended)
    <3>1. Progress(f, v, disk)
      BY <1>1, <1>2, <1>4, <2>1, Constants DEF Fine, Progress
    <3>2. Shared(f, v)
      BY <1>1, <1>2, <2>1 DEF Fine, Shared, Busy
    <3>3. Answered(f, v, closed)
      BY <1>1, <1>2, <1>4, <2>1 DEF Fine, Answered, Shared, Cancellable
    <3> QED BY <1>2, <2>1, <3>1, <3>2, <3>3 DEF Fine
  <2>3. disk' = disk /\ v.st \in Busy
    BY <1>4, <2>1 DEF Busy
  <2> QED BY <1>1, <1>2, <2>1, <2>2, <2>3, Worked
<1> QED BY <1>3, <1>4 DEF CreateFile

\* The range is fetched and written, or is not.
LEMMA WriteKeeps ==
  ASSUME IInv, NEW f \in Fills, WriteFile(f)
  PROVE  IInv'
<1>1. fill[f].st = "write" /\ fill[f].st \in Busy
      /\ UNCHANGED <<call, older, counters, disabled, stopped, capture, closer>>
      /\ disk' = disk
  BY DEF WriteFile, Busy
<1>2. /\ fill \in [Fills -> FillType] /\ fill[f] \in FillType
      /\ Fine(f, fill[f], disk, closed, ended) /\ ~fill[f].entry
      /\ disk \in SUBSET Fills /\ fill[f].span \in Ranges
  BY <1>1, Working, FillIs
<1>3. PICK e \in {"none", "source", "storage", "canceled"} :
        /\ e = "canceled" => Cancellable(f)
        /\ fill' = [fill EXCEPT ![f].st = "finish", ![f].err = e]
  BY DEF WriteFile
<1>v. PICK v : v = [fill[f] EXCEPT !.st = "finish", !.err = e]
  OBVIOUS
<1>4. /\ v \in FillType /\ v.st = "finish" /\ v.span = fill[f].span
      /\ v.waiters = fill[f].waiters /\ v.attached = fill[f].attached
      /\ v.cancelled = fill[f].cancelled /\ v.entry = fill[f].entry
      /\ v.err = e /\ v.pins = fill[f].pins
      /\ fill' = [fill EXCEPT ![f] = v]
  BY <1>2, <1>3, <1>v DEF FillType, Busy
<1>5. Fine(f, v, disk, closed, ended)
  <2>1. Progress(f, v, disk)
    BY <1>1, <1>2, <1>4, Constants DEF Fine, Progress
  <2>2. Shared(f, v)
    BY <1>1, <1>2, <1>4 DEF Fine, Shared, Busy
  <2>3. Answered(f, v, closed)
    BY <1>1, <1>2, <1>3, <1>4 DEF Fine, Answered, Shared, Cancellable
  <2> QED BY <1>2, <1>4, <2>1, <2>2, <2>3 DEF Fine
<1>6. v.st \in Busy
  BY <1>4 DEF Busy
<1> QED BY <1>1, <1>2, <1>4, <1>5, <1>6, Worked

\* A flight ends as v: as a failure, with its file gone or lost, or as an entry.
LEMMA Ended ==
  ASSUME IInv, NEW f \in Fills, fill[f].st = "finish", NEW v \in FillType,
         fill' = [fill EXCEPT ![f] = v], v.st = "done", v.span = fill[f].span,
         v.waiters = fill[f].waiters, ~v.attached,
         v.entry => fill[f].attached /\ v.pins = v.waiters, ~v.entry => v.pins = 0,
         disk' \in SUBSET Fills, disk' \ {f} = disk \ {f}, Fine(f, v, disk', closed, ended),
         Moves(used, used', 0, Weight(v.entry, v)),
         Moves(reserved, reserved', Span(v), Weight(IsLost(f, v, disk'), v)),
         inflight' = inflight - 1, used' + reserved' <= Budget,
         IF v.entry THEN MoveToFront(f) ELSE UNCHANGED older,
         Disable \/ StayEnabled, IsLost(f, v, disk') => Disable,
         UNCHANGED <<call, capture, closer>>
  PROVE  IInv'
<1>0. fill[f].st \in Busy
  BY DEF Busy
<1>1. /\ ended = FALSE
      /\ fill \in [Fills -> FillType] /\ fill[f] \in FillType
      /\ AllFine(fill, disk, closed, FALSE)
      /\ Books(fill, used, reserved, inflight, disk, FALSE)
      /\ ~fill[f].entry /\ fill[f].pins = 0 /\ Span(fill[f]) \in Nat
  BY <1>0, Working
<1>2. fill'[f] = v /\ \A g \in Fills \ {f} : fill'[g] = fill[g]
  BY <1>1
<1>3. /\ page' = page /\ lock' = lock /\ queue' = queue /\ writer' = writer
      /\ closer' = closer /\ call' = call
  BY DEF capture
<1>4. AllFine(fill', disk', closed, ended)
  <2>1. AllFine(fill, disk, closed, ended)
    BY <1>1
  <2> QED BY <2>1, FineChange
<1>5. Books(fill', used', reserved', inflight', disk', FALSE)
  <2>1. /\ Weight(fill[f].entry, fill[f]) = 0 /\ Unit(fill[f].st \in Busy) = 1
        /\ Weight(IsKept(f, fill[f], disk), fill[f]) = Span(fill[f])
        /\ Load(f, fill[f], disk) = 1
    BY <1>0, <1>1, WorkIs
  <2>2. Unit(v.st \in Busy) = 0 /\ (IsKept(f, v, disk') <=> IsLost(f, v, disk'))
    BY DEF Unit, IsKept, Busy
  <2>3. Weight(IsKept(f, v, disk'), v) = Weight(IsLost(f, v, disk'), v)
    BY <2>2 DEF Weight
  <2>4. Load(f, v, disk') \in {0, 1}
    BY <2>2 DEF Load, Unit, IsLost
  <2>5. Span(v) = Span(fill[f])
    BY DEF Span
  <2>6. /\ inflight \in Nat /\ MaxEntries \in Nat
        /\ Cardinality(Stored(fill)) \in Nat /\ Cardinality(Lost(fill, disk)) \in Nat
    BY <1>1, Counters
  <2>7. Room(fill, inflight, disk, 1, Load(f, v, disk'))
    <3>1. Cardinality(Stored(fill)) + inflight + Cardinality(Lost(fill, disk)) <= MaxEntries
      BY <1>1 DEF Books, Limits
    <3> QED BY <2>4, <2>6, <3>1 DEF Room
  <2>8. Moves(inflight, inflight', 1, 0)
    BY <2>6 DEF Moves
  <2>9. /\ Moves(used, used', Weight(fill[f].entry, fill[f]), Weight(v.entry, v))
        /\ Moves(reserved, reserved', Weight(IsKept(f, fill[f], disk), fill[f]),
                                      Weight(IsKept(f, v, disk'), v))
        /\ Moves(inflight, inflight', Unit(fill[f].st \in Busy), Unit(v.st \in Busy))
        /\ Room(fill, inflight, disk, Load(f, fill[f], disk), Load(f, v, disk'))
    BY <2>1, <2>2, <2>3, <2>5, <2>7, <2>8
  <2> QED BY <1>1, <2>9, BooksChange
<1>6. Lost(fill', disk') # {} => disabled'
  <2>1. CASE IsLost(f, v, disk')
    BY <2>1 DEF Disable
  <2>2. CASE ~IsLost(f, v, disk')
    <3>1. Lost(fill', disk') \subseteq Lost(fill, disk)
      <4> SUFFICES ASSUME NEW g \in Lost(fill', disk') PROVE g \in Lost(fill, disk)
        OBVIOUS
      <4>1. g \in Fills /\ g \in disk' /\ fill'[g].st = "done" /\ ~fill'[g].entry
        BY DEF Lost
      <4>2. g # f
        BY <4>1, <2>2, <1>2 DEF IsLost
      <4> QED BY <4>1, <4>2, <1>2 DEF Lost
    <3>2. Lost(fill, disk) # {} => disabled
      BY <1>1 DEF IInv
    <3>3. disabled => disabled'
      BY DEF Disable, StayEnabled
    <3>4. Lost(fill', disk') # {} => Lost(fill, disk) # {}
      BY <3>1
    <3> QED BY <3>2, <3>3, <3>4
  <2> QED BY <2>1, <2>2
<1>7. Held(fill', call')
  <2>1. Held(fill, call) /\ fill' \in [Fills -> FillType]
    BY <1>1 DEF IInv
  <2>2. \A g \in Fills : Steady(fill[g], fill'[g])
    BY <1>1, <1>2 DEF Steady
  <2>3. Held(fill', call)
    BY <1>1, <2>1, <2>2, HeldFills
  <2> QED BY <2>3, <1>3
<1>8. Unique(fill')
  <2>1. Unique(fill)
    BY DEF IInv
  <2>2. fill'[f].entry \/ fill'[f].attached =>
          (fill[f].entry \/ fill[f].attached) /\ fill'[f].span = fill[f].span
    BY <1>2
  <2> QED BY <1>2, <2>1, <2>2, UniqueChange
<1>9. Ordered(fill', older')
  <2>1. Ordered(fill, older)
    BY DEF IInv
  <2>2. CASE v.entry
    <3>1. Stored(fill') = Stored(fill) \cup {f}
      BY <1>2, <2>2 DEF Stored
    <3>2. older' = Used(fill, older, f)
      BY <2>2 DEF MoveToFront, Entries, Stored, Used
    <3>3. Ordered(fill', Used(fill, older, f))
      BY <2>1, <3>1, OrderedUse
    <3> QED BY <3>2, <3>3
  <2>3. CASE ~v.entry
    <3>1. Stored(fill') = Stored(fill)
      BY <1>1, <1>2, <2>3 DEF Stored
    <3>2. Ordered(fill', older)
      BY <2>1, <3>1 DEF Ordered
    <3> QED BY <2>3, <3>2
  <2> QED BY <2>2, <2>3
<1>10. Started(fill', call', page)
  <2>1. Started(fill, call, page) /\ fill[f].st # "none"
    BY DEF IInv
  <2>2. Started(fill', call, page)
    BY <2>1, <1>2 DEF Started, Fills
  <2> QED BY <2>2, <1>3
<1> QED BY <1>1, <1>3, <1>4, <1>5, <1>6, <1>7, <1>8, <1>9, <1>10, Assembled

\* What the verdict on a flight says.
LEMMA VerdictIs ==
  ASSUME IInv, NEW f \in Fills, fill[f].st = "finish"
  PROVE  /\ Verdict(f) \in {"none", "source", "storage", "canceled"}
         /\ Verdict(f) = "canceled" => closed \/ fill[f].waiters = 0
         /\ Verdict(f) = "none" => fill[f].attached /\ f \in disk /\ fill[f].err = "none"
<1>1. fill[f] \in FillType /\ Fine(f, fill[f], disk, closed, ended)
  BY FillIs
<1>2. fill[f].err \in {"none", "source", "storage", "canceled"}
  BY <1>1 DEF FillType
<1>3. Verdict(f) = "canceled" => closed \/ fill[f].waiters = 0
  BY <1>1 DEF Verdict, Fine, Answered
<1>4. Verdict(f) = "none" => fill[f].attached /\ f \in disk /\ fill[f].err = "none"
  BY <1>1 DEF Verdict, Fine, Progress, Shared, Busy
<1>5. Verdict(f) \in {"none", "source", "storage", "canceled"}
  BY <1>2 DEF Verdict
<1> QED BY <1>3, <1>4, <1>5

\* A flight ends.
LEMMA FinishKeeps ==
  ASSUME IInv, NEW f \in Fills, Finish(f)
  PROVE  IInv'
<1>1. fill[f].st = "finish" /\ fill[f].st \in Busy
      /\ inflight' = inflight - 1 /\ UNCHANGED <<call, capture, closer>>
  BY DEF Finish, Busy
<1>2. /\ fill \in [Fills -> FillType] /\ fill[f] \in FillType
      /\ Fine(f, fill[f], disk, closed, ended) /\ ~fill[f].entry
      /\ fill[f].pins = 0 /\ fill[f].span \in Ranges
      /\ Span(fill[f]) = fill[f].span.length /\ Span(fill[f]) \in Nat
      /\ Books(fill, used, reserved, inflight, disk, FALSE) /\ disk \in SUBSET Fills
  BY <1>1, Working, FillIs
<1>3. used \in Nat /\ reserved \in Nat /\ used + reserved <= Budget /\ Budget \in Nat
  BY <1>2, Counters
<1>4. /\ Verdict(f) \in {"none", "source", "storage", "canceled"}
      /\ Verdict(f) = "canceled" => closed \/ fill[f].waiters = 0
      /\ Verdict(f) = "none" => fill[f].attached /\ f \in disk /\ fill[f].err = "none"
  BY <1>1, VerdictIs
<1>5. CASE FinishFailed(f)
  <2>v. PICK v : v = [fill[f] EXCEPT !.st = "done", !.attached = FALSE, !.err = Verdict(f)]
    OBVIOUS
  <2>1. /\ v \in FillType /\ v.st = "done" /\ v.span = fill[f].span
        /\ v.waiters = fill[f].waiters /\ ~v.attached
        /\ v.cancelled = fill[f].cancelled /\ ~v.entry
        /\ v.err = Verdict(f) /\ v.pins = 0
        /\ fill' = [fill EXCEPT ![f] = v] /\ Verdict(f) # "none"
    BY <1>2, <1>4, <1>5, <2>v DEF FillType, FinishFailed, Settled
  <2>2. Span(v) = fill[f].span.length /\ Weight(v.entry, v) = 0
    BY <1>2, <2>1 DEF Span, Weight
  <2>3. \A dk : Fine(f, v, dk, closed, ended)
    <3> SUFFICES ASSUME NEW dk PROVE Fine(f, v, dk, closed, ended)
      OBVIOUS
    <3>1. Progress(f, v, dk)
      BY <1>2, <2>1, Constants DEF Progress
    <3>2. Shared(f, v)
      BY <1>2, <2>1 DEF Fine, Shared, Busy
    <3>3. Answered(f, v, closed)
      BY <1>4, <2>1 DEF Answered
    <3> QED BY <2>1, <3>1, <3>2, <3>3 DEF Fine
  <2>4. UNCHANGED older /\ used' = used /\ (Disable \/ StayEnabled)
        /\ Moves(used, used', 0, 0)
    BY <1>3, <1>5 DEF FinishFailed, Moves
  <2>5. CASE disk' = disk \ {f} /\ reserved' = reserved - fill[f].span.length
    <3>1. ~IsLost(f, v, disk') /\ disk' \in SUBSET Fills /\ disk' \ {f} = disk \ {f}
      BY <1>2, <2>5 DEF IsLost
    <3>2. Weight(IsLost(f, v, disk'), v) = 0
      BY <3>1 DEF Weight
    <3>3. Moves(reserved, reserved', Span(v), 0) /\ used' + reserved' <= Budget
      BY <1>2, <1>3, <2>2, <2>4, <2>5 DEF Moves
    <3> QED BY <1>1, <2>1, <2>2, <2>3, <2>4, <3>1, <3>2, <3>3, Ended
  <2>6. CASE f \in disk /\ UNCHANGED <<disk, reserved>> /\ Disable
    <3>1. IsLost(f, v, disk') /\ disk' \in SUBSET Fills /\ disk' \ {f} = disk \ {f}
      BY <1>2, <2>1, <2>6 DEF IsLost
    <3>2. Weight(IsLost(f, v, disk'), v) = Span(v)
      BY <3>1 DEF Weight
    <3>3. Moves(reserved, reserved', Span(v), Span(v)) /\ used' + reserved' <= Budget
      BY <1>2, <1>3, <2>2, <2>4, <2>6 DEF Moves
    <3> QED BY <1>1, <2>1, <2>2, <2>3, <2>4, <2>6, <3>1, <3>2, <3>3, Ended
  <2> QED BY <1>5, <2>5, <2>6 DEF FinishFailed
<1>6. CASE FinishStored(f)
  <2>v. PICK v : v = [fill[f] EXCEPT !.st = "done", !.attached = FALSE, !.err = Verdict(f),
                                     !.entry = TRUE, !.pins = fill[f].waiters]
    OBVIOUS
  <2>1. /\ v \in FillType /\ v.st = "done" /\ v.span = fill[f].span
        /\ v.waiters = fill[f].waiters /\ ~v.attached
        /\ v.cancelled = fill[f].cancelled /\ v.entry
        /\ v.err = Verdict(f) /\ v.pins = fill[f].waiters
    BY <1>2, <1>4, <2>v DEF FillType
  <2>2. fill' = [fill EXCEPT ![f] = v] /\ Verdict(f) = "none"
    BY <1>2, <1>6, <2>v DEF FinishStored, Settled
  <2>3. Span(v) = fill[f].span.length /\ Weight(v.entry, v) = Span(v)
    BY <1>2, <2>1 DEF Span, Weight
  <2>4. MoveToFront(f) /\ disk' = disk /\ StayEnabled
        /\ reserved' = reserved - fill[f].span.length /\ used' = used + fill[f].span.length
    BY <1>6 DEF FinishStored, StayEnabled
  <2>5. Fine(f, v, disk', closed, ended)
    <3>1. Progress(f, v, disk)
      BY <1>2, <2>1, Constants DEF Progress
    <3>2. Shared(f, v)
      BY <1>2, <2>1 DEF Fine, Shared, Busy
    <3>3. Answered(f, v, closed)
      BY <2>1, <2>2 DEF Answered
    <3>4. Fine(f, v, disk, closed, ended)
      BY <1>4, <2>1, <2>2, <3>1, <3>2, <3>3 DEF Fine
    <3> QED BY <2>4, <3>4
  <2>6. ~IsLost(f, v, disk') /\ disk' \in SUBSET Fills /\ disk' \ {f} = disk \ {f}
    BY <1>2, <2>1, <2>4 DEF IsLost
  <2>7. Weight(IsLost(f, v, disk'), v) = 0
    BY <2>6 DEF Weight
  <2>8. /\ Moves(used, used', 0, Span(v)) /\ Moves(reserved, reserved', Span(v), 0)
        /\ used' + reserved' <= Budget
    BY <1>2, <1>3, <2>3, <2>4 DEF Moves
  <2> QED BY <1>1, <1>4, <2>1, <2>2, <2>3, <2>4, <2>5, <2>6, <2>7, <2>8, Ended
<1> QED BY <1>5, <1>6 DEF Finish

-----------------------------------------------------------------------------
(* Capture *)

\* The parts of the invariant make it up, when pages move and Close is left alone.
LEMMA Built ==
  ASSUME IInv, Queued', Closing', UNCHANGED <<call, closer>>,
         AllFine(fill', disk', closed, ended),
         Books(fill', used', reserved', inflight', disk', ended),
         Lost(fill', disk') # {} /\ ~ended => disabled',
         Held(fill', call'), Unique(fill'), Ordered(fill', older'),
         Started(fill', call', page')
  PROVE  IInv'
<1>1. closed' = closed /\ ended' = ended
  BY DEF closed, ended
<1>2. Leaving'
  BY DEF IInv, Leaving
<1> QED BY <1>1, <1>2 DEF IInv

\* Only pages move.
LEMMA PagesMove ==
  ASSUME IInv, Queued', Closing',
         UNCHANGED <<call, fill, older, counters, disabled, disk, closer>>,
         \A p \in Pages : page'[p] # "gone" => page[p] # "gone"
  PROVE  IInv'
<1>1. /\ call' = call /\ fill' = fill /\ older' = older /\ used' = used
      /\ reserved' = reserved /\ inflight' = inflight /\ disk' = disk /\ disabled' = disabled
  BY DEF counters
<1>2. /\ AllFine(fill, disk, closed, ended)
      /\ Books(fill, used, reserved, inflight, disk, ended)
      /\ (Lost(fill, disk) # {} /\ ~ended => disabled)
      /\ Held(fill, call) /\ Unique(fill) /\ Ordered(fill, older)
      /\ Started(fill, call, page)
  BY DEF IInv
<1>3. Started(fill, call, page')
  BY <1>2 DEF Started
<1> QED BY <1>1, <1>2, <1>3, Built

\* A page is offered, and takes captureMu or is dropped.
LEMMA EnqueueKeeps ==
  ASSUME IInv, NEW p \in Pages, Enqueue(p)
  PROVE  IInv'
<1>1. /\ page[p] = "idle" /\ queue' = queue /\ writer' = writer /\ stopped' = stopped
      /\ disabled' = disabled /\ closer' = closer
      /\ UNCHANGED <<call, fill, older, counters, disabled, disk, closer>>
  BY DEF Enqueue
<1>2. Queued /\ Closing
  BY DEF IInv
<1>3. \/ ~stopped /\ lock = Nothing /\ lock' = p /\ page' = [page EXCEPT ![p] = "locked"]
      \/ page' = [page EXCEPT ![p] = "gone"] /\ lock' = lock
  BY DEF Enqueue
<1>4. \A q \in Pages : page'[q] # "gone" => page[q] # "gone"
  BY <1>1, <1>2, <1>3 DEF Queued
<1>5. Queued'
  <2>1. page' \in [Pages -> {"idle", "locked", "admitted", "queued", "gone"}]
    BY <1>2, <1>3 DEF Queued
  <2>2. \A i \in 1..Len(queue) : page'[queue[i]] = "queued"
    <3> SUFFICES ASSUME NEW i \in 1..Len(queue) PROVE page'[queue[i]] = "queued"
      OBVIOUS
    <3>1. queue[i] \in Pages /\ page[queue[i]] = "queued"
      BY <1>2 DEF Queued
    <3> QED BY <3>1, <1>1, <1>2, <1>3 DEF Queued
  <2>3. lock' \in Pages \cup {Nothing}
        /\ \A q \in Pages : page'[q] \in {"locked", "admitted"} => lock' = q
    BY <1>1, <1>2, <1>3, Constants DEF Queued
  <2> QED BY <1>1, <1>2, <2>1, <2>2, <2>3 DEF Queued
<1>6. Closing'
  <2>1. closed' = closed
    BY <1>1 DEF closed
  <2>2. closer.pc \notin {"open", "barrier"} => lock' = Nothing
    BY <1>2, <1>3 DEF Closing
  <2> QED BY <1>1, <1>2, <2>1, <2>2 DEF Closing
<1> QED BY <1>1, <1>4, <1>5, <1>6, PagesMove

\* The admission is checked again.
LEMMA RecheckKeeps ==
  ASSUME IInv, NEW p \in Pages, Recheck(p)
  PROVE  IInv'
<1>1. /\ page[p] = "locked" /\ queue' = queue /\ writer' = writer /\ stopped' = stopped
      /\ disabled' = disabled /\ closer' = closer
      /\ UNCHANGED <<call, fill, older, counters, disabled, disk, closer>>
  BY DEF Recheck
<1>2. Queued /\ Closing
  BY DEF IInv
<1>3. \/ lock' = Nothing /\ page' = [page EXCEPT ![p] = "gone"]
      \/ lock' = lock /\ page' = [page EXCEPT ![p] = "admitted"]
  BY DEF Recheck
<1>4. \A q \in Pages : page'[q] # "gone" => page[q] # "gone"
  BY <1>1, <1>2, <1>3 DEF Queued
<1>5. Queued'
  <2>1. page' \in [Pages -> {"idle", "locked", "admitted", "queued", "gone"}]
    BY <1>2, <1>3 DEF Queued
  <2>2. \A i \in 1..Len(queue) : page'[queue[i]] = "queued"
    <3> SUFFICES ASSUME NEW i \in 1..Len(queue) PROVE page'[queue[i]] = "queued"
      OBVIOUS
    <3>1. queue[i] \in Pages /\ page[queue[i]] = "queued"
      BY <1>2 DEF Queued
    <3> QED BY <3>1, <1>1, <1>2, <1>3 DEF Queued
  <2>3. lock = p
    BY <1>1, <1>2 DEF Queued
  <2>4. lock' \in Pages \cup {Nothing}
        /\ \A q \in Pages : page'[q] \in {"locked", "admitted"} => lock' = q
    BY <1>1, <1>2, <1>3, <2>3 DEF Queued
  <2> QED BY <1>1, <1>2, <2>1, <2>2, <2>4 DEF Queued
<1>6. Closing'
  <2>1. closed' = closed
    BY <1>1 DEF closed
  <2>2. closer.pc \notin {"open", "barrier"} => lock' = Nothing
    BY <1>2, <1>3 DEF Closing
  <2> QED BY <1>1, <1>2, <2>1, <2>2 DEF Closing
<1> QED BY <1>1, <1>4, <1>5, <1>6, PagesMove

\* A page is sent, unless the queue is full.
LEMMA SendKeeps ==
  ASSUME IInv, NEW p \in Pages, Send(p)
  PROVE  IInv'
<1>1. /\ page[p] = "admitted" /\ writer' = writer /\ stopped' = stopped
      /\ disabled' = disabled /\ closer' = closer /\ lock' = Nothing
      /\ UNCHANGED <<call, fill, older, counters, disabled, disk, closer>>
  BY DEF Send
<1>2. Queued /\ Closing
  BY DEF IInv
<1>q. /\ queue \in Seq(Pages) /\ Len(queue) \in Nat /\ Len(queue) <= QueueLimit
      /\ page \in [Pages -> {"idle", "locked", "admitted", "queued", "gone"}]
      /\ \A i \in 1..Len(queue) : queue[i] \in Pages /\ page[queue[i]] = "queued"
      /\ lock = p /\ lock # Nothing
  BY <1>1, <1>2, Constants DEF Queued
<1>3. \/ page' = [page EXCEPT ![p] = "gone"] /\ queue' = queue
      \/ /\ page' = [page EXCEPT ![p] = "queued"] /\ queue' = Append(queue, p)
         /\ Len(queue) < QueueLimit
  BY <1>q, Constants DEF Send
<1>4. \A q \in Pages : page'[q] # "gone" => page[q] # "gone"
  BY <1>1, <1>q, <1>3
<1>5. /\ page' \in [Pages -> {"idle", "locked", "admitted", "queued", "gone"}]
      /\ \A q \in Pages : page'[q] \notin {"locked", "admitted"}
  <2>1. \A q \in Pages : page[q] \in {"locked", "admitted"} => q = p
    BY <1>2, <1>q DEF Queued
  <2> QED BY <2>1, <1>q, <1>3
<1>6. /\ queue' \in Seq(Pages) /\ Len(queue') <= QueueLimit
      /\ \A i \in 1..Len(queue') : page'[queue'[i]] = "queued"
      /\ \A i, j \in 1..Len(queue') : queue'[i] = queue'[j] => i = j
  <2>1. \A i, j \in 1..Len(queue) : queue[i] = queue[j] => i = j
    BY <1>2 DEF Queued
  <2>2. CASE page' = [page EXCEPT ![p] = "gone"] /\ queue' = queue
    BY <1>1, <1>q, <2>1, <2>2
  <2>3. CASE /\ page' = [page EXCEPT ![p] = "queued"] /\ queue' = Append(queue, p)
             /\ Len(queue) < QueueLimit
    <3>1. /\ queue' \in Seq(Pages) /\ Len(queue') = Len(queue) + 1
          /\ \A i \in 1..Len(queue) : queue'[i] = queue[i]
          /\ queue'[Len(queue) + 1] = p
      BY <1>q, <2>3, AppendProperties
    <3>2. \A i \in 1..Len(queue') : i \in 1..Len(queue) \/ i = Len(queue) + 1
      BY <1>q, <3>1
    <3>3. \A i \in 1..Len(queue) : queue[i] # p
      BY <1>1, <1>q
    <3>4. \A i \in 1..Len(queue') : page'[queue'[i]] = "queued"
      BY <1>q, <2>3, <3>1, <3>2
    <3>5. \A i, j \in 1..Len(queue') : queue'[i] = queue'[j] => i = j
      BY <2>1, <3>1, <3>2, <3>3
    <3>6. Len(queue') <= QueueLimit
      BY <1>q, <2>3, <3>1, Constants
    <3> QED BY <3>1, <3>4, <3>5, <3>6
  <2> QED BY <1>3, <2>2, <2>3
<1>7. Queued'
  BY <1>1, <1>5, <1>6 DEF Queued
<1>8. Closing'
  <2>1. closed' = closed
    BY <1>1 DEF closed
  <2>2. closer.pc \in {"open", "barrier"}
    BY <1>2, <1>q DEF Closing
  <2>3. ~closed
    BY <2>2 DEF closed
  <2>4. writer # "done"
    BY <1>2, <2>3 DEF Closing
  <2> QED BY <1>1, <1>2, <2>1, <2>4 DEF Closing
<1> QED BY <1>1, <1>4, <1>7, <1>8, PagesMove

\* The oldest page is taken from the queue.
LEMMA Taken ==
  ASSUME IInv, Take, Disable \/ StayEnabled, UNCHANGED <<lock, writer, closer>>
  PROVE  /\ Queued' /\ Closing'
         /\ Head(queue) \in Pages /\ page[Head(queue)] = "queued"
         /\ fill[Head(queue)].st = "none"
         /\ page \in [Pages -> {"idle", "locked", "admitted", "queued", "gone"}]
         /\ page' = [page EXCEPT ![Head(queue)] = "gone"]
<1>1. /\ queue # <<>> /\ queue' = Tail(queue)
      /\ page' = [page EXCEPT ![Head(queue)] = "gone"]
  BY DEF Take
<1>2. Queued /\ Closing
  BY DEF IInv
<1>q. /\ queue \in Seq(Pages) /\ Len(queue) \in Nat /\ Len(queue) <= QueueLimit
      /\ page \in [Pages -> {"idle", "locked", "admitted", "queued", "gone"}]
      /\ \A i \in 1..Len(queue) : queue[i] \in Pages /\ page[queue[i]] = "queued"
      /\ \A i, j \in 1..Len(queue) : queue[i] = queue[j] => i = j
  BY <1>2 DEF Queued
<1>3. /\ Head(queue) = queue[1] /\ 1 \in 1..Len(queue)
      /\ queue' \in Seq(Pages) /\ Len(queue') = Len(queue) - 1
      /\ \A i \in 1..Len(queue') : queue'[i] = queue[i + 1] /\ i + 1 \in 1..Len(queue)
  <2>1. Len(queue) >= 1
    BY <1>1, <1>q, EmptySeq
  <2> QED BY <1>1, <1>q, <2>1, HeadTailProperties
<1>4. Head(queue) \in Pages /\ page[Head(queue)] = "queued"
  BY <1>3, <1>q
<1>5. fill[Head(queue)].st = "none"
  BY <1>4 DEF IInv, Started
<1>6. \A i \in 1..Len(queue') : page'[queue'[i]] = "queued"
  <2> SUFFICES ASSUME NEW i \in 1..Len(queue') PROVE page'[queue'[i]] = "queued"
    OBVIOUS
  <2>1. queue'[i] = queue[i + 1] /\ i + 1 \in 1..Len(queue) /\ i + 1 # 1
    BY <1>3
  <2>2. queue[i + 1] # Head(queue)
    BY <1>3, <1>q, <2>1
  <2> QED BY <1>1, <1>q, <2>1, <2>2
<1>7. \A i, j \in 1..Len(queue') : queue'[i] = queue'[j] => i = j
  <2> SUFFICES ASSUME NEW i \in 1..Len(queue'), NEW j \in 1..Len(queue'), queue'[i] = queue'[j]
               PROVE  i = j
    OBVIOUS
  <2>1. i + 1 = j + 1
    BY <1>3, <1>q
  <2> QED BY <2>1
<1>8. Queued'
  <2>1. Len(queue') <= QueueLimit
    BY <1>3, <1>q, Constants
  <2>2. /\ page' \in [Pages -> {"idle", "locked", "admitted", "queued", "gone"}]
        /\ \A p \in Pages : page'[p] \in {"locked", "admitted"} => lock' = p
    BY <1>1, <1>2, <1>q DEF Queued
  <2> QED BY <1>2, <1>3, <1>6, <1>7, <2>1, <2>2 DEF Queued
<1>9. Closing'
  <2>1. closed' = closed
    BY DEF closed
  <2>2. (stopped => stopped') /\ stopped' \in BOOLEAN /\ disabled' \in BOOLEAN
    BY <1>2 DEF Closing, Disable, StayEnabled
  <2>3. writer # "done"
    BY <1>1, <1>2 DEF Closing
  <2> QED BY <1>2, <2>1, <2>2, <2>3 DEF Closing
<1> QED BY <1>1, <1>4, <1>5, <1>8, <1>9, <1>q

\* The writer drains the queue, and ends.
LEMMA WriterEnds ==
  ASSUME IInv, WriterStop \/ WriterDrain
  PROVE  IInv'
<1>1. /\ UNCHANGED <<call, fill, older, counters, disabled, disk, closer>>
      /\ lock' = lock /\ closer' = closer /\ disabled' = disabled /\ stopped' = stopped
  BY DEF WriterStop, WriterDrain
<1>2. Queued /\ Closing
  BY DEF IInv
<1>c. closed' = closed
  BY <1>1 DEF closed
<1>3. CASE WriterStop
  <2>1. closed /\ writer' = "drain" /\ page' = page /\ queue' = queue /\ writer = "loop"
    BY <1>3 DEF WriterStop, WriterIdle
  <2>2. Queued'
    BY <1>1, <1>2, <2>1 DEF Queued
  <2>3. Closing'
    BY <1>1, <1>2, <1>c, <2>1 DEF Closing
  <2> QED BY <1>1, <2>1, <2>2, <2>3, PagesMove
<1>4. CASE Take /\ UNCHANGED writer
  <2>1. /\ Queued' /\ Closing' /\ page' = [page EXCEPT ![Head(queue)] = "gone"]
        /\ page \in [Pages -> {"idle", "locked", "admitted", "queued", "gone"}]
    BY <1>1, <1>4, Taken DEF StayEnabled
  <2>2. \A p \in Pages : page'[p] # "gone" => page[p] # "gone"
    BY <2>1
  <2> QED BY <1>1, <2>1, <2>2, PagesMove
<1>5. CASE writer = "drain" /\ queue = <<>> /\ writer' = "done" /\ UNCHANGED <<queue, page>>
  <2>1. Queued'
    BY <1>1, <1>2, <1>5 DEF Queued
  <2>2. Closing'
    BY <1>1, <1>2, <1>5, <1>c DEF Closing
  <2> QED BY <1>1, <1>5, <2>1, <2>2, PagesMove
<1> QED BY <1>3, <1>4, <1>5 DEF WriterDrain

\* The writer takes a page, and may start a fill for it.
LEMMA WriterTakeKeeps ==
  ASSUME IInv, WriterTake
  PROVE  IInv'
<1>1. /\ Take /\ call' = call /\ lock' = lock /\ writer' = writer /\ closer' = closer
      /\ UNCHANGED <<call, closer>> /\ UNCHANGED <<lock, writer, closer>>
  BY DEF WriterTake
<1>2. PICK s \in Ranges : Offer(Head(queue), s)
  BY DEF WriterTake
<1> DEFINE p == Head(queue)
<1>3. CASE UNCHANGED <<fill, older, counters, disabled, stopped, disk>>
  <2>1. StayEnabled /\ UNCHANGED <<call, fill, older, counters, disabled, disk, closer>>
    BY <1>1, <1>3 DEF StayEnabled, counters
  <2>2. /\ Queued' /\ Closing' /\ page' = [page EXCEPT ![p] = "gone"]
        /\ page \in [Pages -> {"idle", "locked", "admitted", "queued", "gone"}]
    BY <1>1, <2>1, Taken
  <2>3. \A q \in Pages : page'[q] # "gone" => page[q] # "gone"
    BY <2>2
  <2> QED BY <2>1, <2>2, <2>3, PagesMove
<1>4. CASE ~closed /\ Refuse(s.length)
  <2>1. /\ AllFine(fill', disk', closed, ended)
        /\ Books(fill', used', reserved', inflight', disk', ended)
        /\ Lost(fill', disk') = Lost(fill, disk)
        /\ Held(fill', call) /\ Unique(fill') /\ Ordered(fill', older')
        /\ Started(fill', call, page)
        /\ Disable \/ StayEnabled
    BY <1>4, Refused
  <2>2. /\ Queued' /\ Closing' /\ page' = [page EXCEPT ![p] = "gone"]
        /\ page \in [Pages -> {"idle", "locked", "admitted", "queued", "gone"}]
    BY <1>1, <2>1, Taken
  <2>3. Started(fill', call, page')
    BY <2>1, <2>2 DEF Started
  <2>4. Lost(fill', disk') # {} /\ ~ended => disabled'
    BY <2>1 DEF IInv, Disable, StayEnabled
  <2> QED BY <1>1, <2>1, <2>2, <2>3, <2>4, Built
<1>5. CASE /\ ~closed /\ ~disabled /\ CoveringEntries(s) = {} /\ CoveringFlights(s) = {}
           /\ Admit(p, NewFlight(s, 0))
  <2>1. StayEnabled
    BY <1>5 DEF Admit
  <2>2. /\ Queued' /\ Closing' /\ p \in Pages /\ fill[p].st = "none"
        /\ page' = [page EXCEPT ![p] = "gone"]
        /\ page \in [Pages -> {"idle", "locked", "admitted", "queued", "gone"}]
    BY <1>1, <2>1, Taken
  <2> HIDE DEF p
  <2>n. 0 \in Nat /\ p \in Fills
    BY <2>2 DEF Fills
  <2>3. /\ AllFine(fill', disk', closed, ended)
        /\ Books(fill', used', reserved', inflight', disk', ended)
        /\ Lost(fill', disk') = {}
        /\ Unique(fill') /\ Ordered(fill', older')
        /\ \E V \in SUBSET Fills :
             /\ Without(fill, V) \in [Fills -> FillType]
             /\ Held(Without(fill, V), call) /\ Started(Without(fill, V), call, page)
             /\ fill' = [Without(fill, V) EXCEPT ![p] = NewFlight(s, 0)]
             /\ Without(fill, V)[p].st = "none" /\ Without(fill, V)[p].waiters = 0
             /\ ~Without(fill, V)[p].entry /\ Without(fill, V)[p].pins = 0
    BY <1>5, <2>2, <2>n, Admitted
  <2>4. PICK gl \in [Fills -> FillType] :
          /\ Held(gl, call) /\ Started(gl, call, page)
          /\ fill' = [gl EXCEPT ![p] = NewFlight(s, 0)]
          /\ gl[p].waiters = 0 /\ ~gl[p].entry /\ gl[p].pins = 0
    BY <2>3
  <2>5. /\ NewFlight(s, 0) \in FillType /\ NewFlight(s, 0).waiters = 0
        /\ ~NewFlight(s, 0).entry /\ NewFlight(s, 0).pins = 0
    BY <2>n, FlightIs
  <2>6. /\ fill' \in [Fills -> FillType] /\ fill'[p] = NewFlight(s, 0)
        /\ \A g \in Fills \ {p} : fill'[g] = gl[g]
    BY <2>4, <2>5, <2>n
  <2>7. \A g \in Fills : Steady(gl[g], fill'[g])
    <3> SUFFICES ASSUME NEW g \in Fills PROVE Steady(gl[g], fill'[g])
      OBVIOUS
    <3>1. CASE g = p
      BY <3>1, <2>4, <2>5, <2>6 DEF Steady
    <3>2. CASE g # p
      BY <3>2, <2>6 DEF Steady
    <3> QED BY <3>1, <3>2
  <2>8. Held(fill', call)
    BY <2>4, <2>6, <2>7, HeldFills
  <2>9. Started(fill', call, page')
    <3>1. \A o \in Calls : o \in Fills /\ o # p
      BY <2>2, SourceCacheAssumption DEF Fills
    <3>2. \A o \in Calls : call[o].pc = "idle" => fill'[o].st = "none"
      BY <2>4, <2>6, <3>1 DEF Started
    <3>3. \A q \in Pages : page'[q] # "gone" => fill'[q].st = "none"
      BY <2>2, <2>4, <2>6 DEF Started, Fills
    <3> QED BY <3>2, <3>3 DEF Started
  <2> QED BY <1>1, <2>2, <2>3, <2>8, <2>9, Built
<1>6. CoveringEntries(s) \cup CoveringFlights(s) = {} =>
        CoveringEntries(s) = {} /\ CoveringFlights(s) = {}
  OBVIOUS
<1> QED BY <1>2, <1>3, <1>4, <1>5, <1>6 DEF Offer

-----------------------------------------------------------------------------
(* Close *)

\* A step of Close touches neither callers nor fills, and is not the last.
LEMMA CloseMoves ==
  ASSUME IInv, UNCHANGED <<call, fill, older, counters, disabled, disk, capture>>,
         closed => closed', ~ended, ~ended', Closing', Leaving'
  PROVE  IInv'
<1>1. /\ call' = call /\ fill' = fill /\ older' = older /\ used' = used /\ disk' = disk
      /\ reserved' = reserved /\ inflight' = inflight /\ disabled' = disabled
      /\ page' = page /\ lock' = lock /\ queue' = queue
  BY DEF counters, capture
<1>2. ended = FALSE /\ ended' = FALSE
  BY DEF ended
<1>3. /\ AllFine(fill, disk, closed, FALSE)
      /\ Books(fill, used, reserved, inflight, disk, FALSE)
      /\ (Lost(fill, disk) # {} => disabled)
      /\ Held(fill, call) /\ Unique(fill) /\ Ordered(fill, older)
      /\ Started(fill, call, page) /\ Queued
  BY <1>2 DEF IInv
<1>4. AllFine(fill, disk, closed', FALSE)
  <2>1. ASSUME NEW f \in Fills PROVE Fine(f, fill[f], disk, closed', FALSE)
    <3>1. Fine(f, fill[f], disk, closed, FALSE)
      BY <1>3 DEF AllFine
    <3>2. Answered(f, fill[f], closed')
      BY <3>1 DEF Fine, Answered
    <3> QED BY <3>1, <3>2 DEF Fine
  <2> QED BY <1>3, <2>1 DEF AllFine
<1>5. Queued'
  BY <1>1, <1>3 DEF Queued
<1>6. /\ AllFine(fill', disk', closed', ended')
      /\ Books(fill', used', reserved', inflight', disk', ended')
      /\ Held(fill', call') /\ Unique(fill') /\ Ordered(fill', older')
      /\ Started(fill', call', page')
  BY <1>1, <1>2, <1>3, <1>4
<1>7. Lost(fill', disk') # {} => disabled'
  BY <1>1, <1>3
<1> QED BY <1>5, <1>6, <1>7 DEF IInv

\* Close begins, stops the capture, and marks the cache closed.
LEMMA CloseStarts ==
  ASSUME IInv, CloseBegin \/ CloseBarrier \/ CloseMark
  PROVE  IInv'
<1>1. /\ UNCHANGED <<call, fill, older, counters, disabled, disk, capture>>
      /\ writer' = writer /\ lock' = lock /\ queue' = queue /\ disabled' = disabled
      /\ call' = call
  BY DEF CloseBegin, CloseBarrier, CloseMark, capture
<1>2. Closing /\ Leaving
  BY DEF IInv
<1>3. CASE CloseBegin
  <2>1. /\ closer.pc = "open" /\ closer'.pc = "barrier" /\ stopped' = stopped
        /\ closer' \in [pc : {"open", "barrier", "mark", "readers", "wait", "done"},
                        readers : SUBSET Calls]
    BY <1>2, <1>3 DEF CloseBegin, Closing
  <2>2. ~closed /\ ~closed' /\ ~ended /\ ~ended'
    BY <2>1 DEF closed, ended
  <2>3. Closing' /\ Leaving'
    BY <1>1, <1>2, <2>1, <2>2 DEF Closing, Leaving
  <2> QED BY <1>1, <2>2, <2>3, CloseMoves
<1>4. CASE CloseBarrier
  <2>1. /\ closer.pc = "barrier" /\ closer'.pc = "mark" /\ stopped' = TRUE /\ lock = Nothing
        /\ closer' \in [pc : {"open", "barrier", "mark", "readers", "wait", "done"},
                        readers : SUBSET Calls]
    BY <1>2, <1>4 DEF CloseBarrier, Closing
  <2>2. ~closed /\ ~closed' /\ ~ended /\ ~ended'
    BY <2>1 DEF closed, ended
  <2>3. Closing' /\ Leaving'
    BY <1>1, <1>2, <2>1, <2>2 DEF Closing, Leaving
  <2> QED BY <1>1, <2>2, <2>3, CloseMoves
<1>5. CASE CloseMark
  <2>1. /\ closer.pc = "mark" /\ closer'.pc = "readers" /\ stopped' = stopped
        /\ closer'.readers = {o \in Calls : call[o].pc = "reading"}
        /\ closer' \in [pc : {"open", "barrier", "mark", "readers", "wait", "done"},
                        readers : SUBSET Calls]
    BY <1>2, <1>5 DEF CloseMark, Closing
  <2>2. ~closed /\ closed' /\ ~ended /\ ~ended'
    BY <2>1 DEF closed, ended
  <2>3. Closing' /\ Leaving'
    BY <1>1, <1>2, <2>1, <2>2 DEF Closing, Leaving
  <2> QED BY <1>1, <2>2, <2>3, CloseMoves
<1> QED BY <1>3, <1>4, <1>5

\* The readers that were open are closed, one by one.
LEMMA CloseReadersKeeps ==
  ASSUME IInv, CloseReaders
  PROVE  IInv'
<1>1. closer.pc = "readers" /\ Closing /\ Leaving
  BY DEF CloseReaders, IInv
<1>2. CASE \E o \in closer.readers : CloseReader(o)
  <2>1. closer.readers \subseteq Calls
    BY <1>1 DEF Closing
  <2> QED BY <1>2, <2>1, CloseReaderKeeps
<1>3. CASE /\ ~(\E o \in closer.readers : call[o].pc = "reading")
           /\ closer' = [pc |-> "wait", readers |-> {}]
           /\ UNCHANGED <<call, fill, older, counters, disabled, stopped, disk, capture>>
  <2>1. /\ UNCHANGED <<call, fill, older, counters, disabled, disk, capture>>
        /\ writer' = writer /\ lock' = lock /\ queue' = queue /\ disabled' = disabled
        /\ call' = call /\ stopped' = stopped
    BY <1>3 DEF capture
  <2>2. /\ closer'.pc = "wait"
        /\ closer' \in [pc : {"open", "barrier", "mark", "readers", "wait", "done"},
                        readers : SUBSET Calls]
    BY <1>3
  <2>3. closed /\ closed' /\ ~ended /\ ~ended'
    BY <1>1, <2>2 DEF closed, ended
  <2>4. Closing'
    BY <1>1, <2>1, <2>2, <2>3 DEF Closing
  <2>5. \A o \in Calls : call[o].pc # "reading"
    BY <1>1, <1>3 DEF Leaving
  <2>6. Leaving'
    BY <2>1, <2>2, <2>5 DEF Leaving
  <2> QED BY <2>1, <2>3, <2>4, <2>6, CloseMoves
<1> QED BY <1>2, <1>3 DEF CloseReaders

\* Close is over, and what can be removed is.
LEMMA CloseWaitKeeps ==
  ASSUME IInv, CloseWait
  PROVE  IInv'
<1>1. /\ closer.pc = "wait" /\ Running = {} /\ writer = "done"
      /\ disk' \in {{}, disk} /\ closer' = [closer EXCEPT !.pc = "done"]
      /\ call' = call /\ fill' = fill /\ older' = older /\ used' = used
      /\ reserved' = reserved /\ inflight' = inflight /\ disabled' = disabled
      /\ stopped' = stopped
      /\ page' = page /\ lock' = lock /\ queue' = queue /\ writer' = writer
  BY DEF CloseWait, counters, capture
<1>2. Closing /\ Leaving /\ Queued
  BY DEF IInv
<1>3. /\ closer'.pc = "done"
      /\ closer' \in [pc : {"open", "barrier", "mark", "readers", "wait", "done"},
                      readers : SUBSET Calls]
  BY <1>1, <1>2 DEF Closing
<1>4. ended = FALSE /\ ended' = TRUE /\ closed /\ closed'
  BY <1>1, <1>3 DEF ended, closed
<1>5. /\ AllFine(fill, disk, closed, FALSE)
      /\ Books(fill, used, reserved, inflight, disk, FALSE)
      /\ Held(fill, call) /\ Unique(fill) /\ Ordered(fill, older)
      /\ Started(fill, call, page)
  BY <1>4 DEF IInv
<1>6. /\ fill \in [Fills -> FillType] /\ disk \in SUBSET Fills /\ disk' \in SUBSET Fills
      /\ disk' \in SUBSET disk
  BY <1>1, <1>5 DEF AllFine
<1>7. AtWork(fill) = {}
  BY <1>1 DEF Running, AtWork, Busy
<1>8. AllFine(fill, disk', closed', TRUE)
  <2>1. ASSUME NEW f \in Fills PROVE Fine(f, fill[f], disk', closed', TRUE)
    <3>1. Fine(f, fill[f], disk, closed, FALSE) /\ fill[f].st \notin Busy
      BY <1>5, <1>7 DEF AllFine, AtWork
    <3>2. Progress(f, fill[f], disk')
      BY <1>6, <3>1 DEF Fine, Progress, Busy
    <3>3. Answered(f, fill[f], closed')
      BY <1>4, <3>1 DEF Fine, Answered
    <3> QED BY <3>1, <3>2, <3>3 DEF Fine
  <2> QED BY <1>6, <2>1 DEF AllFine
<1>9. Books(fill, used, reserved, inflight, disk', TRUE)
  <2>1. Sum(Size(fill), disk) <= Budget /\ Cardinality(disk) <= MaxEntries
    BY <1>5, DiskKept
  <2>2. Sum(Size(fill), {}) = 0 /\ Cardinality({}) = 0
    BY SumEmpty, FS_EmptySet
  <2>3. Sum(Size(fill), disk') <= Budget /\ Cardinality(disk') <= MaxEntries
    <3>1. CASE disk' = disk
      BY <2>1, <3>1
    <3>2. CASE disk' = {}
      BY <2>2, <3>2, Constants
    <3> QED BY <1>1, <3>1, <3>2
  <2> QED BY <1>5, <1>7, <2>3 DEF Books
<1>10. Closing' /\ Queued'
  BY <1>1, <1>2, <1>3, <1>4 DEF Closing, Queued
<1>11. Leaving'
  BY <1>1, <1>2, <1>3 DEF Leaving
<1> QED BY <1>1, <1>4, <1>5, <1>8, <1>9, <1>10, <1>11 DEF IInv

-----------------------------------------------------------------------------
(* The theorems *)

\* The cache begins empty.
LEMMA InitKeeps == Init => IInv
<1> SUFFICES ASSUME Init PROVE IInv
  OBVIOUS
<1>1. /\ call = [o \in Calls |-> [pc |-> "idle", span |-> Nothing, at |-> Nothing,
                                  left |-> FALSE, err |-> "none"]]
      /\ fill = [f \in Fills |-> NoFill] /\ older = [f \in Fills |-> {}]
      /\ used = 0 /\ reserved = 0 /\ inflight = 0 /\ disabled = FALSE /\ stopped = FALSE
      /\ disk = {} /\ page = [p \in Pages |-> "idle"] /\ lock = Nothing /\ queue = <<>>
      /\ writer = "loop" /\ closer = [pc |-> "open", readers |-> {}]
  BY DEF Init
<1>2. /\ \A f \in Fills : fill[f] = NoFill
      /\ NoFill \in FillType /\ NoFill.st = "none" /\ NoFill.span = Nothing
      /\ NoFill.waiters = 0 /\ ~NoFill.attached /\ ~NoFill.cancelled /\ NoFill.err = "none"
      /\ ~NoFill.entry /\ NoFill.pins = 0
  BY <1>1 DEF NoFill, FillType
<1>3. /\ Stored(fill) = {} /\ AtWork(fill) = {} /\ Lost(fill, disk) = {}
      /\ Kept(fill, disk) = {} /\ Named(fill) = {}
  BY <1>1, <1>2 DEF Stored, AtWork, Lost, Kept, Named, Busy
<1>4. ~closed /\ ~ended
  BY <1>1 DEF closed, ended
<1>5. AllFine(fill, disk, closed, ended)
  <2>1. ASSUME NEW f \in Fills PROVE Fine(f, fill[f], disk, closed, ended)
    <3>1. f \notin disk /\ fill[f] = NoFill
      BY <1>1, <1>2
    <3>2. Progress(f, NoFill, disk)
      BY <1>2, <3>1 DEF Progress
    <3>3. Shared(f, NoFill)
      BY <1>2 DEF Shared, Busy
    <3>4. Answered(f, NoFill, closed)
      BY <1>2 DEF Answered
    <3> QED BY <1>2, <3>1, <3>2, <3>3, <3>4 DEF Fine
  <2> QED BY <1>1, <1>2, <2>1 DEF AllFine
<1>6. Books(fill, used, reserved, inflight, disk, ended)
  <2>1. Sum(Size(fill), {}) = 0 /\ Cardinality({}) = 0
    BY SumEmpty, FS_EmptySet
  <2>2. Budget \in Nat /\ MaxEntries \in Nat
    BY Constants
  <2>3. /\ used = Sum(Size(fill), Stored(fill)) /\ reserved = Sum(Size(fill), Kept(fill, disk))
        /\ inflight = Cardinality(AtWork(fill)) /\ Cardinality(Stored(fill)) = 0
        /\ Cardinality(Lost(fill, disk)) = 0
    BY <1>1, <1>3, <2>1
  <2>4. reserved \in Nat /\ used + reserved <= Budget
    BY <1>1, <2>2
  <2>5. Limits(fill, used, reserved, inflight, disk)
    <3>1. 0 + 0 + 0 <= MaxEntries
      BY <2>2
    <3> QED BY <1>1, <2>3, <2>4, <3>1 DEF Limits
  <2> QED BY <1>4, <2>3, <2>4, <2>5 DEF Books
<1>7. Held(fill, call)
  <2>1. call \in [Calls -> CallType] /\ \A o \in Calls : call[o].pc = "idle"
    BY <1>1 DEF CallType
  <2>2. ASSUME NEW f \in Fills PROVE Counted(fill, call, f)
    <3>1. Here(call, f, "wait") = {}
      BY <2>1 DEF Here
    <3>2. Cardinality(Here(call, f, "wait")) = 0
      BY <3>1, FS_EmptySet
    <3> QED BY <1>2, <3>2 DEF Counted
  <2> QED BY <2>1, <2>2 DEF Held, Served
<1>8. Unique(fill)
  BY <1>3 DEF Unique
<1>9. Ordered(fill, older)
  BY <1>1, <1>3 DEF Ordered
<1>10. Started(fill, call, page)
  BY <1>2 DEF Started, Fills
<1>11. Queued
  <2>1. queue \in Seq(Pages) /\ Len(queue) = 0 /\ 1..Len(queue) = {}
    BY <1>1, EmptySeq
  <2> QED BY <1>1, <2>1, Constants DEF Queued
<1>12. Closing /\ Leaving
  BY <1>1, <1>4 DEF Closing, Leaving
<1> QED BY <1>3, <1>5, <1>6, <1>7, <1>8, <1>9, <1>10, <1>11, <1>12 DEF IInv

\* Every step keeps the invariant.
LEMMA NextKeeps ==
  ASSUME IInv, [Next]_vars
  PROVE  IInv'
<1>1. CASE \E o \in Calls : Open(o) \/ Leave(o) \/ Wait(o) \/ CloseReader(o)
  <2>1. PICK o \in Calls : Open(o) \/ Leave(o) \/ Wait(o) \/ CloseReader(o)
    BY <1>1
  <2> QED BY <2>1, OpenKeeps, LeaveKeeps, WaitTurnedAwayKeeps, WaitFailedKeeps,
             WaitServedKeeps, CloseReaderKeeps DEF Wait
<1>2. CASE Flight
  <2>1. PICK f \in Fills : CreateFile(f) \/ WriteFile(f) \/ Finish(f)
    BY <1>2 DEF Flight
  <2> QED BY <2>1, CreateKeeps, WriteKeeps, FinishKeeps
<1>3. CASE \E p \in Pages : Enqueue(p) \/ Recheck(p) \/ Send(p)
  <2>1. PICK p \in Pages : Enqueue(p) \/ Recheck(p) \/ Send(p)
    BY <1>3
  <2> QED BY <2>1, EnqueueKeeps, RecheckKeeps, SendKeeps
<1>4. CASE Writer
  BY <1>4, WriterTakeKeeps, WriterEnds DEF Writer
<1>5. CASE CloseBegin \/ Close
  BY <1>5, CloseStarts, CloseReadersKeeps, CloseWaitKeeps DEF Close
<1>6. CASE UNCHANGED vars
  <2>1. /\ call' = call /\ fill' = fill /\ older' = older /\ used' = used
        /\ reserved' = reserved /\ inflight' = inflight /\ disabled' = disabled
        /\ stopped' = stopped /\ disk' = disk /\ page' = page /\ lock' = lock
        /\ queue' = queue /\ writer' = writer /\ closer' = closer
    BY <1>6 DEF vars
  <2>2. closed' = closed /\ ended' = ended
    BY <2>1 DEF closed, ended
  <2>3. Queued' /\ Closing' /\ Leaving'
    <3>1. Queued /\ Closing /\ Leaving
      BY DEF IInv
    <3>2. Queued'
      BY <2>1, <3>1 DEF Queued
    <3>3. Closing'
      BY <2>1, <2>2, <3>1 DEF Closing
    <3>4. Leaving'
      BY <2>1, <3>1 DEF Leaving
    <3> QED BY <3>2, <3>3, <3>4
  <2> QED BY <2>1, <2>2, <2>3 DEF IInv
<1> QED BY <1>1, <1>2, <1>3, <1>4, <1>5, <1>6 DEF Next

\* The invariant of the cache holds throughout.
THEOREM Inductive == Spec => []IInv
BY InitKeeps, NextKeeps, PTL DEF Spec

\* The sets of the model are those of the invariant.
LEMMA SetsAre ==
  ASSUME IInv
  PROVE  /\ Entries = Stored(fill) /\ Running = AtWork(fill) /\ Stuck = Lost(fill, disk)
         /\ Running \cup Stuck = Kept(fill, disk)
         /\ \A S : Bytes(S) = Sum(Size(fill), S)
         /\ fill \in [Fills -> FillType] /\ disk \in SUBSET Fills
<1>1. fill \in [Fills -> FillType] /\ disk \in SUBSET Fills
  BY DEF IInv, AllFine
<1>2. Stuck = Lost(fill, disk)
  BY <1>1 DEF Stuck, Lost
<1>3. Entries = Stored(fill) /\ Running = AtWork(fill)
  BY DEF Entries, Stored, Running, AtWork, Busy
<1>4. \A f \in Fills : Length(f) = Span(fill[f])
  BY DEF Length, Span
<1>5. [f \in Fills |-> Length(f)] = Size(fill)
  BY <1>4 DEF Size
<1>6. \A S : Bytes(S) = Sum(Size(fill), S)
  BY <1>5 DEF Bytes, Sum
<1> QED BY <1>1, <1>2, <1>3, <1>6 DEF Kept

\* Who waits for a fill and who reads its entry are callers, and not the same.
LEMMA HoldersBound ==
  ASSUME IInv, NEW f \in Fills
  PROVE  /\ fill[f].waiters \in 0..Cardinality(Calls)
         /\ fill[f].pins \in 0..Cardinality(Calls)
<1> DEFINE W == Here(call, f, "wait")
           R == Here(call, f, "reading")
<1>1. /\ W \in SUBSET Calls /\ IsFiniteSet(W) /\ Cardinality(W) \in Nat
      /\ R \in SUBSET Calls /\ IsFiniteSet(R) /\ Cardinality(R) \in Nat
  BY HereIs
<1>2. W \cap R = {}
  BY DEF Here
<1>3. Counted(fill, call, f)
  BY DEF IInv, Held
<1>4. fill[f].waiters = Cardinality(W)
      /\ fill[f].pins \in {0, Cardinality(W) + Cardinality(R)}
  BY <1>3 DEF Counted
<1> HIDE DEF W, R
<1>5. IsFiniteSet(Calls) /\ Cardinality(Calls) \in Nat
  BY Constants, FS_CardinalityType
<1>6. Cardinality(W \cup R) = Cardinality(W) + Cardinality(R) - Cardinality({})
  BY <1>1, <1>2, FS_Union
<1>7. Cardinality({}) = 0
  BY FS_EmptySet
<1>8. Cardinality(W \cup R) <= Cardinality(Calls)
  <2>1. W \cup R \in SUBSET Calls
    BY <1>1
  <2> QED BY <2>1, <1>5, FS_Subset
<1>9. Cardinality(W) + Cardinality(R) <= Cardinality(Calls)
  BY <1>1, <1>6, <1>7, <1>8
<1> QED BY <1>1, <1>4, <1>5, <1>9

\* The types, from the invariant.
LEMMA TypesKept == IInv => TypeOK
<1> SUFFICES ASSUME IInv PROVE TypeOK
  OBVIOUS
<1>1. /\ Entries = Stored(fill) /\ Running = AtWork(fill)
      /\ fill \in [Fills -> FillType] /\ disk \in SUBSET Fills
  BY SetsAre
<1>2. call \in [Calls -> [pc : {"idle", "wait", "reading", "over"},
                          span : Ranges \cup {Nothing}, at : Fills \cup {Nothing},
                          left : BOOLEAN, err : {"none", "source", "canceled"}]]
  <2>1. call \in [Calls -> CallType]
    BY DEF IInv, Held
  <2> QED BY <2>1 DEF CallType
<1>3. fill \in [Fills -> [st : {"none", "create", "write", "finish", "done"},
                          span : Ranges \cup {Nothing}, waiters : 0..Cardinality(Calls),
                          attached : BOOLEAN, cancelled : BOOLEAN, entry : BOOLEAN,
                          err : {"none", "source", "storage", "canceled"},
                          pins : 0..Cardinality(Calls)]]
  <2> DEFINE T == [st : {"none", "create", "write", "finish", "done"},
                   span : Ranges \cup {Nothing}, waiters : 0..Cardinality(Calls),
                   attached : BOOLEAN, cancelled : BOOLEAN, entry : BOOLEAN,
                   err : {"none", "source", "storage", "canceled"},
                   pins : 0..Cardinality(Calls)]
  <2>1. ASSUME NEW f \in Fills PROVE fill[f] \in T
    <3>1. fill[f] \in FillType
      BY <1>1
    <3>2. fill[f].waiters \in 0..Cardinality(Calls) /\ fill[f].pins \in 0..Cardinality(Calls)
      BY HoldersBound
    <3> QED BY <3>1, <3>2 DEF FillType, Busy
  <2> HIDE DEF T
  <2>2. fill \in [Fills -> T]
    BY <1>1, <2>1
  <2> QED BY <2>2 DEF T
<1>4. {used, reserved} \subseteq 0..Budget
  <2>1. Books(fill, used, reserved, inflight, disk, ended)
    BY DEF IInv
  <2>2. used \in Nat /\ reserved \in Nat /\ used + reserved <= Budget /\ Budget \in Nat
    BY <1>1, <2>1, Counters
  <2> QED BY <2>2
<1>5. inflight \in 0..Cardinality(Fills)
  <2>1. inflight = Cardinality(AtWork(fill)) /\ AtWork(fill) \in SUBSET Fills
    BY Subsets DEF IInv, Books
  <2>2. /\ Cardinality(AtWork(fill)) \in Nat /\ Cardinality(Fills) \in Nat
        /\ Cardinality(AtWork(fill)) <= Cardinality(Fills)
    BY <2>1, Constants, FS_Subset, FS_CardinalityType
  <2> QED BY <2>1, <2>2
<1> QED BY <1>1, <1>2, <1>3, <1>4, <1>5 DEF TypeOK, IInv, Closing, Queued

\* BooksBalance: the counters are the bytes and fills they stand for, the files stay
\* within the budget and the number of entries, and the pins and waits are those of the
\* callers, through evictions, failed removals, cancelled fills and Close.
THEOREM CountersTrue == Spec => []BooksBalance
<1>1. ASSUME IInv PROVE BooksBalance
  <2>1. /\ Entries = Stored(fill) /\ Running = AtWork(fill) /\ Stuck = Lost(fill, disk)
        /\ Running \cup Stuck = Kept(fill, disk)
        /\ \A S : Bytes(S) = Sum(Size(fill), S)
        /\ fill \in [Fills -> FillType] /\ disk \in SUBSET Fills
    BY <1>1, SetsAre
  <2>2. Books(fill, used, reserved, inflight, disk, ended)
    BY <1>1 DEF IInv
  <2>3. used = Bytes(Entries) /\ inflight = Cardinality(Running)
    BY <2>1, <2>2 DEF Books
  <2>4. closer.pc # "done" => reserved = Bytes(Running \cup Stuck)
    BY <2>1, <2>2 DEF Books, ended
  <2>5. Bytes(disk) <= Budget /\ Cardinality(disk) <= MaxEntries
    <3>1. CASE ended
      BY <2>1, <2>2, <3>1 DEF Books
    <3>2. CASE ~ended
      <4>1. ended = FALSE
        BY <3>2 DEF ended
      <4>2. /\ AllFine(fill, disk, closed, FALSE)
            /\ Books(fill, used, reserved, inflight, disk, FALSE)
        BY <1>1, <4>1 DEF IInv
      <4>3. Sum(Size(fill), disk) <= Budget /\ Cardinality(disk) <= MaxEntries
        BY <4>2, DiskKept
      <4> QED BY <2>1, <4>3
    <3> QED BY <3>1, <3>2
  <2>6. /\ \A f \in Fills : older[f] \subseteq (IF f \in Entries THEN Entries \ {f} ELSE {})
        /\ \A f, g \in Entries : f # g => (f \in older[g] <=> g \notin older[f])
    <3>1. Ordered(fill, older)
      BY <1>1 DEF IInv
    <3> QED BY <2>1, <3>1 DEF Ordered
  <2>7. Accounting
    BY <1>1, <2>3, <2>4, <2>5, <2>6, TypesKept DEF Accounting
  <2>8. HoldersCounted
    <3>1. \A f \in Fills : Counted(fill, call, f)
      BY <1>1 DEF IInv, Held
    <3> QED BY <3>1 DEF HoldersCounted, Counted, Here
  <2> QED BY <2>7, <2>8 DEF BooksBalance
<1> QED BY <1>1, Inductive, PTL

\* IndexSound: what is read, or promised to who waits, is stored with its file and covers
\* the range asked for, and no range is stored or filled twice.
THEOREM IndexTrue == Spec => []IndexSound
<1>1. ASSUME IInv PROVE IndexSound
  <2>1. ASSUME NEW o \in Calls,
               \/ call[o].pc = "reading"
               \/ call[o].pc = "wait" /\ fill[call[o].at].entry /\ ~closed
        PROVE  /\ call[o].at \in Entries \cap disk
               /\ Covers(fill[call[o].at].span, call[o].span)
    <3>1. Held(fill, call) /\ Leaving
      BY <1>1 DEF IInv
    <3>2. call[o].at \in Fills /\ Covers(fill[call[o].at].span, call[o].span)
      BY <2>1, <3>1, Callers
    <3>3. fill[call[o].at].entry
      BY <2>1, <3>1, Callers
    <3>4. ~ended
      BY <2>1, <3>1 DEF Leaving, ended, closed
    <3>5. call[o].at \in disk
      BY <1>1, <3>2, <3>3, <3>4, FillIs DEF Fine
    <3> QED BY <3>2, <3>3, <3>5 DEF Entries
  <2>2. ServedFromDisk
    BY <2>1 DEF ServedFromDisk
  <2>3. UniqueRanges
    <3>1. Unique(fill)
      BY <1>1 DEF IInv
    <3>2. Entries \cup Attached = Named(fill)
      BY DEF Entries, Attached, Named
    <3> QED BY <3>1, <3>2 DEF UniqueRanges, Unique
  <2> QED BY <2>2, <2>3 DEF IndexSound
<1> QED BY <1>1, Inductive, PTL

\* CancelIsPrivate: nobody is failed because another caller left.
THEOREM NobodyElseCancelled == Spec => []CancelIsPrivate
<1>1. IInv => CancelIsPrivate
  BY DEF IInv, Held, CallType, CancelIsPrivate
<1> QED BY <1>1, Inductive, PTL

\* QuietAfterClose: after Close nothing is at work, read or queued.
THEOREM ClosedIsQuiet == Spec => []QuietAfterClose
<1>1. ASSUME IInv PROVE QuietAfterClose
  <2>1. Running = AtWork(fill)
    BY <1>1, SetsAre
  <2>2. closer.pc = "done" => AtWork(fill) = {}
    BY <1>1 DEF IInv, Books, ended
  <2> QED BY <1>1, <2>1, <2>2 DEF IInv, Closing, Leaving, QuietAfterClose
<1> QED BY <1>1, Inductive, PTL
=============================================================================
