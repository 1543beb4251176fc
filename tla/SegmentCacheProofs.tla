-------------------------- MODULE SegmentCacheProofs --------------------------
(***************************************************************************)
(* What is true of the catalog of segments for every number of files,      *)
(* readers and jobs, every budget and every bound on the artifacts: the    *)
(* charges balance, readers keep their files, and the catalog implements   *)
(* SegmentStore.                                                           *)
(*                                                                         *)
(* An operation of the catalog is a sequence of changes: files are given   *)
(* up, one is reserved for, published, opened or closed.  Good says that   *)
(* the books balance for the files fl, the counters us and rs, the disk dk *)
(* and the leases ls; each change is shown to keep it, on values, so that  *)
(* a step can be taken apart into its changes.                             *)
(***************************************************************************)
EXTENDS SegmentCache, Sums

\* The files in some states, their bytes, and those who read f.
St(fl, states) == {f \in Files : fl[f].st \in states}
Size(fl) == [f \in Files |-> fl[f].bytes]
Owed(fl) == [f \in Files |-> fl[f].pending]
Holders(ls, f) == {r \in Readers : ls[r] = f}

\* The states whose files count for reserved, and those whose files count for used.
Writers == {"part"}
Charged == {"stored", "retired"}

\* The values of a file.
FileType ==
  [st : {"none", "part", "stored", "retired", "gone"}, key : Keys \cup {Nothing},
   bytes : 0..MaxSize, pending : 0..MaxSize, pins : 0..Cardinality(Readers)]

\* What a file v counts for in the bytes of the files in some states.
Bulk(v, states) == IF v.st \in states THEN v.bytes ELSE 0
Debt(v, states) == IF v.st \in states THEN v.pending ELSE 0

\* The file x becomes v, and the counters become us2 and rs2.
Balanced(us, rs, us2, rs2, x, v) ==
  /\ us2 = us - Bulk(x, Charged) + Bulk(v, Charged)
  /\ rs2 = rs - (Bulk(x, Writers) + Debt(x, Writers)) + (Bulk(v, Writers) + Debt(v, Writers))
  /\ us2 \in Nat /\ rs2 \in Nat /\ us2 + rs2 <= Budget

\* There is a place for v in the catalog fl and on the disk, which becomes dk2.
Fit(fl, dk, dk2, f, v) ==
  /\ v.st # "none" /\ v.key \in Keys /\ v.bytes + v.pending <= MaxSize
  /\ v.st = "retired" => v.pins > 0
  /\ dk2 \in SUBSET Files /\ dk2 \ {f} = dk \ {f}
  /\ v.st # "gone" => f \in dk2
  /\ v.st = "gone" /\ f \in dk2 => Cardinality(dk \cap St(fl, {"gone"})) < MaxLeaks
  /\ v.st = "stored" =>
       \/ fl[f].st = "stored" /\ v.key = fl[f].key
       \/ /\ Cardinality(St(fl, {"stored"})) < MaxArtifacts
          /\ \A g \in St(fl, {"stored"}) : fl[g].key # v.key

\* A file that was not created is not there, one that was has a key and keeps to
\* its size, and a retired one is being read.
Sound(fl, dk) ==
  /\ fl \in [Files -> FileType] /\ dk \in SUBSET Files
  /\ \A f \in Files :
       /\ fl[f].st = "none" => f \notin dk /\ fl[f].bytes = 0 /\ fl[f].pending = 0
       /\ fl[f].st # "none" => fl[f].key \in Keys
       /\ fl[f].bytes + fl[f].pending <= MaxSize
       /\ fl[f].st = "retired" => fl[f].pins > 0

\* The counters are the bytes of the artifacts and those of the writers.
Paid(fl, us, rs) ==
  /\ us = Sum(Size(fl), St(fl, Charged))
  /\ rs = Sum(Size(fl), St(fl, Writers)) + Sum(Owed(fl), St(fl, Writers))
  /\ us + rs <= Budget

\* Every key has one artifact, and there are not too many.
Catalogued(fl) ==
  /\ \A f, g \in St(fl, {"stored"}) : fl[f].key = fl[g].key => f = g
  /\ Cardinality(St(fl, {"stored"})) <= MaxArtifacts

\* What is needed is on the disk, and of the rest what could not be removed.
Tidy(fl, dk) ==
  /\ St(fl, Writers \cup Charged) \subseteq dk
  /\ Cardinality(dk \cap St(fl, {"gone"})) <= MaxLeaks

\* The pins are the readers, and only artifacts are read.
Pinned(fl, ls) ==
  /\ ls \in [Readers -> Files \cup {Nothing}]
  /\ \A f \in Files : fl[f].pins = Cardinality(Holders(ls, f))
  /\ \A r \in Readers : ls[r] # Nothing => fl[ls[r]].st \in Charged

Good(fl, us, rs, dk, ls) ==
  /\ Sound(fl, dk) /\ Paid(fl, us, rs) /\ Catalogued(fl) /\ Tidy(fl, dk) /\ Pinned(fl, ls)

\* What every step keeps.
IInv ==
  /\ Good(file, used, reserved, disk, lease)
  /\ older \in [Files -> SUBSET Files]
  /\ wanted \in [Keys -> 0..Cardinality(Readers)]
-----------------------------------------------------------------------------
(* The changes *)

\* What is to be summed and counted is finite and of its type.
LEMMA Finite ==
  ASSUME NEW fl \in [Files -> FileType]
  PROVE  /\ Size(fl) \in [Files -> Nat] /\ Owed(fl) \in [Files -> Nat]
         /\ Size(fl) \in [Files -> Int] /\ Owed(fl) \in [Files -> Int]
         /\ IsFiniteSet(Files) /\ IsFiniteSet(Readers) /\ MaxSize \in Nat /\ MaxLeaks \in Nat
         /\ Budget \in Nat /\ MaxArtifacts \in Nat
<1>1. Budget \in Nat /\ MaxArtifacts \in Nat /\ MaxSize \in Nat
  BY SegmentCacheAssumption
<1>2. \A f \in Files : fl[f].bytes \in Nat /\ fl[f].pending \in Nat
  BY <1>1 DEF FileType
<1> QED BY <1>1, <1>2, SegmentCacheAssumption DEF Size, Owed

\* The readers can be counted.
LEMMA Countable == Cardinality(Readers) \in Nat /\ 0 \in 0..MaxSize /\ MaxSize \in Nat
BY FS_CardinalityType, SegmentCacheAssumption

\* Every set of files is finite.
LEMMA FewFiles ==
  ASSUME NEW S \in SUBSET Files
  PROVE  IsFiniteSet(S) /\ Cardinality(S) \in Nat
BY FS_Subset, FS_CardinalityType, SegmentCacheAssumption

\* evictOne and dropPrefix: artifacts nobody reads are given up; the files left are
\* those whose removal failed.
LEMMA GiveUp ==
  ASSUME NEW fl, NEW us, NEW rs, NEW dk, NEW ls, Good(fl, us, rs, dk, ls),
         NEW V \in SUBSET St(fl, {"stored"}), \A v \in V : fl[v].pins = 0,
         NEW left \in SUBSET (V \cap dk),
         left # {} => Cardinality(left) + Cardinality(dk \cap St(fl, {"gone"})) <= MaxLeaks,
         NEW gl, gl = [f \in Files |-> IF f \in V THEN [fl[f] EXCEPT !.st = "gone"] ELSE fl[f]]
  PROVE  Good(gl, us - Sum(Size(fl), V), rs, dk \ (V \ left), ls)
<1>t. fl \in [Files -> FileType] /\ dk \in SUBSET Files /\ V \in SUBSET Files
  BY DEF Good, Sound, St
<1>g. \A f \in Files :
        /\ f \in V => /\ gl[f].st = "gone" /\ fl[f].st = "stored"
                      /\ gl[f].key = fl[f].key /\ gl[f].bytes = fl[f].bytes
                      /\ gl[f].pending = fl[f].pending /\ gl[f].pins = fl[f].pins
        /\ f \notin V => gl[f] = fl[f]
  BY <1>t DEF FileType, St
<1>1. gl \in [Files -> FileType]
  BY <1>t DEF FileType
<1>s. /\ St(gl, Charged) = St(fl, Charged) \ V /\ St(gl, Writers) = St(fl, Writers)
      /\ St(gl, {"stored"}) = St(fl, {"stored"}) \ V
      /\ St(gl, {"gone"}) = St(fl, {"gone"}) \cup V
      /\ St(gl, Writers \cup Charged) = St(fl, Writers \cup Charged) \ V
  BY <1>g, <1>t DEF St, Charged, Writers
<1>v. Size(gl) = Size(fl) /\ Owed(gl) = Owed(fl)
  BY <1>g DEF Size, Owed
<1>2. Sound(gl, dk \ (V \ left))
  BY <1>1, <1>g, <1>t DEF Good, Sound
<1>3. Paid(gl, us - Sum(Size(fl), V), rs)
  <2>1. V \in SUBSET St(fl, Charged) /\ St(fl, Charged) \in SUBSET Files
    BY DEF St, Charged
  <2>2. Sum(Size(fl), St(fl, Charged) \ V) = Sum(Size(fl), St(fl, Charged)) - Sum(Size(fl), V)
    BY <2>1, <1>t, Finite, SumDifference
  <2>3. Sum(Size(fl), V) \in Nat /\ Sum(Size(fl), St(fl, Charged)) \in Nat
    BY <2>1, <1>t, Finite, SumType
  <2>4. rs \in Nat
    <3>1. St(fl, Writers) \in SUBSET Files
      BY DEF St
    <3>2. Sum(Size(fl), St(fl, Writers)) \in Nat
      BY <3>1, <1>t, Finite, SumType
    <3>3. Sum(Owed(fl), St(fl, Writers)) \in Nat
      BY <3>1, <1>t, Finite, SumType
    <3> QED BY <3>2, <3>3 DEF Good, Paid
  <2>5. us = Sum(Size(fl), St(fl, Charged)) /\ us + rs <= Budget
        /\ rs = Sum(Size(fl), St(fl, Writers)) + Sum(Owed(fl), St(fl, Writers))
    BY DEF Good, Paid
  <2>6. Budget \in Nat
    BY <1>t, Finite
  <2>7. us - Sum(Size(fl), V) + rs <= Budget
    BY <2>3, <2>4, <2>5, <2>6
  <2> QED BY <2>2, <2>5, <2>7, <1>s, <1>v DEF Paid
<1>4. Catalogued(gl)
  <2>1. \A f, g \in St(gl, {"stored"}) : gl[f].key = gl[g].key => f = g
    BY <1>s, <1>g, <1>t DEF Good, Catalogued, St
  <2>2. Cardinality(St(gl, {"stored"})) <= Cardinality(St(fl, {"stored"}))
    <3>1. St(fl, {"stored"}) \in SUBSET Files
      BY DEF St
    <3> QED BY <3>1, <1>s, FewFiles, FS_Subset
  <2>3. /\ Cardinality(St(gl, {"stored"})) \in Nat /\ Cardinality(St(fl, {"stored"})) \in Nat
        /\ MaxArtifacts \in Nat
    <3>1. St(fl, {"stored"}) \in SUBSET Files /\ St(gl, {"stored"}) \in SUBSET Files
      BY DEF St
    <3> QED BY <3>1, <1>t, FewFiles, Finite
  <2> QED BY <2>1, <2>2, <2>3 DEF Good, Catalogued
<1>5. Tidy(gl, dk \ (V \ left))
  <2>1. St(gl, Writers \cup Charged) \subseteq dk \ (V \ left)
    BY <1>s DEF Good, Tidy
  <2> DEFINE G == dk \cap St(fl, {"gone"})
  <2>2. (dk \ (V \ left)) \cap St(gl, {"gone"}) = G \cup left
    BY <1>s, <1>t, <1>g DEF St
  <2>3. G \cap left = {}
    BY DEF St
  <2>4. Cardinality(G \cup left) <= MaxLeaks
    <3>1. CASE left = {}
      <4>1. G \cup left = G
        BY <3>1
      <4> QED BY <4>1 DEF Good, Tidy
    <3>2. CASE left # {}
      <4>1. G \in SUBSET Files /\ left \in SUBSET Files
        BY <1>t DEF St
      <4>2. Cardinality(G \cap left) = 0
        BY <2>3, FS_EmptySet
      <4> HIDE DEF G
      <4>3. Cardinality(G \cup left) = Cardinality(G) + Cardinality(left) - Cardinality(G \cap left)
        BY <4>1, FewFiles, FS_Union
      <4>4. Cardinality(left) + Cardinality(G) <= MaxLeaks
        BY <3>2 DEF G
      <4>5. Cardinality(G) \in Nat /\ Cardinality(left) \in Nat /\ MaxLeaks \in Nat
        BY <4>1, <1>t, FewFiles, Finite
      <4> QED BY <4>2, <4>3, <4>4, <4>5
    <3> QED BY <3>1, <3>2
  <2> QED BY <2>1, <2>2, <2>4 DEF Tidy
<1>6. Pinned(gl, ls)
  <2>1. \A f \in Files : gl[f].pins = fl[f].pins
    BY <1>g
  <2>2. \A r \in Readers : ls[r] # Nothing => ls[r] \in Files /\ ls[r] \notin V
    <3> SUFFICES ASSUME NEW r \in Readers, ls[r] # Nothing
                 PROVE  ls[r] \in Files /\ ls[r] \notin V
      OBVIOUS
    <3>1. ls[r] \in Files /\ r \in Holders(ls, ls[r])
      BY DEF Good, Pinned, Holders
    <3>2. fl[ls[r]].pins # 0
      <4>1. Holders(ls, ls[r]) \in SUBSET Readers
        BY DEF Holders
      <4>2. IsFiniteSet(Holders(ls, ls[r]))
        BY <4>1, <1>t, Finite, FS_Subset
      <4>3. Cardinality(Holders(ls, ls[r])) # 0
        BY <4>2, <3>1, FS_EmptySet
      <4> QED BY <4>3, <3>1 DEF Good, Pinned
    <3> QED BY <3>1, <3>2
  <2> QED BY <2>1, <2>2, <1>g DEF Good, Pinned
<1> QED BY <1>2, <1>3, <1>4, <1>5, <1>6 DEF Good

\* The bytes of the files in some states are a number.
LEMMA Totals ==
  ASSUME NEW fl \in [Files -> FileType], NEW states
  PROVE  Sum(Size(fl), St(fl, states)) \in Nat /\ Sum(Owed(fl), St(fl, states)) \in Nat
<1>1. St(fl, states) \in SUBSET Files
  BY DEF St
<1> QED BY <1>1, Finite, SumType

\* One file changes: the sums change by what it counted for and what it counts for.
LEMMA OneFile ==
  ASSUME NEW fl \in [Files -> FileType], NEW f \in Files, NEW v \in FileType,
         NEW gl, gl = [fl EXCEPT ![f] = v], NEW states
  PROVE  /\ Moves(Sum(Size(fl), St(fl, states)), Sum(Size(gl), St(gl, states)),
                  Bulk(fl[f], states), Bulk(v, states))
         /\ Moves(Sum(Owed(fl), St(fl, states)), Sum(Owed(gl), St(gl, states)),
                  Debt(fl[f], states), Debt(v, states))
         /\ Sum(Size(fl), St(fl, states)) \in Nat /\ Sum(Owed(fl), St(fl, states)) \in Nat
         /\ gl \in [Files -> FileType] /\ gl[f] = v /\ \A g \in Files \ {f} : gl[g] = fl[g]
<1> DEFINE S == St(fl, states)
           T == St(gl, states)
<1>1. gl \in [Files -> FileType] /\ gl[f] = v /\ \A g \in Files \ {f} : gl[g] = fl[g]
  OBVIOUS
<1>2. /\ S \in SUBSET Files /\ T \in SUBSET Files /\ S \ {f} = T \ {f}
      /\ (f \in S <=> fl[f].st \in states) /\ (f \in T <=> v.st \in states)
  BY <1>1 DEF St
<1>3. \A g \in S \ {f} : Size(fl)[g] = Size(gl)[g] /\ Owed(fl)[g] = Owed(gl)[g]
  BY <1>1, <1>2 DEF Size, Owed
<1>4. /\ Size(fl)[f] = fl[f].bytes /\ Owed(fl)[f] = fl[f].pending
      /\ Size(gl)[f] = v.bytes /\ Owed(gl)[f] = v.pending
  BY <1>1 DEF Size, Owed
<1>5. /\ Size(fl) \in [Files -> Int] /\ Owed(fl) \in [Files -> Int]
      /\ Size(gl) \in [Files -> Int] /\ Owed(gl) \in [Files -> Int] /\ IsFiniteSet(Files)
      /\ Size(fl) \in [Files -> Nat] /\ Owed(fl) \in [Files -> Nat]
  BY <1>1, Finite
<1> DEFINE a == Size(fl)
           b == Size(gl)
           c == Owed(fl)
           d == Owed(gl)
<1>p. /\ a \in [Files -> Int] /\ b \in [Files -> Int] /\ c \in [Files -> Int]
      /\ d \in [Files -> Int]
  BY <1>5
<1>q. \A g \in S \ {f} : a[g] = b[g]
  BY <1>3
<1>r. \A g \in S \ {f} : c[g] = d[g]
  BY <1>3
<1>m. S \in SUBSET Files /\ T \in SUBSET Files /\ S \ {f} = T \ {f} /\ IsFiniteSet(Files)
  BY <1>2, <1>5
<1> HIDE DEF S, T, a, b, c, d
<1>6. Moves(Sum(a, S), Sum(b, T), Term(a, S, f), Term(b, T, f))
  BY <1>m, <1>p, <1>q, SumChange
<1>7. Moves(Sum(c, S), Sum(d, T), Term(c, S, f), Term(d, T, f))
  BY <1>m, <1>p, <1>r, SumChange
<1>8. Sum(Size(fl), S) \in Nat /\ Sum(Owed(fl), S) \in Nat
  BY <1>2, <1>5, SumType
<1>9. /\ Term(a, S, f) = Bulk(fl[f], states) /\ Term(b, T, f) = Bulk(v, states)
      /\ Term(c, S, f) = Debt(fl[f], states) /\ Term(d, T, f) = Debt(v, states)
  BY <1>2, <1>4 DEF a, b, c, d, Term, Bulk, Debt
<1> QED BY <1>1, <1>6, <1>7, <1>8, <1>9 DEF S, T, a, b, c, d

\* Numbers of bytes that are known to be natural.
LEMMA Amounts ==
  ASSUME NEW fl, NEW us, NEW rs, NEW dk, NEW ls, Good(fl, us, rs, dk, ls), NEW f \in Files
  PROVE  /\ us \in Nat /\ rs \in Nat /\ Budget \in Nat /\ MaxSize \in Nat
         /\ fl[f].bytes \in Nat /\ fl[f].pending \in Nat /\ fl[f].pins \in Nat
         /\ us + rs <= Budget /\ fl[f] \in FileType
         /\ fl[f].bytes + fl[f].pending <= MaxSize
<1>1. fl \in [Files -> FileType]
  BY DEF Good, Sound
<1>2. /\ Sum(Size(fl), St(fl, Charged)) \in Nat /\ Sum(Size(fl), St(fl, Writers)) \in Nat
      /\ Sum(Owed(fl), St(fl, Writers)) \in Nat
  BY <1>1, OneFile
<1>3. us \in Nat /\ rs \in Nat
  BY <1>2 DEF Good, Paid
<1> QED BY <1>1, <1>3, Finite, FS_CardinalityType DEF Good, Paid, Sound, FileType

\* What one file counts for is part of what is charged.
LEMMA Share ==
  ASSUME NEW fl, NEW us, NEW rs, NEW dk, NEW ls, Good(fl, us, rs, dk, ls), NEW f \in Files
  PROVE  /\ Bulk(fl[f], Charged) <= us
         /\ Bulk(fl[f], Writers) + Debt(fl[f], Writers) <= rs
<1> DEFINE v == [fl[f] EXCEPT !.st = "gone"]
           gl == [fl EXCEPT ![f] = v]
<1>t. fl \in [Files -> FileType] /\ fl[f] \in FileType
  BY Amounts DEF Good, Sound
<1>v. v \in FileType /\ v.st = "gone"
  BY <1>t DEF FileType
<1>0. \A states \in {Charged, Writers} : Bulk(v, states) = 0 /\ Debt(v, states) = 0
  BY <1>v DEF Bulk, Debt, Charged, Writers
<1>n. \A states \in {Charged, Writers} :
        Bulk(fl[f], states) \in Nat /\ Debt(fl[f], states) \in Nat
  BY Amounts DEF Bulk, Debt
<1> HIDE DEF v
<1>g. gl \in [Files -> FileType]
  BY <1>t, <1>v
<1> HIDE DEF gl
<1>1. /\ Moves(us, Sum(Size(gl), St(gl, Charged)), Bulk(fl[f], Charged), Bulk(v, Charged))
      /\ us \in Nat
  BY <1>t, <1>v, OneFile, Amounts DEF Good, Paid, gl
<1>2. Moves(Sum(Size(fl), St(fl, Writers)), Sum(Size(gl), St(gl, Writers)),
            Bulk(fl[f], Writers), Bulk(v, Writers))
  BY <1>t, <1>v, OneFile DEF gl
<1>3. Moves(Sum(Owed(fl), St(fl, Writers)), Sum(Owed(gl), St(gl, Writers)),
            Debt(fl[f], Writers), Debt(v, Writers))
  BY <1>t, <1>v, OneFile DEF gl
<1>4. /\ Sum(Size(gl), St(gl, Charged)) \in Nat /\ Sum(Size(gl), St(gl, Writers)) \in Nat
      /\ Sum(Owed(gl), St(gl, Writers)) \in Nat
  BY <1>g, <1>t, OneFile
<1>5. Sum(Size(fl), St(fl, Writers)) \in Nat /\ Sum(Owed(fl), St(fl, Writers)) \in Nat
  BY <1>t, OneFile
<1>6. Bulk(fl[f], Charged) <= us
  BY <1>0, <1>n, <1>1, <1>4 DEF Moves
<1>7. Bulk(fl[f], Writers) + Debt(fl[f], Writers) <= rs
  BY <1>0, <1>n, <1>2, <1>3, <1>4, <1>5 DEF Moves, Good, Paid
<1> QED BY <1>6, <1>7

\* The counters follow the one file that changes.
LEMMA PaidOne ==
  ASSUME NEW fl, NEW us, NEW rs, NEW dk, NEW ls, Good(fl, us, rs, dk, ls),
         NEW f \in Files, NEW v \in FileType, NEW gl, gl = [fl EXCEPT ![f] = v],
         NEW us2, NEW rs2, Balanced(us, rs, us2, rs2, fl[f], v)
  PROVE  Paid(gl, us2, rs2)
<1>a. /\ us \in Nat /\ rs \in Nat /\ fl \in [Files -> FileType]
      /\ us = Sum(Size(fl), St(fl, Charged))
      /\ rs = Sum(Size(fl), St(fl, Writers)) + Sum(Owed(fl), St(fl, Writers))
  BY Amounts DEF Good, Sound, Paid
<1>n. /\ fl[f].bytes \in Nat /\ fl[f].pending \in Nat /\ v.bytes \in Nat /\ v.pending \in Nat
  BY Amounts DEF FileType
<1>1. Moves(us, Sum(Size(gl), St(gl, Charged)), Bulk(fl[f], Charged), Bulk(v, Charged))
  BY <1>a, OneFile
<1>2. Moves(Sum(Size(fl), St(fl, Writers)), Sum(Size(gl), St(gl, Writers)),
            Bulk(fl[f], Writers), Bulk(v, Writers))
  BY <1>a, OneFile
<1>3. Moves(Sum(Owed(fl), St(fl, Writers)), Sum(Owed(gl), St(gl, Writers)),
            Debt(fl[f], Writers), Debt(v, Writers))
  BY <1>a, OneFile
<1>4. \A x \in {fl[f], v} : Bulk(x, Writers) \in Nat /\ Debt(x, Writers) \in Nat
  BY <1>n DEF Bulk, Debt
<1>5. Sum(Size(fl), St(fl, Writers)) \in Nat /\ Sum(Owed(fl), St(fl, Writers)) \in Nat
  BY <1>a, OneFile
<1>6. Sum(Size(gl), St(gl, Writers)) + Sum(Owed(gl), St(gl, Writers)) = rs2
  BY <1>a, <1>2, <1>3, <1>4, <1>5 DEF Moves, Balanced
<1> QED BY <1>1, <1>6 DEF Paid, Moves, Balanced

\* A file somebody needs is on the disk, and has a key.
LEMMA Present ==
  ASSUME NEW fl, NEW us, NEW rs, NEW dk, NEW ls, Good(fl, us, rs, dk, ls), NEW f \in Files
  PROVE  /\ fl \in [Files -> FileType] /\ fl[f] \in FileType /\ dk \in SUBSET Files
         /\ fl[f].st # "none" => fl[f].key \in Keys
         /\ fl[f].st \in Writers \cup Charged => f \in dk
BY DEF Good, Sound, Tidy, St

\* One file changes, and with it at most its own place on the disk and the leases.
LEMMA Alter ==
  ASSUME NEW fl, NEW us, NEW rs, NEW dk, NEW ls, Good(fl, us, rs, dk, ls),
         NEW f \in Files, NEW v \in FileType, NEW gl, gl = [fl EXCEPT ![f] = v],
         NEW us2, NEW rs2, Balanced(us, rs, us2, rs2, fl[f], v),
         NEW dk2, Fit(fl, dk, dk2, f, v), NEW ls2, Pinned(gl, ls2)
  PROVE  Good(gl, us2, rs2, dk2, ls2)
<1>t. fl \in [Files -> FileType] /\ dk \in SUBSET Files
  BY DEF Good, Sound
<1>o. gl \in [Files -> FileType] /\ gl[f] = v /\ \A g \in Files \ {f} : gl[g] = fl[g]
  BY <1>t
<1>1. Sound(gl, dk2)
  <2>1. \A g \in Files \ {f} : g \in dk2 <=> g \in dk
    BY DEF Fit
  <2>2. \A g \in Files \ {f} :
          /\ gl[g].st = "none" => g \notin dk2 /\ gl[g].bytes = 0 /\ gl[g].pending = 0
          /\ gl[g].st # "none" => gl[g].key \in Keys
          /\ gl[g].bytes + gl[g].pending <= MaxSize
          /\ gl[g].st = "retired" => gl[g].pins > 0
    BY <2>1, <1>o DEF Good, Sound
  <2> QED BY <2>2, <1>o DEF Sound, Fit
<1>2. Paid(gl, us2, rs2)
  BY PaidOne
<1>3. Catalogued(gl)
  <2> DEFINE S == St(fl, {"stored"})
             T == St(gl, {"stored"})
  <2>s. S \in SUBSET Files /\ T \subseteq S \cup {f} /\ (v.st # "stored" => f \notin T)
    BY <1>o DEF St
  <2>1. \A g, h \in T : gl[g].key = gl[h].key => g = h
    <3>1. \A g, h \in S : fl[g].key = fl[h].key => g = h
      BY DEF Good, Catalogued
    <3>2. \A g \in T \ {f} : g \in S /\ gl[g] = fl[g]
      BY <1>o DEF St
    <3>3. f \in T => v.st = "stored" /\ gl[f].key = v.key
      BY <1>o DEF St
    <3>6. v.st = "stored" =>
            \/ f \in S /\ v.key = fl[f].key
            \/ \A g \in S : fl[g].key # v.key
      BY DEF Fit, St
    <3> HIDE DEF S, T
    <3>5. \A g \in T \ {f} : f \in T => gl[g].key # gl[f].key
      BY <3>1, <3>2, <3>3, <3>6
    <3> QED BY <3>1, <3>2, <3>5
  <2>2. Cardinality(T) <= MaxArtifacts
    <3>1. /\ IsFiniteSet(S) /\ Cardinality(S) \in Nat /\ Cardinality(T) \in Nat
          /\ Cardinality(S) <= MaxArtifacts /\ MaxArtifacts \in Nat
      BY <2>s, <1>t, FewFiles, Finite DEF Good, Catalogued
    <3>2. CASE T \subseteq S
      <4>1. Cardinality(T) <= Cardinality(S)
        BY <3>1, <3>2, FS_Subset
      <4> QED BY <4>1, <3>1
    <3>3. CASE ~(T \subseteq S)
      <4>1. v.st = "stored" /\ f \notin S
        BY <3>3, <2>s
      <4>2. Cardinality(S) < MaxArtifacts
        BY <4>1 DEF St, Fit
      <4>3. Cardinality(S \cup {f}) = Cardinality(S) + 1
        BY <4>1, <3>1, FS_AddElement
      <4>4. IsFiniteSet(S \cup {f})
        BY <2>s, FewFiles
      <4>5. Cardinality(T) <= Cardinality(S \cup {f})
        BY <4>4, <2>s, FS_Subset
      <4> QED BY <4>2, <4>3, <4>5, <3>1
    <3> QED BY <3>2, <3>3
  <2> QED BY <2>1, <2>2 DEF Catalogued
<1>4. Tidy(gl, dk2)
  <2>1. St(gl, Writers \cup Charged) \subseteq dk2
    <3>1. \A g \in St(gl, Writers \cup Charged) : g # f => g \in St(fl, Writers \cup Charged)
      BY <1>o DEF St
    <3>2. f \in St(gl, Writers \cup Charged) => f \in dk2
      BY <1>o DEF St, Writers, Charged, Fit
    <3>3. dk2 \ {f} = dk \ {f} /\ St(fl, Writers \cup Charged) \subseteq dk
      BY DEF Good, Tidy, Fit
    <3> QED BY <3>1, <3>2, <3>3
  <2> DEFINE G == dk \cap St(fl, {"gone"})
             H == dk2 \cap St(gl, {"gone"})
  <2>s. G \in SUBSET Files /\ H \subseteq G \cup {f} /\ (f \in H => v.st = "gone" /\ f \in dk2)
    <3>1. dk2 \ {f} = dk \ {f} /\ dk2 \in SUBSET Files
      BY DEF Fit
    <3> QED BY <3>1, <1>o DEF St
  <2>g. Cardinality(G) <= MaxLeaks
    BY DEF Good, Tidy
  <2>r. v.st = "gone" /\ f \in dk2 => Cardinality(G) < MaxLeaks
    BY DEF Fit
  <2> HIDE DEF G, H
  <2>t. /\ IsFiniteSet(G) /\ Cardinality(G) \in Nat /\ H \in SUBSET Files /\ Cardinality(H) \in Nat
        /\ MaxLeaks \in Nat
    BY <2>s, <1>t, FewFiles, Finite
  <2>2. Cardinality(H) <= MaxLeaks
    <3>2. CASE H \subseteq G
      <4>1. Cardinality(H) <= Cardinality(G)
        BY <2>t, <3>2, FS_Subset
      <4> QED BY <4>1, <2>t, <2>g
    <3>3. CASE ~(H \subseteq G)
      <4>1. f \notin G /\ Cardinality(G) < MaxLeaks
        BY <3>3, <2>s, <2>r
      <4>3. Cardinality(G \cup {f}) = Cardinality(G) + 1 /\ IsFiniteSet(G \cup {f})
        BY <4>1, <2>t, FS_AddElement
      <4>5. Cardinality(H) <= Cardinality(G \cup {f})
        BY <4>3, <2>s, FS_Subset
      <4> QED BY <4>1, <4>3, <4>5, <2>t
    <3> QED BY <3>2, <3>3
  <2> QED BY <2>1, <2>2 DEF Tidy, H
<1> QED BY <1>1, <1>2, <1>3, <1>4 DEF Good

\* A file that keeps its pins keeps its readers, if it is still there for them.
LEMMA KeepPins ==
  ASSUME NEW fl \in [Files -> FileType], NEW ls, Pinned(fl, ls), NEW f \in Files, NEW v,
         v.pins = fl[f].pins, v.st \in Charged \/ fl[f].st \notin Charged \/ v.pins = 0,
         NEW gl, gl = [fl EXCEPT ![f] = v]
  PROVE  Pinned(gl, ls)
<1>1. gl[f] = v /\ \A g \in Files \ {f} : gl[g] = fl[g]
  OBVIOUS
<1>2. ASSUME NEW r \in Readers, ls[r] # Nothing PROVE gl[ls[r]].st \in Charged
  <2>1. ls[r] \in Files /\ fl[ls[r]].st \in Charged /\ r \in Holders(ls, ls[r])
    BY <1>2 DEF Pinned, Holders
  <2>2. CASE ls[r] # f
    BY <2>1, <2>2, <1>1
  <2>3. CASE ls[r] = f
    <3>1. Holders(ls, f) \in SUBSET Readers
      BY DEF Holders
    <3>2. Cardinality(Holders(ls, f)) # 0
      BY <3>1, <2>1, <2>3, FS_Subset, FS_EmptySet, SegmentCacheAssumption
    <3>3. v.pins # 0
      BY <3>2 DEF Pinned
    <3> QED BY <3>3, <2>1, <2>3, <1>1
  <2> QED BY <2>2, <2>3
<1> QED BY <1>1, <1>2 DEF Pinned

\* reserve: n bytes are promised to a writer.
LEMMA Promise ==
  ASSUME NEW fl, NEW us, NEW rs, NEW dk, NEW ls, Good(fl, us, rs, dk, ls), NEW f \in Files,
         fl[f].st = "part", fl[f].pending = 0, NEW n \in 1..(MaxSize - fl[f].bytes),
         us + rs + n <= Budget
  PROVE  Good([fl EXCEPT ![f].pending = n], us, rs + n, dk, ls)
<1> DEFINE v == [fl[f] EXCEPT !.pending = n]
           gl == [fl EXCEPT ![f] = v]
<1>a. /\ us \in Nat /\ rs \in Nat /\ Budget \in Nat /\ MaxSize \in Nat
      /\ fl[f].bytes \in Nat /\ n \in Nat /\ fl[f].bytes + n <= MaxSize /\ n <= MaxSize
  BY Amounts
<1>b. fl[f] \in FileType /\ fl \in [Files -> FileType] /\ dk \in SUBSET Files /\ f \in dk
      /\ fl[f].key \in Keys
  BY Present DEF Writers
<1>v. /\ v \in FileType /\ v.st = "part" /\ v.bytes = fl[f].bytes /\ v.pending = n
      /\ v.key = fl[f].key /\ v.pins = fl[f].pins
  BY <1>a, <1>b DEF FileType
<1>g. gl = [fl EXCEPT ![f].pending = n]
  OBVIOUS
<1> HIDE DEF v
<1>1. /\ Bulk(fl[f], Charged) = 0 /\ Bulk(v, Charged) = 0
      /\ Bulk(fl[f], Writers) = fl[f].bytes /\ Debt(fl[f], Writers) = 0
      /\ Bulk(v, Writers) = fl[f].bytes /\ Debt(v, Writers) = n
  BY <1>v DEF Bulk, Debt, Charged, Writers
<1>2. Balanced(us, rs, us, rs + n, fl[f], v)
  BY <1>a, <1>1 DEF Balanced
<1>3. Fit(fl, dk, dk, f, v)
  BY <1>a, <1>b, <1>v DEF Fit
<1>4. Pinned(gl, ls)
  BY <1>b, <1>v, KeepPins DEF Good, Charged
<1>5. Good(gl, us, rs + n, dk, ls)
  BY <1>b, <1>v, <1>2, <1>3, <1>4, Alter
<1> QED BY <1>5, <1>g

\* The second half of Write: m of the bytes promised are in the file.
LEMMA Fill ==
  ASSUME NEW fl, NEW us, NEW rs, NEW dk, NEW ls, Good(fl, us, rs, dk, ls), NEW f \in Files,
         fl[f].st = "part", NEW m \in 0..fl[f].pending
  PROVE  Good([fl EXCEPT ![f].bytes = @ + m, ![f].pending = 0],
              us, rs - (fl[f].pending - m), dk, ls)
<1> DEFINE v == [fl[f] EXCEPT !.bytes = @ + m, !.pending = 0]
           gl == [fl EXCEPT ![f] = v]
           rs2 == rs - (fl[f].pending - m)
<1>a. /\ us \in Nat /\ rs \in Nat /\ Budget \in Nat /\ MaxSize \in Nat /\ us + rs <= Budget
      /\ fl[f].bytes \in Nat /\ fl[f].pending \in Nat /\ fl[f].bytes + fl[f].pending <= MaxSize
  BY Amounts
<1>m. m \in Nat /\ m <= fl[f].pending /\ fl[f].bytes + m <= MaxSize
  BY <1>a
<1>b. fl[f] \in FileType /\ fl \in [Files -> FileType] /\ dk \in SUBSET Files /\ f \in dk
      /\ fl[f].key \in Keys
  BY Present DEF Writers
<1>v. /\ v \in FileType /\ v.st = "part" /\ v.bytes = fl[f].bytes + m /\ v.pending = 0
      /\ v.key = fl[f].key /\ v.pins = fl[f].pins
  <2>1. fl[f].bytes + m \in 0..MaxSize /\ 0 \in 0..MaxSize
    BY <1>a, <1>m
  <2> QED BY <2>1, <1>b DEF FileType
<1>g. gl = [fl EXCEPT ![f].bytes = @ + m, ![f].pending = 0]
  BY <1>b
<1> HIDE DEF v
<1>1. /\ Bulk(fl[f], Charged) = 0 /\ Bulk(v, Charged) = 0
      /\ Bulk(fl[f], Writers) = fl[f].bytes /\ Debt(fl[f], Writers) = fl[f].pending
      /\ Bulk(v, Writers) = fl[f].bytes + m /\ Debt(v, Writers) = 0
  BY <1>v DEF Bulk, Debt, Charged, Writers
<1>2. Balanced(us, rs, us, rs2, fl[f], v)
  <2>1. fl[f].bytes + fl[f].pending <= rs
    BY <1>1, Share
  <2> QED BY <2>1, <1>a, <1>m, <1>1 DEF Balanced
<1>3. Fit(fl, dk, dk, f, v)
  BY <1>a, <1>b, <1>m, <1>v DEF Fit
<1>4. Pinned(gl, ls)
  BY <1>b, <1>v, KeepPins DEF Good, Charged
<1> HIDE DEF rs2
<1>5. Good(gl, us, rs2, dk, ls)
  BY <1>b, <1>v, <1>2, <1>3, <1>4, Alter
<1> QED BY <1>5, <1>g DEF rs2

\* begin: a file is created.
LEMMA Create ==
  ASSUME NEW fl, NEW us, NEW rs, NEW dk, NEW ls, Good(fl, us, rs, dk, ls), NEW f \in Files,
         fl[f].st = "none", NEW k \in Keys
  PROVE  Good([fl EXCEPT ![f].st = "part", ![f].key = k], us, rs, dk \cup {f}, ls)
<1> DEFINE v == [fl[f] EXCEPT !.st = "part", !.key = k]
           gl == [fl EXCEPT ![f] = v]
<1>a. /\ us \in Nat /\ rs \in Nat /\ us + rs <= Budget /\ MaxSize \in Nat
      /\ fl[f].bytes = 0 /\ fl[f].pending = 0
  BY Amounts DEF Good, Sound
<1>b. fl[f] \in FileType /\ fl \in [Files -> FileType] /\ dk \in SUBSET Files
  BY Present
<1>v. /\ v \in FileType /\ v.st = "part" /\ v.bytes = 0 /\ v.pending = 0
      /\ v.key = k /\ v.pins = fl[f].pins
  BY <1>a, <1>b DEF FileType
<1>g. gl = [fl EXCEPT ![f].st = "part", ![f].key = k]
  BY <1>b
<1> HIDE DEF v
<1>1. /\ Bulk(fl[f], Charged) = 0 /\ Bulk(v, Charged) = 0
      /\ Bulk(fl[f], Writers) = 0 /\ Debt(fl[f], Writers) = 0
      /\ Bulk(v, Writers) = 0 /\ Debt(v, Writers) = 0
  BY <1>v DEF Bulk, Debt, Charged, Writers
<1>2. Balanced(us, rs, us, rs, fl[f], v)
  BY <1>a, <1>1 DEF Balanced
<1>3. Fit(fl, dk, dk \cup {f}, f, v)
  BY <1>a, <1>b, <1>v DEF Fit
<1>4. Pinned(gl, ls)
  BY <1>b, <1>v, KeepPins DEF Good, Charged
<1>5. Good(gl, us, rs, dk \cup {f}, ls)
  <2>1. dk \cup {f} \in SUBSET Files
    BY <1>b
  <2> QED BY <2>1, <1>b, <1>v, <1>2, <1>3, <1>4, Alter
<1> QED BY <1>5, <1>g

\* abort, and a commit that lost the race: a writer's file is removed, unless that fails.
LEMMA Discard ==
  ASSUME NEW fl, NEW us, NEW rs, NEW dk, NEW ls, Good(fl, us, rs, dk, ls), NEW f \in Files,
         fl[f].st = "part", fl[f].pending = 0, NEW left \in SUBSET {f},
         left # {} => Cardinality(dk \cap St(fl, {"gone"})) < MaxLeaks
  PROVE  Good([fl EXCEPT ![f].st = "gone"], us, rs - fl[f].bytes, dk \ ({f} \ left), ls)
<1> DEFINE v == [fl[f] EXCEPT !.st = "gone"]
           gl == [fl EXCEPT ![f] = v]
           rs2 == rs - fl[f].bytes
           dk2 == dk \ ({f} \ left)
<1>a. /\ us \in Nat /\ rs \in Nat /\ us + rs <= Budget /\ MaxSize \in Nat /\ Budget \in Nat
      /\ fl[f].bytes \in Nat /\ fl[f].bytes + 0 <= MaxSize
  BY Amounts
<1>b. fl[f] \in FileType /\ fl \in [Files -> FileType] /\ dk \in SUBSET Files /\ f \in dk
      /\ fl[f].key \in Keys
  BY Present DEF Writers
<1>v. /\ v \in FileType /\ v.st = "gone" /\ v.bytes = fl[f].bytes /\ v.pending = 0
      /\ v.key = fl[f].key /\ v.pins = fl[f].pins
  BY <1>b DEF FileType
<1>g. gl = [fl EXCEPT ![f].st = "gone"]
  BY <1>b
<1> HIDE DEF v
<1>1. /\ Bulk(fl[f], Charged) = 0 /\ Bulk(v, Charged) = 0
      /\ Bulk(fl[f], Writers) = fl[f].bytes /\ Debt(fl[f], Writers) = 0
      /\ Bulk(v, Writers) = 0 /\ Debt(v, Writers) = 0
  BY <1>v DEF Bulk, Debt, Charged, Writers
<1>2. Balanced(us, rs, us, rs2, fl[f], v)
  <2>1. fl[f].bytes <= rs
    BY <1>1, <1>a, Share
  <2> QED BY <2>1, <1>a, <1>1 DEF Balanced
<1>d. dk2 \in SUBSET Files /\ dk2 \ {f} = dk \ {f} /\ (f \in dk2 => left # {})
  BY <1>b
<1>3. Fit(fl, dk, dk2, f, v)
  <2> HIDE DEF dk2
  <2> QED BY <1>a, <1>b, <1>d, <1>v DEF Fit
<1>4. Pinned(gl, ls)
  BY <1>b, <1>v, KeepPins DEF Good, Charged
<1> HIDE DEF rs2, dk2
<1>5. Good(gl, us, rs2, dk2, ls)
  BY <1>b, <1>d, <1>v, <1>2, <1>3, <1>4, Alter
<1> QED BY <1>5, <1>g DEF rs2, dk2

\* commit: a writer's file becomes the artifact of a key that has none.
LEMMA Shelve ==
  ASSUME NEW fl, NEW us, NEW rs, NEW dk, NEW ls, Good(fl, us, rs, dk, ls), NEW f \in Files,
         fl[f].st = "part", fl[f].pending = 0,
         \A g \in St(fl, {"stored"}) : fl[g].key # fl[f].key,
         Cardinality(St(fl, {"stored"})) < MaxArtifacts
  PROVE  Good([fl EXCEPT ![f].st = "stored"], us + fl[f].bytes, rs - fl[f].bytes, dk, ls)
<1> DEFINE v == [fl[f] EXCEPT !.st = "stored"]
           gl == [fl EXCEPT ![f] = v]
           us2 == us + fl[f].bytes
           rs2 == rs - fl[f].bytes
<1>a. /\ us \in Nat /\ rs \in Nat /\ us + rs <= Budget /\ MaxSize \in Nat /\ Budget \in Nat
      /\ fl[f].bytes \in Nat /\ fl[f].bytes + 0 <= MaxSize
  BY Amounts
<1>b. fl[f] \in FileType /\ fl \in [Files -> FileType] /\ dk \in SUBSET Files /\ f \in dk
      /\ fl[f].key \in Keys
  BY Present DEF Writers
<1>v. /\ v \in FileType /\ v.st = "stored" /\ v.bytes = fl[f].bytes /\ v.pending = 0
      /\ v.key = fl[f].key /\ v.pins = fl[f].pins
  BY <1>b DEF FileType
<1>g. gl = [fl EXCEPT ![f].st = "stored"]
  BY <1>b
<1> HIDE DEF v
<1>1. /\ Bulk(fl[f], Charged) = 0 /\ Bulk(v, Charged) = fl[f].bytes
      /\ Bulk(fl[f], Writers) = fl[f].bytes /\ Debt(fl[f], Writers) = 0
      /\ Bulk(v, Writers) = 0 /\ Debt(v, Writers) = 0
  BY <1>v DEF Bulk, Debt, Charged, Writers
<1>2. Balanced(us, rs, us2, rs2, fl[f], v)
  <2>1. fl[f].bytes <= rs
    BY <1>1, <1>a, Share
  <2> QED BY <2>1, <1>a, <1>1 DEF Balanced
<1>3. Fit(fl, dk, dk, f, v)
  BY <1>a, <1>b, <1>v DEF Fit
<1>4. Pinned(gl, ls)
  BY <1>b, <1>v, KeepPins DEF Good, Charged
<1> HIDE DEF rs2, us2
<1>5. Good(gl, us2, rs2, dk, ls)
  BY <1>b, <1>v, <1>2, <1>3, <1>4, Alter
<1> QED BY <1>5, <1>g DEF rs2, us2

\* A reader more.
LEMMA Pin ==
  ASSUME NEW fl \in [Files -> FileType], NEW ls, Pinned(fl, ls), NEW f \in Files,
         NEW r \in Readers, ls[r] = Nothing, fl[f].st \in Charged,
         NEW gl, gl = [fl EXCEPT ![f].pins = @ + 1], NEW ls2, ls2 = [ls EXCEPT ![r] = f]
  PROVE  Pinned(gl, ls2) /\ fl[f].pins + 1 \in 0..Cardinality(Readers)
<1>1. /\ gl[f].pins = fl[f].pins + 1 /\ gl[f].st = fl[f].st
      /\ \A g \in Files \ {f} : gl[g] = fl[g]
  BY DEF FileType
<1>2. /\ ls2 \in [Readers -> Files \cup {Nothing}] /\ ls2[r] = f
      /\ \A s \in Readers \ {r} : ls2[s] = ls[s]
  BY DEF Pinned
<1>3. /\ Holders(ls2, f) = Holders(ls, f) \cup {r} /\ r \notin Holders(ls, f)
      /\ \A g \in Files \ {f} : Holders(ls2, g) = Holders(ls, g)
  BY <1>2, SegmentCacheAssumption DEF Holders
<1>4. /\ \A g \in Files : IsFiniteSet(Holders(ls, g)) /\ Holders(ls, g) \in SUBSET Readers
      /\ IsFiniteSet(Readers)
  <2>1. \A g \in Files : Holders(ls, g) \in SUBSET Readers
    BY DEF Holders
  <2> QED BY <2>1, FS_Subset, SegmentCacheAssumption
<1>5. Cardinality(Holders(ls2, f)) = Cardinality(Holders(ls, f)) + 1
  BY <1>3, <1>4, FS_AddElement
<1>6. Cardinality(Holders(ls2, f)) <= Cardinality(Readers)
  <2>1. Holders(ls2, f) \in SUBSET Readers
    BY DEF Holders
  <2> QED BY <2>1, <1>4, FS_Subset
<1>7. fl[f].pins = Cardinality(Holders(ls, f)) /\ fl[f].pins \in Nat
      /\ Cardinality(Readers) \in Nat
  BY <1>4, FS_CardinalityType DEF Pinned
<1>8. fl[f].pins + 1 \in 0..Cardinality(Readers)
  BY <1>5, <1>6, <1>7
<1>9. \A s \in Readers : ls2[s] # Nothing => gl[ls2[s]].st \in Charged
  BY <1>1, <1>2 DEF Pinned
<1>10. \A g \in Files : gl[g].pins = Cardinality(Holders(ls2, g))
  BY <1>1, <1>3, <1>5, <1>7 DEF Pinned
<1> QED BY <1>2, <1>8, <1>9, <1>10 DEF Pinned

\* m is one less than n.
OneLess(m, n) == m = n - 1

\* A reader less, who may have been the last one of a file nobody else needs.
LEMMA Unpin ==
  ASSUME NEW fl \in [Files -> FileType], NEW ls, Pinned(fl, ls), NEW r \in Readers,
         NEW f, f = ls[r], f # Nothing, NEW v, OneLess(v.pins, fl[f].pins),
         v.st \in Charged \/ v.pins = 0,
         NEW gl, gl = [fl EXCEPT ![f] = v], NEW ls2, ls2 = [ls EXCEPT ![r] = Nothing]
  PROVE  Pinned(gl, ls2) /\ v.pins \in 0..Cardinality(Readers) /\ f \in Files
<1>f. f \in Files
  BY DEF Pinned
<1>1. gl[f] = v /\ \A g \in Files \ {f} : gl[g] = fl[g]
  BY <1>f
<1>2. /\ ls2 \in [Readers -> Files \cup {Nothing}] /\ ls2[r] = Nothing
      /\ \A s \in Readers \ {r} : ls2[s] = ls[s]
  BY DEF Pinned
<1>3. /\ Holders(ls2, f) = Holders(ls, f) \ {r} /\ r \in Holders(ls, f)
      /\ \A g \in Files \ {f} : Holders(ls2, g) = Holders(ls, g)
  BY <1>2, <1>f, SegmentCacheAssumption DEF Holders
<1>4. /\ IsFiniteSet(Holders(ls, f)) /\ IsFiniteSet(Holders(ls2, f)) /\ IsFiniteSet(Readers)
      /\ Cardinality(Holders(ls, f)) <= Cardinality(Readers)
  <2>1. Holders(ls, f) \in SUBSET Readers /\ Holders(ls2, f) \in SUBSET Readers
    BY DEF Holders
  <2> QED BY <2>1, FS_Subset, SegmentCacheAssumption
<1>5. Cardinality(Holders(ls2, f)) = Cardinality(Holders(ls, f)) - 1
  BY <1>3, <1>4, FS_RemoveElement
<1>7. /\ fl[f].pins = Cardinality(Holders(ls, f)) /\ fl[f].pins \in Nat
      /\ Cardinality(Readers) \in Nat /\ Cardinality(Holders(ls2, f)) \in Nat
  BY <1>4, <1>f, FS_CardinalityType DEF Pinned
<1>8. v.pins \in 0..Cardinality(Readers) /\ v.pins = Cardinality(Holders(ls2, f))
  BY <1>4, <1>5, <1>7 DEF OneLess
<1>9. ASSUME NEW s \in Readers, ls2[s] # Nothing PROVE gl[ls2[s]].st \in Charged
  <2>1. s # r /\ ls2[s] = ls[s] /\ ls[s] \in Files /\ fl[ls[s]].st \in Charged
    BY <1>9, <1>2 DEF Pinned
  <2>2. CASE ls[s] # f
    BY <2>1, <2>2, <1>1
  <2>3. CASE ls[s] = f
    <3>1. s \in Holders(ls2, f)
      BY <2>1, <2>3 DEF Holders
    <3>2. v.pins # 0
      BY <3>1, <1>4, <1>8, FS_EmptySet
    <3> QED BY <3>2, <2>1, <2>3, <1>1
  <2> QED BY <2>2, <2>3
<1>10. \A g \in Files : gl[g].pins = Cardinality(Holders(ls2, g))
  BY <1>1, <1>3, <1>8 DEF Pinned
<1> QED BY <1>2, <1>8, <1>9, <1>10, <1>f DEF Pinned

\* open: an artifact is opened.
LEMMA Take ==
  ASSUME NEW fl, NEW us, NEW rs, NEW dk, NEW ls, Good(fl, us, rs, dk, ls), NEW f \in Files,
         fl[f].st = "stored", NEW r \in Readers, ls[r] = Nothing
  PROVE  Good([fl EXCEPT ![f].pins = @ + 1], us, rs, dk, [ls EXCEPT ![r] = f])
<1> DEFINE v == [fl[f] EXCEPT !.pins = @ + 1]
           gl == [fl EXCEPT ![f] = v]
           ls2 == [ls EXCEPT ![r] = f]
<1>a. /\ us \in Nat /\ rs \in Nat /\ us + rs <= Budget /\ MaxSize \in Nat /\ Budget \in Nat
      /\ fl[f].bytes \in Nat /\ fl[f].bytes + fl[f].pending <= MaxSize
  BY Amounts
<1>b. fl[f] \in FileType /\ fl \in [Files -> FileType] /\ dk \in SUBSET Files /\ f \in dk
      /\ fl[f].key \in Keys
  BY Present DEF Charged
<1>g. gl = [fl EXCEPT ![f].pins = @ + 1]
  BY <1>b
<1>4. Pinned(gl, ls2) /\ fl[f].pins + 1 \in 0..Cardinality(Readers)
  BY <1>b, <1>g, Pin DEF Good, Charged
<1>v. /\ v \in FileType /\ v.st = "stored" /\ v.bytes = fl[f].bytes
      /\ v.pending = fl[f].pending /\ v.key = fl[f].key
  BY <1>b, <1>4 DEF FileType
<1> HIDE DEF v, ls2
<1>1. \A states : Bulk(fl[f], states) = Bulk(v, states)
  BY <1>v DEF Bulk
<1>d. Debt(fl[f], Writers) = 0 /\ Debt(v, Writers) = 0
      /\ Bulk(fl[f], Writers) = 0 /\ Bulk(v, Writers) = 0
      /\ Bulk(fl[f], Charged) = fl[f].bytes
  BY <1>v DEF Bulk, Debt, Writers, Charged
<1>2. Balanced(us, rs, us, rs, fl[f], v)
  BY <1>a, <1>1, <1>d DEF Balanced
<1>3. Fit(fl, dk, dk, f, v)
  BY <1>a, <1>b, <1>v DEF Fit
<1>5. Good(gl, us, rs, dk, ls2)
  BY <1>b, <1>v, <1>2, <1>3, <1>4, Alter
<1> QED BY <1>5, <1>g DEF ls2

\* lease.Close of a reader who is not the last one of a retired artifact.
LEMMA Return ==
  ASSUME NEW fl, NEW us, NEW rs, NEW dk, NEW ls, Good(fl, us, rs, dk, ls), NEW r \in Readers,
         NEW f, f = ls[r], f # Nothing, ~(fl[f].st = "retired" /\ fl[f].pins = 1)
  PROVE  Good([fl EXCEPT ![f].pins = @ - 1], us, rs, dk, [ls EXCEPT ![r] = Nothing])
<1> DEFINE v == [fl[f] EXCEPT !.pins = @ - 1]
           gl == [fl EXCEPT ![f] = v]
           ls2 == [ls EXCEPT ![r] = Nothing]
<1>f. f \in Files /\ fl[f].st \in Charged
  BY DEF Good, Pinned
<1>b. fl[f] \in FileType /\ fl \in [Files -> FileType] /\ dk \in SUBSET Files /\ f \in dk
      /\ fl[f].key \in Keys
  BY <1>f, Present DEF Charged
<1>a. /\ us \in Nat /\ rs \in Nat /\ us + rs <= Budget /\ MaxSize \in Nat /\ Budget \in Nat
      /\ fl[f].bytes \in Nat /\ fl[f].bytes + fl[f].pending <= MaxSize /\ fl[f].pins \in Nat
  BY <1>f, Amounts
<1>g. gl = [fl EXCEPT ![f].pins = @ - 1]
  BY <1>b, <1>f
<1>p. OneLess(v.pins, fl[f].pins) /\ v.st = fl[f].st
  BY <1>b DEF FileType, OneLess
<1>4. Pinned(gl, ls2) /\ v.pins \in 0..Cardinality(Readers)
  <2> HIDE DEF v
  <2> QED BY <1>b, <1>f, <1>p, Unpin DEF Good
<1>v. /\ v \in FileType /\ v.bytes = fl[f].bytes
      /\ v.pending = fl[f].pending /\ v.key = fl[f].key
  BY <1>b, <1>4, <1>p DEF FileType
<1>r. v.st = "retired" => v.pins > 0
  <2>1. v.st = "retired" => fl[f].pins > 0 /\ fl[f].pins # 1
    BY <1>p, <1>f DEF Good, Sound
  <2> QED BY <2>1, <1>a, <1>p DEF OneLess
<1> HIDE DEF v, ls2
<1>1. \A states : Bulk(fl[f], states) = Bulk(v, states)
  BY <1>v, <1>p DEF Bulk
<1>d. Debt(fl[f], Writers) = 0 /\ Debt(v, Writers) = 0
      /\ Bulk(fl[f], Writers) = 0 /\ Bulk(v, Writers) = 0
      /\ Bulk(fl[f], Charged) = fl[f].bytes
  BY <1>f, <1>p DEF Bulk, Debt, Writers, Charged
<1>2. Balanced(us, rs, us, rs, fl[f], v)
  BY <1>a, <1>1, <1>d DEF Balanced
<1>3. Fit(fl, dk, dk, f, v)
  BY <1>a, <1>b, <1>f, <1>r, <1>v, <1>p DEF Fit, Charged
<1>5. Good(gl, us, rs, dk, ls2)
  BY <1>b, <1>f, <1>v, <1>2, <1>3, <1>4, Alter
<1> QED BY <1>5, <1>g DEF ls2

\* lease.Close of the last reader of a retired artifact: it is removed, unless that fails.
LEMMA ReturnLast ==
  ASSUME NEW fl, NEW us, NEW rs, NEW dk, NEW ls, Good(fl, us, rs, dk, ls), NEW r \in Readers,
         NEW f, f = ls[r], f # Nothing, fl[f].st = "retired", fl[f].pins = 1,
         NEW left \in SUBSET {f}, left # {} => Cardinality(dk \cap St(fl, {"gone"})) < MaxLeaks
  PROVE  Good([fl EXCEPT ![f].pins = 0, ![f].st = "gone"], us - fl[f].bytes, rs,
              dk \ ({f} \ left), [ls EXCEPT ![r] = Nothing])
<1> DEFINE v == [fl[f] EXCEPT !.pins = 0, !.st = "gone"]
           gl == [fl EXCEPT ![f] = v]
           ls2 == [ls EXCEPT ![r] = Nothing]
           us2 == us - fl[f].bytes
           dk2 == dk \ ({f} \ left)
<1>f. f \in Files
  BY DEF Good, Pinned
<1>b. fl[f] \in FileType /\ fl \in [Files -> FileType] /\ dk \in SUBSET Files
      /\ fl[f].key \in Keys
  BY <1>f, Present
<1>a. /\ us \in Nat /\ rs \in Nat /\ us + rs <= Budget /\ MaxSize \in Nat /\ Budget \in Nat
      /\ fl[f].bytes \in Nat /\ fl[f].bytes + fl[f].pending <= MaxSize
  BY <1>f, Amounts
<1>g. gl = [fl EXCEPT ![f].pins = 0, ![f].st = "gone"]
  BY <1>b, <1>f
<1>p. v.pins = 0 /\ OneLess(v.pins, fl[f].pins) /\ v.st = "gone"
  BY <1>b DEF FileType, OneLess
<1>4. Pinned(gl, ls2) /\ v.pins \in 0..Cardinality(Readers)
  <2> HIDE DEF v
  <2> QED BY <1>b, <1>f, <1>p, Unpin DEF Good
<1>v. /\ v \in FileType /\ v.bytes = fl[f].bytes
      /\ v.pending = fl[f].pending /\ v.key = fl[f].key
  BY <1>b, <1>4, <1>p DEF FileType
<1> HIDE DEF v, ls2
<1>1. /\ Bulk(fl[f], Charged) = fl[f].bytes /\ Bulk(v, Charged) = 0
      /\ Bulk(fl[f], Writers) = 0 /\ Debt(fl[f], Writers) = 0
      /\ Bulk(v, Writers) = 0 /\ Debt(v, Writers) = 0
  BY <1>p DEF Bulk, Debt, Charged, Writers
<1>2. Balanced(us, rs, us2, rs, fl[f], v)
  <2>1. fl[f].bytes <= us
    BY <1>1, <1>f, Share
  <2> QED BY <2>1, <1>a, <1>1 DEF Balanced
<1>d. dk2 \in SUBSET Files /\ dk2 \ {f} = dk \ {f} /\ (f \in dk2 => left # {})
  BY <1>b
<1>3. Fit(fl, dk, dk2, f, v)
  <2> HIDE DEF dk2
  <2> QED BY <1>a, <1>b, <1>d, <1>v, <1>p DEF Fit
<1> HIDE DEF us2, dk2
<1>5. Good(gl, us2, rs, dk2, ls2)
  BY <1>b, <1>d, <1>f, <1>v, <1>2, <1>3, <1>4, Alter
<1> QED BY <1>5, <1>g DEF us2, dk2, ls2

\* dropPrefix: the artifacts R, which are being read, leave the catalog.
LEMMA Retire ==
  ASSUME NEW fl, NEW us, NEW rs, NEW dk, NEW ls, Good(fl, us, rs, dk, ls),
         NEW R \in SUBSET St(fl, {"stored"}), \A f \in R : fl[f].pins > 0,
         NEW gl, gl = [f \in Files |-> IF f \in R THEN [fl[f] EXCEPT !.st = "retired"]
                                       ELSE fl[f]]
  PROVE  Good(gl, us, rs, dk, ls)
<1>t. fl \in [Files -> FileType] /\ dk \in SUBSET Files /\ R \in SUBSET Files
  BY DEF Good, Sound, St
<1>g. \A f \in Files :
        /\ f \in R => /\ gl[f].st = "retired" /\ fl[f].st = "stored"
                      /\ gl[f].key = fl[f].key /\ gl[f].bytes = fl[f].bytes
                      /\ gl[f].pending = fl[f].pending /\ gl[f].pins = fl[f].pins
        /\ f \notin R => gl[f] = fl[f]
  BY <1>t DEF FileType, St
<1>1. gl \in [Files -> FileType]
  BY <1>t DEF FileType
<1>s. /\ St(gl, Charged) = St(fl, Charged) /\ St(gl, Writers) = St(fl, Writers)
      /\ St(gl, {"stored"}) = St(fl, {"stored"}) \ R /\ St(gl, {"gone"}) = St(fl, {"gone"})
      /\ St(gl, Writers \cup Charged) = St(fl, Writers \cup Charged)
  BY <1>g, <1>t DEF St, Charged, Writers
<1>v. Size(gl) = Size(fl) /\ Owed(gl) = Owed(fl)
  BY <1>g DEF Size, Owed
<1>2. Sound(gl, dk)
  BY <1>1, <1>g, <1>t DEF Good, Sound
<1>3. Paid(gl, us, rs)
  BY <1>s, <1>v DEF Good, Paid
<1>4. Catalogued(gl)
  <2>1. \A f, g \in St(gl, {"stored"}) : gl[f].key = gl[g].key => f = g
    BY <1>s, <1>g, <1>t DEF Good, Catalogued, St
  <2>2. St(fl, {"stored"}) \in SUBSET Files /\ St(gl, {"stored"}) \in SUBSET Files
    BY DEF St
  <2>3. Cardinality(St(gl, {"stored"})) <= Cardinality(St(fl, {"stored"}))
    BY <2>2, <1>s, FewFiles, FS_Subset
  <2>4. /\ Cardinality(St(gl, {"stored"})) \in Nat /\ Cardinality(St(fl, {"stored"})) \in Nat
        /\ MaxArtifacts \in Nat
    BY <2>2, <1>t, FewFiles, Finite
  <2> QED BY <2>1, <2>3, <2>4 DEF Good, Catalogued
<1>5. Tidy(gl, dk)
  BY <1>s DEF Good, Tidy
<1>6. Pinned(gl, ls)
  <2>1. \A f \in Files : gl[f].pins = fl[f].pins /\ (fl[f].st \in Charged => gl[f].st \in Charged)
    BY <1>g DEF Charged
  <2> QED BY <2>1 DEF Good, Pinned
<1> QED BY <1>2, <1>3, <1>4, <1>5, <1>6 DEF Good

-----------------------------------------------------------------------------
(* The steps *)

\* The names of the catalog for the files, the bytes and the artifacts.
LEMMA Names ==
  /\ \A states : In(states) = St(file, states)
  /\ Listed = St(file, {"stored"})
  /\ \A fs : Bytes(fs) = Sum(Size(file), fs) /\ Pending(fs) = Sum(Owed(file), fs)
BY DEF In, Listed, St, Bytes, Pending, Sum, Size, Owed

\* A removal that fails leaves room for the file it leaves behind.
LEMMA Unlinked ==
  ASSUME Good(file, used, reserved, disk, lease), NEW fs \in SUBSET Files, Unlink(fs)
  PROVE  \E left \in SUBSET (fs \cap disk) :
           /\ disk' = disk \ (fs \ left)
           /\ left # {} =>
                /\ Cardinality(left) + Cardinality(disk \cap St(file, {"gone"})) <= MaxLeaks
                /\ Cardinality(disk \cap St(file, {"gone"})) < MaxLeaks
<1>1. PICK left \in SUBSET (fs \cap disk) :
        /\ left # {} => Cardinality(left) + Cardinality(disk \cap In({"gone"})) <= MaxLeaks
        /\ disk' = disk \ (fs \ left)
  BY DEF Unlink
<1>2. In({"gone"}) = St(file, {"gone"})
  BY Names
<1>3. ASSUME left # {} PROVE Cardinality(disk \cap St(file, {"gone"})) < MaxLeaks
  <2> DEFINE G == disk \cap St(file, {"gone"})
  <2>1. left \in SUBSET Files /\ G \in SUBSET Files
    BY DEF St
  <2>2. IsFiniteSet(left) /\ Cardinality(left) \in Nat /\ Cardinality(G) \in Nat
    BY <2>1, FewFiles
  <2>3. Cardinality(left) # 0
    BY <2>2, <1>3, FS_EmptySet
  <2>4. Cardinality(left) + Cardinality(G) <= MaxLeaks
    BY <1>1, <1>2, <1>3
  <2> HIDE DEF G
  <2>5. MaxLeaks \in Nat
    BY SegmentCacheAssumption
  <2>6. Cardinality(G) < MaxLeaks
    BY <2>2, <2>3, <2>4, <2>5
  <2> QED BY <2>6 DEF G
<1> QED BY <1>1, <1>2, <1>3

\* evictOne takes artifacts nobody reads or waits for, and takes no file of a writer.
LEMMA Evicted ==
  ASSUME Good(file, used, reserved, disk, lease), NEW V \in Victims
  PROVE  /\ V \in SUBSET Listed /\ V \in SUBSET Files
         /\ \A v \in V : file[v].pins = 0 /\ wanted[file[v].key] = 0
         /\ Good(Without(V), used - Bytes(V), reserved, disk \ V, lease)
         /\ \A f \in Files : f \notin V => Without(V)[f] = file[f]
         /\ \A f \in V : Without(V)[f] = [file[f] EXCEPT !.st = "gone"]
         /\ St(Without(V), {"stored"}) = Listed \ V
<1>1. /\ V \in SUBSET Listed
      /\ \A v \in V : file[v].pins = 0 /\ wanted[file[v].key] = 0
  BY DEF Victims, Evictable
<1>2. V \in SUBSET St(file, {"stored"}) /\ V \in SUBSET Files
  BY <1>1, Names DEF St
<1>3. Good(Without(V), used - Bytes(V), reserved, disk \ V, lease)
  <2> DEFINE left == {}
             gl == [f \in Files |-> IF f \in V THEN [file[f] EXCEPT !.st = "gone"] ELSE file[f]]
  <2>1. left \in SUBSET (V \cap disk) /\ V \ left = V
    OBVIOUS
  <2>2. left = {}
    OBVIOUS
  <2> HIDE DEF left, gl
  <2>3. Good(gl, used - Sum(Size(file), V), reserved, disk \ (V \ left), lease)
    BY <1>1, <1>2, <2>1, <2>2, GiveUp DEF gl
  <2>4. gl = Without(V)
    BY DEF gl, Without
  <2> QED BY <2>1, <2>3, <2>4, Names
<1>4. file \in [Files -> FileType]
  BY DEF Good, Sound
<1>5. /\ \A f \in Files : f \notin V => Without(V)[f] = file[f]
      /\ \A f \in V : Without(V)[f] = [file[f] EXCEPT !.st = "gone"]
  BY <1>2 DEF Without
<1>6. St(Without(V), {"stored"}) = Listed \ V
  <2> DEFINE W == Without(V)
  <2>1. \A f \in V : W[f].st = "gone"
    BY <1>2, <1>4, <1>5 DEF FileType
  <2>2. \A f \in Files : f \notin V => W[f] = file[f]
    BY <1>5
  <2>3. Listed = St(file, {"stored"})
    BY Names
  <2> HIDE DEF W
  <2>4. St(W, {"stored"}) = Listed \ V
    BY <1>2, <2>1, <2>2, <2>3 DEF St
  <2> QED BY <2>4 DEF W
<1> QED BY <1>1, <1>2, <1>3, <1>5, <1>6

\* Who was used before whom stays a relation between files.
LEMMA Order ==
  ASSUME older \in [Files -> SUBSET Files]
  PROVE  /\ \A f \in Files : Touch(f) => older' \in [Files -> SUBSET Files]
         /\ \A fs : Unlist(fs) => older' \in [Files -> SUBSET Files]
         /\ \A f \in Files : Listed \ {f} \in SUBSET Files
BY DEF Touch, Unlist, Listed, In

\* dropPrefix keeps the invariant: what is read is retired, the rest is given up.
LEMMA DropStep ==
  ASSUME IInv, NEW j \in Jobs, DropPrefix(j)
  PROVE  IInv'
<1> DEFINE dropped == {f \in Listed : file[f].key[1] = j}
           idle == {f \in dropped : file[f].pins = 0}
           R == dropped \ idle
           gl == Without(idle)
<1>g. Good(file, used, reserved, disk, lease) /\ file \in [Files -> FileType]
  BY DEF IInv, Good, Sound
<1>1. /\ Unlist(dropped)
      /\ file' = [f \in Files |-> IF f \in R THEN [file[f] EXCEPT !.st = "retired"]
                                  ELSE Without(idle)[f]]
      /\ used' = used - Bytes(idle)
      /\ Unlink(idle)
      /\ UNCHANGED <<wanted, reserved, lease>>
  BY DEF DropPrefix
<1>2. idle \in SUBSET St(file, {"stored"}) /\ R \in SUBSET St(file, {"stored"})
      /\ idle \in SUBSET Files /\ R \cap idle = {} /\ R \in SUBSET Files
      /\ (\A v \in idle : file[v].pins = 0) /\ \A v \in R : file[v].pins > 0
  <2>1. \A f \in Files : file[f].pins \in Nat
    BY <1>g, Amounts
  <2> QED BY <2>1, Names DEF St
<1> HIDE DEF dropped, idle, R, gl
<1>3. PICK left \in SUBSET (idle \cap disk) :
           /\ disk' = disk \ (idle \ left)
           /\ left # {} =>
                Cardinality(left) + Cardinality(disk \cap St(file, {"gone"})) <= MaxLeaks
  BY <1>1, <1>2, <1>g, Unlinked
<1>4. Good(gl, used - Sum(Size(file), idle), reserved, disk', lease)
  <2>1. gl = [f \in Files |-> IF f \in idle THEN [file[f] EXCEPT !.st = "gone"] ELSE file[f]]
    BY DEF gl, Without
  <2> QED BY <2>1, <1>2, <1>3, <1>g, GiveUp
<1>5. Good(gl, used', reserved', disk', lease')
  BY <1>1, <1>4, Names
<1>6. \A f \in R : gl[f] = file[f]
  BY <1>2 DEF gl, Without
<1>7. R \in SUBSET St(gl, {"stored"}) /\ \A f \in R : gl[f].pins > 0
  BY <1>2, <1>6 DEF St
<1>8. file' = [f \in Files |-> IF f \in R THEN [gl[f] EXCEPT !.st = "retired"] ELSE gl[f]]
  BY <1>1, <1>6 DEF gl
<1>9. Good(file', used', reserved', disk', lease')
  BY <1>5, <1>7, <1>8, Retire
<1> QED BY <1>1, <1>9, Order DEF IInv

\* open keeps the invariant: the artifact has one reader and one pin more.
LEMMA OpenStep ==
  ASSUME IInv, NEW r \in Readers, NEW k \in Keys, OpenEntry(r, k)
  PROVE  IInv'
<1>1. PICK f \in Entry(k) :
         /\ file' = [file EXCEPT ![f].pins = @ + 1]
         /\ lease' = [lease EXCEPT ![r] = f]
         /\ Touch(f)
  BY DEF OpenEntry
<1>2. f \in Files /\ file[f].st = "stored" /\ lease[r] = Nothing
      /\ UNCHANGED <<wanted, used, reserved, disk>>
  BY Names DEF OpenEntry, Entry, St
<1>3. Good([file EXCEPT ![f].pins = @ + 1], used, reserved, disk, [lease EXCEPT ![r] = f])
  BY <1>2, Take DEF IInv
<1>4. Good(file', used', reserved', disk', lease')
  BY <1>1, <1>2, <1>3
<1> QED BY <1>1, <1>2, <1>4, Order DEF IInv

\* lease.Close keeps the invariant, whether or not the last reader removes the file.
LEMMA CloseStep ==
  ASSUME IInv, NEW r \in Readers, CloseLease(r)
  PROVE  IInv'
<1> DEFINE f == lease[r]
<1>1. f # Nothing /\ lease' = [lease EXCEPT ![r] = Nothing] /\ UNCHANGED <<older, wanted, reserved>>
  BY DEF CloseLease
<1>g. Good(file, used, reserved, disk, lease) /\ f \in Files
  BY <1>1 DEF IInv, Good, Pinned
<1>2. Good(file', used', reserved', disk', lease')
  <2>1. CASE file[f].st = "retired" /\ file[f].pins = 1
    <3>1. /\ file' = [file EXCEPT ![f].pins = 0, ![f].st = "gone"]
          /\ used' = used - file[f].bytes /\ Unlink({f})
      BY <2>1 DEF CloseLease
    <3> HIDE DEF f
    <3>2. PICK left \in SUBSET ({f} \cap disk) :
             /\ disk' = disk \ ({f} \ left)
             /\ left # {} => Cardinality(disk \cap St(file, {"gone"})) < MaxLeaks
      BY <3>1, <1>g, Unlinked
    <3>3. f = lease[r] /\ left \in SUBSET {f}
      BY DEF f
    <3>4. Good([file EXCEPT ![f].pins = 0, ![f].st = "gone"], used - file[f].bytes, reserved,
               disk \ ({f} \ left), [lease EXCEPT ![r] = Nothing])
      BY <1>1, <1>g, <2>1, <3>2, <3>3, ReturnLast
    <3> QED BY <1>1, <3>1, <3>2, <3>4
  <2>2. CASE ~(file[f].st = "retired" /\ file[f].pins = 1)
    <3>1. file' = [file EXCEPT ![f].pins = @ - 1] /\ UNCHANGED <<used, disk>>
      BY <2>2 DEF CloseLease
    <3>2. Good([file EXCEPT ![f].pins = @ - 1], used, reserved, disk,
               [lease EXCEPT ![r] = Nothing])
      BY <1>1, <1>g, <2>2, Return
    <3> QED BY <1>1, <3>1, <3>2
  <2> QED BY <2>1, <2>2
<1> QED BY <1>1, <1>2 DEF IInv

\* What is evicted is only evicted: a writer that got no bytes or no place.
LEMMA EvictStep ==
  ASSUME IInv, NEW V \in Victims, Evict(V), file' = Without(V),
         UNCHANGED <<wanted, reserved, lease>>
  PROVE  IInv'
<1>1. Good(Without(V), used - Bytes(V), reserved, disk \ V, lease)
  BY Evicted DEF IInv
<1>2. Unlist(V) /\ used' = used - Bytes(V) /\ disk' = disk \ V
  BY DEF Evict
<1>3. Good(file', used', reserved', disk', lease')
  BY <1>1, <1>2
<1> QED BY <1>2, <1>3, Order DEF IInv

\* reserve keeps the invariant: what it evicts is paid back before n bytes are promised.
LEMMA ReserveStep ==
  ASSUME IInv, NEW f \in Files, NEW n \in 1..(MaxSize - file[f].bytes), Reserve(f, n)
  PROVE  IInv'
<1>1. file[f].st = "part" /\ file[f].pending = 0 /\ reserved' = reserved + n
      /\ UNCHANGED <<wanted, lease>>
  BY DEF Reserve
<1>2. PICK V \in Victims : /\ Fits(V, n) /\ Evict(V)
                           /\ file' = [Without(V) EXCEPT ![f].pending = n]
  BY DEF Reserve
<1> DEFINE gl == Without(V)
           us == used - Bytes(V)
<1>3. Good(gl, us, reserved, disk \ V, lease)
  BY Evicted DEF IInv
<1>4. gl[f] = file[f]
  <2>1. V \in SUBSET Listed /\ \A g \in Files : g \notin V => gl[g] = file[g]
    BY Evicted DEF IInv
  <2>2. f \notin V
    BY <2>1, <1>1, Names DEF St
  <2> QED BY <2>1, <2>2
<1>5. us + reserved + n <= Budget
  BY <1>2 DEF Fits
<1>6. Unlist(V) /\ used' = us /\ disk' = disk \ V
  BY <1>2 DEF Evict
<1> HIDE DEF gl, us
<1>7. Good([gl EXCEPT ![f].pending = n], us, reserved + n, disk \ V, lease)
  BY <1>1, <1>3, <1>4, <1>5, Promise
<1>8. Good(file', used', reserved', disk', lease')
  BY <1>1, <1>2, <1>6, <1>7 DEF gl
<1> QED BY <1>1, <1>6, <1>8, Order DEF IInv

\* A file of a writer is given up, by abort or by commit.
LEMMA DiscardStep ==
  ASSUME IInv, NEW f \in Files, file[f].st = "part", file[f].pending = 0,
         file' = [file EXCEPT ![f].st = "gone"], reserved' = reserved - file[f].bytes,
         Unlink({f}), UNCHANGED <<older, wanted, used, lease>>
  PROVE  IInv'
<1>g. Good(file, used, reserved, disk, lease)
  BY DEF IInv
<1>1. PICK left \in SUBSET ({f} \cap disk) :
           /\ disk' = disk \ ({f} \ left)
           /\ left # {} => Cardinality(disk \cap St(file, {"gone"})) < MaxLeaks
  BY <1>g, Unlinked
<1>2. Good([file EXCEPT ![f].st = "gone"], used, reserved - file[f].bytes,
           disk \ ({f} \ left), lease)
  BY <1>g, <1>1, Discard
<1>3. Good(file', used', reserved', disk', lease')
  BY <1>1, <1>2
<1> QED BY <1>3 DEF IInv

\* commit keeps the invariant, as the publisher of the segment or as the one too late.
LEMMA CommitStep ==
  ASSUME IInv, NEW f \in Files, Commit(f)
  PROVE  IInv'
<1>1. file[f].st = "part" /\ file[f].pending = 0 /\ reserved' = reserved - file[f].bytes
      /\ UNCHANGED <<wanted, lease>>
  BY DEF Commit
<1>2. CASE Has(file[f].key)
  <2>1. file' = [file EXCEPT ![f].st = "gone"] /\ Unlink({f}) /\ UNCHANGED <<older, used>>
    BY <1>2 DEF Commit
  <2> QED BY <1>1, <2>1, DiscardStep
<1>3. CASE ~Has(file[f].key)
  <2>1. PICK V \in Victims : Publish(f, V)
    BY <1>3 DEF Commit
  <2> DEFINE gl == Without(V)
             us == used - Bytes(V)
  <2>2. /\ Good(gl, us, reserved, disk \ V, lease) /\ V \in SUBSET Listed /\ V \in SUBSET Files
        /\ \A g \in Files : g \notin V => gl[g] = file[g]
        /\ St(gl, {"stored"}) = Listed \ V
    BY Evicted DEF IInv
  <2>3. f \notin V /\ Listed \in SUBSET Files
    BY <2>2, <1>1, Names DEF St
  <2>4. gl[f] = file[f]
    BY <2>2, <2>3
  <2>5. \A g \in St(gl, {"stored"}) : gl[g].key # gl[f].key
    <3>1. \A g \in Listed : file[g].key # file[f].key
      BY <1>3 DEF Has, Entry
    <3> QED BY <3>1, <2>2, <2>3, <2>4
  <2>6. Cardinality(St(gl, {"stored"})) < MaxArtifacts
    <3>1. Cardinality(V) = Crowd
      BY <2>1 DEF Publish
    <3>2. /\ Cardinality(Listed) <= MaxArtifacts /\ MaxArtifacts \in Nat
          /\ Cardinality(Listed) \in Nat /\ Cardinality(V) \in Nat
          /\ IsFiniteSet(Listed) /\ IsFiniteSet(V)
      BY <2>2, <2>3, Names, FewFiles, SegmentCacheAssumption DEF IInv, Good, Catalogued
    <3>3. Listed \cap V = V
      BY <2>2
    <3>4. Cardinality(Listed \ V) = Cardinality(Listed) - Cardinality(V)
      BY <3>2, <3>3, FS_Difference
    <3> QED BY <3>1, <3>2, <3>4, <2>2 DEF Crowd
  <2>7. /\ used' = us + file[f].bytes /\ disk' = disk \ V
        /\ file' = [gl EXCEPT ![f].st = "stored"]
    BY <2>1 DEF Publish
  <2>8. older' \in [Files -> SUBSET Files]
    BY <2>1, <2>3 DEF Publish, IInv
  <2> HIDE DEF gl, us
  <2>9. Good([gl EXCEPT ![f].st = "stored"], us + gl[f].bytes, reserved - gl[f].bytes,
             disk \ V, lease)
    BY <1>1, <2>2, <2>4, <2>5, <2>6, Shelve
  <2>10. Good(file', used', reserved', disk', lease')
    BY <1>1, <2>4, <2>7, <2>9
  <2> QED BY <1>1, <2>8, <2>10 DEF IInv
<1> QED BY <1>2, <1>3

\* What holds of the catalog at first, and is kept by every step.
THEOREM Initially == Init => IInv
<1> SUFFICES ASSUME Init PROVE IInv
  OBVIOUS
<1>1. file \in [Files -> FileType]
  <2>1. NoFile \in FileType
    BY Countable DEF NoFile, FileType
  <2> QED BY <2>1 DEF Init
<1>2. \A states : St(file, states) = IF "none" \in states THEN Files ELSE {}
  BY DEF Init, St, NoFile
<1>3. /\ St(file, Charged) = {} /\ St(file, Writers) = {} /\ St(file, {"stored"}) = {}
      /\ St(file, {"gone"}) = {} /\ St(file, Writers \cup Charged) = {}
  BY <1>2 DEF Charged, Writers
<1>4. Sound(file, disk)
  BY <1>1, SegmentCacheAssumption DEF Init, NoFile, Sound
<1>5. Paid(file, used, reserved)
  <2>1. Sum(Size(file), {}) = 0 /\ Sum(Owed(file), {}) = 0
    BY SumEmpty
  <2>2. used = 0 /\ reserved = 0 /\ 0 + 0 = 0 /\ 0 <= Budget
    BY SegmentCacheAssumption DEF Init
  <2> QED BY <2>1, <2>2, <1>3 DEF Paid
<1>6. Catalogued(file)
  BY <1>3, FS_EmptySet, SegmentCacheAssumption DEF Catalogued
<1>7. Tidy(file, disk)
  <2>1. disk \cap St(file, {"gone"}) = {}
    BY <1>3
  <2>2. Cardinality(disk \cap St(file, {"gone"})) = 0
    BY <2>1, FS_EmptySet
  <2>3. 0 <= MaxLeaks
    BY SegmentCacheAssumption
  <2> QED BY <2>2, <2>3, <1>3 DEF Tidy
<1>8. Pinned(file, lease)
  <2>1. \A f \in Files : Holders(lease, f) = {}
    BY SegmentCacheAssumption DEF Init, Holders
  <2>2. \A f \in Files : Cardinality(Holders(lease, f)) = 0
    BY <2>1, FS_EmptySet
  <2> QED BY <2>2 DEF Init, Pinned, NoFile
<1> QED BY <1>4, <1>5, <1>6, <1>7, <1>8, Countable DEF Good, IInv, Init

\* No critical section of c.mu breaks the invariant.
THEOREM Inductive == IInv /\ [Next]_cacheVars => IInv'
<1> SUFFICES ASSUME IInv, [Next]_cacheVars PROVE IInv'
  OBVIOUS
<1>0. CASE UNCHANGED cacheVars
  BY <1>0 DEF IInv, cacheVars
<1>1. ASSUME NEW k \in Keys, NEW d \in {1, -1}, Protect(k, d),
             wanted[k] + d \in 0..Cardinality(Readers)
      PROVE  IInv'
  BY <1>1 DEF Protect, IInv
<1>2. ASSUME NEW f \in Files, NEW k \in Keys, Begin(f, k) PROVE IInv'
  <2>1. file[f].st = "none" /\ file' = [file EXCEPT ![f].st = "part", ![f].key = k]
        /\ disk' = disk \cup {f} /\ UNCHANGED <<older, wanted, used, reserved, lease>>
    BY <1>2 DEF Begin
  <2>3. Good(file, used, reserved, disk, lease)
    BY DEF IInv
  <2>4. Good([file EXCEPT ![f].st = "part", ![f].key = k], used, reserved, disk \cup {f}, lease)
    BY <2>1, <2>3, Create
  <2>2. Good(file', used', reserved', disk', lease')
    BY <2>1, <2>4
  <2> QED BY <2>1, <2>2 DEF IInv
<1>3. ASSUME NEW f \in Files, NEW m \in 0..file[f].pending, WriteFile(f, m) PROVE IInv'
  <2>1. /\ file[f].st = "part" /\ reserved' = reserved - (file[f].pending - m)
        /\ file' = [file EXCEPT ![f].bytes = @ + m, ![f].pending = 0]
        /\ UNCHANGED <<older, wanted, used, lease, disk>>
    BY <1>3 DEF WriteFile
  <2>3. Good(file, used, reserved, disk, lease)
    BY DEF IInv
  <2>4. Good([file EXCEPT ![f].bytes = @ + m, ![f].pending = 0],
             used, reserved - (file[f].pending - m), disk, lease)
    BY <2>1, <2>3, Fill
  <2>2. Good(file', used', reserved', disk', lease')
    BY <2>1, <2>4
  <2> QED BY <2>1, <2>2 DEF IInv
<1>4. ASSUME NEW f \in Files, Abort(f) PROVE IInv'
  BY <1>4, DiscardStep DEF Abort
<1>5. ASSUME NEW f \in Files, NEW n \in 1..(MaxSize - file[f].bytes), ReserveFails(f, n)
      PROVE  IInv'
  BY <1>5, EvictStep DEF ReserveFails
<1>6. ASSUME NEW f \in Files, CommitFails(f) PROVE IInv'
  BY <1>6, EvictStep DEF CommitFails
<1>7. ASSUME NEW k \in Keys,
             \/ wanted[k] < Cardinality(Readers) /\ Protect(k, 1)
             \/ wanted[k] > 0 /\ Protect(k, -1)
      PROVE  IInv'
  <2>1. wanted[k] \in 0..Cardinality(Readers) /\ Cardinality(Readers) \in Nat
    BY Countable DEF IInv
  <2> QED BY <1>7, <2>1, <1>1
<1> QED BY <1>0, <1>2, <1>3, <1>4, <1>5, <1>6, <1>7, DropStep, OpenStep, CloseStep,
           ReserveStep, CommitStep DEF Next

-----------------------------------------------------------------------------
(* The invariants *)

\* The invariant gives the books (catalog.used, catalog.reserved, the files on the disk).
LEMMA Books == IInv => BooksBalance
<1> SUFFICES ASSUME IInv PROVE BooksBalance
  OBVIOUS
<1>g. Good(file, used, reserved, disk, lease) /\ file \in [Files -> FileType]
  BY DEF IInv, Good, Sound
<1>n. /\ used \in Nat /\ reserved \in Nat /\ used + reserved <= Budget
      /\ {used, reserved} \subseteq 0..Budget
  <2>1. Sum(Size(file), St(file, Charged)) \in Nat
    BY <1>g, Totals
  <2>2. Sum(Size(file), St(file, Writers)) \in Nat
    BY <1>g, Totals
  <2>3. Sum(Owed(file), St(file, Writers)) \in Nat
    BY <1>g, Totals
  <2>4. used \in Nat /\ reserved \in Nat /\ used + reserved <= Budget
    BY <2>1, <2>2, <2>3, <1>g DEF Good, Paid
  <2> QED BY <2>4, SegmentCacheAssumption
<1>1. TypeOK
  <2>1. lease \in [Readers -> Files \cup {Nothing}] /\ disk \subseteq Files
    BY <1>g DEF Good, Pinned, Sound
  <2> QED BY <1>g, <1>n, <2>1 DEF IInv, TypeOK, FileType
<1>2. Accounting
  BY <1>g, <1>n, <1>1, Names DEF Accounting, Good, Paid, Catalogued, Charged, Writers
<1>3. NothingLeftOnDisk
  <2> DEFINE needed == In({"part", "stored"}) \cup {f \in In({"retired"}) : file[f].pins > 0}
  <2>1. needed = St(file, Writers \cup Charged)
    BY <1>g, Names DEF Good, Sound, St, Writers, Charged
  <2>2. disk \ needed = disk \cap St(file, {"gone"})
    BY <2>1, <1>g DEF Good, Sound, St, Writers, Charged, FileType
  <2>3. needed \subseteq disk /\ Cardinality(disk \ needed) <= MaxLeaks
    BY <2>1, <2>2, <1>g DEF Good, Tidy
  <2> QED BY <2>3 DEF NothingLeftOnDisk
<1> QED BY <1>2, <1>3 DEF BooksBalance

\* The invariant gives the readers their files (lease, cacheEntry.pins).
LEMMA Readable == IInv => ReadersKeepTheirFile
<1> SUFFICES ASSUME IInv PROVE ReadersKeepTheirFile
  OBVIOUS
<1>1. Good(file, used, reserved, disk, lease)
  BY DEF IInv
<1>2. \A f \in Files : file[f].pins = Cardinality({r \in Readers : lease[r] = f})
  BY <1>1 DEF Good, Pinned, Holders
<1>3. ASSUME NEW r \in Readers, lease[r] # Nothing
      PROVE  lease[r] \in disk /\ file[lease[r]].st \in {"stored", "retired"}
  <2>1. lease[r] \in Files /\ file[lease[r]].st \in Charged
    BY <1>1, <1>3 DEF Good, Pinned
  <2> QED BY <2>1, <1>1, Present DEF Charged
<1> QED BY <1>2, <1>3 DEF ReadersKeepTheirFile

\* The catalog keeps its invariant for ever.
THEOREM Invariance == Spec => []IInv
<1>1. Init => IInv
  BY Initially
<1>2. IInv /\ [Next]_cacheVars => IInv'
  BY Inductive
<1> QED BY <1>1, <1>2, PTL DEF Spec

\* Whatever writers, readers, ends of jobs and failing removals do, in any order, the
\* catalog charges exactly what is there, keeps to its budget and its number of
\* artifacts, and leaves no file on the disk but those it could not remove
\* (catalog.reserve, cacheWriter.commit, lease.Close, catalog.dropPrefix).
THEOREM BooksAlwaysBalance == Spec => []BooksBalance
BY Invariance, Books, PTL

\* Neither an eviction nor the end of a job takes away a file that is read
\* (catalog.evictOne, catalog.dropPrefix, lease.Close).
THEOREM ReadersAlwaysKeepTheirFile == Spec => []ReadersKeepTheirFile
BY Invariance, Readable, PTL

-----------------------------------------------------------------------------
(* The catalog implements the store *)

\* The store as the files fl and the leases ls show it.
Shown(fl) == {fl[f].key : f \in St(fl, {"stored"})}

\* What the readers have open, and whether it is still listed.
Holding(fl, ls) ==
  [r \in Readers |-> IF ls[r] = Nothing THEN Nothing
                     ELSE [key |-> fl[ls[r]].key, listed |-> fl[ls[r]].st = "stored"]]

\* It is the store of the refinement mapping, now and after a step.
LEMMA Mapping ==
  /\ Shown(file) = {file[f].key : f \in Listed}
  /\ Shown(file') = {file[f].key : f \in Listed}'
  /\ Holding(file, lease) =
       [r \in Readers |->
          IF lease[r] = Nothing THEN Nothing
          ELSE [key |-> file[lease[r]].key, listed |-> file[lease[r]].st = "stored"]]
  /\ Holding(file', lease') =
       [r \in Readers |->
          IF lease[r] = Nothing THEN Nothing
          ELSE [key |-> file[lease[r]].key, listed |-> file[lease[r]].st = "stored"]]'
BY DEF Shown, Holding, St, Listed, In

\* What a step may change on the disk and in the books and not in the store.
LEMMA SameStore ==
  ASSUME IInv, NEW f \in Files, file[f].st \notin Charged, file'[f].st \notin Charged,
         \A g \in Files \ {f} : file'[g] = file[g], UNCHANGED <<wanted, lease>>
  PROVE  Shown(file') = Shown(file) /\ Holding(file', lease') = Holding(file, lease)
<1>1. St(file', {"stored"}) = St(file, {"stored"}) /\ f \notin St(file, {"stored"})
  BY DEF St, Charged
<1>2. \A r \in Readers : lease[r] # Nothing => lease[r] \in Files \ {f}
  BY DEF IInv, Good, Pinned
<1>3. Shown(file') = Shown(file)
  BY <1>1 DEF Shown, St
<1>4. Holding(file', lease') = Holding(file, lease)
  BY <1>2 DEF Holding
<1> QED BY <1>3, <1>4

\* open is Open of the store.
LEMMA StoreOpen ==
  ASSUME IInv, NEW r \in Readers, NEW k \in Keys, OpenEntry(r, k)
  PROVE  Store!Open(r, k)
<1>1. PICK f \in Entry(k) : /\ file' = [file EXCEPT ![f].pins = @ + 1]
                            /\ lease' = [lease EXCEPT ![r] = f]
  BY DEF OpenEntry
<1>2. /\ f \in Files /\ f \in Listed /\ file[f].st = "stored" /\ file[f].key = k
      /\ lease[r] = Nothing /\ UNCHANGED wanted
  BY Names DEF OpenEntry, Entry, St
<1>3. /\ file \in [Files -> FileType] /\ lease \in [Readers -> Files \cup {Nothing}]
      /\ f # Nothing
  BY <1>2, SegmentCacheAssumption DEF IInv, Good, Sound, Pinned
<1>4. \A g \in Files : file'[g].st = file[g].st /\ file'[g].key = file[g].key
  BY <1>1, <1>3 DEF FileType
<1>5. Shown(file') = Shown(file) /\ k \in Shown(file)
  BY <1>2, <1>4, Names DEF Shown, St
<1>6. /\ Holding(file, lease)[r] = Nothing
      /\ Holding(file', lease') = [Holding(file, lease) EXCEPT ![r] = [key |-> k, listed |-> TRUE]]
  BY <1>1, <1>2, <1>3, <1>4 DEF Holding
<1> QED BY <1>2, <1>5, <1>6, Mapping DEF Store!Open

\* lease.Close is Close of the store, whatever it removes from the disk.
LEMMA StoreClose ==
  ASSUME IInv, NEW r \in Readers, CloseLease(r)
  PROVE  Store!Close(r)
<1>1. lease[r] # Nothing /\ lease' = [lease EXCEPT ![r] = Nothing] /\ UNCHANGED wanted
  BY DEF CloseLease
<1>2. /\ file \in [Files -> FileType] /\ lease \in [Readers -> Files \cup {Nothing}]
      /\ \A s \in Readers : lease[s] # Nothing => file[lease[s]].key \in Keys
      /\ \A f \in Files : file[f].st # "none" => file[f].key \in Keys
      /\ lease[r] \in Files
  BY <1>1 DEF IInv, Good, Sound, Pinned, Charged
<1>3. \A g \in Files : /\ file'[g].key = file[g].key
                       /\ file'[g].st = "stored" <=> file[g].st = "stored"
  BY <1>2 DEF CloseLease, FileType
<1>4. Shown(file') = Shown(file)
  BY <1>3 DEF Shown, St
<1>5. Holding(file, lease)[r] # Nothing
  <2>1. Holding(file, lease)[r] \in [key : Keys, listed : BOOLEAN]
    BY <1>1, <1>2 DEF Holding
  <2> QED BY <2>1, SegmentCacheAssumption
<1>6. Holding(file', lease') = [Holding(file, lease) EXCEPT ![r] = Nothing]
  BY <1>1, <1>2, <1>3 DEF Holding
<1> QED BY <1>1, <1>4, <1>5, <1>6, Mapping DEF Store!Close

\* dropPrefix is Drop of the store: what is read is no longer listed, and stays open.
LEMMA StoreDrop ==
  ASSUME IInv, NEW j \in Jobs, DropPrefix(j)
  PROVE  Store!Drop({j})
<1> DEFINE dropped == {f \in Listed : file[f].key[1] = j}
           idle == {f \in dropped : file[f].pins = 0}
<1>1. /\ file' = [f \in Files |-> IF f \in dropped \ idle
                                  THEN [file[f] EXCEPT !.st = "retired"] ELSE Without(idle)[f]]
      /\ UNCHANGED <<wanted, lease>>
  BY DEF DropPrefix
<1>2. /\ file \in [Files -> FileType] /\ lease \in [Readers -> Files \cup {Nothing}]
      /\ \A f \in Files : file[f].st # "none" => file[f].key \in Keys
      /\ \A s \in Readers : lease[s] # Nothing => file[lease[s]].st \in Charged
  BY DEF IInv, Good, Sound, Pinned
<1>3. dropped \in SUBSET Files /\ idle \in SUBSET dropped
      /\ \A f \in Files : f \in dropped <=> file[f].st = "stored" /\ file[f].key[1] = j
  BY Names DEF St
<1> HIDE DEF dropped, idle
<1>4. \A f \in Files : /\ file'[f].key = file[f].key
                       /\ file'[f].st = "stored" <=> file[f].st = "stored" /\ f \notin dropped
  BY <1>1, <1>2, <1>3 DEF Without, FileType
<1>5. Shown(file') = {k \in Shown(file) : k[1] \notin {j}}
  BY <1>3, <1>4 DEF Shown, St
<1>6. Holding(file', lease') =
        [r \in Readers |->
           IF Holding(file, lease)[r] # Nothing /\ Holding(file, lease)[r].key[1] \in {j}
           THEN [Holding(file, lease)[r] EXCEPT !.listed = FALSE] ELSE Holding(file, lease)[r]]
  <2> SUFFICES ASSUME NEW r \in Readers
               PROVE  Holding(file', lease')[r] =
                        IF /\ Holding(file, lease)[r] # Nothing
                           /\ Holding(file, lease)[r].key[1] \in {j}
                        THEN [Holding(file, lease)[r] EXCEPT !.listed = FALSE]
                        ELSE Holding(file, lease)[r]
    BY DEF Holding
  <2>1. CASE lease[r] = Nothing
    BY <2>1, <1>1 DEF Holding
  <2>2. CASE lease[r] # Nothing
    <3> DEFINE f == lease[r]
    <3>1. f \in Files /\ file[f].st \in Charged /\ lease'[r] = f /\ f # Nothing
      BY <2>2, <1>1, <1>2
    <3>2. file[f].key \in Keys
      BY <3>1, <1>2 DEF Charged
    <3> HIDE DEF f
    <3>3. Holding(file, lease)[r] = [key |-> file[f].key, listed |-> file[f].st = "stored"]
      BY <2>2 DEF Holding, f
    <3>4. Holding(file', lease')[r] = [key |-> file'[f].key, listed |-> file'[f].st = "stored"]
      BY <3>1 DEF Holding
    <3>5. Holding(file, lease)[r] # Nothing
      <4>1. Holding(file, lease)[r] \in [key : Keys, listed : BOOLEAN]
        BY <3>2, <3>3
      <4> QED BY <4>1, SegmentCacheAssumption
    <3>6. /\ file'[f].key = file[f].key
          /\ (file'[f].st = "stored") = (file[f].st = "stored" /\ file[f].key[1] # j)
      BY <3>1, <1>3, <1>4
    <3>7. CASE file[f].key[1] = j
      <4>1. (file'[f].st = "stored") = FALSE
        BY <3>6, <3>7
      <4>2. Holding(file', lease')[r] = [key |-> file[f].key, listed |-> FALSE]
        BY <3>4, <3>6, <4>1
      <4>3. Holding(file, lease)[r].key[1] \in {j}
        BY <3>3, <3>7
      <4>4. [Holding(file, lease)[r] EXCEPT !.listed = FALSE] =
              [key |-> file[f].key, listed |-> FALSE]
        <5> DEFINE no == FALSE
        <5> HIDE DEF no
        <5>1. \A a, b : [[key |-> a, listed |-> b] EXCEPT !.listed = no]
                          = [key |-> a, listed |-> no]
          OBVIOUS
        <5>2. [Holding(file, lease)[r] EXCEPT !.listed = no] = [key |-> file[f].key, listed |-> no]
          BY <3>3, <5>1
        <5> QED BY <5>2 DEF no
      <4> QED BY <3>5, <4>2, <4>3, <4>4
    <3>8. CASE file[f].key[1] # j
      <4>1. (file'[f].st = "stored") = (file[f].st = "stored")
        BY <3>6, <3>8
      <4>2. Holding(file', lease')[r] = Holding(file, lease)[r]
        BY <3>3, <3>4, <3>6, <4>1
      <4>3. Holding(file, lease)[r].key[1] \notin {j}
        BY <3>3, <3>8
      <4> QED BY <4>2, <4>3
    <3> QED BY <3>7, <3>8
  <2> QED BY <2>1, <2>2
<1>7. {file[f].key : f \in Listed}' = {k \in {file[f].key : f \in Listed} : k[1] \notin {j}}
  BY <1>5, Mapping
<1> DEFINE held == [r \in Readers |->
                      IF lease[r] = Nothing THEN Nothing
                      ELSE [key |-> file[lease[r]].key, listed |-> file[lease[r]].st = "stored"]]
<1>8. held = Holding(file, lease) /\ held' = Holding(file', lease')
  BY Mapping
<1> HIDE DEF held
<1>9. held' = [r \in Readers |-> IF held[r] # Nothing /\ held[r].key[1] \in {j}
                                 THEN [held[r] EXCEPT !.listed = FALSE] ELSE held[r]]
  BY <1>6, <1>8
<1> QED BY <1>1, <1>7, <1>9 DEF Store!Drop, held

\* An eviction takes nothing that is open.
LEMMA Unread ==
  ASSUME IInv, NEW V \in Victims, NEW r \in Readers
  PROVE  lease[r] \notin V
<1> SUFFICES ASSUME lease[r] \in V PROVE FALSE
  OBVIOUS
<1>1. lease[r] \in Files /\ file[lease[r]].pins = 0
  BY Evicted DEF IInv
<1>2. Cardinality(Holders(lease, lease[r])) = 0
  BY <1>1 DEF IInv, Good, Pinned
<1>3. r \in Holders(lease, lease[r]) /\ IsFiniteSet(Holders(lease, lease[r]))
  <2>1. Holders(lease, lease[r]) \in SUBSET Readers
    BY DEF Holders
  <2>2. IsFiniteSet(Holders(lease, lease[r]))
    BY <2>1, SegmentCacheAssumption, FS_Subset
  <2> QED BY <2>2 DEF Holders
<1> QED BY <1>2, <1>3, FS_EmptySet

\* What evictOne takes, the store may forget: it is neither read nor waited for.
LEMMA StoreIdle ==
  ASSUME IInv, NEW V \in Victims
  PROVE  {file[v].key : v \in V} \in SUBSET Store!Idle
<1> DEFINE entries == {file[f].key : f \in Listed}
           held == [r \in Readers |->
                      IF lease[r] = Nothing THEN Nothing
                      ELSE [key |-> file[lease[r]].key, listed |-> file[lease[r]].st = "stored"]]
<1>1. /\ V \in SUBSET Listed /\ V \in SUBSET Files
      /\ \A v \in V : wanted[file[v].key] = 0
  BY Evicted DEF IInv
<1>2. ASSUME NEW v \in V, NEW r \in Readers,
             held[r] = [key |-> file[v].key, listed |-> TRUE]
      PROVE  FALSE
  <2>1. file[v].key \in Keys /\ file[v].st = "stored"
    BY <1>1, Names DEF IInv, Good, Sound, St
  <2>2. lease[r] # Nothing
    <3>1. [key |-> file[v].key, listed |-> TRUE] \in [key : Keys, listed : BOOLEAN]
      BY <2>1
    <3> QED BY <3>1, <1>2, SegmentCacheAssumption
  <2>3. held[r] = [key |-> file[lease[r]].key, listed |-> file[lease[r]].st = "stored"]
    BY <2>2
  <2> HIDE DEF held
  <2>4. file[lease[r]].key = file[v].key
    BY <1>2, <2>3
  <2>5. file[lease[r]].st = "stored"
    <3>1. held[r].listed = (file[lease[r]].st = "stored")
      BY <2>3
    <3>2. held[r].listed = TRUE
      BY <1>2
    <3> QED BY <3>1, <3>2
  <2>6. lease[r] \in Files
    BY <2>2 DEF IInv, Good, Pinned
  <2>7. lease[r] = v
    BY <1>1, <2>1, <2>4, <2>5, <2>6 DEF IInv, Good, Catalogued, St
  <2> QED BY <2>7, Unread
<1>3. \A v \in V : file[v].key \in entries
  BY <1>1
<1> HIDE DEF entries, held
<1>4. {file[v].key : v \in V} \in
        SUBSET {k \in entries : wanted[k] = 0
                                  /\ \A r \in Readers : held[r] # [key |-> k, listed |-> TRUE]}
  BY <1>1, <1>2, <1>3
<1> QED BY <1>4 DEF Store!Idle, entries, held

\* The store after an eviction.
LEMMA StoreForget ==
  ASSUME IInv, NEW V \in Victims, NEW fl,
         \A g \in Files : fl[g].st = "stored" <=> g \in Listed \ V,
         \A g \in Files \ V : fl[g].key = file[g].key
  PROVE  /\ Shown(fl) = Shown(file) \ {file[v].key : v \in V}
         /\ Holding(fl, lease) = Holding(file, lease)
<1>1. V \in SUBSET St(file, {"stored"}) /\ St(fl, {"stored"}) = St(file, {"stored"}) \ V
  BY Evicted, Names DEF IInv, St
<1>2. \A f, g \in St(file, {"stored"}) : file[f].key = file[g].key => f = g
  BY DEF IInv, Good, Catalogued
<1>3. \A f \in St(fl, {"stored"}) : fl[f].key = file[f].key
  BY <1>1 DEF St
<1>4. Shown(fl) = Shown(file) \ {file[v].key : v \in V}
  BY <1>1, <1>2, <1>3 DEF Shown
<1>5. \A r \in Readers : lease[r] # Nothing => lease[r] \in Files \ V
  BY Unread DEF IInv, Good, Pinned
<1>6. \A r \in Readers : lease[r] # Nothing =>
        /\ fl[lease[r]].key = file[lease[r]].key
        /\ (fl[lease[r]].st = "stored") = (file[lease[r]].st = "stored")
  BY <1>5, Names DEF St
<1>7. Holding(fl, lease) = Holding(file, lease)
  BY <1>6 DEF Holding
<1> QED BY <1>4, <1>7

\* reserve, and a commit that fails, make room: the store forgets.
LEMMA StoreEvict ==
  ASSUME IInv, NEW V \in Victims, UNCHANGED <<wanted, lease>>,
         \A g \in Files : file'[g].st = "stored" <=> Without(V)[g].st = "stored",
         \A g \in Files : file'[g].key = Without(V)[g].key,
         NEW ks, ks = {file[v].key : v \in V}
  PROVE  Store!Forget(ks) /\ ks \in SUBSET Store!Idle
<1>1. \A g \in Files : /\ file'[g].st = "stored" <=> g \in Listed \ V
                       /\ g \notin V => file'[g].key = file[g].key
  <2>1. /\ \A g \in Files : g \notin V => Without(V)[g] = file[g]
        /\ St(Without(V), {"stored"}) = Listed \ V
    BY Evicted DEF IInv
  <2>2. \A g \in Files : Without(V)[g].st = "stored" <=> g \in St(Without(V), {"stored"})
    BY DEF St
  <2> QED BY <2>1, <2>2
<1>2. /\ Shown(file') = Shown(file) \ {file[v].key : v \in V}
      /\ Holding(file', lease) = Holding(file, lease)
  BY <1>1, StoreForget
<1>3. ks \in SUBSET Store!Idle
  BY StoreIdle
<1>4. /\ {file[f].key : f \in Listed}' = {file[f].key : f \in Listed} \ ks
      /\ Holding(file', lease') = Holding(file, lease)
  BY <1>2, Mapping
<1>5. Store!Forget(ks)
  BY <1>3, <1>4, Mapping DEF Store!Forget
<1> QED BY <1>3, <1>5

\* commit publishes a segment: the store gets it, and forgets what made room for it.
LEMMA StorePut ==
  ASSUME IInv, NEW f \in Files, file[f].st = "part", ~Has(file[f].key), NEW V \in Victims,
         Publish(f, V), UNCHANGED <<wanted, lease>>,
         NEW k, k = file[f].key, NEW ks, ks = {file[v].key : v \in V}
  PROVE  Store!Put(k, ks) /\ ks \in SUBSET Store!Idle
<1> DEFINE fl == Without(V)
<1>1. file' = [fl EXCEPT ![f].st = "stored"]
  BY DEF Publish
<1>2. /\ V \in SUBSET Listed /\ V \in SUBSET Files
      /\ \A g \in Files : g \notin V => fl[g] = file[g]
      /\ St(fl, {"stored"}) = Listed \ V
      /\ Good(fl, used - Bytes(V), reserved, disk \ V, lease)
  BY Evicted DEF IInv
<1>3. f \notin V /\ f \notin Listed /\ fl \in [Files -> FileType]
  BY <1>2, Names DEF St, Good, Sound
<1>4. k \notin Shown(file) /\ ks \in SUBSET Shown(file)
  BY <1>2, Names DEF Has, Entry, Shown, St
<1> HIDE DEF fl
<1>5. /\ \A g \in Files : fl[g].st = "stored" <=> g \in Listed \ V
      /\ \A g \in Files \ V : fl[g].key = file[g].key
  BY <1>2 DEF St
<1>6. Shown(fl) = Shown(file) \ ks /\ Holding(fl, lease) = Holding(file, lease)
  BY <1>5, StoreForget
<1>7. /\ file'[f].st = "stored" /\ file'[f].key = k
      /\ \A g \in Files \ {f} : file'[g] = fl[g]
  BY <1>1, <1>2, <1>3 DEF FileType
<1>8. Shown(file') = (Shown(file) \ ks) \cup {k}
  <2>1. St(file', {"stored"}) = St(fl, {"stored"}) \cup {f} /\ f \notin St(fl, {"stored"})
    BY <1>2, <1>3, <1>7 DEF St
  <2>2. Shown(file') = Shown(fl) \cup {k}
    BY <2>1, <1>7 DEF Shown, St
  <2> QED BY <2>2, <1>6
<1>9. Holding(file', lease') = Holding(file, lease)
  <2>1. \A r \in Readers : lease[r] # Nothing => lease[r] \in Files \ {f}
    BY DEF IInv, Good, Pinned, Charged
  <2>2. Holding(file', lease) = Holding(fl, lease)
    BY <2>1, <1>7 DEF Holding
  <2> QED BY <2>2, <1>6
<1>a. ks \in SUBSET Store!Idle
  BY StoreIdle
<1>b. ks \subseteq Store!Idle \ {k}
  BY <1>4, <1>a
<1>c. Store!Put(k, ks)
  BY <1>8, <1>9, <1>b, Mapping DEF Store!Put
<1> QED BY <1>a, <1>c

\* What happens to a file that is not published does not show in the store.
LEMMA StoreSame ==
  ASSUME IInv, NEW f \in Files, file[f].st \notin Charged, file'[f].st \notin Charged,
         \A g \in Files \ {f} : file'[g] = file[g], UNCHANGED <<wanted, lease>>
  PROVE  UNCHANGED Store!storeVars
BY SameStore, Mapping DEF Store!storeVars

\* A commit publishes the segment, or finds that it already was.
LEMMA StoreCommit ==
  ASSUME IInv, NEW f \in Files, Commit(f)
  PROVE  [Store!Next]_(Store!storeVars)
<1>1. file[f].st = "part" /\ UNCHANGED <<wanted, lease>> /\ file \in [Files -> FileType]
      /\ file[f].key \in Keys
  BY DEF Commit, IInv, Good, Sound
<1>2. CASE Has(file[f].key)
  <2>1. file' = [file EXCEPT ![f].st = "gone"]
    BY <1>2 DEF Commit
  <2>2. file'[f].st = "gone" /\ \A g \in Files \ {f} : file'[g] = file[g]
    BY <2>1, <1>1 DEF FileType
  <2>3. UNCHANGED Store!storeVars
    BY <2>2, <1>1, StoreSame DEF Charged
  <2> QED BY <2>3
<1>3. CASE ~Has(file[f].key)
  <2>1. PICK V \in Victims : Publish(f, V)
    BY <1>3 DEF Commit
  <2>2. PICK k, ks : k = file[f].key /\ ks = {file[v].key : v \in V}
    OBVIOUS
  <2>3. Store!Put(k, ks) /\ ks \in SUBSET Store!Idle
    BY <1>1, <1>3, <2>1, <2>2, StorePut
  <2>4. k \in Store!Keys
    BY <1>1, <2>2 DEF Keys, Store!Keys
  <2>5. \E key \in Store!Keys : \E es \in SUBSET Store!Idle : Store!Put(key, es)
    BY <2>3, <2>4, Zenon
  <2> QED BY <2>5, Zenon DEF Store!Next
<1> QED BY <1>2, <1>3

\* reserve, which may fail, and a commit that fails evict what they evict.
LEMMA StoreMakesRoom ==
  ASSUME IInv, NEW f \in Files,
         \/ \E n \in 1..(MaxSize - file[f].bytes) : Reserve(f, n) \/ ReserveFails(f, n)
         \/ CommitFails(f)
  PROVE  Store!Next
<1>1. ASSUME NEW V \in Victims, UNCHANGED <<wanted, lease>>,
             \A g \in Files : file'[g].st = "stored" <=> Without(V)[g].st = "stored",
             \A g \in Files : file'[g].key = Without(V)[g].key
      PROVE  Store!Next
  <2>1. PICK ks : ks = {file[v].key : v \in V}
    OBVIOUS
  <2>2. Store!Forget(ks) /\ ks \in SUBSET Store!Idle
    BY <1>1, <2>1, StoreEvict
  <2>3. \E es \in SUBSET Store!Idle : Store!Forget(es)
    BY <2>2, Zenon
  <2> QED BY <2>3, Zenon DEF Store!Next
<1>2. ASSUME NEW n \in 1..(MaxSize - file[f].bytes), Reserve(f, n)
      PROVE  Store!Next
  <2>1. PICK V \in Victims : file' = [Without(V) EXCEPT ![f].pending = n]
    BY <1>2 DEF Reserve
  <2>2. Without(V) \in [Files -> FileType] /\ UNCHANGED <<wanted, lease>>
    BY <1>2, Evicted DEF IInv, Good, Sound, Reserve
  <2>3. \A g \in Files : file'[g].st = Without(V)[g].st /\ file'[g].key = Without(V)[g].key
    BY <2>1, <2>2 DEF FileType
  <2> QED BY <2>2, <2>3, <1>1
<1>3. ASSUME NEW n \in 1..(MaxSize - file[f].bytes), ReserveFails(f, n)
      PROVE  Store!Next
  BY <1>1, <1>3 DEF ReserveFails
<1>4. ASSUME CommitFails(f)
      PROVE  Store!Next
  BY <1>1, <1>4 DEF CommitFails
<1> QED BY <1>2, <1>3, <1>4

\* Every step of the catalog is a step of the store, or none.
LEMMA StoreStep ==
  ASSUME IInv, Next
  PROVE  [Store!Next]_(Store!storeVars)
<1>0. Store!Keys = Keys /\ file \in [Files -> FileType]
  BY DEF Keys, Store!Keys, IInv, Good, Sound
<1>1. ASSUME NEW k \in Keys, NEW d, Protect(k, d)
      PROVE  Store!Protect(k, d)
  BY <1>1 DEF Protect, Store!Protect, Listed, In
<1>2. ASSUME NEW k \in Keys, wanted[k] < Cardinality(Readers), Protect(k, 1)
      PROVE  Store!Next
  BY <1>0, <1>1, <1>2 DEF Store!Next
<1>3. ASSUME NEW k \in Keys, wanted[k] > 0, Protect(k, -1)
      PROVE  Store!Next
  BY <1>0, <1>1, <1>3 DEF Store!Next
<1>4. ASSUME NEW k \in Keys, NEW r \in Readers, OpenEntry(r, k)
      PROVE  Store!Next
  BY <1>0, <1>4, StoreOpen DEF Store!Next
<1>5. ASSUME NEW k \in Keys, NEW f \in Files, Begin(f, k)
      PROVE  UNCHANGED Store!storeVars
  <2>1. /\ file[f].st = "none" /\ file'[f].st = "part" /\ UNCHANGED <<wanted, lease>>
        /\ \A g \in Files \ {f} : file'[g] = file[g]
    BY <1>0, <1>5 DEF Begin, FileType
  <2> QED BY <2>1, StoreSame DEF Charged
<1>6. ASSUME NEW r \in Readers, CloseLease(r)
      PROVE  Store!Next
  BY <1>6, StoreClose DEF Store!Next
<1>7. ASSUME NEW j \in Jobs, DropPrefix(j)
      PROVE  Store!Next
  BY <1>7, StoreDrop DEF Store!Next
<1>8. ASSUME NEW f \in Files, NEW m \in 0..file[f].pending, WriteFile(f, m)
      PROVE  UNCHANGED Store!storeVars
  <2>1. /\ file[f].st = "part" /\ file'[f].st = "part" /\ UNCHANGED <<wanted, lease>>
        /\ \A g \in Files \ {f} : file'[g] = file[g]
    BY <1>0, <1>8 DEF WriteFile, FileType
  <2> QED BY <2>1, StoreSame DEF Charged
<1>9. ASSUME NEW f \in Files, Abort(f)
      PROVE  UNCHANGED Store!storeVars
  <2>1. /\ file[f].st = "part" /\ file'[f].st = "gone" /\ UNCHANGED <<wanted, lease>>
        /\ \A g \in Files \ {f} : file'[g] = file[g]
    BY <1>0, <1>9 DEF Abort, FileType
  <2> QED BY <2>1, StoreSame DEF Charged
<1> QED BY <1>2, <1>3, <1>4, <1>5, <1>6, <1>7, <1>8, <1>9, StoreMakesRoom, StoreCommit DEF Next

\* The catalog is the store the manager of the jobs relies on: whatever it evicts,
\* retires, publishes or fails to write, it takes away nothing that is read or waited
\* for, and shows a segment only when it is complete (catalog.open, catalog.evictOne,
\* catalog.dropPrefix, cacheWriter.commit).
THEOREM Refinement == Spec => StoreSpec
<1>1. Init => Store!Init
  BY DEF Init, Store!Init, Listed, In, NoFile, Keys, Store!Keys
<1>2. IInv /\ [Next]_cacheVars => [Store!Next]_(Store!storeVars)
  <2>1. ASSUME UNCHANGED cacheVars
        PROVE  UNCHANGED Store!storeVars
    BY <2>1 DEF cacheVars, Store!storeVars, Listed, In
  <2> QED BY <2>1, StoreStep
<1> QED BY <1>1, <1>2, Invariance, PTL DEF Spec, StoreSpec, Store!Spec
===============================================================================
