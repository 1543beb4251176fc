--------------------------------- MODULE Sums ---------------------------------
(***************************************************************************)
(* Sums of numbers over finite sets, SumFunctionOnSet of the community     *)
(* modules, and the induction its laws need.  The catalogs of segments and *)
(* of ranges charge bytes file by file; these are the facts about their    *)
(* charges that do not depend on the catalog.                              *)
(*                                                                         *)
(* An induction theorem over a predicate cannot be instantiated by the     *)
(* provers; a least counterexample can (WFMin), so what is to be shown by  *)
(* induction is stated as membership in a set.                             *)
(***************************************************************************)
EXTENDS Functions, FiniteSetTheorems, TLAPS

Sum(f, S) == SumFunctionOnSet(f, S)

-----------------------------------------------------------------------------
(* Induction *)

\* A set of numbers with zero and with the successor of each of its members is
\* all of them.
LEMMA NatMembers ==
  ASSUME NEW G \in SUBSET Nat, 0 \in G, \A n \in G : n + 1 \in G
  PROVE  G = Nat
<1> DEFINE T == Nat \ G
<1>1. SUFFICES ASSUME T # {} PROVE FALSE
  OBVIOUS
<1>2. \E x \in T : \A y \in T : ~ (<<y, x>> \in OpToRel(<, Nat))
  <2>1. T \subseteq Nat
    OBVIOUS
  <2> HIDE DEF T
  <2> QED BY <1>1, <2>1, NatLessThanWellFounded, WFMin
<1>3. PICK x \in T : \A y \in T : ~ (<<y, x>> \in OpToRel(<, Nat))
  BY <1>2
<1>4. x \in Nat /\ x \notin G /\ x # 0
  OBVIOUS
<1>5. x - 1 \in Nat /\ x - 1 \notin G
  BY <1>4
<1>6. <<x - 1, x>> \in OpToRel(<, Nat)
  BY <1>4, <1>5 DEF OpToRel
<1> QED BY <1>3, <1>5, <1>6

\* A non-empty set of finite sets has a least one.
LEMMA LeastSet ==
  ASSUME NEW U, IsFiniteSet(U), NEW B \in SUBSET (SUBSET U), B # {}
  PROVE  \E T \in B : \A x \in T : T \ {x} \notin B
<1>1. B \subseteq FiniteSubsetsOf(U)
  BY FS_FiniteSubsetsOfFinite
<1>2. \E T \in B : \A S \in B : ~ (<<S, T>> \in StrictSubsetOrdering(U))
  BY <1>1, FS_StrictSubsetOrderingWellFounded, WFMin
<1>3. PICK T \in B : \A S \in B : ~ (<<S, T>> \in StrictSubsetOrdering(U))
  BY <1>2
<1>4. \A x \in T : <<T \ {x}, T>> \in StrictSubsetOrdering(U)
  BY DEF StrictSubsetOrdering
<1> QED BY <1>3, <1>4

\* What holds of the empty set, and with a set of that set and one more, holds of
\* every finite set.
LEMMA SetMembers ==
  ASSUME NEW U, IsFiniteSet(U), NEW G \in SUBSET (SUBSET U), {} \in G,
         \A T \in G, x \in U : x \notin T => T \cup {x} \in G
  PROVE  G = SUBSET U
<1> DEFINE B == (SUBSET U) \ G
<1>1. SUFFICES ASSUME B # {} PROVE FALSE
  OBVIOUS
<1>2. PICK T \in B : \A x \in T : T \ {x} \notin B
  <2>1. B \in SUBSET (SUBSET U)
    OBVIOUS
  <2> HIDE DEF B
  <2> QED BY <1>1, <2>1, LeastSet
<1>3. T # {} /\ T \subseteq U
  OBVIOUS
<1>4. PICK x \in T : TRUE
  BY <1>3
<1>5. T \ {x} \in G
  BY <1>2, <1>3
<1>6. (T \ {x}) \cup {x} = T
  OBVIOUS
<1>7. (T \ {x}) \cup {x} \in G
  BY <1>3, <1>5
<1> QED BY <1>6, <1>7

-----------------------------------------------------------------------------
(* The recursion of the sum *)

Pick(s) == CHOOSE x \in s : TRUE

\* Sums over the members of D, a set of sets.
IsSum(g, f, D) ==
  g = [s \in D |-> IF s = {} THEN 0 ELSE f[Pick(s)] + g[s \ {Pick(s)}]]

\* The element a sum takes first is one of the set's.
LEMMA PickIn == ASSUME NEW s, s # {} PROVE Pick(s) \in s
BY DEF Pick

\* A sum is the value of the one function that satisfies its recursion.
LEMMA SumIs == ASSUME NEW f, NEW S
               PROVE Sum(f, S) = (CHOOSE g : IsSum(g, f, SUBSET S))[S]
BY DEF Sum, SumFunctionOnSet, FoldFunctionOnSet, MapThenFoldSet, IsSum, Pick

\* There is such a function: it is built up by the size of the sets.
LEMMA SumExists ==
  ASSUME NEW S, IsFiniteSet(S), NEW f
  PROVE  \E g : IsSum(g, f, SUBSET S)
<1> DEFINE Small(n) == {s \in SUBSET S : Cardinality(s) <= n}
           G == {n \in Nat : \E g : IsSum(g, f, Small(n))}
<1>0. \A s \in SUBSET S : IsFiniteSet(s) /\ Cardinality(s) \in Nat
                          /\ (Cardinality(s) = 0 <=> s = {})
  BY FS_Subset, FS_CardinalityType, FS_EmptySet
<1>p. \A s \in SUBSET S : s # {} =>
        /\ Pick(s) \in s /\ s \ {Pick(s)} \in SUBSET S
        /\ Cardinality(s \ {Pick(s)}) = Cardinality(s) - 1
  BY <1>0, PickIn, FS_RemoveElement
<1>1. 0 \in G
  <2> DEFINE g == [s \in Small(0) |-> 0]
  <2>1. \A s \in Small(0) : s = {}
    BY <1>0
  <2>2. IsSum(g, f, Small(0))
    BY <2>1 DEF IsSum
  <2> QED BY <2>2
<1>2. ASSUME NEW n \in G PROVE n + 1 \in G
  <2>1. PICK h : IsSum(h, f, Small(n))
    BY <1>2
  <2> DEFINE g == [s \in Small(n + 1) |->
                     IF Cardinality(s) <= n THEN h[s]
                     ELSE f[Pick(s)] + h[s \ {Pick(s)}]]
  <2>2. ASSUME NEW s \in Small(n + 1)
        PROVE  g[s] = IF s = {} THEN 0 ELSE f[Pick(s)] + g[s \ {Pick(s)}]
    <3>1. CASE s = {}
      <4>1. Cardinality(s) <= n /\ s \in Small(n)
        BY <3>1, <1>0, <1>2
      <4> QED BY <3>1, <4>1, <2>1 DEF IsSum
    <3>2. CASE s # {}
      <4> DEFINE t == s \ {Pick(s)}
      <4>1. t \in SUBSET S /\ Cardinality(t) = Cardinality(s) - 1
        BY <3>2, <1>p
      <4>2. t \in Small(n) /\ t \in Small(n + 1) /\ Cardinality(t) <= n
        BY <4>1, <1>0, <1>2
      <4>3. g[t] = h[t]
        BY <4>2
      <4>4. CASE Cardinality(s) <= n
        <5>1. s \in Small(n)
          BY <4>4
        <5>2. h[s] = f[Pick(s)] + h[t]
          BY <5>1, <3>2, <2>1 DEF IsSum
        <5> QED BY <5>2, <4>3, <4>4, <3>2
      <4>5. CASE ~(Cardinality(s) <= n)
        BY <4>3, <4>5, <3>2
      <4> QED BY <4>4, <4>5
    <3> QED BY <3>1, <3>2
  <2>3. IsSum(g, f, Small(n + 1))
    BY <2>2 DEF IsSum
  <2> QED BY <2>3, <1>2
<1>3. G = Nat
  <2>1. G \in SUBSET Nat
    OBVIOUS
  <2> HIDE DEF G
  <2> QED BY <1>1, <1>2, <2>1, NatMembers
<1>4. Cardinality(S) \in Nat
  BY <1>0
<1>5. Small(Cardinality(S)) = SUBSET S
  BY FS_Subset
<1>6. \E g : IsSum(g, f, Small(Cardinality(S)))
  BY <1>3, <1>4
<1> QED BY <1>5, <1>6

\* A sum is that of one element and of the rest.
LEMMA SumStep ==
  ASSUME NEW S, IsFiniteSet(S), NEW f
  PROVE  Sum(f, S) = IF S = {} THEN 0 ELSE f[Pick(S)] + Sum(f, S \ {Pick(S)})
<1> DEFINE g == CHOOSE g : IsSum(g, f, SUBSET S)
<1>1. IsSum(g, f, SUBSET S)
  BY SumExists
<1>2. Sum(f, S) = g[S]
  BY SumIs
<1>3. CASE S = {}
  BY <1>1, <1>2, <1>3 DEF IsSum
<1>4. CASE S # {}
  <2> DEFINE T == S \ {Pick(S)}
             h == CHOOSE h : IsSum(h, f, SUBSET T)
             B == {s \in SUBSET T : g[s] # h[s]}
  <2>0. IsFiniteSet(T)
    BY FS_Subset
  <2>1. IsSum(h, f, SUBSET T) /\ Sum(f, T) = h[T]
    BY <2>0, SumExists, SumIs
  <2> HIDE DEF g, h
  <2>2. B = {}
    <3> SUFFICES ASSUME B # {} PROVE FALSE
      OBVIOUS
    <3>1. B \in SUBSET (SUBSET T)
      OBVIOUS
    <3>2. PICK s \in B : \A x \in s : s \ {x} \notin B
      <4> HIDE DEF B
      <4> QED BY <2>0, <3>1, LeastSet
    <3>3. s \in SUBSET T /\ s \in SUBSET S /\ g[s] # h[s]
      OBVIOUS
    <3>4. s # {}
      BY <1>1, <2>1, <3>3 DEF IsSum
    <3>5. Pick(s) \in s
      BY <3>4, PickIn
    <3>6. g[s \ {Pick(s)}] = h[s \ {Pick(s)}]
      BY <3>2, <3>3, <3>5
    <3> QED BY ZenonT(60), <1>1, <2>1, <3>3, <3>4, <3>6 DEF IsSum
  <2>3. g[T] = h[T]
    BY <2>2
  <2>4. g[S] = f[Pick(S)] + g[T]
    BY <1>1, <1>4 DEF IsSum
  <2> QED BY <1>2, <1>4, <2>1, <2>3, <2>4
<1> QED BY <1>3, <1>4

-----------------------------------------------------------------------------
(* The laws *)

\* A sum of integers is one, and each element counts once, whichever is taken first.
LEMMA SumAdd ==
  ASSUME NEW U, IsFiniteSet(U), NEW f \in [U -> Int],
         NEW S \in SUBSET U
  PROVE  /\ Sum(f, S) \in Int
         /\ \A x \in U \ S : Sum(f, S \cup {x}) = Sum(f, S) + f[x]
<1> DEFINE Right(T) == /\ Sum(f, T) \in Int
                       /\ \A x \in U \ T : Sum(f, T \cup {x}) = Sum(f, T) + f[x]
           B == {T \in SUBSET U : ~Right(T)}
<1> SUFFICES ASSUME B # {} PROVE FALSE
  OBVIOUS
<1>1. PICK T \in B : \A x \in T : T \ {x} \notin B
  <2>1. B \in SUBSET (SUBSET U)
    OBVIOUS
  <2> HIDE DEF B
  <2> QED BY <2>1, LeastSet
<1>2. T \in SUBSET U /\ ~Right(T)
  OBVIOUS
<1>3. \A x \in T : Right(T \ {x})
  BY <1>1
<1> HIDE DEF B
<1>f. IsFiniteSet(T) /\ \A x \in U : IsFiniteSet(T \cup {x})
  BY <1>2, FS_Subset
<1>4. Sum(f, T) \in Int
  <2>1. CASE T = {}
    BY <2>1, <1>f, SumStep
  <2>2. CASE T # {}
    <3>1. Pick(T) \in T /\ f[Pick(T)] \in Int
      BY <2>2, <1>2, PickIn
    <3>2. Sum(f, T) = f[Pick(T)] + Sum(f, T \ {Pick(T)})
      BY <2>2, <1>f, SumStep
    <3>3. Sum(f, T \ {Pick(T)}) \in Int
      BY <3>1, <1>3
    <3> QED BY <3>1, <3>2, <3>3
  <2> QED BY <2>1, <2>2
<1>5. ASSUME NEW x \in U \ T PROVE Sum(f, T \cup {x}) = Sum(f, T) + f[x]
  <2> DEFINE S1 == T \cup {x}
             y == Pick(S1)
  <2>1. y \in S1 /\ y \in U
    BY <1>2, PickIn
  <2>2. Sum(f, S1) = f[y] + Sum(f, S1 \ {y})
    <3>1. S1 # {} /\ IsFiniteSet(S1)
      BY <1>f
    <3> QED BY <3>1, SumStep
  <2> HIDE DEF y
  <2>3. CASE y = x
    <3>1. S1 \ {y} = T
      BY <2>3, <1>5
    <3>2. f[x] \in Int
      OBVIOUS
    <3>3. Sum(f, S1) = f[x] + Sum(f, T)
      BY <3>1, <2>2, <2>3
    <3> HIDE DEF S1
    <3>4. Sum(f, S1) = Sum(f, T) + f[x]
      BY <3>2, <3>3, <1>4
    <3> QED BY <3>4 DEF S1
  <2>4. CASE y # x
    <3> DEFINE R == T \ {y}
    <3>1. y \in T /\ Right(R)
      BY <2>4, <2>1, <1>3
    <3>2. S1 \ {y} = R \cup {x} /\ R \cup {y} = T /\ x \in U \ R /\ y \in U \ R
      BY <2>4, <2>1, <3>1, <1>5
    <3>3. Sum(f, R \cup {x}) = Sum(f, R) + f[x] /\ Sum(f, R \cup {y}) = Sum(f, R) + f[y]
          /\ Sum(f, R) \in Int
      BY <3>1, <3>2
    <3>4. f[x] \in Int /\ f[y] \in Int
      BY <2>1
    <3>5. /\ Sum(f, S1) = f[y] + Sum(f, R \cup {x})
          /\ Sum(f, T) = Sum(f, R) + f[y]
      BY <3>2, <3>3, <2>2
    <3> HIDE DEF S1, R
    <3>6. Sum(f, S1) = Sum(f, T) + f[x]
      BY <3>3, <3>4, <3>5
    <3> QED BY <3>6 DEF S1
  <2> QED BY <2>3, <2>4
<1> QED BY <1>2, <1>4, <1>5

\* The second half of SumAdd, for one element.
LEMMA SumInsert ==
  ASSUME NEW U, IsFiniteSet(U), NEW f \in [U -> Int], NEW S \in SUBSET U,
         NEW x \in U, x \notin S
  PROVE  Sum(f, S \cup {x}) = Sum(f, S) + f[x]
BY SumAdd

\* There is nothing in the sum over nothing.
LEMMA SumEmpty == ASSUME NEW f PROVE Sum(f, {}) = 0
BY SumStep, FS_EmptySet

\* Of natural numbers it is one.
LEMMA SumType ==
  ASSUME NEW U, IsFiniteSet(U), NEW f \in [U -> Nat], NEW S \in SUBSET U
  PROVE  Sum(f, S) \in Nat
<1> DEFINE G == {T \in SUBSET U : Sum(f, T) \in Nat}
<1>0. f \in [U -> Int]
  OBVIOUS
<1>1. {} \in G
  BY SumEmpty
<1>2. \A T \in G, x \in U : x \notin T => T \cup {x} \in G
  BY <1>0, SumAdd
<1>3. G = SUBSET U
  <2>1. G \in SUBSET (SUBSET U)
    OBVIOUS
  <2> HIDE DEF G
  <2> QED BY <1>1, <1>2, <2>1, SetMembers
<1> QED BY <1>3

\* Only the values on the set matter.
LEMMA SumSame ==
  ASSUME NEW U, IsFiniteSet(U), NEW f \in [U -> Int], NEW g \in [U -> Int],
         NEW S \in SUBSET U, \A x \in S : f[x] = g[x]
  PROVE  Sum(f, S) = Sum(g, S)
<1> DEFINE G == {T \in SUBSET S : Sum(f, T) = Sum(g, T)}
<1>0. IsFiniteSet(S)
  BY FS_Subset
<1>1. {} \in G
  BY SumEmpty
<1>2. ASSUME NEW T \in G, NEW x \in S, x \notin T PROVE T \cup {x} \in G
  <2>1. T \in SUBSET U /\ x \in U \ T
    BY <1>2
  <2>2. Sum(f, T \cup {x}) = Sum(f, T) + f[x] /\ Sum(g, T \cup {x}) = Sum(g, T) + g[x]
    BY <2>1, SumAdd
  <2> QED BY <2>2
<1>3. G = SUBSET S
  <2>1. G \in SUBSET (SUBSET S)
    OBVIOUS
  <2> HIDE DEF G
  <2> QED BY <1>0, <1>1, <1>2, <2>1, SetMembers
<1> QED BY <1>3

\* The sum over two sets that have nothing in common.
LEMMA SumUnion ==
  ASSUME NEW U, IsFiniteSet(U), NEW f \in [U -> Int],
         NEW S \in SUBSET U, NEW R \in SUBSET U, S \cap R = {}
  PROVE  Sum(f, S \cup R) = Sum(f, S) + Sum(f, R)
<1> DEFINE G == {T \in SUBSET R : Sum(f, S \cup T) = Sum(f, S) + Sum(f, T)}
<1>0. IsFiniteSet(R)
  BY FS_Subset
<1>1. {} \in G
  <2>1. S \cup {} = S /\ Sum(f, S) \in Int
    BY SumAdd
  <2> QED BY <2>1, SumEmpty
<1>2. ASSUME NEW T \in G, NEW x \in R, x \notin T PROVE T \cup {x} \in G
  <2>1. T \in SUBSET U /\ S \cup T \in SUBSET U /\ x \in U \ T /\ x \in U \ (S \cup T)
        /\ Sum(f, S \cup T) = Sum(f, S) + Sum(f, T)
    BY <1>2
  <2>2. Sum(f, T \cup {x}) = Sum(f, T) + f[x] /\ Sum(f, T) \in Int
    BY <2>1, SumAdd
  <2>3. Sum(f, (S \cup T) \cup {x}) = Sum(f, S \cup T) + f[x]
    <3> DEFINE W == S \cup T
    <3>1. W \in SUBSET U /\ x \in U /\ x \notin W
      BY <2>1
    <3> HIDE DEF W
    <3>2. Sum(f, W \cup {x}) = Sum(f, W) + f[x]
      BY <3>1, SumInsert
    <3> QED BY <3>2 DEF W
  <2>4. Sum(f, S) \in Int /\ f[x] \in Int
    BY <2>1, SumAdd
  <2>5. Sum(f, (S \cup T) \cup {x}) = Sum(f, S) + Sum(f, T \cup {x})
    BY <2>1, <2>2, <2>3, <2>4
  <2>6. (S \cup T) \cup {x} = S \cup (T \cup {x}) /\ T \cup {x} \in SUBSET R
    BY <1>2
  <2> QED BY <2>5, <2>6
<1>3. G = SUBSET R
  <2>1. G \in SUBSET (SUBSET R)
    OBVIOUS
  <2> HIDE DEF G
  <2> QED BY <1>0, <1>1, <1>2, <2>1, SetMembers
<1> QED BY <1>3

\* What is taken away is taken off.
LEMMA SumDifference ==
  ASSUME NEW U, IsFiniteSet(U), NEW f \in [U -> Int],
         NEW S \in SUBSET U, NEW R \in SUBSET S
  PROVE  Sum(f, S \ R) = Sum(f, S) - Sum(f, R)
<1>1. (S \ R) \cup R = S /\ (S \ R) \cap R = {} /\ S \ R \in SUBSET U /\ R \in SUBSET U
  OBVIOUS
<1>2. Sum(f, (S \ R) \cup R) = Sum(f, S \ R) + Sum(f, R)
  BY <1>1, SumUnion
<1>3. Sum(f, S \ R) \in Int /\ Sum(f, R) \in Int
  BY <1>1, SumAdd
<1>4. Sum(f, S) = Sum(f, S \ R) + Sum(f, R)
  BY <1>1, <1>2
<1> QED BY <1>3, <1>4

\* The sum over one element is its value.
LEMMA SumSingleton ==
  ASSUME NEW U, IsFiniteSet(U), NEW f \in [U -> Int], NEW x \in U
  PROVE  Sum(f, {x}) = f[x]
<1>1. {} \cup {x} = {x} /\ {} \in SUBSET U /\ x \in U \ {}
  OBVIOUS
<1>2. Sum(f, {x}) = Sum(f, {}) + f[x]
  <2> DEFINE E == {}
  <2>1. E \in SUBSET U /\ x \notin E
    OBVIOUS
  <2> HIDE DEF E
  <2>2. Sum(f, E \cup {x}) = Sum(f, E) + f[x]
    BY <2>1, SumInsert
  <2> QED BY <2>2, <1>1 DEF E
<1> QED BY <1>2, SumEmpty

\* What x adds to the sum over S.
Term(f, S, x) == IF x \in S THEN f[x] ELSE 0

\* The sum a becomes b when p is taken off it and q is added.  (A name for the
\* arithmetic: the provers instantiate a law better without it.)
Moves(a, b, p, q) == b = a - p + q

\* One element changes its value, enters or leaves.
LEMMA SumChange ==
  ASSUME NEW U, IsFiniteSet(U), NEW f \in [U -> Int], NEW g \in [U -> Int], NEW x \in U,
         NEW S \in SUBSET U, NEW T \in SUBSET U, S \ {x} = T \ {x},
         \A y \in S \ {x} : f[y] = g[y]
  PROVE  Moves(Sum(f, S), Sum(g, T), Term(f, S, x), Term(g, T, x))
<1> DEFINE R == S \ {x}
<1>1. /\ R \in SUBSET U /\ x \notin R
      /\ (x \in S => R \cup {x} = S) /\ (x \notin S => R = S)
      /\ (x \in T => R \cup {x} = T) /\ (x \notin T => R = T)
  OBVIOUS
<1>2. \A y \in R : f[y] = g[y]
  OBVIOUS
<1> HIDE DEF R
<1>3. Sum(f, R) = Sum(g, R)
  BY <1>1, <1>2, SumSame
<1>4. Sum(f, R \cup {x}) = Sum(f, R) + f[x]
  BY <1>1, SumInsert
<1>5. Sum(g, R \cup {x}) = Sum(g, R) + g[x]
  BY <1>1, SumInsert
<1>6. Sum(f, R) \in Int /\ f[x] \in Int /\ g[x] \in Int
  BY <1>1, SumAdd
<1>7. Sum(f, S) = Sum(f, R) + Term(f, S, x)
  <2>1. CASE x \in S
    BY <2>1, <1>1, <1>4 DEF Term
  <2>2. CASE x \notin S
    BY <2>2, <1>1, <1>6 DEF Term
  <2> QED BY <2>1, <2>2
<1>9. Sum(g, T) = Sum(f, R) + Term(g, T, x)
  <2>1. CASE x \in T
    BY <2>1, <1>1, <1>3, <1>5 DEF Term
  <2>2. CASE x \notin T
    BY <2>2, <1>1, <1>3, <1>6 DEF Term
  <2> QED BY <2>1, <2>2
<1>8. Term(f, S, x) \in Int /\ Term(g, T, x) \in Int
  BY <1>6 DEF Term
<1> QED BY <1>6, <1>7, <1>8, <1>9 DEF Moves

-----------------------------------------------------------------------------
(* Counting *)

\* What x adds to the number of elements of S.
One(S, x) == IF x \in S THEN 1 ELSE 0

\* One element enters or leaves.
LEMMA CountChange ==
  ASSUME NEW U, IsFiniteSet(U), NEW S \in SUBSET U, NEW T \in SUBSET U, NEW x,
         S \ {x} = T \ {x}
  PROVE  /\ Moves(Cardinality(S), Cardinality(T), One(S, x), One(T, x))
         /\ Cardinality(S) \in Nat /\ Cardinality(T) \in Nat
<1> DEFINE R == S \ {x}
<1>1. /\ R \in SUBSET U /\ x \notin R
      /\ (x \in S => R \cup {x} = S) /\ (x \notin S => R = S)
      /\ (x \in T => R \cup {x} = T) /\ (x \notin T => R = T)
  OBVIOUS
<1>2. IsFiniteSet(R) /\ IsFiniteSet(S) /\ IsFiniteSet(T)
  BY FS_Subset
<1> HIDE DEF R
<1>3. Cardinality(R \cup {x}) = Cardinality(R) + 1
  BY <1>1, <1>2, FS_AddElement
<1>4. Cardinality(R) \in Nat /\ Cardinality(S) \in Nat /\ Cardinality(T) \in Nat
  BY <1>2, FS_CardinalityType
<1>5. Cardinality(S) = Cardinality(R) + One(S, x)
  <2>1. CASE x \in S
    BY <2>1, <1>1, <1>3 DEF One
  <2>2. CASE x \notin S
    BY <2>2, <1>1, <1>4 DEF One
  <2> QED BY <2>1, <2>2
<1>6. Cardinality(T) = Cardinality(R) + One(T, x)
  <2>1. CASE x \in T
    BY <2>1, <1>1, <1>3 DEF One
  <2>2. CASE x \notin T
    BY <2>2, <1>1, <1>4 DEF One
  <2> QED BY <2>1, <2>2
<1>7. One(S, x) \in Nat /\ One(T, x) \in Nat
  BY DEF One
<1> QED BY <1>4, <1>5, <1>6, <1>7 DEF Moves
===============================================================================
