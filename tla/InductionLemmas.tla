-------------------------- MODULE InductionLemmas --------------------------
(***************************************************************************)
(* Induction over numbers and over finite sets, and what can be defined by *)
(* recursion over them: the folds of the community modules, and the        *)
(* recursive functions of the models.                                      *)
(*                                                                         *)
(* The induction theorems of the library have an operator for a parameter. *)
(* Here induction is over a set, of numbers or of subsets, so the lemmas   *)
(* are first-order: to show P(k), show that {k : P(k)} has every k.        *)
(***************************************************************************)
EXTENDS Integers, Sequences, FiniteSets, FiniteSetsExt, FiniteSetTheorems,
        SequenceTheorems, WellFoundedInduction, TLAPS

----------------------------------------------------------------------------
(* Induction. *)

\* A set of natural numbers has a least one.
LEMMA Least ==
  ASSUME NEW T, T \subseteq Nat, T # {}
  PROVE  \E m \in T : \A k \in T : m <= k
<1> DEFINE R == {ss \in Nat \X Nat : ss[1] < ss[2]}
<1>1. R = OpToRel(<, Nat)
  BY DEF OpToRel
<1>2. PICK x \in T : \A y \in T : ~ (<<y, x>> \in R)
  <2> HIDE DEF R
  <2> QED  BY <1>1, NatLessThanWellFounded, WFMin
<1>3. ASSUME NEW y \in T
      PROVE  x <= y
  <2>1. x \in Nat /\ y \in Nat
    OBVIOUS
  <2>2. <<y, x>> \notin R
    BY <1>2
  <2> QED  BY <2>1, <2>2
<1> QED  BY <1>3

\* Induction up to n, over a set of numbers.
LEMMA UpTo ==
  ASSUME NEW n \in Nat, NEW T, 0 \in T,
         \A k \in 1 .. n : k - 1 \in T => k \in T
  PROVE  \A k \in 0 .. n : k \in T
<1> DEFINE Bad == {k \in 0 .. n : k \notin T}
<1> SUFFICES ASSUME Bad # {} PROVE FALSE
  OBVIOUS
<1>1. PICK m \in Bad : \A k \in Bad : m <= k
  <2>1. Bad \subseteq Nat
    OBVIOUS
  <2> HIDE DEF Bad
  <2> QED  BY <2>1, Least
<1>2. m \in 1 .. n
  OBVIOUS
<1>3. m - 1 \in T
  BY <1>1, <1>2
<1> QED  BY <1>2, <1>3

\* A set of subsets that has {} and, with all that have one element less,
\* each subset of S, has them all.
LEMMA SubsetInduction ==
  ASSUME NEW S, IsFiniteSet(S), NEW T, {} \in T,
         \A t \in SUBSET S : t # {} /\ (\A x \in t : t \ {x} \in T) => t \in T
  PROVE  \A t \in SUBSET S : t \in T
<1> DEFINE n == Cardinality(S)
           Sizes == {k \in 0 .. n : \A t \in SUBSET S : Cardinality(t) = k => t \in T}
<1>1. n \in Nat /\ \A t \in SUBSET S : /\ IsFiniteSet(t)
                                      /\ Cardinality(t) \in 0 .. n
  BY FS_CardinalityType, FS_Subset
<1>2. 0 \in Sizes
  BY <1>1, FS_EmptySet
<1>3. ASSUME NEW k \in 1 .. n, k - 1 \in Sizes
      PROVE  k \in Sizes
  <2> SUFFICES ASSUME NEW t \in SUBSET S, Cardinality(t) = k
               PROVE  t \in T
    OBVIOUS
  <2>1. t # {}
    BY <1>1, FS_EmptySet
  <2>2. ASSUME NEW x \in t
        PROVE  t \ {x} \in T
    <3>1. Cardinality(t \ {x}) = k - 1
      BY <1>1, FS_RemoveElement
    <3>2. t \ {x} \in SUBSET S
      OBVIOUS
    <3> QED  BY <1>3, <3>1, <3>2
  <2> QED  BY <2>1, <2>2
<1>4. \A k \in 0 .. n : k \in Sizes
  <2> HIDE DEF Sizes, n
  <2> QED  BY <1>1, <1>2, <1>3, UpTo
<1> QED  BY <1>1, <1>4

\* The recursion over the subsets of S by g, which takes "pick" out first.
Recurs(f, g, base, pick, S, X) ==
  /\ f \in [SUBSET S -> X]
  /\ \A t \in SUBSET S :
       f[t] = IF t = {} THEN base ELSE g[<<pick[t], f[t \ {pick[t]}]>>]

LEMMA RecursionExists ==
  ASSUME NEW S, IsFiniteSet(S), NEW X, NEW base \in X,
         NEW g \in [S \X X -> X], NEW pick,
         \A t \in SUBSET S : t # {} => pick[t] \in t
  PROVE  \E f : Recurs(f, g, base, pick, S, X)
<1> DEFINE n == Cardinality(S)
           Next1(f) == [t \in SUBSET S |->
             IF t = {} THEN base ELSE g[<<pick[t], f[t \ {pick[t]}]>>]]
           Right(f, k) == \A t \in SUBSET S : Cardinality(t) <= k =>
                            f[t] = Next1(f)[t]
           Sizes == {k \in 0 .. n : \E f \in [SUBSET S -> X] : Right(f, k)}
<1>1. n \in Nat /\ \A t \in SUBSET S : /\ IsFiniteSet(t)
                                      /\ Cardinality(t) \in 0 .. n
  BY FS_CardinalityType, FS_Subset
<1>2. 0 \in Sizes
  <2> DEFINE f == [t \in SUBSET S |-> base]
  <2>1. f \in [SUBSET S -> X]
    OBVIOUS
  <2>2. ASSUME NEW t \in SUBSET S, Cardinality(t) <= 0
        PROVE  f[t] = Next1(f)[t]
    BY <1>1, <2>2, FS_EmptySet
  <2>3. Right(f, 0)
    BY <2>2
  <2> HIDE DEF f, Right
  <2> QED  BY <1>1, <2>1, <2>3
<1>3. ASSUME NEW k \in 1 .. n, k - 1 \in Sizes
      PROVE  k \in Sizes
  <2>1. PICK f \in [SUBSET S -> X] : Right(f, k - 1)
    BY <1>3
  <2>2. Next1(f) \in [SUBSET S -> X]
    OBVIOUS
  <2>3. ASSUME NEW t \in SUBSET S, Cardinality(t) <= k, t # {}
        PROVE  Next1(f)[t] = Next1(Next1(f))[t]
    <3> DEFINE u == t \ {pick[t]}
    <3>1. Cardinality(u) <= k - 1 /\ u \in SUBSET S
      <4>1. pick[t] \in t /\ IsFiniteSet(t) /\ Cardinality(t) \in Nat
        BY <1>1, <2>3
      <4>2. Cardinality(t \ {pick[t]}) = Cardinality(t) - 1
        BY <4>1, FS_RemoveElement
      <4> QED  BY <2>3, <4>1, <4>2
    <3>2. f[u] = Next1(f)[u]
      BY <2>1, <3>1
    <3> QED  BY <2>3, <3>2
  <2>4. ASSUME NEW t \in SUBSET S, Cardinality(t) <= k
        PROVE  Next1(f)[t] = Next1(Next1(f))[t]
    BY <2>3, <2>4
  <2>5. Right(Next1(f), k)
    BY <2>4
  <2> HIDE DEF Next1, Right
  <2> QED  BY <2>2, <2>5
<1>4. n \in Sizes
  <2>1. \A k \in 0 .. n : k \in Sizes
    <3> HIDE DEF Sizes, n
    <3> QED  BY <1>1, <1>2, <1>3, UpTo
  <2> QED  BY <1>1, <2>1
<1>5. PICK f \in [SUBSET S -> X] : Right(f, n)
  BY <1>4
<1>6. ASSUME NEW t \in SUBSET S
      PROVE  f[t] = Next1(f)[t]
  <2>1. Cardinality(t) <= n
    BY <1>1
  <2> HIDE DEF n, Next1
  <2> QED  BY <1>5, <2>1
<1>7. Recurs(f, g, base, pick, S, X)
  BY <1>6 DEF Recurs
<1> QED  BY <1>7

----------------------------------------------------------------------------
(* Folds over sequences, which recur on the subsets of the domain. *)

\* Max finds the greatest of some numbers.
LEMMA MaxOf ==
  ASSUME NEW m \in Nat, NEW t \in SUBSET (1 .. m), t # {}
  PROVE  /\ Max(t) \in t
         /\ \A x \in t : Max(t) >= x
<1> DEFINE T == {m - x : x \in t}
<1>1. T \subseteq Nat /\ T # {}
  <2>1. \A x \in t : x \in 1 .. m /\ m - x \in Nat
    OBVIOUS
  <2> QED  BY <2>1
<1>2. PICK d \in T : \A k \in T : d <= k
  BY <1>1, Least
<1>3. PICK x \in t : d = m - x
  OBVIOUS
<1>4. \A y \in t : x >= y
  <2> TAKE y \in t
  <2>1. m - y \in T
    OBVIOUS
  <2> QED  BY <1>2, <1>3, <2>1
<1> QED  BY <1>4 DEF Max

\* f is the recursion of a fold by g over s.
Folds(f, g, base, s, k, X) ==
  /\ f \in [SUBSET (1 .. k) -> X]
  /\ \A t \in SUBSET (1 .. k) :
       f[t] = IF t = {} THEN base
              ELSE g[<<f[t \ {Max(t)}], s[Max(t)]>>]

\* There is one, for every g.
LEMMA FoldExists ==
  ASSUME NEW X, NEW Y, NEW base \in X, NEW s \in Seq(Y), NEW g \in [X \X Y -> X]
  PROVE  \E f : Folds(f, g, base, s, Len(s), X)
<1> DEFINE Is(f, k) == Folds(f, g, base, s, k, X)
           Bad == {k \in 0 .. Len(s) : ~ \E f : Is(f, k)}
<1>1. Len(s) \in Nat
  BY LenProperties
<1> SUFFICES ASSUME Bad # {} PROVE FALSE
  BY <1>1
<1>2. PICK m \in Bad : \A k \in Bad : m <= k
  <2>1. Bad \subseteq Nat
    BY <1>1
  <2> HIDE DEF Bad
  <2> QED  BY <2>1, Least
<1>3. m # 0
  <2> DEFINE f == [t \in SUBSET (1 .. 0) |-> base]
  <2>1. SUBSET (1 .. 0) = {{}}
    OBVIOUS
  <2>2. Is(f, 0)
    BY <2>1 DEF Folds
  <2> QED  BY <2>2
<1>4. PICK f : Is(f, m - 1)
  BY <1>1, <1>2, <1>3
<1> DEFINE h == [t \in SUBSET (1 .. m) |->
                   IF m \in t THEN g[<<f[t \ {m}], s[m]>>] ELSE f[t]]
<1>5. Is(h, m)
  <2>1. \A t \in SUBSET (1 .. m) : m \notin t => t \in SUBSET (1 .. m-1)
    BY <1>1, <1>3
  <2>2. \A t \in SUBSET (1 .. m) : t \ {m} \in SUBSET (1 .. m-1)
    BY <1>1, <1>3
  <2>3. s[m] \in Y
    BY <1>1, <1>3, ElementOfSeq
  <2>4. ASSUME NEW t \in SUBSET (1 .. m)
        PROVE  h[t] \in X
    <3>1. CASE m \in t
      BY <1>4, <2>2, <2>3, <3>1 DEF Folds
    <3>2. CASE m \notin t
      BY <1>4, <2>1, <3>2 DEF Folds
    <3> QED  BY <3>1, <3>2
  <2>5. ASSUME NEW t \in SUBSET (1 .. m)
        PROVE  h[t] = IF t = {} THEN base
                      ELSE g[<<h[t \ {Max(t)}], s[Max(t)]>>]
    <3>1. CASE m \in t
      <4> m \in Nat
        BY <1>1
      <4>1. Max(t) \in t /\ Max(t) >= m
        BY <1>1, <3>1, MaxOf
      <4>2. Max(t) = m
        <5>1. Max(t) \in 1 .. m
          BY <4>1
        <5> QED  BY <4>1, <5>1
      <4>3. h[t \ {m}] = f[t \ {m}]
        OBVIOUS
      <4> QED  BY <3>1, <4>2, <4>3
    <3>2. CASE m \notin t
      <4>1. t \ {Max(t)} \in SUBSET (1 .. m) /\ m \notin t \ {Max(t)}
        BY <3>2
      <4>2. h[t \ {Max(t)}] = f[t \ {Max(t)}] /\ h[t] = f[t]
        BY <3>2, <4>1
      <4> QED  BY <1>4, <2>1, <3>2, <4>2 DEF Folds
    <3> QED  BY <3>1, <3>2
  <2> QED  BY <2>4, <2>5 DEF Folds
<1> QED  BY <1>2, <1>5

\* The first k numbers, and the last of them.
LEMMA LastOfRange ==
  ASSUME NEW n \in Nat, NEW k \in 1 .. n
  PROVE  /\ 1 .. k \in SUBSET (1 .. n) /\ 1 .. k # {}
         /\ Max(1 .. k) = k
         /\ (1 .. k) \ {k} = 1 .. k-1
<1> k \in Nat /\ k \in 1 .. k /\ 1 .. k \in SUBSET (1 .. k)
  OBVIOUS
<1>1. Max(1 .. k) \in 1 .. k /\ Max(1 .. k) >= k
  BY MaxOf
<1> QED  BY <1>1

\* v is the course of n steps by g, which are told their numbers.
HasCourse(v, g, base, n, X) ==
  /\ v \in [0 .. n -> X]
  /\ v[0] = base
  /\ \A k \in 1 .. n : v[k] = g[<<v[k-1], k>>]

LEMMA CourseExists ==
  ASSUME NEW X, NEW base \in X, NEW n \in Nat, NEW g \in [X \X (1 .. n) -> X]
  PROVE  \E v : HasCourse(v, g, base, n, X)
<1> DEFINE s == [k \in 1 .. n |-> k]
<1>1. s \in Seq(1 .. n) /\ Len(s) = n /\ \A k \in 1 .. n : s[k] = k
  OBVIOUS
<1> HIDE DEF s
<1>2. PICK f : Folds(f, g, base, s, n, X)
  BY <1>1, FoldExists
<1> DEFINE v == [k \in 0 .. n |-> f[1 .. k]]
<1>3. v \in [0 .. n -> X]
  <2>1. \A k \in 0 .. n : 1 .. k \in SUBSET (1 .. n)
    OBVIOUS
  <2> QED  BY <1>2, <2>1 DEF Folds
<1>4. v[0] = base
  <2>1. 1 .. 0 = {} /\ {} \in SUBSET (1 .. n) /\ 0 \in 0 .. n
    OBVIOUS
  <2>2. f[{}] = base
    BY <1>2, <2>1 DEF Folds
  <2> QED  BY <2>1, <2>2
<1>5. ASSUME NEW k \in 1 .. n
      PROVE  v[k] = g[<<v[k-1], k>>]
  <2>1. /\ 1 .. k \in SUBSET (1 .. n) /\ 1 .. k # {}
        /\ Max(1 .. k) = k /\ (1 .. k) \ {k} = 1 .. k-1
    BY LastOfRange
  <2>2. f[1 .. k] = g[<<f[1 .. k-1], s[k]>>]
    BY <1>2, <2>1 DEF Folds
  <2>3. s[k] = k /\ k \in 0 .. n /\ k-1 \in 0 .. n
    BY <1>1
  <2> QED  BY <2>2, <2>3
<1> QED  BY <1>3, <1>4, <1>5 DEF HasCourse
=============================================================================
