---------------------------- MODULE NetcodeProofs ----------------------------
(***************************************************************************)
(* TLAPS proofs about the UDP netcode: about Netcode, for any moves, any   *)
(* number of inputs, any size of the two buffers, any delay and any        *)
(* threshold; and about UdpGameServer, for any players, any addresses and  *)
(* any hash of them, colliding or not.                                     *)
(***************************************************************************)
EXTENDS Netcode, UdpGameServer, InductionLemmas

----------------------------------------------------------------------------
(* Simulation.  The fold over the inputs as a function of the number of    *)
(* inputs folded.                                                          *)

\* v[k] is where the player is after the first k.
Course(v, moves, at, s) ==
  /\ v \in [0 .. Len(s) -> Int]
  /\ v[0] = at
  /\ \A k \in 1 .. Len(s) : v[k] = v[k-1] + moves[s[k]]

LEMMA SimulateCourse ==
  ASSUME NEW D, NEW moves \in [D -> Int], NEW at \in Int, NEW s \in Seq(D)
  PROVE  \E v : Course(v, moves, at, s) /\ v[Len(s)] = Simulate(moves, at, s)
<1> DEFINE n == Len(s)
           Turn(f) == [t \in SUBSET (1 .. n) |->
                         IF t = {} THEN at
                         ELSE f[t \ {Max(t)}] + moves[s[Max(t)]]]
           iter == CHOOSE f : f = Turn(f)
           v == [k \in 0 .. n |-> iter[1 .. k]]
<1>1. n \in Nat /\ DOMAIN s = 1 .. n /\ \A k \in 1 .. n : s[k] \in D
  BY LenProperties, ElementOfSeq
<1>2. Simulate(moves, at, s) = iter[1 .. n]
  BY <1>1 DEF Simulate, FoldLeft, MapThenFoldSet
<1>3. \E f : f = Turn(f)
  <2> DEFINE g == [p \in Int \X D |-> p[1] + moves[p[2]]]
  <2>1. g \in [Int \X D -> Int]
    OBVIOUS
  <2>2. PICK f : Folds(f, g, at, s, n, Int)
    <3> HIDE DEF g
    <3> QED  BY <2>1, FoldExists
  <2>3. ASSUME NEW t \in SUBSET (1 .. n)
        PROVE  f[t] = Turn(f)[t]
    <3>1. CASE t = {}
      BY <2>2, <3>1 DEF Folds
    <3>2. CASE t # {}
      <4>1. Max(t) \in 1 .. n
        BY <1>1, <3>2, MaxOf
      <4>2. f[t \ {Max(t)}] \in Int /\ s[Max(t)] \in D
        BY <1>1, <2>2, <4>1 DEF Folds
      <4> QED  BY <2>2, <3>2, <4>2 DEF Folds
    <3> QED  BY <3>1, <3>2
  <2>4. f \in [SUBSET (1 .. n) -> Int]
    BY <2>2 DEF Folds
  <2> QED  BY <2>3, <2>4
<1>4. iter = Turn(iter)
  BY <1>3
<1> HIDE DEF iter
<1>5. v[0] = at
  <2>1. 1 .. 0 = {}
    OBVIOUS
  <2> QED  BY <1>1, <1>4, <2>1
<1>6. ASSUME NEW k \in 1 .. n
      PROVE  v[k] = v[k-1] + moves[s[k]]
  <2>1. iter[1 .. k] = iter[1 .. k-1] + moves[s[k]]
    <3>1. /\ 1 .. k \in SUBSET (1 .. n) /\ 1 .. k # {}
          /\ Max(1 .. k) = k /\ (1 .. k) \ {k} = 1 .. k-1
      BY <1>1, LastOfRange
    <3>2. iter[1 .. k] = iter[(1 .. k) \ {k}] + moves[s[k]]
      BY <1>4, <3>1
    <3> QED  BY <3>1, <3>2
  <2> QED  BY <1>1, <2>1
<1>7. ASSUME NEW k \in 0 .. n
      PROVE  v[k] \in Int
  <2> DEFINE T == {j \in 0 .. n : v[j] \in Int}
  <2>1. 0 \in T
    BY <1>1, <1>5
  <2>2. ASSUME NEW j \in 1 .. n, j - 1 \in T
        PROVE  j \in T
    BY <1>1, <1>6, <2>2
  <2>3. \A j \in 0 .. n : j \in T
    <3> HIDE DEF T
    <3> QED  BY <1>1, <2>1, <2>2, UpTo
  <2> QED  BY <2>3
<1>8. v[n] = Simulate(moves, at, s)
  BY <1>1, <1>2
<1> QED  BY <1>5, <1>6, <1>7, <1>8 DEF Course

LEMMA SimulateType ==
  ASSUME NEW D, NEW moves \in [D -> Int], NEW at \in Int, NEW s \in Seq(D)
  PROVE  Simulate(moves, at, s) \in Int
<1>1. Len(s) \in 0 .. Len(s)
  BY LenProperties
<1> QED  BY <1>1, SimulateCourse DEF Course

LEMMA SimulateOfNone ==
  ASSUME NEW D, NEW moves \in [D -> Int], NEW at \in Int
  PROVE  Simulate(moves, at, <<>>) = at
<1>1. <<>> \in Seq(D) /\ Len(<<>>) = 0
  OBVIOUS
<1>2. PICK v : Course(v, moves, at, <<>>) /\ v[0] = Simulate(moves, at, <<>>)
  BY <1>1, SimulateCourse
<1> QED  BY <1>2 DEF Course

\* Two folds that meet the same moves come to the same.
LEMMA SameMoves ==
  ASSUME NEW D, NEW moves \in [D -> Int], NEW at \in Int, NEW s \in Seq(D),
         NEW E, NEW other \in [E -> Int], NEW t \in Seq(E),
         Len(s) = Len(t), \A k \in 1 .. Len(s) : moves[s[k]] = other[t[k]]
  PROVE  Simulate(moves, at, s) = Simulate(other, at, t)
<1>1. PICK v : Course(v, moves, at, s) /\ v[Len(s)] = Simulate(moves, at, s)
  BY SimulateCourse
<1>2. PICK w : Course(w, other, at, t) /\ w[Len(t)] = Simulate(other, at, t)
  BY SimulateCourse
<1> DEFINE T == {k \in 0 .. Len(s) : v[k] = w[k]}
<1>3. \A k \in 1 .. Len(s) : k - 1 \in T => k \in T
  BY <1>1, <1>2 DEF Course
<1>4. 0 \in T /\ Len(s) \in Nat
  BY <1>1, <1>2, LenProperties DEF Course
<1>5. v[Len(s)] = w[Len(s)]
  <2>1. \A k \in 0 .. Len(s) : k \in T
    <3> HIDE DEF T
    <3> QED  BY <1>3, <1>4, UpTo
  <2> QED  BY <1>4, <2>1
<1> QED  BY <1>1, <1>2, <1>5

LEMMA SimulateOfOneMore ==
  ASSUME NEW D, NEW moves \in [D -> Int], NEW at \in Int, NEW s \in Seq(D),
         NEW n \in D
  PROVE  Simulate(moves, at, Append(s, n)) = Simulate(moves, at, s) + moves[n]
<1> DEFINE t == Append(s, n)
<1>1. /\ t \in Seq(D) /\ Len(t) = Len(s) + 1 /\ Len(s) \in Nat
      /\ \A k \in 1 .. Len(s) : t[k] = s[k]
      /\ t[Len(s) + 1] = n
  BY AppendProperties, LenProperties
<1> HIDE DEF t
<1>2. PICK v : Course(v, moves, at, s) /\ v[Len(s)] = Simulate(moves, at, s)
  BY SimulateCourse
<1>3. PICK w : Course(w, moves, at, t) /\ w[Len(t)] = Simulate(moves, at, t)
  BY <1>1, SimulateCourse
<1> DEFINE T == {k \in 0 .. Len(s) : v[k] = w[k]}
<1>4. \A k \in 1 .. Len(s) : k - 1 \in T => k \in T
  <2> TAKE k \in 1 .. Len(s)
  <2>1. k \in 1 .. Len(t)
    BY <1>1
  <2>2. v[k] = v[k-1] + moves[s[k]]
    BY <1>2 DEF Course
  <2>3. w[k] = w[k-1] + moves[s[k]]
    BY <1>1, <1>3, <2>1 DEF Course
  <2> QED  BY <2>2, <2>3
<1>5. 0 \in T
  BY <1>1, <1>2, <1>3 DEF Course
<1>6. v[Len(s)] = w[Len(s)]
  <2>1. \A k \in 0 .. Len(s) : k \in T
    <3> HIDE DEF T
    <3> QED  BY <1>1, <1>4, <1>5, UpTo
  <2> QED  BY <1>1, <2>1
<1>7. w[Len(s) + 1] = w[Len(s)] + moves[n]
  <2>1. Len(s) + 1 \in 1 .. Len(t) /\ Len(s) + 1 - 1 = Len(s)
    BY <1>1
  <2>2. w[Len(s) + 1] = w[Len(s) + 1 - 1] + moves[t[Len(s) + 1]]
    BY <1>3, <2>1 DEF Course
  <2> QED  BY <1>1, <2>1, <2>2
<1> QED  BY <1>1, <1>2, <1>3, <1>6, <1>7 DEF t
----------------------------------------------------------------------------
(* What is not acknowledged. *)

\* The numbers from + 1 .. to.
Numbers(from, to) == [i \in 1 .. to - from |-> from + i]

Newer(after, s) ==
  FoldLeft(LAMBDA result, n : IF n > after THEN Append(result, n) ELSE result,
           <<>>, s)

LEMMA NumbersAre ==
  ASSUME NEW from \in Nat, NEW to \in Nat, from <= to
  PROVE  /\ Numbers(from, to) \in Seq(Nat)
         /\ Len(Numbers(from, to)) = to - from
         /\ \A i \in 1 .. to - from : Numbers(from, to)[i] = from + i
  BY DEF Numbers

LEMMA OneNumberMore ==
  ASSUME NEW from \in Nat, NEW to \in Nat, from <= to
  PROVE  Append(Numbers(from, to), to + 1) = Numbers(from, to + 1)
  BY DEF Numbers

LEMMA NewerNumbers ==
  ASSUME NEW from \in Nat, NEW after \in Nat, NEW to \in Nat,
         from <= after, after <= to
  PROVE  Newer(after, Numbers(from, to)) = Numbers(after, to)
<1> DEFINE s == Numbers(from, to)
           n == to - from
           Turn(f) == [t \in SUBSET (1 .. n) |->
                         IF t = {} THEN <<>>
                         ELSE IF s[Max(t)] > after
                              THEN Append(f[t \ {Max(t)}], s[Max(t)])
                              ELSE f[t \ {Max(t)}]]
           iter == CHOOSE f : f = Turn(f)
<1>1. /\ n \in Nat /\ DOMAIN s = 1 .. n /\ Len(s) = n /\ s \in Seq(Nat)
      /\ \A k \in 1 .. n : s[k] = from + k
  BY DEF Numbers
<1>2. Newer(after, s) = iter[1 .. n]
  <2> HIDE DEF s
  <2> QED  BY <1>1 DEF Newer, FoldLeft, MapThenFoldSet
<1> HIDE DEF s
<1>3. \E f : f = Turn(f)
  <2> DEFINE g == [p \in Seq(Nat) \X Nat |->
                     IF p[2] > after THEN Append(p[1], p[2]) ELSE p[1]]
  <2>1. g \in [Seq(Nat) \X Nat -> Seq(Nat)] /\ <<>> \in Seq(Nat)
    OBVIOUS
  <2>2. PICK f : Folds(f, g, <<>>, s, n, Seq(Nat))
    <3> HIDE DEF g, n
    <3>1. \E f : Folds(f, g, <<>>, s, Len(s), Seq(Nat))
      BY <1>1, <2>1, FoldExists
    <3> QED  BY <1>1, <3>1
  <2>3. ASSUME NEW t \in SUBSET (1 .. n)
        PROVE  f[t] = Turn(f)[t]
    <3>1. CASE t = {}
      BY <2>2, <3>1 DEF Folds
    <3>2. CASE t # {}
      <4>1. Max(t) \in 1 .. n
        BY <1>1, <3>2, MaxOf
      <4>2. f[t \ {Max(t)}] \in Seq(Nat) /\ s[Max(t)] \in Nat
        <5>1. t \ {Max(t)} \in SUBSET (1 .. n)
          OBVIOUS
        <5> QED  BY <1>1, <2>2, <4>1, <5>1, ElementOfSeq DEF Folds
      <4>3. g[<<f[t \ {Max(t)}], s[Max(t)]>>] = Turn(f)[t]
        BY <3>2, <4>2
      <4>4. f[t] = g[<<f[t \ {Max(t)}], s[Max(t)]>>]
        <5> HIDE DEF g
        <5> QED  BY <2>2, <3>2 DEF Folds
      <4> QED  BY <4>3, <4>4
    <3> QED  BY <3>1, <3>2
  <2>4. f \in [SUBSET (1 .. n) -> Seq(Nat)]
    BY <2>2 DEF Folds
  <2> QED  BY <2>3, <2>4
<1>4. iter = Turn(iter)
  BY <1>3
<1> HIDE DEF iter
<1> DEFINE T == {k \in 0 .. n :
                   iter[1 .. k] = IF from + k > after THEN Numbers(after, from + k)
                                  ELSE <<>>}
<1>5. 0 \in T
  <2>1. 1 .. 0 = {} /\ ~ (from + 0 > after) /\ 0 \in 0 .. n
    BY <1>1
  <2>2. iter[1 .. 0] = <<>>
    BY <1>1, <1>4, <2>1
  <2> QED  BY <2>1, <2>2
<1>6. ASSUME NEW k \in 1 .. n, k - 1 \in T
      PROVE  k \in T
  <2>1. /\ 1 .. k \in SUBSET (1 .. n) /\ 1 .. k # {}
        /\ Max(1 .. k) = k /\ (1 .. k) \ {k} = 1 .. k-1
    BY <1>1, LastOfRange
  <2>2. iter[1 .. k] = IF s[k] > after THEN Append(iter[(1 .. k) \ {k}], s[k])
                       ELSE iter[(1 .. k) \ {k}]
    BY <1>4, <2>1
  <2>3. s[k] = from + (k - 1) + 1 /\ k - 1 \in 0 .. n
    BY <1>1
  <2>4. iter[1 .. k-1] = IF from + (k - 1) > after THEN Numbers(after, from + (k-1))
                         ELSE <<>>
    BY <1>6
  <2>5. CASE from + (k - 1) >= after
    <3>1. iter[1 .. k-1] = Numbers(after, from + (k - 1))
      <4>1. CASE from + (k - 1) = after
        <5>1. Numbers(after, after) = <<>>
          BY DEF Numbers
        <5> QED  BY <2>4, <4>1, <5>1
      <4>2. CASE from + (k - 1) > after
        BY <2>4, <4>2
      <4> QED  BY <1>1, <2>5, <4>1, <4>2
    <3>2. Append(Numbers(after, from + (k - 1)), from + (k - 1) + 1)
          = Numbers(after, from + (k - 1) + 1)
      <4>1. from + (k - 1) \in Nat /\ after <= from + (k - 1)
        BY <2>5
      <4> QED  BY <4>1, OneNumberMore
    <3>3. /\ from + (k - 1) + 1 = from + k /\ from + k > after
          /\ s[k] = from + k
      BY <1>1, <2>5
    <3>4. iter[1 .. k] = Append(Numbers(after, from + (k - 1)), s[k])
      BY <2>1, <2>2, <3>1, <3>3
    <3>5. iter[1 .. k] = Numbers(after, from + k)
      BY <3>2, <3>3, <3>4
    <3> QED  BY <3>3, <3>5
  <2>6. CASE ~ (from + (k - 1) >= after)
    <3>1. ~ (s[k] > after) /\ ~ (from + k > after) /\ ~ (from + (k - 1) > after)
      BY <2>3, <2>6
    <3>2. iter[1 .. k] = <<>>
      BY <2>1, <2>2, <2>4, <3>1
    <3> QED  BY <3>1, <3>2
  <2> QED  BY <2>5, <2>6
<1>7. n \in T
  <2>1. n \in 0 .. n
    BY <1>1
  <2> HIDE DEF T
  <2> QED  BY <1>1, <1>5, <1>6, <2>1, UpTo
<1>8. from + n = to
  OBVIOUS
<1>9. CASE to = after
  <2>1. Numbers(after, to) = <<>>
    BY <1>9 DEF Numbers
  <2> QED  BY <1>2, <1>7, <1>8, <1>9, <2>1 DEF s
<1>10. CASE to > after
  BY <1>2, <1>7, <1>8, <1>10 DEF s
<1> QED  BY <1>9, <1>10
----------------------------------------------------------------------------
(* Deques. *)

Increasing(d) == \A i, j \in DOMAIN d : i < j => d[i] < d[j]

\* In a deque that is in order, all behind the lower entries are not lower.
LEMMA LowerIs ==
  ASSUME NEW d \in Seq(Int), Increasing(d), NEW n \in Int
  PROVE  /\ Lower(d, n) \in 0 .. Len(d)
         /\ \A i \in 1 .. Lower(d, n) : d[i] < n
         /\ \A i \in Lower(d, n) + 1 .. Len(d) : d[i] >= n
<1> DEFINE Is(k) == /\ k \in 0 .. Len(d)
                    /\ \A i \in 1 .. k : d[i] < n
                    /\ k < Len(d) => d[k+1] >= n
           T == {k \in 1 .. Len(d) : d[k] >= n} \union {Len(d) + 1}
<1>1. Len(d) \in Nat /\ DOMAIN d = 1 .. Len(d) /\ \A i \in 1 .. Len(d) : d[i] \in Int
  BY LenProperties, ElementOfSeq
<1>2. PICK m \in T : \A k \in T : m <= k
  <2>1. T \subseteq Nat /\ T # {}
    BY <1>1
  <2> HIDE DEF T
  <2> QED  BY <2>1, Least
<1>3. Is(m - 1)
  <2>1. m \in 1 .. Len(d) + 1
    BY <1>1
  <2>2. ASSUME NEW i \in 1 .. m-1
        PROVE  d[i] < n
    <3>1. i \in 1 .. Len(d) /\ i \notin T
      BY <1>1, <1>2, <2>1
    <3> QED  BY <1>1, <3>1
  <2>3. m - 1 < Len(d) => d[m - 1 + 1] >= n
    BY <1>1, <2>1
  <2> QED  BY <1>1, <2>1, <2>2, <2>3
<1>4. Is(Lower(d, n))
  BY <1>3 DEF Lower
<1>5. ASSUME NEW i \in Lower(d, n) + 1 .. Len(d)
      PROVE  d[i] >= n
  <2> DEFINE k == Lower(d, n) + 1
  <2>1. k \in 1 .. Len(d) /\ d[k] >= n /\ (k < i \/ k = i)
    BY <1>1, <1>4
  <2>2. k < i => d[k] < d[i]
    BY <1>1, <2>1 DEF Increasing
  <2> QED  BY <1>1, <2>1, <2>2
<1> QED  BY <1>4, <1>5

LEMMA LowerOfNumbers ==
  ASSUME NEW from \in Nat, NEW to \in Nat, NEW n \in from .. to
  PROVE  Lower(Numbers(from, to), n + 1) = n - from
<1> DEFINE d == Numbers(from, to)
<1>1. /\ d \in Seq(Int) /\ Len(d) = to - from /\ DOMAIN d = 1 .. to - from
      /\ \A i \in 1 .. to - from : d[i] = from + i
  BY DEF Numbers
<1> HIDE DEF d
<1>2. Increasing(d)
  BY <1>1 DEF Increasing
<1> DEFINE k == Lower(d, n + 1)
<1>3. /\ k \in 0 .. to - from
      /\ \A i \in 1 .. k : d[i] < n + 1
      /\ \A i \in k + 1 .. to - from : d[i] >= n + 1
  <2>1. n + 1 \in Int
    OBVIOUS
  <2>2. /\ k \in 0 .. Len(d)
        /\ \A i \in 1 .. k : d[i] < n + 1
        /\ \A i \in k + 1 .. Len(d) : d[i] >= n + 1
    BY <1>1, <1>2, <2>1, LowerIs
  <2> QED  BY <1>1, <2>2
<1> HIDE DEF k
<1>4. ~ (k < n - from)
  <2> SUFFICES ASSUME k < n - from PROVE FALSE
    OBVIOUS
  <2>1. k + 1 \in k + 1 .. to - from /\ k + 1 \in 1 .. to - from
    BY <1>3
  <2>2. d[k + 1] >= n + 1
    BY <1>3, <2>1
  <2>3. d[k + 1] = from + (k + 1)
    BY <1>1, <2>1
  <2> QED  BY <1>3, <2>2, <2>3
<1>5. ~ (k > n - from)
  <2> SUFFICES ASSUME k > n - from PROVE FALSE
    OBVIOUS
  <2>1. k \in 1 .. k /\ k \in 1 .. to - from
    BY <1>3
  <2> QED  BY <1>1, <1>3, <2>1
<1>6. k = n - from
  BY <1>3, <1>4, <1>5
<1> QED  BY <1>6 DEF d, k

\* What is left when the first k are popped.
LEMMA RestIs ==
  ASSUME NEW S, NEW d \in Seq(S), NEW k \in 0 .. Len(d)
  PROVE  /\ SubSeq(d, k + 1, Len(d)) \in Seq(S)
         /\ Len(SubSeq(d, k + 1, Len(d))) = Len(d) - k
         /\ \A i \in 1 .. Len(d) - k : SubSeq(d, k + 1, Len(d))[i] = d[k + i]
<1>1. Len(d) \in Nat /\ \A i \in k + 1 .. Len(d) : d[i] \in S
  BY LenProperties, ElementOfSeq
<1> DEFINE e == SubSeq(d, k + 1, Len(d))
<1>2. /\ e \in Seq(S)
      /\ Len(e) = IF k + 1 <= Len(d) THEN Len(d) - (k + 1) + 1 ELSE 0
      /\ \A i \in 1 .. Len(d) - (k + 1) + 1 : e[i] = d[k + 1 + i - 1]
  <2> k + 1 \in Int /\ Len(d) \in Int
    BY <1>1
  <2> QED  BY <1>1, SubSeqProperties
<1> HIDE DEF e
<1>3. /\ e \in Seq(S)
      /\ Len(e) = Len(d) - k
      /\ \A i \in 1 .. Len(d) - k : e[i] = d[k + i]
  BY <1>1, <1>2
<1> QED  BY <1>3 DEF e

\* k is d from drop + 1 on, and x behind it, m entries.
Shifted(k, d, x, m, drop) ==
  /\ Len(k) = m /\ m > 0
  /\ k[m] = x
  /\ \A i \in 1 .. m - 1 : k[i] = d[i + drop]

LEMMA KeptIs ==
  ASSUME NEW S, NEW d \in Seq(S), NEW x \in S,
         NEW n \in Nat, n = Len(d), n <= MaxPending
  PROVE  /\ Kept(d, x) \in Seq(S)
         /\ n < MaxPending => Shifted(Kept(d, x), d, x, n + 1, 0)
         /\ ~ (n < MaxPending) => Shifted(Kept(d, x), d, x, n, 1)
<1> DEFINE a == Append(d, x)
<1>1. /\ a \in Seq(S) /\ a # <<>> /\ Len(a) = n + 1
      /\ \A i \in 1 .. n : a[i] = d[i]
      /\ a[n + 1] = x
  BY AppendProperties, LenProperties
<1> HIDE DEF a
<1>2. /\ Tail(a) \in Seq(S) /\ Len(Tail(a)) = n
      /\ \A i \in 1 .. n : Tail(a)[i] = a[i + 1]
  BY <1>1, HeadTailProperties
<1>3. MaxPending \in Nat \ {0}
  BY ConstantsAssumption
<1>4. CASE n < MaxPending
  <2>1. Kept(d, x) = a
    BY <1>4 DEF Kept, a
  <2>2. \A i \in 1 .. n + 1 - 1 : a[i] = d[i + 0]
    BY <1>1
  <2> QED  BY <1>1, <1>4, <2>1, <2>2 DEF Shifted
<1>5. CASE ~ (n < MaxPending)
  <2>1. Kept(d, x) = Tail(a)
    BY <1>5 DEF Kept, a
  <2>2. n >= 1
    BY <1>3, <1>5
  <2>3. Tail(a)[n] = x
    BY <1>1, <1>2, <2>2
  <2>4. \A i \in 1 .. n - 1 : Tail(a)[i] = d[i + 1]
    <3> TAKE i \in 1 .. n - 1
    <3>1. i \in 1 .. n /\ i + 1 \in 1 .. n
      OBVIOUS
    <3> QED  BY <1>1, <1>2, <3>1
  <2> QED  BY <1>2, <1>5, <2>1, <2>2, <2>3, <2>4 DEF Shifted
<1> QED  BY <1>4, <1>5

----------------------------------------------------------------------------
(* The inductive invariant. *)

\* The last input that the client does not keep.
Oldest ==
  IF Len(pressed) - last_acknowledged_ > MaxPending THEN Len(pressed) - MaxPending
  ELSE last_acknowledged_

\* The buffer is in order and holds nothing that was processed.
BufferInOrder ==
  /\ Increasing(buffer_)
  /\ \A i \in DOMAIN buffer_ : buffer_[i] > last_processed

\* The server has applied nothing behind the last input it processed.
AppliedBehind == \A i \in DOMAIN applied : applied[i] <= last_processed

\* The player is where the inputs that were applied have moved it.
PlayerMoved == player = Simulate(pressed, 0, applied)

\* The client shows its last prediction, unless a correction replayed inputs.
ShowsPrediction ==
  predictions_ # <<>> /\ ~replayed =>
    predictions_[Len(predictions_)].position = position

Inv == /\ InputsAccountedFor
       /\ BufferInOrder /\ AppliedBehind /\ PlayerMoved
       /\ ShowsPrediction /\ AtRestItAgrees
LEMMA PressedType ==
  ASSUME TypeOK
  PROVE  /\ Len(pressed) \in Nat /\ pressed \in [Sent -> Int]
         /\ pressed \in Seq(Int)
<1>1. Moves \subseteq Int
  BY ConstantsAssumption
<1> QED  BY <1>1, LenProperties, SeqMonotonic DEF TypeOK, Sent

LEMMA HistoryFacts ==
  ASSUME TypeOK, HistoryIsTheRest
  PROVE  /\ Oldest \in last_acknowledged_ .. Len(pressed) /\ Oldest \in Nat
         /\ Len(pressed) - Oldest <= MaxPending
         /\ input_history_ = Numbers(Oldest, Len(pressed))
         /\ Len(predictions_) = Len(pressed) - Oldest
         /\ \A i \in 1 .. Len(pressed) - Oldest : predictions_[i].sequence = Oldest + i
<1>1. MaxPending \in Nat /\ Len(pressed) \in Nat /\ last_acknowledged_ \in 0 .. Len(pressed)
  BY ConstantsAssumption, PressedType DEF TypeOK
<1> QED  BY <1>1 DEF HistoryIsTheRest, Oldest, Numbers

\* Any numbers that are kept are the history if they begin at the oldest.
LEMMA HistoryFrom ==
  ASSUME input_history_ = Numbers(Oldest, Len(pressed)),
         Len(predictions_) = Len(pressed) - Oldest,
         \A i \in 1 .. Len(pressed) - Oldest : predictions_[i].sequence = Oldest + i
  PROVE  HistoryIsTheRest
  BY DEF HistoryIsTheRest, Oldest, Numbers

\* The client and the buffer as constructed satisfy every part of the invariant.
THEOREM InvInit == Init => Inv
<1> SUFFICES ASSUME Init PROVE Inv
  OBVIOUS
<1>1. Len(pressed) = 0 /\ Sent = {} /\ MaxPending \in Nat
  BY ConstantsAssumption DEF Init, Sent
<1>2. TypeOK
  <2>1. \A S : <<>> \in Seq(S)
    OBVIOUS
  <2>2. age \in [Sent -> 0 .. Delay]
    BY <1>1 DEF Init
  <2>3. 0 \in 0 .. Len(pressed)
    BY <1>1
  <2>4. replayed \in BOOLEAN
    BY DEF Init
  <2>T. reports = {} /\ position \in Int /\ player \in Int
    BY DEF Init
  <2>5. last_acknowledged_ \in 0 .. Len(pressed) /\ last_processed \in 0 .. Len(pressed)
    BY <2>3 DEF Init
  <2>6. /\ pressed \in Seq(Moves) /\ input_history_ \in Seq(Sent)
        /\ predictions_ \in Seq([sequence : Sent, position : Int])
        /\ buffer_ \in Seq(Sent) /\ applied \in Seq(Sent)
    BY <2>1 DEF Init
  <2>7. reports \subseteq [sequence : Sent, position : Int]
    BY <2>T
  <2> QED  BY <2>2, <2>4, <2>5, <2>6, <2>7, <2>T DEF TypeOK
<1>3. HistoryIsTheRest
  BY <1>1 DEF Init, HistoryIsTheRest
<1>4. AppliedInOrder /\ BufferInOrder /\ AppliedBehind
  BY DEF Init, AppliedInOrder, BufferInOrder, AppliedBehind, Increasing
<1>5. PlayerMoved
  <2>1. Simulate(pressed, 0, <<>>) = 0
    <3>1. pressed \in [Sent -> Int]
      BY <1>2, PressedType
    <3> QED  BY <3>1, SimulateOfNone
  <2> QED  BY <2>1 DEF Init, PlayerMoved
<1>6. ShowsPrediction /\ AtRestItAgrees
  BY DEF Init, ShowsPrediction, AtRestItAgrees
<1> QED  BY <1>2, <1>3, <1>4, <1>5, <1>6 DEF Inv, InputsAccountedFor

----------------------------------------------------------------------------
(* An input is pressed. *)

LEMMA PressTypes ==
  ASSUME Inv, NEW move \in Moves, Press(move)
  PROVE  /\ TypeOK' /\ Sent \subseteq Sent' /\ Len(pressed') = Len(pressed) + 1
         /\ \A n \in Sent : pressed'[n] = pressed[n]
<1>0. TypeOK /\ HistoryIsTheRest /\ MaxPending \in Nat \ {0} /\ move \in Int
  BY ConstantsAssumption DEF Inv, InputsAccountedFor
<1> DEFINE n == Len(pressed) + 1
<1>1. /\ pressed' \in Seq(Moves) /\ Len(pressed') = n /\ Len(pressed) \in Nat
      /\ \A i \in 1 .. Len(pressed) : pressed'[i] = pressed[i]
  BY <1>0, PressedType, AppendProperties DEF Press, TypeOK
<1>2. Sent = 1 .. Len(pressed) /\ Sent' = 1 .. n /\ Sent \subseteq Sent' /\ n \in Sent'
  BY <1>1 DEF Sent
<1>3. Len(input_history_) <= MaxPending /\ Len(predictions_) <= MaxPending
  BY <1>0, HistoryFacts DEF Numbers
<1>4. input_history_' \in Seq(Sent')
  <2>1. input_history_ \in Seq(Sent')
    BY <1>0, <1>2, SeqMonotonic DEF TypeOK
  <2>2. Kept(input_history_, n) \in Seq(Sent')
    <3>1. PICK len \in Nat : len = Len(input_history_) /\ len <= MaxPending
      BY <1>3, <2>1, LenProperties
    <3> HIDE DEF n
    <3> QED  BY <1>2, <2>1, <3>1, KeptIs
  <2> QED  BY <2>2 DEF Press
<1>5. predictions_' \in Seq([sequence : Sent', position : Int])
  <2> DEFINE S == [sequence : Sent', position : Int]
             p == [sequence |-> n, position |-> position + move]
  <2>1. predictions_ \in Seq(S)
    <3>1. [sequence : Sent, position : Int] \subseteq S
      BY <1>2
    <3> QED  BY <1>0, <3>1, SeqMonotonic DEF TypeOK
  <2>2. p \in S
    BY <1>0, <1>2 DEF TypeOK
  <2>3. Kept(predictions_, p) \in Seq(S)
    <3> HIDE DEF p, S
    <3>1. PICK len \in Nat : len = Len(predictions_) /\ len <= MaxPending
      BY <1>3, <2>1, LenProperties
    <3> QED  BY <2>1, <2>2, <3>1, KeptIs
  <2> QED  BY <2>3 DEF Press
<1>6. position' \in Int /\ replayed' \in BOOLEAN /\ last_acknowledged_' \in 0 .. Len(pressed')
  <2>1. position' = position + move /\ replayed' = FALSE
        /\ last_acknowledged_' = last_acknowledged_
    BY DEF Press
  <2>2. position \in Int /\ last_acknowledged_ \in 0 .. Len(pressed)
    BY <1>0 DEF TypeOK
  <2>3. position' \in Int /\ last_acknowledged_' \in 0 .. Len(pressed')
    BY <1>0, <1>1, <2>1, <2>2
  <2> QED  BY <2>1, <2>3
<1>7. /\ buffer_' \in Seq(Sent') /\ applied' \in Seq(Sent')
      /\ last_processed' \in 0 .. Len(pressed') /\ player' \in Int
      /\ reports' \subseteq [sequence : Sent', position : Int]
  <2>1. buffer_ \in Seq(Sent') /\ applied \in Seq(Sent')
    BY <1>0, <1>2, SeqMonotonic DEF TypeOK
  <2>2. reports \subseteq [sequence : Sent', position : Int]
    BY <1>0, <1>2 DEF TypeOK
  <2> QED  BY <1>0, <1>1, <2>1, <2>2 DEF Press, TypeOK
<1>8. age' \in [Sent' -> 0 .. Delay]
  <2>1. age \in Seq(0 .. Delay) /\ Len(age) = Len(pressed) /\ 0 \in 0 .. Delay
    <3>1. age \in [1 .. Len(pressed) -> 0 .. Delay] /\ 0 \in 0 .. Delay
      BY <1>0, <1>2, ConstantsAssumption DEF TypeOK
    <3>2. age \in Seq(0 .. Delay)
      <4>1. Seq(0 .. Delay) = UNION {[1 .. m -> 0 .. Delay] : m \in Nat}
        BY SeqDef
      <4>2. [1 .. Len(pressed) -> 0 .. Delay] \in {[1 .. m -> 0 .. Delay] : m \in Nat}
        BY <1>1
      <4> QED  BY <3>1, <4>1, <4>2, Zenon
    <3> QED  BY <1>1, <3>1, <3>2
  <2>2. Append(age, 0) \in Seq(0 .. Delay) /\ Len(Append(age, 0)) = n
    BY <2>1, AppendProperties
  <2>3. Append(age, 0) \in [1 .. n -> 0 .. Delay]
    BY <2>2, LenProperties
  <2> QED  BY <1>2, <2>3 DEF Press
<1> QED  BY <1>1, <1>2, <1>4, <1>5, <1>6, <1>7, <1>8 DEF TypeOK

\* One entry more in a deque of those from o + 1 to n.
LEMMA KeptNumbered ==
  ASSUME NEW o \in Nat, NEW n \in Nat, o <= n, n - o <= MaxPending,
         NEW drop \in Nat, drop = IF n - o < MaxPending THEN 0 ELSE 1,
         NEW S, NEW d \in Seq(S), Len(d) = n - o, NEW x \in S
  PROVE  /\ Kept(d, x) \in Seq(S)
         /\ Shifted(Kept(d, x), d, x, n + 1 - (o + drop), drop)
<1> DEFINE len == n - o
<1>1. MaxPending \in Nat \ {0} /\ len \in Nat /\ len = Len(d) /\ len <= MaxPending
  BY ConstantsAssumption
<1>2. /\ Kept(d, x) \in Seq(S)
      /\ len < MaxPending => Shifted(Kept(d, x), d, x, len + 1, 0)
      /\ ~ (len < MaxPending) => Shifted(Kept(d, x), d, x, len, 1)
  <2> HIDE DEF len
  <2> QED  BY <1>1, KeptIs
<1>3. CASE len < MaxPending
  <2>1. drop = 0 /\ n + 1 - (o + drop) = len + 1
    BY <1>3
  <2> QED  BY <1>2, <1>3, <2>1
<1>4. CASE ~ (len < MaxPending)
  <2>1. drop = 1 /\ n + 1 - (o + drop) = len
    BY <1>4
  <2> QED  BY <1>2, <1>4, <2>1
<1> QED  BY <1>3, <1>4

LEMMA ShiftedNumbers ==
  ASSUME NEW o \in Nat, NEW n \in Nat, o <= n, NEW drop \in Nat,
         NEW k \in Seq(Nat), Shifted(k, Numbers(o, n), n + 1, n + 1 - (o + drop), drop)
  PROVE  k = Numbers(o + drop, n + 1)
<1> DEFINE d == Numbers(o, n)
           m == Numbers(o + drop, n + 1)
           len == n + 1 - (o + drop)
<1>1. /\ Len(k) = len /\ len > 0 /\ k[len] = n + 1
      /\ \A i \in 1 .. len - 1 : k[i] = d[i + drop]
  BY DEF Shifted
<1>2. \A i \in 1 .. n - o : d[i] = o + i
  BY DEF Numbers
<1>3. m \in Seq(Nat) /\ Len(m) = len /\ \A i \in 1 .. len : m[i] = o + drop + i
  BY <1>1 DEF Numbers
<1>4. \A i \in 1 .. len : k[i] = m[i]
  <2> TAKE i \in 1 .. len
  <2>1. CASE i = len
    <3>1. m[i] = o + drop + len
      BY <1>3, <2>1
    <3> QED  BY <1>1, <2>1, <3>1
  <2>2. CASE i # len
    <3>1. i \in 1 .. len - 1 /\ i + drop \in 1 .. n - o
      BY <2>2
    <3>2. k[i] = d[i + drop]
      BY <1>1, <3>1
    <3>3. d[i + drop] = o + (i + drop)
      BY <1>2, <3>1
    <3>4. m[i] = o + drop + i
      BY <1>3
    <3> QED  BY <3>2, <3>3, <3>4
  <2> QED  BY <2>1, <2>2
<1> HIDE DEF m, len
<1> QED  BY <1>1, <1>3, <1>4, SeqEqual DEF m

\* The entries 1 .. len of d are the inputs from + 1 and so on.
Numbered(d, from, len) == \A i \in 1 .. len : d[i].sequence = from + i

LEMMA ShiftedSequences ==
  ASSUME NEW o \in Nat, NEW n \in Nat, o <= n, NEW drop \in Nat,
         NEW k, NEW d, NEW x, Shifted(k, d, x, n + 1 - (o + drop), drop),
         Numbered(d, o, n - o), x.sequence = n + 1
  PROVE  Numbered(k, o + drop, n + 1 - (o + drop))
<1>1. /\ k[n + 1 - (o + drop)] = x
      /\ \A i \in 1 .. n + 1 - (o + drop) - 1 : k[i] = d[i + drop]
  BY DEF Shifted
<1> SUFFICES \A i \in 1 .. n + 1 - (o + drop) : k[i].sequence = o + drop + i
  BY DEF Numbered
<1> TAKE i \in 1 .. n + 1 - (o + drop)
<1>2. CASE i = n + 1 - (o + drop)
  BY <1>1, <1>2
<1>3. CASE i # n + 1 - (o + drop)
  <2>1. i \in 1 .. n + 1 - (o + drop) - 1 /\ i + drop \in 1 .. n - o
    BY <1>3
  <2>2. k[i] = d[i + drop]
    BY <1>1, <2>1
  <2>3. d[i + drop].sequence = o + (i + drop)
    BY <2>1 DEF Numbered
  <2> QED  BY <2>2, <2>3
<1> QED  BY <1>2, <1>3

LEMMA PressHistory ==
  ASSUME Inv, NEW move \in Moves, Press(move)
  PROVE  HistoryIsTheRest' /\ ShowsPrediction' /\ predictions_' # <<>>
<1>0. TypeOK /\ HistoryIsTheRest /\ MaxPending \in Nat \ {0} /\ move \in Int
  BY ConstantsAssumption DEF Inv, InputsAccountedFor
<1>1. PICK n \in Nat, o \in Nat : n = Len(pressed) /\ o = Oldest
  BY <1>0, PressedType, HistoryFacts
<1> DEFINE p == [sequence |-> n + 1, position |-> position + move]
           drop == IF n - o < MaxPending THEN 0 ELSE 1
           S == [sequence : Nat, position : Int]
<1>2. /\ o <= n /\ n - o <= MaxPending
      /\ input_history_ = Numbers(o, n)
      /\ Len(predictions_) = n - o
      /\ \A i \in 1 .. n - o : predictions_[i].sequence = o + i
  <2>1. /\ Oldest \in last_acknowledged_ .. Len(pressed) /\ Oldest \in Nat
        /\ Len(pressed) - Oldest <= MaxPending
        /\ input_history_ = Numbers(Oldest, Len(pressed))
        /\ Len(predictions_) = Len(pressed) - Oldest
        /\ \A i \in 1 .. Len(pressed) - Oldest : predictions_[i].sequence = Oldest + i
    BY <1>0, HistoryFacts
  <2> HIDE DEF Oldest
  <2> QED  BY <1>1, <2>1
<1>3. Len(pressed') = n + 1 /\ drop \in Nat
  BY <1>1, PressTypes
<1>4. Oldest' = o + drop
  <2>1. last_acknowledged_' = last_acknowledged_ /\ last_acknowledged_ \in 0 .. n
    BY <1>0, <1>1 DEF Press, TypeOK
  <2>2. Oldest' = IF Len(pressed') - last_acknowledged_' > MaxPending
                  THEN Len(pressed') - MaxPending ELSE last_acknowledged_'
    BY DEF Oldest
  <2>3. Oldest' = IF n + 1 - last_acknowledged_ > MaxPending THEN n + 1 - MaxPending
                  ELSE last_acknowledged_
    <3>1. Len(pressed') - last_acknowledged_' = n + 1 - last_acknowledged_
      BY <1>3, <2>1
    <3>2. Len(pressed') - MaxPending = n + 1 - MaxPending
      BY <1>0, <1>3
    <3>3. CASE n + 1 - last_acknowledged_ > MaxPending
      BY <2>2, <3>1, <3>2, <3>3
    <3>4. CASE ~ (n + 1 - last_acknowledged_ > MaxPending)
      BY <2>1, <2>2, <3>1, <3>4
    <3> QED  BY <3>3, <3>4
  <2>4. o = IF n - last_acknowledged_ > MaxPending THEN n - MaxPending
            ELSE last_acknowledged_
    BY <1>1 DEF Oldest
  <2> QED  BY <1>0, <2>1, <2>3, <2>4
<1>5. input_history_' = Numbers(o + drop, n + 1)
  <2>1. input_history_' = Kept(Numbers(o, n), n + 1)
    BY <1>1, <1>2 DEF Press
  <2>2. Numbers(o, n) \in Seq(Nat) /\ Len(Numbers(o, n)) = n - o /\ n + 1 \in Nat
    <3>1. Numbers(o, n) \in Seq(Nat) /\ Len(Numbers(o, n)) = n - o
      BY <1>2, NumbersAre
    <3> QED  BY <3>1
  <2>3. /\ input_history_' \in Seq(Nat)
        /\ Shifted(input_history_', Numbers(o, n), n + 1, n + 1 - (o + drop), drop)
    <3> HIDE DEF drop
    <3> QED  BY <1>2, <1>3, <2>1, <2>2, KeptNumbered DEF drop
  <2> HIDE DEF drop
  <2> QED  BY <1>2, <1>3, <2>3, ShiftedNumbers
<1>6. predictions_' = Kept(predictions_, p)
  BY <1>1 DEF Press
<1>7. predictions_ \in Seq(S) /\ p \in S
  <2>1. [sequence : Sent, position : Int] \subseteq S
    BY DEF Sent
  <2>2. predictions_ \in Seq(S)
    BY <1>0, <2>1, SeqMonotonic DEF TypeOK
  <2> QED  BY <1>0, <2>2 DEF TypeOK
<1>8. p.sequence = n + 1 /\ p.position = position'
  BY DEF Press
<1> HIDE DEF p, S, drop
<1>9. Shifted(predictions_', predictions_, p, n + 1 - (o + drop), drop)
  BY <1>2, <1>3, <1>6, <1>7, KeptNumbered DEF drop
<1>10. Numbered(predictions_', o + drop, n + 1 - (o + drop))
  <2>1. Numbered(predictions_, o, n - o)
    BY <1>2 DEF Numbered
  <2> QED  BY <1>2, <1>3, <1>8, <1>9, <2>1, ShiftedSequences
<1>11. HistoryIsTheRest'
  <2>1. input_history_' = Numbers(Oldest', Len(pressed'))
    BY <1>3, <1>4, <1>5
  <2>2. Len(predictions_') = Len(pressed') - Oldest'
    BY <1>3, <1>4, <1>9 DEF Shifted
  <2>3. \A i \in 1 .. Len(pressed') - Oldest' : predictions_'[i].sequence = Oldest' + i
    BY <1>3, <1>4, <1>10 DEF Numbered
  <2> QED  BY <2>1, <2>2, <2>3 DEF HistoryIsTheRest, Oldest, Numbers
<1>12. ShowsPrediction'
  BY <1>8, <1>9 DEF ShowsPrediction, Shifted
<1>13. predictions_' # <<>>
  BY <1>9 DEF Shifted
<1> QED  BY <1>11, <1>12, <1>13

LEMMA PressInv ==
  ASSUME Inv, NEW move \in Moves, Press(move)
  PROVE  Inv'
<1>0. TypeOK /\ TypeOK' /\ HistoryIsTheRest' /\ ShowsPrediction'
  BY PressTypes, PressHistory DEF Inv, InputsAccountedFor
<1>1. UNCHANGED <<buffer_, last_processed, player, reports, applied, last_acknowledged_>>
  BY DEF Press
<1>2. ASSUME NEW s \in Seq(Sent)
      PROVE  Simulate(pressed', 0, s) = Simulate(pressed, 0, s)
  <2>1. pressed \in [Sent -> Int] /\ pressed' \in [Sent' -> Int]
    <3>1. pressed' \in Seq(Moves) /\ Moves \subseteq Int
      BY <1>0, ConstantsAssumption DEF TypeOK
    <3>2. pressed' \in Seq(Int)
      BY <3>1, SeqMonotonic
    <3> QED  BY <1>0, <3>2, PressedType, LenProperties DEF Sent
  <2>2. s \in Seq(Sent') /\ \A k \in 1 .. Len(s) : pressed[s[k]] = pressed'[s[k]]
    <3>1. Sent \subseteq Sent' /\ \A n \in Sent : pressed'[n] = pressed[n]
      BY PressTypes
    <3> QED  BY <3>1, SeqMonotonic, ElementOfSeq
  <2>3. Simulate(pressed, 0, s) = Simulate(pressed', 0, s)
    BY <2>1, <2>2, SameMoves
  <2> QED  BY <2>3
<1>3. applied \in Seq(Sent) /\ \A i \in DOMAIN applied : SubSeq(applied, 1, i) \in Seq(Sent)
  <2>1. applied \in Seq(Sent)
    BY <1>0 DEF TypeOK
  <2>2. ASSUME NEW i \in DOMAIN applied
        PROVE  SubSeq(applied, 1, i) \in Seq(Sent)
    <3>1. i \in 1 .. Len(applied) /\ Len(applied) \in Nat
      BY <2>1, LenProperties
    <3>2. \A j \in 1 .. i : applied[j] \in Sent
      BY <2>1, <3>1, ElementOfSeq
    <3> QED  BY <3>1, <3>2, SubSeqProperties
  <2> QED  BY <2>1, <2>2
<1>4. AppliedInOrder'
  <2>1. AppliedInOrder
    BY DEF Inv, InputsAccountedFor
  <2>2. \A i \in DOMAIN applied :
          Simulate(pressed', 0, SubSeq(applied, 1, i)) = Simulate(pressed, 0, SubSeq(applied, 1, i))
    BY <1>2, <1>3
  <2> QED  BY <1>1, <2>1, <2>2 DEF AppliedInOrder
<1>5. BufferInOrder' /\ AppliedBehind'
  BY <1>1 DEF Inv, BufferInOrder, AppliedBehind
<1>6. PlayerMoved'
  BY <1>1, <1>2, <1>3 DEF Inv, PlayerMoved
<1>7. AtRestItAgrees'
  <2>1. PICK n \in Nat : n = Len(pressed)
    BY <1>0, PressedType
  <2>2. Len(pressed') = n + 1 /\ last_acknowledged_' \in 0 .. n
    BY <1>0, <1>1, <2>1, PressTypes DEF TypeOK
  <2>3. last_acknowledged_' # Len(pressed')
    BY <2>2
  <2> QED  BY <2>3 DEF AtRestItAgrees
<1> QED  BY <1>0, <1>4, <1>5, <1>6, <1>7 DEF Inv, InputsAccountedFor

----------------------------------------------------------------------------
(* A report arrives. *)

LEMMA DistanceType ==
  ASSUME NEW a \in Int, NEW b \in Int
  PROVE  Distance(a, b) \in Nat /\ Distance(a, b) = Distance(b, a) /\ Distance(a, a) = 0
  BY DEF Distance

\* A report that finds its prediction leaves what is behind it.
LEMMA ReconcileFacts ==
  ASSUME TypeOK, HistoryIsTheRest, NEW report \in reports, Reconcile(report)
  PROVE  \E n \in Nat, o \in Nat, a \in Nat, at \in Int :
           /\ n = Len(pressed) /\ o = Oldest /\ o < a /\ a <= n
           /\ n - a <= MaxPending /\ last_acknowledged_ <= o
           /\ report = [sequence |-> a, position |-> at]
           /\ last_acknowledged_' = a
           /\ Unacknowledged(a) = Numbers(a, n)
           /\ input_history_' = Numbers(a, n)
           /\ Len(predictions_) = n - o /\ Numbered(predictions_, o, n - o)
           /\ predictions_' = SubSeq(predictions_, a - o + 1, n - o)
           /\ \/ /\ Distance(at, predictions_[a - o].position) > Threshold
                 /\ position' = Simulate(pressed, at, Numbers(a, n))
                 /\ replayed' = (Numbers(a, n) # <<>>)
              \/ /\ Distance(at, predictions_[a - o].position) <= Threshold
                 /\ UNCHANGED <<position, replayed>>
<1>1. PICK n \in Nat, o \in Nat : n = Len(pressed) /\ o = Oldest
  BY PressedType, HistoryFacts
<1>2. /\ o <= n /\ n - o <= MaxPending /\ last_acknowledged_ <= o
      /\ input_history_ = Numbers(o, n)
      /\ Len(predictions_) = n - o /\ Numbered(predictions_, o, n - o)
  <2>1. /\ Oldest \in last_acknowledged_ .. Len(pressed) /\ Oldest \in Nat
        /\ Len(pressed) - Oldest <= MaxPending
        /\ input_history_ = Numbers(Oldest, Len(pressed))
        /\ Len(predictions_) = Len(pressed) - Oldest
        /\ \A i \in 1 .. Len(pressed) - Oldest : predictions_[i].sequence = Oldest + i
    BY HistoryFacts
  <2> HIDE DEF Oldest
  <2> QED  BY <1>1, <2>1 DEF Numbered
<1>3. PICK a \in Nat, at \in Int :
        report = [sequence |-> a, position |-> at] /\ a <= n
  BY <1>1 DEF TypeOK, Sent
<1>4. report.sequence = a /\ report.position = at
  BY <1>3
<1>5. PICK i \in DOMAIN predictions_ :
        /\ predictions_[i].sequence = a
        /\ IF Distance(at, predictions_[i].position) > Threshold
           THEN LET inputs == Unacknowledged(a) IN
                /\ position' = Resimulate(at, inputs)
                /\ replayed' = (inputs # <<>>)
           ELSE UNCHANGED <<position, replayed>>
        /\ AcknowledgeUpTo(a)
  BY <1>4 DEF Reconcile
<1>6. i \in 1 .. n - o /\ i = a - o /\ o < a
  <2>1. DOMAIN predictions_ = 1 .. n - o
    BY <1>2, LenProperties DEF TypeOK
  <2>2. predictions_[i].sequence = o + i
    BY <1>2, <2>1 DEF Numbered
  <2>3. i \in 1 .. n - o /\ a = o + i
    BY <1>5, <2>1, <2>2
  <2> QED  BY <2>3
<1>7. Unacknowledged(a) = Numbers(a, n)
  <2>1. Unacknowledged(a) = Newer(a, Numbers(o, n))
    BY <1>2 DEF Unacknowledged, Newer
  <2> QED  BY <1>3, <1>6, <2>1, NewerNumbers
<1>8. Lower(Numbers(o, n), a + 1) = a - o
  BY <1>3, <1>6, LowerOfNumbers
<1>9. input_history_' = Numbers(a, n)
  <2>1. input_history_' = SubSeq(Numbers(o, n), a - o + 1, n - o)
    <3>1. Len(Numbers(o, n)) = n - o
      BY <1>2, NumbersAre
    <3> QED  BY <1>2, <1>5, <1>8, <3>1 DEF AcknowledgeUpTo, Popped
  <2>2. SubSeq(Numbers(o, n), a - o + 1, n - o) = Numbers(a, n)
    <3> DEFINE d == Numbers(o, n)
               e == SubSeq(d, a - o + 1, n - o)
               f == Numbers(a, n)
    <3>1. d \in Seq(Nat) /\ Len(d) = n - o
      BY <1>2, NumbersAre
    <3>2. \A j \in 1 .. n - o : d[j] = o + j
      BY DEF Numbers
    <3>3. f \in Seq(Nat) /\ Len(f) = n - a
      BY <1>3, NumbersAre
    <3>4. \A j \in 1 .. n - a : f[j] = a + j
      BY DEF Numbers
    <3>5. /\ e \in Seq(Nat) /\ Len(e) = n - a
          /\ \A j \in 1 .. n - a : e[j] = d[a - o + j]
      <4> HIDE DEF d
      <4>1. a - o \in 0 .. Len(d) /\ Len(d) - (a - o) = n - a
        BY <1>3, <1>6, <3>1
      <4> DEFINE k == a - o
      <4>2. /\ SubSeq(d, k + 1, Len(d)) \in Seq(Nat)
            /\ Len(SubSeq(d, k + 1, Len(d))) = Len(d) - k
            /\ \A j \in 1 .. Len(d) - k : SubSeq(d, k + 1, Len(d))[j] = d[k + j]
        <5> k \in 0 .. Len(d)
          BY <4>1
        <5> HIDE DEF k
        <5> QED  BY <3>1, RestIs
      <4> QED  BY <3>1, <4>1, <4>2
    <3> HIDE DEF d, e, f
    <3>6. ASSUME NEW j \in 1 .. n - a
          PROVE  e[j] = f[j]
      <4>1. a - o + j \in 1 .. n - o
        BY <1>6
      <4> QED  BY <3>2, <3>4, <3>5, <4>1
    <3>7. e = f
      BY <3>3, <3>5, <3>6, SeqEqual
    <3> QED  BY <3>7 DEF d, e, f
  <2> QED  BY <2>1, <2>2
<1>10. predictions_' = SubSeq(predictions_, a - o + 1, n - o)
  <2> DEFINE numbers == [j \in DOMAIN predictions_ |-> predictions_[j].sequence]
  <2>1. DOMAIN predictions_ = 1 .. n - o
    BY <1>2, LenProperties DEF TypeOK
  <2>2. numbers = Numbers(o, n)
    BY <1>2, <2>1 DEF Numbers, Numbered
  <2>3. predictions_' = Popped(predictions_, numbers, a)
    BY <1>5 DEF AcknowledgeUpTo
  <2> QED  BY <1>2, <1>8, <2>2, <2>3 DEF Popped
<1>11. last_acknowledged_' = a
  BY <1>5 DEF AcknowledgeUpTo
<1>12. Distance(at, predictions_[a - o].position) \in Nat /\ Threshold \in Nat
  <2>1. predictions_[i].position \in Int
    <3>1. predictions_[i] \in [sequence : Sent, position : Int]
      BY <1>5, LenProperties, ElementOfSeq DEF TypeOK
    <3> QED  BY <3>1
  <2> QED  BY <1>6, <2>1, DistanceType, ConstantsAssumption
<1>13. \/ /\ Distance(at, predictions_[a - o].position) > Threshold
          /\ position' = Simulate(pressed, at, Numbers(a, n))
          /\ replayed' = (Numbers(a, n) # <<>>)
       \/ /\ Distance(at, predictions_[a - o].position) <= Threshold
          /\ UNCHANGED <<position, replayed>>
  <2>1. CASE Distance(at, predictions_[a - o].position) > Threshold
    BY <1>5, <1>6, <1>7, <2>1 DEF Resimulate
  <2>2. CASE ~ (Distance(at, predictions_[a - o].position) > Threshold)
    BY <1>5, <1>6, <1>12, <2>2
  <2> QED  BY <2>1, <2>2
<1>14. n - a <= MaxPending
  BY <1>2, <1>6, ConstantsAssumption
<1> QED  BY <1>1, <1>2, <1>3, <1>6, <1>7, <1>9, <1>10, <1>11, <1>13, <1>14

LEMMA ReconcileInv ==
  ASSUME Inv, NEW report \in reports, Reconcile(report)
  PROVE  Inv'
<1>0. TypeOK /\ HistoryIsTheRest /\ AppliedInOrder
  BY DEF Inv, InputsAccountedFor
<1>1. PICK n \in Nat, o \in Nat, a \in Nat, at \in Int :
        /\ n = Len(pressed) /\ o = Oldest /\ o < a /\ a <= n
        /\ n - a <= MaxPending /\ last_acknowledged_ <= o
        /\ report = [sequence |-> a, position |-> at]
        /\ last_acknowledged_' = a
        /\ Unacknowledged(a) = Numbers(a, n)
        /\ input_history_' = Numbers(a, n)
        /\ Len(predictions_) = n - o /\ Numbered(predictions_, o, n - o)
        /\ predictions_' = SubSeq(predictions_, a - o + 1, n - o)
        /\ \/ /\ Distance(at, predictions_[a - o].position) > Threshold
              /\ position' = Simulate(pressed, at, Numbers(a, n))
              /\ replayed' = (Numbers(a, n) # <<>>)
           \/ /\ Distance(at, predictions_[a - o].position) <= Threshold
              /\ UNCHANGED <<position, replayed>>
  BY <1>0, ReconcileFacts
<1>2. UNCHANGED pressed /\ UNCHANGED serverVars
  BY DEF Reconcile
<1>3. /\ pressed \in [Sent -> Int] /\ Sent = 1 .. n /\ Sent' = 1 .. n
      /\ Len(pressed') = n
  BY <1>0, <1>1, <1>2, PressedType DEF Sent
<1>4. Numbers(a, n) \in Seq(Sent) /\ (Numbers(a, n) # <<>> <=> a < n)
  <2>1. Numbers(a, n) \in Seq(1 .. n)
    BY <1>1 DEF Numbers
  <2>2. Len(Numbers(a, n)) = n - a
    BY <1>1, NumbersAre
  <2>3. Numbers(a, n) = <<>> <=> n - a = 0
    BY <2>1, <2>2
  <2> QED  BY <1>1, <1>3, <2>1, <2>3
<1>5. Simulate(pressed, at, Numbers(a, n)) \in Int
  BY <1>3, <1>4, SimulateType
<1> DEFINE S == [sequence : Sent, position : Int]
           k == a - o
<1>6. /\ predictions_' \in Seq(S) /\ Len(predictions_') = n - a
      /\ \A i \in 1 .. n - a : predictions_'[i] = predictions_[k + i]
  <2>1. predictions_ \in Seq(S) /\ k \in 0 .. Len(predictions_)
        /\ Len(predictions_) - k = n - a
    BY <1>0, <1>1 DEF TypeOK
  <2>2. /\ SubSeq(predictions_, k + 1, Len(predictions_)) \in Seq(S)
        /\ Len(SubSeq(predictions_, k + 1, Len(predictions_))) = Len(predictions_) - k
        /\ \A i \in 1 .. Len(predictions_) - k :
             SubSeq(predictions_, k + 1, Len(predictions_))[i] = predictions_[k + i]
    <3> HIDE DEF k, S
    <3> QED  BY <2>1, RestIs
  <2>3. predictions_' = SubSeq(predictions_, k + 1, Len(predictions_))
    BY <1>1
  <2> QED  BY <2>1, <2>2, <2>3
<1>7. TypeOK'
  <2>1. position' \in Int
    BY <1>0, <1>1, <1>5 DEF TypeOK
  <2>2. replayed' \in BOOLEAN
    <3>1. replayed \in BOOLEAN
      BY <1>0 DEF TypeOK
    <3>2. CASE replayed' = (Numbers(a, n) # <<>>)
      BY <3>2
    <3>3. CASE UNCHANGED <<position, replayed>>
      BY <3>1, <3>3
    <3> QED  BY <1>1, <3>2, <3>3
  <2>3. last_acknowledged_' \in 0 .. Len(pressed')
    BY <1>1, <1>3
  <2>4. input_history_' \in Seq(Sent') /\ predictions_' \in Seq([sequence : Sent', position : Int])
    BY <1>1, <1>3, <1>4, <1>6
  <2>5. /\ pressed' \in Seq(Moves) /\ buffer_' \in Seq(Sent')
        /\ age' \in [Sent' -> 0 .. Delay] /\ applied' \in Seq(Sent')
        /\ last_processed' \in 0 .. Len(pressed') /\ player' \in Int
        /\ reports' \subseteq [sequence : Sent', position : Int]
    BY <1>0, <1>2 DEF TypeOK, Sent, serverVars
  <2> QED  BY <2>1, <2>2, <2>3, <2>4, <2>5 DEF TypeOK
<1>8. HistoryIsTheRest'
  <2>1. Oldest' = a
    <3>1. ~ (Len(pressed') - last_acknowledged_' > MaxPending)
      <4>1. Len(pressed') - last_acknowledged_' = n - a
        BY <1>1, <1>3
      <4> QED  BY <1>1, <4>1, ConstantsAssumption
    <3> QED  BY <1>1, <3>1 DEF Oldest
  <2>2. \A i \in 1 .. n - a : predictions_'[i].sequence = a + i
    <3> TAKE i \in 1 .. n - a
    <3>1. k + i \in 1 .. n - o
      BY <1>1
    <3>2. predictions_[k + i].sequence = o + (k + i)
      BY <1>1, <3>1 DEF Numbered
    <3>3. predictions_'[i] = predictions_[k + i]
      BY <1>6
    <3> QED  BY <3>2, <3>3
  <2>3. input_history_' = Numbers(Oldest', Len(pressed'))
    BY <1>1, <1>3, <2>1
  <2>4. Len(predictions_') = Len(pressed') - Oldest'
    BY <1>3, <1>6, <2>1
  <2>5. \A i \in 1 .. Len(pressed') - Oldest' : predictions_'[i].sequence = Oldest' + i
    BY <1>3, <2>1, <2>2
  <2> QED  BY <2>3, <2>4, <2>5 DEF HistoryIsTheRest, Oldest, Numbers
<1>9. AppliedInOrder' /\ BufferInOrder' /\ AppliedBehind' /\ PlayerMoved'
  BY <1>0, <1>2 DEF Inv, AppliedInOrder, BufferInOrder, AppliedBehind, PlayerMoved,
       serverVars
<1>10. ShowsPrediction'
  <2> SUFFICES ASSUME predictions_' # <<>>, ~replayed'
               PROVE  predictions_'[Len(predictions_')].position = position'
    BY DEF ShowsPrediction
  <2>1. a < n
    BY <1>1, <1>6
  <2>2. UNCHANGED <<position, replayed>>
    BY <1>1, <1>4, <2>1
  <2>3. n - a \in 1 .. n - a /\ k + (n - a) = n - o
    BY <1>1, <2>1
  <2>4. predictions_'[n - a] = predictions_[k + (n - a)]
    <3> HIDE DEF k
    <3> QED  BY <1>6, <2>3
  <2>5. predictions_'[n - a] = predictions_[n - o]
    BY <2>3, <2>4
  <2>6. predictions_ # <<>>
    BY <1>1
  <2>7. predictions_[n - o].position = position
    BY <1>1, <2>2, <2>6 DEF Inv, ShowsPrediction
  <2> QED  BY <1>6, <2>2, <2>5, <2>7
<1>11. AtRestItAgrees'
  <2> SUFFICES ASSUME a = n, ~replayed'
               PROVE  \E r \in reports' : /\ r.sequence = last_acknowledged_'
                                         /\ Distance(position', r.position) <= Threshold
    BY <1>1, <1>3 DEF AtRestItAgrees
  <2>1. report \in reports' /\ report.sequence = last_acknowledged_' /\ report.position = at
    BY <1>1, <1>2 DEF serverVars
  <2>2. predictions_[n - o] \in S
    <3>1. predictions_ \in Seq(S) /\ n - o \in 1 .. Len(predictions_)
      BY <1>0, <1>1 DEF TypeOK
    <3> HIDE DEF S
    <3> QED  BY <3>1, ElementOfSeq
  <2>3. Distance(position', at) <= Threshold
    <3>1. CASE position' = Simulate(pressed, at, Numbers(a, n))
      <4>1. Numbers(a, n) = <<>>
        BY <1>4
      <4>2. Simulate(pressed, at, <<>>) = at
        BY <1>3, SimulateOfNone
      <4> QED  BY <3>1, <4>1, <4>2, DistanceType, ConstantsAssumption
    <3>2. CASE /\ Distance(at, predictions_[a - o].position) <= Threshold
               /\ UNCHANGED <<position, replayed>>
      <4>1. predictions_ # <<>>
        BY <1>1
      <4>2. predictions_[n - o].position = position
        BY <1>1, <3>2, <4>1 DEF Inv, ShowsPrediction
      <4>3. Distance(at, position) <= Threshold /\ position' = position
        BY <3>2, <4>2
      <4>4. Distance(at, position) = Distance(position, at)
        BY <1>0, DistanceType DEF TypeOK
      <4> QED  BY <4>3, <4>4
    <3> QED  BY <1>1, <3>1, <3>2
  <2> QED  BY <2>1, <2>3
<1> QED  BY <1>7, <1>8, <1>9, <1>10, <1>11 DEF Inv, InputsAccountedFor

----------------------------------------------------------------------------
(* The server's buffer. *)

\* A sorted insertion of what is not there.
LEMMA InsertedIs ==
  ASSUME NEW S, S \subseteq Int, NEW d \in Seq(S), Increasing(d), NEW n \in S,
         \A i \in DOMAIN d : d[i] # n
  PROVE  /\ Inserted(d, n) \in Seq(S)
         /\ Increasing(Inserted(d, n))
         /\ Range(Inserted(d, n)) \subseteq Range(d) \union {n}
<1> DEFINE e == Inserted(d, n)
<1>1. /\ DOMAIN d = 1 .. Len(d) /\ Len(d) \in Nat /\ d \in Seq(Int)
      /\ \A i \in 1 .. Len(d) : d[i] \in S /\ d[i] \in Int
  BY LenProperties, ElementOfSeq, SeqMonotonic
<1>2. PICK k \in Nat : k = Lower(d, n) /\ k <= Len(d)
  <2>1. Lower(d, n) \in 0 .. Len(d)
    BY <1>1, LowerIs
  <2> QED  BY <1>1, <2>1
<1>3. /\ \A i \in 1 .. k : d[i] < n
      /\ \A i \in k + 1 .. Len(d) : d[i] > n
  <2>1. /\ \A i \in 1 .. Lower(d, n) : d[i] < n
        /\ \A i \in Lower(d, n) + 1 .. Len(d) : d[i] >= n
    BY <1>1, LowerIs
  <2>2. ASSUME NEW i \in k + 1 .. Len(d)
        PROVE  d[i] > n
    <3>1. i \in 1 .. Len(d) /\ d[i] >= n
      BY <1>1, <1>2, <2>1
    <3>2. d[i] # n /\ d[i] \in Int
      BY <1>1, <3>1
    <3> QED  BY <3>1, <3>2
  <2> QED  BY <1>2, <2>1, <2>2
<1>4. PICK len \in Nat : len = Len(d)
  BY <1>1
<1> DEFINE b == SubSeq(d, 1, k)
           c == SubSeq(d, k + 1, len)
           f == b \o <<n>>
<1>5. e = f \o c
  <2> DEFINE m == Lower(d, n) + 1
  <2>1. e = InsertAt(d, m, n)
    BY DEF Inserted
  <2>2. m = k + 1 /\ m - 1 = k
    BY <1>2
  <2> HIDE DEF m, e
  <2>3. InsertAt(d, m, n) = SubSeq(d, 1, m - 1) \o <<n>> \o SubSeq(d, m, Len(d))
    BY DEF InsertAt
  <2> QED  BY <1>4, <2>1, <2>2, <2>3
<1>6. /\ b \in Seq(S) /\ Len(b) = k
      /\ \A i \in 1 .. k : b[i] = d[i]
  <2>1. \A i \in 1 .. k : d[i] \in S
    BY <1>1, <1>2, <1>4
  <2>2. /\ b \in Seq(S) /\ Len(b) = IF 1 <= k THEN k - 1 + 1 ELSE 0
        /\ \A i \in 1 .. k - 1 + 1 : b[i] = d[1 + i - 1]
    BY <2>1, SubSeqProperties
  <2> HIDE DEF b
  <2> QED  BY <2>2
<1>7. /\ c \in Seq(S) /\ Len(c) = len - k
      /\ \A i \in 1 .. len - k : c[i] = d[k + i]
  <2>1. k \in 0 .. Len(d)
    BY <1>1, <1>2
  <2>2. /\ SubSeq(d, k + 1, Len(d)) \in Seq(S)
        /\ Len(SubSeq(d, k + 1, Len(d))) = Len(d) - k
        /\ \A i \in 1 .. Len(d) - k : SubSeq(d, k + 1, Len(d))[i] = d[k + i]
    BY <2>1, RestIs
  <2> QED  BY <1>4, <2>2
<1> HIDE DEF b, c
<1>8. /\ f \in Seq(S) /\ Len(f) = k + 1 /\ f[k + 1] = n
      /\ \A i \in 1 .. k : f[i] = d[i]
  <2>1. <<n>> \in Seq(S) /\ Len(<<n>>) = 1 /\ <<n>>[1] = n
    OBVIOUS
  <2>2. /\ f \in Seq(S) /\ Len(f) = Len(b) + Len(<<n>>)
        /\ \A i \in 1 .. Len(b) + Len(<<n>>) :
             f[i] = IF i <= Len(b) THEN b[i] ELSE <<n>>[i - Len(b)]
    BY <1>6, <2>1, ConcatProperties
  <2> HIDE DEF f
  <2>3. k + 1 \in 1 .. k + 1 /\ ~ (k + 1 <= k) /\ k + 1 - k = 1
    OBVIOUS
  <2>4. f[k + 1] = n
    BY <1>6, <2>1, <2>2, <2>3
  <2>5. \A i \in 1 .. k : f[i] = d[i]
    BY <1>6, <2>1, <2>2
  <2> QED  BY <1>6, <2>1, <2>2, <2>4, <2>5
<1> HIDE DEF f
<1>9. /\ e \in Seq(S) /\ Len(e) = len + 1 /\ e[k + 1] = n
      /\ \A i \in 1 .. k : e[i] = d[i]
      /\ \A i \in k + 2 .. len + 1 : e[i] = d[i - 1]
  <2> DEFINE g == f \o c
  <2>1. /\ g \in Seq(S) /\ Len(g) = Len(f) + Len(c)
        /\ \A i \in 1 .. Len(f) + Len(c) :
             g[i] = IF i <= Len(f) THEN f[i] ELSE c[i - Len(f)]
    BY <1>7, <1>8, ConcatProperties
  <2> HIDE DEF g
  <2>2. Len(f) + Len(c) = len + 1 /\ Len(f) = k + 1 /\ k <= len
    BY <1>2, <1>4, <1>7, <1>8
  <2>3. \A i \in 1 .. len + 1 : g[i] = IF i <= k + 1 THEN f[i] ELSE c[i - (k + 1)]
    BY <2>1, <2>2
  <2>4. g[k + 1] = n /\ \A i \in 1 .. k : g[i] = d[i]
    BY <1>8, <2>2, <2>3
  <2>5. ASSUME NEW i \in k + 2 .. len + 1
        PROVE  g[i] = d[i - 1]
    <3>1. i \in 1 .. len + 1 /\ ~ (i <= k + 1) /\ i - (k + 1) \in 1 .. len - k
      BY <2>2
    <3>2. g[i] = c[i - (k + 1)]
      BY <2>3, <3>1
    <3>3. c[i - (k + 1)] = d[k + (i - (k + 1))]
      BY <1>7, <3>1
    <3>4. k + (i - (k + 1)) = i - 1
      OBVIOUS
    <3> QED  BY <3>2, <3>3, <3>4
  <2>6. e = g
    BY <1>5 DEF g
  <2> QED  BY <2>1, <2>2, <2>4, <2>5, <2>6
<1> HIDE DEF e
<1>10. DOMAIN e = 1 .. len + 1
  BY <1>9, LenProperties
<1>11. ASSUME NEW i \in 1 .. len + 1
       PROVE  \/ i \in 1 .. k /\ e[i] = d[i] /\ i \in 1 .. len
              \/ i = k + 1 /\ e[i] = n
              \/ i \in k + 2 .. len + 1 /\ e[i] = d[i - 1] /\ i - 1 \in 1 .. len
  BY <1>2, <1>4, <1>9
<1>12. ASSUME NEW i \in 1 .. len + 1, NEW j \in 1 .. len + 1, i < j
       PROVE  e[i] < e[j]
  <2>0. \A x, y \in 1 .. len : x < y => d[x] < d[y]
    BY <1>1, <1>4 DEF Increasing
  <2>1. CASE i \in 1 .. k /\ j \in 1 .. k
    BY <1>2, <1>4, <1>9, <1>12, <2>0, <2>1
  <2>2. CASE i \in 1 .. k /\ j = k + 1
    BY <1>3, <1>9, <2>2
  <2>3. CASE i \in 1 .. k /\ j \in k + 2 .. len + 1
    <3>1. e[i] = d[i] /\ e[j] = d[j - 1]
      BY <1>9, <2>3
    <3>2. i \in 1 .. len /\ j - 1 \in 1 .. len /\ i < j - 1
      BY <1>2, <1>4, <2>3
    <3> QED  BY <2>0, <3>1, <3>2
  <2>4. CASE i = k + 1 /\ j \in k + 2 .. len + 1
    <3>1. j - 1 \in k + 1 .. Len(d)
      BY <1>4, <2>4
    <3>2. d[j - 1] > n /\ d[j - 1] \in Int /\ n \in Int
      BY <1>1, <1>3, <3>1
    <3> QED  BY <1>9, <2>4, <3>2
  <2>5. CASE i \in k + 2 .. len + 1 /\ j \in k + 2 .. len + 1
    <3>1. e[i] = d[i - 1] /\ e[j] = d[j - 1]
      BY <1>9, <2>5
    <3>2. i - 1 \in 1 .. len /\ j - 1 \in 1 .. len /\ i - 1 < j - 1
      BY <1>12, <2>5
    <3> QED  BY <2>0, <3>1, <3>2
  <2> QED  BY <1>12, <2>1, <2>2, <2>3, <2>4, <2>5
<1>13. Increasing(e)
  BY <1>10, <1>12 DEF Increasing
<1>14. Range(e) \subseteq Range(d) \union {n}
  <2>1. \A i \in DOMAIN e : e[i] = n \/ \E j \in DOMAIN d : e[i] = d[j]
    BY <1>1, <1>4, <1>10, <1>11
  <2> QED  BY <2>1 DEF Range
<1> QED  BY <1>9, <1>13, <1>14 DEF e

\* Cut down from the front, it keeps its order.
LEMMA LimitedIs ==
  ASSUME NEW S, S \subseteq Int, NEW d \in Seq(S), Increasing(d)
  PROVE  /\ Limited(d) \in Seq(S)
         /\ Increasing(Limited(d))
         /\ Range(Limited(d)) \subseteq Range(d)
<1>1. PICK len \in Nat : len = Len(d) /\ DOMAIN d = 1 .. len
  BY LenProperties
<1>2. PICK k \in Nat : k = IF len > BufferSize THEN len - BufferSize ELSE 0
  <2>1. CASE len > BufferSize
    <3>1. len - BufferSize \in Nat
      BY <2>1, ConstantsAssumption
    <3> QED  BY <2>1, <3>1
  <2>2. CASE ~ (len > BufferSize)
    BY <2>2
  <2> QED  BY <2>1, <2>2
<1>3. k <= len
  BY <1>2, ConstantsAssumption
<1> DEFINE e == SubSeq(d, k + 1, Len(d))
<1>4. Limited(d) = e
  <2>1. CASE len > BufferSize
    BY <1>1, <1>2, <2>1 DEF Limited
  <2>2. CASE ~ (len > BufferSize)
    <3>1. k + 1 = 1
      BY <1>2, <2>2
    <3> QED  BY <1>1, <2>2, <3>1 DEF Limited
  <2> QED  BY <2>1, <2>2
<1>5. /\ e \in Seq(S) /\ Len(e) = len - k
      /\ \A i \in 1 .. len - k : e[i] = d[k + i]
  <2>1. /\ SubSeq(d, k + 1, Len(d)) \in Seq(S)
        /\ Len(SubSeq(d, k + 1, Len(d))) = Len(d) - k
        /\ \A i \in 1 .. Len(d) - k : SubSeq(d, k + 1, Len(d))[i] = d[k + i]
    BY <1>1, <1>3, RestIs
  <2> QED  BY <1>1, <2>1
<1> HIDE DEF e
<1>6. DOMAIN e = 1 .. len - k
  BY <1>5, LenProperties
<1>7. Increasing(e)
  <2> SUFFICES ASSUME NEW i \in 1 .. len - k, NEW j \in 1 .. len - k, i < j
               PROVE  e[i] < e[j]
    BY <1>6 DEF Increasing
  <2>1. k + i \in 1 .. len /\ k + j \in 1 .. len /\ k + i < k + j
    BY <1>3
  <2> QED  BY <1>1, <1>5, <2>1 DEF Increasing
<1>8. Range(e) \subseteq Range(d)
  <2>1. \A i \in DOMAIN e : k + i \in DOMAIN d /\ e[i] = d[k + i]
    BY <1>1, <1>3, <1>5, <1>6
  <2> QED  BY <2>1 DEF Range
<1> QED  BY <1>4, <1>5, <1>7, <1>8

LEMMA PushInv ==
  ASSUME Inv, NEW n \in Sent, Push(n)
  PROVE  Inv'
<1>0. TypeOK /\ HistoryIsTheRest /\ AppliedInOrder /\ BufferInOrder
  BY DEF Inv, InputsAccountedFor
<1>1. /\ UNCHANGED <<last_processed, player, reports, applied>> /\ UNCHANGED clientVars
      /\ n > last_processed /\ buffer_' = Limited(Inserted(buffer_, n))
      /\ \A i \in DOMAIN buffer_ : buffer_[i] # n
      /\ age' = [m \in DOMAIN age |-> IF m \in Range(buffer_') \ {n} THEN age[m] ELSE 0]
  BY DEF Push
<1>2. Sent \subseteq Int /\ Sent' = Sent
  BY <1>1 DEF Sent, clientVars
<1> DEFINE e == Inserted(buffer_, n)
<1>3. /\ e \in Seq(Sent) /\ Increasing(e)
      /\ Range(e) \subseteq Range(buffer_) \union {n}
  BY <1>0, <1>1, <1>2, InsertedIs DEF TypeOK, BufferInOrder
<1> HIDE DEF e
<1>4. /\ buffer_' \in Seq(Sent) /\ Increasing(buffer_')
      /\ Range(buffer_') \subseteq Range(e)
  <2>1. buffer_' = Limited(e)
    BY <1>1 DEF e
  <2> QED  BY <1>2, <1>3, <2>1, LimitedIs
<1>5. \A i \in DOMAIN buffer_' : buffer_'[i] > last_processed
  <2>1. \A x \in Range(buffer_) : x > last_processed
    BY <1>0 DEF BufferInOrder, Range
  <2>2. \A x \in Range(buffer_') : x > last_processed
    BY <1>1, <1>3, <1>4, <2>1
  <2> QED  BY <2>2 DEF Range
<1>6. age' \in [Sent -> 0 .. Delay]
  <2>1. age \in [Sent -> 0 .. Delay] /\ 0 \in 0 .. Delay
    BY <1>0, ConstantsAssumption DEF TypeOK
  <2> HIDE DEF Sent
  <2> QED  BY <1>1, <2>1
<1>7. TypeOK'
  BY <1>0, <1>1, <1>2, <1>4, <1>6 DEF TypeOK, clientVars
<1>8. HistoryIsTheRest' /\ AppliedInOrder' /\ AppliedBehind' /\ PlayerMoved'
      /\ ShowsPrediction' /\ AtRestItAgrees'
  BY <1>0, <1>1 DEF Inv, HistoryIsTheRest, AppliedInOrder, AppliedBehind,
       PlayerMoved, ShowsPrediction, AtRestItAgrees, clientVars
<1>9. BufferInOrder'
  BY <1>1, <1>4, <1>5 DEF BufferInOrder
<1> QED  BY <1>7, <1>8, <1>9 DEF Inv, InputsAccountedFor

LEMMA SubSeqOfAppend ==
  ASSUME NEW S, NEW s \in Seq(S), NEW x \in S, NEW n \in Nat, n = Len(s)
  PROVE  /\ \A i \in 1 .. n : SubSeq(Append(s, x), 1, i) = SubSeq(s, 1, i)
         /\ SubSeq(Append(s, x), 1, n + 1) = Append(s, x)
<1> DEFINE a == Append(s, x)
<1>1. /\ a \in Seq(S) /\ Len(a) = n + 1
      /\ \A i \in 1 .. n : a[i] = s[i]
  BY AppendProperties
<1>2. \A i \in 1 .. n : s[i] \in S
  BY ElementOfSeq
<1> HIDE DEF a
<1>3. ASSUME NEW i \in 1 .. n
      PROVE  SubSeq(a, 1, i) = SubSeq(s, 1, i)
  <2> DEFINE b == SubSeq(a, 1, i)
             c == SubSeq(s, 1, i)
  <2>1. /\ b \in Seq(S) /\ Len(b) = IF 1 <= i THEN i - 1 + 1 ELSE 0
        /\ \A j \in 1 .. i - 1 + 1 : b[j] = a[1 + j - 1]
    <3>1. \A j \in 1 .. i : a[j] \in S
      BY <1>1, <1>2
    <3> QED  BY <3>1, SubSeqProperties
  <2>2. /\ c \in Seq(S) /\ Len(c) = IF 1 <= i THEN i - 1 + 1 ELSE 0
        /\ \A j \in 1 .. i - 1 + 1 : c[j] = s[1 + j - 1]
    <3>1. \A j \in 1 .. i : s[j] \in S
      BY <1>2
    <3> QED  BY <3>1, SubSeqProperties
  <2> HIDE DEF b, c
  <2>3. Len(b) = i /\ Len(c) = i /\ \A j \in 1 .. i : b[j] = c[j]
    BY <1>1, <2>1, <2>2
  <2>4. b = c
    BY <2>1, <2>2, <2>3, SeqEqual
  <2> QED  BY <2>4 DEF b, c
<1>4. SubSeq(a, 1, n + 1) = a
  BY <1>1, SubSeqFull
<1> QED  BY <1>3, <1>4 DEF a

LEMMA PopTypes ==
  ASSUME Inv, Pop
  PROVE  /\ TypeOK' /\ BufferInOrder'
         /\ Head(buffer_) \in Sent /\ Head(buffer_) > last_processed
<1>0. TypeOK /\ BufferInOrder
  BY DEF Inv, InputsAccountedFor
<1> DEFINE h == Head(buffer_)
<1>1. buffer_ \in Seq(Sent) /\ buffer_ # <<>>
  BY <1>0 DEF Pop, TypeOK
<1>2. PICK len \in Nat : len = Len(buffer_) /\ len > 0 /\ DOMAIN buffer_ = 1 .. len
  BY <1>1, LenProperties
<1>3. h \in Sent /\ h = buffer_[1]
  BY <1>1, <1>2, ElementOfSeq
<1>4. h > last_processed
  BY <1>0, <1>2, <1>3 DEF BufferInOrder
<1>5. /\ buffer_' \in Seq(Sent) /\ Len(buffer_') = len - 1
      /\ \A i \in 1 .. len - 1 : buffer_'[i] = buffer_[i + 1]
  <2>1. buffer_' = Tail(buffer_)
    BY DEF Pop
  <2>2. /\ Tail(buffer_) \in Seq(Sent) /\ Len(Tail(buffer_)) = Len(buffer_) - 1
        /\ \A i \in 1 .. Len(Tail(buffer_)) : Tail(buffer_)[i] = buffer_[i + 1]
    BY <1>1, HeadTailProperties
  <2> QED  BY <1>2, <2>1, <2>2
<1>6. UNCHANGED clientVars /\ Sent' = Sent
  BY DEF Pop, clientVars, Sent
<1>7. Sent \subseteq Int /\ pressed[h] \in Int /\ h \in 0 .. Len(pressed)
  BY <1>0, <1>3, PressedType DEF Sent
<1>8. last_processed' = h /\ player' = player + pressed[h]
      /\ applied' = Append(applied, h)
      /\ reports' = reports \union {[sequence |-> h, position |-> player']}
      /\ age' = [age EXCEPT ![h] = 0]
  BY DEF Pop
<1> HIDE DEF h
<1>9. BufferInOrder'
  <2>1. DOMAIN buffer_' = 1 .. len - 1
    BY <1>5, LenProperties
  <2>2. \A i, j \in 1 .. len : i < j => buffer_[i] < buffer_[j]
    BY <1>0, <1>2 DEF BufferInOrder, Increasing
  <2>3. ASSUME NEW i \in 1 .. len - 1
        PROVE  /\ buffer_'[i] > h
               /\ \A j \in 1 .. len - 1 : i < j => buffer_'[i] < buffer_'[j]
    <3>1. 1 \in 1 .. len /\ i + 1 \in 1 .. len /\ 1 < i + 1 /\ buffer_'[i] = buffer_[i + 1]
      BY <1>2, <1>5
    <3>2. buffer_[1] < buffer_[i + 1]
      BY <2>2, <3>1
    <3>3. buffer_[i + 1] \in Sent
      BY <1>1, <1>2, <3>1, ElementOfSeq
    <3>4. buffer_'[i] > h
      BY <1>3, <1>7, <3>1, <3>2, <3>3
    <3>5. ASSUME NEW j \in 1 .. len - 1, i < j
          PROVE  buffer_'[i] < buffer_'[j]
      <4>1. j + 1 \in 1 .. len /\ i + 1 < j + 1 /\ buffer_'[j] = buffer_[j + 1]
        BY <1>2, <1>5, <3>5
      <4> QED  BY <2>2, <3>1, <4>1
    <3> QED  BY <3>4, <3>5
  <2> QED  BY <1>8, <2>1, <2>3 DEF BufferInOrder, Increasing
<1>10. TypeOK'
  <2>1. player' \in Int
    BY <1>0, <1>7, <1>8 DEF TypeOK
  <2>2. age' \in [Sent' -> 0 .. Delay]
    <3>1. age \in [Sent -> 0 .. Delay] /\ 0 \in 0 .. Delay
      BY <1>0, ConstantsAssumption DEF TypeOK
    <3> HIDE DEF Sent
    <3> QED  BY <1>3, <1>6, <1>8, <3>1
  <2>3. applied' \in Seq(Sent')
    BY <1>0, <1>3, <1>6, <1>8, AppendProperties DEF TypeOK
  <2>4. reports' \subseteq [sequence : Sent', position : Int]
    BY <1>0, <1>3, <1>6, <1>8, <2>1 DEF TypeOK
  <2>5. last_processed' \in 0 .. Len(pressed')
    BY <1>6, <1>7, <1>8 DEF clientVars
  <2>6. buffer_' \in Seq(Sent')
    BY <1>5, <1>6
  <2>7. /\ pressed' \in Seq(Moves) /\ position' \in Int /\ input_history_' \in Seq(Sent')
        /\ predictions_' \in Seq([sequence : Sent', position : Int])
        /\ last_acknowledged_' \in 0 .. Len(pressed')
    BY <1>0, <1>6 DEF TypeOK, clientVars
  <2>8. replayed' \in BOOLEAN
    BY <1>0, <1>6 DEF TypeOK, clientVars
  <2> QED  BY <2>1, <2>2, <2>3, <2>4, <2>5, <2>6, <2>7, <2>8 DEF TypeOK
<1> QED  BY <1>3, <1>4, <1>9, <1>10 DEF h

LEMMA PopInv ==
  ASSUME Inv, Pop
  PROVE  Inv'
<1>0. TypeOK /\ AppliedInOrder /\ AppliedBehind /\ PlayerMoved
  BY DEF Inv, InputsAccountedFor
<1> DEFINE h == Head(buffer_)
<1>1. TypeOK' /\ BufferInOrder' /\ h \in Sent /\ h > last_processed
  BY PopTypes
<1>2. /\ last_processed' = h /\ player' = player + pressed[h]
      /\ applied' = Append(applied, h)
      /\ reports' = reports \union {[sequence |-> h, position |-> player']}
      /\ UNCHANGED clientVars
  BY DEF Pop
<1> HIDE DEF h
<1>3. PICK len \in Nat : len = Len(applied) /\ DOMAIN applied = 1 .. len
  BY <1>0, LenProperties DEF TypeOK
<1>4. /\ applied' \in Seq(Sent) /\ Len(applied') = len + 1 /\ DOMAIN applied' = 1 .. len + 1
      /\ \A i \in 1 .. len : applied'[i] = applied[i] /\ applied[i] \in Sent
      /\ applied'[len + 1] = h
  <2>1. applied \in Seq(Sent)
    BY <1>0 DEF TypeOK
  <2>2. /\ Append(applied, h) \in Seq(Sent)
        /\ Len(Append(applied, h)) = Len(applied) + 1
        /\ \A i \in 1 .. Len(applied) : Append(applied, h)[i] = applied[i]
        /\ Append(applied, h)[Len(applied) + 1] = h
    BY <1>1, <2>1, AppendProperties
  <2>3. \A i \in 1 .. len : applied[i] \in Sent
    BY <1>3, <2>1, ElementOfSeq
  <2>4. DOMAIN applied' = 1 .. Len(applied')
    BY <1>2, <2>2, LenProperties
  <2> QED  BY <1>2, <1>3, <2>2, <2>3, <2>4
<1>5. /\ \A i \in 1 .. len : SubSeq(applied', 1, i) = SubSeq(applied, 1, i)
      /\ SubSeq(applied', 1, len + 1) = applied'
  <2>1. applied \in Seq(Sent)
    BY <1>0 DEF TypeOK
  <2>2. /\ \A i \in 1 .. len : SubSeq(Append(applied, h), 1, i) = SubSeq(applied, 1, i)
        /\ SubSeq(Append(applied, h), 1, len + 1) = Append(applied, h)
    <3> HIDE DEF Sent
    <3> QED  BY <1>1, <1>3, <2>1, SubSeqOfAppend
  <2> QED  BY <1>2, <2>2
<1>6. Sent \subseteq Int /\ last_processed \in Int /\ pressed \in [Sent -> Int]
  BY <1>0, PressedType DEF Sent, TypeOK
<1>7. player' = Simulate(pressed, 0, applied')
  <2>1. applied \in Seq(Sent)
    BY <1>0 DEF TypeOK
  <2>2. Simulate(pressed, 0, Append(applied, h)) = Simulate(pressed, 0, applied) + pressed[h]
    <3>1. 0 \in Int
      OBVIOUS
    <3>2. pressed \in [Sent -> Int] /\ h \in Sent
      BY <1>1, <1>6
    <3> QED  BY <2>1, <3>1, <3>2, SimulateOfOneMore
  <2> QED  BY <1>0, <1>2, <2>2 DEF PlayerMoved
<1>8. PlayerMoved'
  BY <1>2, <1>7 DEF PlayerMoved, clientVars
<1>9. ASSUME NEW i \in 1 .. len
      PROVE  applied'[i] < h
  <2>1. applied[i] <= last_processed /\ applied[i] \in Int /\ applied'[i] = applied[i] /\ h \in Int
    BY <1>0, <1>1, <1>3, <1>4, <1>6 DEF AppliedBehind
  <2> QED  BY <1>1, <1>6, <2>1
<1>10. AppliedBehind'
  <2>1. \A i \in 1 .. len + 1 : applied'[i] <= h
    <3> TAKE i \in 1 .. len + 1
    <3>1. h \in Int /\ applied'[i] \in Int
      BY <1>1, <1>4, <1>6
    <3>2. CASE i \in 1 .. len
      BY <1>9, <3>1, <3>2
    <3>3. CASE i = len + 1
      BY <1>4, <3>1, <3>3
    <3> QED  BY <3>2, <3>3
  <2> QED  BY <1>2, <1>4, <2>1 DEF AppliedBehind
<1>11. \A i, j \in DOMAIN applied' : i < j => applied'[i] < applied'[j]
  <2> SUFFICES ASSUME NEW i \in 1 .. len + 1, NEW j \in 1 .. len + 1, i < j
               PROVE  applied'[i] < applied'[j]
    BY <1>4
  <2>1. CASE j \in 1 .. len
    BY <1>0, <1>3, <1>4, <2>1 DEF AppliedInOrder
  <2>2. CASE j = len + 1
    <3>1. i \in 1 .. len
      BY <2>2
    <3> QED  BY <1>4, <1>9, <2>2, <3>1
  <2> QED  BY <2>1, <2>2
<1>12. ASSUME NEW report \in reports'
       PROVE  \E i \in DOMAIN applied' :
                /\ applied'[i] = report.sequence
                /\ report.position = Simulate(pressed, 0, SubSeq(applied', 1, i))
  <2>1. CASE report \in reports
    <3>1. PICK i \in 1 .. len :
            /\ applied[i] = report.sequence
            /\ report.position = Simulate(pressed, 0, SubSeq(applied, 1, i))
      BY <1>0, <1>3, <2>1 DEF AppliedInOrder
    <3>2. i \in DOMAIN applied' /\ applied'[i] = applied[i]
          /\ SubSeq(applied', 1, i) = SubSeq(applied, 1, i)
      BY <1>4, <1>5
    <3> QED  BY <3>1, <3>2
  <2>2. CASE report = [sequence |-> h, position |-> player']
    <3>1. len + 1 \in DOMAIN applied'
      BY <1>4
    <3>2. applied'[len + 1] = report.sequence /\ report.position = player'
      BY <1>4, <2>2
    <3> QED  BY <1>5, <1>7, <3>1, <3>2
  <2> QED  BY <1>2, <2>1, <2>2
<1>13. AppliedInOrder'
  <2>1. pressed' = pressed
    BY <1>2 DEF clientVars
  <2> QED  BY <1>11, <1>12, <2>1 DEF AppliedInOrder
<1>14. HistoryIsTheRest' /\ ShowsPrediction'
  BY <1>2 DEF Inv, InputsAccountedFor, HistoryIsTheRest, ShowsPrediction, clientVars
<1>15. AtRestItAgrees'
  BY <1>2 DEF Inv, AtRestItAgrees, clientVars
<1> QED  BY <1>1, <1>8, <1>10, <1>13, <1>14, <1>15 DEF Inv, InputsAccountedFor

LEMMA TickInv ==
  ASSUME Inv, Tick
  PROVE  Inv'
<1>1. /\ UNCHANGED <<buffer_, last_processed, player, reports, applied>>
      /\ UNCHANGED clientVars
  BY DEF Tick
<1>2. age' \in [Sent -> 0 .. Delay]
  <2>1. age \in [Sent -> 0 .. Delay] /\ Delay \in Nat
    BY ConstantsAssumption DEF Inv, InputsAccountedFor, TypeOK
  <2>2. \A n \in Waiting : age[n] < Delay
    BY DEF Waiting
  <2> HIDE DEF Sent
  <2> QED  BY <2>1, <2>2 DEF Tick
<1>3. TypeOK'
  BY <1>1, <1>2 DEF Inv, InputsAccountedFor, TypeOK, Sent, clientVars
<1>4. HistoryIsTheRest' /\ AppliedInOrder' /\ BufferInOrder' /\ AppliedBehind'
      /\ PlayerMoved' /\ ShowsPrediction' /\ AtRestItAgrees'
  BY <1>1 DEF Inv, InputsAccountedFor, HistoryIsTheRest, AppliedInOrder, BufferInOrder,
       AppliedBehind, PlayerMoved, ShowsPrediction, AtRestItAgrees, clientVars
<1> QED  BY <1>3, <1>4 DEF Inv, InputsAccountedFor

LEMMA StutterInv ==
  ASSUME Inv, UNCHANGED vars
  PROVE  Inv'
<1>1. TypeOK'
  BY DEF Inv, InputsAccountedFor, TypeOK, Sent, vars, clientVars, serverVars
<1>2. HistoryIsTheRest' /\ AppliedInOrder' /\ BufferInOrder' /\ AppliedBehind'
      /\ PlayerMoved' /\ ShowsPrediction' /\ AtRestItAgrees'
  BY DEF Inv, InputsAccountedFor, HistoryIsTheRest, AppliedInOrder, BufferInOrder,
       AppliedBehind, PlayerMoved, ShowsPrediction, AtRestItAgrees,
       vars, clientVars, serverVars
<1> QED  BY <1>1, <1>2 DEF Inv, InputsAccountedFor

----------------------------------------------------------------------------
(* The theorems. *)

\* The inductive invariant holds in every state.
THEOREM Invariant == Spec => []Inv
<1>1. ASSUME Inv, [Next]_vars
      PROVE  Inv'
  BY <1>1, PressInv, ReconcileInv, PushInv, PopInv, TickInv, StutterInv DEF Next
<1> QED  BY InvInit, <1>1, PTL DEF Spec

\* For any moves, sizes of the two deques, delay and threshold, and whatever
\* the network loses, repeats or reorders: the client keeps exactly what is
\* not acknowledged (AcknowledgeUpTo, SavePrediction), and the server applies
\* the inputs in the order of their numbers, each at most once, and reports
\* what they amount to (InputBuffer::Push, Pop).
THEOREM InputsAreAccountedFor == Spec => []InputsAccountedFor
<1>1. Inv => InputsAccountedFor
  BY DEF Inv
<1> QED  BY <1>1, Invariant, PTL

\* Once its last input is acknowledged, and unless its last correction
\* replayed inputs, the client shows what the server reported, up to the
\* threshold (Reconciliation::Reconcile).
THEOREM ClientAgreesAtRest == Spec => []AtRestItAgrees
<1>1. Inv => AtRestItAgrees
  BY DEF Inv
<1> QED  BY <1>1, Invariant, PTL

\* A correction puts the player where the server had it, moved by every
\* input pressed since, each once, and acknowledgements never go back
\* (Reconcile, GetUnacknowledgedInputs, Resimulate).
THEOREM CorrectionsReplay == Spec => CorrectionReplays
<1> DEFINE A == /\ last_acknowledged_' >= last_acknowledged_
                /\ pressed' = pressed /\ position' # position =>
                     \E report \in reports :
                       /\ report.sequence = last_acknowledged_'
                       /\ position' = Moved(report.position, report.sequence + 1,
                                            Len(pressed))
<1>1. ASSUME Inv, Inv', [Next]_vars
      PROVE  [A]_vars
  <2>0. TypeOK /\ HistoryIsTheRest
    BY <1>1 DEF Inv, InputsAccountedFor
  <2>1. last_acknowledged_ \in Int
    BY <2>0 DEF TypeOK
  <2>2. ASSUME NEW move \in Moves, Press(move)
        PROVE  A
    <3>1. last_acknowledged_' = last_acknowledged_
      BY <2>2 DEF Press
    <3>2. Len(pressed') = Len(pressed) + 1 /\ Len(pressed) \in Nat
      BY <1>1, <2>0, <2>2, PressTypes, PressedType
    <3>3. pressed' # pressed
      BY <3>2
    <3> QED  BY <2>1, <3>1, <3>3
  <2>3. ASSUME NEW report \in reports, Reconcile(report)
        PROVE  A
    <3>1. PICK n \in Nat, o \in Nat, a \in Nat, at \in Int :
            /\ n = Len(pressed) /\ o < a /\ a <= n /\ last_acknowledged_ <= o
            /\ report = [sequence |-> a, position |-> at]
            /\ last_acknowledged_' = a
            /\ \/ position' = Simulate(pressed, at, Numbers(a, n))
               \/ position' = position
      BY <2>0, <2>3, ReconcileFacts
    <3>2. last_acknowledged_' >= last_acknowledged_
      BY <2>1, <3>1
    <3>3. Moved(at, a + 1, n) = Simulate(pressed, at, Numbers(a, n))
      <4>1. n - (a + 1) + 1 = n - a /\ \A i \in 1 .. n - a : a + 1 + i - 1 = a + i
        OBVIOUS
      <4>2. [i \in 1 .. n - (a + 1) + 1 |-> a + 1 + i - 1] = Numbers(a, n)
        BY <4>1 DEF Numbers
      <4> QED  BY <4>2 DEF Moved
    <3>4. report.sequence = a /\ report.position = at
      BY <3>1
    <3> QED  BY <3>1, <3>2, <3>3, <3>4
  <2>4. CASE (\E n \in Sent : Push(n)) \/ Pop \/ Tick \/ UNCHANGED vars
    <3>1. UNCHANGED <<position, last_acknowledged_>>
      BY <2>4 DEF Push, Pop, Tick, vars, clientVars
    <3> QED  BY <2>1, <3>1
  <2> QED  BY <1>1, <2>2, <2>3, <2>4 DEF Next
<1> QED  BY <1>1, Invariant, PTL DEF CorrectionReplays, Spec

----------------------------------------------------------------------------
(* UdpGameServer. *)

\* What makes the invariants inductive: a client has an address, whoever is
\* absent has no sequence number, and the input between the two critical
\* sections is ahead of its player, who is still there.
Absent ==
  \A p \in PlayerId :
    /\ p \in clients <=> endpoint[p] # NoEndpoint
    /\ p \notin clients => last_sequence[p] = 0 /\ last_input_sequence[p] = 0

InputAhead ==
  \/ Idle
  \/ /\ input.player \in clients
     /\ input.sequence > last_sequence[input.player]

\* The inductive invariant of the server.
UdpInv ==
  /\ UdpTypeOK /\ MappingSound /\ RosterAgrees /\ FiltersAgree
  /\ Absent /\ InputAhead

\* A server not yet started satisfies it.
LEMMA UdpInvInit == UdpInit => UdpInv
  <1> SUFFICES ASSUME UdpInit PROVE UdpInv
    OBVIOUS
  <1>1. 0 \in 0..MaxSequence
    BY AddressAssumption
  <1>2. UdpTypeOK
    BY <1>1 DEF UdpInit, UdpTypeOK, NoInput
  <1>3. MappingSound /\ RosterAgrees /\ FiltersAgree
    BY DEF UdpInit, MappingSound, RosterAgrees, FiltersAgree
  <1>4. Absent /\ InputAhead
    BY DEF UdpInit, Absent, InputAhead, Idle
  <1> QED  BY <1>2, <1>3, <1>4 DEF UdpInv

\* HandleConnect of a known player.
LEMMA ReconnectInv ==
  ASSUME UdpInv, NEW p \in PlayerId, NEW e \in Endpoint,
         running, Idle, Reconnect(p, e), UNCHANGED <<running, input, reached>>
  PROVE  UdpInv'
  <1> USE DEF Reconnect, sessionVars
  <1>0. EndpointHash[e] \in Key /\ e # NoEndpoint
    BY AddressAssumption
  <1>1. UdpTypeOK'
    BY <1>0 DEF UdpInv, UdpTypeOK, Readdress
  <1>2. MappingSound'
    <2> SUFFICES ASSUME NEW k \in Key, endpoint_to_player'[k] # NoPlayer
                 PROVE  /\ endpoint_to_player'[k] \in clients
                        /\ EndpointHash[endpoint'[endpoint_to_player'[k]]] = k
      BY DEF MappingSound
    <2>1. CASE k = EndpointHash[e]
      <3>1. endpoint_to_player'[k] = p
        BY <2>1, <1>0 DEF UdpInv, UdpTypeOK, Readdress
      <3> QED  BY <3>1, <2>1 DEF UdpInv, UdpTypeOK
    <2>2. CASE k # EndpointHash[e]
      <3>1. /\ k # EndpointHash[endpoint[p]]
            /\ endpoint_to_player'[k] = endpoint_to_player[k]
        BY <2>2, <1>0 DEF UdpInv, UdpTypeOK, Readdress
      <3>2. /\ endpoint_to_player[k] \in clients
            /\ EndpointHash[endpoint[endpoint_to_player[k]]] = k
        BY <3>1 DEF UdpInv, MappingSound
      <3> QED  BY <3>1, <3>2 DEF UdpInv, UdpTypeOK
    <2> QED  BY <2>1, <2>2
  <1>3. RosterAgrees' /\ FiltersAgree'
    BY DEF UdpInv, RosterAgrees, FiltersAgree
  <1>4. Absent' /\ InputAhead'
    BY <1>0 DEF UdpInv, UdpTypeOK, Absent, InputAhead, Idle
  <1> QED  BY <1>1, <1>2, <1>3, <1>4 DEF UdpInv

\* HandleConnect of a new player.
LEMMA ConnectInv ==
  ASSUME UdpInv, NEW p \in PlayerId, NEW e \in Endpoint,
         running, Idle, Connect(p, e), UNCHANGED <<running, input, reached>>
  PROVE  UdpInv'
  <1> USE DEF Connect
  <1>0. EndpointHash[e] \in Key /\ e # NoEndpoint /\ p # NoPlayer
    BY AddressAssumption
  <1>1. UdpTypeOK'
    BY <1>0 DEF UdpInv, UdpTypeOK
  <1>2. MappingSound'
    BY <1>0 DEF UdpInv, UdpTypeOK, MappingSound
  <1>3. RosterAgrees'
    BY DEF UdpInv, RosterAgrees
  <1>4. FiltersAgree'
    <2>1. input.player = NoPlayer
      BY DEF Idle, NoInput
    <2> QED  BY <2>1, <1>0, AddressAssumption DEF UdpInv, UdpTypeOK, FiltersAgree, Absent
  <1>5. Absent' /\ InputAhead'
    BY <1>0 DEF UdpInv, UdpTypeOK, Absent, InputAhead, Idle
  <1> QED  BY <1>1, <1>2, <1>3, <1>4, <1>5 DEF UdpInv

\* HandleDisconnect of a mapped address.
LEMMA DisconnectInv ==
  ASSUME UdpInv, NEW e \in Endpoint, HandleDisconnect(e)
  PROVE  UdpInv'
  <1> USE DEF HandleDisconnect
  <1> DEFINE p == PlayerAt(e)
  <1>0. /\ EndpointHash[e] \in Key
        /\ p \in PlayerId /\ p \in clients
        /\ EndpointHash[endpoint[p]] = EndpointHash[e]
    BY AddressAssumption DEF UdpInv, UdpTypeOK, MappingSound, PlayerAt
  <1>00. 0 \in 0..MaxSequence
    BY AddressAssumption
  <1> HIDE DEF p
  <1>1. UdpTypeOK'
    BY <1>0, <1>00 DEF UdpInv, UdpTypeOK, p
  <1>2. MappingSound'
    <2> SUFFICES ASSUME NEW k \in Key, endpoint_to_player'[k] # NoPlayer
                 PROVE  /\ endpoint_to_player'[k] \in clients'
                        /\ EndpointHash[endpoint'[endpoint_to_player'[k]]] = k
      BY DEF MappingSound
    <2>1. /\ k # EndpointHash[e]
          /\ endpoint_to_player'[k] = endpoint_to_player[k]
      BY <1>0 DEF UdpInv, UdpTypeOK
    <2>2. /\ endpoint_to_player[k] \in clients
          /\ EndpointHash[endpoint[endpoint_to_player[k]]] = k
      BY <2>1 DEF UdpInv, MappingSound
    <2>3. endpoint_to_player[k] # p
      BY <2>1, <2>2, <1>0
    <2> QED  BY <2>1, <2>2, <2>3 DEF UdpInv, UdpTypeOK, p
  <1>3. RosterAgrees'
    BY DEF UdpInv, RosterAgrees
  <1>4. FiltersAgree'
    <2>1. input.player = NoPlayer
      BY DEF Idle, NoInput
    <2> QED  BY <2>1, <1>0, AddressAssumption DEF UdpInv, UdpTypeOK, FiltersAgree, p
  <1>5. Absent' /\ InputAhead'
    BY <1>0 DEF UdpInv, UdpTypeOK, Absent, InputAhead, Idle, p
  <1> QED  BY <1>1, <1>2, <1>3, <1>4, <1>5 DEF UdpInv

\* The first critical section of HandleInput.
LEMMA HandleInputInv ==
  ASSUME UdpInv, NEW e \in Endpoint, NEW s \in 0..MaxSequence, HandleInput(e, s)
  PROVE  UdpInv'
  <1> USE DEF HandleInput, Accepted, sessionVars
  <1> DEFINE p == PlayerAt(e)
  <1>0. p \in clients /\ p \in PlayerId /\ p # NoPlayer
    BY AddressAssumption DEF UdpInv, UdpTypeOK
  <1>1. input.player = NoPlayer
    BY DEF Idle, NoInput
  <1>2. last_input_sequence[p] = last_sequence[p]
    BY <1>0, <1>1 DEF UdpInv, FiltersAgree
  <1> HIDE DEF p
  <1>3. UdpTypeOK'
    BY <1>0 DEF UdpInv, UdpTypeOK, p
  <1>4. MappingSound' /\ RosterAgrees'
    BY DEF UdpInv, MappingSound, RosterAgrees
  <1>5. FiltersAgree'
    BY <1>0, <1>1, AddressAssumption DEF UdpInv, UdpTypeOK, FiltersAgree, p
  <1>6. Absent' /\ InputAhead'
    BY <1>0, <1>2 DEF UdpInv, UdpTypeOK, Absent, InputAhead, p
  <1> QED  BY <1>3, <1>4, <1>5, <1>6 DEF UdpInv

\* The second one, in the GameSession.
LEMMA ApplyInputInv ==
  ASSUME UdpInv, ApplyInput
  PROVE  UdpInv'
  <1> USE DEF ApplyInput, tableVars
  <1>1. /\ input.player \in clients /\ input.player \in PlayerId
        /\ input.sequence > last_sequence[input.player]
        /\ input.sequence \in 0..MaxSequence
        /\ last_sequence[input.player] \in 0..MaxSequence
    BY DEF UdpInv, InputAhead, UdpTypeOK
  <1>2. last_sequence' = [last_sequence EXCEPT ![input.player] = input.sequence]
    BY <1>1, AddressAssumption DEF UdpInv, RosterAgrees
  <1>3. UdpTypeOK'
    BY <1>1, <1>2, AddressAssumption DEF UdpInv, UdpTypeOK, NoInput
  <1>4. MappingSound' /\ RosterAgrees'
    BY DEF UdpInv, MappingSound, RosterAgrees
  <1>5. FiltersAgree'
    BY <1>1, <1>2, AddressAssumption DEF UdpInv, UdpTypeOK, FiltersAgree, NoInput
  <1>6. Absent' /\ InputAhead'
    BY <1>1, <1>2 DEF UdpInv, UdpTypeOK, Absent, InputAhead, Idle
  <1> QED  BY <1>3, <1>4, <1>5, <1>6 DEF UdpInv

\* Start, Stop and broadcasts leave clients and players alone.
LEMMA QuietInv ==
  ASSUME UdpInv, UNCHANGED <<tableVars, sessionVars, input>>,
         running' \in BOOLEAN, reached' \subseteq Endpoint
  PROVE  UdpInv'
  <1> USE DEF tableVars, sessionVars
  <1>1. UdpTypeOK'
    BY DEF UdpInv, UdpTypeOK
  <1>2. MappingSound' /\ RosterAgrees' /\ FiltersAgree'
    BY DEF UdpInv, MappingSound, RosterAgrees, FiltersAgree
  <1>3. Absent' /\ InputAhead'
    BY DEF UdpInv, Absent, InputAhead, Idle
  <1> QED  BY <1>1, <1>2, <1>3 DEF UdpInv

\* Every step keeps the invariant.
LEMMA UdpInvNext ==
  ASSUME UdpInv, [UdpNext]_udpVars
  PROVE  UdpInv'
  <1>1. CASE Start \/ Stop \/ BroadcastState \/ UNCHANGED udpVars
    BY <1>1, QuietInv DEF Start, Stop, BroadcastState, udpVars, UdpInv, UdpTypeOK
  <1>2. CASE ApplyInput
    BY <1>2, ApplyInputInv
  <1>3. ASSUME NEW e \in Endpoint, HandleDisconnect(e)
        PROVE  UdpInv'
    BY <1>3, DisconnectInv
  <1>4. ASSUME NEW e \in Endpoint, NEW p \in PlayerId, HandleConnect(e, p)
        PROVE  UdpInv'
    BY <1>4, ReconnectInv, ConnectInv DEF HandleConnect
  <1>5. ASSUME NEW e \in Endpoint, NEW s \in 0..MaxSequence, HandleInput(e, s)
        PROVE  UdpInv'
    BY <1>5, HandleInputInv
  <1> QED  BY <1>1, <1>2, <1>3, <1>4, <1>5 DEF UdpNext

\* The invariant holds in every behaviour.
THEOREM UdpInvariance == UdpSpec => []UdpInv
  <1> QED  BY UdpInvInit, UdpInvNext, PTL DEF UdpSpec

\* The server's state is well-typed.
THEOREM UdpTypeCorrect == UdpSpec => []UdpTypeOK
  <1>1. UdpInv => UdpTypeOK
    BY DEF UdpInv
  <1> QED  BY <1>1, UdpInvariance, PTL

\* The address map never sends a datagram to the wrong player.
THEOREM MappingIsSound == UdpSpec => []MappingSound
  <1>1. UdpInv => MappingSound
    BY DEF UdpInv
  <1> QED  BY <1>1, UdpInvariance, PTL

\* The address map, the client table, the game and both filters agree.
THEOREM TablesAlwaysAgree == UdpSpec => []TablesAgree
  <1>1. UdpInv => TablesAgree
    BY DEF UdpInv, TablesAgree
  <1> QED  BY <1>1, UdpInvariance, PTL

\* The clients of the server are the players of the game.
THEOREM RostersAgree == UdpSpec => []RosterAgrees
  <1>1. UdpInv => RosterAgrees
    BY DEF UdpInv
  <1> QED  BY <1>1, UdpInvariance, PTL

\* A duplicated or late datagram is never applied: AppliedOnce follows from
\* the input between the two locks being ahead of its player.
THEOREM InputsAreAppliedOnce == UdpSpec => AppliedOnce
  <1>1. ASSUME UdpInv, [UdpNext]_udpVars
        PROVE  [~Idle /\ input' = NoInput =>
                  /\ input.player \in players
                  /\ input.sequence > last_sequence[input.player]]_udpVars
    BY <1>1 DEF UdpInv, InputAhead, RosterAgrees
  <1> QED  BY <1>1, UdpInvariance, PTL DEF UdpSpec, AppliedOnce

\* Nobody but the present address of a player throws it out or moves it.
THEOREM OnlyItsAddressIsHeard == UdpSpec => OnlyItsAddressSpeaks
  <1> DEFINE Undisturbed ==
        \A p \in clients :
          (p \notin clients' \/ last_input_sequence'[p] # last_input_sequence[p])
          => \E e \in Endpoint :
               EndpointHash[e] = EndpointHash[endpoint[p]] /\ Speaks(e)
  <1>1. ASSUME UdpInv, [UdpNext]_udpVars
        PROVE  [Undisturbed]_udpVars
    <2> SUFFICES ASSUME UdpNext PROVE Undisturbed
      BY <1>1
    <2> USE <1>1
    <2>1. CASE Start \/ Stop \/ BroadcastState \/ ApplyInput
      BY <2>1 DEF Start, Stop, BroadcastState, ApplyInput, tableVars
    <2>2. ASSUME NEW e \in Endpoint, NEW p \in PlayerId, HandleConnect(e, p)
          PROVE  Undisturbed
      BY <2>2 DEF HandleConnect, Reconnect, Connect
    <2>3. ASSUME NEW e \in Endpoint, HandleDisconnect(e)
          PROVE  Undisturbed
      <3>1. EndpointHash[endpoint[PlayerAt(e)]] = EndpointHash[e]
        BY <2>3, AddressAssumption
           DEF HandleDisconnect, UdpInv, UdpTypeOK, MappingSound, PlayerAt
      <3>2. \A q \in clients : q # PlayerAt(e) =>
               q \in clients' /\ last_input_sequence'[q] = last_input_sequence[q]
        BY <2>3 DEF HandleDisconnect, UdpInv, UdpTypeOK
      <3>3. Speaks(e)
        BY <2>3 DEF Speaks
      <3> QED  BY <3>1, <3>2, <3>3
    <2>4. ASSUME NEW e \in Endpoint, NEW s \in 0..MaxSequence, HandleInput(e, s)
          PROVE  Undisturbed
      <3>1. EndpointHash[endpoint[PlayerAt(e)]] = EndpointHash[e]
        BY <2>4, AddressAssumption
           DEF HandleInput, UdpInv, UdpTypeOK, MappingSound, PlayerAt
      <3>2. \A q \in clients : q # PlayerAt(e) =>
               q \in clients' /\ last_input_sequence'[q] = last_input_sequence[q]
        BY <2>4 DEF HandleInput, Accepted, UdpInv, UdpTypeOK
      <3>3. Speaks(e)
        BY <2>4 DEF Speaks
      <3> QED  BY <3>1, <3>2, <3>3
    <2> QED  BY <2>1, <2>2, <2>3, <2>4 DEF UdpNext
  <1> QED  BY <1>1, UdpInvariance, PTL DEF UdpSpec, OnlyItsAddressSpeaks
=============================================================================
