------------------------- MODULE MatchmakerProofs --------------------------
(***************************************************************************)
(* TLAPS proofs about Matchmaker, for any players, any ratings, any        *)
(* regions and any tolerances.                                             *)
(***************************************************************************)
EXTENDS Matchmaker, InductionLemmas

----------------------------------------------------------------------------
(* Lists of players. *)

\* s lists the players of S, each once.
Lists(s, S) ==
  /\ s \in Seq(PlayerId)
  /\ \A i \in 1 .. Len(s) : s[i] \in S
  /\ \A i, j \in 1 .. Len(s) : s[i] = s[j] => i = j
  /\ \A p \in S : \E i \in 1 .. Len(s) : s[i] = p

\* A player that is not listed comes to the end.
LEMMA ListsMore ==
  ASSUME NEW s, NEW S, Lists(s, S), NEW p \in PlayerId, p \notin S
  PROVE  Lists(Append(s, p), S \union {p})
<1> DEFINE r == Append(s, p)
<1>1. /\ r \in Seq(PlayerId) /\ Len(s) \in Nat /\ Len(r) = Len(s) + 1
      /\ r[Len(s) + 1] = p
      /\ \A i \in 1 .. Len(s) : r[i] = s[i]
  BY AppendProperties, LenProperties DEF Lists
<1> HIDE DEF r
<1>2. \A i \in 1 .. Len(r) : i \in 1 .. Len(s) \/ i = Len(s) + 1
  BY <1>1
<1>3. \A i \in 1 .. Len(r) : r[i] \in S \union {p}
  BY <1>1, <1>2 DEF Lists
<1>4. \A i, j \in 1 .. Len(r) : r[i] = r[j] => i = j
  BY <1>1, <1>2 DEF Lists
<1>5. ASSUME NEW q \in S \union {p}
      PROVE  \E i \in 1 .. Len(r) : r[i] = q
  <2>1. CASE q = p
    BY <1>1, <2>1
  <2>2. CASE q \in S
    <3>1. PICK i \in 1 .. Len(s) : s[i] = q
      BY <2>2 DEF Lists
    <3>2. i \in 1 .. Len(r) /\ r[i] = q
      BY <1>1, <3>1
    <3> QED  BY <3>2
  <2> QED  BY <2>1, <2>2
<1> QED  BY <1>1, <1>3, <1>4, <1>5 DEF Lists, r

\* v[k] is what is left of the first k players of s.
Sifting(v, s, gone) ==
  /\ v \in [0 .. Len(s) -> Seq(PlayerId)]
  /\ v[0] = <<>>
  /\ \A k \in 1 .. Len(s) :
       v[k] = IF s[k] \in gone THEN v[k-1] ELSE Append(v[k-1], s[k])

\* Without is what is left of all of them.
LEMMA WithoutIs ==
  ASSUME NEW s \in Seq(PlayerId), NEW gone
  PROVE  \E v : Sifting(v, s, gone) /\ v[Len(s)] = Without(s, gone)
<1> DEFINE n == Len(s)
           Turn(f) == [t \in SUBSET (1 .. n) |->
                         IF t = {} THEN <<>>
                         ELSE IF s[Max(t)] \in gone THEN f[t \ {Max(t)}]
                              ELSE Append(f[t \ {Max(t)}], s[Max(t)])]
           iter == CHOOSE f : f = Turn(f)
           v == [k \in 0 .. n |-> iter[1 .. k]]
<1>1. n \in Nat /\ DOMAIN s = 1 .. n /\ \A k \in 1 .. n : s[k] \in PlayerId
  BY LenProperties, ElementOfSeq
<1>2. Without(s, gone) = iter[1 .. n]
  BY <1>1 DEF Without, FoldLeft, MapThenFoldSet
<1>3. \E f : f = Turn(f) /\ f \in [SUBSET (1 .. n) -> Seq(PlayerId)]
  <2> DEFINE g == [q \in Seq(PlayerId) \X PlayerId |->
                     IF q[2] \in gone THEN q[1] ELSE Append(q[1], q[2])]
  <2>1. g \in [Seq(PlayerId) \X PlayerId -> Seq(PlayerId)] /\ <<>> \in Seq(PlayerId)
    OBVIOUS
  <2>2. PICK f : Folds(f, g, <<>>, s, n, Seq(PlayerId))
    <3> HIDE DEF g
    <3> QED  BY <2>1, FoldExists
  <2>3. ASSUME NEW t \in SUBSET (1 .. n)
        PROVE  f[t] = Turn(f)[t]
    <3>1. CASE t = {}
      BY <2>2, <3>1 DEF Folds
    <3>2. CASE t # {}
      <4>1. Max(t) \in 1 .. n
        BY <1>1, <3>2, MaxOf
      <4>2. f[t \ {Max(t)}] \in Seq(PlayerId) /\ s[Max(t)] \in PlayerId
        BY <1>1, <2>2, <4>1 DEF Folds
      <4>3. f[t] = g[<<f[t \ {Max(t)}], s[Max(t)]>>]
        BY <2>2, <3>2 DEF Folds
      <4>4. g[<<f[t \ {Max(t)}], s[Max(t)]>>]
              = IF s[Max(t)] \in gone THEN f[t \ {Max(t)}]
                ELSE Append(f[t \ {Max(t)}], s[Max(t)])
        BY <4>2
      <4> HIDE DEF g
      <4> QED  BY <3>2, <4>3, <4>4
    <3> QED  BY <3>1, <3>2
  <2>4. f \in [SUBSET (1 .. n) -> Seq(PlayerId)]
    BY <2>2 DEF Folds
  <2> QED  BY <2>3, <2>4
<1>4. iter = Turn(iter)
  BY <1>3
<1> HIDE DEF iter
<1>5. v[0] = <<>>
  <2>1. 1 .. 0 = {}
    OBVIOUS
  <2> QED  BY <1>1, <1>4, <2>1
<1>6. ASSUME NEW k \in 1 .. n
      PROVE  v[k] = IF s[k] \in gone THEN v[k-1] ELSE Append(v[k-1], s[k])
  <2>1. /\ 1 .. k \in SUBSET (1 .. n) /\ 1 .. k # {}
        /\ Max(1 .. k) = k /\ (1 .. k) \ {k} = 1 .. k-1
    BY <1>1, LastOfRange
  <2>2. iter[1 .. k] = IF s[k] \in gone THEN iter[1 .. k-1]
                       ELSE Append(iter[1 .. k-1], s[k])
    BY <1>4, <2>1
  <2> QED  BY <1>1, <2>2
<1>7. ASSUME NEW k \in 0 .. n
      PROVE  v[k] \in Seq(PlayerId)
  <2> DEFINE T == {j \in 0 .. n : v[j] \in Seq(PlayerId)}
  <2>1. 0 \in T
    <3>1. <<>> \in Seq(PlayerId) /\ 0 \in 0 .. n
      BY <1>1
    <3> QED  BY <1>5, <3>1
  <2>2. ASSUME NEW j \in 1 .. n, j - 1 \in T
        PROVE  j \in T
    <3>1. v[j-1] \in Seq(PlayerId) /\ s[j] \in PlayerId
      BY <1>1, <2>2
    <3>2. v[j] = IF s[j] \in gone THEN v[j-1] ELSE Append(v[j-1], s[j])
      BY <1>6
    <3> HIDE DEF v
    <3>3. v[j] \in Seq(PlayerId)
      BY <3>1, <3>2, AppendProperties
    <3> QED  BY <1>1, <3>3
  <2>3. \A j \in 0 .. n : j \in T
    <3> HIDE DEF T
    <3> QED  BY <1>1, <2>1, <2>2, UpTo
  <2> QED  BY <2>3
<1>8. v[n] = Without(s, gone)
  BY <1>1, <1>2
<1> QED  BY <1>5, <1>6, <1>7, <1>8 DEF Sifting

\* What is left of a list lists who is left.
LEMMA ListsLess ==
  ASSUME NEW s, NEW S, Lists(s, S), NEW gone
  PROVE  Lists(Without(s, gone), S \ gone)
<1> DEFINE n == Len(s)
<1>1. s \in Seq(PlayerId) /\ n \in Nat /\ \A k \in 1 .. n : s[k] \in PlayerId
  BY LenProperties, ElementOfSeq DEF Lists
<1>2. PICK v : Sifting(v, s, gone) /\ v[n] = Without(s, gone)
  BY <1>1, WithoutIs
<1> DEFINE Left(k) == {p \in PlayerId \ gone : \E i \in 1 .. k : s[i] = p}
           T == {k \in 0 .. n : Lists(v[k], Left(k))}
<1>3. 0 \in T
  <2>1. v[0] = <<>> /\ Left(0) = {}
    BY <1>2 DEF Sifting
  <2>2. Len(<<>>) = 0 /\ <<>> \in Seq(PlayerId)
    OBVIOUS
  <2> HIDE DEF Left
  <2>3. Lists(v[0], Left(0))
    BY <2>1, <2>2 DEF Lists
  <2> QED  BY <1>1, <2>3
<1>4. ASSUME NEW k \in 1 .. n, k - 1 \in T
      PROVE  k \in T
  <2>1. Lists(v[k-1], Left(k-1)) /\ s[k] \in PlayerId
    BY <1>1, <1>4
  <2>2. v[k] = IF s[k] \in gone THEN v[k-1] ELSE Append(v[k-1], s[k])
    BY <1>2 DEF Sifting
  <2>3. \A i \in 1 .. k : i \in 1 .. k-1 \/ i = k
    BY <1>1
  <2>4. CASE s[k] \in gone
    <3>1. Left(k) = Left(k-1)
      BY <1>1, <2>3, <2>4
    <3> HIDE DEF Left
    <3>2. Lists(v[k], Left(k))
      BY <2>1, <2>2, <2>4, <3>1
    <3> QED  BY <1>1, <3>2
  <2>5. CASE s[k] \notin gone
    <3>1. Left(k) = Left(k-1) \union {s[k]}
      BY <1>1, <2>1, <2>3, <2>5
    <3>2. s[k] \notin Left(k-1)
      <4>1. \A i \in 1 .. k-1 : s[i] = s[k] => i = k
        BY <1>1 DEF Lists
      <4> QED  BY <1>1, <4>1
    <3> HIDE DEF Left
    <3>3. Lists(v[k], Left(k))
      BY <2>1, <2>2, <2>5, <3>1, <3>2, ListsMore
    <3> QED  BY <1>1, <3>3
  <2> QED  BY <2>4, <2>5
<1>5. n \in T
  <2>1. \A k \in 0 .. n : k \in T
    <3> HIDE DEF T, n
    <3> QED  BY <1>1, <1>3, <1>4, UpTo
  <2>2. n \in 0 .. n
    BY <1>1
  <2> HIDE DEF T, n
  <2> QED  BY <2>1, <2>2
<1>6. Left(n) = S \ gone
  BY <1>1 DEF Lists
<1> QED  BY <1>2, <1>5, <1>6

----------------------------------------------------------------------------
(* The inductive invariant. *)

\* A bucket lists exactly the players whose index names it; those who wait are
\* finitely many, and counted.
QueueInv ==
  /\ buckets \in [Elo -> Seq(PlayerId)]
  /\ index \in [PlayerId -> Elo \union {NoElo}]
  /\ region \in [PlayerId -> Region]
  /\ waited \in [PlayerId -> 0..MaxWait]
  /\ unpublished \in Seq(PlayerId \X PlayerId)
  /\ \A e \in Elo : Lists(buckets[e], {p \in PlayerId : index[p] = e})
  /\ IsFiniteSet(Waiting)
  /\ last_queue_size = Cardinality(Waiting)

LEMMA QueueInit == Init => QueueInv
<1> SUFFICES ASSUME Init PROVE QueueInv
  OBVIOUS
<1> USE ConstantsAssumption DEF Init
<1>1. Waiting = {}
  BY DEF Waiting
<1>2. IsFiniteSet(Waiting) /\ last_queue_size = Cardinality(Waiting)
  BY <1>1, FS_EmptySet
<1>3. ASSUME NEW e \in Elo
      PROVE  Lists(buckets[e], {p \in PlayerId : index[p] = e})
  <2>1. {p \in PlayerId : index[p] = e} = {} /\ buckets[e] = <<>>
    OBVIOUS
  <2>2. Len(<<>>) = 0 /\ <<>> \in Seq(PlayerId)
    OBVIOUS
  <2> QED  BY <2>1, <2>2 DEF Lists
<1>4. /\ buckets \in [Elo -> Seq(PlayerId)]
      /\ index \in [PlayerId -> Elo \union {NoElo}]
      /\ region \in [PlayerId -> Region]
      /\ waited \in [PlayerId -> 0..MaxWait]
      /\ unpublished \in Seq(PlayerId \X PlayerId)
  OBVIOUS
<1> QED  BY <1>2, <1>3, <1>4 DEF QueueInv

\* Whoever leaves is in no bucket any more.
LEMMA RemovedLists ==
  ASSUME QueueInv, NEW gone, NEW e \in Elo
  PROVE  Lists(Removed(gone)[e], {p \in PlayerId \ gone : index[p] = e})
<1> DEFINE S == {p \in PlayerId : index[p] = e}
           out == {p \in gone : index[p] = e}
<1>1. Lists(buckets[e], S)
  BY DEF QueueInv
<1>2. Lists(Without(buckets[e], out), S \ out)
  <2> HIDE DEF S, out
  <2> QED  BY <1>1, ListsLess
<1>3. S \ out = {p \in PlayerId \ gone : index[p] = e}
  OBVIOUS
<1>4. Removed(gone)[e] = Without(buckets[e], out)
  BY DEF Removed
<1> HIDE DEF S, out
<1> QED  BY <1>2, <1>3, <1>4

LEMMA EnqueueInv ==
  ASSUME QueueInv, NEW p \in PlayerId, NEW elo \in Elo, NEW r \in Region,
         Enqueue(p, elo, r)
  PROVE  QueueInv'
<1> USE ConstantsAssumption
<1>1. /\ index' = [index EXCEPT ![p] = elo]
      /\ region' = [region EXCEPT ![p] = r]
      /\ waited' = [waited EXCEPT ![p] = 0]
      /\ last_queue_size' = Cardinality(Waiting \union {p})
      /\ unpublished' = unpublished
      /\ buckets' = Upserted(p, elo)
  BY DEF Enqueue
<1>2. /\ index' \in [PlayerId -> Elo \union {NoElo}]
      /\ region' \in [PlayerId -> Region]
      /\ waited' \in [PlayerId -> 0..MaxWait]
      /\ unpublished' \in Seq(PlayerId \X PlayerId)
  BY <1>1 DEF QueueInv
<1>3. Waiting' = Waiting \union {p}
  BY <1>1 DEF QueueInv, Waiting
<1>4. IsFiniteSet(Waiting') /\ last_queue_size' = Cardinality(Waiting')
  BY <1>1, <1>3, FS_AddElement DEF QueueInv
<1>5. ASSUME NEW e \in Elo
      PROVE  Lists(buckets'[e], {q \in PlayerId : index'[q] = e})
  <2> DEFINE S == {q \in PlayerId \ {p} : index[q] = e}
  <2>1. Lists(Removed({p})[e], S)
    BY RemovedLists
  <2>2. p \notin S
    OBVIOUS
  <2>3. CASE e = elo
    <3>1. buckets'[e] = Append(Removed({p})[e], p)
      BY <1>1, <2>3 DEF Upserted
    <3>2. {q \in PlayerId : index'[q] = e} = S \union {p}
      BY <1>1, <2>3 DEF QueueInv
    <3> HIDE DEF S
    <3> QED  BY <2>1, <2>2, <3>1, <3>2, ListsMore
  <2>4. CASE e # elo
    <3>1. buckets'[e] = Removed({p})[e]
      BY <1>1, <2>4 DEF Upserted
    <3>2. {q \in PlayerId : index'[q] = e} = S
      BY <1>1, <2>4 DEF QueueInv
    <3> HIDE DEF S
    <3> QED  BY <2>1, <3>1, <3>2
  <2> QED  BY <2>3, <2>4
<1>6. buckets' \in [Elo -> Seq(PlayerId)]
  <2>1. \A e \in Elo : buckets'[e] \in Seq(PlayerId)
    BY <1>5 DEF Lists
  <2>2. buckets' = [e \in Elo |-> buckets'[e]]
    BY <1>1 DEF Upserted
  <2> QED  BY <2>1, <2>2
<1> QED  BY <1>2, <1>4, <1>5, <1>6 DEF QueueInv

\* Cancel and RunMatching: some leave.
LEMMA ForgetInv ==
  ASSUME QueueInv, NEW gone, Forget(gone),
         last_queue_size' = Cardinality(Waiting \ gone),
         unpublished' \in Seq(PlayerId \X PlayerId)
  PROVE  QueueInv' /\ Waiting' = Waiting \ gone
<1> USE ConstantsAssumption
<1>1. /\ buckets' = Removed(gone)
      /\ index' = [p \in PlayerId |-> IF p \in gone THEN NoElo ELSE index[p]]
      /\ region' = [p \in PlayerId |->
                      IF p \in gone THEN AnyRegion ELSE region[p]]
      /\ waited' = [p \in PlayerId |-> IF p \in gone THEN 0 ELSE waited[p]]
  BY DEF Forget
<1>2. /\ index' \in [PlayerId -> Elo \union {NoElo}]
      /\ region' \in [PlayerId -> Region]
      /\ waited' \in [PlayerId -> 0..MaxWait]
  BY <1>1 DEF QueueInv
<1>3. Waiting' = Waiting \ gone
  BY <1>1 DEF Waiting
<1>4. IsFiniteSet(Waiting')
  BY <1>3, FS_Subset DEF QueueInv
<1>5. ASSUME NEW e \in Elo
      PROVE  Lists(buckets'[e], {q \in PlayerId : index'[q] = e})
  <2>1. {q \in PlayerId : index'[q] = e} = {q \in PlayerId \ gone : index[q] = e}
    BY <1>1
  <2> QED  BY <1>1, <2>1, RemovedLists
<1>6. buckets' \in [Elo -> Seq(PlayerId)]
  <2>1. \A e \in Elo : buckets'[e] \in Seq(PlayerId)
    BY <1>5 DEF Lists
  <2>2. buckets' = [e \in Elo |-> buckets'[e]]
    BY <1>1 DEF Removed
  <2> QED  BY <2>1, <2>2
<1> QED  BY <1>2, <1>3, <1>4, <1>5, <1>6 DEF QueueInv

----------------------------------------------------------------------------
(* FetchOrdered. *)

\* A finite set of ratings has a lowest.
LEMMA LowestIs ==
  ASSUME NEW S, IsFiniteSet(S), S \subseteq Int, S # {}
  PROVE  Lowest(S) \in S /\ \A x \in S : Lowest(S) <= x
<1> DEFINE T == {t \in SUBSET S : t = {} \/ \E x \in t : \A y \in t : x <= y}
<1>1. {} \in T
  OBVIOUS
<1>2. ASSUME NEW t \in SUBSET S, t # {}, \A x \in t : t \ {x} \in T
      PROVE  t \in T
  <2>1. PICK z \in t : TRUE
    BY <1>2
  <2>2. CASE t \ {z} = {}
    <3>1. \A y \in t : y = z /\ z <= y
      BY <2>1, <2>2
    <3> QED  BY <2>1, <3>1
  <2>3. CASE t \ {z} # {}
    <3>1. PICK x \in t \ {z} : \A y \in t \ {z} : x <= y
      BY <1>2, <2>1, <2>3
    <3>2. x \in Int /\ z \in Int /\ \A y \in t : y \in Int
      BY <2>1, <3>1
    <3>3. CASE x <= z
      <4>1. \A y \in t : x <= y
        BY <3>1, <3>3
      <4> QED  BY <3>1, <4>1
    <3>4. CASE z <= x
      <4>1. \A y \in t : z <= y
        BY <3>1, <3>2, <3>4
      <4> QED  BY <2>1, <4>1
    <3> QED  BY <3>2, <3>3, <3>4
  <2> QED  BY <2>2, <2>3
<1>3. S \in T
  <2>1. \A t \in SUBSET S : t \in T
    <3> HIDE DEF T
    <3> QED  BY <1>1, <1>2, SubsetInduction
  <2> QED  BY <2>1
<1>4. PICK x \in S : \A y \in S : x <= y
  BY <1>3
<1> QED  BY <1>4 DEF Lowest

\* By rating.
Sorted(s) == \A i, j \in 1 .. Len(s) : i < j => index[s[i]] <= index[s[j]]

\* A list, and then one of players with higher ratings.
LEMMA ListsJoined ==
  ASSUME QueueInv, NEW s, NEW t, NEW e \in Elo, NEW E \in SUBSET Elo,
         \A x \in E : e < x,
         Lists(s, {p \in PlayerId : index[p] = e}),
         Lists(t, {p \in PlayerId : index[p] \in E}), Sorted(t)
  PROVE  /\ Lists(s \o t, {p \in PlayerId : index[p] \in E \union {e}})
         /\ Sorted(s \o t)
<1> DEFINE r == s \o t
           m == Len(s)
           n == Len(t)
<1>1. /\ s \in Seq(PlayerId) /\ t \in Seq(PlayerId) /\ m \in Nat /\ n \in Nat
      /\ r \in Seq(PlayerId) /\ Len(r) = m + n
      /\ \A i \in 1 .. m + n : r[i] = IF i <= m THEN s[i] ELSE t[i - m]
  BY ConcatProperties, LenProperties DEF Lists
<1>2. /\ \A i \in 1 .. m : s[i] \in PlayerId /\ index[s[i]] = e
      /\ \A i \in 1 .. n : t[i] \in PlayerId /\ index[t[i]] \in E
  BY DEF Lists
<1>3. e \in Int /\ e \notin E /\ \A x \in E : x \in Int
  BY ConstantsAssumption
<1>4. /\ \A i, j \in 1 .. m : s[i] = s[j] => i = j
      /\ \A i, j \in 1 .. n : t[i] = t[j] => i = j
      /\ \A i, j \in 1 .. n : i < j => index[t[i]] <= index[t[j]]
  BY DEF Lists, Sorted
<1>5. /\ \A p \in PlayerId : index[p] = e => \E i \in 1 .. m : s[i] = p
      /\ \A p \in PlayerId : index[p] \in E => \E i \in 1 .. n : t[i] = p
  BY DEF Lists
<1> HIDE DEF r, m, n
<1>6. \A i \in 1 .. m + n : \/ i \in 1 .. m /\ r[i] = s[i]
                            \/ i - m \in 1 .. n /\ i > m /\ r[i] = t[i - m]
  <2> TAKE i \in 1 .. m + n
  <2>1. CASE i <= m
    <3>1. r[i] = s[i]
      BY <1>1, <2>1
    <3>2. i \in 1 .. m
      BY <1>1, <2>1
    <3> QED  BY <3>1, <3>2
  <2>2. CASE i > m
    <3>1. i - m \in 1 .. n /\ ~ (i <= m)
      BY <1>1, <2>2
    <3>2. r[i] = t[i - m]
      BY <1>1, <3>1
    <3> QED  BY <2>2, <3>1, <3>2
  <2> QED  BY <1>1, <2>1, <2>2
<1>7. \A i \in 1 .. m + n : r[i] \in PlayerId /\ index[r[i]] \in E \union {e}
  BY <1>2, <1>6
<1>8. ASSUME NEW i \in 1 .. m + n, NEW j \in 1 .. m + n, r[i] = r[j]
      PROVE  i = j
  <2>1. CASE i \in 1 .. m /\ r[i] = s[i]
    <3>1. index[r[j]] = e
      BY <1>2, <1>8, <2>1
    <3>2. j \in 1 .. m /\ r[j] = s[j]
      BY <1>2, <1>3, <1>6, <3>1
    <3> QED  BY <1>4, <1>8, <2>1, <3>2
  <2>2. CASE i - m \in 1 .. n /\ r[i] = t[i - m]
    <3>1. j - m \in 1 .. n /\ r[j] = t[j - m]
      BY <1>2, <1>3, <1>6, <1>8, <2>2
    <3>2. i - m = j - m
      BY <1>4, <1>8, <2>2, <3>1
    <3> QED  BY <1>1, <3>2
  <2> QED  BY <1>6, <2>1, <2>2
<1>9. ASSUME NEW i \in 1 .. m + n, NEW j \in 1 .. m + n, i < j
      PROVE  index[r[i]] <= index[r[j]]
  <2>1. CASE i \in 1 .. m /\ r[i] = s[i]
    <3>1. index[r[i]] = e
      BY <1>2, <2>1
    <3>2. \/ index[r[j]] = e
          \/ e < index[r[j]] /\ index[r[j]] \in Int
      BY <1>3, <1>7
    <3> QED  BY <1>3, <3>1, <3>2
  <2>2. CASE i - m \in 1 .. n /\ i > m /\ r[i] = t[i - m]
    <3>1. j - m \in 1 .. n /\ r[j] = t[j - m] /\ i - m < j - m
      <4>1. i \in Int /\ j \in Int /\ m \in Int /\ j > m
        BY <1>1, <1>9, <2>2
      <4>2. j \notin 1 .. m
        BY <4>1
      <4>3. j - m \in 1 .. n /\ r[j] = t[j - m]
        BY <1>6, <4>2
      <4> QED  BY <1>9, <4>1, <4>3
    <3> QED  BY <1>4, <2>2, <3>1
  <2> QED  BY <1>6, <2>1, <2>2
<1>10. ASSUME NEW p \in PlayerId, index[p] \in E \union {e}
       PROVE  \E i \in 1 .. m + n : r[i] = p
  <2>1. CASE index[p] = e
    <3>1. PICK i \in 1 .. m : s[i] = p
      BY <1>5, <2>1
    <3>2. i \in 1 .. m + n /\ r[i] = p
      BY <1>1, <3>1
    <3> QED  BY <3>2
  <2>2. CASE index[p] \in E
    <3>1. PICK i \in 1 .. n : t[i] = p
      BY <1>5, <2>2
    <3>2. i + m \in 1 .. m + n /\ r[i + m] = p
      BY <1>1, <3>1
    <3> QED  BY <3>2
  <2> QED  BY <1>10, <2>1, <2>2
<1>11. Lists(r, {p \in PlayerId : index[p] \in E \union {e}})
  BY <1>1, <1>7, <1>8, <1>10 DEF Lists
<1>12. Sorted(r)
  BY <1>1, <1>9 DEF Sorted
<1> QED  BY <1>11, <1>12 DEF r

\* Everybody who waits, once, by rating.
LEMMA FetchIs ==
  ASSUME QueueInv
  PROVE  Lists(FetchOrdered, Waiting) /\ Sorted(FetchOrdered)
<1> DEFINE Turn(f) == [S \in SUBSET Elo |->
                         IF S = {} THEN <<>>
                         ELSE buckets[Lowest(S)] \o f[S \ {Lowest(S)}]]
           from == CHOOSE f : f = Turn(f)
           X == Seq(PlayerId)
           pick == [S \in SUBSET Elo |-> Lowest(S)]
           g == [q \in Elo \X X |-> buckets[q[1]] \o q[2]]
<1>1. IsFiniteSet(Elo) /\ Elo \subseteq Int
  BY ConstantsAssumption
<1>2. ASSUME NEW S \in SUBSET Elo, S # {}
      PROVE  /\ Lowest(S) \in S
             /\ \A x \in S \ {Lowest(S)} : Lowest(S) < x
  <2>1. IsFiniteSet(S) /\ S \subseteq Int
    BY <1>1, FS_Subset
  <2>2. Lowest(S) \in S /\ \A x \in S : Lowest(S) <= x
    BY <1>2, <2>1, LowestIs
  <2> DEFINE l == Lowest(S)
  <2> HIDE DEF l
  <2>3. l \in S /\ l \in Int /\ \A x \in S : x \in Int /\ l <= x
    BY <2>1, <2>2 DEF l
  <2>4. \A x \in S \ {l} : l < x
    BY <2>3
  <2> QED  BY <2>3, <2>4 DEF l
<1>3. \A e \in Elo : buckets[e] \in X
  BY DEF QueueInv
<1>4. \E f : f = Turn(f)
  <2>1. g \in [Elo \X X -> X] /\ <<>> \in X
    BY <1>3, ConcatProperties
  <2>2. \A S \in SUBSET Elo : S # {} => pick[S] \in S
    BY <1>2
  <2>3. PICK f : Recurs(f, g, <<>>, pick, Elo, X)
    <3> HIDE DEF g, pick, X
    <3> QED  BY <1>1, <2>1, <2>2, RecursionExists
  <2>4. ASSUME NEW S \in SUBSET Elo
        PROVE  f[S] = Turn(f)[S]
    <3>1. CASE S = {}
      BY <2>3, <3>1 DEF Recurs
    <3>2. CASE S # {}
      <4>1. pick[S] = Lowest(S) /\ Lowest(S) \in Elo
        BY <1>2, <3>2
      <4>2. f[S \ {Lowest(S)}] \in X
        BY <2>3 DEF Recurs
      <4>3. f[S] = g[<<Lowest(S), f[S \ {Lowest(S)}]>>]
        BY <2>3, <3>2, <4>1 DEF Recurs
      <4> QED  BY <3>2, <4>1, <4>2, <4>3
    <3> QED  BY <3>1, <3>2
  <2>5. f \in [SUBSET Elo -> X]
    BY <2>3 DEF Recurs
  <2> QED  BY <2>4, <2>5
<1>5. from = Turn(from)
  BY <1>4
<1>6. FetchOrdered = from[Elo]
  BY DEF FetchOrdered
<1> HIDE DEF from
<1> DEFINE In(S) == {p \in PlayerId : index[p] \in S}
           T == {S \in SUBSET Elo : Lists(from[S], In(S)) /\ Sorted(from[S])}
<1>7. {} \in T
  <2>1. from[{}] = <<>> /\ In({}) = {}
    BY <1>5
  <2>2. Len(<<>>) = 0 /\ <<>> \in Seq(PlayerId)
    OBVIOUS
  <2>3. Lists(from[{}], In({})) /\ Sorted(from[{}])
    BY <2>1, <2>2 DEF Lists, Sorted
  <2> QED  BY <2>3
<1>8. ASSUME NEW S \in SUBSET Elo, S # {}, \A x \in S : S \ {x} \in T
      PROVE  S \in T
  <2> DEFINE e == Lowest(S)
             E == S \ {e}
  <2>1. e \in S /\ e \in Elo /\ E \in SUBSET Elo /\ \A x \in E : e < x
    BY <1>2, <1>8
  <2>2. from[S] = buckets[e] \o from[E]
    BY <1>5, <1>8
  <2>3. Lists(from[E], In(E)) /\ Sorted(from[E])
    BY <1>8, <2>1
  <2>4. Lists(buckets[e], {p \in PlayerId : index[p] = e})
    BY <2>1 DEF QueueInv
  <2>5. E \union {e} = S
    BY <2>1
  <2> HIDE DEF e, E
  <2>6. /\ Lists(buckets[e] \o from[E],
                 {p \in PlayerId : index[p] \in E \union {e}})
        /\ Sorted(buckets[e] \o from[E])
    <3> HIDE DEF T
    <3>1. Lists(from[E], {p \in PlayerId : index[p] \in E})
      BY <2>3
    <3> HIDE DEF In
    <3> QED  BY <2>1, <2>3, <2>4, <3>1, ListsJoined
  <2>7. Lists(from[S], In(S)) /\ Sorted(from[S])
    BY <2>2, <2>5, <2>6
  <2> QED  BY <2>7
<1>9. Elo \in T
  <2>1. \A S \in SUBSET Elo : S \in T
    <3> HIDE DEF T
    <3> QED  BY <1>1, <1>7, <1>8, SubsetInduction
  <2> QED  BY <2>1
<1>10. In(Elo) = Waiting
  BY ConstantsAssumption DEF QueueInv, Waiting
<1> QED  BY <1>6, <1>9, <1>10

----------------------------------------------------------------------------
(* RunMatching. *)

\* A pair and its players.
LEMMA PlayersMore ==
  ASSUME NEW v \in Seq(PlayerId \X PlayerId), NEW a \in PlayerId,
         NEW b \in PlayerId
  PROVE  Players(Append(v, <<a, b>>)) = Players(v) \union {a, b}
<1> DEFINE w == Append(v, <<a, b>>)
<1>1. /\ Len(v) \in Nat /\ Len(w) = Len(v) + 1 /\ w[Len(v) + 1] = <<a, b>>
      /\ \A m \in 1 .. Len(v) : w[m] = v[m]
  BY AppendProperties, LenProperties
<1> HIDE DEF w
<1>2. \A m : m \in 1 .. Len(w) <=> m \in 1 .. Len(v) \/ m = Len(v) + 1
  BY <1>1
<1>3. Both(w[Len(v) + 1]) = {a, b}
  BY <1>1 DEF Both
<1>4. \A m \in 1 .. Len(v) : Both(w[m]) = Both(v[m])
  BY <1>1 DEF Both
<1>5. Players(w) = Players(v) \union {a, b}
  BY <1>2, <1>3, <1>4 DEF Players
<1> QED  BY <1>5 DEF w

\* Who is acceptable to whom is mutual.
LEMMA Mutual ==
  ASSUME QueueInv, NEW p \in Waiting, NEW q \in Waiting
  PROVE  /\ Compatible(p, q) <=> Compatible(q, p)
         /\ index[p] \in Int /\ index[q] \in Int
         /\ CurrentTolerance(p) \in Nat /\ CurrentTolerance(q) \in Nat
<1>1. index[p] \in Int /\ index[q] \in Int
  BY ConstantsAssumption DEF QueueInv, Waiting
<1>2. Distance(p, q) = Distance(q, p)
  BY <1>1 DEF Distance
<1>3. RegionsCompatible(p, q) <=> RegionsCompatible(q, p)
  BY DEF RegionsCompatible
<1>4. CurrentTolerance(p) \in Nat /\ CurrentTolerance(q) \in Nat
  <2>1. waited[p] \in Nat /\ waited[q] \in Nat
    BY ConstantsAssumption DEF QueueInv, Waiting
  <2>2. waited[p] * ToleranceStep \in Nat /\ waited[q] * ToleranceStep \in Nat
    BY <2>1, ConstantsAssumption
  <2> QED  BY <2>2, ConstantsAssumption DEF CurrentTolerance
<1> QED  BY <1>1, <1>2, <1>3, <1>4 DEF Compatible

\* The early exit loses nobody: a player before an acceptable one is no farther
\* away.
LEMMA PartnersAre ==
  ASSUME QueueInv, NEW o, Lists(o, Waiting), Sorted(o),
         NEW i \in 1 .. Len(o), NEW used, NEW j \in i + 1 .. Len(o),
         o[j] \notin used, Compatible(o[i], o[j])
  PROVE  j \in Partners(o, i, used)
<1>1. Len(o) \in Nat
  BY LenProperties DEF Lists
<1>2. ASSUME NEW k \in i + 1 .. j - 1
      PROVE  ~ TooFar(o[i], o[k])
  <2>1. k \in 1 .. Len(o) /\ j \in 1 .. Len(o) /\ k < j /\ i < k /\ i < j
    BY <1>1
  <2>2. /\ index[o[i]] \in Int /\ index[o[k]] \in Int /\ index[o[j]] \in Int
        /\ CurrentTolerance(o[i]) \in Nat
    BY <2>1, Mutual DEF Lists
  <2>3. /\ index[o[k]] <= index[o[j]] /\ index[o[i]] <= index[o[k]]
        /\ index[o[i]] <= index[o[j]]
    BY <2>1 DEF Sorted
  <2>4. index[o[j]] - index[o[i]] <= CurrentTolerance(o[i])
    BY <2>2, <2>3 DEF Compatible, Distance
  <2> QED  BY <2>2, <2>3, <2>4 DEF TooFar
<1> QED  BY <1>2 DEF Partners

\* What the double loop keeps, when the first i players have had their turn:
\* every pair is acceptable, nobody is in two, and of the first i players
\* nobody unpaired would accept, and be accepted by, anybody unpaired.
Matched(v, o, i) ==
  /\ v \in Seq(PlayerId \X PlayerId)
  /\ \A m \in 1 .. Len(v) :
       \E a, b \in 1 .. Len(o) :
         a # b /\ v[m] = <<o[a], o[b]>> /\ Compatible(o[a], o[b])
  /\ \A m, k \in 1 .. Len(v) : m # k => Both(v[m]) \intersect Both(v[k]) = {}
  /\ \A a \in 1 .. i : \A b \in a + 1 .. Len(o) :
       o[a] \notin Players(v) /\ o[b] \notin Players(v) => ~ Compatible(o[a], o[b])

\* The turn of player i.
LEMMA MatchedNext ==
  ASSUME QueueInv, NEW o, Lists(o, Waiting), Sorted(o),
         NEW i \in 1 .. Len(o), NEW v, Matched(v, o, i - 1),
         NEW partners, partners = Partners(o, i, Players(v)), NEW w,
         w = IF o[i] \in Players(v) \/ partners = {} THEN v
             ELSE Append(v, <<o[i], o[Lowest(partners)]>>)
  PROVE  Matched(w, o, i)
<1>1. Len(o) \in Nat /\ i \in Nat /\ \A a \in 1 .. Len(o) : o[a] \in PlayerId
  BY LenProperties, ElementOfSeq DEF Lists
<1>2. v \in Seq(PlayerId \X PlayerId) /\ Len(v) \in Nat
  BY LenProperties DEF Matched
<1>3. \A a \in 1 .. i : a \in 1 .. i - 1 \/ a = i
  BY <1>1
<1>4. CASE o[i] \in Players(v) \/ partners = {}
  <2>1. w = v
    BY <1>4
  <2>2. ASSUME NEW a \in 1 .. i, NEW b \in a + 1 .. Len(o),
               o[a] \notin Players(v), o[b] \notin Players(v)
        PROVE  ~ Compatible(o[a], o[b])
    <3>1. CASE a = i
      BY <1>4, <2>2, <3>1, PartnersAre
    <3>2. CASE a \in 1 .. i - 1
      BY <2>2, <3>2 DEF Matched
    <3> QED  BY <1>3, <3>1, <3>2
  <2>3. /\ \A m \in 1 .. Len(v) :
             \E a, b \in 1 .. Len(o) :
               a # b /\ v[m] = <<o[a], o[b]>> /\ Compatible(o[a], o[b])
        /\ \A m, k \in 1 .. Len(v) :
             m # k => Both(v[m]) \intersect Both(v[k]) = {}
    BY DEF Matched
  <2>4. Matched(v, o, i)
    BY <1>2, <2>2, <2>3 DEF Matched
  <2> QED  BY <2>1, <2>4
<1>5. CASE o[i] \notin Players(v) /\ partners # {}
  <2> DEFINE j == Lowest(partners)
  <2>1. j \in partners
    <3>1. partners \subseteq i + 1 .. Len(o)
      BY DEF Partners
    <3>2. IsFiniteSet(partners) /\ partners \subseteq Int
      <4>1. IsFiniteSet(i + 1 .. Len(o)) /\ i + 1 .. Len(o) \subseteq Int
        BY <1>1, FS_Interval
      <4> QED  BY <3>1, <4>1, FS_Subset
    <3> QED  BY <1>5, <3>2, LowestIs
  <2>2. /\ j \in i + 1 .. Len(o) /\ j \in 1 .. Len(o) /\ i # j
        /\ o[j] \notin Players(v) /\ Compatible(o[i], o[j])
    BY <1>1, <2>1 DEF Partners
  <2>3. w = Append(v, <<o[i], o[j]>>)
    BY <1>5
  <2> HIDE DEF j
  <2>4. o[i] \in PlayerId /\ o[j] \in PlayerId
    BY <1>1, <2>2
  <2>5. /\ w \in Seq(PlayerId \X PlayerId) /\ Len(w) = Len(v) + 1
        /\ w[Len(v) + 1] = <<o[i], o[j]>>
        /\ \A m \in 1 .. Len(v) : w[m] = v[m]
    BY <1>2, <2>3, <2>4, AppendProperties
  <2>6. Players(w) = Players(v) \union {o[i], o[j]}
    BY <1>2, <2>3, <2>4, PlayersMore
  <2>7. \A m \in 1 .. Len(w) : m \in 1 .. Len(v) \/ m = Len(v) + 1
    BY <1>2, <2>5
  <2>8. ASSUME NEW m \in 1 .. Len(w)
        PROVE  \E a, b \in 1 .. Len(o) :
                 a # b /\ w[m] = <<o[a], o[b]>> /\ Compatible(o[a], o[b])
    <3>1. CASE m \in 1 .. Len(v)
      <4>1. PICK a \in 1 .. Len(o), b \in 1 .. Len(o) :
              a # b /\ v[m] = <<o[a], o[b]>> /\ Compatible(o[a], o[b])
        BY <3>1 DEF Matched
      <4> QED  BY <2>5, <3>1, <4>1
    <3>2. CASE m = Len(v) + 1
      BY <2>2, <2>5, <3>2
    <3> QED  BY <2>7, <3>1, <3>2
  <2>9. ASSUME NEW m \in 1 .. Len(w), NEW k \in 1 .. Len(w), m # k
        PROVE  Both(w[m]) \intersect Both(w[k]) = {}
    <3>1. \A n \in 1 .. Len(v) : Both(w[n]) = Both(v[n]) /\ Both(v[n]) \subseteq Players(v)
      BY <2>5 DEF Both, Players
    <3>2. Both(w[Len(v) + 1]) = {o[i], o[j]}
      BY <2>5 DEF Both
    <3>3. {o[i], o[j]} \intersect Players(v) = {}
      BY <1>5, <2>2
    <3>4. \A m1, k1 \in 1 .. Len(v) :
            m1 # k1 => Both(v[m1]) \intersect Both(v[k1]) = {}
      BY DEF Matched
    <3>5. CASE m \in 1 .. Len(v) /\ k \in 1 .. Len(v)
      BY <2>9, <3>1, <3>4, <3>5
    <3>6. CASE m \in 1 .. Len(v) /\ k = Len(v) + 1
      BY <3>1, <3>2, <3>3, <3>6
    <3>7. CASE m = Len(v) + 1 /\ k \in 1 .. Len(v)
      BY <3>1, <3>2, <3>3, <3>7
    <3> QED  BY <2>7, <2>9, <3>5, <3>6, <3>7
  <2>10. ASSUME NEW a \in 1 .. i, NEW b \in a + 1 .. Len(o),
                o[a] \notin Players(w), o[b] \notin Players(w)
         PROVE  ~ Compatible(o[a], o[b])
    BY <1>3, <2>6, <2>10 DEF Matched
  <2> QED  BY <2>5, <2>8, <2>9, <2>10 DEF Matched
<1> QED  BY <1>4, <1>5

\* The pairs of a round.
LEMMA PairsAre ==
  ASSUME QueueInv
  PROVE  Matched(Pairs, FetchOrdered, Len(FetchOrdered))
<1> DEFINE o == FetchOrdered
           n == Len(o)
           X == Seq(PlayerId \X PlayerId)
           Step(before, i) ==
             IF o[i] \in Players(before) \/ Partners(o, i, Players(before)) = {}
             THEN before
             ELSE Append(before,
                         <<o[i], o[Lowest(Partners(o, i, Players(before)))]>>)
           Turn(f) == [i \in 0 .. n |-> IF i = 0 THEN <<>> ELSE Step(f[i - 1], i)]
           made == CHOOSE f : f = Turn(f)
           g == [q \in X \X (1 .. n) |-> Step(q[1], q[2])]
<1>1. Lists(o, Waiting) /\ Sorted(o)
  BY FetchIs
<1> HIDE DEF o
<1>2. n \in Nat /\ \A a \in 1 .. n : o[a] \in PlayerId
  BY <1>1, LenProperties, ElementOfSeq DEF Lists
<1>3. Pairs = made[n]
  BY DEF Pairs, o
<1>4. ASSUME NEW v \in X, NEW i \in 1 .. n
      PROVE  Step(v, i) \in X
  <2> DEFINE partners == Partners(o, i, Players(v))
  <2>1. CASE o[i] \in Players(v) \/ partners = {}
    BY <2>1
  <2>2. CASE o[i] \notin Players(v) /\ partners # {}
    <3>1. partners \subseteq i + 1 .. n
      BY DEF Partners
    <3>2. IsFiniteSet(partners) /\ partners \subseteq Int
      <4>1. IsFiniteSet(i + 1 .. n) /\ i + 1 .. n \subseteq Int
        BY <1>2, FS_Interval
      <4> QED  BY <3>1, <4>1, FS_Subset
    <3>3. Lowest(partners) \in 1 .. n
      BY <2>2, <1>2, <3>1, <3>2, LowestIs
    <3>4. <<o[i], o[Lowest(partners)]>> \in PlayerId \X PlayerId
      BY <1>2, <3>3
    <3>5. Step(v, i) = Append(v, <<o[i], o[Lowest(partners)]>>)
      BY <2>2
    <3> HIDE DEF Step, partners
    <3> QED  BY <3>4, <3>5, AppendProperties
  <2> QED  BY <2>1, <2>2
<1>5. \E f : f = Turn(f)
  <2>1. g \in [X \X (1 .. n) -> X] /\ <<>> \in X
    <3>1. <<>> \in X
      OBVIOUS
    <3>2. \A q \in X \X (1 .. n) : q[1] \in X /\ q[2] \in 1 .. n
      OBVIOUS
    <3> HIDE DEF Step, X, n
    <3>3. \A q \in X \X (1 .. n) : Step(q[1], q[2]) \in X
      BY <1>4, <3>2
    <3> QED  BY <3>1, <3>3
  <2>2. PICK f : HasCourse(f, g, <<>>, n, X)
    <3> HIDE DEF g, X, n
    <3> QED  BY <1>2, <2>1, CourseExists
  <2>3. ASSUME NEW i \in 0 .. n
        PROVE  f[i] = Turn(f)[i]
    <3> HIDE DEF Step
    <3>1. CASE i = 0
      BY <2>2, <3>1 DEF HasCourse
    <3>2. CASE i # 0
      <4>1. i \in 1 .. n /\ i - 1 \in 0 .. n
        BY <1>2, <3>2
      <4>2. f[i] = g[<<f[i - 1], i>>] /\ f[i - 1] \in X
        BY <2>2, <4>1 DEF HasCourse
      <4>3. g[<<f[i - 1], i>>] = Step(f[i - 1], i)
        <5> HIDE DEF X
        <5> QED  BY <4>1, <4>2
      <4> QED  BY <3>2, <4>2, <4>3
    <3> QED  BY <3>1, <3>2
  <2>4. f \in [0 .. n -> X]
    BY <2>2 DEF HasCourse
  <2> HIDE DEF Step
  <2> QED  BY <2>3, <2>4
<1>6. made = Turn(made)
  BY <1>5
<1> HIDE DEF made
<1>7. made[0] = <<>> /\ \A i \in 1 .. n : made[i] = Step(made[i - 1], i)
  <2> HIDE DEF Step
  <2> QED  BY <1>2, <1>6
<1> DEFINE T == {i \in 0 .. n : Matched(made[i], o, i)}
<1>8. 0 \in T
  <2>1. Len(<<>>) = 0 /\ <<>> \in X
    OBVIOUS
  <2>2. Matched(made[0], o, 0)
    BY <1>7, <2>1 DEF Matched
  <2> QED  BY <1>2, <2>2
<1>9. ASSUME NEW i \in 1 .. n, i - 1 \in T
      PROVE  i \in T
  <2>1. Matched(made[i - 1], o, i - 1)
    BY <1>9
  <2>2. made[i] = Step(made[i - 1], i)
    BY <1>7
  <2>3. Matched(made[i], o, i)
    BY <1>1, <2>1, <2>2, MatchedNext
  <2> QED  BY <1>2, <2>3
<1>10. n \in T
  <2>1. \A i \in 0 .. n : i \in T
    <3> HIDE DEF T, n
    <3> QED  BY <1>2, <1>8, <1>9, UpTo
  <2>2. n \in 0 .. n
    BY <1>2
  <2> HIDE DEF T, n
  <2> QED  BY <2>1, <2>2
<1> QED  BY <1>3, <1>10 DEF o

\* A round pairs players that wait, and takes them out.
LEMMA RoundInv ==
  ASSUME QueueInv, RunMatching
  PROVE  /\ QueueInv' /\ Waiting' = Waiting \ Players(Pairs)
         /\ unpublished' = Pairs
<1>1. /\ Forget(Players(Pairs)) /\ unpublished' = Pairs
      /\ last_queue_size' = Cardinality(Waiting \ Players(Pairs))
  BY DEF RunMatching
<1>2. Pairs \in Seq(PlayerId \X PlayerId)
  BY PairsAre DEF Matched
<1> QED  BY <1>1, <1>2, ForgetInv

----------------------------------------------------------------------------
(* The theorems. *)

LEMMA QueueNext == QueueInv /\ [Next]_vars => QueueInv'
<1> SUFFICES ASSUME QueueInv, [Next]_vars
             PROVE  QueueInv'
  OBVIOUS
<1>1. ASSUME NEW p \in PlayerId, NEW elo \in Elo, NEW r \in Region,
             Enqueue(p, elo, r)
      PROVE  QueueInv'
  BY <1>1, EnqueueInv
<1>2. ASSUME NEW p \in PlayerId, Cancel(p)
      PROVE  QueueInv'
  <2>1. /\ Forget({p}) /\ last_queue_size' = Cardinality(Waiting \ {p})
        /\ unpublished' \in Seq(PlayerId \X PlayerId)
    BY <1>2 DEF Cancel, QueueInv
  <2> QED  BY <2>1, ForgetInv
<1>3. ASSUME RunMatching
      PROVE  QueueInv'
  BY <1>3, RoundInv
<1>4. ASSUME Publish
      PROVE  QueueInv'
  <2>1. unpublished' \in Seq(PlayerId \X PlayerId)
    BY <1>4, HeadTailProperties DEF Publish, QueueInv
  <2> QED  BY <1>4, <2>1 DEF Publish, QueueInv, Waiting
<1>5. ASSUME TimePasses
      PROVE  QueueInv'
  <2>1. waited' \in [PlayerId -> 0..MaxWait]
    BY <1>5, ConstantsAssumption DEF TimePasses, QueueInv
  <2> QED  BY <1>5, <2>1 DEF TimePasses, QueueInv, Waiting
<1>6. ASSUME UNCHANGED vars
      PROVE  QueueInv'
  BY <1>6 DEF vars, QueueInv, Waiting
<1> QED  BY <1>1, <1>2, <1>3, <1>4, <1>5, <1>6 DEF Next

\* The inductive invariant holds in every behaviour.
THEOREM QueueInvariant == Spec => []QueueInv
  BY QueueInit, QueueNext, PTL DEF Spec

\* The buckets and the index of the queue agree, and the gauge counts who
\* waits, whatever re-queueing, cancelling and pairing went before.
THEOREM QueueStaysConsistent == Spec => []QueueConsistent
<1>1. QueueInv => QueueConsistent
  <2> SUFFICES ASSUME QueueInv PROVE QueueConsistent
    OBVIOUS
  <2>1. last_queue_size \in Nat
    BY FS_CardinalityType DEF QueueInv
  <2>2. TypeOK
    BY <2>1 DEF TypeOK, QueueInv
  <2>3. ASSUME NEW p \in PlayerId, NEW e \in Elo
        PROVE  Cardinality({i \in 1..Len(buckets[e]) : buckets[e][i] = p})
                 = IF index[p] = e THEN 1 ELSE 0
    <3> DEFINE at == {i \in 1..Len(buckets[e]) : buckets[e][i] = p}
    <3>1. Lists(buckets[e], {q \in PlayerId : index[q] = e})
      BY DEF QueueInv
    <3>2. CASE index[p] = e
      <4>1. PICK i \in 1..Len(buckets[e]) : buckets[e][i] = p
        BY <3>1, <3>2 DEF Lists
      <4>2. at = {i}
        BY <3>1, <4>1 DEF Lists
      <4> QED  BY <3>2, <4>2, FS_Singleton
    <3>3. CASE index[p] # e
      <4>1. at = {}
        BY <3>1, <3>3 DEF Lists
      <4> QED  BY <3>3, <4>1, FS_EmptySet
    <3> QED  BY <3>2, <3>3
  <2> QED  BY <2>2, <2>3 DEF QueueConsistent, QueueInv
<1> QED  BY <1>1, QueueInvariant, PTL

\* Everybody paired waited, is within the other's reach and in no other pair.
THEOREM MatchesAreAlwaysFair == Spec => MatchesAreFair
<1> DEFINE Fair(new) ==
       /\ \A m \in 1..Len(new) :
            /\ Both(new[m]) \subseteq Waiting /\ new[m][1] # new[m][2]
            /\ RegionsCompatible(new[m][1], new[m][2])
            /\ \A p \in Both(new[m]) :
                 Distance(new[m][1], new[m][2]) <= CurrentTolerance(p)
       /\ \A m, n \in 1..Len(new) :
            m # n => Both(new[m]) \intersect Both(new[n]) = {}
<1>1. ASSUME QueueInv, RunMatching
      PROVE  Fair(unpublished')
  <2> DEFINE o == FetchOrdered
  <2>1. unpublished' = Pairs /\ Matched(Pairs, o, Len(o)) /\ Lists(o, Waiting)
    BY <1>1, RoundInv, PairsAre, FetchIs
  <2> HIDE DEF o
  <2>2. ASSUME NEW m \in 1..Len(Pairs)
        PROVE  /\ Both(Pairs[m]) \subseteq Waiting /\ Pairs[m][1] # Pairs[m][2]
               /\ RegionsCompatible(Pairs[m][1], Pairs[m][2])
               /\ \A p \in Both(Pairs[m]) :
                    Distance(Pairs[m][1], Pairs[m][2]) <= CurrentTolerance(p)
    <3>1. PICK a \in 1 .. Len(o), b \in 1 .. Len(o) :
            a # b /\ Pairs[m] = <<o[a], o[b]>> /\ Compatible(o[a], o[b])
      BY <2>1 DEF Matched
    <3>2. o[a] \in Waiting /\ o[b] \in Waiting /\ o[a] # o[b]
      BY <2>1, <3>1 DEF Lists
    <3>3. Pairs[m][1] = o[a] /\ Pairs[m][2] = o[b] /\ Both(Pairs[m]) = {o[a], o[b]}
      BY <3>1 DEF Both
    <3> QED  BY <3>1, <3>2, <3>3 DEF Compatible
  <2>3. \A m, n \in 1..Len(Pairs) :
          m # n => Both(Pairs[m]) \intersect Both(Pairs[n]) = {}
    BY <2>1 DEF Matched
  <2> QED  BY <2>1, <2>2, <2>3
<1>2. QueueInv /\ [Next]_vars => [RunMatching => Fair(unpublished')]_vars
  <2> HIDE DEF Fair
  <2> QED  BY <1>1
<1> QED  BY <1>2, QueueInvariant, PTL DEF Spec, MatchesAreFair

\* A round leaves no two players behind that would have accepted each other.
THEOREM NobodyIsLeftBehind == Spec => NothingLeftBehind
<1> DEFINE Apart(p, q) == \/ Distance(p, q) > CurrentTolerance(p)
                          \/ Distance(p, q) > CurrentTolerance(q)
           Left == \A p, q \in Waiting' :
                     p # q /\ RegionsCompatible(p, q) => Apart(p, q)
<1>1. ASSUME QueueInv, RunMatching
      PROVE  Left
  <2> DEFINE o == FetchOrdered
  <2>1. /\ Waiting' = Waiting \ Players(Pairs)
        /\ Matched(Pairs, o, Len(o)) /\ Lists(o, Waiting)
    BY <1>1, RoundInv, PairsAre, FetchIs
  <2> HIDE DEF o
  <2>2. ASSUME NEW p \in Waiting', NEW q \in Waiting', p # q,
               RegionsCompatible(p, q)
        PROVE  Apart(p, q)
    <3>1. p \in Waiting /\ q \in Waiting
          /\ p \notin Players(Pairs) /\ q \notin Players(Pairs)
      BY <2>1
    <3>2. PICK a \in 1 .. Len(o), b \in 1 .. Len(o) : o[a] = p /\ o[b] = q
      BY <2>1, <3>1 DEF Lists
    <3>3. Len(o) \in Nat /\ a # b
      BY <2>1, <2>2, <3>2, LenProperties DEF Lists
    <3>4. ~ Compatible(p, q)
      <4>1. CASE a < b
        <5>1. b \in a + 1 .. Len(o)
          BY <3>3, <4>1
        <5> QED  BY <2>1, <3>1, <3>2, <5>1 DEF Matched
      <4>2. CASE b < a
        <5>1. a \in b + 1 .. Len(o)
          BY <3>3, <4>2
        <5>2. ~ Compatible(q, p)
          BY <2>1, <3>1, <3>2, <5>1 DEF Matched
        <5> QED  BY <1>1, <3>1, <5>2, Mutual
      <4> QED  BY <3>3, <4>1, <4>2
    <3>5. /\ Distance(p, q) \in Int
          /\ CurrentTolerance(p) \in Nat /\ CurrentTolerance(q) \in Nat
      <4>1. /\ index[p] \in Int /\ index[q] \in Int
            /\ CurrentTolerance(p) \in Nat /\ CurrentTolerance(q) \in Nat
        BY <1>1, <3>1, Mutual
      <4> QED  BY <4>1 DEF Distance
    <3>6. ~ (Distance(p, q) <= CurrentTolerance(p))
            \/ ~ (Distance(p, q) <= CurrentTolerance(q))
      BY <2>2, <3>4 DEF Compatible
    <3> DEFINE d == Distance(p, q)
               cp == CurrentTolerance(p)
               cq == CurrentTolerance(q)
    <3>7. d > cp \/ d > cq
      <4> HIDE DEF d, cp, cq
      <4> QED  BY <3>5, <3>6 DEF d, cp, cq
    <3> QED  BY <3>7
  <2> QED  BY <2>2
<1>2. QueueInv /\ [Next]_vars => [RunMatching => Left]_vars
  <2> HIDE DEF Left
  <2> QED  BY <1>1
<1> QED  BY <1>2, QueueInvariant, PTL DEF Spec, NothingLeftBehind
=============================================================================
