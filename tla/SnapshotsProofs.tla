-------------------------- MODULE SnapshotsProofs ---------------------------
(***************************************************************************)
(* TLAPS proofs about Snapshots, for any threads, any players, any size of *)
(* the ring and any EPSILON.                                               *)
(***************************************************************************)
EXTENDS Snapshots, InductionLemmas

----------------------------------------------------------------------------
(* Numbers. *)

\* Smallest finds the least of some numbers.
LEMMA SmallestIs ==
  ASSUME NEW T, T \subseteq Nat, T # {}
  PROVE  /\ Smallest(T) \in T
         /\ \A b \in T : Smallest(T) <= b
  BY Least DEF Smallest

----------------------------------------------------------------------------
(* The slots of the ring. *)

\* The ring has a slot.
LEMMA SizeType == Size \in Nat \ {0}
  BY ConstantsAssumption

\* A remainder, for numbers that go around once at most.
LEMMA Around ==
  ASSUME NEW x \in 0 .. 2 * Size - 1
  PROVE  x % Size = IF x < Size THEN x ELSE x - Size
  BY SizeType

\* The slot of each age, from the head backwards.
LEMMA SlotIs ==
  ASSUME NEW h \in 0 .. Size - 1, NEW age \in 0 .. Size - 1
  PROVE  (h + Size - 1 - age) % Size
           = IF age < h THEN h - 1 - age ELSE h + Size - 1 - age
<1> DEFINE x == h + Size - 1 - age
<1>1. x \in 0 .. 2 * Size - 1 /\ (x < Size <=> ~ (age < h))
  BY SizeType
<1> HIDE DEF x
<1>2. x % Size = IF x < Size THEN x ELSE x - Size
  BY <1>1, Around
<1> QED  BY <1>1, <1>2, SizeType DEF x

\* The head goes around.
LEMMA NextHeadIs ==
  ASSUME NEW h \in 0 .. Size - 1
  PROVE  /\ NextHead(h) = IF h = Size - 1 THEN 0 ELSE h + 1
         /\ NextHead(h) \in 0 .. Size - 1
<1> DEFINE x == h + 1
<1>1. x \in 0 .. 2 * Size - 1 /\ (x < Size <=> h # Size - 1)
  BY SizeType
<1> HIDE DEF x
<1>2. x % Size = IF x < Size THEN x ELSE x - Size
  BY <1>1, Around
<1>3. NextHead(h) = x % Size
  BY DEF NextHead, x
<1> QED  BY <1>1, <1>2, <1>3, SizeType DEF x

----------------------------------------------------------------------------
(* The invariant. *)

Snapshot == [sequence : Nat, timestamp : Int,
             players : Seq([id : Player, x : Int, health : Nat])]

\* A snapshot that CreateSnapshot has made.
Made(s) ==
  /\ s \in Snapshot
  /\ s.sequence \in 1 .. current_sequence_
  /\ s.timestamp \in 0 .. now
  /\ s.players \in Worlds

Types ==
  /\ TypeOK
  /\ buffer_ \in [0 .. Size - 1 -> Snapshot]
  /\ held \in [Writer -> Snapshot]
  /\ saved \in Seq(Snapshot)

AllMade ==
  /\ \A i \in 1 .. Len(saved) : Made(saved[i])
  /\ \A w \in Writer : held[w] # None => Made(held[w])

\* No two snapshots have the same number, saved or not.
Distinct ==
  /\ \A i, j \in 1 .. Len(saved) : saved[i].sequence = saved[j].sequence => i = j
  /\ \A v, w \in Writer :
       held[v] # None /\ held[w] # None /\ held[v].sequence = held[w].sequence
         => v = w
  /\ \A w \in Writer, i \in 1 .. Len(saved) :
       held[w] # None => held[w].sequence # saved[i].sequence

\* The slot of each age has the snapshot of that age.
Ring ==
  /\ count_ = IF Len(saved) < Size THEN Len(saved) ELSE Size
  /\ \A age \in Ages : buffer_[Slot(age)] = saved[Len(saved) - age]

Inv == Types /\ AllMade /\ Distinct /\ Ring

\* No snapshot is a snapshot, numbered 0, as far as types go.
LEMMA NoneType == None \in Snapshot
<1>1. <<>> \in Seq([id : Player, x : Int, health : Nat])
  OBVIOUS
<1> QED  BY <1>1 DEF None, Snapshot

\* Nothing is saved, and the ring is empty.
LEMMA InvInit == Init => Inv
<1> SUFFICES ASSUME Init PROVE Inv
  OBVIOUS
<1> USE ConstantsAssumption, NoneType DEF Init
<1>1. Types
  BY DEF Types, TypeOK
<1>2. AllMade /\ Distinct
  BY DEF AllMade, Distinct
<1>3. Ring
  BY DEF Ring, Ages
<1> QED  BY <1>1, <1>2, <1>3 DEF Inv

\* The clock ticks.
LEMMA TickInv == Inv /\ Tick => Inv'
<1> SUFFICES ASSUME Inv, Tick PROVE Inv'
  OBVIOUS
<1> USE ConstantsAssumption DEF Inv, Tick
<1>1. Types'
  BY DEF Types, TypeOK
<1>2. AllMade'
  <2>1. now \in Nat
    BY DEF Types, TypeOK
  <2> QED  BY <2>1 DEF AllMade, Made
<1>3. Distinct'
  BY DEF Distinct
<1>4. Ring'
  BY DEF Ring, Ages, Slot
<1> QED  BY <1>1, <1>2, <1>3, <1>4

\* A new snapshot has a number of its own.
LEMMA CreateInv ==
  ASSUME Inv, NEW w \in Writer, NEW players \in Worlds,
         CreateSnapshot(w, players)
  PROVE  Inv'
<1> DEFINE new == [sequence |-> current_sequence_ + 1, timestamp |-> now,
                   players |-> players]
<1> USE ConstantsAssumption DEF Inv
<1>1. current_sequence_ \in Nat /\ now \in 0 .. MaxTime /\ held \in [Writer -> Snapshot]
  BY DEF Types, TypeOK
<1>2. new \in Snapshot
  <2>1. current_sequence_ + 1 \in Nat /\ now \in Int
    BY <1>1
  <2>2. players \in Seq([id : Player, x : Int, health : Nat])
    OBVIOUS
  <2> QED  BY <2>1, <2>2 DEF Snapshot
<1>3. current_sequence_' = current_sequence_ + 1 /\ held' = [held EXCEPT ![w] = new]
      /\ UNCHANGED <<now, buffer_, head_, count_, saved>>
      /\ current_sequence_ < MaxSequence
  BY DEF CreateSnapshot
<1>4. new.sequence = current_sequence_ + 1 /\ new.timestamp = now
      /\ new.players = players
  OBVIOUS
<1> HIDE DEF new
<1>5. Types'
  <2>1. held' \in [Writer -> Snapshot]
    BY <1>1, <1>2, <1>3
  <2>2. TypeOK'
    BY <1>3, <2>1 DEF Types, TypeOK
  <2> QED  BY <1>3, <2>1, <2>2 DEF Types
<1>6. AllMade'
  <2>1. \A s : Made(s) => Made(s)'
    BY <1>1, <1>3 DEF Made
  <2>2. /\ new.sequence \in 1 .. current_sequence_'
        /\ new.timestamp \in 0 .. now' /\ new.players \in Worlds
    BY <1>1, <1>3, <1>4
  <2>3. ASSUME NEW v \in Writer, held'[v] # None
        PROVE  Made(held[v])'
    <3>1. CASE v = w
      <4>1. held'[v] = new
        BY <1>1, <1>3, <3>1
      <4> QED  BY <1>2, <2>2, <4>1 DEF Made
    <3>2. CASE v # w
      BY <1>1, <1>3, <2>1, <2>3, <3>2 DEF AllMade, Made
    <3> QED  BY <3>1, <3>2
  <2>4. ASSUME NEW i \in 1 .. Len(saved')
        PROVE  Made(saved[i])'
    BY <1>3, <2>1 DEF AllMade, Made
  <2> QED  BY <2>3, <2>4 DEF AllMade
<1>7. Distinct'
  <2>1. \A i \in 1 .. Len(saved) : saved[i].sequence # new.sequence
    BY <1>1, <1>4 DEF AllMade, Made
  <2>2. \A v \in Writer : held[v] # None => held[v].sequence # new.sequence
    BY <1>1, <1>4 DEF AllMade, Made
  <2> QED  BY <1>1, <1>3, <2>1, <2>2 DEF Distinct
<1>8. Ring'
  BY <1>3 DEF Ring, Ages, Slot
<1> QED  BY <1>5, <1>6, <1>7, <1>8

\* The new snapshot takes the slot at the head; all others are one older.
LEMMA SaveInv ==
  ASSUME Inv, NEW w \in Writer, SaveSnapshot(w)
  PROVE  Inv'
<1> DEFINE s == held[w]
           n == Len(saved)
<1> USE ConstantsAssumption DEF Inv
<1>1. /\ head_ \in 0 .. Size - 1 /\ count_ \in 0 .. Size
      /\ buffer_ \in [0 .. Size - 1 -> Snapshot]
      /\ held \in [Writer -> Snapshot] /\ saved \in Seq(Snapshot)
      /\ current_sequence_ \in Nat /\ now \in Nat
  BY DEF Types, TypeOK
<1>2. s \in Snapshot /\ s # None /\ Made(s) /\ n \in Nat
  BY <1>1 DEF SaveSnapshot, AllMade
<1>3. /\ buffer_' = [buffer_ EXCEPT ![head_] = s]
      /\ head_' = NextHead(head_)
      /\ count_' = IF count_ < Size THEN count_ + 1 ELSE count_
      /\ saved' = Append(saved, s)
      /\ held' = [held EXCEPT ![w] = None]
      /\ UNCHANGED <<current_sequence_, now>>
  BY DEF SaveSnapshot
<1>4. /\ saved' \in Seq(Snapshot) /\ Len(saved') = n + 1
      /\ \A i \in 1 .. n : saved'[i] = saved[i]
      /\ saved'[n + 1] = s
  BY <1>1, <1>2, <1>3, AppendProperties
<1> HIDE DEF s
<1>5. Types'
  <2>1. head_' \in 0 .. Size - 1
    BY <1>1, <1>3, NextHeadIs
  <2>2. held' \in [Writer -> Snapshot] /\ buffer_' \in [0 .. Size - 1 -> Snapshot]
    BY <1>1, <1>2, <1>3, NoneType
  <2>3. count_' \in 0 .. Size
    BY <1>1, <1>3
  <2>4. TypeOK'
    BY <1>3, <2>1, <2>2, <2>3 DEF Types, TypeOK
  <2> QED  BY <1>4, <2>2, <2>4 DEF Types
<1>6. AllMade'
  <2>1. \A r : Made(r) <=> Made(r)'
    BY <1>3 DEF Made
  <2>2. ASSUME NEW i \in 1 .. n + 1
        PROVE  Made(saved'[i])
    BY <1>1, <1>2, <1>4 DEF AllMade
  <2>3. ASSUME NEW v \in Writer, held'[v] # None
        PROVE  Made(held'[v])
    BY <1>1, <1>3, <2>3 DEF AllMade
  <2> QED  BY <1>3, <1>4, <2>1, <2>2, <2>3 DEF AllMade, Made
<1>7. Distinct'
  <2>1. \A i \in 1 .. n : saved[i].sequence # s.sequence
    BY <1>2 DEF Distinct, s
  <2>2. \A v \in Writer : v # w /\ held[v] # None
          => held[v].sequence # s.sequence
    BY <1>2 DEF Distinct, s
  <2>3. \A v \in Writer : held'[v] = IF v = w THEN None ELSE held[v]
    BY <1>1, <1>3
  <2>4. \A i \in 1 .. n + 1 : saved'[i] = IF i = n + 1 THEN s ELSE saved[i]
    BY <1>1, <1>2, <1>4
  <2>5. \A i, j \in 1 .. n + 1 :
          saved'[i].sequence = saved'[j].sequence => i = j
    BY <1>2, <2>1, <2>4 DEF Distinct
  <2>6. \A v \in Writer, i \in 1 .. n + 1 :
          held'[v] # None => held'[v].sequence # saved'[i].sequence
    BY <1>2, <2>2, <2>3, <2>4 DEF Distinct
  <2>7. \A v, u \in Writer :
          held'[v] # None /\ held'[u] # None
          /\ held'[v].sequence = held'[u].sequence => v = u
    BY <2>3 DEF Distinct
  <2> QED  BY <1>4, <2>5, <2>6, <2>7 DEF Distinct
<1>8. Ring'
  <2>1. count_' = IF n + 1 < Size THEN n + 1 ELSE Size
    BY <1>2, <1>3 DEF Ring
  <2>2. head_' = IF head_ = Size - 1 THEN 0 ELSE head_ + 1
    BY <1>1, <1>3, NextHeadIs
  <2>3. head_' \in 0 .. Size - 1
    BY <1>1, <1>3, NextHeadIs
  <2>4. \A age \in 0 .. Size - 1 :
          Slot(age) = IF age < head_ THEN head_ - 1 - age
                      ELSE head_ + Size - 1 - age
    BY <1>1, SlotIs DEF Slot
  <2>5. \A age \in 0 .. Size - 1 :
          Slot(age)' = IF age < head_' THEN head_' - 1 - age
                       ELSE head_' + Size - 1 - age
    BY <2>3, SlotIs DEF Slot
  <2>6. ASSUME NEW age \in 0 .. count_' - 1
        PROVE  buffer_'[Slot(age)'] = saved'[n + 1 - age]
    <3>1. CASE age = 0
      <4>1. Slot(age)' = head_
        BY <1>1, <2>2, <2>5, <3>1
      <4> QED  BY <1>1, <1>2, <1>3, <1>4, <3>1, <4>1
    <3>2. CASE age # 0
      <4>1. age - 1 \in Ages /\ age - 1 \in 0 .. Size - 2 /\ age \in 0 .. Size - 1
        BY <1>1, <1>3, <3>2 DEF Ages
      <4>2. Slot(age)' = Slot(age - 1)
        <5>1. Slot(age - 1) = IF age - 1 < head_ THEN head_ - age
                              ELSE head_ + Size - age
          BY <1>1, <2>4, <4>1, SizeType
        <5>2. Slot(age)' = IF age < head_' THEN head_' - 1 - age
                           ELSE head_' + Size - 1 - age
          BY <2>5, <4>1
        <5> QED  BY <1>1, <2>2, <3>2, <4>1, <5>1, <5>2, SizeType
      <4>3. Slot(age - 1) # head_ /\ Slot(age - 1) \in 0 .. Size - 1
        <5>1. Slot(age - 1) = IF age - 1 < head_ THEN head_ - 1 - (age - 1)
                              ELSE head_ + Size - 1 - (age - 1)
          BY <2>4, <4>1
        <5> QED  BY <1>1, <4>1, <5>1, SizeType
      <4>4. buffer_'[Slot(age)'] = buffer_[Slot(age - 1)]
        BY <1>1, <1>3, <4>2, <4>3
      <4>5. buffer_[Slot(age - 1)] = saved[n - (age - 1)]
        BY <4>1 DEF Ring
      <4>6. n - (age - 1) \in 1 .. n /\ n - (age - 1) = n + 1 - age
        BY <1>2, <4>1 DEF Ages, Ring
      <4> QED  BY <1>4, <4>4, <4>5, <4>6
    <3> QED  BY <3>1, <3>2
  <2> QED  BY <1>4, <2>1, <2>6 DEF Ring, Ages
<1> QED  BY <1>5, <1>6, <1>7, <1>8

\* Whatever the threads do, the ring, the numbers and the history agree.
THEOREM Invariant == Spec => []Inv
<1>1. Inv /\ [Next]_vars => Inv'
  <2> SUFFICES ASSUME Inv, [Next]_vars PROVE Inv'
    OBVIOUS
  <2>1. CASE UNCHANGED vars
    BY <2>1 DEF vars, Inv, Types, TypeOK, AllMade, Made, Distinct, Ring, Ages, Slot
  <2> QED  BY <2>1, TickInv, CreateInv, SaveInv DEF Next
<1> QED  BY <1>1, InvInit, PTL DEF Spec

----------------------------------------------------------------------------
(* Reading. *)

\* Recent in terms of what was saved.
LEMMA RecentIs ==
  ASSUME Inv
  PROVE  /\ Len(saved) \in Nat /\ count_ \in 0 .. Len(saved) /\ count_ \in 0 .. Size
         /\ (count_ = 0 <=> saved = <<>>)
         /\ Len(Recent) = count_ /\ DOMAIN Recent = 1 .. count_
         /\ \A i \in 1 .. count_ : /\ Recent[i] = saved[Len(saved) - count_ + i]
                                   /\ Made(Recent[i])
<1> DEFINE n == Len(saved)
           first == IF n > Size THEN n - Size + 1 ELSE 1
<1>1. saved \in Seq(Snapshot) /\ n \in Nat
  BY LenProperties DEF Inv, Types
<1>2. first \in 1 .. n + 1 /\ first = n - count_ + 1 /\ count_ \in 0 .. n
      /\ count_ \in 0 .. Size /\ (count_ = 0 <=> n = 0)
  <2>1. count_ = IF n < Size THEN n ELSE Size
    BY DEF Inv, Ring
  <2> HIDE DEF n
  <2> QED  BY <1>1, <2>1, SizeType
<1>3. \A i \in first .. n : saved[i] \in Snapshot
  BY <1>1, <1>2, ElementOfSeq
<1>4. Recent = SubSeq(saved, first, n)
  BY DEF Recent
<1> HIDE DEF first
<1>5. /\ Recent \in Seq(Snapshot)
      /\ Len(Recent) = IF first <= n THEN n - first + 1 ELSE 0
      /\ \A i \in 1 .. n - first + 1 : Recent[i] = saved[first + i - 1]
  <2> HIDE DEF n
  <2> QED  BY <1>1, <1>2, <1>3, <1>4, SubSeqProperties
<1>6. Len(Recent) = count_ /\ DOMAIN Recent = 1 .. count_
  BY <1>1, <1>2, <1>5, LenProperties
<1>7. \A i \in 1 .. count_ : Recent[i] = saved[n - count_ + i]
  BY <1>1, <1>2, <1>5
<1>8. \A i \in 1 .. count_ : Made(Recent[i])
  BY <1>1, <1>2, <1>7 DEF Inv, AllMade
<1>9. n = 0 <=> saved = <<>>
  BY <1>1, EmptySeq
<1> QED  BY <1>1, <1>2, <1>6, <1>7, <1>8, <1>9

\* The slot of an age has the snapshot of Recent that is so old.
LEMMA SlotHolds ==
  ASSUME Inv, NEW age \in Ages
  PROVE  /\ count_ - age \in 1 .. count_
         /\ buffer_[Slot(age)] = Recent[count_ - age]
<1>1. count_ \in Nat /\ Len(saved) \in Nat
  BY RecentIs
<1>2. count_ - age \in 1 .. count_
  BY <1>1 DEF Ages
<1>3. Recent[count_ - age] = saved[Len(saved) - count_ + (count_ - age)]
  BY <1>2, RecentIs
<1>4. buffer_[Slot(age)] = saved[Len(saved) - age]
  BY DEF Inv, Ring
<1> QED  BY <1>1, <1>2, <1>3, <1>4 DEF Ages

\* No two of the ring have the same number.
LEMMA RecentDistinct ==
  ASSUME Inv, NEW i \in 1 .. count_, NEW j \in 1 .. count_,
         Recent[i].sequence = Recent[j].sequence
  PROVE  i = j
<1>1. Len(saved) \in Nat /\ count_ \in 0 .. Len(saved)
  BY RecentIs
<1>2. /\ Recent[i] = saved[Len(saved) - count_ + i]
      /\ Recent[j] = saved[Len(saved) - count_ + j]
  BY RecentIs
<1>3. Len(saved) - count_ + i \in 1 .. Len(saved)
      /\ Len(saved) - count_ + j \in 1 .. Len(saved)
  BY <1>1
<1>4. Len(saved) - count_ + i = Len(saved) - count_ + j
  BY <1>2, <1>3 DEF Inv, Distinct
<1> QED  BY <1>1, <1>4

\* GetSnapshot finds what is in the ring.
LEMMA Found ==
  ASSUME Inv, NEW i \in 1 .. count_
  PROVE  GetSnapshot(Recent[i].sequence) = Recent[i]
<1> DEFINE hits == {a \in Ages :
                      buffer_[Slot(a)].sequence = Recent[i].sequence}
<1>1. count_ \in Nat
  BY RecentIs
<1>2. count_ - i \in Ages /\ count_ - (count_ - i) = i
  BY <1>1 DEF Ages
<1>3. count_ - i \in hits
  BY <1>2, SlotHolds
<1>4. \A a \in hits : buffer_[Slot(a)] = Recent[i]
  <2> TAKE a \in hits
  <2>1. count_ - a \in 1 .. count_ /\ buffer_[Slot(a)] = Recent[count_ - a]
    BY SlotHolds
  <2> QED  BY <2>1, RecentDistinct
<1>5. hits \subseteq Nat
  BY <1>1 DEF Ages
<1> HIDE DEF hits
<1>6. Smallest(hits) \in hits
  BY <1>3, <1>5, SmallestIs
<1> QED  BY <1>3, <1>4, <1>6 DEF GetSnapshot, hits

\* GetSnapshot finds nothing else.
LEMMA NotFound ==
  ASSUME Inv, NEW s, \A i \in 1 .. count_ : Recent[i].sequence # s
  PROVE  GetSnapshot(s) = None
<1>1. \A a \in Ages : buffer_[Slot(a)].sequence # s
  BY SlotHolds
<1> QED  BY <1>1 DEF GetSnapshot

\* The latest snapshot is the one saved last.
LEMMA LatestIs ==
  ASSUME Inv
  PROVE  GetLatestSnapshot = IF saved = <<>> THEN None ELSE Recent[Len(Recent)]
<1>1. CASE count_ = 0
  BY <1>1, RecentIs DEF GetLatestSnapshot
<1>2. CASE count_ # 0
  <2>1. count_ \in Nat /\ 0 \in Ages
    BY <1>2, RecentIs DEF Ages
  <2>2. buffer_[Slot(0)] = Recent[count_]
    BY <2>1, SlotHolds
  <2>3. Slot(0) = (head_ + Size - 1) % Size
    BY SizeType DEF Slot, Inv, Types, TypeOK
  <2> QED  BY <1>2, <2>2, <2>3, RecentIs DEF GetLatestSnapshot
<1> QED  BY <1>1, <1>2

\* The ring holds the last Size snapshots saved and nothing else, whatever
\* the order in which the threads save what they created.
THEOREM RingAlwaysHoldsTheLast == Spec => []RingHoldsTheLast
<1>1. Inv => RingHoldsTheLast
  <2> SUFFICES ASSUME Inv PROVE RingHoldsTheLast
    OBVIOUS
  <2>1. TypeOK
    BY DEF Inv, Types
  <2>2. ASSUME NEW s \in 1 .. current_sequence_
        PROVE  LET those == {i \in DOMAIN Recent : Recent[i].sequence = s} IN
               IF those = {} THEN GetSnapshot(s) = None
               ELSE \A i \in those : GetSnapshot(s) = Recent[i]
    BY RecentIs, Found, NotFound
  <2> QED  BY <2>1, <2>2, LatestIs DEF RingHoldsTheLast
<1> QED  BY <1>1, Invariant, PTL

----------------------------------------------------------------------------
(* Looking back. *)

\* The slot after the one of an age is that of the next younger age.
LEMMA SlotAfter ==
  ASSUME Inv, NEW age \in Ages, age # 0
  PROVE  (Slot(age) + 1) % Size = Slot(age - 1)
<1>1. /\ head_ \in 0 .. Size - 1 /\ age \in 0 .. Size - 1
      /\ age - 1 \in 0 .. Size - 1 /\ age \in Nat
  BY SizeType, RecentIs DEF Inv, Types, TypeOK, Ages
<1>2. Slot(age) = IF age < head_ THEN head_ - 1 - age
                  ELSE head_ + Size - 1 - age
  BY <1>1, SlotIs DEF Slot
<1>3. Slot(age - 1) = IF age - 1 < head_ THEN head_ - 1 - (age - 1)
                      ELSE head_ + Size - 1 - (age - 1)
  BY <1>1, SlotIs DEF Slot
<1>4. Slot(age) \in 0 .. Size - 1
  BY <1>1, <1>2, SizeType
<1>5. (Slot(age) + 1) % Size = IF Slot(age) = Size - 1 THEN 0 ELSE Slot(age) + 1
  BY <1>4, NextHeadIs DEF NextHead
<1> QED  BY <1>1, <1>2, <1>3, <1>5, SizeType

\* What GetSnapshotAt answers from the snapshots at i and i + 1.
Answer(i, time) ==
  [sequence |-> Recent[i + 1].sequence, timestamp |-> time,
   players |-> Blend(Recent[i], Recent[i + 1], time)]

\* The three answers of GetSnapshotAt, told in terms of Recent: "i" is the
\* last one at or before the time asked for.
LookedBack(time) ==
  \/ /\ GetSnapshotAt(time) = Recent[1]
     /\ \A i \in 1 .. count_ : Recent[i].timestamp > time
  \/ /\ GetSnapshotAt(time) = Recent[count_]
     /\ Recent[count_].timestamp <= time
  \/ \E i \in 1 .. count_ - 1 :
       /\ GetSnapshotAt(time) = Answer(i, time)
       /\ Recent[i].timestamp <= time
       /\ \A j \in i + 1 .. count_ : Recent[j].timestamp > time

\* GetSnapshotAt gives no other answer.
LEMMA LookBackIs ==
  ASSUME Inv, saved # <<>>, NEW time \in Int
  PROVE  LookedBack(time)
<1> DEFINE past == {a \in Ages : buffer_[Slot(a)].timestamp <= time}
           age == Smallest(past)
<1>1. count_ \in Nat \ {0} /\ head_ \in 0 .. Size - 1 /\ Ages = 0 .. count_ - 1
  BY RecentIs DEF Ages, Inv, Types, TypeOK
<1>2. \A i \in 1 .. count_ : Recent[i].timestamp \in Int
  BY RecentIs DEF Made, Snapshot
<1>3. \A a \in Ages : buffer_[Slot(a)] = Recent[count_ - a]
  BY SlotHolds
<1>4. GetSnapshotAt(time) =
        IF past = {} THEN buffer_[(head_ + Size - count_) % Size]
        ELSE IF age = 0 THEN buffer_[Slot(0)]
        ELSE Between(Slot(age), time)
  BY <1>1 DEF GetSnapshotAt
<1>5. \A i \in 1 .. count_ : count_ - i \in Ages /\ count_ - (count_ - i) = i
  BY <1>1
<1>6. past \subseteq Nat
  BY <1>1
<1>7. \A i \in 1 .. count_ : Recent[i].timestamp <= time => count_ - i \in past
  BY <1>3, <1>5
<1>8. \A a \in past : a \in Ages /\ buffer_[Slot(a)].timestamp <= time
  OBVIOUS
<1> HIDE DEF past, age
<1>9. CASE past = {}
  <2>1. (head_ + Size - count_) % Size = Slot(count_ - 1)
    <3>1. head_ + Size - count_ = head_ + Size - 1 - (count_ - 1)
      BY <1>1, SizeType
    <3> QED  BY <3>1 DEF Slot
  <2>2. buffer_[Slot(count_ - 1)] = Recent[1]
    <3>1. count_ - 1 \in Ages /\ count_ - (count_ - 1) = 1
      BY <1>1
    <3> QED  BY <1>3, <3>1
  <2>3. \A i \in 1 .. count_ : Recent[i].timestamp > time
    BY <1>2, <1>7, <1>9
  <2> QED  BY <1>4, <1>9, <2>1, <2>2, <2>3 DEF LookedBack
<1>10. CASE past # {}
  <2>1. age \in past /\ \A a \in past : age <= a
    BY <1>6, <1>10, SmallestIs DEF age
  <2>2. CASE age = 0
    <3>1. count_ - 0 = count_ /\ 0 \in Ages
      BY <1>1
    <3>2. buffer_[Slot(0)] = Recent[count_]
      BY <1>3, <3>1
    <3> QED  BY <1>4, <1>8, <1>10, <2>1, <2>2, <3>2 DEF LookedBack
  <2>3. CASE age # 0
    <3> DEFINE i == count_ - age
    <3>1. i \in 1 .. count_ - 1 /\ age \in Ages /\ age - 1 \in Ages
          /\ count_ - (age - 1) = i + 1 /\ age \in Nat
      BY <1>1, <1>8, <2>1, <2>3
    <3> HIDE DEF i
    <3>2. buffer_[Slot(age)] = Recent[i] /\ Recent[i].timestamp <= time
      BY <1>3, <1>8, <2>1, <3>1 DEF i
    <3>3. buffer_[(Slot(age) + 1) % Size] = Recent[i + 1]
      BY <1>3, <2>3, <3>1, SlotAfter
    <3>4. \A j \in i + 1 .. count_ : Recent[j].timestamp > time
      <4> SUFFICES ASSUME NEW j \in i + 1 .. count_,
                          Recent[j].timestamp <= time
                   PROVE  FALSE
        BY <1>1, <1>2, <3>1
      <4>1. count_ - j \in past
        BY <1>1, <1>7, <3>1
      <4> QED  BY <1>1, <2>1, <3>1, <4>1 DEF i
    <3>5. Recent[i + 1].timestamp # Recent[i].timestamp
      BY <1>1, <1>2, <3>1, <3>2, <3>4
    <3>6. Between(Slot(age), time) = Answer(i, time)
      BY <3>2, <3>3, <3>5 DEF Between, Answer
    <3> QED  BY <1>4, <1>10, <2>3, <3>1, <3>2, <3>4, <3>6 DEF LookedBack
  <2> QED  BY <2>2, <2>3
<1> QED  BY <1>9, <1>10

\* A player of a snapshot is found by its id.
LEMMA OfIs ==
  ASSUME NEW players \in Seq([id : Player, x : Int, health : Nat]), NEW id,
         Has(players, id)
  PROVE  /\ Of(players, id) \in [id : Player, x : Int, health : Nat]
         /\ Of(players, id).id = id
         /\ \E i \in 1 .. Len(players) : Of(players, id) = players[i]
<1> DEFINE T == {i \in DOMAIN players : players[i].id = id}
<1>1. T \subseteq Nat /\ T # {} /\ T \subseteq 1 .. Len(players)
  BY LenProperties DEF Has
<1> HIDE DEF T
<1>2. Smallest(T) \in T
  BY <1>1, SmallestIs
<1>3. Smallest(T) \in 1 .. Len(players) /\ players[Smallest(T)].id = id
  BY <1>1, <1>2 DEF T
<1> QED  BY <1>3, ElementOfSeq DEF Of, T

\* The part of a whole, rounded down, lies between nothing and the whole.
LEMMA PartOf ==
  ASSUME NEW den \in Nat \ {0}, NEW num \in 0 .. den, NEW d \in Int
  PROVE  /\ (num * d) \div den \in Int
         /\ d >= 0 => (num * d) \div den \in 0 .. d
         /\ d <= 0 => (num * d) \div den \in d .. 0
<1> DEFINE x == num * d
           q == x \div den
<1>1. x \in Int /\ den \in Int /\ den > 0
  OBVIOUS
<1>2. d >= 0 => 0 <= x /\ x <= den * d
  OBVIOUS
<1>3. d <= 0 => den * d <= x /\ x <= 0
  OBVIOUS
<1> HIDE DEF x
<1>4. q \in Int /\ den * q <= x /\ x < den * q + den
  BY <1>1
<1> HIDE DEF q
<1>5. ASSUME d >= 0 PROVE q >= 0 /\ q <= d
  BY <1>1, <1>2, <1>4, <1>5
<1>6. ASSUME d <= 0 PROVE q >= d /\ q <= 0
  BY <1>1, <1>3, <1>4, <1>6
<1> QED  BY <1>4, <1>5, <1>6 DEF q, x

\* Interpolation never leads further from where it goes than where it starts.
LEMMA LerpBetween ==
  ASSUME NEW a \in Int, NEW b \in Int, NEW den \in Nat \ {0}, NEW num \in 0 .. den
  PROVE  Distance(b, Lerp(a, b, num, den)) <= Distance(b, a)
<1> DEFINE part == (num * (b - a)) \div den
<1>1. /\ part \in Int
      /\ b - a >= 0 => part \in 0 .. b - a
      /\ b - a <= 0 => part \in b - a .. 0
  <2>1. b - a \in Int
    OBVIOUS
  <2> QED  BY <2>1, PartOf
<1>2. Lerp(a, b, num, den) = a + part
  BY DEF Lerp
<1> HIDE DEF part
<1> QED  BY <1>1, <1>2 DEF Distance

\* Every player of the answer is between its two places.
LEMMA BlendBetween ==
  ASSUME NEW b \in Snapshot, NEW a \in Snapshot, NEW time \in Int,
         b.timestamp <= time, time < a.timestamp, NEW j \in DOMAIN a.players
  PROVE  LET p == a.players[j]
             q == Blend(b, a, time)[j]
         IN  /\ q.id = p.id /\ q.health = p.health
             /\ Distance(p.x, q.x)
                <= IF Has(b.players, p.id)
                   THEN Distance(p.x, Of(b.players, p.id).x) ELSE 0
<1> DEFINE p == a.players[j]
           q == Blend(b, a, time)[j]
           at == Of(b.players, p.id)
           num == time - b.timestamp
           den == a.timestamp - b.timestamp
<1>1. /\ a.players \in Seq([id : Player, x : Int, health : Nat])
      /\ b.players \in Seq([id : Player, x : Int, health : Nat])
      /\ a.timestamp \in Int /\ b.timestamp \in Int
  BY DEF Snapshot
<1>2. p \in [id : Player, x : Int, health : Nat]
  <2>1. DOMAIN a.players = 1 .. Len(a.players)
    BY <1>1, LenProperties
  <2> QED  BY <1>1, <2>1, ElementOfSeq
<1>3. q = IF Has(b.players, p.id)
          THEN [p EXCEPT !.x = Lerp(at.x, @, num, den)] ELSE p
  BY DEF Blend
<1>4. den \in Nat \ {0} /\ num \in 0 .. den
  <2> DEFINE tb == b.timestamp
             ta == a.timestamp
  <2>1. tb \in Int /\ ta \in Int /\ tb <= time /\ time < ta
    BY <1>1
  <2> HIDE DEF tb, ta
  <2>2. ta - tb \in Nat \ {0} /\ time - tb \in 0 .. ta - tb
    BY <2>1
  <2> QED  BY <2>2 DEF ta, tb
<1> HIDE DEF p, q, num, den, at
<1>5. CASE Has(b.players, p.id)
  <2>1. at.x \in Int
    BY <1>1, <1>5, OfIs DEF at
  <2>2. q.id = p.id /\ q.health = p.health /\ q.x = Lerp(at.x, p.x, num, den)
    BY <1>2, <1>3, <1>5
  <2>3. Distance(p.x, q.x) <= Distance(p.x, at.x)
    BY <1>2, <1>4, <2>1, <2>2, LerpBetween
  <2> QED  BY <1>5, <2>2, <2>3 DEF p, q, at
<1>6. CASE ~ Has(b.players, p.id)
  <2>1. q = p /\ Distance(p.x, q.x) = 0
    BY <1>2, <1>3, <1>6 DEF Distance
  <2> QED  BY <1>6, <2>1 DEF p, q
<1> QED  BY <1>5, <1>6

\* In order of saving means in order everywhere.
LEMMA InOrderThroughout ==
  ASSUME Inv, SavedInOrder, NEW j \in 1 .. Len(saved), NEW i \in 1 .. j
  PROVE  saved[i].sequence <= saved[j].sequence
<1> DEFINE T == {k \in Nat : i + k <= Len(saved) =>
                               saved[i].sequence <= saved[i + k].sequence}
<1>1. Len(saved) \in Nat /\ j - i \in Nat
  BY RecentIs
<1>2. \A k \in 1 .. Len(saved) : saved[k].sequence \in Nat
  BY DEF Inv, AllMade, Made, Snapshot
<1>3. 0 \in T
  BY <1>1, <1>2
<1>4. ASSUME NEW k \in 1 .. j - i, k - 1 \in T
      PROVE  k \in T
  <2>1. i + k \in 1 .. Len(saved) /\ i + (k - 1) \in 1 .. Len(saved) - 1
    BY <1>1
  <2>2. saved[i].sequence <= saved[i + (k - 1)].sequence
    BY <1>1, <1>4, <2>1
  <2>3. saved[i + (k - 1)].sequence < saved[i + (k - 1) + 1].sequence
    BY <2>1 DEF SavedInOrder
  <2>4. i + (k - 1) + 1 = i + k
    BY <1>1
  <2>5. saved[i + (k - 1)].sequence < saved[i + k].sequence
    BY <2>3, <2>4
  <2>6. i \in 1 .. Len(saved)
    BY <1>1
  <2>7. saved[i].sequence <= saved[i + k].sequence
    BY <1>2, <2>1, <2>2, <2>5, <2>6
  <2> QED  BY <1>1, <2>7
<1> HIDE DEF T
<1>5. \A k \in 0 .. j - i : k \in T
  BY <1>1, <1>3, <1>4, UpTo
<1>6. j - i \in T /\ i + (j - i) = j
  BY <1>1, <1>5
<1> QED  BY <1>1, <1>6 DEF T

\* In the ring as well.
LEMMA RecentInOrder ==
  ASSUME Inv, SavedInOrder, NEW j \in 1 .. count_, NEW i \in 1 .. j
  PROVE  Recent[i].sequence <= Recent[j].sequence
<1> DEFINE d == Len(saved) - count_
<1>1. Len(saved) \in Nat /\ count_ \in 0 .. Len(saved)
  BY RecentIs
<1>2. d + j \in 1 .. Len(saved) /\ d + i \in 1 .. d + j
  BY <1>1
<1>3. saved[d + i].sequence <= saved[d + j].sequence
  BY <1>2, InOrderThroughout
<1>4. Recent[i] = saved[d + i] /\ Recent[j] = saved[d + j]
  BY <1>1, RecentIs
<1> QED  BY <1>3, <1>4

\* A look back answers with a snapshot of the ring or between two in a row.
LEMMA Brackets == Inv => LookBackBrackets
<1> SUFFICES ASSUME Inv, NEW time \in 0 .. now, saved # <<>>
             PROVE  LET r == GetSnapshotAt(time) IN
    \/ r = Recent[1] /\ \A i \in DOMAIN Recent : Recent[i].timestamp > time
    \/ r = Recent[Len(Recent)] /\ r.timestamp <= time
    \/ \E i \in 1..Len(Recent)-1 :
         LET b == Recent[i]
             a == Recent[i+1]
         IN  /\ b.timestamp <= time /\ time < a.timestamp
             /\ r.timestamp = time /\ r.sequence = a.sequence
             /\ \A j \in DOMAIN a.players :
                  LET p == a.players[j]
                      q == r.players[j]
                  IN  /\ q.id = p.id /\ q.health = p.health
                      /\ Distance(p.x, q.x)
                         <= IF Has(b.players, p.id)
                            THEN Distance(p.x, Of(b.players, p.id).x) ELSE 0
  BY DEF LookBackBrackets
<1>1. time \in Int /\ count_ \in Nat
  BY RecentIs DEF Inv, Types, TypeOK
<1>2. Len(Recent) = count_ /\ DOMAIN Recent = 1 .. count_
  BY RecentIs
<1>3. LookedBack(time)
  BY <1>1, LookBackIs
<1>4. ASSUME NEW i \in 1 .. count_ - 1, GetSnapshotAt(time) = Answer(i, time),
             Recent[i].timestamp <= time,
             \A j \in i + 1 .. count_ : Recent[j].timestamp > time
      PROVE  LET b == Recent[i]
                 a == Recent[i+1]
                 r == GetSnapshotAt(time)
             IN  /\ b.timestamp <= time /\ time < a.timestamp
                 /\ r.timestamp = time /\ r.sequence = a.sequence
                 /\ \A j \in DOMAIN a.players :
                      LET p == a.players[j]
                          q == r.players[j]
                      IN  /\ q.id = p.id /\ q.health = p.health
                          /\ Distance(p.x, q.x)
                             <= IF Has(b.players, p.id)
                                THEN Distance(p.x, Of(b.players, p.id).x) ELSE 0
  <2>1. Recent[i] \in Snapshot /\ Recent[i + 1] \in Snapshot
    BY <1>1, RecentIs DEF Made
  <2>2. time < Recent[i + 1].timestamp
    BY <1>1, <1>4, <2>1 DEF Snapshot
  <2>3. /\ GetSnapshotAt(time).timestamp = time
        /\ GetSnapshotAt(time).sequence = Recent[i + 1].sequence
        /\ GetSnapshotAt(time).players = Blend(Recent[i], Recent[i + 1], time)
    BY <1>4 DEF Answer
  <2> QED  BY <1>1, <1>4, <2>1, <2>2, <2>3, BlendBetween
<1> QED  BY <1>2, <1>3, <1>4 DEF LookedBack

\* A later time never gets an earlier answer.
LEMMA InOrder == Inv => LookBackInOrder
<1> SUFFICES ASSUME Inv, SavedInOrder
             PROVE  /\ \A t1, t2 \in 0..now :
                         t1 <= t2 => GetSnapshotAt(t1).sequence
                                     <= GetSnapshotAt(t2).sequence
                    /\ \A i \in DOMAIN saved :
                         saved[i].sequence <= GetLatestSnapshot.sequence
  BY DEF LookBackInOrder
<1>1. /\ count_ \in 0 .. Len(saved) /\ Len(saved) \in Nat /\ now \in Nat
      /\ DOMAIN saved = 1 .. Len(saved)
  BY RecentIs DEF Inv, Types, TypeOK
<1>2. \A i \in 1 .. count_ : Recent[i].timestamp \in Int
  BY RecentIs DEF Made, Snapshot
<1>3. ASSUME NEW t1 \in 0 .. now, NEW t2 \in 0 .. now, t1 <= t2
      PROVE  GetSnapshotAt(t1).sequence <= GetSnapshotAt(t2).sequence
  <2>1. CASE saved = <<>>
    <3>1. GetSnapshotAt(t1) = None /\ GetSnapshotAt(t2) = None
      BY <2>1, RecentIs DEF GetSnapshotAt
    <3> QED  BY <3>1 DEF None
  <2>2. CASE saved # <<>>
    \* The position of the snapshot whose number the answer bears.
    <3> DEFINE From(t, k) ==
          /\ GetSnapshotAt(t).sequence = Recent[k].sequence
          /\ \/ k = 1 /\ \A i \in 1 .. count_ : Recent[i].timestamp > t
             \/ k = count_ /\ Recent[count_].timestamp <= t
             \/ /\ k > 1 /\ Recent[k - 1].timestamp <= t
                /\ \A i \in k .. count_ : Recent[i].timestamp > t
    <3>1. count_ \in Nat \ {0}
      BY <1>1, <2>2, RecentIs
    <3>2. ASSUME NEW t \in 0 .. now
          PROVE  \E k \in 1 .. count_ : From(t, k)
      <4>1. t \in Int
        BY <1>1
      <4>2. LookedBack(t)
        BY <2>2, <4>1, LookBackIs
      <4>3. ASSUME NEW i \in 1 .. count_ - 1, GetSnapshotAt(t) = Answer(i, t),
                   Recent[i].timestamp <= t,
                   \A j \in i + 1 .. count_ : Recent[j].timestamp > t
            PROVE  i + 1 \in 1 .. count_ /\ From(t, i + 1)
        <5>1. i + 1 \in 1 .. count_ /\ i + 1 > 1 /\ (i + 1) - 1 = i
          BY <3>1
        <5> QED  BY <4>3, <5>1 DEF Answer
      <4>4. 1 \in 1 .. count_ /\ count_ \in 1 .. count_
        BY <3>1
      <4> QED  BY <4>2, <4>3, <4>4 DEF LookedBack
    <3>3. PICK k1 \in 1 .. count_ : From(t1, k1)
      BY <3>2
    <3>4. PICK k2 \in 1 .. count_ : From(t2, k2)
      BY <3>2
    <3>5. k1 <= k2
      <4> SUFFICES ASSUME k2 < k1 PROVE FALSE
        BY <3>1
      <4>1. k1 - 1 \in 1 .. count_ /\ k1 - 1 \in k2 .. count_
            /\ count_ \in k2 .. count_ /\ t1 \in Int /\ t2 \in Int
        BY <1>1, <3>1
      <4>2. \/ Recent[k1 - 1].timestamp <= t1
            \/ Recent[count_].timestamp <= t1
        BY <3>1, <3>3, <4>1
      <4>3. /\ Recent[k1 - 1].timestamp > t2
            /\ Recent[count_].timestamp > t2
        BY <3>1, <3>4, <4>1
      <4> QED  BY <1>2, <1>3, <3>1, <4>1, <4>2, <4>3
    <3>6. Recent[k1].sequence <= Recent[k2].sequence
      BY <3>5, RecentInOrder
    <3> QED  BY <3>3, <3>4, <3>6
  <2> QED  BY <2>1, <2>2
<1>4. ASSUME NEW i \in 1 .. Len(saved)
      PROVE  saved[i].sequence <= GetLatestSnapshot.sequence
  <2>1. saved # <<>> /\ count_ \in 1 .. count_
    BY <1>1, RecentIs
  <2>2. GetLatestSnapshot = Recent[count_]
    BY <2>1, LatestIs, RecentIs
  <2>3. Recent[count_] = saved[Len(saved) - count_ + count_]
    BY <2>1, RecentIs
  <2>4. Len(saved) - count_ + count_ = Len(saved) /\ Len(saved) \in 1 .. Len(saved)
    BY <1>1
  <2> QED  BY <2>2, <2>3, <2>4, InOrderThroughout
<1> QED  BY <1>1, <1>3, <1>4

\* A look back in time never invents a past, and never goes back when the
\* time asked for goes on.
THEOREM LookBackIsAlwaysRight == Spec => []LookBackIsRight
<1>1. Inv => LookBackIsRight
  BY Brackets, InOrder DEF LookBackIsRight
<1> QED  BY <1>1, Invariant, PTL

----------------------------------------------------------------------------
(* What a delta says. *)

\* A player, with any health, and what a delta may say of one.
State == [id : Player, x : Int, health : Int]
Change == [id : Player, fields : UNION {[F -> Int] : F \in SUBSET Fields}]

\* An entry carries the fields that differ, with what they are in the target;
\* all of them for a player that is new.
LEMMA EntryIs ==
  ASSUME NEW base \in Seq([id : Player, x : Int, health : Nat]),
         NEW p \in [id : Player, x : Int, health : Nat]
  PROVE  /\ Entry(base, p) \in Change
         /\ Entry(base, p).id = p.id
         /\ DOMAIN Entry(base, p).fields \subseteq Fields
         /\ \A f \in DOMAIN Entry(base, p).fields : Entry(base, p).fields[f] = p[f]
         /\ ~ Has(base, p.id) => DOMAIN Entry(base, p).fields = Fields
         /\ Has(base, p.id) => DOMAIN Entry(base, p).fields
                                 = ChangedFields(Of(base, p.id), p)
<1> DEFINE D == IF Has(base, p.id) THEN ChangedFields(Of(base, p.id), p)
                ELSE Fields
<1>1. D \subseteq Fields
  BY DEF ChangedFields
<1>2. \A f \in Fields : p[f] \in Int
  BY DEF Fields
<1> HIDE DEF D
<1>3. [f \in D |-> p[f]] \in [D -> Int]
  BY <1>1, <1>2
<1>4. Entry(base, p) = [id |-> p.id, fields |-> [f \in D |-> p[f]]]
  BY DEF Entry, D
<1>5. [f \in D |-> p[f]] \in UNION {[F -> Int] : F \in SUBSET Fields}
  BY <1>1, <1>3
<1>6. Entry(base, p) \in Change
  BY <1>4, <1>5 DEF Change
<1>7. Entry(base, p).id = p.id /\ Entry(base, p).fields = [f \in D |-> p[f]]
  BY <1>4
<1>8. DOMAIN [f \in D |-> p[f]] = D /\ \A f \in D : [g \in D |-> p[g]][f] = p[f]
  OBVIOUS
<1> QED  BY <1>1, <1>6, <1>7, <1>8 DEF D

\* v[k] is what is said of the first k players of the target.
Saying(v, base, target) ==
  /\ v \in [0 .. Len(target) -> Seq(Change)]
  /\ v[0] = <<>>
  /\ \A k \in 1 .. Len(target) :
       v[k] = IF DOMAIN Entry(base, target[k]).fields = {} THEN v[k-1]
              ELSE Append(v[k-1], Entry(base, target[k]))

\* Changes is what is said of all of them.
LEMMA ChangesAre ==
  ASSUME NEW base \in Seq([id : Player, x : Int, health : Nat]),
         NEW target \in Seq([id : Player, x : Int, health : Nat])
  PROVE  \E v : Saying(v, base, target) /\ v[Len(target)] = Changes(base, target)
<1> DEFINE P == [id : Player, x : Int, health : Nat]
           n == Len(target)
           Turn(f) == [t \in SUBSET (1 .. n) |->
                         IF t = {} THEN <<>>
                         ELSE IF DOMAIN Entry(base, target[Max(t)]).fields = {}
                              THEN f[t \ {Max(t)}]
                              ELSE Append(f[t \ {Max(t)}],
                                          Entry(base, target[Max(t)]))]
           iter == CHOOSE f : f = Turn(f)
           v == [k \in 0 .. n |-> iter[1 .. k]]
<1>1. n \in Nat /\ DOMAIN target = 1 .. n /\ \A k \in 1 .. n : target[k] \in P
  BY LenProperties, ElementOfSeq
<1>2. Changes(base, target) = iter[1 .. n]
  BY <1>1 DEF Changes, FoldLeft, MapThenFoldSet
<1>3. \E f : f = Turn(f)
  <2> DEFINE g == [q \in Seq(Change) \X P |->
                     IF DOMAIN Entry(base, q[2]).fields = {} THEN q[1]
                     ELSE Append(q[1], Entry(base, q[2]))]
  <2>1. g \in [Seq(Change) \X P -> Seq(Change)] /\ <<>> \in Seq(Change)
    <3>1. \A c \in Seq(Change), p \in P : Append(c, Entry(base, p)) \in Seq(Change)
      BY EntryIs, AppendProperties
    <3> HIDE DEF P
    <3> QED  BY <3>1
  <2>2. PICK f : Folds(f, g, <<>>, target, n, Seq(Change))
    <3> HIDE DEF g
    <3> QED  BY <2>1, FoldExists
  <2>3. ASSUME NEW t \in SUBSET (1 .. n)
        PROVE  f[t] = Turn(f)[t]
    <3>1. CASE t = {}
      BY <2>2, <3>1 DEF Folds
    <3>2. CASE t # {}
      <4>1. Max(t) \in 1 .. n
        BY <1>1, <3>2, MaxOf
      <4>2. f[t \ {Max(t)}] \in Seq(Change) /\ target[Max(t)] \in P
        BY <1>1, <2>2, <4>1 DEF Folds
      <4>3. f[t] = g[<<f[t \ {Max(t)}], target[Max(t)]>>]
        BY <2>2, <3>2 DEF Folds
      <4> HIDE DEF P
      <4>4. g[<<f[t \ {Max(t)}], target[Max(t)]>>]
              = IF DOMAIN Entry(base, target[Max(t)]).fields = {}
                THEN f[t \ {Max(t)}]
                ELSE Append(f[t \ {Max(t)}], Entry(base, target[Max(t)]))
        BY <4>2
      <4> HIDE DEF g
      <4> QED  BY <3>2, <4>3, <4>4
    <3> QED  BY <3>1, <3>2
  <2>4. f \in [SUBSET (1 .. n) -> Seq(Change)]
    BY <2>2 DEF Folds
  <2> QED  BY <2>3, <2>4
<1>4. iter = Turn(iter)
  BY <1>3
<1> HIDE DEF iter
<1>5. v[0] = <<>>
  <2>1. 1 .. 0 = {}
    OBVIOUS
  <2> QED  BY <1>1, <1>4, <2>1
<1>6. ASSUME NEW k \in 1 .. n
      PROVE  v[k] = IF DOMAIN Entry(base, target[k]).fields = {} THEN v[k-1]
                    ELSE Append(v[k-1], Entry(base, target[k]))
  <2>1. iter[1 .. k] = IF DOMAIN Entry(base, target[k]).fields = {}
                       THEN iter[1 .. k-1]
                       ELSE Append(iter[1 .. k-1], Entry(base, target[k]))
    <3>1. /\ 1 .. k \in SUBSET (1 .. n) /\ 1 .. k # {}
          /\ Max(1 .. k) = k /\ (1 .. k) \ {k} = 1 .. k-1
      BY <1>1, LastOfRange
    <3>2. iter[1 .. k] = IF DOMAIN Entry(base, target[k]).fields = {}
                         THEN iter[(1 .. k) \ {k}]
                         ELSE Append(iter[(1 .. k) \ {k}],
                                     Entry(base, target[k]))
      BY <1>4, <3>1
    <3> QED  BY <3>1, <3>2
  <2> QED  BY <1>1, <2>1
<1>7. ASSUME NEW k \in 0 .. n
      PROVE  v[k] \in Seq(Change)
  <2> DEFINE T == {j \in 0 .. n : v[j] \in Seq(Change)}
  <2>1. 0 \in T
    <3>1. <<>> \in Seq(Change) /\ 0 \in 0 .. n
      BY <1>1
    <3> QED  BY <1>5, <3>1
  <2>2. ASSUME NEW j \in 1 .. n, j - 1 \in T
        PROVE  j \in T
    <3>1. v[j-1] \in Seq(Change) /\ Entry(base, target[j]) \in Change
      BY <1>1, <2>2, EntryIs
    <3>2. v[j] \in Seq(Change)
      <4> DEFINE e == Entry(base, target[j])
      <4>1. v[j] = IF DOMAIN e.fields = {} THEN v[j-1] ELSE Append(v[j-1], e)
        BY <1>6
      <4> HIDE DEF v, e
      <4>2. e \in Change
        BY <3>1 DEF e
      <4> QED  BY <3>1, <4>1, <4>2, AppendProperties
    <3> QED  BY <1>1, <3>2
  <2>3. \A j \in 0 .. n : j \in T
    <3> HIDE DEF T
    <3> QED  BY <1>1, <2>1, <2>2, UpTo
  <2> QED  BY <2>3
<1>8. v[n] = Changes(base, target)
  BY <1>1, <1>2
<1> QED  BY <1>5, <1>6, <1>7, <1>8 DEF Saying

----------------------------------------------------------------------------
(* What a delta does. *)

Ids(players) == {players[k].id : k \in DOMAIN players}

\* A patch writes the fields it has, and keeps the others and the id.
LEMMA PatchedIs ==
  ASSUME NEW p \in State, NEW e \in Change
  PROVE  /\ Patched(p, e.fields) \in State
         /\ Patched(p, e.fields).id = p.id
         /\ \A f \in Fields :
              Patched(p, e.fields)[f] = IF f \in DOMAIN e.fields
                                        THEN e.fields[f] ELSE p[f]
<1> DEFINE fields == e.fields
           q == Patched(p, fields)
<1>1. PICK F \in SUBSET Fields : fields \in [F -> Int]
  BY DEF Change
<1>2. DOMAIN fields = F /\ \A f \in F : fields[f] \in Int
  BY <1>1
<1>3. DOMAIN p = {"id", "x", "health"} /\ p.id \in Player /\ p.x \in Int /\ p.health \in Int
  BY DEF State
<1> HIDE DEF fields
<1>4. q = [f \in {"id", "x", "health"} |-> IF f \in F THEN fields[f] ELSE p[f]]
  BY <1>2, <1>3 DEF Patched
<1>5. "id" \notin F
  BY DEF Fields
<1> HIDE DEF q
<1>6. q.id = p.id
  BY <1>4, <1>5
<1>7. q["x"] = IF "x" \in F THEN fields["x"] ELSE p["x"]
  BY <1>4
<1>8. q["health"] = IF "health" \in F THEN fields["health"] ELSE p["health"]
  BY <1>4
<1>9. q = [id |-> q.id, x |-> q.x, health |-> q.health]
  BY <1>4
<1>10. q.x \in Int /\ q.health \in Int
  BY <1>2, <1>3, <1>7, <1>8
<1>11. q \in State
  BY <1>3, <1>6, <1>9, <1>10 DEF State
<1> QED  BY <1>2, <1>6, <1>7, <1>8, <1>11 DEF Fields, q, fields

\* One entry: the player it names is patched, or added; the others stay.
LEMMA ApplyEntryIs ==
  ASSUME NEW players \in Seq(State), NEW e \in Change
  PROVE  LET r == ApplyEntry(players, e) IN
         /\ r \in Seq(State)
         /\ Ids(r) = Ids(players) \union {e.id}
         /\ DifferentIds(players) => DifferentIds(r)
         /\ \A i \in DOMAIN r : r[i].id # e.id =>
              i \in DOMAIN players /\ r[i] = players[i]
         /\ \A i \in DOMAIN r : r[i].id = e.id =>
              /\ \A f \in DOMAIN e.fields : r[i][f] = e.fields[f]
              /\ Has(players, e.id) =>
                   /\ i \in DOMAIN players /\ players[i].id = e.id
                   /\ \A f \in Fields \ DOMAIN e.fields : r[i][f] = players[i][f]
<1> DEFINE r == ApplyEntry(players, e)
           n == Len(players)
           u == Patched(Unknown(e.id), e.fields)
<1>1. n \in Nat /\ DOMAIN players = 1 .. n /\ \A i \in 1 .. n : players[i] \in State
  BY LenProperties, ElementOfSeq
<1>2. DOMAIN e.fields \subseteq Fields /\ e.id \in Player
  BY DEF Change
<1>3. Unknown(e.id) \in State /\ Unknown(e.id).id = e.id
  BY <1>2 DEF Unknown, State
<1>4. CASE Has(players, e.id)
  <2>1. r = [i \in 1 .. n |-> IF players[i].id = e.id
                              THEN Patched(players[i], e.fields)
                              ELSE players[i]]
    BY <1>1, <1>4 DEF ApplyEntry
  <2> HIDE DEF r, n
  <2>2. ASSUME NEW i \in 1 .. n
        PROVE  r[i] \in State /\ r[i].id = players[i].id
    BY <1>1, <2>1, PatchedIs
  <2>3. r \in Seq(State) /\ DOMAIN r = 1 .. n
    <3>1. r \in [1 .. n -> State]
      BY <2>1, <2>2
    <3> QED  BY <1>1, <3>1
  <2>4. Ids(r) = Ids(players) \union {e.id}
    <3>1. e.id \in Ids(players)
      BY <1>1, <1>4 DEF Has, Ids
    <3> QED  BY <1>1, <2>2, <2>3, <3>1 DEF Ids
  <2>5. DifferentIds(players) => DifferentIds(r)
    BY <1>1, <2>2, <2>3 DEF DifferentIds
  <2>6. ASSUME NEW i \in 1 .. n, r[i].id # e.id
        PROVE  r[i] = players[i]
    BY <2>1, <2>2, <2>6
  <2>7. ASSUME NEW i \in 1 .. n, r[i].id = e.id
        PROVE  /\ players[i].id = e.id
               /\ \A f \in DOMAIN e.fields : r[i][f] = e.fields[f]
               /\ \A f \in Fields \ DOMAIN e.fields : r[i][f] = players[i][f]
    <3>1. players[i].id = e.id
      BY <2>2, <2>7
    <3>2. r[i] = Patched(players[i], e.fields)
      BY <2>1, <3>1
    <3>3. \A f \in Fields : r[i][f] = IF f \in DOMAIN e.fields
                                      THEN e.fields[f] ELSE players[i][f]
      BY <1>1, <3>2, PatchedIs
    <3> QED  BY <1>2, <3>1, <3>3
  <2>8. \A i \in DOMAIN r : r[i].id # e.id =>
              i \in DOMAIN players /\ r[i] = players[i]
    BY <1>1, <2>3, <2>6
  <2>9. \A i \in DOMAIN r : r[i].id = e.id =>
              /\ \A f \in DOMAIN e.fields : r[i][f] = e.fields[f]
              /\ i \in DOMAIN players /\ players[i].id = e.id
              /\ \A f \in Fields \ DOMAIN e.fields : r[i][f] = players[i][f]
    BY <1>1, <2>3, <2>7
  <2> QED  BY <2>3, <2>4, <2>5, <2>8, <2>9 DEF r
<1>5. CASE ~ Has(players, e.id)
  <2>1. r = Append(players, u)
    BY <1>5 DEF ApplyEntry
  <2>2. u \in State /\ u.id = e.id
        /\ \A f \in Fields : u[f] = IF f \in DOMAIN e.fields
                                    THEN e.fields[f] ELSE Unknown(e.id)[f]
    BY <1>3, PatchedIs
  <2>3. \A i \in 1 .. n : players[i].id # e.id
    BY <1>1, <1>5 DEF Has
  <2> HIDE DEF u, r
  <2>4. /\ r \in Seq(State) /\ Len(r) = n + 1
        /\ \A i \in 1 .. n : r[i] = players[i]
        /\ r[n + 1] = u
    BY <2>1, <2>2, AppendProperties
  <2>5. DOMAIN r = 1 .. n + 1
    BY <2>4, LenProperties
  <2> HIDE DEF n
  <2>6. \A i \in 1 .. n + 1 : i \in 1 .. n \/ i = n + 1
    BY <1>1
  <2>7. 1 .. n \subseteq 1 .. n + 1 /\ n + 1 \in 1 .. n + 1
    BY <1>1
  <2>8. Ids(r) = Ids(players) \union {e.id}
    <3>1. Ids(r) \subseteq Ids(players) \union {e.id}
      BY <1>1, <2>2, <2>4, <2>5, <2>6 DEF Ids
    <3>2. Ids(players) \subseteq Ids(r)
      BY <1>1, <2>4, <2>5, <2>7 DEF Ids
    <3>3. e.id \in Ids(r)
      BY <2>2, <2>4, <2>5, <2>7 DEF Ids
    <3> QED  BY <3>1, <3>2, <3>3
  <2>9. DifferentIds(players) => DifferentIds(r)
    BY <1>1, <2>2, <2>3, <2>4, <2>5, <2>6 DEF DifferentIds
  <2>10. \A i \in DOMAIN r : r[i].id # e.id =>
              i \in DOMAIN players /\ r[i] = players[i]
    BY <1>1, <2>2, <2>4, <2>5, <2>6
  <2>11. \A i \in DOMAIN r : r[i].id = e.id =>
              \A f \in DOMAIN e.fields : r[i][f] = e.fields[f]
    BY <1>2, <2>2, <2>3, <2>4, <2>5, <2>6
  <2> QED  BY <1>5, <2>4, <2>8, <2>9, <2>10, <2>11 DEF r
<1> QED  BY <1>4, <1>5

\* v[m] is what the first m changes make of the players.
Applying(v, players, changes) ==
  /\ v \in [0 .. Len(changes) -> Seq(State)]
  /\ v[0] = players
  /\ \A m \in 1 .. Len(changes) : v[m] = ApplyEntry(v[m-1], changes[m])

\* Applied is what all changes make of them.
LEMMA AppliedIs ==
  ASSUME NEW players \in Seq(State), NEW changes \in Seq(Change)
  PROVE  \E v : Applying(v, players, changes)
                /\ v[Len(changes)] = Applied(players, changes)
<1> DEFINE n == Len(changes)
           Turn(f) == [t \in SUBSET (1 .. n) |->
                         IF t = {} THEN players
                         ELSE ApplyEntry(f[t \ {Max(t)}], changes[Max(t)])]
           iter == CHOOSE f : f = Turn(f)
           v == [k \in 0 .. n |-> iter[1 .. k]]
<1>1. n \in Nat /\ DOMAIN changes = 1 .. n /\ \A k \in 1 .. n : changes[k] \in Change
  BY LenProperties, ElementOfSeq
<1>2. Applied(players, changes) = iter[1 .. n]
  BY <1>1 DEF Applied, FoldLeft, MapThenFoldSet
<1>3. \E f : f = Turn(f)
  <2> DEFINE g == [q \in Seq(State) \X Change |-> ApplyEntry(q[1], q[2])]
  <2>1. g \in [Seq(State) \X Change -> Seq(State)]
    BY ApplyEntryIs
  <2>2. PICK f : Folds(f, g, players, changes, n, Seq(State))
    <3> HIDE DEF g
    <3> QED  BY <2>1, FoldExists
  <2>3. ASSUME NEW t \in SUBSET (1 .. n)
        PROVE  f[t] = Turn(f)[t]
    <3>1. CASE t = {}
      BY <2>2, <3>1 DEF Folds
    <3>2. CASE t # {}
      <4>1. Max(t) \in 1 .. n
        BY <1>1, <3>2, MaxOf
      <4>2. f[t \ {Max(t)}] \in Seq(State) /\ changes[Max(t)] \in Change
        BY <1>1, <2>2, <4>1 DEF Folds
      <4>3. f[t] = g[<<f[t \ {Max(t)}], changes[Max(t)]>>]
        BY <2>2, <3>2 DEF Folds
      <4>4. g[<<f[t \ {Max(t)}], changes[Max(t)]>>]
              = ApplyEntry(f[t \ {Max(t)}], changes[Max(t)])
        BY <4>2
      <4> HIDE DEF g
      <4> QED  BY <3>2, <4>3, <4>4
    <3> QED  BY <3>1, <3>2
  <2>4. f \in [SUBSET (1 .. n) -> Seq(State)]
    BY <2>2 DEF Folds
  <2> QED  BY <2>3, <2>4
<1>4. iter = Turn(iter)
  BY <1>3
<1> HIDE DEF iter
<1>5. v[0] = players
  <2>1. 1 .. 0 = {}
    OBVIOUS
  <2> QED  BY <1>1, <1>4, <2>1
<1>6. ASSUME NEW k \in 1 .. n
      PROVE  v[k] = ApplyEntry(v[k-1], changes[k])
  <2>1. iter[1 .. k] = ApplyEntry(iter[1 .. k-1], changes[k])
    <3>1. /\ 1 .. k \in SUBSET (1 .. n) /\ 1 .. k # {}
          /\ Max(1 .. k) = k /\ (1 .. k) \ {k} = 1 .. k-1
      BY <1>1, LastOfRange
    <3>2. iter[1 .. k] = ApplyEntry(iter[(1 .. k) \ {k}], changes[k])
      BY <1>4, <3>1
    <3> QED  BY <3>1, <3>2
  <2> QED  BY <1>1, <2>1
<1>7. ASSUME NEW k \in 0 .. n
      PROVE  v[k] \in Seq(State)
  <2> DEFINE T == {j \in 0 .. n : v[j] \in Seq(State)}
  <2>1. 0 \in T
    <3>1. 0 \in 0 .. n
      BY <1>1
    <3> QED  BY <1>5, <3>1
  <2>2. ASSUME NEW j \in 1 .. n, j - 1 \in T
        PROVE  j \in T
    <3>1. v[j-1] \in Seq(State) /\ changes[j] \in Change
      BY <1>1, <2>2
    <3>2. v[j] = ApplyEntry(v[j-1], changes[j])
      BY <1>6
    <3> HIDE DEF v
    <3>3. v[j] \in Seq(State)
      BY <3>1, <3>2, ApplyEntryIs
    <3> QED  BY <1>1, <3>3
  <2>3. \A j \in 0 .. n : j \in T
    <3> HIDE DEF T
    <3> QED  BY <1>1, <2>1, <2>2, UpTo
  <2> QED  BY <2>3
<1>8. v[n] = Applied(players, changes)
  BY <1>1, <1>2
<1> QED  BY <1>5, <1>6, <1>7, <1>8 DEF Applying

\* A delta has one entry for each player of the target of which there is
\* something to say.
LEMMA ChangesSay ==
  ASSUME NEW base \in Seq([id : Player, x : Int, health : Nat]),
         NEW target \in Seq([id : Player, x : Int, health : Nat]),
         DifferentIds(target)
  PROVE  LET c == Changes(base, target) IN
         /\ c \in Seq(Change)
         /\ \A l \in 1 .. Len(c) : \E k \in 1 .. Len(target) :
              /\ c[l] = Entry(base, target[k])
              /\ DOMAIN Entry(base, target[k]).fields # {}
         /\ \A k \in 1 .. Len(target) :
              DOMAIN Entry(base, target[k]).fields # {} =>
                \E l \in 1 .. Len(c) : c[l] = Entry(base, target[k])
         /\ DifferentIds(c)
<1> DEFINE n == Len(target)
           E(k) == Entry(base, target[k])
           Says(c, j) ==
             /\ \A l \in 1 .. Len(c) : \E k \in 1 .. j :
                  c[l] = E(k) /\ DOMAIN E(k).fields # {}
             /\ \A k \in 1 .. j : DOMAIN E(k).fields # {} =>
                  \E l \in 1 .. Len(c) : c[l] = E(k)
             /\ \A l, m \in 1 .. Len(c) : c[l].id = c[m].id => l = m
<1>1. n \in Nat /\ DOMAIN target = 1 .. n
      /\ \A k \in 1 .. n : target[k] \in [id : Player, x : Int, health : Nat]
  BY LenProperties, ElementOfSeq
<1>2. \A k \in 1 .. n : E(k) \in Change /\ E(k).id = target[k].id
  BY <1>1, EntryIs
<1> HIDE DEF E
<1>3. PICK v : Saying(v, base, target) /\ v[n] = Changes(base, target)
  BY ChangesAre
<1>4. /\ v \in [0 .. n -> Seq(Change)] /\ v[0] = <<>>
      /\ \A k \in 1 .. n : v[k] = IF DOMAIN E(k).fields = {} THEN v[k-1]
                                  ELSE Append(v[k-1], E(k))
  BY <1>3 DEF Saying, E
<1> DEFINE T == {j \in 0 .. n : Says(v[j], j)}
<1>5. 0 \in T
  BY <1>1, <1>4
<1>6. ASSUME NEW k \in 1 .. n, k - 1 \in T
      PROVE  k \in T
  <2> DEFINE c == v[k-1]
             d == v[k]
  <2>1. c \in Seq(Change) /\ Len(c) \in Nat /\ Says(c, k - 1)
    BY <1>1, <1>4, <1>6, LenProperties
  <2>2. d = IF DOMAIN E(k).fields = {} THEN c ELSE Append(c, E(k))
    BY <1>4
  <2>3. \A j \in 1 .. k : j = k \/ j \in 1 .. k - 1
    BY <1>1
  <2>4. 1 .. k - 1 \subseteq 1 .. k /\ k \in 1 .. k /\ 1 .. k \subseteq 1 .. n
    BY <1>1
  <2> HIDE DEF c, d, T, n
  <2>5. Says(d, k)
    <3>1. CASE DOMAIN E(k).fields = {}
      BY <2>1, <2>2, <2>3, <2>4, <3>1
    <3>2. CASE DOMAIN E(k).fields # {}
      <4>1. /\ Len(d) = Len(c) + 1 /\ d[Len(c) + 1] = E(k)
            /\ \A l \in 1 .. Len(c) : d[l] = c[l]
        BY <1>2, <2>1, <2>2, <3>2, AppendProperties
      <4>2. \A l \in 1 .. Len(d) : l = Len(c) + 1 \/ l \in 1 .. Len(c)
        BY <2>1, <4>1
      <4>3. 1 .. Len(c) \subseteq 1 .. Len(d) /\ Len(c) + 1 \in 1 .. Len(d)
        BY <2>1, <4>1
      <4>4. \A l \in 1 .. Len(d) : \E j \in 1 .. k :
              d[l] = E(j) /\ DOMAIN E(j).fields # {}
        <5> TAKE l \in 1 .. Len(d)
        <5>1. CASE l = Len(c) + 1
          BY <2>4, <3>2, <4>1, <5>1
        <5>2. CASE l \in 1 .. Len(c)
          <6>1. PICK j \in 1 .. k - 1 : c[l] = E(j) /\ DOMAIN E(j).fields # {}
            BY <2>1, <5>2
          <6>2. j \in 1 .. k /\ d[l] = E(j)
            BY <2>4, <4>1, <5>2, <6>1
          <6> QED  BY <6>1, <6>2
        <5> QED  BY <4>2, <5>1, <5>2
      <4>5. \A j \in 1 .. k : DOMAIN E(j).fields # {} =>
              \E l \in 1 .. Len(d) : d[l] = E(j)
        <5> TAKE j \in 1 .. k
        <5>1. CASE j = k
          BY <4>1, <4>3, <5>1
        <5>2. CASE j \in 1 .. k - 1
          <6> HAVE DOMAIN E(j).fields # {}
          <6>1. PICK l \in 1 .. Len(c) : c[l] = E(j)
            BY <2>1, <5>2
          <6>2. l \in 1 .. Len(d) /\ d[l] = E(j)
            BY <4>1, <4>3, <6>1
          <6> QED  BY <6>2
        <5> QED  BY <2>3, <5>1, <5>2
      <4>6. \A l \in 1 .. Len(c) : c[l].id # E(k).id
        <5> TAKE l \in 1 .. Len(c)
        <5>1. PICK j \in 1 .. k - 1 : c[l] = E(j)
          BY <2>1
        <5>2. j \in 1 .. n /\ k \in 1 .. n /\ j # k
          BY <1>1, <2>4
        <5>3. target[j].id # target[k].id
          BY <1>1, <5>2 DEF DifferentIds
        <5> QED  BY <1>2, <5>1, <5>2, <5>3
      <4>7. \A l, m \in 1 .. Len(d) : d[l].id = d[m].id => l = m
        BY <2>1, <4>1, <4>2, <4>6
      <4> QED  BY <4>4, <4>5, <4>7
    <3> QED  BY <3>1, <3>2
  <2>6. k \in 0 .. n
    BY <1>1
  <2> QED  BY <2>5, <2>6 DEF T, d
<1>7. n \in T
  <2> HIDE DEF T
  <2>1. \A k \in 0 .. n : k \in T
    BY <1>1, <1>5, <1>6, UpTo
  <2> QED  BY <1>1, <2>1
<1>8. Says(v[n], n)
  BY <1>7
<1>9. v[n] \in Seq(Change) /\ DOMAIN v[n] = 1 .. Len(v[n])
  BY <1>1, <1>4, LenProperties
<1>10. DifferentIds(v[n])
  BY <1>8, <1>9 DEF DifferentIds
<1> QED  BY <1>3, <1>8, <1>9, <1>10 DEF E

\* What becomes of a player: every field of its entry is written, and what is
\* in no entry is as before.
LEMMA AppliedSays ==
  ASSUME NEW base \in Seq(State), DifferentIds(base),
         NEW c \in Seq(Change), DifferentIds(c)
  PROVE  LET r == Applied(base, c) IN
         /\ r \in Seq(State) /\ DifferentIds(r)
         /\ Ids(r) = Ids(base) \union Ids(c)
         /\ \A i \in DOMAIN r :
              /\ \A l \in 1 .. Len(c) : c[l].id = r[i].id =>
                   \A f \in DOMAIN c[l].fields : r[i][f] = c[l].fields[f]
              /\ \A j \in DOMAIN base, f \in Fields :
                   /\ base[j].id = r[i].id
                   /\ \A l \in 1 .. Len(c) :
                        c[l].id = r[i].id => f \notin DOMAIN c[l].fields
                   => r[i][f] = base[j][f]
<1> DEFINE n == Len(c)
           Said(m) == {c[l].id : l \in 1 .. m}
           Written(r, m) ==
             \A i \in DOMAIN r : \A l \in 1 .. m : c[l].id = r[i].id =>
               \A f \in DOMAIN c[l].fields : r[i][f] = c[l].fields[f]
           Kept(r, m) ==
             \A i \in DOMAIN r : \A j \in DOMAIN base, f \in Fields :
               /\ base[j].id = r[i].id
               /\ \A l \in 1 .. m :
                    c[l].id = r[i].id => f \notin DOMAIN c[l].fields
               => r[i][f] = base[j][f]
           Right(r, m) ==
             /\ DifferentIds(r) /\ Ids(r) = Ids(base) \union Said(m)
             /\ Written(r, m) /\ Kept(r, m)
<1>1. n \in Nat /\ DOMAIN c = 1 .. n /\ \A l \in 1 .. n : c[l] \in Change
  BY LenProperties, ElementOfSeq
<1>2. PICK v : Applying(v, base, c) /\ v[n] = Applied(base, c)
  BY AppliedIs
<1>3. /\ v \in [0 .. n -> Seq(State)] /\ v[0] = base
      /\ \A m \in 1 .. n : v[m] = ApplyEntry(v[m-1], c[m])
  BY <1>2 DEF Applying
<1> DEFINE T == {m \in 0 .. n : Right(v[m], m)}
<1>4. 0 \in T
  <2>1. Said(0) = {}
    OBVIOUS
  <2>2. Written(base, 0)
    OBVIOUS
  <2>3. Kept(base, 0)
    BY DEF DifferentIds
  <2> QED  BY <1>1, <1>3, <2>1, <2>2, <2>3
<1>5. ASSUME NEW m \in 1 .. n, m - 1 \in T
      PROVE  m \in T
  <2> DEFINE p == v[m-1]
             r == v[m]
             e == c[m]
  <2>1. p \in Seq(State) /\ Right(p, m - 1) /\ e \in Change
    BY <1>1, <1>3, <1>5
  <2>2. r = ApplyEntry(p, e)
    BY <1>3
  <2>3. \A l \in 1 .. m : l = m \/ l \in 1 .. m - 1
    BY <1>1
  <2>4. 1 .. m - 1 \subseteq 1 .. m /\ m \in 1 .. m /\ 1 .. m \subseteq 1 .. n
        /\ m \in 0 .. n /\ \A l \in 1 .. m - 1 : l # m
    BY <1>1
  <2>5. \A l \in 1 .. m - 1 : c[l].id # e.id
    BY <1>1, <2>4 DEF DifferentIds
  <2>6. Said(m) = Said(m - 1) \union {e.id}
    BY <2>3, <2>4
  <2>7. \A l \in 1 .. m : l = m => c[l] = e
    OBVIOUS
  <2> HIDE DEF p, r, e, T, n, Said, Written, Kept
  <2>8. DifferentIds(p) /\ Ids(p) = Ids(base) \union Said(m - 1)
        /\ Written(p, m - 1) /\ Kept(p, m - 1)
    BY <2>1
  <2>9. /\ Ids(r) = Ids(p) \union {e.id}
        /\ DifferentIds(r)
        /\ \A i \in DOMAIN r : r[i].id # e.id =>
             i \in DOMAIN p /\ r[i] = p[i]
        /\ \A i \in DOMAIN r : r[i].id = e.id =>
             /\ \A f \in DOMAIN e.fields : r[i][f] = e.fields[f]
             /\ Has(p, e.id) =>
                  /\ i \in DOMAIN p /\ p[i].id = e.id
                  /\ \A f \in Fields \ DOMAIN e.fields : r[i][f] = p[i][f]
    BY <2>1, <2>2, <2>8, ApplyEntryIs
  <2>10. Written(r, m)
    <3> SUFFICES ASSUME NEW i \in DOMAIN r, NEW l \in 1 .. m, c[l].id = r[i].id,
                        NEW f \in DOMAIN c[l].fields
                 PROVE  r[i][f] = c[l].fields[f]
      BY DEF Written
    <3>1. CASE l = m
      <4>1. c[l] = e
        BY <2>7, <3>1
      <4> QED  BY <2>9, <4>1
    <3>2. CASE l \in 1 .. m - 1
      <4>1. r[i].id # e.id
        BY <2>5, <3>2
      <4>2. i \in DOMAIN p /\ r[i] = p[i]
        BY <2>9, <4>1
      <4> QED  BY <2>8, <3>2, <4>2 DEF Written
    <3> QED  BY <2>3, <3>1, <3>2
  <2>11. Kept(r, m)
    <3> SUFFICES ASSUME NEW i \in DOMAIN r, NEW j \in DOMAIN base,
                        NEW f \in Fields, base[j].id = r[i].id,
                        \A l \in 1 .. m : c[l].id = r[i].id
                                            => f \notin DOMAIN c[l].fields
                 PROVE  r[i][f] = base[j][f]
      BY DEF Kept
    <3>1. \A l \in 1 .. m - 1 : c[l].id = r[i].id => f \notin DOMAIN c[l].fields
      BY <2>4
    <3>2. CASE r[i].id # e.id
      <4>1. i \in DOMAIN p /\ r[i] = p[i]
        BY <2>9, <3>2
      <4> QED  BY <2>8, <3>1, <4>1 DEF Kept
    <3>3. CASE r[i].id = e.id
      <4>1. e.id \in Ids(p)
        BY <2>8, <3>3 DEF Ids
      <4>2. Has(p, e.id)
        BY <4>1 DEF Has, Ids
      <4>3. f \notin DOMAIN e.fields
        BY <2>4, <2>7, <3>3
      <4>4. i \in DOMAIN p /\ p[i].id = r[i].id /\ r[i][f] = p[i][f]
        BY <2>9, <3>3, <4>2, <4>3
      <4>5. p[i][f] = base[j][f]
        BY <2>8, <3>1, <4>4 DEF Kept
      <4> QED  BY <4>4, <4>5
    <3> QED  BY <3>2, <3>3
  <2>12. Ids(r) = Ids(base) \union Said(m)
    BY <2>6, <2>8, <2>9
  <2>13. Right(r, m)
    BY <2>9, <2>10, <2>11, <2>12
  <2> QED  BY <2>4, <2>13 DEF T, r
<1>6. n \in T
  <2> HIDE DEF T
  <2>1. \A m \in 0 .. n : m \in T
    BY <1>1, <1>4, <1>5, UpTo
  <2> QED  BY <1>1, <2>1
<1>7. Right(v[n], n) /\ v[n] \in Seq(State)
  BY <1>1, <1>3, <1>6
<1>8. Said(n) = Ids(c)
  BY <1>1 DEF Ids
<1> QED  BY <1>2, <1>7, <1>8

----------------------------------------------------------------------------
(* Deltas between snapshots of the ring. *)

\* The delta of two vectors of players takes the one to the other.
LEMMA DeltaTakes ==
  ASSUME NEW base \in Seq([id : Player, x : Int, health : Nat]),
         NEW target \in Seq([id : Player, x : Int, health : Nat]),
         DifferentIds(base), DifferentIds(target)
  PROVE  LET r == Applied(base, Changes(base, target)) IN
         /\ Ids(r) = Ids(base) \union Ids(target)
         /\ \A k \in DOMAIN target :
              /\ Distance(target[k].x, Of(r, target[k].id).x) <= Epsilon
              /\ target[k].health = Of(r, target[k].id).health
<1> DEFINE P == [id : Player, x : Int, health : Nat]
           c == Changes(base, target)
           r == Applied(base, c)
           n == Len(target)
           E(k) == Entry(base, target[k])
<1>1. n \in Nat /\ DOMAIN target = 1 .. n /\ \A k \in 1 .. n : target[k] \in P
  BY LenProperties, ElementOfSeq
<1>2. base \in Seq(State)
  <2>1. P \subseteq State
    BY DEF State
  <2> QED  BY <2>1, SeqMonotonic
<1>3. /\ c \in Seq(Change) /\ DifferentIds(c)
      /\ \A l \in 1 .. Len(c) : \E k \in 1 .. n :
           c[l] = E(k) /\ DOMAIN E(k).fields # {}
      /\ \A k \in 1 .. n : DOMAIN E(k).fields # {} =>
           \E l \in 1 .. Len(c) : c[l] = E(k)
  BY ChangesSay
<1>4. \A k \in 1 .. n :
        /\ E(k).id = target[k].id
        /\ \A f \in DOMAIN E(k).fields : E(k).fields[f] = target[k][f]
        /\ ~ Has(base, target[k].id) => DOMAIN E(k).fields = Fields
        /\ Has(base, target[k].id) =>
             DOMAIN E(k).fields = ChangedFields(Of(base, target[k].id), target[k])
  BY <1>1, EntryIs
<1> HIDE DEF c
<1>5. /\ r \in Seq(State) /\ DifferentIds(r)
      /\ Ids(r) = Ids(base) \union Ids(c)
      /\ \A i \in DOMAIN r :
           /\ \A l \in 1 .. Len(c) : c[l].id = r[i].id =>
                \A f \in DOMAIN c[l].fields : r[i][f] = c[l].fields[f]
           /\ \A j \in DOMAIN base, f \in Fields :
                /\ base[j].id = r[i].id
                /\ \A l \in 1 .. Len(c) :
                     c[l].id = r[i].id => f \notin DOMAIN c[l].fields
                => r[i][f] = base[j][f]
  BY <1>2, <1>3, AppliedSays
<1> HIDE DEF r, n, E
<1>6. DOMAIN c = 1 .. Len(c) /\ DOMAIN r = 1 .. Len(r) /\ Len(r) \in Nat
      /\ DOMAIN base = 1 .. Len(base)
  BY <1>3, <1>5, LenProperties
<1>7. Ids(r) = Ids(base) \union Ids(target)
  <2>1. Ids(c) \subseteq Ids(target)
    <3>1. ASSUME NEW l \in 1 .. Len(c)
          PROVE  c[l].id \in Ids(target)
      <4>1. PICK k \in 1 .. n : c[l] = E(k)
        BY <1>3
      <4>2. c[l].id = target[k].id
        BY <1>4, <4>1
      <4> QED  BY <1>1, <4>2 DEF Ids
    <3> QED  BY <1>6, <3>1 DEF Ids
  <2>2. ASSUME NEW k \in 1 .. n
        PROVE  target[k].id \in Ids(base) \union Ids(c)
    <3>1. CASE DOMAIN E(k).fields = {}
      <4>1. Has(base, target[k].id)
        BY <1>4, <3>1 DEF Fields
      <4> QED  BY <4>1 DEF Has, Ids
    <3>2. CASE DOMAIN E(k).fields # {}
      BY <1>3, <1>4, <1>6, <3>2 DEF Ids
    <3> QED  BY <3>1, <3>2
  <2>3. Ids(target) \subseteq Ids(base) \union Ids(c)
    BY <1>1, <2>2 DEF Ids
  <2> QED  BY <1>5, <2>1, <2>3
<1>8. ASSUME NEW k \in 1 .. n
      PROVE  /\ Distance(target[k].x, Of(r, target[k].id).x) <= Epsilon
             /\ target[k].health = Of(r, target[k].id).health
  <2> DEFINE p == target[k]
             q == Of(r, p.id)
  <2>1. p \in P
    BY <1>1
  <2>2. PICK i \in DOMAIN r : q = r[i] /\ r[i].id = p.id
    <3> DEFINE S == {j \in DOMAIN r : r[j].id = p.id}
    <3>1. p.id \in Ids(r)
      BY <1>1, <1>7 DEF Ids
    <3>2. S # {} /\ S \subseteq Nat
      BY <1>6, <3>1 DEF Ids
    <3>3. Smallest(S) \in S
      <4> HIDE DEF S
      <4> QED  BY <3>2, SmallestIs
    <3> QED  BY <3>3 DEF Of
  <2>3. q \in State
    BY <1>5, <1>6, <2>2, ElementOfSeq
  <2>4. \A l \in 1 .. Len(c) : c[l].id = p.id => c[l] = E(k)
    <3> TAKE l \in 1 .. Len(c)
    <3>1. PICK j \in 1 .. n : c[l] = E(j)
      BY <1>3
    <3>2. c[l].id = target[j].id
      BY <1>4, <3>1
    <3>3. target[j].id = target[k].id => j = k
      BY <1>1 DEF DifferentIds
    <3> QED  BY <3>1, <3>2, <3>3
  <2> HIDE DEF p, q
  <2>5. \A f \in DOMAIN E(k).fields : q[f] = p[f]
    <3> SUFFICES ASSUME NEW f \in DOMAIN E(k).fields PROVE q[f] = p[f]
      OBVIOUS
    <3>1. PICK l \in 1 .. Len(c) : c[l] = E(k)
      BY <1>3
    <3>2. c[l].id = r[i].id
      BY <1>4, <2>2, <3>1 DEF p
    <3>3. r[i][f] = c[l].fields[f]
      BY <1>5, <3>1, <3>2
    <3> QED  BY <1>4, <2>2, <3>1, <3>3 DEF p
  <2>6. \A f \in Fields \ DOMAIN E(k).fields :
          Has(base, p.id) /\ q[f] = Of(base, p.id)[f]
    <3> SUFFICES ASSUME NEW f \in Fields \ DOMAIN E(k).fields
                 PROVE  Has(base, p.id) /\ q[f] = Of(base, p.id)[f]
      OBVIOUS
    <3>1. Has(base, p.id)
      BY <1>4 DEF p
    <3>2. PICK j \in 1 .. Len(base) : Of(base, p.id) = base[j] /\ base[j].id = p.id
      <4>1. Of(base, p.id).id = p.id
            /\ \E j \in 1 .. Len(base) : Of(base, p.id) = base[j]
        BY <3>1, OfIs
      <4> QED  BY <4>1
    <3>3. \A l \in 1 .. Len(c) : c[l].id = r[i].id => f \notin DOMAIN c[l].fields
      BY <2>2, <2>4
    <3>4. r[i][f] = base[j][f]
      <4>1. base[j].id = r[i].id /\ j \in DOMAIN base /\ f \in Fields
        BY <1>6, <2>2, <3>2
      <4> QED  BY <1>5, <3>3, <4>1
    <3> QED  BY <2>2, <3>1, <3>2, <3>4
  <2>7. p.health = q.health
    <3>1. "health" \in Fields
      BY DEF Fields
    <3>2. CASE "health" \in DOMAIN E(k).fields
      BY <2>5, <3>2
    <3>3. CASE "health" \notin DOMAIN E(k).fields
      <4>1. Has(base, p.id) /\ q.health = Of(base, p.id).health
        BY <2>6, <3>1, <3>3
      <4>2. "health" \notin ChangedFields(Of(base, p.id), p)
        BY <1>4, <3>3, <4>1 DEF p
      <4> QED  BY <3>1, <4>1, <4>2 DEF ChangedFields
    <3> QED  BY <3>2, <3>3
  <2>8. Distance(p.x, q.x) <= Epsilon
    <3>1. "x" \in Fields /\ Epsilon \in Nat /\ p.x \in Int /\ q.x \in Int
      BY <2>1, <2>3, ConstantsAssumption DEF Fields, State
    <3>2. CASE "x" \in DOMAIN E(k).fields
      <4>1. p.x = q.x
        BY <2>5, <3>2
      <4> QED  BY <3>1, <4>1 DEF Distance
    <3>3. CASE "x" \notin DOMAIN E(k).fields
      <4>1. Has(base, p.id) /\ q.x = Of(base, p.id).x
        BY <2>6, <3>1, <3>3
      <4>2. "x" \notin ChangedFields(Of(base, p.id), p)
        BY <1>4, <3>3, <4>1 DEF p
      <4>3. ~ (Distance(q.x, p.x) > Epsilon)
        BY <3>1, <4>1, <4>2 DEF ChangedFields
      <4> QED  BY <3>1, <4>3 DEF Distance
    <3> QED  BY <3>2, <3>3
  <2> QED  BY <2>7, <2>8 DEF p, q
<1> QED  BY <1>1, <1>7, <1>8 DEF r, c

\* A delta takes a client from any snapshot of the ring to any other, as long
\* as a byte counts the changes.
THEOREM DeltasAlwaysReconstruct == Spec => []DeltaReconstructs
<1>1. Inv => DeltaReconstructs
  <2> SUFFICES ASSUME Inv, NEW i \in DOMAIN Recent, NEW j \in DOMAIN Recent
               PROVE  Reconstructed(Recent[i], Recent[j])
    BY DEF DeltaReconstructs
  <2> DEFINE b == Recent[i]
             t == Recent[j]
             c == Changes(b.players, t.players)
             delta == DeltaOf(b, t)
             r == ApplyDelta(b, delta)
  <2> i \in 1 .. count_ /\ j \in 1 .. count_
    BY RecentIs
  <2>1. GetSnapshot(b.sequence) = b /\ GetSnapshot(t.sequence) = t
    BY Found
  <2>2. b \in Snapshot /\ t \in Snapshot /\ b.players \in Worlds
        /\ t.players \in Worlds
    BY RecentIs DEF Made
  <2> HIDE DEF b, t
  <2>3. /\ b.players \in Seq([id : Player, x : Int, health : Nat])
        /\ t.players \in Seq([id : Player, x : Int, health : Nat])
        /\ DifferentIds(b.players) /\ DifferentIds(t.players)
    BY <2>2, ConstantsAssumption
  <2>4. c \in Seq(Change)
    BY <2>3, ChangesSay
  <2>5. /\ delta.target_sequence = t.sequence /\ delta.changes = c
        /\ delta.count = Len(c) % CountMod
    BY DEF DeltaOf
  <2>6. ASSUME Len(c) < CountMod
        PROVE  r.sequence = t.sequence /\ r.players = Applied(b.players, c)
    <3>1. Len(c) \in Nat /\ CountMod \in Nat \ {0}
      BY <2>4, LenProperties, ConstantsAssumption
    <3>2. Len(c) % CountMod = Len(c)
      BY <2>6, <3>1
    <3> HIDE DEF c
    <3>3. SubSeq(c, 1, Len(c)) = c
      BY <2>4
    <3>4. r = [b EXCEPT !.sequence = t.sequence,
                        !.players = Applied(b.players, c)]
      BY <2>5, <3>2, <3>3 DEF ApplyDelta
    <3> HIDE DEF r
    <3> QED  BY <2>2, <3>4 DEF Snapshot
  <2> HIDE DEF c, delta, r
  <2>7. ASSUME Len(c) < CountMod
        PROVE  /\ Ids(r.players) = Ids(b.players) \union Ids(t.players)
               /\ \A k \in DOMAIN t.players :
                    /\ Distance(t.players[k].x,
                                Of(r.players, t.players[k].id).x) <= Epsilon
                    /\ t.players[k].health
                       = Of(r.players, t.players[k].id).health
    <3>1. r.players = Applied(b.players, Changes(b.players, t.players))
      BY <2>6, <2>7 DEF c
    <3> QED  BY <2>3, <3>1, DeltaTakes
  <2>8. delta = DeltaOf(GetSnapshot(b.sequence), GetSnapshot(t.sequence))
        /\ r = ApplyDelta(b, delta)
    BY <2>1 DEF delta, r
  <2>9. Reconstructed(b, t)
    BY <2>5, <2>6, <2>7, <2>8 DEF Reconstructed, Ids
  <2> QED  BY <2>9 DEF b, t
<1> QED  BY <1>1, Invariant, PTL
=============================================================================
