----------------------------- MODULE Snapshots ------------------------------
(***************************************************************************)
(* SnapshotManager of cpp-pvp-server                                       *)
(* (server/src/network/snapshot_manager.cpp): the ring of the last         *)
(* snapshots, the look back in time with its interpolation, and the deltas *)
(* between two snapshots of the ring.                                      *)
(*                                                                         *)
(* CreateSnapshot and SaveSnapshot lock mutex_ each for itself, so writers *)
(* may save in another order than they created.  A player's state is cut   *)
(* down to one coordinate, which stands for x, y and the facing (compared  *)
(* up to EPSILON and interpolated), and its health, which stands for       *)
(* is_alive as well (compared exactly, taken over as it is).  Projectiles  *)
(* and the byte layout are left out; deltas do not carry projectiles.      *)
(***************************************************************************)
EXTENDS Integers, Sequences, FiniteSets, Folds, SequencesExt

CONSTANTS
  Writer,      \* the threads that create and save snapshots
  Player,
  Worlds,      \* the vectors of players a caller may pass
  Size,        \* BUFFER_SIZE
  Epsilon,     \* EPSILON, in units of the coordinate
  CountMod,    \* the changed players are counted in a byte: 256
  MaxSequence, \* bound: snapshots created
  MaxTime      \* bound: the clock

\* No player is in the vector twice: its ids are the keys of GameSession's
\* players_.
DifferentIds(players) ==
  \A i, j \in DOMAIN players : players[i].id = players[j].id => i = j

ASSUME ConstantsAssumption ==
  /\ Size \in Nat \ {0} /\ CountMod \in Nat \ {0}
  /\ Epsilon \in Nat /\ MaxSequence \in Nat /\ MaxTime \in Nat
  /\ Worlds \subseteq Seq([id : Player, x : Int, health : Nat])
  /\ \A players \in Worlds : DifferentIds(players)

VARIABLES
  current_sequence_, \* the sequence of the last snapshot created
  now,               \* the steady clock
  held,              \* what each writer has created and not yet saved
  buffer_,           \* the slots of the ring, 0 .. Size - 1
  head_,             \* the slot to write next
  count_,            \* slots in use
  saved              \* history: every snapshot saved, in the order of saving

vars == <<current_sequence_, now, held, buffer_, head_, count_, saved>>

None == [sequence |-> 0, timestamp |-> 0, players |-> <<>>]

Init ==
  /\ current_sequence_ = 0
  /\ now = 0
  /\ held = [w \in Writer |-> None]
  /\ buffer_ = [i \in 0..Size-1 |-> None]
  /\ head_ = 0
  /\ count_ = 0
  /\ saved = <<>>

----------------------------------------------------------------------------
(* Writing. *)

Tick ==
  /\ now < MaxTime
  /\ now' = now + 1
  /\ UNCHANGED <<current_sequence_, held, buffer_, head_, count_, saved>>

CreateSnapshot(w, players) ==
  /\ current_sequence_ < MaxSequence
  /\ held[w] = None
  /\ current_sequence_' = current_sequence_ + 1
  /\ held' = [held EXCEPT ![w] = [sequence |-> current_sequence_ + 1,
                                  timestamp |-> now, players |-> players]]
  /\ UNCHANGED <<now, buffer_, head_, count_, saved>>

\* Slip: the head stays within the slots in use.
HeadWithinCount(h) == (h + 1) % (IF count_ < Size THEN count_ + 1 ELSE Size)

NextHead(h) == (h + 1) % Size

SaveSnapshot(w) ==
  /\ held[w] # None
  /\ buffer_' = [buffer_ EXCEPT ![head_] = held[w]]
  /\ head_' = NextHead(head_)
  /\ count_' = IF count_ < Size THEN count_ + 1 ELSE count_
  /\ saved' = Append(saved, held[w])
  /\ held' = [held EXCEPT ![w] = None]
  /\ UNCHANGED <<current_sequence_, now>>

Next ==
  \/ Tick
  \/ \E w \in Writer : \/ \E players \in Worlds : CreateSnapshot(w, players)
                       \/ SaveSnapshot(w)

Spec == Init /\ [][Next]_vars

----------------------------------------------------------------------------
(* Reading.  Age 0 is the snapshot saved last. *)

Slot(age) == (head_ + Size - 1 - age) % Size
Ages == 0 .. count_ - 1

Smallest(ages) == CHOOSE a \in ages : \A b \in ages : a <= b

\* FindIndex, from the newest slot to the oldest.
GetSnapshot(sequence) ==
  LET hits == {a \in Ages : buffer_[Slot(a)].sequence = sequence}
  IN  IF hits = {} THEN None ELSE buffer_[Slot(Smallest(hits))]

GetLatestSnapshot ==
  IF count_ = 0 THEN None ELSE buffer_[(head_ + Size - 1) % Size]

\* The player of that id in a snapshot.
Has(players, id) == \E i \in DOMAIN players : players[i].id = id
Of(players, id) ==
  players[Smallest({i \in DOMAIN players : players[i].id = id})]

\* A coordinate on the way from a to b, "num" parts of "den".
Lerp(a, b, num, den) == a + (num * (b - a)) \div den

\* Players of the later snapshot, at the time in between.
Blend(before, after, time) ==
  [i \in DOMAIN after.players |->
     LET p == after.players[i] IN
     IF Has(before.players, p.id)
     THEN [p EXCEPT !.x = Lerp(Of(before.players, p.id).x, @,
                               time - before.timestamp,
                               after.timestamp - before.timestamp)]
     ELSE p]

\* Slip: the later of the two is sought one slot back.
BetweenBackwards(before, time) ==
  LET after == buffer_[(before + Size - 1) % Size] IN
  IF after.timestamp = buffer_[before].timestamp THEN after
  ELSE [sequence |-> after.sequence, timestamp |-> time,
        players |-> Blend(buffer_[before], after, time)]

\* From slot "before" to the one after it.
Between(before, time) ==
  LET after == buffer_[(before + 1) % Size] IN
  IF after.timestamp = buffer_[before].timestamp THEN after
  ELSE [sequence |-> after.sequence, timestamp |-> time,
        players |-> Blend(buffer_[before], after, time)]

GetSnapshotAt(time) ==
  LET past == {a \in Ages : buffer_[Slot(a)].timestamp <= time}
      age  == Smallest(past)
  IN  IF count_ = 0 THEN None
      ELSE IF past = {} THEN buffer_[(head_ + Size - count_) % Size]
      ELSE IF age = 0 THEN buffer_[Slot(0)]
      ELSE Between(Slot(age), time)

----------------------------------------------------------------------------
(* Deltas. *)

Fields == {"x", "health"}

Distance(a, b) == IF a < b THEN b - a ELSE a - b

\* Slip: only movement in one direction counts.
ChangedForward(from, to) ==
  {f \in Fields : IF f = "x" THEN to.x - from.x > Epsilon
                  ELSE from[f] # to[f]}

\* ComparePlayerStates.
ChangedFields(from, to) ==
  {f \in Fields : IF f = "x" THEN Distance(from.x, to.x) > Epsilon
                  ELSE from[f] # to[f]}

\* What a delta says of one player of the target.
Entry(base, p) ==
  [id |-> p.id,
   fields |-> [f \in IF Has(base, p.id) THEN ChangedFields(Of(base, p.id), p)
                     ELSE Fields |-> p[f]]]

\* The entries that say anything, in the order of the target.
Changes(base, target) ==
  FoldLeft(LAMBDA changes, p : IF DOMAIN Entry(base, p).fields = {} THEN changes
                               ELSE Append(changes, Entry(base, p)),
           <<>>, target)

\* CalculateDelta for two snapshots of the ring.
DeltaOf(base, target) ==
  LET changes == Changes(base.players, target.players) IN
  [target_sequence |-> target.sequence, changes |-> changes,
   count |-> Len(changes) % CountMod]

\* A default-constructed PlayerState.
Unknown(id) == [id |-> id, x |-> 0, health |-> 100]

Patched(p, fields) ==
  [f \in DOMAIN p |-> IF f \in DOMAIN fields THEN fields[f] ELSE p[f]]

ApplyEntry(players, e) ==
  IF Has(players, e.id)
  THEN [i \in DOMAIN players |->
          IF players[i].id = e.id THEN Patched(players[i], e.fields)
          ELSE players[i]]
  ELSE Append(players, Patched(Unknown(e.id), e.fields))

Applied(players, changes) == FoldLeft(ApplyEntry, players, changes)

ApplyDelta(base, delta) ==
  [base EXCEPT !.sequence = delta.target_sequence,
               !.players = Applied(@, SubSeq(delta.changes, 1, delta.count))]

----------------------------------------------------------------------------
(* Properties. *)

\* The snapshots that should be in the ring: the last Size saved.
Recent ==
  SubSeq(saved, IF Len(saved) > Size THEN Len(saved) - Size + 1 ELSE 1,
         Len(saved))

TypeOK ==
  /\ current_sequence_ \in 0..MaxSequence
  /\ now \in 0..MaxTime
  /\ head_ \in 0..Size-1
  /\ count_ \in 0..Size
  /\ DOMAIN buffer_ = 0..Size-1
  /\ DOMAIN held = Writer

\* The ring is the last Size snapshots saved, no matter how writers
\* interleave and how often it has wrapped: each is found by its sequence,
\* nothing else is found, and the latest is the one saved last.
RingHoldsTheLast ==
  /\ TypeOK
  /\ GetLatestSnapshot = IF saved = <<>> THEN None ELSE Recent[Len(Recent)]
  /\ \A s \in 1..current_sequence_ :
       LET those == {i \in DOMAIN Recent : Recent[i].sequence = s} IN
       IF those = {} THEN GetSnapshot(s) = None
       ELSE \A i \in those : GetSnapshot(s) = Recent[i]

\* A look back never invents a past: it answers with a snapshot of the ring or
\* between two that were saved in a row, the one at or before the time asked
\* for and the next after it, every player between its two places.
LookBackBrackets ==
  \A time \in 0..now : saved # <<>> =>
    LET r == GetSnapshotAt(time) IN
    \/ r = Recent[1] /\ \A i \in DOMAIN Recent : Recent[i].timestamp > time
    \/ r = Recent[Len(Recent)] /\ r.timestamp <= time
    \/ \E i \in 1..Len(Recent)-1 :
         LET b == Recent[i]
             a == Recent[i+1]
         IN  /\ b.timestamp <= time /\ time < a.timestamp
             /\ r.timestamp = time /\ r.sequence = a.sequence
             /\ \A j \in DOMAIN a.players :
                  LET p == a.players[j]
                      q == r.players[j]
                  IN  /\ q.id = p.id /\ q.health = p.health
                      /\ Distance(p.x, q.x)
                         <= IF Has(b.players, p.id)
                            THEN Distance(p.x, Of(b.players, p.id).x) ELSE 0

SavedInOrder ==
  \A i \in 1..Len(saved)-1 : saved[i].sequence < saved[i+1].sequence

\* With snapshots saved in order, asking for a later time never gets an
\* earlier answer, and the latest snapshot is the newest that exists.
LookBackInOrder ==
  SavedInOrder =>
    /\ \A t1, t2 \in 0..now :
         t1 <= t2 => GetSnapshotAt(t1).sequence <= GetSnapshotAt(t2).sequence
    /\ \A i \in DOMAIN saved : saved[i].sequence <= GetLatestSnapshot.sequence

\* Both: what interpolation and lag compensation rely on.
LookBackIsRight == LookBackBrackets /\ LookBackInOrder

\* The delta from b to t, applied to b, makes t of it.
Reconstructed(b, t) ==
  LET delta == DeltaOf(GetSnapshot(b.sequence), GetSnapshot(t.sequence))
      r     == ApplyDelta(b, delta)
  IN  Len(delta.changes) < CountMod =>
        /\ r.sequence = t.sequence
        /\ {r.players[k].id : k \in DOMAIN r.players}
           = {b.players[k].id : k \in DOMAIN b.players}
             \union {t.players[k].id : k \in DOMAIN t.players}
        /\ \A k \in DOMAIN t.players :
             LET p == t.players[k]
                 q == Of(r.players, p.id)
             IN  Distance(p.x, q.x) <= Epsilon /\ p.health = q.health

\* A delta takes a client from any snapshot of the ring to any other: whoever
\* is in the target is where it is there, up to EPSILON, with its exact
\* health, new players included; those who have left stay on.  A byte counts
\* the changes, so there may be no more than it holds.
DeltaReconstructs ==
  \A i, j \in DOMAIN Recent : Reconstructed(Recent[i], Recent[j])
=============================================================================
