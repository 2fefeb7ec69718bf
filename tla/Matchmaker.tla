----------------------------- MODULE Matchmaker -----------------------------
(***************************************************************************)
(* Matchmaking of cpp-pvp-server: Matchmaker (matchmaker.cpp) over the     *)
(* InMemoryMatchQueue (match_queue.cpp).                                   *)
(*                                                                         *)
(* Enqueue, Cancel and the pairing half of RunMatching hold mutex_ for     *)
(* their whole body and are one action each.  The matches are published    *)
(* after the mutex is released, one by one: players come and go meanwhile. *)
(* The channel they are published to is a queue that main drains and       *)
(* drops; it is not kept.                                                  *)
(*                                                                         *)
(* A bucket lists its players by order_counter_, which only grows, so a    *)
(* new entry always goes to its end.  Waiting times are counted in steps   *)
(* of kStepSeconds, and stop counting at MaxWait.                          *)
(***************************************************************************)
EXTENDS Integers, Sequences, FiniteSets, SequencesExt

CONSTANTS
  PlayerId,
  Elo,            \* ratings in use, a finite set
  Region,         \* regions a request may prefer
  AnyRegion,      \* the region "any"
  NoElo,          \* no entry in index_
  BaseTolerance,  \* kBaseTolerance
  ToleranceStep,  \* kToleranceStep
  MaxWait         \* bound: steps of waiting that are told apart

ASSUME ConstantsAssumption ==
  /\ Elo \subseteq Int /\ IsFiniteSet(Elo)
  /\ NoElo \notin Elo
  /\ AnyRegion \in Region
  /\ BaseTolerance \in Nat /\ ToleranceStep \in Nat /\ MaxWait \in Nat

VARIABLES
  buckets,          \* buckets_: the players waiting at each rating, oldest first
  index,            \* index_: the bucket of each player that waits
  region,           \* preferred_region of each request; AnyRegion when none
  waited,           \* steps since enqueued_at of each request; 0 when none
  last_queue_size,  \* last_queue_size_
  unpublished       \* "matches" of the RunMatching that is publishing

vars == <<buckets, index, region, waited, last_queue_size, unpublished>>

Init ==
  /\ buckets = [e \in Elo |-> <<>>]
  /\ index = [p \in PlayerId |-> NoElo]
  /\ region = [p \in PlayerId |-> AnyRegion]
  /\ waited = [p \in PlayerId |-> 0]
  /\ last_queue_size = 0
  /\ unpublished = <<>>

Waiting == {p \in PlayerId : index[p] # NoElo}

----------------------------------------------------------------------------
(* The queue. *)

Without(bucket, gone) ==
  FoldLeft(LAMBDA rest, p : IF p \in gone THEN rest ELSE Append(rest, p),
           <<>>, bucket)

\* Remove, of several players: out of the bucket their index names, and out of
\* the index.
Removed(gone) ==
  [e \in Elo |-> Without(buckets[e], {p \in gone : index[p] = e})]

\* A slip of Upsert: the old entry is looked for at the new rating.
UpsertedInPlace(p, elo) ==
  [e \in Elo |-> IF e = elo THEN Append(Without(buckets[e], {p}), p)
                 ELSE buckets[e]]

\* Upsert: the old entry goes, wherever it is; the new one is last at its rating.
Upserted(p, elo) ==
  [e \in Elo |-> IF e = elo THEN Append(Removed({p})[e], p) ELSE Removed({p})[e]]

Enqueue(p, elo, r) ==
  /\ buckets' = Upserted(p, elo)
  /\ index' = [index EXCEPT ![p] = elo]
  /\ region' = [region EXCEPT ![p] = r]
  /\ waited' = [waited EXCEPT ![p] = 0]
  /\ last_queue_size' = Cardinality(Waiting \union {p})
  /\ UNCHANGED unpublished

\* The requests that leave take their data with them.
Forget(gone) ==
  /\ buckets' = Removed(gone)
  /\ index'  = [p \in PlayerId |-> IF p \in gone THEN NoElo ELSE index[p]]
  /\ region' = [p \in PlayerId |-> IF p \in gone THEN AnyRegion ELSE region[p]]
  /\ waited' = [p \in PlayerId |-> IF p \in gone THEN 0 ELSE waited[p]]

\* A slip: the size is counted down without looking whether anybody left.
CancelCountingDown(p) ==
  /\ Forget({p})
  /\ last_queue_size' = last_queue_size - 1
  /\ UNCHANGED unpublished

\* Cancel of somebody who does not wait changes nothing.
Cancel(p) ==
  /\ Forget({p})
  /\ last_queue_size' = Cardinality(Waiting \ {p})
  /\ UNCHANGED unpublished

----------------------------------------------------------------------------
(* RunMatching. *)

Lowest(S) == CHOOSE x \in S : \A y \in S : x <= y

\* FetchOrdered: by rating, then by age.
FetchOrdered ==
  LET from[S \in SUBSET Elo] ==
        IF S = {} THEN <<>>
        ELSE buckets[Lowest(S)] \o from[S \ {Lowest(S)}]
  IN  from[Elo]

CurrentTolerance(p) == BaseTolerance + waited[p] * ToleranceStep

RegionsCompatible(p, q) ==
  region[p] = AnyRegion \/ region[q] = AnyRegion \/ region[p] = region[q]

Distance(p, q) == IF index[p] < index[q] THEN index[q] - index[p]
                  ELSE index[p] - index[q]

\* A slip: only the candidate's own tolerance is asked.
OneSided(p, q) ==
  RegionsCompatible(p, q) /\ Distance(p, q) <= CurrentTolerance(p)

Compatible(p, q) ==
  /\ RegionsCompatible(p, q)
  /\ Distance(p, q) <= CurrentTolerance(p)
  /\ Distance(p, q) <= CurrentTolerance(q)

\* A slip: the search gives up at the first player it cannot take.
GivesUpAt(p, q) == ~Compatible(p, q)

\* The early exit: q is out of p's reach, so everybody after q is.
TooFar(p, q) ==
  RegionsCompatible(p, q) /\ index[q] - index[p] > CurrentTolerance(p)

\* The positions after i whose player can be i's partner.
Partners(ordered, i, used) ==
  {j \in i + 1..Len(ordered) :
     /\ ordered[j] \notin used
     /\ Compatible(ordered[i], ordered[j])
     /\ \A k \in i + 1..j - 1 :
          ordered[k] \notin used => ~TooFar(ordered[i], ordered[k])}

Both(pair) == {pair[1], pair[2]}
Players(pairs) == UNION {Both(pairs[m]) : m \in 1..Len(pairs)}

\* The pairs made, in order: every player in turn takes the first partner.
Pairs ==
  LET ordered == FetchOrdered
      made[i \in 0..Len(ordered)] ==
        IF i = 0 THEN <<>>
        ELSE LET before   == made[i - 1]
                 partners == Partners(ordered, i, Players(before))
             IN  IF ordered[i] \in Players(before) \/ partners = {} THEN before
                 ELSE Append(before, <<ordered[i], ordered[Lowest(partners)]>>)
  IN  made[Len(ordered)]

RunMatching ==
  /\ unpublished = <<>>
  /\ unpublished' = Pairs
  /\ Forget(Players(Pairs))
  /\ last_queue_size' = Cardinality(Waiting \ Players(Pairs))

Publish ==
  /\ unpublished # <<>>
  /\ unpublished' = Tail(unpublished)
  /\ UNCHANGED <<buckets, index, region, waited, last_queue_size>>

TimePasses ==
  /\ waited' = [p \in PlayerId |->
                  IF p \in Waiting /\ waited[p] < MaxWait
                  THEN waited[p] + 1 ELSE waited[p]]
  /\ UNCHANGED <<buckets, index, region, last_queue_size, unpublished>>

Next ==
  \/ \E p \in PlayerId, elo \in Elo, r \in Region : Enqueue(p, elo, r)
  \/ \E p \in PlayerId : Cancel(p)
  \/ RunMatching
  \/ Publish
  \/ TimePasses

Spec == Init /\ [][Next]_vars

----------------------------------------------------------------------------
(* Properties. *)

\* The types.
TypeOK ==
  /\ buckets \in [Elo -> Seq(PlayerId)]
  /\ index \in [PlayerId -> Elo \union {NoElo}]
  /\ region \in [PlayerId -> Region]
  /\ waited \in [PlayerId -> 0..MaxWait]
  /\ last_queue_size \in Nat
  /\ unpublished \in Seq(PlayerId \X PlayerId)

\* The buckets and the index are two views of one queue, whatever re-queueing
\* at other ratings, cancelling and pairing went before: a player is in exactly
\* the bucket its index names, once, and the gauge counts it.
QueueConsistent ==
  /\ TypeOK
  /\ \A p \in PlayerId, e \in Elo :
       Cardinality({i \in 1..Len(buckets[e]) : buckets[e][i] = p})
         = IF index[p] = e THEN 1 ELSE 0
  /\ last_queue_size = Cardinality(Waiting)

\* Everybody paired waited and is acceptable to the other, each within its own
\* tolerance, and nobody is paired twice in one round.
MatchesAreFair ==
  [][RunMatching =>
       LET new == unpublished' IN
       /\ \A m \in 1..Len(new) :
            /\ Both(new[m]) \subseteq Waiting /\ new[m][1] # new[m][2]
            /\ RegionsCompatible(new[m][1], new[m][2])
            /\ \A p \in Both(new[m]) :
                 Distance(new[m][1], new[m][2]) <= CurrentTolerance(p)
       /\ \A m, n \in 1..Len(new) :
            m # n => Both(new[m]) \intersect Both(new[n]) = {}]_vars

\* A round leaves no compatible pair behind: neither the greedy choice nor the
\* early exit loses a match that both players would have accepted.
NothingLeftBehind ==
  [][RunMatching =>
       \A p, q \in Waiting' :
         p # q /\ RegionsCompatible(p, q) =>
           \/ Distance(p, q) > CurrentTolerance(p)
           \/ Distance(p, q) > CurrentTolerance(q)]_vars

\* "always match the oldest compatible player first" (design/v1.2.0-
\* matchmaking.md:33, matchmaker.cpp:101): nobody stays behind who is
\* compatible with a player that was given a partner with a shorter wait.
OldestFirst ==
  [][RunMatching =>
       \A m \in 1..Len(unpublished') :
         LET p == unpublished'[m][1]
             r == unpublished'[m][2]
         IN  \A q \in Waiting' : Compatible(p, q) => waited[q] <= waited[r]]_vars
=============================================================================
