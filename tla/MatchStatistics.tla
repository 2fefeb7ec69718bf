-------------------------- MODULE MatchStatistics ---------------------------
(***************************************************************************)
(* From a death in the game session to the leaderboard                     *)
(* (server/src/stats/match_stats.cpp, player_profile_service.cpp and       *)
(* leaderboard_store.cpp of cpp-pvp-server, driven by BroadcastState in    *)
(* network/websocket_server.cpp): every death ends a match of its shooter  *)
(* against its target.  MatchStatsCollector sums up what the session and   *)
(* its combat log say of each player, PlayerProfileService adds that to    *)
(* the players' profiles, updates both ratings and tells the leaderboard.  *)
(*                                                                         *)
(* BroadcastState runs Tick, ConsumeDeathEvents, Collect and RecordMatch   *)
(* in one handler of the only thread that uses the session, so while       *)
(* deaths are pending nothing else happens to it.  Collect reads nothing   *)
(* that RecordMatch writes, so each death is collected and recorded in one *)
(* action.  The log holds no event of a later tick, so the test of the     *)
(* tick in Collect drops nothing and ticks are left out.                   *)
(***************************************************************************)
EXTENDS GameSession, Functions, FiniteSetsExt, SequencesExt

CONSTANTS
  StartRating,   \* AggregateStats::rating (1200)
  MaxErases      \* bound: calls of LeaderboardStore::Erase

ASSUME StatisticsAssumption ==
  /\ PlayerId \subseteq Nat   \* ids compare like numbers
  /\ StartRating \in Int
  /\ MaxErases \in Nat

VARIABLES
  aggregates,             \* aggregates_; absent players have no key
  matches_recorded_total, \* matches_recorded_total_
  scores,                 \* scores_ of the leaderboard
  ordered,                \* ordered_: the players of each score
  erases                  \* erasures so far

profileVars == <<aggregates, matches_recorded_total, scores, ordered, erases>>
allVars == <<vars, profileVars>>

NewProfile ==
  [matches |-> 0, wins |-> 0, losses |-> 0, kills |-> 0, deaths |-> 0,
   shots_fired |-> 0, hits_landed |-> 0, damage_dealt |-> 0,
   damage_taken |-> 0, rating |-> StartRating]

NoEntry == [x \in {} |-> x]

StatsInit ==
  /\ Init
  /\ aggregates = NoEntry
  /\ matches_recorded_total = 0
  /\ scores = NoEntry
  /\ ordered = NoEntry
  /\ erases = 0

----------------------------------------------------------------------------
(* MatchStatsCollector::Collect. *)

\* The events of a type in the retained log in which "who" is in "role".
EventsOf(type, role, who) ==
  {i \in 1..Len(combat_log) :
     combat_log[i].type = type /\ combat_log[i][role] = who}

\* totals: the players of the session and everybody the log names.
Participants(death) ==
  players \union {death.shooter, death.target}
  \union {combat_log[i].shooter : i \in 1..Len(combat_log)}
  \union {combat_log[i].target : i \in 1..Len(combat_log)}

AtLeast(n, m) == IF n < m THEN m ELSE n

\* Slip: the hits are taken from the log, as the damage is.
HitsFromLog(death, p) ==
  [shots_fired  |-> IF p \in players THEN runtime[p].shots_fired ELSE 0,
   hits_landed  |-> Cardinality(EventsOf("Hit", "shooter", p)),
   kills        |-> AtLeast(Cardinality(EventsOf("Death", "shooter", p)), 1),
   deaths       |-> 1,
   damage_dealt |-> Damage * Cardinality(EventsOf("Hit", "shooter", p)),
   damage_taken |-> Damage * Cardinality(EventsOf("Hit", "target", p))]

\* PlayerMatchStats of one participant.  A player who has left counts for
\* what the log says only.
MatchStats(death, p) ==
  LET here == p \in players
      died == p = death.target \/ EventsOf("Death", "target", p) # {}
  IN  [shots_fired  |-> IF here THEN runtime[p].shots_fired ELSE 0,
       hits_landed  |-> IF here THEN runtime[p].hits_landed ELSE 0,
       kills        |-> AtLeast(Cardinality(EventsOf("Death", "shooter", p)),
                                IF p = death.shooter THEN 1 ELSE 0),
       deaths       |-> AtLeast(IF here THEN runtime[p].deaths ELSE 0,
                                IF died THEN 1 ELSE 0),
       damage_dealt |-> Damage * Cardinality(EventsOf("Hit", "shooter", p)),
       damage_taken |-> Damage * Cardinality(EventsOf("Hit", "target", p))]

----------------------------------------------------------------------------
(* EloRatingCalculator::Update, with K = 25. *)

\* The winner of a match against a player d points below gains the number of
\* these that are at least d: lround(25 / (1 + 10^(d/400))), for every d.
GainSteps ==
  {676, 477, 381, 315, 263, 219, 181, 147, 115, 85, 56, 27, 0, -28, -57, -86,
   -116, -148, -182, -220, -264, -316, -382, -478, -677}

Gain(d) == Cardinality({step \in GainSteps : d <= step})

\* Slip: the half of an even match is rounded away from the old rating.
LossAsGain(d) == Gain(d)

\* The loser loses as much, except that both halves of an even match (12.5)
\* are rounded up.
Loss(d) == IF d = 0 THEN Gain(d) - 1 ELSE Gain(d)

----------------------------------------------------------------------------
(* InMemoryLeaderboardStore. *)

\* An assignment to a key of a map.
Put(map, key, value) ==
  [k \in DOMAIN map \union {key} |-> IF k = key THEN value ELSE map[k]]

\* RemoveFromOrdered: a score nobody has is dropped.
RemoveFromOrdered(buckets, p, score) ==
  LET left == buckets[score] \ {p} IN
  IF left = {} THEN Restrict(buckets, DOMAIN buckets \ {score})
  ELSE [buckets EXCEPT ![score] = left]

\* Slip: the player stays in its old bucket.
BucketsKeepingOld(board, p, score) ==
  LET base == board.ordered
      here == IF score \in DOMAIN base THEN base[score] ELSE {}
  IN  Put(base, score, here \union {p})

\* ordered_ after Upsert.
Buckets(board, p, score) ==
  LET base == IF p \in DOMAIN board.scores
              THEN RemoveFromOrdered(board.ordered, p, board.scores[p])
              ELSE board.ordered
      here == IF score \in DOMAIN base THEN base[score] ELSE {}
  IN  Put(base, score, here \union {p})

Upsert(board, p, score) ==
  IF p \in DOMAIN board.scores /\ board.scores[p] = score THEN board
  ELSE [scores  |-> Put(board.scores, p, score),
        ordered |-> Buckets(board, p, score)]

----------------------------------------------------------------------------
(* PlayerProfileService::RecordMatch. *)

ProfileOf(p) == IF p \in DOMAIN aggregates THEN aggregates[p] ELSE NewProfile

\* The loop over the participants.
Accumulated(a, s) ==
  [a EXCEPT !.matches = @ + 1,
            !.shots_fired = @ + s.shots_fired,
            !.hits_landed = @ + s.hits_landed,
            !.damage_dealt = @ + s.damage_dealt,
            !.damage_taken = @ + s.damage_taken,
            !.kills = @ + s.kills,
            !.deaths = @ + s.deaths]

Accumulate(death) ==
  [p \in DOMAIN aggregates \union Participants(death) |->
     IF p \in Participants(death)
     THEN Accumulated(ProfileOf(p), MatchStats(death, p))
     ELSE aggregates[p]]

WithWin(a, rating) == [a EXCEPT !.wins = @ + 1, !.rating = rating]

WithLoss(a, rating) == [a EXCEPT !.losses = @ + 1, !.rating = rating]

\* One pending death, collected and recorded.
RecordMatch ==
  LET death == Head(pending_deaths)
      win   == death.shooter
      lose  == death.target
      all   == Accumulate(death)
      d     == all[win].rating - all[lose].rating
      won   == all[win].rating + Gain(d)
      lost  == all[lose].rating - Loss(d)
      board == Upsert(Upsert([scores |-> scores, ordered |-> ordered],
                             win, won), lose, lost)
  IN  /\ MutexFree /\ pending_deaths # <<>>
      /\ pending_deaths' = Tail(pending_deaths)
      /\ aggregates' = [all EXCEPT ![win]  = WithWin(@, won),
                                   ![lose] = WithLoss(@, lost)]
      /\ matches_recorded_total' = matches_recorded_total + 1
      /\ scores' = board.scores
      /\ ordered' = board.ordered
      /\ UNCHANGED erases
      /\ UNCHANGED <<players, runtime, projectiles, sweep, spawned,
                     hits_total, dead_total, combat_log>>

\* LeaderboardStore::Erase, which no part of the server calls yet.
Erase(p) ==
  /\ MutexFree /\ erases < MaxErases
  /\ p \in DOMAIN scores
  /\ ordered' = RemoveFromOrdered(ordered, p, scores[p])
  /\ scores' = Restrict(scores, DOMAIN scores \ {p})
  /\ erases' = erases + 1
  /\ UNCHANGED <<aggregates, matches_recorded_total>>
  /\ UNCHANGED vars

\* Everything else the session does.  Between the end of a Tick and its last
\* RecordMatch the handler does not give up the thread.
SessionStep ==
  /\ ~MutexFree \/ pending_deaths = <<>>
  /\ \/ \E p \in PlayerId : UpsertPlayer(p) \/ RemovePlayer(p)
     \/ \E p \in PlayerId, s \in 0..MaxSequence, fire \in BOOLEAN :
          ApplyInput(p, s, fire)
     \/ TickStart
     \/ TickStep
  /\ UNCHANGED profileVars

StatsNext == SessionStep \/ RecordMatch \/ \E p \in PlayerId : Erase(p)

StatsSpec == StatsInit /\ [][StatsNext]_allVars

----------------------------------------------------------------------------
(* What the leaderboard shows. *)

\* The order of the board: by score from the highest, then by id.
Before(e, f) == e[2] > f[2] \/ (e[2] = f[2] /\ e[1] < f[1])

\* Everybody on the board, with the score of the bucket.
Entries == {e \in PlayerId \X DOMAIN ordered : e[1] \in ordered[e[2]]}

\* TopN walks the buckets: at i is the entry with i - 1 before it.
Ranking ==
  [i \in 1..Cardinality(Entries) |->
     CHOOSE e \in Entries : Cardinality({f \in Entries : Before(f, e)}) = i - 1]

TopN(limit) == SubSeq(Ranking, 1, IF limit < Len(Ranking) THEN limit
                                  ELSE Len(Ranking))

\* Those of a list that have a profile, as (id, rating).
Profiles(list) ==
  FoldLeft(LAMBDA found, e :
             IF e[1] \in DOMAIN aggregates
             THEN Append(found, <<e[1], aggregates[e[1]].rating>>) ELSE found,
           <<>>, list)

\* TopProfiles with a leaderboard.
TopProfiles(limit) == Profiles(TopN(limit))

----------------------------------------------------------------------------
(* Properties. *)

\* The two indexes of the leaderboard and the profiles name one rating for
\* each player: a player is in the bucket of its score and in no other, no
\* bucket is empty, and the score is the rating of its profile.
LeaderboardAgrees ==
  /\ \A s \in DOMAIN ordered :
       ordered[s] # {} /\ \A p \in ordered[s] : p \in DOMAIN scores
                                                /\ scores[p] = s
  /\ \A p \in DOMAIN scores :
       /\ scores[p] \in DOMAIN ordered /\ p \in ordered[scores[p]]
       /\ p \in DOMAIN aggregates /\ aggregates[p].rating = scores[p]

\* Whatever is on the board, TopProfiles(limit) names as many players as asked
\* for and there are, each once, best first, ids breaking ties, and leaves no
\* better player out.
RankingIsRight ==
  \A limit \in 0 .. Cardinality(DOMAIN scores) + 1 :
    LET top == TopProfiles(limit)
        named == {top[i][1] : i \in 1..Len(top)}
    IN  /\ Len(top) = Min({limit, Cardinality(DOMAIN scores)})
        /\ \A i, j \in 1..Len(top) : i < j => Before(top[i], top[j])
        /\ \A p \in DOMAIN scores \ named : \A i \in 1..Len(top) :
             Before(top[i], <<p, scores[p]>>)

\* The board is consistent and what it shows is right.
LeaderboardIsRight == LeaderboardAgrees /\ RankingIsRight

Total(profiles, field) ==
  MapThenSumSet(LAMBDA p : profiles[p][field], DOMAIN profiles)

\* The profiles add up: every match has one winner and one loser, nobody wins
\* or loses more than it took part in or than it is said to have killed or
\* died, no accuracy is above one, and damage dealt is damage taken, whoever
\* has left the game and whatever the log has dropped in between.
ProfilesAddUp ==
  /\ Total(aggregates, "wins") = matches_recorded_total
  /\ Total(aggregates, "losses") = matches_recorded_total
  /\ Total(aggregates, "damage_dealt")
     = Total(aggregates, "damage_taken")
  /\ \A p \in DOMAIN aggregates :
       LET a == aggregates[p] IN
       /\ a.wins + a.losses <= a.matches
       /\ a.wins <= a.kills /\ a.losses <= a.deaths
       /\ a.hits_landed <= a.shots_fired

\* A match moves rating points from its loser to its winner: nobody else's
\* rating changes, and the two gain nothing together but the point that
\* rounding adds when they were even.
RatingsConserved ==
  [][\A p, q \in PlayerId :
       LET a == ProfileOf(p)
           b == ProfileOf(q)
           match == /\ p # q
                    /\ aggregates'[p].wins = a.wins + 1
                    /\ aggregates'[q].losses = b.losses + 1
       IN  matches_recorded_total' # matches_recorded_total =>
             /\ p \in DOMAIN aggregates' /\ aggregates'[p].rating # a.rating =>
                  aggregates'[p].wins + aggregates'[p].losses
                  = a.wins + a.losses + 1
             /\ {p, q} \subseteq DOMAIN aggregates' /\ match =>
                  aggregates'[p].rating + aggregates'[q].rating
                  = a.rating + b.rating + IF a.rating = b.rating THEN 1 ELSE 0
    ]_allVars

\* "Immutable per-player record for a finished duel match"
\* (docs/mvp-specs/mvp-1.3.md:7): a profile counts a kill in one match only.
KillsCountOnce ==
  \A p \in DOMAIN aggregates : aggregates[p].kills = aggregates[p].wins
=============================================================================
