---------------------------- MODULE GameSession ----------------------------
(***************************************************************************)
(* The server-authoritative game session of cpp-pvp-server                 *)
(* (server/src/game/game_session.cpp with combat.cpp and projectile.cpp):  *)
(* who is in the session, the shots in flight, the damage they do and the  *)
(* deaths they cause.                                                      *)
(*                                                                         *)
(* Every public method of GameSession takes mutex_ for its whole body.     *)
(* The short ones are one action each.  Tick walks the projectiles while   *)
(* it holds the mutex; here the walk is one action per projectile, and     *)
(* "sweep", the ids it has still to examine, is non-empty exactly while    *)
(* mutex_ is held, so no other operation can run in between.               *)
(*                                                                         *)
(* Positions are abstracted: a projectile may reach any living player but  *)
(* its owner, or none.  Time is counted in ticks.                          *)
(***************************************************************************)
EXTENDS Integers, Sequences, FiniteSets

CONSTANTS
  PlayerId,      \* the ids a client may join with
  MaxHp,         \* HealthComponent's max_hp (100 in the code)
  Damage,        \* kDamagePerHit (20)
  FireCooldown,  \* kFireCooldown in ticks
  Lifetime,      \* Projectile::kLifetime_ in ticks
  LogCapacity,   \* capacity of the combat log (32)
  MaxSequence,   \* bound: largest input sequence number
  MaxSpawns      \* bound: projectiles spawned in one behaviour

ASSUME ConstantsAssumption ==
  /\ MaxHp \in Nat \ {0}
  /\ Damage \in Nat \ {0}
  /\ FireCooldown \in Nat
  /\ Lifetime \in Nat \ {0}
  /\ LogCapacity \in Nat
  /\ MaxSequence \in Nat
  /\ MaxSpawns \in Nat

VARIABLES
  players,        \* keys of players_
  runtime,        \* PlayerRuntimeState of each player; Fresh when absent
  projectiles,    \* active members of projectiles_, ordered by their id
  sweep,          \* ids the running Tick has still to examine
  spawned,        \* projectile_counter_ and projectiles_spawned_total_
  hits_total,     \* projectiles_hits_total_
  dead_total,     \* players_dead_total_
  pending_deaths, \* pending_deaths_
  combat_log      \* events_ of combat_log_

vars == <<players, runtime, projectiles, sweep, spawned, hits_total,
          dead_total, pending_deaths, combat_log>>

----------------------------------------------------------------------------

Runtime == [health : 0..MaxHp, is_alive : BOOLEAN, death_announced : BOOLEAN,
            last_sequence : 0..MaxSequence,
            since_fire : 0..FireCooldown,   \* ticks since last_fire_time
            shots_fired : Nat, hits_landed : Nat, deaths : Nat]

\* "sequence" is the input that fired the shot; the code does not store it,
\* it is kept to state OneShotPerInput.
Projectile == [id : Nat \ {0}, owner : PlayerId, age : Nat,
               sequence : 0..MaxSequence]

CombatEvent == [type : {"Hit", "Death"}, shooter : PlayerId,
                target : PlayerId, projectile : Nat \ {0}]

Fresh == [health |-> MaxHp, is_alive |-> TRUE, death_announced |-> FALSE,
          last_sequence |-> 0, since_fire |-> FireCooldown,
          shots_fired |-> 0, hits_landed |-> 0, deaths |-> 0]

Init ==
  /\ players = {}
  /\ runtime = [p \in PlayerId |-> Fresh]
  /\ projectiles = {}
  /\ sweep = {}
  /\ spawned = 0
  /\ hits_total = 0
  /\ dead_total = 0
  /\ pending_deaths = <<>>
  /\ combat_log = <<>>

MutexFree == sweep = {}

Healed(r) == [r EXCEPT !.health = MaxHp, !.is_alive = TRUE,
                       !.death_announced = FALSE, !.since_fire = FireCooldown]

\* A slip of UpsertPlayer: the latch of the last death is left set.
UpsertKeepingLatch(p) ==
  /\ MutexFree
  /\ players' = players \union {p}
  /\ runtime' = [runtime EXCEPT ![p].health = MaxHp, ![p].is_alive = TRUE,
                                ![p].since_fire = FireCooldown]
  /\ UNCHANGED <<projectiles, sweep, spawned, hits_total, dead_total,
                 pending_deaths, combat_log>>

\* A new player starts Fresh; one that is already in the session is healed
\* and keeps its sequence number and its counters.
UpsertPlayer(p) ==
  /\ MutexFree
  /\ players' = players \union {p}
  /\ runtime' = [runtime EXCEPT ![p] = Healed(@)]
  /\ UNCHANGED <<projectiles, sweep, spawned, hits_total, dead_total,
                 pending_deaths, combat_log>>

\* A slip of RemovePlayer: the shots stay.
RemoveLeavingShots(p) ==
  /\ MutexFree
  /\ players' = players \ {p}
  /\ runtime' = [runtime EXCEPT ![p] = Fresh]
  /\ UNCHANGED <<projectiles, sweep, spawned, hits_total, dead_total,
                 pending_deaths, combat_log>>

\* The shots of the player leave the session with it.
RemovePlayer(p) ==
  /\ MutexFree
  /\ players' = players \ {p}
  /\ runtime' = [runtime EXCEPT ![p] = Fresh]
  /\ projectiles' = {q \in projectiles : q.owner # p}
  /\ UNCHANGED <<sweep, spawned, hits_total, dead_total, pending_deaths,
                 combat_log>>

CanFire(r) == r.is_alive /\ r.since_fire >= FireCooldown

\* What an input leaves on the player, without and with a shot.
Heard(r, sequence) == [r EXCEPT !.last_sequence = sequence]

Fired(r, sequence) == [r EXCEPT !.last_sequence = sequence, !.since_fire = 0,
                                !.shots_fired = @ + 1]

\* "fire" stands for the fire button held with a usable aim direction.
\* An input of an unknown player or older than the last one is ignored.
ApplyInput(p, sequence, fire) ==
  /\ MutexFree
  /\ p \in players
  /\ sequence >= runtime[p].last_sequence
  /\ IF fire /\ CanFire(runtime[p])
     THEN /\ spawned < MaxSpawns
          /\ spawned' = spawned + 1
          /\ projectiles' = projectiles \union
               {[id |-> spawned + 1, owner |-> p, age |-> 0,
                 sequence |-> sequence]}
          /\ runtime' = [runtime EXCEPT ![p] = Fired(@, sequence)]
     ELSE /\ runtime' = [runtime EXCEPT ![p] = Heard(@, sequence)]
          /\ UNCHANGED <<spawned, projectiles>>
  /\ UNCHANGED <<players, sweep, hits_total, dead_total, pending_deaths,
                 combat_log>>

----------------------------------------------------------------------------
(* Tick: advance and expire, then examine each projectile left, in order. *)

Aged(q) == [q EXCEPT !.age = @ + 1]

Expired(q) == q.age >= Lifetime

Cooled(r) == [r EXCEPT !.since_fire = IF @ < FireCooldown THEN @ + 1 ELSE @]

TickStart ==
  /\ MutexFree
  /\ projectiles' = {q \in {Aged(s) : s \in projectiles} : ~Expired(q)}
  /\ sweep' = {q.id : q \in projectiles'}
  /\ runtime' = [p \in PlayerId |->
                   IF p \in players THEN Cooled(runtime[p]) ELSE runtime[p]]
  /\ UNCHANGED <<players, spawned, hits_total, dead_total, pending_deaths,
                 combat_log>>

\* The projectile the walk examines next.
IsNext(q) == q.id \in sweep /\ \A i \in sweep : q.id <= i

Targets(q) == {t \in players : runtime[t].is_alive /\ t # q.owner}

\* HealthComponent::ApplyDamage: the health left, and whether this blow killed.
\* Slips: no clamp at zero; a kill announced one blow early.
Unclamped(r) == r.health - Damage
HealthAfter(r) == IF r.health > Damage THEN r.health - Damage ELSE 0

KillsEarly(r) == r.health > 0 /\ r.health <= 2 * Damage
Kills(r) == r.health > 0 /\ HealthAfter(r) = 0

\* A slip: the events of one hit added in the wrong order.
LoggedBackwards(log, events) ==
  LET all  == log \o [i \in 1..Len(events) |-> events[Len(events) + 1 - i]]
      over == IF Len(all) > LogCapacity THEN Len(all) - LogCapacity ELSE 0
  IN  SubSeq(all, over + 1, Len(all))

\* CombatLog::Add, one event after the other.
Logged(log, events) ==
  LET all  == log \o events
      over == IF Len(all) > LogCapacity THEN Len(all) - LogCapacity ELSE 0
  IN  SubSeq(all, over + 1, Len(all))

Event(type, q, t) ==
  [type |-> type, shooter |-> q.owner, target |-> t, projectile |-> q.id]

\* What a blow does to the player it hits.
Wounded(r) ==
  LET dies == Kills(r) /\ ~r.death_announced
  IN  [r EXCEPT !.health = HealthAfter(r),
                !.is_alive = HealthAfter(r) > 0,
                !.death_announced = IF dies THEN TRUE ELSE @,
                !.deaths = IF dies THEN @ + 1 ELSE @]

Credited(r) == [r EXCEPT !.hits_landed = @ + 1]

\* Projectile::Deactivate and the erase that ends the Tick.
Spent(q) == projectiles \ {q}

\* The projectile at the cursor meets t and is spent.
Hit(q, t) ==
  /\ q \in projectiles /\ IsNext(q) /\ t \in Targets(q)
  /\ projectiles' = Spent(q)
  /\ sweep' = sweep \ {q.id}
  /\ hits_total' = hits_total + 1
  /\ runtime' =
       [p \in PlayerId |->
          IF p = t THEN Wounded(runtime[t])
          ELSE IF p = q.owner /\ p \in players
          THEN Credited(runtime[p])
          ELSE runtime[p]]
  /\ IF Kills(runtime[t]) /\ ~runtime[t].death_announced
     THEN /\ pending_deaths' = Append(pending_deaths, Event("Death", q, t))
          /\ combat_log' = Logged(combat_log, <<Event("Hit", q, t),
                                                Event("Death", q, t)>>)
          /\ dead_total' = dead_total + 1
     ELSE /\ combat_log' = Logged(combat_log, <<Event("Hit", q, t)>>)
          /\ UNCHANGED <<pending_deaths, dead_total>>
  /\ UNCHANGED <<players, spawned>>

\* The projectile at the cursor meets nobody and flies on.
Miss(q) ==
  /\ q \in projectiles /\ IsNext(q)
  /\ sweep' = sweep \ {q.id}
  /\ UNCHANGED <<players, runtime, projectiles, spawned, hits_total,
                 dead_total, pending_deaths, combat_log>>

TickStep == \E q \in projectiles : Miss(q) \/ \E t \in PlayerId : Hit(q, t)

\* Hands the deaths of the last ticks to the caller.
ConsumeDeathEvents ==
  /\ MutexFree
  /\ pending_deaths' = <<>>
  /\ UNCHANGED <<players, runtime, projectiles, sweep, spawned, hits_total,
                 dead_total, combat_log>>

Next ==
  \/ \E p \in PlayerId : UpsertPlayer(p)
  \/ \E p \in PlayerId : RemovePlayer(p)
  \/ \E p \in PlayerId, s \in 0..MaxSequence, fire \in BOOLEAN :
       ApplyInput(p, s, fire)
  \/ TickStart
  \/ TickStep
  \/ ConsumeDeathEvents

Spec == Init /\ [][Next]_vars

----------------------------------------------------------------------------
(* Properties. *)

\* The types; in particular health stays between 0 and max_hp.
TypeOK ==
  /\ players \subseteq PlayerId
  /\ runtime \in [PlayerId -> Runtime]
  /\ projectiles \subseteq Projectile
  /\ sweep \subseteq Nat
  /\ spawned \in 0..MaxSpawns
  /\ hits_total \in Nat
  /\ dead_total \in Nat
  /\ pending_deaths \in Seq(CombatEvent)
  /\ combat_log \in Seq(CombatEvent)

\* The three views of a player's life never disagree: state.is_alive (sent to
\* the clients), health.current() and death_announced (the once-only latch),
\* through hits, heals, leaves and re-joins.  It is what lets several lethal
\* shots of one Tick announce one death.
LifeConsistent ==
  \A p \in PlayerId :
    /\ runtime[p].is_alive <=> runtime[p].health > 0
    /\ runtime[p].death_announced <=> ~runtime[p].is_alive

\* A projectile never outlives its owner's membership: RemovePlayer takes the
\* shots with the player, so a hit always finds the shooter it credits and a
\* player that comes back finds none of the shots of its earlier stay.
OwnersPresent == \A q \in projectiles : q.owner \in players

InFlight(p) == {q \in projectiles : q.owner = p}

\* A player is never credited with more hits than shots, not even counting
\* the shots still in flight: MatchStats divides the two into an accuracy.
\* Leaving resets the counters, so this depends on what leaves with them.
AccuracyBounded ==
  \A p \in PlayerId :
    runtime[p].hits_landed + Cardinality(InFlight(p)) <= runtime[p].shots_fired

\* The Prometheus counters agree: every hit was spawned, and is no longer
\* active when projectiles_active is read.
MetricsConsistent == hits_total + Cardinality(projectiles) <= spawned

\* The session's books balance in every state outside the sweep and in it:
\* lives, owners, credits and gauges, through hits, heals, leaves with shots in
\* flight and re-joins.
SessionConsistent ==
  LifeConsistent /\ OwnersPresent /\ AccuracyBounded /\ MetricsConsistent

HitsToKill == (MaxHp + Damage - 1) \div Damage

\* No death is cheap: players_dead_total deaths cost at least the hits that
\* take a full health bar each, whatever heals, leaves and re-joins happen.
DeathsArePaidFor == dead_total * HitsToKill <= hits_total

\* In the log a Death is preceded by the Hit that caused it, unless the log
\* has already dropped that one, and a projectile hits once.  MatchStats reads
\* the log in this order.
LogInOrder ==
  LET log == combat_log IN
  /\ \A i \in 2..Len(log) : log[i].type = "Death" =>
       log[i - 1] = [log[i] EXCEPT !.type = "Hit"]
  /\ \A i, j \in 1..Len(log) :
       /\ log[i].type = "Hit" /\ log[j].type = "Hit"
       /\ log[i].projectile = log[j].projectile
       => i = j

\* Exactly the players that die in a step are counted, and their deaths queued
\* for the clients, once each.
DeathAnnouncedOnce ==
  [][LET died == {p \in players \intersect players' :
                    runtime[p].is_alive /\ ~runtime'[p].is_alive}
     IN  /\ dead_total' = dead_total + Cardinality(died)
         /\ Len(pending_deaths') > Len(pending_deaths) <=> died # {}
         /\ \A p \in died : pending_deaths'[Len(pending_deaths')].target = p
    ]_vars

\* "sequence numbers prevent duplicates and reordering"
\* (game_session.cpp:83): no two shots in flight come from one input of one
\* player.  The code only drops strictly older inputs.
OneShotPerInput ==
  \A q, r \in projectiles :
    q.owner = r.owner /\ q.sequence = r.sequence => q = r
=============================================================================
