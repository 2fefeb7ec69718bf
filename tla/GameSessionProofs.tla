------------------------- MODULE GameSessionProofs -------------------------
(***************************************************************************)
(* TLAPS proofs about GameSession and about MatchStatistics, which extends *)
(* it, for any set of players and any values of the other constants.       *)
(***************************************************************************)
EXTENDS MatchStatistics, InductionLemmas

\* Aged and Cooled keep the types of what they change.
LEMMA AgedType ==
  ASSUME NEW q \in Projectile
  PROVE  /\ Aged(q) \in Projectile
         /\ Aged(q).id = q.id /\ Aged(q).owner = q.owner
  BY DEF Aged, Projectile

\* A tick of the cooldown touches nothing but the cooldown.
LEMMA CooledType ==
  ASSUME NEW r \in Runtime
  PROVE  /\ Cooled(r) \in Runtime
         /\ Cooled(r) = [r EXCEPT !.since_fire = Cooled(r).since_fire]
  BY ConstantsAssumption DEF Cooled, Runtime

\* A heal leaves a well-typed player.
LEMMA HealedType ==
  ASSUME NEW r \in Runtime
  PROVE  Healed(r) \in Runtime
  <1>1. MaxHp \in 0..MaxHp /\ FireCooldown \in 0..FireCooldown
    BY ConstantsAssumption
  <1> QED  BY <1>1, Zenon DEF Healed, Runtime

\* An input, and a hit scored, leave a well-typed player; only a shot counts
\* as fired, only a hit as landed.
LEMMA InputTypes ==
  ASSUME NEW r \in Runtime, NEW s \in 0..MaxSequence
  PROVE  Heard(r, s) \in Runtime /\ Fired(r, s) \in Runtime
  <1>1. 0 \in 0..FireCooldown /\ r.shots_fired + 1 \in Nat
    BY ConstantsAssumption DEF Runtime
  <1> QED  BY <1>1, Zenon DEF Heard, Fired, Runtime

\* So does the credit of a hit.
LEMMA CreditedType ==
  ASSUME NEW r \in Runtime
  PROVE  Credited(r) \in Runtime
  <1>1. r.hits_landed + 1 \in Nat
    BY DEF Runtime
  <1> QED  BY <1>1, Zenon DEF Credited, Runtime

\* A player starts with a full health bar, alive, nothing fired.
LEMMA FreshType == Fresh \in Runtime
  BY ConstantsAssumption DEF Fresh, Runtime

\* ApplyDamage keeps the health between 0 and MaxHp, and a wounded player is a
\* Runtime whose counters of shots and hits are those it had.
LEMMA WoundedType ==
  ASSUME NEW r \in Runtime
  PROVE  /\ Wounded(r) \in Runtime
         /\ Wounded(r).shots_fired = r.shots_fired
         /\ Wounded(r).hits_landed = r.hits_landed
  <1>1. HealthAfter(r) \in 0..MaxHp
    BY ConstantsAssumption DEF HealthAfter, Runtime
  <1> DEFINE dies == Kills(r) /\ ~r.death_announced
  <1>2. dies \in BOOLEAN /\ (HealthAfter(r) > 0) \in BOOLEAN
    BY DEF Kills
  <1>3. Wounded(r) = [r EXCEPT
          !.health = HealthAfter(r), !.is_alive = HealthAfter(r) > 0,
          !.death_announced = IF dies THEN TRUE ELSE r.death_announced,
          !.deaths = IF dies THEN r.deaths + 1 ELSE r.deaths]
    BY DEF Wounded
  <1>4. r.deaths + 1 \in Nat
    BY DEF Runtime
  <1> HIDE DEF dies
  <1> QED  BY <1>1, <1>2, <1>3, <1>4, Zenon DEF Runtime

\* The combat log stays a sequence of events when events are added to it.
LEMMA LoggedType ==
  ASSUME NEW log \in Seq(CombatEvent), NEW events \in Seq(CombatEvent)
  PROVE  Logged(log, events) \in Seq(CombatEvent)
  <1> DEFINE all  == log \o events
             over == IF Len(all) > LogCapacity THEN Len(all) - LogCapacity
                     ELSE 0
  <1>1. all \in Seq(CombatEvent) /\ Len(all) \in Nat
    BY ConcatProperties, LenProperties
  <1>2. over \in Nat
    BY <1>1, ConstantsAssumption
  <1> HIDE DEF all, over
  <1>3. \A i \in over + 1 .. Len(all) : all[i] \in CombatEvent
    <2> TAKE i \in over + 1 .. Len(all)
    <2>1. i \in 1..Len(all)
      BY <1>1, <1>2
    <2> QED  BY <1>1, <2>1, ElementOfSeq
  <1>4. SubSeq(all, over + 1, Len(all)) \in Seq(CombatEvent)
    BY <1>1, <1>2, <1>3, SubSeqProperties
  <1> QED  BY <1>4 DEF Logged, all, over

----------------------------------------------------------------------------
\* Every step keeps the types.
LEMMA TypeNext ==
  ASSUME TypeOK, [Next]_vars
  PROVE  TypeOK'
  <1> USE DEF TypeOK
  <1>1. ASSUME NEW p \in PlayerId, UpsertPlayer(p)
        PROVE  TypeOK'
    <2>1. runtime' \in [PlayerId -> Runtime]
      BY <1>1, HealedType DEF UpsertPlayer
    <2> QED  BY <1>1, <2>1 DEF UpsertPlayer
  <1>2. ASSUME NEW p \in PlayerId, RemovePlayer(p)
        PROVE  TypeOK'
    BY <1>2, FreshType DEF RemovePlayer
  <1>3. ASSUME NEW p \in PlayerId, NEW s \in 0..MaxSequence,
               NEW fire \in BOOLEAN, ApplyInput(p, s, fire)
        PROVE  TypeOK'
    <2>1. runtime' \in [PlayerId -> Runtime]
      BY <1>3, InputTypes DEF ApplyInput
    <2>2. spawned' \in 0..MaxSpawns /\ spawned + 1 \in Nat \ {0}
      BY <1>3, ConstantsAssumption DEF ApplyInput
    <2>3. [id |-> spawned + 1, owner |-> p, age |-> 0, sequence |-> s]
            \in Projectile
      BY <2>2 DEF Projectile
    <2> QED  BY <1>3, <2>1, <2>2, <2>3 DEF ApplyInput
  <1>4. CASE TickStart
    <2>1. projectiles' \subseteq Projectile
      BY <1>4, AgedType DEF TickStart
    <2>2. sweep' \subseteq Nat
      BY <1>4, <2>1 DEF TickStart, Projectile
    <2>3. runtime' \in [PlayerId -> Runtime]
      BY <1>4, CooledType DEF TickStart
    <2> QED  BY <1>4, <2>1, <2>2, <2>3 DEF TickStart
  <1>5. ASSUME NEW q \in projectiles, Miss(q)
        PROVE  TypeOK'
    BY <1>5 DEF Miss
  <1>6. ASSUME NEW q \in projectiles, NEW t \in PlayerId, Hit(q, t)
        PROVE  TypeOK'
    <2>1. runtime' \in [PlayerId -> Runtime]
      BY <1>6, WoundedType, CreditedType DEF Hit
    <2>2. /\ Event("Hit", q, t) \in CombatEvent
          /\ Event("Death", q, t) \in CombatEvent
      BY DEF Event, CombatEvent, Projectile
    <2>3. combat_log' \in Seq(CombatEvent)
      <3>1. \A e, d \in CombatEvent : /\ <<e>> \in Seq(CombatEvent)
                                     /\ <<e, d>> \in Seq(CombatEvent)
        OBVIOUS
      <3> QED  BY <1>6, <2>2, <3>1, LoggedType DEF Hit
    <2>4. pending_deaths' \in Seq(CombatEvent)
      <3>1. Append(pending_deaths, Event("Death", q, t)) \in Seq(CombatEvent)
        BY <2>2, AppendProperties
      <3>2. \/ pending_deaths' = pending_deaths
            \/ pending_deaths' = Append(pending_deaths, Event("Death", q, t))
        BY <1>6 DEF Hit
      <3> QED  BY <3>1, <3>2
    <2>5. dead_total' \in Nat /\ hits_total' \in Nat
      <3>1. dead_total' = dead_total \/ dead_total' = dead_total + 1
        BY <1>6 DEF Hit
      <3>2. hits_total' = hits_total + 1
        BY <1>6 DEF Hit
      <3>3. hits_total' \in Nat
        BY <3>2
      <3> QED  BY <3>1, <3>3
    <2>6. sweep' \subseteq Nat
      <3>1. sweep' = sweep \ {q.id}
        BY <1>6 DEF Hit
      <3> QED  BY <3>1
    <2>7. projectiles' \subseteq Projectile
      BY <1>6 DEF Hit, Spent
    <2>8. players' = players /\ spawned' = spawned
      BY <1>6 DEF Hit
    <2> QED  BY <2>1, <2>3, <2>4, <2>5, <2>6, <2>7, <2>8
  <1>7. CASE ConsumeDeathEvents
    BY <1>7 DEF ConsumeDeathEvents
  <1>8. CASE UNCHANGED vars
    BY <1>8 DEF vars
  <1> QED  BY <1>1, <1>2, <1>3, <1>4, <1>5, <1>6, <1>7, <1>8
           DEF Next, TickStep

\* Type correctness of the session.
THEOREM TypeCorrect == Spec => []TypeOK
<1>1. Init => TypeOK
  BY ConstantsAssumption, FreshType DEF Init, TypeOK
<1>2. TypeOK /\ [Next]_vars => TypeOK'
  BY TypeNext
<1> QED  BY <1>1, <1>2, PTL DEF Spec

----------------------------------------------------------------------------
(***************************************************************************)
(* The life of a player and the accounting of shots.  AccuracyBounded and  *)
(* MetricsConsistent count sets, so they need the shots to be finitely     *)
(* many; AccuracyBounded needs OwnersPresent (a hit whose shooter is gone  *)
(* is credited to nobody), that an absent player is Fresh, and that every  *)
(* id was handed out (a shot fired is then a new element of the set).      *)
(***************************************************************************)

SessionInv ==
  /\ TypeOK
  /\ IsFiniteSet(projectiles)
  /\ LifeConsistent
  /\ OwnersPresent
  /\ \A q \in projectiles : q.id <= spawned
  /\ \A p \in PlayerId \ players : runtime[p] = Fresh
  /\ AccuracyBounded
  /\ MetricsConsistent

\* A blow moves health, is_alive and the latch together.
LEMMA WoundedLife ==
  ASSUME NEW r \in Runtime,
         r.is_alive <=> r.health > 0,
         r.death_announced <=> ~r.is_alive
  PROVE  LET w == Wounded(r) IN
           /\ w.is_alive <=> w.health > 0
           /\ w.death_announced <=> ~w.is_alive
  BY ConstantsAssumption
     DEF Wounded, Kills, HealthAfter, Runtime

\* A healed player is alive, at full health and not announced dead.
LEMMA HealedLife ==
  ASSUME NEW r \in Runtime
  PROVE  /\ Healed(r).health = MaxHp
         /\ Healed(r).is_alive = TRUE
         /\ Healed(r).death_announced = FALSE
  BY DEF Healed, Runtime

\* Nothing but a blow and a heal changes the life of a player.
LEMMA SameLife ==
  ASSUME NEW r \in Runtime, NEW s
  PROVE  \A w \in {Heard(r, s), Fired(r, s), Cooled(r), Credited(r)} :
           /\ w.health = r.health
           /\ w.is_alive = r.is_alive
           /\ w.death_announced = r.death_announced
  BY DEF Heard, Fired, Cooled, Credited, Runtime

\* Ageing and expiry leave at most as many shots, of anybody.
LEMMA FewerAged ==
  ASSUME NEW S \in SUBSET Projectile, IsFiniteSet(S)
  PROVE  LET T == {q \in {Aged(s) : s \in S} : ~Expired(q)}
         IN  IsFiniteSet(T) /\ Cardinality(T) <= Cardinality(S)
  <1> DEFINE kept == {s \in S : ~Expired(Aged(s))}
             T == {q \in {Aged(s) : s \in S} : ~Expired(q)}
             f == [s \in kept |-> Aged(s)]
  <1>1. IsFiniteSet(kept) /\ Cardinality(kept) <= Cardinality(S)
    BY FS_Subset
  <1>2. f \in Surjection(kept, T)
    BY DEF Surjection
  <1>3. IsFiniteSet(T) /\ Cardinality(T) <= Cardinality(kept)
    BY <1>1, <1>2, FS_Surjection
  <1>4. /\ Cardinality(T) \in Nat
        /\ Cardinality(kept) \in Nat
        /\ Cardinality(S) \in Nat
    BY <1>1, <1>3, FS_CardinalityType
  <1> QED  BY <1>1, <1>3, <1>4

\* The empty session satisfies the invariant.
LEMMA SessionInvInit == Init => SessionInv
  <1> SUFFICES ASSUME Init PROVE SessionInv
    OBVIOUS
  <1>1. TypeOK
    BY ConstantsAssumption, FreshType DEF Init, TypeOK
  <1>2. IsFiniteSet(projectiles) /\ MetricsConsistent
    BY FS_EmptySet DEF Init, MetricsConsistent
  <1>3. LifeConsistent
    BY ConstantsAssumption DEF Init, LifeConsistent, Fresh
  <1>4. AccuracyBounded
    <2>1. \A p \in PlayerId : InFlight(p) = {} /\ runtime[p] = Fresh
      BY DEF Init, InFlight
    <2> QED  BY <2>1, FS_EmptySet DEF AccuracyBounded, Fresh
  <1> QED  BY <1>1, <1>2, <1>3, <1>4 DEF SessionInv, Init, OwnersPresent

\* Each step keeps the lives of the players consistent.
LEMMA LifeConsistentNext ==
  ASSUME TypeOK, LifeConsistent, [Next]_vars
  PROVE  LifeConsistent'
  <1> USE DEF TypeOK
  <1> DEFINE Life(r) == /\ r.is_alive <=> r.health > 0
                        /\ r.death_announced <=> ~r.is_alive
  <1>0. SUFFICES ASSUME NEW p \in PlayerId
                 PROVE  Life(runtime'[p])
    BY DEF LifeConsistent
  <1>1. runtime[p] \in Runtime /\ Life(runtime[p])
    BY DEF LifeConsistent
  <1>2. Life(Fresh)
    BY ConstantsAssumption DEF Fresh
  <1>3. ASSUME NEW r \in Runtime PROVE Life(Healed(r))
    <2>1. MaxHp > 0
      BY ConstantsAssumption
    <2> QED  BY <1>3, <2>1, HealedLife
  <1>4. ASSUME NEW r \in Runtime, Life(r), NEW s,
               NEW w \in {Heard(r, s), Fired(r, s), Cooled(r), Credited(r)}
        PROVE  Life(w)
    BY <1>4, SameLife
  <1>5. ASSUME NEW x \in PlayerId, UpsertPlayer(x) PROVE Life(runtime'[p])
    BY <1>1, <1>3, <1>5 DEF UpsertPlayer
  <1>6. ASSUME NEW x \in PlayerId, RemovePlayer(x) PROVE Life(runtime'[p])
    BY <1>1, <1>2, <1>6 DEF RemovePlayer
  <1>7. ASSUME NEW x \in PlayerId, NEW s \in 0..MaxSequence,
               NEW fire \in BOOLEAN, ApplyInput(x, s, fire)
        PROVE  Life(runtime'[p])
    <2>1. \/ runtime'[p] = runtime[p]
          \/ runtime'[p] \in {Heard(runtime[p], s), Fired(runtime[p], s)}
      BY <1>7 DEF ApplyInput
    <2> QED  BY <1>1, <1>4, <2>1
  <1>8. CASE TickStart
    <2>1. runtime'[p] \in {runtime[p], Cooled(runtime[p])}
      BY <1>8 DEF TickStart
    <2> QED  BY <1>1, <1>4, <2>1
  <1>9. ASSUME NEW q \in projectiles, Miss(q) PROVE Life(runtime'[p])
    BY <1>1, <1>9 DEF Miss
  <1>10. ASSUME NEW q \in projectiles, NEW t \in PlayerId, Hit(q, t)
         PROVE  Life(runtime'[p])
    <2>1. runtime'[p] \in {Wounded(runtime[p]), Credited(runtime[p]), runtime[p]}
      BY <1>10 DEF Hit
    <2>2. Life(Wounded(runtime[p]))
      BY <1>1, WoundedLife
    <2> QED  BY <1>1, <1>4, <2>1, <2>2
  <1>11. CASE ConsumeDeathEvents
    BY <1>1, <1>11 DEF ConsumeDeathEvents
  <1>12. CASE UNCHANGED vars
    BY <1>1, <1>12 DEF vars
  <1> QED  BY <1>5, <1>6, <1>7, <1>8, <1>9, <1>10, <1>11, <1>12
           DEF Next, TickStep


\* The shots of one player are finitely many.
LEMMA InFlightFinite ==
  ASSUME IsFiniteSet(projectiles), NEW p
  PROVE  IsFiniteSet(InFlight(p)) /\ Cardinality(InFlight(p)) \in Nat
  <1>1. InFlight(p) \subseteq projectiles
    BY DEF InFlight
  <1> QED  BY <1>1, FS_Subset, FS_CardinalityType

\* Each step keeps the accounting of shots.
LEMMA AccountingNext ==
  ASSUME SessionInv, [Next]_vars
  PROVE  /\ IsFiniteSet(projectiles)'
         /\ OwnersPresent'
         /\ (\A q \in projectiles : q.id <= spawned)'
         /\ (\A p \in PlayerId \ players : runtime[p] = Fresh)'
         /\ AccuracyBounded'
         /\ MetricsConsistent'
  <1> DEFINE Goal == /\ IsFiniteSet(projectiles)'
                     /\ OwnersPresent'
                     /\ (\A q \in projectiles : q.id <= spawned)'
                     /\ (\A p \in PlayerId \ players : runtime[p] = Fresh)'
                     /\ AccuracyBounded'
                     /\ MetricsConsistent'
  <1> USE DEF SessionInv, TypeOK
  <1>0. \A p \in PlayerId : /\ IsFiniteSet(InFlight(p))
                           /\ Cardinality(InFlight(p)) \in Nat
                           /\ runtime[p] \in Runtime
                           /\ runtime[p].shots_fired \in Nat
                           /\ runtime[p].hits_landed \in Nat
    BY InFlightFinite DEF Runtime
  <1>00. Cardinality(projectiles) \in Nat /\ spawned \in Nat
    BY FS_CardinalityType
  <1>1. ASSUME NEW x \in PlayerId, UpsertPlayer(x) PROVE Goal
    <2>1. \A p \in PlayerId : /\ runtime'[p].shots_fired = runtime[p].shots_fired
                             /\ runtime'[p].hits_landed = runtime[p].hits_landed
      BY <1>1, <1>0 DEF UpsertPlayer, Healed, Runtime
    <2>2. \A p \in PlayerId \ players' : runtime'[p] = Fresh
      BY <1>1 DEF UpsertPlayer
    <2> QED  BY <1>1, <2>1, <2>2
             DEF UpsertPlayer, OwnersPresent, AccuracyBounded, InFlight,
                 MetricsConsistent
  <1>2. ASSUME NEW x \in PlayerId, RemovePlayer(x) PROVE Goal
    <2>1. projectiles' \subseteq projectiles
      BY <1>2 DEF RemovePlayer
    <2>2. /\ IsFiniteSet(projectiles')
          /\ Cardinality(projectiles') \in Nat
          /\ Cardinality(projectiles') <= Cardinality(projectiles)
      BY <2>1, FS_Subset, FS_CardinalityType
    <2>3. OwnersPresent'
      BY <1>2 DEF RemovePlayer, OwnersPresent
    <2>4. AccuracyBounded'
      <3> SUFFICES ASSUME NEW p \in PlayerId
                   PROVE  runtime'[p].hits_landed + Cardinality(InFlight(p)')
                            <= runtime'[p].shots_fired
        BY DEF AccuracyBounded
      <3>1. CASE p = x
        <4>1. InFlight(p)' = {}
          BY <1>2, <3>1 DEF RemovePlayer, InFlight
        <4> QED  BY <1>2, <3>1, <4>1, FS_EmptySet DEF RemovePlayer, Fresh
      <3>2. CASE p # x
        <4>1. InFlight(p)' = InFlight(p) /\ runtime'[p] = runtime[p]
          BY <1>2, <3>2 DEF RemovePlayer, InFlight
        <4> QED  BY <4>1 DEF AccuracyBounded
      <3> QED  BY <3>1, <3>2
    <2>5. MetricsConsistent'
      BY <1>2, <2>2, <1>00 DEF RemovePlayer, MetricsConsistent
    <2> QED  BY <1>2, <2>1, <2>2, <2>3, <2>4, <2>5 DEF RemovePlayer
  <1>3. ASSUME NEW x \in PlayerId, NEW s \in 0..MaxSequence,
               NEW fire \in BOOLEAN, ApplyInput(x, s, fire)
        PROVE  Goal
    <2>1. CASE fire /\ CanFire(runtime[x])
      <3> DEFINE shot == [id |-> spawned + 1, owner |-> x, age |-> 0,
                          sequence |-> s]
      <3>1. /\ projectiles' = projectiles \union {shot}
            /\ runtime' = [runtime EXCEPT ![x] = Fired(@, s)]
            /\ spawned' = spawned + 1
            /\ x \in players /\ players' = players
            /\ hits_total' = hits_total
        BY <1>3, <2>1 DEF ApplyInput
      <3>2. shot \notin projectiles /\ shot.id = spawned + 1 /\ shot.owner = x
        BY <1>00
      <3> HIDE DEF shot
      <3>3. /\ IsFiniteSet(projectiles')
            /\ Cardinality(projectiles') = Cardinality(projectiles) + 1
        BY <3>1, <3>2, FS_AddElement
      <3>4. AccuracyBounded'
        <4> SUFFICES ASSUME NEW p \in PlayerId
                     PROVE  runtime'[p].hits_landed + Cardinality(InFlight(p)')
                              <= runtime'[p].shots_fired
          BY DEF AccuracyBounded
        <4>1. CASE p = x
          <5>1. InFlight(p)' = InFlight(p) \union {shot}
            BY <3>1, <3>2, <4>1 DEF InFlight
          <5>2. shot \notin InFlight(p)
            BY <3>2 DEF InFlight
          <5>3. Cardinality(InFlight(p)') = Cardinality(InFlight(p)) + 1
            BY <5>1, <5>2, <1>0, FS_AddElement
          <5>4. /\ runtime'[p].shots_fired = runtime[p].shots_fired + 1
                /\ runtime'[p].hits_landed = runtime[p].hits_landed
            BY <3>1, <4>1, <1>0 DEF Fired, Runtime
          <5> QED  BY <5>3, <5>4, <1>0 DEF AccuracyBounded
        <4>2. CASE p # x
          <5>1. InFlight(p)' = InFlight(p) /\ runtime'[p] = runtime[p]
            BY <3>1, <3>2, <4>2 DEF InFlight
          <5> QED  BY <5>1 DEF AccuracyBounded
        <4> QED  BY <4>1, <4>2
      <3>5. MetricsConsistent'
        BY <3>1, <3>3, <1>00 DEF MetricsConsistent
      <3>6. \A q \in projectiles' : q.id <= spawned'
        BY <3>1, <3>2, <1>00 DEF Projectile
      <3>7. OwnersPresent'
        BY <3>1, <3>2 DEF OwnersPresent
      <3>8. \A p \in PlayerId \ players' : runtime'[p] = Fresh
        BY <3>1
      <3> QED  BY <3>3, <3>4, <3>5, <3>6, <3>7, <3>8
    <2>2. CASE ~(fire /\ CanFire(runtime[x]))
      <3>1. /\ runtime' = [runtime EXCEPT ![x] = Heard(@, s)]
            /\ x \in players
            /\ UNCHANGED <<players, spawned, projectiles, hits_total>>
        BY <1>3, <2>2 DEF ApplyInput
      <3>2. \A p \in PlayerId :
              /\ runtime'[p].shots_fired = runtime[p].shots_fired
              /\ runtime'[p].hits_landed = runtime[p].hits_landed
        BY <3>1, <1>0 DEF Heard, Runtime
      <3>3. \A p \in PlayerId \ players' : runtime'[p] = Fresh
        BY <3>1
      <3> QED  BY <3>1, <3>2, <3>3
               DEF OwnersPresent, AccuracyBounded, InFlight, MetricsConsistent
    <2> QED  BY <2>1, <2>2
  <1>4. CASE TickStart
    <2>1. /\ IsFiniteSet(projectiles')
          /\ Cardinality(projectiles') <= Cardinality(projectiles)
      BY <1>4, FewerAged DEF TickStart
    <2>2. Cardinality(projectiles') \in Nat
      BY <2>1, FS_CardinalityType
    <2>3. \A p \in PlayerId :
            /\ runtime'[p].shots_fired = runtime[p].shots_fired
            /\ runtime'[p].hits_landed = runtime[p].hits_landed
      BY <1>4, <1>0 DEF TickStart, Cooled, Runtime
    <2>4. \A q \in projectiles' :
            \E s \in projectiles : q = Aged(s) /\ q.id = s.id /\ q.owner = s.owner
      BY <1>4, AgedType DEF TickStart
    <2>5. AccuracyBounded'
      <3> SUFFICES ASSUME NEW p \in PlayerId
                   PROVE  runtime'[p].hits_landed + Cardinality(InFlight(p)')
                            <= runtime'[p].shots_fired
        BY DEF AccuracyBounded
      <3> DEFINE T == {q \in {Aged(s) : s \in InFlight(p)} : ~Expired(q)}
      <3>1. InFlight(p)' \subseteq T
        BY <1>4, AgedType DEF TickStart, InFlight
      <3>2. InFlight(p) \subseteq Projectile
        BY DEF InFlight
      <3>3. IsFiniteSet(T) /\ Cardinality(T) <= Cardinality(InFlight(p))
        BY <3>2, <1>0, FewerAged
      <3>4. /\ Cardinality(InFlight(p)') <= Cardinality(T)
            /\ Cardinality(InFlight(p)') \in Nat
            /\ Cardinality(T) \in Nat
        BY <3>1, <3>3, FS_Subset, FS_CardinalityType
      <3> QED  BY <2>3, <3>3, <3>4, <1>0 DEF AccuracyBounded
    <2>6. MetricsConsistent'
      BY <1>4, <2>1, <2>2, <1>00 DEF TickStart, MetricsConsistent
    <2>7. OwnersPresent'
      BY <1>4, <2>4 DEF TickStart, OwnersPresent
    <2>8. \A q \in projectiles' : q.id <= spawned'
      BY <1>4, <2>4 DEF TickStart
    <2>9. \A p \in PlayerId \ players' : runtime'[p] = Fresh
      BY <1>4 DEF TickStart
    <2> QED  BY <2>1, <2>5, <2>6, <2>7, <2>8, <2>9
  <1>5. ASSUME NEW q \in projectiles, Miss(q) PROVE Goal
    BY <1>5 DEF Miss, OwnersPresent, AccuracyBounded, InFlight,
                MetricsConsistent
  <1>6. ASSUME NEW q \in projectiles, NEW t \in PlayerId, Hit(q, t)
        PROVE  Goal
    <2>1. /\ projectiles' = projectiles \ {q}
          /\ players' = players /\ spawned' = spawned
          /\ hits_total' = hits_total + 1
          /\ t \in players /\ t # q.owner
      BY <1>6 DEF Hit, Spent, Targets
    <2>2. /\ IsFiniteSet(projectiles')
          /\ Cardinality(projectiles') = Cardinality(projectiles) - 1
      BY <2>1, FS_RemoveElement
    <2>3. MetricsConsistent'
      BY <2>1, <2>2, <1>00 DEF MetricsConsistent
    <2>4. AccuracyBounded'
      <3> SUFFICES ASSUME NEW p \in PlayerId
                   PROVE  runtime'[p].hits_landed + Cardinality(InFlight(p)')
                            <= runtime'[p].shots_fired
        BY DEF AccuracyBounded
      <3>1. CASE p = q.owner
        <4>1. InFlight(p)' = InFlight(p) \ {q} /\ q \in InFlight(p)
          BY <2>1, <3>1 DEF InFlight
        <4>2. Cardinality(InFlight(p)') = Cardinality(InFlight(p)) - 1
          BY <4>1, <1>0, FS_RemoveElement
        <4>3. runtime'[p] = Credited(runtime[p])
          BY <1>6, <2>1, <3>1 DEF Hit, OwnersPresent
        <4>4. /\ runtime'[p].hits_landed = runtime[p].hits_landed + 1
              /\ runtime'[p].shots_fired = runtime[p].shots_fired
          BY <4>3, <1>0 DEF Credited, Runtime
        <4> QED  BY <4>2, <4>4, <1>0 DEF AccuracyBounded
      <3>2. CASE p # q.owner
        <4>1. InFlight(p)' = InFlight(p)
          BY <2>1, <3>2 DEF InFlight
        <4>2. runtime'[p] \in {runtime[p], Wounded(runtime[p])}
          BY <1>6, <3>2 DEF Hit
        <4>3. /\ runtime'[p].hits_landed = runtime[p].hits_landed
              /\ runtime'[p].shots_fired = runtime[p].shots_fired
          BY <4>2, <1>0, WoundedType
        <4> QED  BY <4>1, <4>3 DEF AccuracyBounded
      <3> QED  BY <3>1, <3>2
    <2>5. \A p \in PlayerId \ players' : runtime'[p] = Fresh
      BY <1>6, <2>1 DEF Hit
    <2>6. OwnersPresent' /\ \A r \in projectiles' : r.id <= spawned'
      BY <2>1 DEF OwnersPresent
    <2> QED  BY <2>2, <2>3, <2>4, <2>5, <2>6
  <1>7. CASE ConsumeDeathEvents
    BY <1>7 DEF ConsumeDeathEvents, OwnersPresent, AccuracyBounded, InFlight,
                MetricsConsistent
  <1>8. CASE UNCHANGED vars
    BY <1>8 DEF vars, OwnersPresent, AccuracyBounded, InFlight,
                MetricsConsistent
  <1> QED  BY <1>1, <1>2, <1>3, <1>4, <1>5, <1>6, <1>7, <1>8
           DEF Next, TickStep

\* Every step keeps the books.
LEMMA SessionInvNext ==
  ASSUME SessionInv, [Next]_vars
  PROVE  SessionInv'
<1>1. TypeOK'
  BY TypeNext DEF SessionInv
<1>2. LifeConsistent'
  BY LifeConsistentNext DEF SessionInv
<1> QED  BY <1>1, <1>2, AccountingNext DEF SessionInv

\* The inductive invariant of the session.
LEMMA SessionInvariant == Spec => []SessionInv
<1> QED  BY SessionInvInit, SessionInvNext, PTL DEF Spec

\* A player's is_alive, health and death latch always agree.
THEOREM LifeIsConsistent == Spec => []LifeConsistent
<1>1. SessionInv => LifeConsistent
  BY DEF SessionInv
<1> QED  BY <1>1, SessionInvariant, PTL

\* Every shot in flight has its owner in the session.
THEOREM OwnersArePresent == Spec => []OwnersPresent
<1>1. SessionInv => OwnersPresent
  BY DEF SessionInv
<1> QED  BY <1>1, SessionInvariant, PTL

\* No player is credited with more hits than shots.
THEOREM AccuracyIsBounded == Spec => []AccuracyBounded
<1>1. SessionInv => AccuracyBounded
  BY DEF SessionInv
<1> QED  BY <1>1, SessionInvariant, PTL

\* All four together: the session's books balance.
THEOREM SessionIsConsistent == Spec => []SessionConsistent
<1>1. SessionInv => SessionConsistent
  BY DEF SessionInv, SessionConsistent
<1> QED  BY <1>1, SessionInvariant, PTL

\* The counters of spawned, active and hitting projectiles agree.
THEOREM MetricsAreConsistent == Spec => []MetricsConsistent
<1>1. SessionInv => MetricsConsistent
  BY DEF SessionInv
<1> QED  BY <1>1, SessionInvariant, PTL

\* Exactly the players that die in a step are counted and announced, once.
THEOREM DeathsAreAnnouncedOnce == Spec => DeathAnnouncedOnce
<1> DEFINE died == {p \in players \intersect players' :
                      runtime[p].is_alive /\ ~runtime'[p].is_alive}
           Announced ==
             /\ dead_total' = dead_total + Cardinality(died)
             /\ Len(pending_deaths') > Len(pending_deaths) <=> died # {}
             /\ \A p \in died : pending_deaths'[Len(pending_deaths')].target = p
<1>1. ASSUME TypeOK, LifeConsistent, [Next]_vars
      PROVE  Announced \/ UNCHANGED vars
  <2> USE <1>1 DEF TypeOK
  <2>1. ASSUME dead_total' = dead_total, ~(Len(pending_deaths') > Len(pending_deaths)),
               \A p \in players \intersect players' :
                 runtime[p].is_alive => runtime'[p].is_alive
        PROVE  Announced
    <3>1. died = {}
      BY <2>1
    <3> HIDE DEF died
    <3> QED  BY <2>1, <3>1, FS_EmptySet
  <2>2. pending_deaths' = pending_deaths => ~(Len(pending_deaths') > Len(pending_deaths))
    OBVIOUS
  <2>3. ASSUME NEW x \in PlayerId, UpsertPlayer(x) PROVE Announced
    <3>1. \A p \in players : runtime[p].is_alive => runtime'[p].is_alive
      BY <2>3, HealedLife DEF UpsertPlayer
    <3> QED  BY <2>1, <2>2, <2>3, <3>1 DEF UpsertPlayer
  <2>4. ASSUME NEW x \in PlayerId, RemovePlayer(x) PROVE Announced
    <3>1. \A p \in players' : runtime'[p] = runtime[p]
      BY <2>4 DEF RemovePlayer
    <3> QED  BY <2>1, <2>2, <2>4, <3>1 DEF RemovePlayer
  <2>5. ASSUME NEW x \in PlayerId, NEW s \in 0..MaxSequence,
               NEW fire \in BOOLEAN, ApplyInput(x, s, fire)
        PROVE  Announced
    <3>1. ASSUME NEW p \in players
          PROVE  runtime'[p] \in {runtime[p], Heard(runtime[p], s), Fired(runtime[p], s)}
      BY <2>5 DEF ApplyInput
    <3>2. \A p \in players : runtime'[p].is_alive = runtime[p].is_alive
      BY <3>1, SameLife
    <3>3. dead_total' = dead_total /\ pending_deaths' = pending_deaths
      BY <2>5 DEF ApplyInput
    <3> QED  BY <2>1, <2>2, <3>2, <3>3
  <2>6. CASE TickStart
    <3>1. \A p \in players : runtime'[p] = Cooled(runtime[p])
      BY <2>6 DEF TickStart
    <3>2. \A p \in players : runtime'[p].is_alive = runtime[p].is_alive
      BY <3>1, SameLife
    <3>3. dead_total' = dead_total /\ pending_deaths' = pending_deaths
      BY <2>6 DEF TickStart
    <3> QED  BY <2>1, <2>2, <3>2, <3>3
  <2>7. ASSUME NEW q \in projectiles, Miss(q) PROVE Announced
    BY <2>1, <2>2, <2>7 DEF Miss
  <2>8. ASSUME NEW q \in projectiles, NEW t \in PlayerId, Hit(q, t)
        PROVE  Announced
    <3>1. /\ t \in players /\ players' = players /\ runtime[t].is_alive
          /\ runtime'[t] = Wounded(runtime[t])
      BY <2>8 DEF Hit, Targets
    <3>2. \A p \in players : p # t => runtime'[p] \in {runtime[p], Credited(runtime[p])}
      BY <2>8 DEF Hit
    <3>3. \A p \in players : p # t => runtime'[p].is_alive = runtime[p].is_alive
      BY <3>2, SameLife
    <3>4. /\ runtime[t] \in Runtime /\ runtime[t].health > 0
          /\ runtime[t].death_announced = FALSE
      BY <3>1 DEF LifeConsistent, Runtime
    <3>5. /\ runtime[t].health \in Nat
          /\ HealthAfter(runtime[t]) \in Nat
      BY <3>4, ConstantsAssumption DEF Runtime, HealthAfter
    <3>6. Wounded(runtime[t]).is_alive <=> HealthAfter(runtime[t]) > 0
      BY <3>4 DEF Runtime, Wounded
    <3>7. Kills(runtime[t]) <=> HealthAfter(runtime[t]) = 0
      BY <3>4 DEF Kills
    <3>8. CASE Kills(runtime[t])
      <4>1. died = {t}
        BY <3>1, <3>3, <3>5, <3>6, <3>7, <3>8
      <4>2. /\ pending_deaths' = Append(pending_deaths, Event("Death", q, t))
            /\ dead_total' = dead_total + 1
        BY <2>8, <3>4, <3>8 DEF Hit
      <4>3. Event("Death", q, t).target = t
        BY DEF Event
      <4>4. /\ Len(pending_deaths') = Len(pending_deaths) + 1
            /\ pending_deaths'[Len(pending_deaths')] = Event("Death", q, t)
            /\ Len(pending_deaths) \in Nat
        BY <4>2
      <4> HIDE DEF died
      <4>5. Cardinality(died) = 1
        BY <4>1, FS_Singleton
      <4>6. Len(pending_deaths') > Len(pending_deaths) /\ died # {}
        BY <4>1, <4>4
      <4>7. \A p \in died : pending_deaths'[Len(pending_deaths')].target = p
        BY <4>1, <4>3, <4>4
      <4> QED  BY <4>2, <4>5, <4>6, <4>7
    <3>9. CASE ~Kills(runtime[t])
      <4>1. runtime'[t].is_alive
        BY <3>1, <3>5, <3>6, <3>7, <3>9
      <4>2. dead_total' = dead_total /\ pending_deaths' = pending_deaths
        BY <2>8, <3>9 DEF Hit
      <4> QED  BY <2>1, <2>2, <3>1, <3>3, <4>1, <4>2
    <3> QED  BY <3>8, <3>9
  <2>9. CASE ConsumeDeathEvents
    <3>1. ~(Len(pending_deaths') > Len(pending_deaths))
      BY <2>9 DEF ConsumeDeathEvents
    <3> QED  BY <2>1, <2>9, <3>1 DEF ConsumeDeathEvents
  <2> HIDE DEF Announced
  <2> QED
    BY <1>1, <2>3, <2>4, <2>5, <2>6, <2>7, <2>8, <2>9 DEF Next, TickStep
<1>2. SessionInv /\ [Next]_vars => [Announced]_vars
  BY <1>1 DEF SessionInv
<1> QED  BY <1>2, SessionInvariant, PTL DEF Spec, DeathAnnouncedOnce

----------------------------------------------------------------------------
(***************************************************************************)
(* The order of the log.  A projectile hits once because it is spent when  *)
(* it does, and its id is not used again: LogHistory adds that no id is in *)
(* flight twice, nor in flight once a hit of it is logged.                 *)
(***************************************************************************)

InOrder(log) ==
  /\ \A i \in 2..Len(log) : log[i].type = "Death" =>
       log[i - 1] = [log[i] EXCEPT !.type = "Hit"]
  /\ \A i, j \in 1..Len(log) :
       /\ log[i].type = "Hit" /\ log[j].type = "Hit"
       /\ log[i].projectile = log[j].projectile
       => i = j

LogHistory ==
  /\ \A q, r \in projectiles : q.id = r.id => q = r
  /\ \A i \in 1..Len(combat_log) : combat_log[i].type = "Hit" =>
       /\ combat_log[i].projectile <= spawned
       /\ \A q \in projectiles : q.id # combat_log[i].projectile

\* Adding to the log keeps an end of what was there and what is added.
LEMMA LoggedEnd ==
  ASSUME NEW log \in Seq(CombatEvent), NEW events \in Seq(CombatEvent)
  PROVE  \E k \in Nat :
           /\ Len(Logged(log, events)) = Len(log \o events) - k
           /\ \A i \in 1..Len(Logged(log, events)) :
                Logged(log, events)[i] = (log \o events)[k + i]
  <1> DEFINE all == log \o events
             over == IF Len(all) > LogCapacity THEN Len(all) - LogCapacity ELSE 0
             left == SubSeq(all, over + 1, Len(all))
  <1>1. all \in Seq(CombatEvent) /\ Len(all) \in Nat
    OBVIOUS
  <1> HIDE DEF all
  <1>2. over \in 0..Len(all)
    BY <1>1, ConstantsAssumption
  <1> HIDE DEF over
  <1>3. Len(left) = Len(all) - over /\ \A i \in 1..Len(left) : left[i] = all[over + i]
    BY <1>1, <1>2
  <1>4. Logged(log, events) = left
    BY DEF Logged, all, over
  <1> QED  BY <1>2, <1>3, <1>4 DEF all

\* The events of one hit by a projectile that has not hit before keep the
\* order, and are the only ones that are new.
LEMMA OrderedHit ==
  ASSUME NEW log \in Seq(CombatEvent), InOrder(log),
         NEW q \in Projectile, NEW t \in PlayerId,
         NEW events \in {<<Event("Hit", q, t)>>,
                         <<Event("Hit", q, t), Event("Death", q, t)>>},
         \A i \in 1..Len(log) :
           log[i].type = "Hit" => log[i].projectile # q.id
  PROVE  /\ InOrder(Logged(log, events))
         /\ \A i \in 1..Len(Logged(log, events)) :
              \/ Logged(log, events)[i].type = "Death"
              \/ Logged(log, events)[i] = Event("Hit", q, t)
              \/ \E j \in 1..Len(log) : Logged(log, events)[i] = log[j]
  <1> DEFINE h == Event("Hit", q, t)
             d == Event("Death", q, t)
             all == log \o events
             new == Logged(log, events)
             n == Len(log)
  <1>1. /\ h \in CombatEvent /\ h.type = "Hit" /\ h.projectile = q.id
        /\ d \in CombatEvent /\ d.type = "Death" /\ h = [d EXCEPT !.type = "Hit"]
    BY DEF Event, CombatEvent, Projectile
  <1> HIDE DEF h, d
  <1>2. /\ events \in Seq(CombatEvent) /\ Len(events) \in {1, 2}
        /\ events[1] = h /\ (Len(events) = 2 => events[2] = d)
    <2>1. events = <<h>> \/ events = <<h, d>>
      BY DEF h, d
    <2>2. <<h>> \in Seq(CombatEvent) /\ Len(<<h>>) = 1 /\ <<h>>[1] = h
      BY <1>1
    <2>3. /\ <<h, d>> \in Seq(CombatEvent) /\ Len(<<h, d>>) = 2
          /\ <<h, d>>[1] = h /\ <<h, d>>[2] = d
      BY <1>1
    <2> QED  BY <2>1, <2>2, <2>3
  <1>3. /\ n \in Nat /\ Len(all) \in {n + 1, n + 2}
        /\ \A i \in 1..n : all[i] = log[i]
        /\ all[n + 1] = h
        /\ Len(all) = n + 2 => all[n + 2] = d
    <2>1. /\ n \in Nat /\ Len(all) = n + Len(events)
          /\ \A i \in 1..n : all[i] = log[i]
          /\ \A i \in 1..Len(events) : all[n + i] = events[i]
      BY <1>2
    <2> HIDE DEF all, n
    <2>2. all[n + 1] = h
      BY <1>2, <2>1
    <2>3. Len(events) = 2 => all[n + 2] = d
      BY <1>2, <2>1
    <2>4. Len(all) = n + 2 => Len(events) = 2
      BY <1>2, <2>1
    <2> QED  BY <1>2, <2>1, <2>2, <2>3, <2>4
  <1> HIDE DEF all
  <1>4. InOrder(all)
    <2>1. ASSUME NEW i \in 2..Len(all), all[i].type = "Death"
          PROVE  all[i - 1] = [all[i] EXCEPT !.type = "Hit"]
      <3>1. CASE i \in 1..n
        <4>1. i \in 2..n /\ i - 1 \in 1..n
          BY <1>3, <2>1, <3>1
        <4> QED  BY <1>3, <2>1, <4>1 DEF InOrder
      <3>2. CASE i = n + 1
        BY <1>1, <1>3, <2>1, <3>2
      <3>3. CASE i = n + 2
        <4>1. i - 1 = n + 1 /\ Len(all) = n + 2
          BY <1>3, <3>3
        <4> QED  BY <1>1, <1>3, <3>3, <4>1
      <3> QED  BY <1>3, <3>1, <3>2, <3>3
    <2>2. ASSUME NEW i \in 1..Len(all), NEW j \in 1..Len(all),
                 all[i].type = "Hit", all[j].type = "Hit",
                 all[i].projectile = all[j].projectile
          PROVE  i = j
      <3>1. i # n + 2 /\ j # n + 2
        BY <1>1, <1>3, <2>2
      <3>2. \A k \in 1..n : all[k].type = "Hit" => all[k].projectile # q.id
        BY <1>3
      <3>3. i \in 1..n+1 /\ j \in 1..n+1
        BY <1>3, <3>1
      <3>4. CASE i = n + 1 \/ j = n + 1
        <4>1. all[i].projectile = q.id /\ all[j].projectile = q.id
          <5>1. all[n + 1].projectile = q.id
            BY <1>1, <1>3
          <5> HIDE DEF n
          <5>2. CASE i = n + 1
            BY <2>2, <5>1, <5>2
          <5>3. CASE j = n + 1
            BY <2>2, <5>1, <5>3
          <5> QED  BY <3>4, <5>2, <5>3
        <4>2. i \notin 1..n /\ j \notin 1..n
          BY <2>2, <3>2, <4>1
        <4> QED  BY <1>3, <3>3, <4>2
      <3>5. CASE i \in 1..n /\ j \in 1..n
        <4>1. /\ log[i].type = "Hit" /\ log[j].type = "Hit"
              /\ log[i].projectile = log[j].projectile
          BY <1>3, <2>2, <3>5
        <4>2. i \in 1..Len(log) /\ j \in 1..Len(log)
          BY <3>5
        <4> HIDE DEF n
        <4> QED  BY <4>1, <4>2 DEF InOrder
      <3> QED  BY <1>3, <3>3, <3>4, <3>5
    <2> QED  BY <2>1, <2>2 DEF InOrder
  <1>5. PICK k \in Nat : /\ Len(new) = Len(all) - k
                         /\ \A i \in 1..Len(new) : new[i] = all[k + i]
    BY <1>2, LoggedEnd DEF all
  <1>6. Len(new) \in Nat /\ Len(all) \in Nat
    BY <1>2, <1>3, LoggedType
  <1> HIDE DEF new
  <1>7. \A i \in 1..Len(new) : k + i \in 1..Len(all)
    BY <1>5, <1>6
  <1>8. InOrder(new)
    <2>1. ASSUME NEW i \in 2..Len(new), new[i].type = "Death"
          PROVE  new[i - 1] = [new[i] EXCEPT !.type = "Hit"]
      <3>1. /\ i \in 1..Len(new) /\ i - 1 \in 1..Len(new)
            /\ k + i \in 2..Len(all) /\ k + (i - 1) = (k + i) - 1
        BY <1>5, <1>6, <2>1
      <3>2. new[i] = all[k + i] /\ new[i - 1] = all[(k + i) - 1]
        BY <1>5, <3>1
      <3> DEFINE l == k + i
      <3> HIDE DEF l
      <3>3. l \in 2..Len(all) /\ all[l].type = "Death"
        BY <2>1, <3>1, <3>2 DEF l
      <3>4. all[l - 1] = [all[l] EXCEPT !.type = "Hit"]
        BY <1>4, <3>3 DEF InOrder
      <3> QED  BY <3>2, <3>4 DEF l
    <2>2. ASSUME NEW i \in 1..Len(new), NEW j \in 1..Len(new),
                 new[i].type = "Hit", new[j].type = "Hit",
                 new[i].projectile = new[j].projectile
          PROVE  i = j
      <3> DEFINE l == k + i
                 m == k + j
      <3>1. /\ l \in 1..Len(all) /\ m \in 1..Len(all)
            /\ all[l].type = "Hit" /\ all[m].type = "Hit"
            /\ all[l].projectile = all[m].projectile
        BY <1>5, <1>7, <2>2
      <3> HIDE DEF l, m
      <3>2. l = m
        BY <1>4, <3>1 DEF InOrder
      <3> QED  BY <1>6, <3>2 DEF l, m
    <2> QED  BY <2>1, <2>2 DEF InOrder
  <1>9. ASSUME NEW i \in 1..Len(new)
        PROVE  \/ new[i].type = "Death" \/ new[i] = h
               \/ \E j \in 1..n : new[i] = log[j]
    <2>1. new[i] = all[k + i] /\ k + i \in 1..Len(all)
      BY <1>5, <1>7
    <2>2. k + i \in 1..n \/ k + i = n + 1 \/ (k + i = n + 2 /\ Len(all) = n + 2)
      BY <1>3, <2>1
    <2> QED  BY <1>1, <1>3, <2>1, <2>2
  <1> QED  BY <1>8, <1>9 DEF new, h

\* Every step keeps the log in order.
LEMMA OrderNext ==
  ASSUME SessionInv, LogHistory, InOrder(combat_log), [Next]_vars
  PROVE  LogHistory' /\ InOrder(combat_log')
  <1> USE DEF SessionInv, TypeOK
  <1>1. ASSUME combat_log' = combat_log, spawned' = spawned,
               \A r \in projectiles' : \E q \in projectiles : r.id = q.id,
               \A q, r \in projectiles' : q.id = r.id => q = r
        PROVE  LogHistory' /\ InOrder(combat_log')
    BY <1>1 DEF LogHistory
  <1>2. ASSUME UNCHANGED <<combat_log, spawned>>, projectiles' \subseteq projectiles
        PROVE  LogHistory' /\ InOrder(combat_log')
    BY <1>1, <1>2 DEF LogHistory
  <1>3. ASSUME NEW x \in PlayerId, UpsertPlayer(x) \/ RemovePlayer(x)
        PROVE  LogHistory' /\ InOrder(combat_log')
    BY <1>2, <1>3 DEF UpsertPlayer, RemovePlayer
  <1>4. ASSUME NEW x \in PlayerId, NEW s \in 0..MaxSequence,
               NEW fire \in BOOLEAN, ApplyInput(x, s, fire)
        PROVE  LogHistory' /\ InOrder(combat_log')
    <2>1. CASE spawned' = spawned /\ projectiles' = projectiles
      BY <1>2, <1>4, <2>1 DEF ApplyInput
    <2>2. CASE ~(spawned' = spawned /\ projectiles' = projectiles)
      <3> DEFINE new == [id |-> spawned + 1, owner |-> x, age |-> 0, sequence |-> s]
      <3>1. /\ spawned' = spawned + 1 /\ projectiles' = projectiles \union {new}
            /\ combat_log' = combat_log /\ new.id = spawned + 1
        BY <1>4, <2>2 DEF ApplyInput
      <3> HIDE DEF new
      <3>2. \A q \in projectiles : q.id \in Nat /\ q.id <= spawned
        BY DEF Projectile
      <3>3. \A i \in 1..Len(combat_log) : combat_log[i].projectile \in Nat
        <4>1. \A i \in 1..Len(combat_log) : combat_log[i] \in CombatEvent
          OBVIOUS
        <4> QED  BY <4>1 DEF CombatEvent
      <3>4. spawned \in Nat
        OBVIOUS
      <3> QED  BY <3>1, <3>2, <3>3, <3>4 DEF LogHistory
    <2> QED  BY <2>1, <2>2
  <1>5. CASE TickStart
    <2>1. /\ UNCHANGED <<combat_log, spawned>>
          /\ \A r \in projectiles' : \E q \in projectiles : r = Aged(q)
      BY <1>5 DEF TickStart
    <2>2. \A q \in projectiles : Aged(q).id = q.id
      BY DEF Aged, Projectile
    <2>3. \A q, r \in projectiles' : q.id = r.id => q = r
      BY <2>1, <2>2 DEF LogHistory
    <2> QED  BY <1>1, <2>1, <2>2, <2>3
  <1>6. ASSUME NEW q \in projectiles, Miss(q)
        PROVE  LogHistory' /\ InOrder(combat_log')
    BY <1>2, <1>6 DEF Miss
  <1>7. ASSUME NEW q \in projectiles, NEW t \in PlayerId, Hit(q, t)
        PROVE  LogHistory' /\ InOrder(combat_log')
    <2>1. PICK events \in {<<Event("Hit", q, t)>>,
                           <<Event("Hit", q, t), Event("Death", q, t)>>} :
            combat_log' = Logged(combat_log, events)
      BY <1>7 DEF Hit
    <2>2. \A i \in 1..Len(combat_log) :
            combat_log[i].type = "Hit" => combat_log[i].projectile # q.id
      BY DEF LogHistory
    <2>3. /\ InOrder(combat_log')
          /\ \A i \in 1..Len(combat_log') :
               \/ combat_log'[i].type = "Death"
               \/ combat_log'[i] = Event("Hit", q, t)
               \/ \E j \in 1..Len(combat_log) : combat_log'[i] = combat_log[j]
      BY <2>1, <2>2, OrderedHit
    <2>4. /\ spawned' = spawned
          /\ projectiles' = projectiles \ {q}
      BY <1>7 DEF Hit, Spent
    <2>5. /\ Event("Hit", q, t).projectile = q.id /\ q.id <= spawned
          /\ \A r \in projectiles' : r.id # q.id
      BY <2>4 DEF Event, LogHistory
    <2>6. ASSUME NEW i \in 1..Len(combat_log'), combat_log'[i].type = "Hit"
          PROVE  /\ combat_log'[i].projectile <= spawned
                 /\ \A r \in projectiles' : r.id # combat_log'[i].projectile
      <3>1. CASE combat_log'[i] = Event("Hit", q, t)
        BY <2>5, <3>1
      <3>2. ASSUME NEW j \in 1..Len(combat_log), combat_log'[i] = combat_log[j]
            PROVE  /\ combat_log'[i].projectile <= spawned
                   /\ \A r \in projectiles' : r.id # combat_log'[i].projectile
        BY <2>4, <2>6, <3>2 DEF LogHistory
      <3> QED  BY <2>3, <2>6, <3>1, <3>2
    <2> QED  BY <2>3, <2>4, <2>6 DEF LogHistory
  <1>8. CASE ConsumeDeathEvents \/ UNCHANGED vars
    BY <1>2, <1>8 DEF ConsumeDeathEvents, vars
  <1> QED
    BY <1>3, <1>4, <1>5, <1>6, <1>7, <1>8 DEF Next, TickStep

\* In the log a Death follows its Hit and a projectile hits once, whatever has
\* been evicted.
THEOREM LogIsInOrder == Spec => []LogInOrder
<1>1. Init => LogHistory /\ InOrder(combat_log)
  BY DEF Init, LogHistory, InOrder
<1>2. SessionInv /\ (LogHistory /\ InOrder(combat_log)) /\ [Next]_vars
        => (LogHistory /\ InOrder(combat_log))'
  BY OrderNext
<1>3. InOrder(combat_log) => LogInOrder
  BY DEF InOrder, LogInOrder
<1> QED  BY <1>1, <1>2, <1>3, SessionInvariant, PTL DEF Spec
----------------------------------------------------------------------------
(***************************************************************************)
(* What a death costs.  The session counts neither blows by their target   *)
(* nor the health they took, so the proof keeps the books itself: some     *)
(* assignment of blows to players accounts for the health every living     *)
(* player lacks, and those blows and the ones that deaths have used up     *)
(* were all counted in hits_total.                                         *)
(***************************************************************************)

\* The blows assigned to the players, one element each.
Blows(dealt) == {b \in PlayerId \X Nat : b[2] \in 1..dealt[b[1]]}

\* One more blow for a player.
LEMMA OneBlowMore ==
  ASSUME NEW d \in [PlayerId -> Nat], IsFiniteSet(Blows(d)), NEW p \in PlayerId
  PROVE  LET e == [d EXCEPT ![p] = d[p] + 1] IN
           /\ IsFiniteSet(Blows(e))
           /\ Cardinality(Blows(e)) = Cardinality(Blows(d)) + 1
<1> DEFINE e == [d EXCEPT ![p] = d[p] + 1]
           b == <<p, d[p] + 1>>
<1>1. \A q \in PlayerId : e[q] = IF q = p THEN d[p] + 1 ELSE d[q]
  OBVIOUS
<1>2. Blows(e) = Blows(d) \union {b}
  <2>1. ASSUME NEW c \in PlayerId \X Nat
        PROVE  c \in Blows(e) <=> c \in Blows(d) \/ c = b
    <3>1. PICK q \in PlayerId, k \in Nat : c = <<q, k>>
      OBVIOUS
    <3>2. c \in Blows(e) <=> k \in 1..e[q]
      BY <3>1 DEF Blows
    <3>3. c \in Blows(d) <=> k \in 1..d[q]
      BY <3>1 DEF Blows
    <3> QED  BY <1>1, <3>1, <3>2, <3>3
  <2>2. b \in PlayerId \X Nat
    OBVIOUS
  <2> QED  BY <2>1, <2>2 DEF Blows
<1>3. b \notin Blows(d)
  BY DEF Blows
<1>4. /\ IsFiniteSet(Blows(d) \union {b})
      /\ Cardinality(Blows(d) \union {b}) = Cardinality(Blows(d)) + 1
  <2> HIDE DEF b
  <2> QED  BY <1>3, FS_AddElement
<1> QED  BY <1>2, <1>4

\* The blows of one player, taken back.
LEMMA BlowsTakenBack ==
  ASSUME NEW d \in [PlayerId -> Nat], IsFiniteSet(Blows(d)), NEW p \in PlayerId
  PROVE  LET e == [d EXCEPT ![p] = 0] IN
           /\ IsFiniteSet(Blows(e))
           /\ Cardinality(Blows(e)) = Cardinality(Blows(d)) - d[p]
<1> DEFINE e == [d EXCEPT ![p] = 0]
           own == {b \in PlayerId \X Nat : b[1] = p /\ b[2] \in 1..d[p]}
           f == [k \in 1..d[p] |-> <<p, k>>]
<1>1. \A q \in PlayerId : e[q] = IF q = p THEN 0 ELSE d[q]
  OBVIOUS
<1>2. Blows(e) = Blows(d) \ own /\ own \subseteq Blows(d)
  <2>1. ASSUME NEW c \in PlayerId \X Nat
        PROVE  /\ c \in Blows(e) <=> c \in Blows(d) /\ c \notin own
               /\ c \in own => c \in Blows(d)
    <3>1. PICK q \in PlayerId, k \in Nat : c = <<q, k>>
      OBVIOUS
    <3>2. c \in Blows(e) <=> k \in 1..e[q]
      BY <3>1 DEF Blows
    <3>3. c \in Blows(d) <=> k \in 1..d[q]
      BY <3>1 DEF Blows
    <3>4. c \in own <=> q = p /\ k \in 1..d[p]
      BY <3>1
    <3> QED  BY <1>1, <3>2, <3>3, <3>4
  <2> QED  BY <2>1 DEF Blows
<1>3. IsFiniteSet(own) /\ Cardinality(own) = d[p]
  <2>1. f \in Bijection(1..d[p], own)
    <3>1. f \in [1..d[p] -> own]
      OBVIOUS
    <3>2. \A k, l \in 1..d[p] : f[k] = f[l] => k = l
      OBVIOUS
    <3>3. \A b \in own : \E k \in 1..d[p] : f[k] = b
      OBVIOUS
    <3> HIDE DEF f, own
    <3> QED  BY <3>1, <3>2, <3>3
             DEF Bijection, Injection, Surjection, IsInjective
  <2>2. IsFiniteSet(1..d[p]) /\ Cardinality(1..d[p]) = d[p]
    BY FS_Interval
  <2> HIDE DEF f, own
  <2> QED  BY <2>1, <2>2, FS_Bijection DEF ExistsBijection
<1>4. Blows(d) \intersect own = own
  BY <1>2
<1> HIDE DEF own
<1>5. /\ IsFiniteSet(Blows(d) \ own)
      /\ Cardinality(Blows(d) \ own) = Cardinality(Blows(d)) - d[p]
  <2> DEFINE all == Blows(d)
  <2> HIDE DEF all
  <2>1. /\ IsFiniteSet(all) /\ Cardinality(own) = d[p]
        /\ all \intersect own = own
    BY <1>3, <1>4 DEF all
  <2>2. /\ IsFiniteSet(all \ own)
        /\ Cardinality(all \ own) = Cardinality(all) - Cardinality(all \intersect own)
    BY <2>1, FS_Difference
  <2> QED  BY <2>1, <2>2 DEF all
<1> QED  BY <1>2, <1>5

PaidFor ==
  \E d \in [PlayerId -> Nat] :
    /\ IsFiniteSet(Blows(d))
    /\ dead_total * HitsToKill + Cardinality(Blows(d)) <= hits_total
    /\ \A p \in PlayerId :
         runtime[p].is_alive => runtime[p].health + d[p] * Damage >= MaxHp

LEMMA HitsToKillType == HitsToKill \in Nat
  BY ConstantsAssumption DEF HitsToKill

\* As many blows as take a full health bar are at least HitsToKill.
LEMMA EnoughToKill ==
  ASSUME NEW n \in Nat, n * Damage >= MaxHp
  PROVE  n >= HitsToKill
<1> DEFINE h == HitsToKill
<1>1. /\ MaxHp \in Nat \ {0} /\ Damage \in Nat \ {0} /\ h \in Nat
  BY ConstantsAssumption, HitsToKillType
<1>2. h * Damage <= MaxHp + Damage - 1
  BY <1>1 DEF HitsToKill
<1> HIDE DEF h
<1>3. ASSUME n < h
      PROVE  FALSE
  <2>1. PICK k \in Nat : h = n + 1 + k
    <3>1. h - n - 1 \in Nat /\ h = n + 1 + (h - n - 1)
      BY <1>1, <1>3
    <3> QED  BY <3>1
  <2>2. h * Damage = n * Damage + Damage + k * Damage
    BY <1>1, <2>1
  <2>3. k * Damage \in Nat /\ n * Damage \in Nat
    BY <1>1
  <2> QED  BY <1>1, <1>2, <2>2, <2>3
<1> QED  BY <1>1, <1>3 DEF h

LEMMA PaidForInit == Init => PaidFor
<1> SUFFICES ASSUME Init
             PROVE  PaidFor
  OBVIOUS
<1> DEFINE d == [p \in PlayerId |-> 0]
<1>1. Blows(d) = {}
  BY DEF Blows
<1>2. IsFiniteSet(Blows(d)) /\ Cardinality(Blows(d)) = 0
  BY <1>1, FS_EmptySet
<1>3. \A p \in PlayerId : runtime[p].health + d[p] * Damage >= MaxHp
  BY ConstantsAssumption DEF Init, Fresh
<1>4. dead_total * HitsToKill = 0 /\ hits_total = 0
  BY HitsToKillType DEF Init
<1>5. d \in [PlayerId -> Nat]
  OBVIOUS
<1> HIDE DEF d
<1> QED  BY <1>2, <1>3, <1>4, <1>5 DEF PaidFor

\* Every step keeps the books: a blow is assigned to its target, a death uses
\* up all its blows, a heal or a leave needs none of them any more.
LEMMA PaidForNext ==
  ASSUME SessionInv, PaidFor, [Next]_vars
  PROVE  PaidFor'
<1> USE DEF SessionInv, TypeOK
<1>1. PICK d \in [PlayerId -> Nat] :
        /\ IsFiniteSet(Blows(d))
        /\ dead_total * HitsToKill + Cardinality(Blows(d)) <= hits_total
        /\ \A p \in PlayerId :
             runtime[p].is_alive => runtime[p].health + d[p] * Damage >= MaxHp
  BY DEF PaidFor
<1>2. /\ \A p \in PlayerId : runtime[p] \in Runtime /\ runtime[p].health \in 0..MaxHp
      /\ Cardinality(Blows(d)) \in Nat /\ HitsToKill \in Nat
      /\ Damage \in Nat \ {0} /\ MaxHp \in Nat \ {0}
      /\ \A p \in PlayerId : d[p] * Damage \in Nat
  <2>1. \A p \in PlayerId : runtime[p] \in Runtime /\ runtime[p].health \in 0..MaxHp
    BY DEF Runtime
  <2>2. Cardinality(Blows(d)) \in Nat /\ HitsToKill \in Nat
    BY <1>1, HitsToKillType, FS_CardinalityType
  <2>3. Damage \in Nat \ {0} /\ MaxHp \in Nat \ {0}
    BY ConstantsAssumption
  <2>4. \A p \in PlayerId : d[p] * Damage \in Nat
    BY <2>3
  <2> QED  BY <2>1, <2>2, <2>3, <2>4
<1>3. ASSUME UNCHANGED <<dead_total, hits_total>>,
             \A p \in PlayerId :
               \/ /\ runtime'[p].health = runtime[p].health
                  /\ runtime'[p].is_alive = runtime[p].is_alive
               \/ runtime'[p].health = MaxHp
      PROVE  PaidFor'
  <2>1. ASSUME NEW p \in PlayerId, runtime'[p].is_alive
        PROVE  runtime'[p].health + d[p] * Damage >= MaxHp
    <3>1. CASE runtime'[p].health = MaxHp
      <4> DEFINE n == d[p] * Damage
      <4>1. n \in Nat
        BY <1>2
      <4> HIDE DEF n
      <4>2. MaxHp + n >= MaxHp
        BY <1>2, <4>1
      <4> QED  BY <3>1, <4>2 DEF n
    <3>2. CASE /\ runtime'[p].health = runtime[p].health
               /\ runtime'[p].is_alive = runtime[p].is_alive
      BY <1>1, <2>1, <3>2
    <3> QED  BY <1>3, <3>1, <3>2
  <2>2. dead_total' * HitsToKill + Cardinality(Blows(d)) <= hits_total'
    BY <1>1, <1>3
  <2> QED  BY <1>1, <2>1, <2>2 DEF PaidFor
<1>4. ASSUME NEW x \in PlayerId, UpsertPlayer(x)
      PROVE  PaidFor'
  BY <1>2, <1>3, <1>4, HealedLife DEF UpsertPlayer
<1>5. ASSUME NEW x \in PlayerId, RemovePlayer(x)
      PROVE  PaidFor'
  <2>1. Fresh.health = MaxHp
    BY DEF Fresh
  <2> QED  BY <1>2, <1>3, <1>5, <2>1 DEF RemovePlayer
<1>6. ASSUME NEW x \in PlayerId, NEW s \in 0..MaxSequence,
             NEW fire \in BOOLEAN, ApplyInput(x, s, fire)
      PROVE  PaidFor'
  <2>1. \A p \in PlayerId :
          runtime'[p] \in {runtime[p], Heard(runtime[p], s), Fired(runtime[p], s)}
    BY <1>6 DEF ApplyInput
  <2>2. UNCHANGED <<dead_total, hits_total>>
    BY <1>6 DEF ApplyInput
  <2>3. \A p \in PlayerId : /\ runtime'[p].health = runtime[p].health
                           /\ runtime'[p].is_alive = runtime[p].is_alive
    <3> TAKE p \in PlayerId
    <3>1. \A w \in {Heard(runtime[p], s), Fired(runtime[p], s)} :
            w.health = runtime[p].health /\ w.is_alive = runtime[p].is_alive
      BY <1>2, SameLife
    <3> QED  BY <2>1, <3>1
  <2> QED  BY <1>3, <2>2, <2>3
<1>7. CASE TickStart
  <2>1. \A p \in PlayerId : runtime'[p] \in {runtime[p], Cooled(runtime[p])}
    BY <1>7 DEF TickStart
  <2>2. UNCHANGED <<dead_total, hits_total>>
    BY <1>7 DEF TickStart
  <2>3. \A p \in PlayerId : /\ runtime'[p].health = runtime[p].health
                           /\ runtime'[p].is_alive = runtime[p].is_alive
    BY <1>2, <2>1, SameLife
  <2> QED  BY <1>3, <2>2, <2>3
<1>8. ASSUME NEW q \in projectiles, Miss(q)
      PROVE  PaidFor'
  BY <1>3, <1>8 DEF Miss
<1>9. ASSUME NEW q \in projectiles, NEW t \in PlayerId, Hit(q, t)
      PROVE  PaidFor'
  <2> DEFINE r == runtime[t]
  <2>1. /\ r.is_alive /\ r.health > 0 /\ ~r.death_announced
        /\ runtime'[t] = Wounded(r)
        /\ hits_total' = hits_total + 1
    BY <1>9 DEF Hit, Targets, LifeConsistent
  <2>2. /\ Wounded(r).health = HealthAfter(r)
        /\ Wounded(r).is_alive <=> HealthAfter(r) > 0
    BY <1>2 DEF Wounded, Runtime
  <2>3. \A p \in PlayerId \ {t} :
          /\ runtime'[p].health = runtime[p].health
          /\ runtime'[p].is_alive = runtime[p].is_alive
    <3>1. \A p \in PlayerId \ {t} : runtime'[p] \in {runtime[p], Credited(runtime[p])}
      BY <1>9 DEF Hit
    <3> QED  BY <1>2, <3>1, SameLife
  <2>4. r.health + d[t] * Damage >= MaxHp /\ r.health \in 0..MaxHp
    BY <1>1, <1>2, <2>1
  <2> HIDE DEF r
  <2>5. CASE Kills(r)
    <3> DEFINE e == [d EXCEPT ![t] = 0]
    <3>1. /\ IsFiniteSet(Blows(e))
          /\ Cardinality(Blows(e)) = Cardinality(Blows(d)) - d[t]
      BY <1>1, BlowsTakenBack
    <3>2. HealthAfter(r) = 0 /\ r.health <= Damage
      BY <1>2, <2>4, <2>5 DEF Kills, HealthAfter
    <3>3. dead_total' = dead_total + 1
      BY <1>9, <2>1, <2>5 DEF Hit, r
    <3>4. (d[t] + 1) * Damage >= MaxHp
      <4>1. (d[t] + 1) * Damage = d[t] * Damage + Damage
        BY <1>2
      <4> QED  BY <1>2, <2>4, <3>2, <4>1
    <3>5. d[t] + 1 >= HitsToKill /\ d[t] \in Nat
      BY <3>4, EnoughToKill
    <3>6. dead_total' * HitsToKill = dead_total * HitsToKill + HitsToKill
          /\ dead_total * HitsToKill \in Nat
      BY <1>2, <3>3
    <3>7. dead_total' * HitsToKill + Cardinality(Blows(e)) <= hits_total'
      <4> HIDE DEF e
      <4> QED  BY <1>1, <1>2, <2>1, <3>1, <3>5, <3>6
    <3>8. ASSUME NEW p \in PlayerId, runtime'[p].is_alive
          PROVE  runtime'[p].health + e[p] * Damage >= MaxHp
      <4>1. p # t
        BY <2>1, <2>2, <3>2, <3>8
      <4>2. e[p] = d[p] /\ runtime'[p].health = runtime[p].health /\ runtime[p].is_alive
        BY <2>3, <3>8, <4>1
      <4> QED  BY <1>1, <4>2
    <3>9. e \in [PlayerId -> Nat]
      OBVIOUS
    <3> HIDE DEF e
    <3> QED  BY <3>1, <3>7, <3>8, <3>9 DEF PaidFor
  <2>6. CASE ~Kills(r)
    <3> DEFINE e == [d EXCEPT ![t] = d[t] + 1]
    <3>1. /\ IsFiniteSet(Blows(e))
          /\ Cardinality(Blows(e)) = Cardinality(Blows(d)) + 1
      BY <1>1, OneBlowMore
    <3>2. HealthAfter(r) = r.health - Damage
      BY <1>2, <2>1, <2>4, <2>6 DEF Kills, HealthAfter, r
    <3>3. dead_total' = dead_total
      BY <1>9, <2>6 DEF Hit, r
    <3>4. dead_total' * HitsToKill + Cardinality(Blows(e)) <= hits_total'
      <4>1. dead_total * HitsToKill \in Nat
        BY <1>2
      <4> HIDE DEF e
      <4> QED  BY <1>1, <1>2, <2>1, <3>1, <3>3, <4>1
    <3>5. ASSUME NEW p \in PlayerId, runtime'[p].is_alive
          PROVE  runtime'[p].health + e[p] * Damage >= MaxHp
      <4>1. CASE p = t
        <5>1. e[p] = d[t] + 1 /\ (d[t] + 1) * Damage = d[t] * Damage + Damage
          BY <1>2, <4>1
        <5>2. runtime'[p].health = r.health - Damage
          BY <2>1, <2>2, <3>2, <4>1
        <5> HIDE DEF e
        <5> QED  BY <1>2, <2>4, <5>1, <5>2
      <4>2. CASE p # t
        <5>1. e[p] = d[p] /\ runtime'[p].health = runtime[p].health /\ runtime[p].is_alive
          BY <2>3, <3>5, <4>2
        <5> QED  BY <1>1, <5>1
      <4> QED  BY <4>1, <4>2
    <3>6. e \in [PlayerId -> Nat]
      OBVIOUS
    <3> HIDE DEF e
    <3> QED  BY <3>1, <3>4, <3>5, <3>6 DEF PaidFor
  <2> QED  BY <2>5, <2>6
<1>10. CASE ConsumeDeathEvents
  BY <1>3, <1>10 DEF ConsumeDeathEvents
<1>11. CASE UNCHANGED vars
  BY <1>3, <1>11 DEF vars
<1> QED  BY <1>4, <1>5, <1>6, <1>7, <1>8, <1>9, <1>10, <1>11
         DEF Next, TickStep

\* Every death that players_dead_total counts has cost at least the hits that
\* take a full health bar, however hits, heals, leaves and re-joins interleave.
THEOREM DeathsArePaid == Spec => []DeathsArePaidFor
<1>1. SessionInv /\ PaidFor /\ [Next]_vars => PaidFor'
  BY PaidForNext
<1>2. SessionInv /\ PaidFor => DeathsArePaidFor
  <2> SUFFICES ASSUME SessionInv, PaidFor
               PROVE  DeathsArePaidFor
    OBVIOUS
  <2>1. PICK d \in [PlayerId -> Nat] :
          /\ IsFiniteSet(Blows(d))
          /\ dead_total * HitsToKill + Cardinality(Blows(d)) <= hits_total
    BY DEF PaidFor
  <2>2. /\ Cardinality(Blows(d)) \in Nat /\ dead_total * HitsToKill \in Nat
        /\ hits_total \in Nat
    BY <2>1, HitsToKillType, FS_CardinalityType DEF SessionInv, TypeOK
  <2> QED  BY <2>1, <2>2 DEF DeathsArePaidFor
<1> QED  BY <1>1, <1>2, PaidForInit, SessionInvariant, PTL DEF Spec

----------------------------------------------------------------------------
(* Sums. *)

\* f gives the sum of v over every subset of S.
Sums(f, v, S) ==
  /\ f \in [SUBSET S -> Int]
  /\ f[{}] = 0
  /\ \A t \in SUBSET S : \A x \in t : f[t] = v[x] + f[t \ {x}]

\* What takes elements out in some order is a sum in any order.
LEMMA AnyOrder ==
  ASSUME NEW S, IsFiniteSet(S), NEW v \in [S -> Int], NEW pick,
         NEW f \in [SUBSET S -> Int], f[{}] = 0,
         \A t \in SUBSET S : t # {} =>
           pick[t] \in t /\ f[t] = v[pick[t]] + f[t \ {pick[t]}]
  PROVE  Sums(f, v, S)
<1> DEFINE T == {t \in SUBSET S : \A x \in t : f[t] = v[x] + f[t \ {x}]}
<1>1. {} \in T
  OBVIOUS
<1>2. ASSUME NEW t \in SUBSET S, t # {}, \A x \in t : t \ {x} \in T
      PROVE  t \in T
  <2> SUFFICES ASSUME NEW x \in t
               PROVE  f[t] = v[x] + f[t \ {x}]
    OBVIOUS
  <2> DEFINE y == pick[t]
  <2>1. y \in t /\ f[t] = v[y] + f[t \ {y}]
    BY <1>2
  <2> HIDE DEF y
  <2>2. CASE y = x
    BY <2>1, <2>2
  <2>3. CASE y # x
    <3>1. f[t \ {y}] = v[x] + f[(t \ {y}) \ {x}]
      BY <1>2, <2>1, <2>3
    <3>2. f[t \ {x}] = v[y] + f[(t \ {x}) \ {y}]
      BY <1>2, <2>1, <2>3
    <3>3. (t \ {y}) \ {x} = (t \ {x}) \ {y}
      OBVIOUS
    <3>4. /\ v[x] \in Int /\ v[y] \in Int
          /\ f[(t \ {x}) \ {y}] \in Int
      BY <2>1
    <3> DEFINE rest == f[(t \ {x}) \ {y}]
    <3>5. f[t] = v[y] + (v[x] + rest) /\ f[t \ {x}] = v[y] + rest
      BY <2>1, <3>1, <3>2, <3>3
    <3>6. v[x] \in Int /\ v[y] \in Int /\ rest \in Int
      BY <3>4
    <3> HIDE DEF rest
    <3> QED  BY <3>5, <3>6
  <2> QED  BY <2>2, <2>3
<1>3. \A t \in SUBSET S : t \in T
  <2> HIDE DEF T
  <2> QED  BY <1>1, <1>2, SubsetInduction
<1> QED  BY <1>3 DEF Sums

\* Every function with integer values has its sums.
LEMMA SumsExist ==
  ASSUME NEW S, IsFiniteSet(S), NEW v \in [S -> Int]
  PROVE  \E f : Sums(f, v, S)
<1>1. CASE S = {}
  <2> DEFINE f == [t \in SUBSET S |-> 0]
  <2>1. Sums(f, v, S)
    BY <1>1 DEF Sums
  <2> QED  BY <2>1
<1>2. CASE S # {}
  <2> DEFINE first == CHOOSE x \in S : TRUE
             pick == [t \in SUBSET S |-> IF t = {} THEN first
                                         ELSE CHOOSE x \in t : TRUE]
             g == [e \in S \X Int |-> v[e[1]] + e[2]]
  <2>1. first \in S
    BY <1>2
  <2>2. pick \in [SUBSET S -> S] /\ \A t \in SUBSET S : t # {} => pick[t] \in t
    <3> HIDE DEF first
    <3>1. \A t \in SUBSET S : t # {} => (CHOOSE x \in t : TRUE) \in t
      OBVIOUS
    <3> QED  BY <2>1, <3>1
  <2>3. g \in [S \X Int -> Int]
    OBVIOUS
  <2> HIDE DEF pick
  <2>4. PICK f : Recurs(f, g, 0, pick, S, Int)
    <3>1. 0 \in Int
      OBVIOUS
    <3> HIDE DEF g
    <3> QED  BY <2>2, <2>3, <3>1, RecursionExists
  <2>5. f[{}] = 0
    BY <2>4 DEF Recurs
  <2>6. ASSUME NEW t \in SUBSET S, t # {}
        PROVE  pick[t] \in t /\ f[t] = v[pick[t]] + f[t \ {pick[t]}]
    <3>1. f[t] = g[<<pick[t], f[t \ {pick[t]}]>>]
      BY <2>4, <2>6 DEF Recurs
    <3>2. pick[t] \in S /\ f[t \ {pick[t]}] \in Int
      BY <2>2, <2>4 DEF Recurs
    <3> QED  BY <2>2, <2>6, <3>1, <3>2
  <2>7. Sums(f, v, S)
    BY <2>4, <2>5, <2>6, AnyOrder DEF Recurs
  <2> QED  BY <2>7
<1> QED  BY <1>1, <1>2

\* The total of a field is its sum over the profiles.
LEMMA TotalIs ==
  ASSUME NEW profiles, NEW field, IsFiniteSet(DOMAIN profiles),
         \A p \in DOMAIN profiles : profiles[p][field] \in Int
  PROVE  \E f : /\ Sums(f, [p \in DOMAIN profiles |-> profiles[p][field]],
                         DOMAIN profiles)
                /\ f[DOMAIN profiles] = Total(profiles, field)
<1> DEFINE S == DOMAIN profiles
           v == [p \in S |-> profiles[p][field]]
           Turn(f) == [t \in SUBSET S |->
                         IF t = {} THEN 0
                         ELSE profiles[CHOOSE x \in t : TRUE][field]
                              + f[t \ {CHOOSE x \in t : TRUE}]]
           iter == CHOOSE f : f = Turn(f)
           pick == [t \in SUBSET S |-> CHOOSE x \in t : TRUE]
<1>1. Total(profiles, field) = iter[S]
  BY DEF Total, MapThenSumSet, MapThenFoldSet
<1>2. v \in [S -> Int]
  OBVIOUS
<1>3. \A t \in SUBSET S : t # {} => pick[t] \in t
  OBVIOUS
<1>4. PICK f : Sums(f, v, S)
  <2> HIDE DEF v, S
  <2> QED  BY <1>2, SumsExist DEF S
<1>5. f = Turn(f)
  <2>1. ASSUME NEW t \in SUBSET S
        PROVE  f[t] = Turn(f)[t]
    <3>1. CASE t = {}
      BY <1>4, <3>1 DEF Sums
    <3>2. CASE t # {}
      <4> DEFINE x == CHOOSE x \in t : TRUE
      <4>1. x \in t
        BY <3>2
      <4> HIDE DEF x
      <4>2. f[t] = v[x] + f[t \ {x}] /\ v[x] = profiles[x][field]
        BY <1>4, <4>1 DEF Sums
      <4> QED  BY <3>2, <4>2 DEF x
    <3> QED  BY <3>1, <3>2
  <2>2. f \in [SUBSET S -> Int]
    BY <1>4 DEF Sums
  <2> QED  BY <2>1, <2>2
<1>6. iter = Turn(iter)
  BY <1>5
<1> HIDE DEF iter
<1>7. \A t \in SUBSET S : t # {} => iter[t] = v[pick[t]] + iter[t \ {pick[t]}]
  BY <1>3, <1>6
<1>8. iter[{}] = 0
  BY <1>6
<1>9. iter \in [SUBSET S -> Int]
  <2>1. \A t \in SUBSET S : iter[t] \in Int
    <3> DEFINE T == {t \in SUBSET S : iter[t] \in Int}
    <3>1. {} \in T
      BY <1>8
    <3>2. ASSUME NEW t \in SUBSET S, t # {}, \A x \in t : t \ {x} \in T
          PROVE  t \in T
      <4>1. pick[t] \in t /\ iter[t] = v[pick[t]] + iter[t \ {pick[t]}]
        BY <1>3, <1>7, <3>2
      <4>2. v[pick[t]] \in Int /\ iter[t \ {pick[t]}] \in Int
        <5> HIDE DEF pick, v
        <5> QED  BY <1>2, <3>2, <4>1
      <4> HIDE DEF pick, v
      <4> QED  BY <4>1, <4>2
    <3>3. \A t \in SUBSET S : t \in T
      <4> HIDE DEF T, S
      <4> QED  BY <3>1, <3>2, SubsetInduction DEF S
    <3> QED  BY <3>3
  <2>2. iter = [t \in SUBSET S |-> iter[t]]
    BY <1>6
  <2> QED  BY <2>1, <2>2
<1>10. Sums(iter, v, S)
  <2> HIDE DEF pick, v, S, Turn
  <2> QED  BY <1>2, <1>3, <1>7, <1>8, <1>9, AnyOrder DEF S
<1> QED  BY <1>1, <1>10

\* A sum grows by the sum of what is added, the summands that are new
\* included.
LEMMA SumGrows ==
  ASSUME NEW S, IsFiniteSet(S), NEW R, R \subseteq S,
         NEW f, NEW v, Sums(f, v, R), NEW g, NEW w, Sums(g, w, S),
         NEW d, NEW more, Sums(d, more, S),
         \A p \in S : w[p] \in Int /\ more[p] \in Int,
         \A p \in S \ R : w[p] = more[p],
         \A p \in R : v[p] \in Int /\ w[p] = v[p] + more[p]
  PROVE  g[S] = f[R] + d[S]
<1> DEFINE T == {t \in SUBSET S : g[t] = f[t \intersect R] + d[t]}
<1>1. {} \in T
  <2>1. {} \intersect R = {}
    OBVIOUS
  <2> QED  BY <2>1 DEF Sums
<1>2. ASSUME NEW t \in SUBSET S, t # {}, \A x \in t : t \ {x} \in T
      PROVE  t \in T
  <2>1. PICK x \in t : TRUE
    BY <1>2
  <2> DEFINE u == t \ {x}
             a == f[u \intersect R]
             b == d[u]
  <2>2. g[u] = a + b
    BY <1>2
  <2>3. a \in Int /\ b \in Int
    BY DEF Sums
  <2>4. g[t] = w[x] + (a + b) /\ d[t] = more[x] + b
    BY <2>2 DEF Sums
  <2>5. f[t \intersect R] = IF x \in R THEN v[x] + a ELSE a
    <3>1. CASE x \in R
      <4>1. (t \intersect R) \ {x} = u \intersect R /\ x \in t \intersect R
        BY <3>1
      <4> HIDE DEF u
      <4> QED  BY <3>1, <4>1 DEF Sums
    <3>2. CASE x \notin R
      <4>1. t \intersect R = u \intersect R
        BY <3>2
      <4> HIDE DEF u
      <4> QED  BY <3>2, <4>1
    <3> QED  BY <3>1, <3>2
  <2>6. w[x] \in Int /\ more[x] \in Int /\ x \in S
    OBVIOUS
  <2> HIDE DEF a, b, u
  <2>7. CASE x \in R
    <3>1. v[x] \in Int /\ w[x] = v[x] + more[x]
      BY <2>7
    <3> QED  BY <2>3, <2>4, <2>5, <2>6, <2>7, <3>1
  <2>8. CASE x \notin R
    BY <2>3, <2>4, <2>5, <2>6, <2>8
  <2> QED  BY <2>7, <2>8
<1>3. S \in T
  <2>1. \A t \in SUBSET S : t \in T
    <3> HIDE DEF T
    <3> QED  BY <1>1, <1>2, SubsetInduction
  <2> QED  BY <2>1
<1>4. S \intersect R = R
  OBVIOUS
<1> QED  BY <1>3, <1>4

\* The sum of a one and zeros.
LEMMA SumOfOne ==
  ASSUME NEW S, IsFiniteSet(S), NEW x \in S, NEW f,
         Sums(f, [p \in S |-> IF p = x THEN 1 ELSE 0], S)
  PROVE  f[S] = 1
<1> DEFINE T == {t \in SUBSET S : x \notin t => f[t] = 0}
<1>1. {} \in T
  BY DEF Sums
<1>2. ASSUME NEW t \in SUBSET S, t # {}, \A y \in t : t \ {y} \in T
      PROVE  t \in T
  <2> SUFFICES ASSUME x \notin t PROVE f[t] = 0
    OBVIOUS
  <2>1. PICK y \in t : TRUE
    BY <1>2
  <2>2. f[t] = 0 + f[t \ {y}]
    BY DEF Sums
  <2> QED  BY <1>2, <2>2
<1>3. f[S \ {x}] = 0
  <2>1. \A t \in SUBSET S : t \in T
    <3> HIDE DEF T
    <3> QED  BY <1>1, <1>2, SubsetInduction
  <2> QED  BY <2>1
<1>4. f[S] = 1 + f[S \ {x}]
  BY DEF Sums
<1> QED  BY <1>3, <1>4

\* A set of numbered things, counted by who has them, comes to all of them.
LEMMA SumOfShares ==
  ASSUME NEW S, IsFiniteSet(S), NEW things, IsFiniteSet(things),
         NEW owner \in [things -> S], NEW unit \in Int, NEW f,
         Sums(f, [p \in S |-> unit * Cardinality({i \in things : owner[i] = p})], S)
  PROVE  f[S] = unit * Cardinality(things)
<1> DEFINE Of(t) == {i \in things : owner[i] \in t}
           Share(p) == {i \in things : owner[i] = p}
           T == {t \in SUBSET S : f[t] = unit * Cardinality(Of(t))}
<1>1. {} \in T
  <2>1. Of({}) = {}
    OBVIOUS
  <2>2. unit * 0 = 0
    OBVIOUS
  <2> QED  BY <2>1, <2>2, FS_EmptySet DEF Sums
<1>2. ASSUME NEW t \in SUBSET S, t # {}, \A x \in t : t \ {x} \in T
      PROVE  t \in T
  <2>1. PICK x \in t : TRUE
    BY <1>2
  <2>2. f[t] = unit * Cardinality(Share(x)) + f[t \ {x}]
    BY DEF Sums
  <2>3. f[t \ {x}] = unit * Cardinality(Of(t \ {x}))
    BY <1>2
  <2>4. Of(t) = Share(x) \union Of(t \ {x}) /\ Share(x) \intersect Of(t \ {x}) = {}
    OBVIOUS
  <2>5. /\ IsFiniteSet(Share(x)) /\ IsFiniteSet(Of(t \ {x}))
    BY FS_Subset
  <2> DEFINE a == Cardinality(Share(x))
             b == Cardinality(Of(t \ {x}))
  <2> HIDE DEF Share, Of
  <2>6. a \in Nat /\ b \in Nat /\ Cardinality(Of(t)) = a + b
    <3>1. Cardinality({}) = 0
      BY FS_EmptySet
    <3>2. /\ Cardinality(Share(x)) \in Nat
          /\ Cardinality(Of(t \ {x})) \in Nat
      BY <2>5, FS_CardinalityType
    <3>3. Cardinality(Share(x) \union Of(t \ {x})) =
            Cardinality(Share(x)) + Cardinality(Of(t \ {x}))
              - Cardinality(Share(x) \intersect Of(t \ {x}))
      BY <2>5, FS_Union
    <3>4. Cardinality(Of(t)) = a + b - Cardinality({})
      BY <2>4, <3>3
    <3> HIDE DEF a, b
    <3>5. a \in Nat /\ b \in Nat
      BY <3>2 DEF a, b
    <3> QED  BY <3>1, <3>4, <3>5
  <2>7. \A u, k, m \in Int : u * k + u * m = u * (k + m)
    OBVIOUS
  <2>8. f[t] = unit * Cardinality(Of(t))
    <3>1. f[t] = unit * a + unit * b
      BY <2>2, <2>3
    <3> HIDE DEF a, b
    <3> QED  BY <2>6, <2>7, <3>1
  <2> QED  BY <2>8
<1>3. f[S] = unit * Cardinality(Of(S))
  <2>1. \A t \in SUBSET S : t \in T
    <3> HIDE DEF T
    <3> QED  BY <1>1, <1>2, SubsetInduction
  <2> QED  BY <2>1
<1>4. Of(S) = things
  OBVIOUS
<1> QED  BY <1>3, <1>4

----------------------------------------------------------------------------
(***************************************************************************)
(* The inductive invariant.  Besides the properties it holds the types,    *)
(* that there are finitely many players and profiles (they are counted and *)
(* summed up), that a pending death has two players, so that a match has   *)
(* a winner and another player as its loser, and the books of the session. *)
(***************************************************************************)

Profile == [matches : Nat, wins : Nat, losses : Nat, kills : Nat,
            deaths : Nat, shots_fired : Nat, hits_landed : Nat,
            damage_dealt : Nat, damage_taken : Nat, rating : Int]

ProfilesTyped ==
  /\ DOMAIN aggregates \subseteq PlayerId /\ IsFiniteSet(DOMAIN aggregates)
  /\ aggregates \in [DOMAIN aggregates -> Profile]
  /\ matches_recorded_total \in Nat

TwoPlayers(deaths) ==
  \A i \in 1..Len(deaths) : deaths[i].shooter # deaths[i].target

SessionPart ==
  SessionInv /\ IsFiniteSet(players) /\ TwoPlayers(pending_deaths)

BoardTyped(board) ==
  /\ DOMAIN board.scores \subseteq PlayerId
  /\ IsFiniteSet(DOMAIN board.scores)
  /\ board.scores \in [DOMAIN board.scores -> Int]
  /\ DOMAIN board.ordered \subseteq Int
  /\ board.ordered \in [DOMAIN board.ordered -> SUBSET PlayerId]

\* The two indexes agree.
BoardAgrees(board) ==
  /\ \A s \in DOMAIN board.ordered :
       board.ordered[s] # {} /\ \A p \in board.ordered[s] :
         p \in DOMAIN board.scores /\ board.scores[p] = s
  /\ \A p \in DOMAIN board.scores :
       /\ board.scores[p] \in DOMAIN board.ordered
       /\ p \in board.ordered[board.scores[p]]

Board == [scores |-> scores, ordered |-> ordered]

RatingsShown ==
  \A p \in DOMAIN scores :
    p \in DOMAIN aggregates /\ aggregates[p].rating = scores[p]

StatsInv ==
  /\ SessionPart
  /\ ProfilesTyped
  /\ BoardTyped(Board)
  /\ BoardAgrees(Board)
  /\ RatingsShown
  /\ ProfilesAddUp

----------------------------------------------------------------------------
(* The session. *)

\* What a step of the session does to its members and its pending deaths.
LEMMA SessionMoves ==
  ASSUME SessionPart, SessionStep
  PROVE  SessionPart'
<1> USE DEF SessionPart
<1>1. [Next]_vars
  BY DEF SessionStep, Next
<1>2. SessionInv'
  BY <1>1, SessionInvNext
<1>3. IsFiniteSet(players')
  <2>1. ASSUME NEW p \in PlayerId, UpsertPlayer(p) \/ RemovePlayer(p)
        PROVE  IsFiniteSet(players')
    <3>1. players' = players \union {p} \/ players' = players \ {p}
      BY <2>1 DEF UpsertPlayer, RemovePlayer
    <3> QED  BY <3>1, FS_AddElement, FS_RemoveElement
  <2>2. ASSUME NEW p \in PlayerId, NEW s \in 0..MaxSequence,
               NEW fire \in BOOLEAN, ApplyInput(p, s, fire)
        PROVE  players' = players
    BY <2>2 DEF ApplyInput
  <2>3. TickStart \/ TickStep => players' = players
    BY DEF TickStart, TickStep, Hit, Miss
  <2> QED  BY <2>1, <2>2, <2>3 DEF SessionStep
<1>4. TwoPlayers(pending_deaths')
  <2>1. ASSUME NEW q \in projectiles, NEW t \in PlayerId, Hit(q, t)
        PROVE  TwoPlayers(pending_deaths')
    <3>1. CASE pending_deaths' = pending_deaths
      BY <3>1
    <3>2. CASE pending_deaths' = Append(pending_deaths, Event("Death", q, t))
      <4> DEFINE e == Event("Death", q, t)
      <4>1. e.shooter # e.target
        BY <2>1 DEF Hit, Targets, Event
      <4>2. /\ Len(pending_deaths) \in Nat
            /\ Len(pending_deaths') = Len(pending_deaths) + 1
            /\ pending_deaths'[Len(pending_deaths) + 1] = e
            /\ \A i \in 1..Len(pending_deaths) :
                 pending_deaths'[i] = pending_deaths[i]
        <5>1. e \in CombatEvent
          BY DEF Event, CombatEvent, SessionInv, TypeOK, Projectile
        <5>2. pending_deaths \in Seq(CombatEvent)
          BY DEF SessionInv, TypeOK
        <5> HIDE DEF e
        <5> QED  BY <3>2, <5>1, <5>2, AppendProperties, LenProperties DEF e
      <4> HIDE DEF e
      <4>3. PICK n \in Nat : n = Len(pending_deaths)
        BY <4>2
      <4>4. ASSUME NEW i \in 1..n+1
            PROVE  pending_deaths'[i].shooter # pending_deaths'[i].target
        <5>1. i \in 1..n \/ i = n + 1
          OBVIOUS
        <5> QED  BY <4>1, <4>2, <4>3, <5>1 DEF TwoPlayers
      <4> QED  BY <4>2, <4>3, <4>4 DEF TwoPlayers
    <3> QED  BY <2>1, <3>1, <3>2 DEF Hit
  <2>2. ASSUME NEW p \in PlayerId, NEW s \in 0..MaxSequence,
               NEW fire \in BOOLEAN, ApplyInput(p, s, fire)
        PROVE  pending_deaths' = pending_deaths
    BY <2>2 DEF ApplyInput
  <2>3. ASSUME NEW p \in PlayerId, UpsertPlayer(p) \/ RemovePlayer(p)
        PROVE  pending_deaths' = pending_deaths
    BY <2>3 DEF UpsertPlayer, RemovePlayer
  <2>4. TickStart => pending_deaths' = pending_deaths
    BY DEF TickStart
  <2>5. ASSUME NEW q \in projectiles, Miss(q)
        PROVE  pending_deaths' = pending_deaths
    BY <2>5 DEF Miss
  <2> QED  BY <2>1, <2>2, <2>3, <2>4, <2>5 DEF SessionStep, TickStep
<1> QED  BY <1>2, <1>3, <1>4

\* A death that is taken leaves the session as it is, and is one of two
\* players.
LEMMA SessionTaken ==
  ASSUME SessionPart, pending_deaths # <<>>,
         pending_deaths' = Tail(pending_deaths),
         UNCHANGED <<players, runtime, projectiles, sweep, spawned,
                     hits_total, dead_total, combat_log>>
  PROVE  /\ SessionPart'
         /\ Head(pending_deaths) \in CombatEvent
         /\ Head(pending_deaths).shooter # Head(pending_deaths).target
<1>1. pending_deaths \in Seq(CombatEvent)
  BY DEF SessionPart, SessionInv, TypeOK
<1>2. /\ Tail(pending_deaths) \in Seq(CombatEvent)
      /\ Head(pending_deaths) \in CombatEvent
      /\ Head(pending_deaths) = pending_deaths[1] /\ 1 \in 1..Len(pending_deaths)
      /\ \A i \in 1..Len(Tail(pending_deaths)) :
           /\ Tail(pending_deaths)[i] = pending_deaths[i+1]
           /\ i + 1 \in 1..Len(pending_deaths)
  BY <1>1
<1>3. TwoPlayers(pending_deaths')
  BY <1>2 DEF TwoPlayers, SessionPart
<1>4. TypeOK'
  BY <1>2 DEF TypeOK, SessionPart, SessionInv
<1>5. SessionInv'
  BY <1>4 DEF SessionPart, SessionInv, LifeConsistent, OwnersPresent,
              AccuracyBounded, InFlight, MetricsConsistent
<1> QED  BY <1>2, <1>3, <1>5 DEF TwoPlayers, SessionPart
----------------------------------------------------------------------------
(* The leaderboard. *)

Sound(board) == BoardTyped(board) /\ BoardAgrees(board)

\* Taking a player out of both indexes leaves them in step.
LEMMA Removed ==
  ASSUME NEW board, Sound(board), NEW p \in DOMAIN board.scores
  PROVE  Sound([scores  |-> Restrict(board.scores, DOMAIN board.scores \ {p}),
                ordered |-> RemoveFromOrdered(board.ordered, p, board.scores[p])])
<1> DEFINE D == DOMAIN board.scores
           B == DOMAIN board.ordered
           was == board.scores[p]
           left == board.ordered[was] \ {p}
           lessScores == Restrict(board.scores, D \ {p})
           lessOrdered == RemoveFromOrdered(board.ordered, p, was)
           less == [scores |-> lessScores, ordered |-> lessOrdered]
<1>1. /\ D \subseteq PlayerId /\ IsFiniteSet(D) /\ B \subseteq Int
      /\ \A q \in D : board.scores[q] \in B /\ q \in board.ordered[board.scores[q]]
      /\ \A s \in B : /\ board.ordered[s] \subseteq D /\ board.ordered[s] # {}
                      /\ \A q \in board.ordered[s] : board.scores[q] = s
  BY DEF Sound, BoardTyped, BoardAgrees
<1>2. /\ DOMAIN lessScores = D \ {p}
      /\ \A q \in D \ {p} : lessScores[q] = board.scores[q]
      /\ lessScores = [q \in D \ {p} |-> lessScores[q]]
  BY DEF Restrict
<1>3. /\ DOMAIN lessOrdered = IF left = {} THEN B \ {was} ELSE B
      /\ \A s \in DOMAIN lessOrdered :
           lessOrdered[s] = IF s = was THEN left ELSE board.ordered[s]
      /\ lessOrdered = [s \in DOMAIN lessOrdered |-> lessOrdered[s]]
  <2>1. board.ordered = [s \in B |-> board.ordered[s]]
    BY DEF Sound, BoardTyped
  <2>2. CASE left = {}
    <3>1. lessOrdered = [s \in B \ {was} |-> board.ordered[s]]
      BY <2>2 DEF RemoveFromOrdered, Restrict
    <3> HIDE DEF lessOrdered, was, left
    <3> QED  BY <2>2, <3>1
  <2>3. CASE left # {}
    <3>1. lessOrdered = [board.ordered EXCEPT ![was] = left]
      BY <2>3 DEF RemoveFromOrdered
    <3> HIDE DEF lessOrdered, was, left
    <3> QED  BY <2>1, <2>3, <3>1
  <2> QED  BY <2>2, <2>3
<1>4. IsFiniteSet(D \ {p})
  BY <1>1, FS_RemoveElement
<1>5. was \in B /\ p \in board.ordered[was]
  BY <1>1
<1>6. \A s \in B \ {was} : p \notin board.ordered[s]
  BY <1>1
<1>7. left \subseteq D \ {p}
  BY <1>1, <1>5
<1>8. \A q \in left : board.scores[q] = was
  BY <1>1, <1>5
<1>9. \A q \in D \ {p} : board.scores[q] = was => q \in left
  BY <1>1
<1>10. less.scores = lessScores /\ less.ordered = lessOrdered
  OBVIOUS
<1> HIDE DEF D, B, was, left, lessScores, lessOrdered, less
<1>11. /\ DOMAIN lessOrdered \subseteq B
       /\ \A s \in DOMAIN lessOrdered : /\ lessOrdered[s] \subseteq D \ {p}
                                        /\ lessOrdered[s] # {}
                                        /\ \A q \in lessOrdered[s] : board.scores[q] = s
  BY <1>1, <1>3, <1>5, <1>6, <1>7, <1>8
<1>12. \A q \in D \ {p} : /\ board.scores[q] \in DOMAIN lessOrdered
                          /\ q \in lessOrdered[board.scores[q]]
  BY <1>1, <1>3, <1>5, <1>9
<1>13. BoardTyped(less)
  <2>1. lessScores \in [D \ {p} -> Int]
    BY <1>1, <1>2
  <2>2. lessOrdered \in [DOMAIN lessOrdered -> SUBSET PlayerId]
    <3>1. \A s \in DOMAIN lessOrdered : lessOrdered[s] \in SUBSET PlayerId
      BY <1>1, <1>11
    <3> QED  BY <1>3, <3>1
  <2>3. DOMAIN lessOrdered \subseteq Int /\ D \ {p} \subseteq PlayerId
    BY <1>1, <1>11
  <2> QED  BY <1>2, <1>4, <1>10, <2>1, <2>2, <2>3 DEF BoardTyped
<1>14. BoardAgrees(less)
  BY <1>2, <1>10, <1>11, <1>12 DEF BoardAgrees
<1> QED  BY <1>13, <1>14 DEF Sound, less, lessScores, lessOrdered, D, was

\* Entering a player that is on neither keeps them in step.
LEMMA Entered ==
  ASSUME NEW board, Sound(board), NEW p \in PlayerId, NEW score \in Int,
         p \notin DOMAIN board.scores
  PROVE  LET here == IF score \in DOMAIN board.ordered
                     THEN board.ordered[score] ELSE {}
         IN  Sound([scores  |-> Put(board.scores, p, score),
                    ordered |-> Put(board.ordered, score, here \union {p})])
<1> DEFINE D == DOMAIN board.scores
           B == DOMAIN board.ordered
           here == IF score \in B THEN board.ordered[score] ELSE {}
           moreScores == Put(board.scores, p, score)
           moreOrdered == Put(board.ordered, score, here \union {p})
           more == [scores |-> moreScores, ordered |-> moreOrdered]
<1>1. /\ D \subseteq PlayerId /\ IsFiniteSet(D) /\ B \subseteq Int
      /\ \A q \in D : /\ board.scores[q] \in B /\ board.scores[q] \in Int
                      /\ q \in board.ordered[board.scores[q]]
      /\ \A s \in B : /\ board.ordered[s] \subseteq D /\ board.ordered[s] # {}
                      /\ \A q \in board.ordered[s] : board.scores[q] = s
  BY DEF Sound, BoardTyped, BoardAgrees
<1>2. moreScores = [q \in D \union {p} |-> IF q = p THEN score ELSE board.scores[q]]
  BY DEF Put
<1>3. moreOrdered = [s \in B \union {score} |->
                       IF s = score THEN here \union {p} ELSE board.ordered[s]]
  BY DEF Put
<1>4. IsFiniteSet(D \union {p})
  BY <1>1, FS_AddElement
<1>5. here \subseteq D /\ \A q \in here : board.scores[q] = score
  BY <1>1
<1>6. \A q \in D : board.scores[q] = score => q \in here
  BY <1>1
<1>7. more.scores = moreScores /\ more.ordered = moreOrdered /\ p \notin D
  OBVIOUS
<1> HIDE DEF D, B, here, moreScores, moreOrdered, more
<1>8. DOMAIN moreScores = D \union {p} /\ DOMAIN moreOrdered = B \union {score}
  BY <1>2, <1>3
<1>9. BoardTyped(more)
  <2>1. moreScores \in [D \union {p} -> Int]
    BY <1>1, <1>2
  <2>2. moreOrdered \in [B \union {score} -> SUBSET PlayerId]
    BY <1>1, <1>3, <1>5
  <2>3. D \union {p} \subseteq PlayerId /\ B \union {score} \subseteq Int
    BY <1>1
  <2> QED  BY <1>4, <1>7, <1>8, <2>1, <2>2, <2>3 DEF BoardTyped
<1>10. BoardAgrees(more)
  <2>1. \A s \in B \union {score} :
          moreOrdered[s] # {} /\ \A q \in moreOrdered[s] :
            q \in D \union {p} /\ moreScores[q] = s
    BY <1>1, <1>2, <1>3, <1>5, <1>7
  <2>2. \A q \in D \union {p} : /\ moreScores[q] \in B \union {score}
                               /\ q \in moreOrdered[moreScores[q]]
    BY <1>1, <1>2, <1>3, <1>6, <1>7
  <2> QED  BY <1>7, <1>8, <2>1, <2>2 DEF BoardAgrees
<1> QED  BY <1>9, <1>10 DEF Sound, more, moreScores, moreOrdered, here, B

\* An upsert keeps the indexes in step and changes the score of one player.
LEMMA Upserted ==
  ASSUME NEW board, Sound(board), NEW p \in PlayerId, NEW score \in Int
  PROVE  /\ Sound(Upsert(board, p, score))
         /\ Upsert(board, p, score).scores =
              [q \in DOMAIN board.scores \union {p} |->
                 IF q = p THEN score ELSE board.scores[q]]
<1> DEFINE D == DOMAIN board.scores
           was == board.scores[p]
           base == IF p \in D
                   THEN [scores  |-> Restrict(board.scores, D \ {p}),
                         ordered |-> RemoveFromOrdered(board.ordered, p, was)]
                   ELSE [scores |-> board.scores, ordered |-> board.ordered]
           here == IF score \in DOMAIN base.ordered
                   THEN base.ordered[score] ELSE {}
           new == [scores  |-> Put(board.scores, p, score),
                   ordered |-> Put(base.ordered, score, here \union {p})]
<1>1. board.scores = [q \in D |-> board.scores[q]]
  BY DEF Sound, BoardTyped
<1>2. new.scores = [q \in D \union {p} |-> IF q = p THEN score ELSE board.scores[q]]
  BY DEF Put
<1>3. CASE p \in D /\ was = score
  <2>1. Upsert(board, p, score) = board
    BY <1>3 DEF Upsert
  <2>2. board.scores = [q \in D \union {p} |-> IF q = p THEN score ELSE board.scores[q]]
    BY <1>1, <1>3
  <2> QED  BY <2>1, <2>2
<1>4. CASE ~ (p \in D /\ was = score)
  <2>1. Upsert(board, p, score) = new
    BY <1>4 DEF Upsert, Buckets
  <2>2. Sound(base) /\ p \notin DOMAIN base.scores
    <3>1. CASE p \in D
      <4>1. DOMAIN base.scores = D \ {p}
        BY <3>1 DEF Restrict
      <4> QED  BY <3>1, <4>1, Removed
    <3>2. CASE p \notin D
      BY <3>2 DEF Sound, BoardTyped, BoardAgrees
    <3> QED  BY <3>1, <3>2
  <2>3. Put(base.scores, p, score) = new.scores
    <3>1. CASE p \in D
      BY <3>1 DEF Put, Restrict
    <3>2. CASE p \notin D
      BY <3>2 DEF Put
    <3> QED  BY <3>1, <3>2
  <2>4. Sound([scores  |-> Put(base.scores, p, score),
               ordered |-> Put(base.ordered, score, here \union {p})])
    <3> HIDE DEF base
    <3> QED  BY <2>2, Entered DEF here
  <2>5. Sound(new)
    <3> HIDE DEF base, here
    <3> QED  BY <2>3, <2>4
  <2> QED  BY <1>2, <2>1, <2>5
<1> QED  BY <1>3, <1>4
----------------------------------------------------------------------------
(* What the leaderboard shows. *)

\* How many come before e.
Place(E, e) == Cardinality({f \in E : Before(f, e)})

\* Before orders entries totally.
LEMMA BeforeOrders ==
  /\ \A e \in Nat \X Int : ~ Before(e, e)
  /\ \A e, f \in Nat \X Int : e = f \/ Before(e, f) \/ Before(f, e)
  /\ \A e, f \in Nat \X Int : ~ (Before(e, f) /\ Before(f, e))
  /\ \A e, f, g \in Nat \X Int : Before(e, f) /\ Before(f, g) => Before(e, g)
  BY DEF Before

\* The places of n entries are 0 to n - 1, in the order of the entries.
LEMMA Places ==
  ASSUME NEW E, IsFiniteSet(E), E \subseteq Nat \X Int
  PROVE  /\ \A e \in E : Place(E, e) \in 0 .. Cardinality(E) - 1
         /\ \A e, f \in E : Before(e, f) => Place(E, e) < Place(E, f)
         /\ \A k \in 0 .. Cardinality(E) - 1 : \E e \in E : Place(E, e) = k
<1> DEFINE n == Cardinality(E)
           Ahead(e) == {f \in E : Before(f, e)}
<1>1. n \in Nat
  BY FS_CardinalityType
<1>2. \A e : /\ IsFiniteSet(Ahead(e)) /\ Cardinality(Ahead(e)) \in Nat
             /\ Ahead(e) \in SUBSET E /\ Place(E, e) = Cardinality(Ahead(e))
  <2> TAKE e
  <2>1. Ahead(e) \in SUBSET E
    OBVIOUS
  <2>2. IsFiniteSet(Ahead(e))
    <3> HIDE DEF Ahead
    <3> QED  BY <2>1, FS_Subset
  <2> QED  BY <2>1, <2>2, FS_CardinalityType DEF Place
<1>3. ASSUME NEW e \in E
      PROVE  Place(E, e) \in 0 .. n - 1
  <2>1. e \notin Ahead(e)
    BY BeforeOrders
  <2> HIDE DEF Ahead
  <2>2. Ahead(e) # E
    BY <2>1
  <2>3. Cardinality(Ahead(e)) <= n /\ Cardinality(Ahead(e)) # n
    BY <1>2, <2>2, FS_Subset
  <2> HIDE DEF n
  <2> QED  BY <1>1, <1>2, <2>3
<1>4. ASSUME NEW e \in E, NEW f \in E, Before(e, f)
      PROVE  Place(E, e) < Place(E, f)
  <2>1. Ahead(e) \subseteq Ahead(f)
    BY <1>4, BeforeOrders
  <2>2. e \in Ahead(f) /\ e \notin Ahead(e)
    BY <1>4, BeforeOrders
  <2> HIDE DEF Ahead
  <2>3. /\ Cardinality(Ahead(e)) <= Cardinality(Ahead(f))
        /\ Cardinality(Ahead(e)) # Cardinality(Ahead(f))
    <3>1. Ahead(e) # Ahead(f)
      BY <2>2
    <3> QED  BY <1>2, <2>1, <3>1, FS_Subset
  <2> QED  BY <1>2, <2>3
<1>5. ASSUME NEW k \in 0 .. n - 1
      PROVE  \E e \in E : Place(E, e) = k
  <2> DEFINE place == [e \in E |-> Place(E, e)]
  <2>1. place \in Injection(E, 0 .. n - 1)
    <3>1. place \in [E -> 0 .. n - 1]
      BY <1>3
    <3>2. ASSUME NEW e \in E, NEW f \in E, e # f
          PROVE  place[e] # place[f]
      <4>1. Before(e, f) \/ Before(f, e)
        BY <3>2, BeforeOrders
      <4>2. place[e] \in 0 .. n - 1 /\ place[f] \in 0 .. n - 1
        BY <1>3
      <4>3. place[e] < place[f] \/ place[f] < place[e]
        BY <1>4, <4>1
      <4> HIDE DEF place
      <4> QED  BY <4>2, <4>3
    <3> HIDE DEF place
    <3> QED  BY <3>1, <3>2 DEF Injection, IsInjective
  <2>2. IsFiniteSet(0 .. n - 1) /\ Cardinality(0 .. n - 1) = n
    BY <1>1, FS_Interval
  <2>3. place \in Surjection(E, 0 .. n - 1)
    <3> HIDE DEF place
    <3> QED  BY <2>1, <2>2, FS_Injection
  <2> QED  BY <2>3 DEF Surjection
<1> QED  BY <1>3, <1>4, <1>5

\* The entries are the players on the board with their scores.
LEMMA EntriesAre ==
  ASSUME Sound(Board)
  PROVE  /\ Entries = {<<p, scores[p]>> : p \in DOMAIN scores}
         /\ Entries \subseteq Nat \X Int
         /\ IsFiniteSet(Entries)
         /\ Cardinality(Entries) = Cardinality(DOMAIN scores)
<1>1. /\ DOMAIN scores \subseteq PlayerId /\ IsFiniteSet(DOMAIN scores)
      /\ \A p \in DOMAIN scores : /\ scores[p] \in DOMAIN ordered
                                 /\ p \in ordered[scores[p]]
                                 /\ scores[p] \in Int
      /\ \A s \in DOMAIN ordered : \A p \in ordered[s] :
           p \in DOMAIN scores /\ scores[p] = s
  BY DEF Sound, BoardTyped, BoardAgrees, Board
<1>2. Entries = {<<p, scores[p]>> : p \in DOMAIN scores}
  BY <1>1 DEF Entries
<1>3. Entries \subseteq Nat \X Int
  <2>1. \A p \in DOMAIN scores : p \in Nat /\ scores[p] \in Int
    BY <1>1, StatisticsAssumption
  <2> QED  BY <1>2, <2>1
<1> DEFINE entry == [p \in DOMAIN scores |-> <<p, scores[p]>>]
<1>4. entry \in Bijection(DOMAIN scores, Entries)
  <2>1. entry \in [DOMAIN scores -> Entries]
    BY <1>2
  <2>2. \A p, q \in DOMAIN scores : entry[p] = entry[q] => p = q
    OBVIOUS
  <2>3. \A e \in Entries : \E p \in DOMAIN scores : entry[p] = e
    BY <1>2
  <2> HIDE DEF entry
  <2> QED  BY <2>1, <2>2, <2>3 DEF Bijection, Injection, Surjection, IsInjective
<1>5. ExistsBijection(DOMAIN scores, Entries)
  BY <1>4 DEF ExistsBijection
<1> QED  BY <1>1, <1>2, <1>3, <1>5, FS_Bijection

\* TopN's walk shows everybody once, best first.
LEMMA RankingIs ==
  ASSUME Sound(Board), NEW n, n = Cardinality(DOMAIN scores)
  PROVE  /\ n \in Nat /\ Ranking \in Seq(Entries) /\ Len(Ranking) = n
         /\ \A i, j \in 1..n : i < j => Before(Ranking[i], Ranking[j])
         /\ \A p \in DOMAIN scores : \E i \in 1..n : Ranking[i] = <<p, scores[p]>>
<1>1. /\ Entries = {<<p, scores[p]>> : p \in DOMAIN scores}
      /\ Entries \subseteq Nat \X Int /\ IsFiniteSet(Entries)
      /\ Cardinality(Entries) = n
  BY EntriesAre
<1>2. n \in Nat
  BY <1>1, FS_CardinalityType
<1>3. Ranking = [i \in 1..n |-> CHOOSE e \in Entries : Place(Entries, e) = i - 1]
  BY <1>1 DEF Ranking, Place
<1>4. ASSUME NEW i \in 1..n
      PROVE  Ranking[i] \in Entries /\ Place(Entries, Ranking[i]) = i - 1
  <2>1. i - 1 \in 0 .. n - 1
    BY <1>2
  <2>2. \E e \in Entries : Place(Entries, e) = i - 1
    BY <1>1, <2>1, Places
  <2> QED  BY <1>3, <2>2
<1>5. Ranking \in Seq(Entries) /\ Len(Ranking) = n
  BY <1>2, <1>3, <1>4
<1>6. ASSUME NEW i \in 1..n, NEW j \in 1..n, i < j
      PROVE  Before(Ranking[i], Ranking[j])
  <2> DEFINE e == Ranking[i]
             f == Ranking[j]
  <2>1. /\ e \in Entries /\ f \in Entries
        /\ Place(Entries, e) = i - 1 /\ Place(Entries, f) = j - 1
    BY <1>4
  <2> HIDE DEF e, f
  <2>2. e # f
    BY <1>6, <2>1
  <2>3. ~ Before(f, e)
    <3>1. Before(f, e) => Place(Entries, f) < Place(Entries, e)
      BY <1>1, <2>1, Places
    <3> QED  BY <1>6, <2>1, <3>1
  <2>4. Before(e, f)
    BY <1>1, <2>1, <2>2, <2>3, BeforeOrders
  <2> QED  BY <2>4 DEF e, f
<1>7. ASSUME NEW p \in DOMAIN scores
      PROVE  \E i \in 1..n : Ranking[i] = <<p, scores[p]>>
  <2> DEFINE e == <<p, scores[p]>>
             k == Place(Entries, e)
  <2>1. e \in Entries
    BY <1>1
  <2>2. k \in 0 .. n - 1
    <3> HIDE DEF e
    <3> QED  BY <1>1, <2>1, Places
  <2> HIDE DEF e
  <2>3. PICK i \in 1..n : i - 1 = k
    <3> HIDE DEF k
    <3>1. \A m \in 0 .. n - 1 : m + 1 \in 1..n /\ m + 1 - 1 = m
      BY <1>2
    <3> QED  BY <2>2, <3>1
  <2> DEFINE f == Ranking[i]
  <2>4. f \in Entries /\ Place(Entries, f) = k
    BY <1>4, <2>3
  <2>5. f = e
    <3> HIDE DEF f
    <3>1. /\ Before(e, f) => Place(Entries, e) < Place(Entries, f)
          /\ Before(f, e) => Place(Entries, f) < Place(Entries, e)
      BY <1>1, <2>1, <2>4, Places
    <3>2. ~ Before(e, f) /\ ~ Before(f, e)
      BY <2>2, <2>4, <3>1
    <3> QED  BY <1>1, <2>1, <2>4, <3>2, BeforeOrders
  <2> QED  BY <2>3, <2>5 DEF e
<1> QED  BY <1>2, <1>5, <1>6, <1>7

\* TopProfiles drops nobody whose profile there is, and shows the ratings.
LEMMA ProfilesOfKnown ==
  ASSUME NEW R, NEW list \in Seq(R),
         \A i \in 1..Len(list) :
           /\ list[i][1] \in DOMAIN aggregates
           /\ list[i] = <<list[i][1], aggregates[list[i][1]].rating>>
  PROVE  Profiles(list) = list
<1> DEFINE n == Len(list)
           Turn(f) == [t \in SUBSET (1 .. n) |->
             IF t = {} THEN <<>>
             ELSE IF list[Max(t)][1] \in DOMAIN aggregates
                  THEN Append(f[t \ {Max(t)}],
                              <<list[Max(t)][1],
                                aggregates[list[Max(t)][1]].rating>>)
                  ELSE f[t \ {Max(t)}]]
           iter == CHOOSE f : f = Turn(f)
           pick == [t \in SUBSET (1 .. n) |-> IF t = {} THEN 1 ELSE Max(t)]
           g == [e \in (1 .. n) \X Seq(R) |-> Append(e[2], list[e[1]])]
<1>1. n \in Nat /\ DOMAIN list = 1 .. n /\ \A i \in 1 .. n : list[i] \in R
  BY LenProperties, ElementOfSeq
<1>2. Profiles(list) = iter[1 .. n]
  BY <1>1 DEF Profiles, FoldLeft, MapThenFoldSet
<1>3. CASE n = 0
  <2>1. list = <<>>
    BY <1>3, EmptySeq
  <2>2. 1 .. n = {}
    BY <1>3
  <2>3. \E f : f = Turn(f)
    <3> DEFINE f == [t \in SUBSET (1 .. n) |-> <<>>]
    <3>1. f = Turn(f)
      BY <2>2
    <3> QED  BY <3>1
  <2>4. iter = Turn(iter)
    BY <2>3
  <2> HIDE DEF iter
  <2>5. iter[1 .. n] = <<>>
    BY <2>2, <2>4
  <2> QED  BY <1>2, <2>1, <2>5
<1>4. CASE n # 0
  <2>1. \A t \in SUBSET (1 .. n) : t # {} =>
          /\ Max(t) \in t /\ pick[t] = Max(t)
          /\ list[Max(t)][1] \in DOMAIN aggregates
          /\ list[Max(t)] = <<list[Max(t)][1], aggregates[list[Max(t)][1]].rating>>
    BY <1>1, MaxOf
  <2>2. pick \in [SUBSET (1 .. n) -> 1 .. n]
    <3>1. 1 \in 1 .. n
      BY <1>1, <1>4
    <3> QED  BY <2>1, <3>1
  <2>3. g \in [(1 .. n) \X Seq(R) -> Seq(R)]
    <3>1. \A e \in (1 .. n) \X Seq(R) : Append(e[2], list[e[1]]) \in Seq(R)
      BY <1>1, AppendProperties
    <3> QED  BY <3>1
  <2>4. PICK f : Recurs(f, g, <<>>, pick, 1 .. n, Seq(R))
    <3>1. IsFiniteSet(1 .. n) /\ <<>> \in Seq(R)
      BY <1>1, FS_Interval
    <3>2. \A t \in SUBSET (1 .. n) : t # {} => pick[t] \in t
      BY <2>1
    <3> HIDE DEF g, pick, n
    <3> QED  BY <2>2, <2>3, <3>1, <3>2, RecursionExists
  <2>5. f = Turn(f)
    <3>1. ASSUME NEW t \in SUBSET (1 .. n)
          PROVE  f[t] = Turn(f)[t]
      <4>1. CASE t = {}
        BY <2>4, <4>1 DEF Recurs
      <4>2. CASE t # {}
        <5>1. f[t] = g[<<pick[t], f[t \ {pick[t]}]>>]
          BY <2>4, <4>2 DEF Recurs
        <5>2. pick[t] \in 1 .. n /\ f[t \ {pick[t]}] \in Seq(R) /\ pick[t] = Max(t)
          BY <2>1, <2>2, <2>4, <4>2 DEF Recurs
        <5>3. f[t] = Append(f[t \ {Max(t)}], list[Max(t)])
          <6> HIDE DEF pick
          <6> QED  BY <5>1, <5>2
        <5> HIDE DEF pick, g
        <5> QED  BY <2>1, <4>2, <5>3
      <4> QED  BY <4>1, <4>2
    <3>2. f \in [SUBSET (1 .. n) -> Seq(R)]
      BY <2>4 DEF Recurs
    <3> HIDE DEF pick, g
    <3> QED  BY <3>1, <3>2
  <2>6. iter = Turn(iter)
    BY <2>5
  <2>7. /\ iter[{}] = <<>>
         /\ \A t \in SUBSET (1 .. n) : t # {} =>
              iter[t] = Append(iter[t \ {Max(t)}],
                               <<list[Max(t)][1], aggregates[list[Max(t)][1]].rating>>)
    <3> HIDE DEF iter, pick, g, n
    <3>1. \A t \in SUBSET (1 .. n) : iter[t] = Turn(iter)[t]
      <4> HIDE DEF Turn
      <4> QED  BY <2>6
    <3>2. Turn(iter)[{}] = <<>>
      OBVIOUS
    <3>3. ASSUME NEW t \in SUBSET (1 .. n), t # {}
          PROVE  Turn(iter)[t] = Append(iter[t \ {Max(t)}],
                    <<list[Max(t)][1], aggregates[list[Max(t)][1]].rating>>)
      BY <2>1, <3>3
    <3> HIDE DEF Turn
    <3> QED  BY <3>1, <3>2, <3>3
  <2> HIDE DEF iter, pick, g, Turn
  <2>8. ASSUME NEW k \in 1 .. n
        PROVE  iter[1 .. k] = Append(iter[1 .. k-1], list[k])
    <3>1. /\ 1 .. k \in SUBSET (1 .. n) /\ 1 .. k # {} /\ (1 .. k) \ {k} = 1 .. k-1
          /\ Max(1 .. k) = k
      BY <1>1, LastOfRange
    <3>2. iter[1 .. k] =
            Append(iter[(1 .. k) \ {k}],
                   <<list[k][1], aggregates[list[k][1]].rating>>)
      BY <2>7, <3>1
    <3>3. list[k] = <<list[k][1], aggregates[list[k][1]].rating>>
      OBVIOUS
    <3> QED  BY <3>1, <3>2, <3>3
  <2>9. \A k \in 0 .. n : iter[1 .. k] = SubSeq(list, 1, k)
    <3> DEFINE T == {k \in 0 .. n : iter[1 .. k] = SubSeq(list, 1, k)}
    <3>1. 0 \in T
      <4>1. 1 .. 0 = {} /\ SubSeq(list, 1, 0) = <<>>
        OBVIOUS
      <4>2. iter[1 .. 0] = <<>>
        BY <2>7, <4>1
      <4>3. iter[1 .. 0] = SubSeq(list, 1, 0)
        BY <4>1, <4>2
      <4> QED  BY <1>1, <4>3
    <3>2. ASSUME NEW k \in 1 .. n, k - 1 \in T
          PROVE  k \in T
      <4>1. Append(SubSeq(list, 1, k-1), list[k]) = SubSeq(list, 1, k)
        BY <1>1
      <4>2. iter[1 .. k-1] = SubSeq(list, 1, k-1)
        BY <3>2
      <4>3. iter[1 .. k] = SubSeq(list, 1, k)
        BY <2>8, <4>1, <4>2
      <4> QED  BY <1>1, <4>3
    <3>3. \A k \in 0 .. n : k \in T
      <4> HIDE DEF T, n
      <4> QED  BY <1>1, <3>1, <3>2, UpTo
    <3> QED  BY <3>3
  <2>10. SubSeq(list, 1, n) = list
    BY <1>1
  <2> QED  BY <1>1, <1>2, <2>9, <2>10
<1> QED  BY <1>3, <1>4

\* The board that agrees with itself and with the profiles shows the best.
LEMMA TopIsRight ==
  ASSUME Sound(Board), RatingsShown
  PROVE  RankingIsRight
<1> DEFINE n == Cardinality(DOMAIN scores)
<1>1. /\ n \in Nat /\ Ranking \in Seq(Entries) /\ Len(Ranking) = n
      /\ \A i, j \in 1..n : i < j => Before(Ranking[i], Ranking[j])
      /\ \A p \in DOMAIN scores : \E i \in 1..n : Ranking[i] = <<p, scores[p]>>
  BY RankingIs
<1>2. Entries = {<<p, scores[p]>> : p \in DOMAIN scores}
  BY EntriesAre
<1> HIDE DEF n
<1> SUFFICES ASSUME NEW limit \in 0 .. n + 1
             PROVE  LET top == TopProfiles(limit)
                        named == {top[i][1] : i \in 1..Len(top)}
                    IN  /\ Len(top) = Min({limit, n})
                        /\ \A i, j \in 1..Len(top) : i < j => Before(top[i], top[j])
                        /\ \A p \in DOMAIN scores \ named : \A i \in 1..Len(top) :
                             Before(top[i], <<p, scores[p]>>)
  BY DEF RankingIsRight, n
<1>3. PICK m \in 0 .. n : m = IF limit < n THEN limit ELSE n
  BY <1>1
<1>4. Min({limit, n}) = m
  <2>1. \A x, y \in Nat : Min({x, y}) = IF x < y THEN x ELSE y
    BY DEF Min
  <2> QED  BY <1>1, <1>3, <2>1
<1> DEFINE list == SubSeq(Ranking, 1, m)
<1>5. TopN(limit) = list
  BY <1>1, <1>3 DEF TopN
<1>6. /\ list \in Seq(Entries) /\ Len(list) = m
      /\ \A i \in 1..m : list[i] = Ranking[i] /\ list[i] \in Entries
  <2>1. \A i \in 1..m : Ranking[i] \in Entries /\ i \in 1..n
    BY <1>1, ElementOfSeq
  <2> QED  BY <1>1, <2>1, SubSeqProperties
<1> HIDE DEF list
<1>7. TopProfiles(limit) = list
  <2>1. ASSUME NEW i \in 1..Len(list)
        PROVE  /\ list[i][1] \in DOMAIN aggregates
               /\ list[i] = <<list[i][1], aggregates[list[i][1]].rating>>
    <3>1. PICK p \in DOMAIN scores : list[i] = <<p, scores[p]>>
      BY <1>2, <1>6
    <3> QED  BY <3>1 DEF RatingsShown
  <2>2. Profiles(list) = list
    BY <1>6, <2>1, ProfilesOfKnown
  <2> QED  BY <1>5, <2>2 DEF TopProfiles
<1>8. ASSUME NEW i \in 1..m, NEW j \in 1..m, i < j
      PROVE  Before(list[i], list[j])
  <2>1. i \in 1..n /\ j \in 1..n
    BY <1>1
  <2> QED  BY <1>1, <1>6, <1>8, <2>1
<1>9. ASSUME NEW p \in DOMAIN scores, p \notin {list[i][1] : i \in 1..m},
             NEW i \in 1..m
      PROVE  Before(list[i], <<p, scores[p]>>)
  <2>1. PICK j \in 1..n : Ranking[j] = <<p, scores[p]>>
    BY <1>1
  <2>2. j \notin 1..m
    <3>1. j \in 1..m => list[j][1] = p
      BY <1>6, <2>1
    <3> QED  BY <1>9, <3>1
  <2>3. i \in 1..n /\ i < j
    BY <1>1, <2>2
  <2> QED  BY <1>1, <1>6, <2>1, <2>3
<1> QED  BY <1>4, <1>6, <1>7, <1>8, <1>9
----------------------------------------------------------------------------
(* One match. *)

PlayerMatchStats ==
  [shots_fired : Nat, hits_landed : Nat, kills : Nat, deaths : Nat,
   damage_dealt : Nat, damage_taken : Nat]

\* The events of the log are finitely many.
LEMMA EventsFinite ==
  ASSUME TypeOK, NEW type, NEW role, NEW who
  PROVE  /\ IsFiniteSet(EventsOf(type, role, who))
         /\ Cardinality(EventsOf(type, role, who)) \in Nat
<1>1. Len(combat_log) \in Nat
  BY LenProperties DEF TypeOK
<1>2. IsFiniteSet(1..Len(combat_log))
  BY <1>1, FS_Interval
<1>3. EventsOf(type, role, who) \in SUBSET (1..Len(combat_log))
  BY DEF EventsOf
<1> QED  BY <1>2, <1>3, FS_Subset, FS_CardinalityType

\* What is said of a participant: no accuracy above one, a kill for the
\* winner, a death for the loser.
LEMMA MatchStatsAre ==
  ASSUME SessionPart, NEW death \in CombatEvent, NEW p \in PlayerId
  PROVE  LET s == MatchStats(death, p) IN
         /\ s \in PlayerMatchStats
         /\ s.hits_landed <= s.shots_fired
         /\ p = death.shooter => s.kills >= 1
         /\ p = death.target => s.deaths >= 1
         /\ s.damage_dealt = Damage * Cardinality(EventsOf("Hit", "shooter", p))
         /\ s.damage_taken = Damage * Cardinality(EventsOf("Hit", "target", p))
<1> DEFINE here == p \in players
           killed == Cardinality(EventsOf("Death", "shooter", p))
           hit == Cardinality(EventsOf("Hit", "shooter", p))
           taken == Cardinality(EventsOf("Hit", "target", p))
           died == p = death.target \/ EventsOf("Death", "target", p) # {}
           s == MatchStats(death, p)
<1>1. /\ TypeOK /\ AccuracyBounded
  BY DEF SessionPart, SessionInv
<1>2. killed \in Nat /\ hit \in Nat /\ taken \in Nat
  BY <1>1, EventsFinite
<1>3. /\ runtime[p].shots_fired \in Nat /\ runtime[p].hits_landed \in Nat
      /\ runtime[p].deaths \in Nat
  BY <1>1 DEF TypeOK, Runtime
<1>4. runtime[p].hits_landed <= runtime[p].shots_fired
  <2>1. Cardinality(InFlight(p)) \in Nat
    <3>1. IsFiniteSet(projectiles) /\ InFlight(p) \in SUBSET projectiles
      BY DEF SessionPart, SessionInv, InFlight
    <3> QED  BY <3>1, FS_Subset, FS_CardinalityType
  <2> QED  BY <1>1, <1>3, <2>1 DEF AccuracyBounded
<1>5. \A k \in Nat : k * Damage \in Nat /\ Damage * k \in Nat
  BY ConstantsAssumption
<1>6. s = [shots_fired  |-> IF here THEN runtime[p].shots_fired ELSE 0,
           hits_landed  |-> IF here THEN runtime[p].hits_landed ELSE 0,
           kills        |-> AtLeast(killed, IF p = death.shooter THEN 1 ELSE 0),
           deaths       |-> AtLeast(IF here THEN runtime[p].deaths ELSE 0,
                                    IF died THEN 1 ELSE 0),
           damage_dealt |-> Damage * hit,
           damage_taken |-> Damage * taken]
  BY DEF MatchStats
<1> HIDE DEF here, killed, hit, taken, s
<1>7. /\ s.shots_fired \in Nat /\ s.hits_landed \in Nat
      /\ s.hits_landed <= s.shots_fired
  BY <1>3, <1>4, <1>6
<1>8. s.kills \in Nat /\ (p = death.shooter => s.kills >= 1)
  BY <1>2, <1>6 DEF AtLeast
<1>9. s.deaths \in Nat /\ (p = death.target => s.deaths >= 1)
  <2>1. s.deaths = AtLeast(IF here THEN runtime[p].deaths ELSE 0,
                           IF died THEN 1 ELSE 0)
    BY <1>6
  <2>2. p = death.target => died
    OBVIOUS
  <2> HIDE DEF died
  <2> QED  BY <1>3, <2>1, <2>2 DEF AtLeast
<1>10. /\ s.damage_dealt = Damage * hit /\ s.damage_taken = Damage * taken
       /\ s.damage_dealt \in Nat /\ s.damage_taken \in Nat
  BY <1>2, <1>5, <1>6
<1>11. s \in PlayerMatchStats
  BY <1>6, <1>7, <1>8, <1>9, <1>10 DEF PlayerMatchStats
<1> QED  BY <1>7, <1>8, <1>9, <1>10, <1>11 DEF s, hit, taken

\* What a match adds to a profile.
LEMMA AccumulatedIs ==
  ASSUME NEW a \in Profile, NEW s \in PlayerMatchStats
  PROVE  LET b == Accumulated(a, s) IN
         /\ b \in Profile
         /\ b.matches = a.matches + 1
         /\ b.wins = a.wins /\ b.losses = a.losses /\ b.rating = a.rating
         /\ b.kills = a.kills + s.kills /\ b.deaths = a.deaths + s.deaths
         /\ b.shots_fired = a.shots_fired + s.shots_fired
         /\ b.hits_landed = a.hits_landed + s.hits_landed
         /\ b.damage_dealt = a.damage_dealt + s.damage_dealt
         /\ b.damage_taken = a.damage_taken + s.damage_taken
<1>1. /\ a.matches + 1 \in Nat /\ a.kills + s.kills \in Nat
      /\ a.deaths + s.deaths \in Nat /\ a.shots_fired + s.shots_fired \in Nat
      /\ a.hits_landed + s.hits_landed \in Nat
      /\ a.damage_dealt + s.damage_dealt \in Nat
      /\ a.damage_taken + s.damage_taken \in Nat
  BY DEF Profile, PlayerMatchStats
<1> QED  BY <1>1, Zenon DEF Accumulated, Profile

\* A profile that is new is well-typed.
LEMMA NewProfileType == NewProfile \in Profile
  BY StatisticsAssumption DEF NewProfile, Profile

\* Winner and loser gain nothing together but the point of an even match.
LEMMA GainAndLoss ==
  ASSUME NEW d \in Int
  PROVE  /\ Gain(d) \in Int /\ Loss(d) \in Int
         /\ Gain(d) - Loss(d) = IF d = 0 THEN 1 ELSE 0
<1>1. PICK low \in Int, high \in Int : low = -677 /\ high = 676
  OBVIOUS
<1>2. IsFiniteSet(low .. high) /\ {step \in GainSteps : d <= step} \in SUBSET (low .. high)
  <2>1. IsFiniteSet(low .. high)
    BY FS_Interval
  <2>2. {step \in GainSteps : d <= step} \in SUBSET (low .. high)
    BY <1>1 DEF GainSteps
  <2> QED  BY <2>1, <2>2
<1>3. Gain(d) \in Nat
  <2> DEFINE steps == {step \in GainSteps : d <= step}
  <2>1. IsFiniteSet(steps)
    <3> HIDE DEF steps
    <3> QED  BY <1>2, FS_Subset DEF steps
  <2>2. Cardinality(steps) \in Nat
    <3> HIDE DEF steps
    <3> QED  BY <2>1, FS_CardinalityType
  <2> QED  BY <2>2 DEF Gain
<1> QED  BY <1>3 DEF Loss

\* The log names players only.
LEMMA ParticipantsAre ==
  ASSUME SessionPart, NEW death \in CombatEvent
  PROVE  /\ Participants(death) \subseteq PlayerId
         /\ IsFiniteSet(Participants(death))
         /\ death.shooter \in Participants(death)
         /\ death.target \in Participants(death)
<1> DEFINE shooters == {combat_log[i].shooter : i \in 1..Len(combat_log)}
           targets == {combat_log[i].target : i \in 1..Len(combat_log)}
<1>1. combat_log \in Seq(CombatEvent) /\ players \subseteq PlayerId /\ IsFiniteSet(players)
  BY DEF SessionPart, SessionInv, TypeOK
<1>2. \A i \in 1..Len(combat_log) :
        combat_log[i].shooter \in PlayerId /\ combat_log[i].target \in PlayerId
  <2>1. \A i \in 1..Len(combat_log) : combat_log[i] \in CombatEvent
    BY <1>1, ElementOfSeq
  <2> QED  BY <2>1 DEF CombatEvent
<1>3. IsFiniteSet(1..Len(combat_log))
  BY <1>1, LenProperties, FS_Interval
<1>4. IsFiniteSet(shooters) /\ IsFiniteSet(targets)
  <2> DEFINE s == [i \in 1..Len(combat_log) |-> combat_log[i].shooter]
             t == [i \in 1..Len(combat_log) |-> combat_log[i].target]
  <2>1. s \in Surjection(1..Len(combat_log), shooters)
    BY DEF Surjection
  <2>2. t \in Surjection(1..Len(combat_log), targets)
    BY DEF Surjection
  <2> HIDE DEF s, t, shooters, targets
  <2> QED  BY <1>3, <2>1, <2>2, FS_Surjection
<1>5. IsFiniteSet({death.shooter, death.target})
  <2>1. {death.shooter, death.target} = {death.shooter} \union {death.target}
    OBVIOUS
  <2>2. IsFiniteSet({death.shooter}) /\ IsFiniteSet({death.target})
    BY FS_Singleton
  <2>3. IsFiniteSet({death.shooter} \union {death.target})
    BY <2>2, FS_Union
  <2> QED  BY <2>1, <2>3
<1>6. Participants(death) =
        ((players \union {death.shooter, death.target}) \union shooters) \union targets
  BY DEF Participants
<1>7. IsFiniteSet(Participants(death))
  <2> HIDE DEF shooters, targets
  <2> QED  BY <1>1, <1>4, <1>5, <1>6, FS_Union
<1>8. Participants(death) \subseteq PlayerId
  BY <1>1, <1>2, <1>6 DEF CombatEvent
<1> QED  BY <1>6, <1>7, <1>8

\* The profiles after the loop over the participants.
LEMMA AccumulateIs ==
  ASSUME SessionPart, ProfilesTyped, NEW death \in CombatEvent,
         NEW p \in DOMAIN aggregates \union Participants(death)
  PROVE  LET a == ProfileOf(p)
             b == Accumulate(death)[p]
             s == MatchStats(death, p)
             took == p \in Participants(death)
         IN  /\ p \in PlayerId /\ a \in Profile /\ b \in Profile
             /\ took => b = Accumulated(a, s)
             /\ ~ took => b = a
             /\ b.wins = a.wins /\ b.losses = a.losses /\ b.rating = a.rating
<1>1. ProfileOf(p) \in Profile
  BY NewProfileType DEF ProfileOf, ProfilesTyped
<1>2. p \in PlayerId
  BY ParticipantsAre DEF ProfilesTyped
<1>3. CASE p \in Participants(death)
  <2>1. Accumulate(death)[p] = Accumulated(ProfileOf(p), MatchStats(death, p))
    BY <1>3 DEF Accumulate
  <2>2. MatchStats(death, p) \in PlayerMatchStats
    BY <1>2, MatchStatsAre
  <2> QED  BY <1>1, <1>2, <1>3, <2>1, <2>2, AccumulatedIs
<1>4. CASE p \notin Participants(death)
  <2>1. Accumulate(death)[p] = ProfileOf(p)
    BY <1>4 DEF Accumulate, ProfileOf
  <2> QED  BY <1>1, <1>2, <1>4, <2>1
<1> QED  BY <1>3, <1>4

\* Two profiles that differ in rating, wins and losses only.
SameCounts(a, b) ==
  /\ b.matches = a.matches /\ b.kills = a.kills /\ b.deaths = a.deaths
  /\ b.shots_fired = a.shots_fired /\ b.hits_landed = a.hits_landed
  /\ b.damage_dealt = a.damage_dealt /\ b.damage_taken = a.damage_taken

\* What a win and a loss change in a profile.
LEMMA WinAndLoss ==
  ASSUME NEW a \in Profile, NEW r \in Int
  PROVE  /\ WithWin(a, r) \in Profile /\ WithLoss(a, r) \in Profile
         /\ WithWin(a, r).wins = a.wins + 1
         /\ WithWin(a, r).losses = a.losses
         /\ WithLoss(a, r).wins = a.wins
         /\ WithLoss(a, r).losses = a.losses + 1
         /\ WithWin(a, r).rating = r /\ SameCounts(a, WithWin(a, r))
         /\ WithLoss(a, r).rating = r /\ SameCounts(a, WithLoss(a, r))
<1>1. a.wins + 1 \in Nat /\ a.losses + 1 \in Nat
  BY DEF Profile
<1>2. WithWin(a, r) \in Profile /\ WithLoss(a, r) \in Profile
  BY <1>1, Zenon DEF Profile, WithWin, WithLoss
<1> QED  BY <1>2 DEF Profile, WithWin, WithLoss, SameCounts

\* The profiles and the board after a match.
LEMMA RecordedProfiles ==
  ASSUME SessionPart, ProfilesTyped, RecordMatch,
         NEW death, death = Head(pending_deaths),
         NEW win, win = death.shooter, NEW lose, lose = death.target,
         NEW all, all = Accumulate(death),
         NEW S, S = DOMAIN aggregates \union Participants(death),
         NEW d, d = ProfileOf(win).rating - ProfileOf(lose).rating,
         NEW won, won = ProfileOf(win).rating + Gain(d),
         NEW lost, lost = ProfileOf(lose).rating - Loss(d)
  PROVE  /\ SessionPart' /\ ProfilesTyped'
         /\ death \in CombatEvent
         /\ win # lose /\ win \in PlayerId /\ lose \in PlayerId
         /\ won \in Int /\ lost \in Int /\ d \in Int
         /\ win \in S /\ lose \in S /\ IsFiniteSet(S)
         /\ DOMAIN aggregates' = S
         /\ \A p \in S :
              aggregates'[p] = IF p = win THEN WithWin(all[p], won)
                               ELSE IF p = lose THEN WithLoss(all[p], lost)
                               ELSE all[p]
         /\ scores' = Upsert(Upsert(Board, win, won), lose, lost).scores
         /\ ordered' = Upsert(Upsert(Board, win, won), lose, lost).ordered
<1>1. death \in CombatEvent /\ win # lose /\ SessionPart'
  BY SessionTaken DEF RecordMatch
<1>2. /\ win \in S /\ lose \in S /\ S \subseteq PlayerId /\ IsFiniteSet(S)
  BY <1>1, ParticipantsAre, FS_Union DEF ProfilesTyped
<1>3. \A p \in S : /\ all[p] \in Profile /\ all[p].rating = ProfileOf(p).rating
                   /\ ProfileOf(p).rating \in Int
  BY <1>1, AccumulateIs DEF Profile
<1>4. d \in Int /\ won \in Int /\ lost \in Int
  <2>1. ProfileOf(win).rating \in Int /\ ProfileOf(lose).rating \in Int
    BY <1>2, <1>3
  <2>2. d \in Int
    BY <2>1
  <2>3. Gain(d) \in Int /\ Loss(d) \in Int
    BY <2>2, GainAndLoss
  <2> QED  BY <2>1, <2>2, <2>3
<1> DEFINE gap == all[win].rating - all[lose].rating
           up == all[win].rating + Gain(gap)
           down == all[lose].rating - Loss(gap)
<1>5. /\ aggregates' = [all EXCEPT ![win]  = WithWin(@, up),
                                   ![lose] = WithLoss(@, down)]
      /\ scores' = Upsert(Upsert([scores |-> scores, ordered |-> ordered],
                                 win, up), lose, down).scores
      /\ ordered' = Upsert(Upsert([scores |-> scores, ordered |-> ordered],
                                  win, up), lose, down).ordered
      /\ matches_recorded_total' = matches_recorded_total + 1
  BY Zenon DEF RecordMatch
<1>6. all = [p \in S |-> all[p]]
  BY DEF Accumulate
<1>7. up = won /\ down = lost
  BY <1>2, <1>3
<1> HIDE DEF up, down
<1>8. aggregates' = [p \in S |-> IF p = win THEN WithWin(all[p], won)
                                ELSE IF p = lose THEN WithLoss(all[p], lost)
                                ELSE all[p]]
  <2>1. aggregates' = [all EXCEPT ![win]  = WithWin(@, won),
                                  ![lose] = WithLoss(@, lost)]
    BY <1>5, <1>7
  <2>2. win # lose
    BY <1>1
  <2> QED  BY <1>2, <1>6, <2>1, <2>2
<1>9. /\ scores' = Upsert(Upsert(Board, win, won), lose, lost).scores
      /\ ordered' = Upsert(Upsert(Board, win, won), lose, lost).ordered
  BY <1>5, <1>7 DEF Board
<1>10. ProfilesTyped'
  <2>1. ASSUME NEW p \in S
        PROVE  aggregates'[p] \in Profile
    <3>1. all[p] \in Profile
      BY <1>3
    <3>2. WithWin(all[p], won) \in Profile /\ WithLoss(all[p], lost) \in Profile
      BY <1>4, <3>1, WinAndLoss
    <3> QED  BY <1>8, <3>1, <3>2
  <2>2. DOMAIN aggregates' = S /\ aggregates' \in [S -> Profile]
    BY <1>8, <2>1
  <2>3. matches_recorded_total' \in Nat
    BY <1>5 DEF ProfilesTyped
  <2> QED  BY <1>2, <2>2, <2>3 DEF ProfilesTyped
<1> QED  BY <1>1, <1>2, <1>4, <1>8, <1>9, <1>10

\* The fields of the profiles after a match, against those before it and
\* those after the loop over the participants.
LEMMA RecordedFields ==
  ASSUME SessionPart, ProfilesTyped, RecordMatch,
         NEW death, death = Head(pending_deaths),
         NEW win, win = death.shooter, NEW lose, lose = death.target,
         NEW all, all = Accumulate(death),
         NEW d, d = ProfileOf(win).rating - ProfileOf(lose).rating,
         NEW p \in DOMAIN aggregates \union Participants(death)
  PROVE  LET a == ProfileOf(p)
             b == all[p]
             c == aggregates'[p]
         IN  /\ a \in Profile /\ b \in Profile /\ c \in Profile
             /\ c.wins = a.wins + IF p = win THEN 1 ELSE 0
             /\ c.losses = a.losses + IF p = lose THEN 1 ELSE 0
             /\ c.rating = IF p = win THEN a.rating + Gain(d)
                           ELSE IF p = lose THEN a.rating - Loss(d)
                           ELSE a.rating
             /\ SameCounts(b, c)
<1> DEFINE S == DOMAIN aggregates \union Participants(death)
           won == ProfileOf(win).rating + Gain(d)
           lost == ProfileOf(lose).rating - Loss(d)
           a == ProfileOf(p)
           b == all[p]
           c == aggregates'[p]
<1>1. /\ death \in CombatEvent /\ win # lose /\ won \in Int /\ lost \in Int
      /\ d \in Int /\ DOMAIN aggregates' = S
      /\ \A q \in S :
           aggregates'[q] = IF q = win THEN WithWin(all[q], won)
                            ELSE IF q = lose THEN WithLoss(all[q], lost)
                            ELSE all[q]
  BY RecordedProfiles
<1>2. /\ a \in Profile /\ b \in Profile
      /\ b.wins = a.wins /\ b.losses = a.losses /\ b.rating = a.rating
  BY <1>1, AccumulateIs
<1>3. a.wins \in Nat /\ a.losses \in Nat
  BY <1>2 DEF Profile
<1> HIDE DEF b, c
<1>4. CASE p = win
  <2>1. a.rating + Gain(d) = won
    BY <1>4
  <2>2. c = WithWin(b, won) /\ p # lose /\ won \in Int
    BY <1>1, <1>4 DEF b, c
  <2> HIDE DEF a, won
  <2>3. /\ c \in Profile
        /\ c.wins = b.wins + IF p = win THEN 1 ELSE 0
        /\ c.losses = b.losses + IF p = lose THEN 1 ELSE 0
        /\ c.rating = won /\ SameCounts(b, c)
    <3>1. b.wins \in Nat /\ b.losses \in Nat
      BY <1>2, <1>3
    <3>2. /\ c \in Profile /\ c.wins = b.wins + 1 /\ c.losses = b.losses
          /\ c.rating = won /\ SameCounts(b, c)
      BY <1>2, <2>2, WinAndLoss
    <3>3. p = win /\ p # lose
      BY <1>4, <2>2
    <3> QED  BY <3>1, <3>2, <3>3
  <2> QED  BY <1>2, <1>4, <2>1, <2>2, <2>3 DEF a, b, c
<1>5. CASE p = lose
  <2>1. a.rating - Loss(d) = lost
    BY <1>5
  <2>2. c = WithLoss(b, lost) /\ p # win /\ lost \in Int
    BY <1>1, <1>5 DEF b, c
  <2> HIDE DEF a, lost
  <2>3. /\ c \in Profile
        /\ c.wins = b.wins + IF p = win THEN 1 ELSE 0
        /\ c.losses = b.losses + IF p = lose THEN 1 ELSE 0
        /\ c.rating = lost /\ SameCounts(b, c)
    <3>1. b.wins \in Nat /\ b.losses \in Nat
      BY <1>2, <1>3
    <3>2. /\ c \in Profile /\ c.wins = b.wins /\ c.losses = b.losses + 1
          /\ c.rating = lost /\ SameCounts(b, c)
      BY <1>2, <2>2, WinAndLoss
    <3>3. p # win /\ p = lose
      BY <1>5, <2>2
    <3> QED  BY <3>1, <3>2, <3>3
  <2> QED  BY <1>2, <1>5, <2>1, <2>2, <2>3 DEF a, b, c
<1>6. CASE p # win /\ p # lose
  <2>1. c = b
    BY <1>1, <1>6 DEF b, c
  <2> HIDE DEF a
  <2> QED  BY <1>2, <1>3, <1>6, <2>1 DEF a, b, c, SameCounts
<1> QED  BY <1>4, <1>5, <1>6

\* A total grows by the sum of what each profile has got more.
LEMMA TotalGrows ==
  ASSUME NEW old, NEW new, NEW field, IsFiniteSet(DOMAIN new),
         DOMAIN old \subseteq DOMAIN new,
         NEW more \in [DOMAIN new -> Int], NEW d, Sums(d, more, DOMAIN new),
         \A p \in DOMAIN old : /\ old[p][field] \in Int
                               /\ new[p][field] = old[p][field] + more[p],
         \A p \in DOMAIN new \ DOMAIN old : new[p][field] = more[p]
  PROVE  /\ Total(old, field) \in Int
         /\ Total(new, field) = Total(old, field) + d[DOMAIN new]
<1> DEFINE R == DOMAIN old
           S == DOMAIN new
           v == [p \in R |-> old[p][field]]
           w == [p \in S |-> new[p][field]]
<1>1. IsFiniteSet(R)
  BY FS_Subset
<1>2. \A p \in S : new[p][field] \in Int
  <2>1. \A p \in S : more[p] \in Int
    OBVIOUS
  <2> QED  BY <2>1
<1>3. PICK f : Sums(f, v, R) /\ f[R] = Total(old, field)
  BY <1>1, TotalIs
<1>4. PICK g : Sums(g, w, S) /\ g[S] = Total(new, field)
  BY <1>2, TotalIs
<1>5. /\ \A p \in S : w[p] \in Int /\ more[p] \in Int
      /\ \A p \in S \ R : w[p] = more[p]
      /\ \A p \in R : v[p] \in Int /\ w[p] = v[p] + more[p]
  BY <1>2
<1>6. f[R] \in Int
  BY <1>3 DEF Sums
<1> HIDE DEF v, w
<1>7. g[S] = f[R] + d[S]
  BY <1>3, <1>4, <1>5, SumGrows
<1> QED  BY <1>3, <1>4, <1>6, <1>7

\* A total to which one profile adds one grows by one.
LEMMA TotalGrowsByOne ==
  ASSUME NEW old, NEW new, NEW field, IsFiniteSet(DOMAIN new),
         DOMAIN old \subseteq DOMAIN new, NEW x \in DOMAIN new,
         \A p \in DOMAIN old : /\ old[p][field] \in Int
                               /\ new[p][field] =
                                    old[p][field] + IF p = x THEN 1 ELSE 0,
         \A p \in DOMAIN new \ DOMAIN old :
           new[p][field] = IF p = x THEN 1 ELSE 0
  PROVE  Total(new, field) = Total(old, field) + 1
<1> DEFINE S == DOMAIN new
           more == [p \in S |-> IF p = x THEN 1 ELSE 0]
<1>1. more \in [S -> Int]
  OBVIOUS
<1>2. PICK d : Sums(d, more, S)
  <2> HIDE DEF more, S
  <2> QED  BY <1>1, SumsExist DEF S
<1>3. d[S] = 1
  BY <1>2, SumOfOne
<1>4. /\ \A p \in DOMAIN old : new[p][field] = old[p][field] + more[p]
      /\ \A p \in S \ DOMAIN old : new[p][field] = more[p]
  OBVIOUS
<1> HIDE DEF more
<1> QED  BY <1>1, <1>2, <1>3, <1>4, TotalGrows

\* The hits of the log.
HitsInLog == {i \in 1..Len(combat_log) : combat_log[i].type = "Hit"}

\* The hits of the log, by who dealt or by who took them, come to all of them.
LEMMA HitsAreShared ==
  ASSUME SessionPart, NEW S, IsFiniteSet(S), NEW role,
         \A i \in 1..Len(combat_log) : combat_log[i][role] \in S
  PROVE  LET more == [p \in S |-> Damage * Cardinality(EventsOf("Hit", role, p))]
         IN  /\ more \in [S -> Int]
             /\ \E d : /\ Sums(d, more, S)
                       /\ d[S] = Damage * Cardinality(HitsInLog)
<1> DEFINE more == [p \in S |-> Damage * Cardinality(EventsOf("Hit", role, p))]
           owner == [i \in HitsInLog |-> combat_log[i][role]]
<1>1. TypeOK /\ Damage \in Int
  BY ConstantsAssumption DEF SessionPart, SessionInv
<1>2. more \in [S -> Int]
  <2>1. \A p \in S : Cardinality(EventsOf("Hit", role, p)) \in Nat
    BY <1>1, EventsFinite
  <2>2. \A n \in Nat : Damage * n \in Int
    BY <1>1
  <2> QED  BY <2>1, <2>2
<1>3. PICK d : Sums(d, more, S)
  <2> HIDE DEF more
  <2> QED  BY <1>2, SumsExist
<1>4. owner \in [HitsInLog -> S]
  BY DEF HitsInLog
<1>5. IsFiniteSet(HitsInLog)
  <2>1. IsFiniteSet(1..Len(combat_log))
    BY <1>1, LenProperties, FS_Interval DEF TypeOK
  <2>2. HitsInLog \in SUBSET (1..Len(combat_log))
    BY DEF HitsInLog
  <2> QED  BY <2>1, <2>2, FS_Subset
<1>6. more = [p \in S |-> Damage * Cardinality({i \in HitsInLog : owner[i] = p})]
  <2>1. ASSUME NEW p \in S
        PROVE  EventsOf("Hit", role, p) = {i \in HitsInLog : owner[i] = p}
    BY DEF EventsOf, HitsInLog
  <2> QED  BY <2>1
<1> HIDE DEF more, owner
<1>7. d[S] = Damage * Cardinality(HitsInLog)
  BY <1>1, <1>3, <1>4, <1>5, <1>6, SumOfShares
<1> QED  BY <1>2, <1>3, <1>7 DEF more

\* Everybody the log names takes part, so the hits of the rest are none.
LEMMA LogNamesParticipants ==
  ASSUME SessionPart, NEW death \in CombatEvent, NEW role \in {"shooter", "target"}
  PROVE  /\ \A i \in 1..Len(combat_log) :
              combat_log[i][role] \in Participants(death)
         /\ \A p : p \notin Participants(death) => EventsOf("Hit", role, p) = {}
<1>1. \A i \in 1..Len(combat_log) : combat_log[i][role] \in Participants(death)
  <2>1. CASE role = "shooter"
    BY <2>1 DEF Participants
  <2>2. CASE role = "target"
    BY <2>2 DEF Participants
  <2> QED  BY <2>1, <2>2
<1> QED  BY <1>1 DEF EventsOf

\* Nobody's profile: what is not there counts as new.
LEMMA FieldsAreAccumulated ==
  ASSUME SessionPart, ProfilesTyped, NEW death \in CombatEvent,
         NEW p \in DOMAIN aggregates \union Participants(death)
  PROVE  LET a == ProfileOf(p)
             b == Accumulate(death)[p]
         IN  /\ b["damage_dealt"] = a["damage_dealt"]
                  + Damage * Cardinality(EventsOf("Hit", "shooter", p))
             /\ b["damage_taken"] = a["damage_taken"]
                  + Damage * Cardinality(EventsOf("Hit", "target", p))
             /\ b.matches >= a.matches /\ b.kills >= a.kills
             /\ b.deaths >= a.deaths
             /\ a.hits_landed <= a.shots_fired => b.hits_landed <= b.shots_fired
             /\ p \in Participants(death) => b.matches = a.matches + 1
             /\ p = death.shooter => b.kills >= a.kills + 1
             /\ p = death.target => b.deaths >= a.deaths + 1
<1> DEFINE a == ProfileOf(p)
           b == Accumulate(death)[p]
           s == MatchStats(death, p)
           dealt == Cardinality(EventsOf("Hit", "shooter", p))
           taken == Cardinality(EventsOf("Hit", "target", p))
<1>1. /\ p \in PlayerId /\ a \in Profile /\ b \in Profile
      /\ p \in Participants(death) => b = Accumulated(a, s)
      /\ p \notin Participants(death) => b = a
  BY AccumulateIs
<1>2. /\ s \in PlayerMatchStats
      /\ s.hits_landed <= s.shots_fired
      /\ p = death.shooter => s.kills >= 1
      /\ p = death.target => s.deaths >= 1
      /\ s.damage_dealt = Damage * dealt /\ s.damage_taken = Damage * taken
  BY <1>1, MatchStatsAre
<1>3. death.shooter \in Participants(death) /\ death.target \in Participants(death)
  BY ParticipantsAre
<1>4. p \notin Participants(death) => Damage * dealt = 0 /\ Damage * taken = 0
  <2>1. p \notin Participants(death) => dealt = 0 /\ taken = 0
    <3>1. p \notin Participants(death) => /\ EventsOf("Hit", "shooter", p) = {}
                                          /\ EventsOf("Hit", "target", p) = {}
      BY LogNamesParticipants
    <3> QED  BY <3>1, FS_EmptySet
  <2>2. Damage * 0 = 0
    BY ConstantsAssumption
  <2> QED  BY <2>1, <2>2
<1>5. /\ a.matches \in Nat /\ a.kills \in Nat /\ a.deaths \in Nat
      /\ a.hits_landed \in Nat /\ a.shots_fired \in Nat
      /\ a.damage_dealt \in Nat /\ a.damage_taken \in Nat
      /\ a["damage_dealt"] = a.damage_dealt /\ b["damage_dealt"] = b.damage_dealt
      /\ a["damage_taken"] = a.damage_taken /\ b["damage_taken"] = b.damage_taken
  BY <1>1 DEF Profile
<1> HIDE DEF a, b, s
<1>6. CASE p \in Participants(death)
  <2>1. /\ b.matches = a.matches + 1
        /\ b.kills = a.kills + s.kills /\ b.deaths = a.deaths + s.deaths
        /\ b.shots_fired = a.shots_fired + s.shots_fired
        /\ b.hits_landed = a.hits_landed + s.hits_landed
        /\ b.damage_dealt = a.damage_dealt + s.damage_dealt
        /\ b.damage_taken = a.damage_taken + s.damage_taken
    BY <1>1, <1>2, <1>6, AccumulatedIs
  <2>2. /\ s.kills \in Nat /\ s.deaths \in Nat /\ s.shots_fired \in Nat
        /\ s.hits_landed \in Nat
    BY <1>2 DEF PlayerMatchStats
  <2> HIDE DEF dealt, taken
  <2>3. b["damage_dealt"] = a["damage_dealt"] + Damage * dealt
    BY <1>2, <1>5, <2>1
  <2>4. b["damage_taken"] = a["damage_taken"] + Damage * taken
    BY <1>2, <1>5, <2>1
  <2> QED  BY <1>2, <1>5, <1>6, <2>1, <2>2, <2>3, <2>4 DEF a, b, dealt, taken
<1>7. CASE p \notin Participants(death)
  <2>1. b = a
    BY <1>1, <1>7
  <2>2. /\ a["damage_dealt"] = a["damage_dealt"] + Damage * dealt
        /\ a["damage_taken"] = a["damage_taken"] + Damage * taken
    BY <1>4, <1>5, <1>7
  <2> QED  BY <1>3, <1>5, <1>7, <2>1, <2>2 DEF a, b, dealt, taken
<1> QED  BY <1>6, <1>7

\* A match keeps the books of the profiles.
LEMMA BooksKept ==
  ASSUME SessionPart, ProfilesTyped, ProfilesAddUp, RecordMatch
  PROVE  ProfilesAddUp'
<1> DEFINE death == Head(pending_deaths)
           win  == death.shooter
           lose == death.target
           all  == Accumulate(death)
           R    == DOMAIN aggregates
           S    == R \union Participants(death)
           d    == ProfileOf(win).rating - ProfileOf(lose).rating
           won  == ProfileOf(win).rating + Gain(d)
           lost == ProfileOf(lose).rating - Loss(d)
           new  == aggregates'
<1>1. /\ death \in CombatEvent /\ win # lose
      /\ won \in Int /\ lost \in Int /\ d \in Int
      /\ R \subseteq S /\ IsFiniteSet(S) /\ win \in S /\ lose \in S
      /\ DOMAIN new = S
  BY RecordedProfiles
<1>2. matches_recorded_total' = matches_recorded_total + 1
      /\ matches_recorded_total \in Nat
  BY DEF RecordMatch, ProfilesTyped
<1>3. ASSUME NEW p \in S
      PROVE  /\ p \in R => ProfileOf(p) = aggregates[p]
             /\ p \notin R => ProfileOf(p) = NewProfile
  BY DEF ProfileOf
<1>4. ASSUME NEW p \in S
      PROVE  LET a == ProfileOf(p) IN
             /\ a \in Profile /\ all[p] \in Profile
             /\ new[p].wins = a.wins + IF p = win THEN 1 ELSE 0
             /\ new[p].losses = a.losses + IF p = lose THEN 1 ELSE 0
             /\ new[p].matches = all[p].matches
             /\ new[p].kills = all[p].kills /\ new[p].deaths = all[p].deaths
             /\ new[p].shots_fired = all[p].shots_fired
             /\ new[p].hits_landed = all[p].hits_landed
             /\ new[p].damage_dealt = all[p].damage_dealt
             /\ new[p].damage_taken = all[p].damage_taken
  BY RecordedFields DEF SameCounts
<1>5. R \subseteq DOMAIN new /\ IsFiniteSet(DOMAIN new)
  BY <1>1
<1> HIDE DEF death, win, lose, all, new
<1>6. Total(new, "wins") = matches_recorded_total + 1
  <2>1. \A p \in R : /\ aggregates[p]["wins"] \in Int
                     /\ new[p]["wins"] =
                          aggregates[p]["wins"] + IF p = win THEN 1 ELSE 0
    BY <1>1, <1>3, <1>4 DEF Profile
  <2>2. \A p \in S \ R : new[p]["wins"] = IF p = win THEN 1 ELSE 0
    BY <1>3, <1>4 DEF NewProfile
  <2>3. Total(new, "wins") = Total(aggregates, "wins") + 1
    <3>1. win \in DOMAIN new
      BY <1>1
    <3>2. \A p \in DOMAIN new \ R : new[p]["wins"] = IF p = win THEN 1 ELSE 0
      BY <1>1, <2>2
    <3> QED  BY <1>5, <2>1, <3>1, <3>2, TotalGrowsByOne
  <2> QED  BY <2>3 DEF ProfilesAddUp
<1>7. Total(new, "losses") = matches_recorded_total + 1
  <2>1. \A p \in R : /\ aggregates[p]["losses"] \in Int
                     /\ new[p]["losses"] =
                          aggregates[p]["losses"] + IF p = lose THEN 1 ELSE 0
    BY <1>1, <1>3, <1>4 DEF Profile
  <2>2. \A p \in S \ R : new[p]["losses"] = IF p = lose THEN 1 ELSE 0
    BY <1>3, <1>4 DEF NewProfile
  <2>3. Total(new, "losses") = Total(aggregates, "losses") + 1
    <3>1. lose \in DOMAIN new
      BY <1>1
    <3>2. \A p \in DOMAIN new \ R : new[p]["losses"] = IF p = lose THEN 1 ELSE 0
      BY <1>1, <2>2
    <3> QED  BY <1>5, <2>1, <3>1, <3>2, TotalGrowsByOne
  <2> QED  BY <2>3 DEF ProfilesAddUp
<1> DEFINE dealt == [p \in S |-> Damage * Cardinality(EventsOf("Hit", "shooter", p))]
           taken == [p \in S |-> Damage * Cardinality(EventsOf("Hit", "target", p))]
<1>8. ASSUME NEW p \in S
      PROVE  /\ new[p]["damage_dealt"] = ProfileOf(p)["damage_dealt"] + dealt[p]
             /\ new[p]["damage_taken"] = ProfileOf(p)["damage_taken"] + taken[p]
             /\ ProfileOf(p)["damage_dealt"] \in Int
             /\ ProfileOf(p)["damage_taken"] \in Int
  <2>1. /\ all[p]["damage_dealt"] = ProfileOf(p)["damage_dealt"] + dealt[p]
        /\ all[p]["damage_taken"] = ProfileOf(p)["damage_taken"] + taken[p]
    BY <1>1, FieldsAreAccumulated DEF all
  <2>2. /\ new[p]["damage_dealt"] = all[p]["damage_dealt"]
        /\ new[p]["damage_taken"] = all[p]["damage_taken"]
    BY <1>4
  <2>3. /\ ProfileOf(p)["damage_dealt"] \in Int
        /\ ProfileOf(p)["damage_taken"] \in Int
    BY <1>4 DEF Profile
  <2> QED  BY <2>1, <2>2, <2>3
<1>9. NewProfile["damage_dealt"] = 0 /\ NewProfile["damage_taken"] = 0
  BY DEF NewProfile
<1>10. /\ dealt \in [S -> Int]
       /\ \E x : Sums(x, dealt, S) /\ x[S] = Damage * Cardinality(HitsInLog)
  <2>1. \A i \in 1..Len(combat_log) : combat_log[i]["shooter"] \in S
    BY <1>1, LogNamesParticipants
  <2> HIDE DEF S
  <2> QED  BY <1>1, <2>1, HitsAreShared
<1>11. /\ taken \in [S -> Int]
       /\ \E x : Sums(x, taken, S) /\ x[S] = Damage * Cardinality(HitsInLog)
  <2>1. \A i \in 1..Len(combat_log) : combat_log[i]["target"] \in S
    BY <1>1, LogNamesParticipants
  <2> HIDE DEF S
  <2> QED  BY <1>1, <2>1, HitsAreShared
<1> HIDE DEF dealt, taken
<1>12. Total(new, "damage_dealt") = Total(new, "damage_taken")
  <2>1. PICK x : Sums(x, dealt, S) /\ x[S] = Damage * Cardinality(HitsInLog)
    BY <1>10
  <2>2. PICK y : Sums(y, taken, S) /\ y[S] = Damage * Cardinality(HitsInLog)
    BY <1>11
  <2>3. /\ \A p \in R : /\ aggregates[p]["damage_dealt"] \in Int
                        /\ new[p]["damage_dealt"] =
                             aggregates[p]["damage_dealt"] + dealt[p]
        /\ \A p \in S \ R : new[p]["damage_dealt"] = dealt[p]
    <3>1. \A p \in S : dealt[p] \in Int
      BY <1>10
    <3> QED  BY <1>1, <1>3, <1>8, <1>9, <3>1
  <2>4. /\ \A p \in R : /\ aggregates[p]["damage_taken"] \in Int
                        /\ new[p]["damage_taken"] =
                             aggregates[p]["damage_taken"] + taken[p]
        /\ \A p \in S \ R : new[p]["damage_taken"] = taken[p]
    <3>1. \A p \in S : taken[p] \in Int
      BY <1>11
    <3> QED  BY <1>1, <1>3, <1>8, <1>9, <3>1
  <2>5. Total(new, "damage_dealt") = Total(aggregates, "damage_dealt") + x[S]
    <3> DOMAIN new = S
      BY <1>1
    <3> HIDE DEF S
    <3> QED  BY <1>5, <1>10, <2>1, <2>3, TotalGrows
  <2>6. Total(new, "damage_taken") = Total(aggregates, "damage_taken") + y[S]
    <3> DOMAIN new = S
      BY <1>1
    <3> HIDE DEF S
    <3> QED  BY <1>5, <1>11, <2>2, <2>4, TotalGrows
  <2> QED  BY <2>1, <2>2, <2>5, <2>6 DEF ProfilesAddUp
<1>13. ASSUME NEW p \in S
       PROVE  LET a == new[p] IN
              /\ a.wins + a.losses <= a.matches
              /\ a.wins <= a.kills /\ a.losses <= a.deaths
              /\ a.hits_landed <= a.shots_fired
  <2> DEFINE a == ProfileOf(p)
             b == all[p]
  <2>1. /\ a.wins + a.losses <= a.matches
        /\ a.wins <= a.kills /\ a.losses <= a.deaths
        /\ a.hits_landed <= a.shots_fired
    <3>1. CASE p \in R
      BY <1>3, <3>1 DEF ProfilesAddUp
    <3>2. CASE p \notin R
      BY <1>3, <3>2 DEF NewProfile
    <3> QED  BY <3>1, <3>2
  <2>2. /\ b.matches >= a.matches /\ b.kills >= a.kills
        /\ b.deaths >= a.deaths
        /\ a.hits_landed <= a.shots_fired => b.hits_landed <= b.shots_fired
        /\ p \in Participants(death) => b.matches = a.matches + 1
        /\ p = win => b.kills >= a.kills + 1
        /\ p = lose => b.deaths >= a.deaths + 1
    BY <1>1, FieldsAreAccumulated DEF all, win, lose
  <2>3. p = win \/ p = lose => p \in Participants(death)
    BY <1>1, ParticipantsAre DEF win, lose
  <2>4. /\ a.matches \in Nat /\ a.wins \in Nat /\ a.losses \in Nat
        /\ a.kills \in Nat /\ a.deaths \in Nat
        /\ b.matches \in Nat /\ b.kills \in Nat /\ b.deaths \in Nat
    BY <1>4 DEF Profile
  <2>5. /\ new[p].wins = a.wins + IF p = win THEN 1 ELSE 0
        /\ new[p].losses = a.losses + IF p = lose THEN 1 ELSE 0
        /\ new[p].matches = b.matches /\ new[p].kills = b.kills
        /\ new[p].deaths = b.deaths /\ new[p].shots_fired = b.shots_fired
        /\ new[p].hits_landed = b.hits_landed
    BY <1>4
  <2>6. win # lose
    BY <1>1
  <2> HIDE DEF a, b
  <2>7. new[p].wins + new[p].losses <= new[p].matches
    BY <2>1, <2>2, <2>3, <2>4, <2>5, <2>6
  <2>8. new[p].wins <= new[p].kills /\ new[p].losses <= new[p].deaths
    BY <2>1, <2>2, <2>4, <2>5
  <2>9. new[p].hits_landed <= new[p].shots_fired
    BY <2>1, <2>2, <2>5
  <2> QED  BY <2>7, <2>8, <2>9
<1> QED  BY <1>1, <1>2, <1>6, <1>7, <1>12, <1>13 DEF ProfilesAddUp, new

\* A match leaves the board in step with itself and with the profiles.
LEMMA BoardKept ==
  ASSUME SessionPart, ProfilesTyped, Sound(Board), RatingsShown, RecordMatch
  PROVE  Sound(Board)' /\ RatingsShown'
<1> DEFINE death == Head(pending_deaths)
           win  == death.shooter
           lose == death.target
           S    == DOMAIN aggregates \union Participants(death)
           d    == ProfileOf(win).rating - ProfileOf(lose).rating
           won  == ProfileOf(win).rating + Gain(d)
           lost == ProfileOf(lose).rating - Loss(d)
           one  == Upsert(Board, win, won)
           two  == Upsert(one, lose, lost)
<1>1. /\ win # lose /\ win \in PlayerId /\ lose \in PlayerId
      /\ won \in Int /\ lost \in Int
      /\ win \in S /\ lose \in S
      /\ DOMAIN aggregates' = S
      /\ scores' = two.scores /\ ordered' = two.ordered
  BY RecordedProfiles
<1>2. \A p \in S : aggregates'[p].rating = IF p = win THEN won
                                          ELSE IF p = lose THEN lost
                                          ELSE ProfileOf(p).rating
  BY RecordedFields
<1> HIDE DEF death, win, lose, S, d, won, lost
<1>3. /\ Sound(one)
      /\ one.scores = [q \in DOMAIN scores \union {win} |->
                         IF q = win THEN won ELSE scores[q]]
  <2>1. Board.scores = scores
    BY DEF Board
  <2>2. /\ Sound(Upsert(Board, win, won))
        /\ Upsert(Board, win, won).scores =
             [q \in DOMAIN Board.scores \union {win} |->
                IF q = win THEN won ELSE Board.scores[q]]
    BY <1>1, Upserted
  <2> QED  BY <2>1, <2>2
<1> HIDE DEF one
<1>4. /\ Sound(two)
      /\ two.scores = [q \in DOMAIN one.scores \union {lose} |->
                         IF q = lose THEN lost ELSE one.scores[q]]
  <2>1. lose \in PlayerId /\ lost \in Int /\ Sound(one)
    BY <1>1, <1>3
  <2>2. /\ Sound(Upsert(one, lose, lost))
        /\ Upsert(one, lose, lost).scores =
             [q \in DOMAIN one.scores \union {lose} |->
                IF q = lose THEN lost ELSE one.scores[q]]
    BY <2>1, Upserted
  <2> QED  BY <2>2
<1> HIDE DEF two
<1>5. Sound(Board)'
  BY <1>1, <1>4 DEF Sound, BoardTyped, BoardAgrees, Board
<1>6. /\ DOMAIN scores' = DOMAIN scores \union {win, lose}
      /\ \A q \in DOMAIN scores' :
           scores'[q] = IF q = lose THEN lost
                        ELSE IF q = win THEN won ELSE scores[q]
  BY <1>1, <1>3, <1>4
<1>7. ASSUME NEW p \in DOMAIN scores'
      PROVE  p \in S /\ aggregates'[p].rating = scores'[p]
  <2>1. CASE p = win \/ p = lose
    BY <1>1, <1>2, <1>6, <2>1
  <2>2. CASE p # win /\ p # lose
    <3>1. p \in DOMAIN scores /\ scores'[p] = scores[p]
      BY <1>6, <2>2
    <3>2. /\ p \in DOMAIN aggregates /\ aggregates[p].rating = scores[p]
          /\ p \in S /\ ProfileOf(p) = aggregates[p]
      BY <3>1 DEF RatingsShown, ProfileOf, S
    <3> QED  BY <1>2, <2>2, <3>1, <3>2
  <2> QED  BY <2>1, <2>2
<1> QED  BY <1>1, <1>5, <1>7 DEF RatingsShown

----------------------------------------------------------------------------
(* The invariant holds. *)

\* The sums over no profiles are zero, whatever the field.
LEMMA TotalOfNone ==
  ASSUME NEW profiles, NEW field, DOMAIN profiles = {}
  PROVE  Total(profiles, field) = 0
<1>1. IsFiniteSet(DOMAIN profiles)
  BY FS_EmptySet
<1>2. PICK f : /\ Sums(f, [p \in DOMAIN profiles |-> profiles[p][field]],
                       DOMAIN profiles)
               /\ f[DOMAIN profiles] = Total(profiles, field)
  BY <1>1, TotalIs
<1> QED  BY <1>2 DEF Sums

\* Nobody has played: all is empty.
LEMMA StatsInvInit == StatsInit => StatsInv
<1> SUFFICES ASSUME StatsInit PROVE StatsInv
  OBVIOUS
<1>1. SessionPart
  <2>1. IsFiniteSet(players) /\ pending_deaths = <<>>
    BY FS_EmptySet DEF StatsInit, Init
  <2>2. TwoPlayers(pending_deaths)
    BY <2>1 DEF TwoPlayers
  <2> QED  BY <2>1, <2>2, SessionInvInit DEF SessionPart, StatsInit
<1>2. /\ DOMAIN NoEntry = {} /\ \A X : NoEntry \in [{} -> X]
  BY DEF NoEntry
<1>3. /\ aggregates = NoEntry /\ scores = NoEntry /\ ordered = NoEntry
      /\ matches_recorded_total = 0
  BY DEF StatsInit
<1> HIDE DEF NoEntry
<1>4. ProfilesTyped /\ Sound(Board) /\ RatingsShown
  BY <1>2, <1>3, FS_EmptySet
     DEF ProfilesTyped, Sound, BoardTyped, BoardAgrees, Board, RatingsShown
<1>5. ProfilesAddUp
  <2>1. \A field : Total(aggregates, field) = 0
    BY <1>2, <1>3, TotalOfNone
  <2> QED  BY <1>2, <1>3, <2>1 DEF ProfilesAddUp
<1> QED  BY <1>1, <1>4, <1>5 DEF StatsInv, Sound

\* Every step keeps it.
LEMMA StatsInvNext ==
  ASSUME StatsInv, [StatsNext]_allVars
  PROVE  StatsInv'
<1> USE DEF StatsInv
<1>1. Sound(Board)
  BY DEF Sound
<1>2. ASSUME UNCHANGED vars PROVE SessionPart'
  BY <1>2 DEF vars, SessionPart, TwoPlayers, SessionInv, TypeOK, LifeConsistent,
              OwnersPresent, AccuracyBounded, InFlight, MetricsConsistent
<1>3. ASSUME UNCHANGED <<aggregates, matches_recorded_total>>
      PROVE  ProfilesTyped' /\ ProfilesAddUp'
  BY <1>3 DEF ProfilesTyped, ProfilesAddUp
<1>4. CASE SessionStep
  <2>1. UNCHANGED profileVars
    BY <1>4 DEF SessionStep
  <2>2. Sound(Board)' /\ RatingsShown'
    BY <1>1, <2>1 DEF profileVars, Sound, BoardTyped, BoardAgrees, Board, RatingsShown
  <2>3. SessionPart'
    BY <1>4, SessionMoves
  <2> QED  BY <1>3, <2>1, <2>2, <2>3 DEF profileVars, Sound
<1>5. CASE RecordMatch
  <2>1. SessionPart' /\ ProfilesTyped'
    BY <1>5, RecordedProfiles
  <2>2. Sound(Board)' /\ RatingsShown'
    BY <1>1, <1>5, BoardKept
  <2> QED  BY <1>5, <2>1, <2>2, BooksKept DEF Sound
<1>6. ASSUME NEW p \in PlayerId, Erase(p)
      PROVE  StatsInv'
  <2> DEFINE less == [scores  |-> Restrict(Board.scores, DOMAIN Board.scores \ {p}),
                      ordered |-> RemoveFromOrdered(Board.ordered, p, Board.scores[p])]
  <2>1. /\ p \in DOMAIN scores /\ UNCHANGED vars
        /\ UNCHANGED <<aggregates, matches_recorded_total>>
        /\ ordered' = RemoveFromOrdered(ordered, p, scores[p])
        /\ scores' = Restrict(scores, DOMAIN scores \ {p})
    BY <1>6 DEF Erase
  <2>2. Board.scores = scores /\ Board.ordered = ordered
    BY DEF Board
  <2>3. Sound(less)
    BY <1>1, <2>1, <2>2, Removed
  <2>4. less.scores = scores' /\ less.ordered = ordered'
    BY <2>1, <2>2
  <2> HIDE DEF less
  <2>5. Sound(Board)'
    BY <2>3, <2>4 DEF Sound, BoardTyped, BoardAgrees, Board
  <2>6. RatingsShown'
    BY <2>1 DEF RatingsShown, Restrict
  <2> QED  BY <1>2, <1>3, <2>1, <2>5, <2>6 DEF Sound
<1>7. CASE UNCHANGED allVars
  <2>1. UNCHANGED vars /\ UNCHANGED profileVars
    BY <1>7 DEF allVars
  <2>2. Sound(Board)' /\ RatingsShown'
    BY <1>1, <2>1 DEF profileVars, Sound, BoardTyped, BoardAgrees, Board, RatingsShown
  <2> QED  BY <1>2, <1>3, <2>1, <2>2 DEF profileVars, Sound
<1> QED  BY <1>4, <1>5, <1>6, <1>7 DEF StatsNext

\* The inductive invariant of the statistics.
LEMMA StatsInvariant == StatsSpec => []StatsInv
<1> QED  BY StatsInvInit, StatsInvNext, PTL DEF StatsSpec

\* The leaderboard's two indexes and the profiles always name one rating for
\* each player, and the top it shows is complete, in order and each player
\* once, whatever was recorded, re-rated or erased (leaderboard_store.cpp).
THEOREM LeaderboardStaysRight == StatsSpec => []LeaderboardIsRight
<1>1. StatsInv => LeaderboardIsRight
  <2> SUFFICES ASSUME StatsInv PROVE LeaderboardIsRight
    OBVIOUS
  <2>1. Sound(Board) /\ RatingsShown
    BY DEF StatsInv, Sound
  <2>2. LeaderboardAgrees
    BY <2>1 DEF LeaderboardAgrees, Sound, BoardAgrees, Board, RatingsShown
  <2>3. RankingIsRight
    BY <2>1, TopIsRight
  <2> QED  BY <2>2, <2>3 DEF LeaderboardIsRight
<1> QED  BY <1>1, StatsInvariant, PTL

\* The profiles always add up: a winner and a loser for each match recorded,
\* as much damage dealt as taken, nobody more accurate than one, whoever has
\* left and whatever the log has dropped (match_stats.cpp and
\* player_profile_service.cpp).
THEOREM ProfilesAlwaysAddUp == StatsSpec => []ProfilesAddUp
<1>1. StatsInv => ProfilesAddUp
  BY DEF StatsInv
<1> QED  BY <1>1, StatsInvariant, PTL

\* A match moves rating points from its loser to its winner, with the point
\* of an even match left over, and changes no other rating
\* (EloRatingCalculator::Update and RecordMatch).
THEOREM RatingsAreConserved == StatsSpec => RatingsConserved
<1> DEFINE Moved == \A p, q \in PlayerId :
       LET a == ProfileOf(p)
           b == ProfileOf(q)
           match == /\ p # q
                    /\ aggregates'[p].wins = a.wins + 1
                    /\ aggregates'[q].losses = b.losses + 1
       IN  matches_recorded_total' # matches_recorded_total =>
             /\ p \in DOMAIN aggregates' /\ aggregates'[p].rating # a.rating =>
                  aggregates'[p].wins + aggregates'[p].losses
                  = a.wins + a.losses + 1
             /\ {p, q} \subseteq DOMAIN aggregates' /\ match =>
                  aggregates'[p].rating + aggregates'[q].rating
                  = a.rating + b.rating + IF a.rating = b.rating THEN 1 ELSE 0
<1>1. StatsInv /\ [StatsNext]_allVars => [Moved]_allVars
  <2> SUFFICES ASSUME StatsInv, StatsNext,
                      matches_recorded_total' # matches_recorded_total
               PROVE  Moved
    OBVIOUS
  <2>1. SessionPart /\ ProfilesTyped /\ RecordMatch
    BY DEF StatsInv, StatsNext, SessionStep, Erase, profileVars
  <2> DEFINE death == Head(pending_deaths)
             win  == death.shooter
             lose == death.target
             S    == DOMAIN aggregates \union Participants(death)
             d    == ProfileOf(win).rating - ProfileOf(lose).rating
             won  == ProfileOf(win).rating + Gain(d)
             lost == ProfileOf(lose).rating - Loss(d)
  <2>2. /\ win # lose /\ won \in Int /\ lost \in Int /\ d \in Int
        /\ win \in S /\ lose \in S /\ DOMAIN aggregates' = S
    BY <2>1, RecordedProfiles
  <2>3. ASSUME NEW p \in S
        PROVE  LET a == ProfileOf(p) IN
               /\ a.wins \in Nat /\ a.losses \in Nat /\ a.rating \in Int
               /\ aggregates'[p].wins = a.wins + IF p = win THEN 1 ELSE 0
               /\ aggregates'[p].losses = a.losses + IF p = lose THEN 1 ELSE 0
               /\ aggregates'[p].rating = IF p = win THEN won
                                          ELSE IF p = lose THEN lost ELSE a.rating
    BY <2>1, RecordedFields DEF Profile
  <2>4. /\ Gain(d) \in Int /\ Loss(d) \in Int
        /\ Gain(d) - Loss(d) = IF d = 0 THEN 1 ELSE 0
    BY <2>2, GainAndLoss
  <2> DEFINE x == ProfileOf(win).rating
             y == ProfileOf(lose).rating
             gain == Gain(d)
             loss == Loss(d)
  <2>5. won + lost = x + y + IF x = y THEN 1 ELSE 0
    <3>1. x \in Int /\ y \in Int
      BY <2>2, <2>3
    <3>2. won = x + gain /\ lost = y - loss /\ d = x - y
      OBVIOUS
    <3>3. /\ gain \in Int /\ loss \in Int
          /\ gain - loss = IF d = 0 THEN 1 ELSE 0
      BY <2>4
    <3> HIDE DEF x, y, gain, loss, won, lost, d
    <3>4. d = 0 <=> x = y
      BY <3>1, <3>2
    <3> QED  BY <3>1, <3>2, <3>3, <3>4
  <2> HIDE DEF death, win, lose, S, d, won, lost
  <2>6. ASSUME NEW p \in S, aggregates'[p].rating # ProfileOf(p).rating
        PROVE  aggregates'[p].wins + aggregates'[p].losses
               = ProfileOf(p).wins + ProfileOf(p).losses + 1
    <3>1. p = win \/ p = lose
      BY <2>3, <2>6
    <3> QED  BY <2>2, <2>3, <3>1
  <2>7. ASSUME NEW p \in S, NEW q \in S,
               aggregates'[p].wins = ProfileOf(p).wins + 1,
               aggregates'[q].losses = ProfileOf(q).losses + 1
        PROVE  aggregates'[p].rating + aggregates'[q].rating
               = ProfileOf(p).rating + ProfileOf(q).rating
                 + IF ProfileOf(p).rating = ProfileOf(q).rating THEN 1 ELSE 0
    <3>1. p = win
      BY <2>3, <2>7
    <3>2. q = lose
      BY <2>3, <2>7
    <3>3. aggregates'[p].rating = won /\ aggregates'[q].rating = lost
      BY <2>2, <2>3, <3>1, <3>2
    <3> QED  BY <2>5, <3>1, <3>2, <3>3
  <2> QED  BY <2>2, <2>6, <2>7
<1> QED  BY <1>1, StatsInvariant, PTL DEF StatsSpec, RatingsConserved
=============================================================================
