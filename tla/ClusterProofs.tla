---------------------------- MODULE ClusterProofs ----------------------------
(***************************************************************************)
(* TLAPS proofs about the two tables whose entries expire: about Cluster,  *)
(* for any servers, any placing of their virtual nodes on a ring of any    *)
(* size, any TTL and any threshold; and about InMemorySessionStore, for    *)
(* any sessions, players and TTL.                                          *)
(***************************************************************************)
EXTENDS Cluster, InMemorySessionStore, InductionLemmas

----------------------------------------------------------------------------
(* Types. *)

LEMMA TypeInit == Init => TypeOK
<1> SUFFICES ASSUME Init PROVE TypeOK
  OBVIOUS
<1>1. TTL \in 0..TTL /\ 0 \in 0..Threshold+1
  BY ConstantsAssumption
<1> QED  BY <1>1 DEF Init, TypeOK, NoEntry

\* Steps of a server process.
LEMMA ProcessTypes ==
  ASSUME TypeOK, NEW s \in Announced,
         \/ Register(s) \/ UpdateServerInfo(s) \/ HeartbeatStep(s)
         \/ StopHeartbeat(s) \/ Unregister(s) \/ Crash(s) \/ ClockShift(s)
  PROVE  TypeOK'
<1>1. TTL \in 0..TTL /\ 0 \in 0..TTL
  BY ConstantsAssumption
<1>2. UNCHANGED <<checkerVars, balancerVars>>
  BY DEF Register, UpdateServerInfo, HeartbeatStep, TestRunning,
         PublishServerInfo, StopHeartbeat, Unregister, Crash, ClockShift
<1>3. /\ proc' \in [Announced -> {"gone", "on", "stopping", "crashed"}]
      /\ thread' \in [Announced -> {"none", "test", "publish", "asleep"}]
      /\ behind' \subseteq Announced
  BY DEF TypeOK, Register, UpdateServerInfo, HeartbeatStep, TestRunning,
         PublishServerInfo, StopHeartbeat, Unregister, Crash, ClockShift
<1>4. record' \in [Announced -> 0..TTL]
  BY <1>1 DEF TypeOK, Register, UpdateServerInfo, HeartbeatStep, TestRunning,
         PublishServerInfo, StopHeartbeat, Unregister, Crash, ClockShift
<1> QED  BY <1>2, <1>3, <1>4 DEF TypeOK, checkerVars, balancerVars

LEMMA OlderType ==
  ASSUME NEW a \in 0..TTL
  PROVE  Older(a) \in 0..TTL
  BY ConstantsAssumption DEF Older

LEMMA TickTypes ==
  ASSUME TypeOK, Tick
  PROVE  TypeOK'
<1>1. record' \in [Announced -> 0..TTL]
  BY OlderType DEF Tick, TypeOK
<1>2. listed' \in [DOMAIN listed -> 0..TTL] /\ DOMAIN listed' = DOMAIN listed
  BY OlderType DEF Tick, TypeOK
<1>3. /\ thread' \in [Announced -> {"none", "test", "publish", "asleep"}]
      /\ checker' \in {"asleep", "due", "checking", "late"}
  BY DEF Tick, TypeOK
<1>4. UNCHANGED <<proc, behind, failures, balancerVars>>
  BY DEF Tick
<1> QED  BY <1>1, <1>2, <1>3, <1>4 DEF TypeOK, balancerVars

LEMMA ListTypes ==
  ASSUME TypeOK, List
  PROVE  TypeOK'
<1>1. DOMAIN listed' \subseteq Announced /\ listed' \in [DOMAIN listed' -> 0..TTL]
  BY DEF List, TypeOK
<1>2. checker' \in {"asleep", "due", "checking", "late"}
  BY DEF List
<1>3. UNCHANGED <<failures, discoveryVars, balancerVars>>
  BY DEF List
<1> QED  BY <1>1, <1>2, <1>3 DEF TypeOK, discoveryVars, balancerVars

\* What CheckServer counts for a server: never more than one above the
\* threshold.
Healthy(s) == listed[s] < TTL /\ s \notin behind

Count(s) ==
  IF Healthy(s) THEN 0
  ELSE IF failures[s] > Threshold THEN failures[s] ELSE failures[s] + 1

LEMMA CountType ==
  ASSUME TypeOK, NEW s \in Announced
  PROVE  Count(s) \in 0..Threshold+1 /\ failures[s] \in 0..Threshold+1
<1>1. failures[s] \in 0..Threshold+1 /\ Threshold \in Nat
  BY ConstantsAssumption DEF TypeOK
<1> QED  BY <1>1 DEF Count

\* What CheckServer does, in these words.
LEMMA Checked ==
  ASSUME TypeOK, NEW s \in DOMAIN listed, CheckServer(s)
  PROVE  /\ servers' = IF Count(s) = failures[s] THEN servers
                       ELSE Marked(s, Count(s))
         /\ failures' = [failures EXCEPT ![s] = Count(s)]
         /\ rejoined' = IF Healthy(s) THEN rejoined \ {s} ELSE rejoined
         /\ listed' = Restrict(listed, DOMAIN listed \ {s})
         /\ checker' \in {"asleep", checker}
         /\ UNCHANGED <<ring, discoveryVars>>
  BY DEF CheckServer, Count, Healthy

\* Marking changes nobody's membership, and nobody else's health.
LEMMA MarkedKeeps ==
  ASSUME TypeOK, NEW s, NEW n
  PROVE  /\ DOMAIN Marked(s, n) = DOMAIN servers
         /\ Marked(s, n) \in [DOMAIN servers -> BOOLEAN]
         /\ \A t \in DOMAIN servers \ {s} : Marked(s, n)[t] = servers[t]
  BY DEF Marked, TypeOK

LEMMA CheckTypes ==
  ASSUME TypeOK, NEW s \in DOMAIN listed, CheckServer(s)
  PROVE  TypeOK'
<1>0. s \in Announced
  BY DEF TypeOK
<1>1. failures' \in [Announced -> 0..Threshold+1]
  BY <1>0, CountType, Checked DEF TypeOK
<1>2. /\ DOMAIN servers' = DOMAIN servers
      /\ servers' \in [DOMAIN servers -> BOOLEAN]
  <2>1. servers' = servers \/ servers' = Marked(s, Count(s))
    BY Checked
  <2>2. /\ DOMAIN Marked(s, Count(s)) = DOMAIN servers
        /\ Marked(s, Count(s)) \in [DOMAIN servers -> BOOLEAN]
    BY MarkedKeeps
  <2> QED  BY <2>1, <2>2 DEF TypeOK
<1>3. DOMAIN listed' \subseteq Announced /\ listed' \in [DOMAIN listed' -> 0..TTL]
  <2>1. listed' = [t \in DOMAIN listed \ {s} |-> listed[t]]
    BY Checked DEF Restrict
  <2> QED  BY <2>1 DEF TypeOK
<1>4. rejoined' \subseteq Announced
  BY Checked DEF TypeOK
<1>5. checker' \in {"asleep", "due", "checking", "late"}
  BY Checked DEF TypeOK
<1>6. UNCHANGED <<ring, discoveryVars>>
  BY Checked
<1> QED  BY <1>1, <1>2, <1>3, <1>4, <1>5, <1>6 DEF TypeOK, discoveryVars

LEMMA BalancerTypes ==
  ASSUME TypeOK, NEW s \in Server, RegisterServer(s) \/ UnregisterServer(s)
  PROVE  TypeOK'
<1>0. VNodes[s] \subseteq Position
  BY ConstantsAssumption
<1>1. DOMAIN servers' \subseteq Server /\ servers' \in [DOMAIN servers' -> BOOLEAN]
  BY DEF RegisterServer, UnregisterServer, TypeOK, Restrict
<1>2. DOMAIN ring' \subseteq Position /\ ring' \in [DOMAIN ring' -> Server]
  BY <1>0 DEF RegisterServer, UnregisterServer, RemoveNode, TypeOK, Restrict
<1>3. rejoined' \subseteq Announced
  BY DEF RegisterServer, UnregisterServer, TypeOK
<1>4. UNCHANGED <<discoveryVars, checkerVars>>
  BY DEF RegisterServer, UnregisterServer
<1> QED  BY <1>1, <1>2, <1>3, <1>4 DEF TypeOK, discoveryVars, checkerVars

LEMMA TypeNext == TypeOK /\ [Next]_vars => TypeOK'
<1> SUFFICES ASSUME TypeOK, [Next]_vars PROVE TypeOK'
  OBVIOUS
<1>1. CASE UNCHANGED vars
  BY <1>1 DEF vars, discoveryVars, checkerVars, balancerVars, TypeOK
<1> QED  BY <1>1, ProcessTypes, TickTypes, ListTypes, CheckTypes, BalancerTypes
         DEF Next

\* The state is well-typed.
THEOREM TypeCorrect == Spec => []TypeOK
  BY TypeInit, TypeNext, PTL DEF Spec

----------------------------------------------------------------------------
(* Leaving. *)

LEMMA GoneInit == Init => GoneStaysGone
  BY DEF Init, GoneStaysGone

LEMMA GoneNext == TypeOK /\ GoneStaysGone /\ [Next]_vars => GoneStaysGone'
<1> SUFFICES ASSUME TypeOK, GoneStaysGone, [Next]_vars PROVE GoneStaysGone'
  OBVIOUS
<1>1. ASSUME NEW s \in Announced,
             \/ Register(s) \/ UpdateServerInfo(s) \/ HeartbeatStep(s)
             \/ StopHeartbeat(s) \/ Unregister(s) \/ Crash(s) \/ ClockShift(s)
      PROVE  GoneStaysGone'
  BY <1>1 DEF TypeOK, GoneStaysGone, Register, UpdateServerInfo,
              HeartbeatStep, TestRunning, PublishServerInfo, StopHeartbeat,
              Unregister, Crash, ClockShift
<1>2. CASE Tick
  <2>1. /\ proc' = proc
        /\ \A s \in Announced :
             /\ thread'[s] = IF thread[s] = "asleep" THEN "test" ELSE "none"
             /\ record'[s] = Older(record[s])
    BY <1>2 DEF Tick
  <2>2. Older(TTL) = TTL
    BY ConstantsAssumption DEF Older
  <2> QED  BY <2>1, <2>2 DEF GoneStaysGone
<1>3. ASSUME UNCHANGED discoveryVars
      PROVE  GoneStaysGone'
  BY <1>3 DEF discoveryVars, GoneStaysGone
<1>4. List \/ (\E s \in DOMAIN listed : CheckServer(s))
      \/ (\E s \in Server : RegisterServer(s) \/ UnregisterServer(s))
      \/ UNCHANGED vars => UNCHANGED discoveryVars
  BY DEF List, CheckServer, RegisterServer, UnregisterServer, vars
<1> QED  BY <1>1, <1>2, <1>3, <1>4 DEF Next

\* No server that has unregistered comes back by its own heartbeat.
THEOREM GoneServersStayGone == Spec => []GoneStaysGone
<1>1. TypeOK /\ TypeOK' /\ GoneStaysGone /\ [Next]_vars => GoneStaysGone'
  BY GoneNext
<1> QED  BY <1>1, GoneInit, TypeCorrect, PTL DEF Spec

----------------------------------------------------------------------------
(* Health. *)

LEMMA HealthInit == Init => HealthAgrees
  BY DEF Init, HealthAgrees, NoEntry

\* What HealthAgrees says of one server.
Agrees(s) ==
  IF s \in Announced
  THEN /\ ~servers[s] => failures[s] >= Threshold
       /\ failures[s] >= Threshold /\ s \notin rejoined => ~servers[s]
  ELSE servers[s]

LEMMA CheckAgrees ==
  ASSUME TypeOK, HealthAgrees, NEW s \in DOMAIN listed, CheckServer(s)
  PROVE  HealthAgrees'
<1>0. s \in Announced
  BY DEF TypeOK
<1> DEFINE n == Count(s)
           f == failures[s]
<1>1. n \in Nat /\ f \in Nat /\ Threshold \in Nat \ {0} /\ n <= Threshold + 1
  BY <1>0, CountType, ConstantsAssumption
<1>2. /\ servers' = IF n = f THEN servers ELSE Marked(s, n)
      /\ failures' = [failures EXCEPT ![s] = n]
      /\ rejoined' = IF Healthy(s) THEN rejoined \ {s} ELSE rejoined
  BY Checked
<1>3. /\ Healthy(s) => n = 0
      /\ ~Healthy(s) => n = IF f > Threshold THEN f ELSE f + 1
  BY DEF Count
<1>4. /\ DOMAIN Marked(s, n) = DOMAIN servers
      /\ \A t \in DOMAIN servers \ {s} : Marked(s, n)[t] = servers[t]
  BY MarkedKeeps
<1>5. /\ DOMAIN servers' = DOMAIN servers
      /\ \A t \in DOMAIN servers \ {s} : servers'[t] = servers[t]
  BY <1>2, <1>4
<1> HIDE DEF n
<1>6. ASSUME s \in DOMAIN servers
      PROVE  servers'[s] = IF n = f THEN servers[s]
                           ELSE IF n = 0 /\ f >= Threshold THEN TRUE
                           ELSE IF n = Threshold THEN FALSE
                           ELSE servers[s]
  BY <1>2, <1>6 DEF Marked, TypeOK
<1>7. ASSUME s \in DOMAIN servers
      PROVE  /\ ~servers'[s] => n >= Threshold
             /\ n >= Threshold /\ s \notin rejoined' => ~servers'[s]
  <2>1. /\ ~servers[s] => f >= Threshold
        /\ f >= Threshold /\ s \notin rejoined => ~servers[s]
    BY <1>0, <1>7 DEF HealthAgrees
  <2>2. CASE Healthy(s)
    <3>1. n = 0 /\ ~(n >= Threshold)
      BY <1>1, <1>3, <2>2
    <3>2. CASE f >= Threshold
      <4>1. n # f
        BY <1>1, <3>1, <3>2
      <4> QED  BY <1>6, <1>7, <3>1, <3>2, <4>1
    <3>3. CASE ~(f >= Threshold)
      <4>1. n # Threshold
        BY <1>1, <3>1
      <4>2. servers'[s] = servers[s]
        BY <1>6, <1>7, <3>3, <4>1
      <4> QED  BY <2>1, <3>1, <3>3, <4>2
    <3> QED  BY <3>2, <3>3
  <2>3. CASE ~Healthy(s)
    <3>1. rejoined' = rejoined
      BY <1>2, <2>3
    <3>2. CASE f > Threshold
      <4>1. n = f /\ f >= Threshold
        BY <1>1, <1>3, <2>3, <3>2
      <4> QED  BY <1>6, <1>7, <2>1, <3>1, <4>1
    <3>3. CASE f = Threshold
      <4>1. n # f /\ n # 0 /\ n # Threshold /\ f >= Threshold /\ n >= Threshold
        BY <1>1, <1>3, <2>3, <3>3
      <4> QED  BY <1>6, <1>7, <2>1, <3>1, <4>1
    <3>4. CASE f < Threshold
      <4>1. n # f /\ n # 0 /\ ~(f >= Threshold) /\ n = f + 1
        BY <1>1, <1>3, <2>3, <3>4
      <4>2. CASE n = Threshold
        <5>1. n >= Threshold
          BY <1>1, <4>2
        <5> QED  BY <1>6, <1>7, <4>1, <4>2, <5>1
      <4>3. CASE n # Threshold
        <5>1. ~(n >= Threshold)
          BY <1>1, <3>4, <4>1, <4>3
        <5> QED  BY <1>6, <1>7, <2>1, <4>1, <4>3, <5>1
      <4> QED  BY <4>2, <4>3
    <3>5. f > Threshold \/ f = Threshold \/ f < Threshold
      BY <1>1
    <3> QED  BY <3>2, <3>3, <3>4, <3>5
  <2> QED  BY <2>2, <2>3
<1>8. failures'[s] = n
  BY <1>0, <1>2 DEF TypeOK
<1>9. ASSUME NEW t \in DOMAIN servers, t # s
      PROVE  Agrees(t)'
  <2>1. /\ servers'[t] = servers[t]
        /\ t \in Announced => failures'[t] = failures[t]
        /\ t \in rejoined' <=> t \in rejoined
    BY <1>2, <1>5, <1>9 DEF TypeOK
  <2> QED  BY <2>1 DEF HealthAgrees, Agrees
<1>10. ASSUME s \in DOMAIN servers
       PROVE  Agrees(s)'
  BY <1>0, <1>7, <1>8, <1>10 DEF Agrees
<1> QED  BY <1>5, <1>9, <1>10 DEF HealthAgrees, Agrees

LEMMA BalancerAgrees ==
  ASSUME TypeOK, HealthAgrees, NEW s \in Server,
         RegisterServer(s) \/ UnregisterServer(s)
  PROVE  HealthAgrees'
<1>1. failures' = failures
  BY DEF RegisterServer, UnregisterServer, checkerVars
<1>2. CASE RegisterServer(s)
  <2>1. /\ DOMAIN servers' = DOMAIN servers \union {s}
        /\ servers'[s] = TRUE
        /\ \A t \in DOMAIN servers \ {s} : servers'[t] = servers[t]
        /\ \A t \in Announced \ {s} : t \in rejoined' <=> t \in rejoined
        /\ s \in Announced /\ failures[s] >= Threshold => s \in rejoined'
    BY <1>2 DEF RegisterServer
  <2> QED  BY <1>1, <2>1 DEF HealthAgrees
<1>3. CASE UnregisterServer(s)
  <2>1. /\ DOMAIN servers' = DOMAIN servers \ {s}
        /\ \A t \in DOMAIN servers \ {s} : servers'[t] = servers[t]
        /\ \A t \in Announced \ {s} : t \in rejoined' <=> t \in rejoined
    BY <1>3 DEF UnregisterServer, Restrict
  <2> QED  BY <1>1, <2>1 DEF HealthAgrees
<1> QED  BY <1>2, <1>3

LEMMA HealthNext == TypeOK /\ HealthAgrees /\ [Next]_vars => HealthAgrees'
<1> SUFFICES ASSUME TypeOK, HealthAgrees, [Next]_vars PROVE HealthAgrees'
  OBVIOUS
<1>1. ASSUME UNCHANGED <<failures, balancerVars>>
      PROVE  HealthAgrees'
  BY <1>1 DEF balancerVars, HealthAgrees
<1>2. ASSUME NEW s \in Announced,
             \/ Register(s) \/ UpdateServerInfo(s) \/ HeartbeatStep(s)
             \/ StopHeartbeat(s) \/ Unregister(s) \/ Crash(s) \/ ClockShift(s)
      PROVE  UNCHANGED <<failures, balancerVars>>
  BY <1>2 DEF Register, UpdateServerInfo, HeartbeatStep, TestRunning,
              PublishServerInfo, StopHeartbeat, Unregister, Crash, ClockShift,
              checkerVars
<1>3. Tick \/ List \/ UNCHANGED vars => UNCHANGED <<failures, balancerVars>>
  BY DEF Tick, List, vars, checkerVars
<1> QED  BY <1>1, <1>2, <1>3, CheckAgrees, BalancerAgrees DEF Next

\* The balancer shuns exactly the servers that are counted out, save those
\* that joined while they were.
THEOREM HealthIsAgreedOn == Spec => []HealthAgrees
<1>1. TypeOK /\ TypeOK' /\ HealthAgrees /\ [Next]_vars => HealthAgrees'
  BY HealthNext
<1> QED  BY <1>1, HealthInit, TypeCorrect, PTL DEF Spec

----------------------------------------------------------------------------
(* The ring. *)

LEMMA RingInit == Init => RingFollows
  BY DEF Init, RingFollows, NoEntry

\* Joining: every virtual node of the server leads to it, others lead where
\* they led.
LEMMA Joins ==
  ASSUME TypeOK, RingFollows, NEW s \in Server, RegisterServer(s)
  PROVE  /\ DOMAIN servers' = DOMAIN servers \union {s}
         /\ DOMAIN ring' = DOMAIN ring \union VNodes[s]
         /\ \A x \in VNodes[s] : ring'[x] = s
         /\ \A x \in DOMAIN ring \ VNodes[s] : ring'[x] = ring[x]
  BY DEF RegisterServer

\* Leaving: the others keep theirs, because no position is shared.
LEMMA Leaves ==
  ASSUME TypeOK, RingFollows, NEW s \in Server, UnregisterServer(s)
  PROVE  /\ s \in DOMAIN servers
         /\ DOMAIN servers' = DOMAIN servers \ {s}
         /\ DOMAIN ring' = DOMAIN ring \ VNodes[s]
         /\ \A x \in DOMAIN ring' : ring'[x] = ring[x]
  BY DEF UnregisterServer, RemoveNode, Restrict

LEMMA RingNext == TypeOK /\ RingFollows /\ [Next]_vars => RingFollows'
<1> SUFFICES ASSUME TypeOK, RingFollows, [Next]_vars PROVE RingFollows'
  OBVIOUS
<1>0. /\ \A s \in Server : VNodes[s] \subseteq Position
      /\ \A s, t \in Server : s # t => VNodes[s] \intersect VNodes[t] = {}
      /\ DOMAIN servers \subseteq Server
  BY ConstantsAssumption DEF TypeOK
<1>1. ASSUME NEW s \in Server, RegisterServer(s)
      PROVE  RingFollows'
  <2>1. /\ DOMAIN servers' = DOMAIN servers \union {s}
        /\ DOMAIN ring' = DOMAIN ring \union VNodes[s]
        /\ \A x \in VNodes[s] : ring'[x] = s
        /\ \A x \in DOMAIN ring \ VNodes[s] : ring'[x] = ring[x]
    BY <1>1, Joins
  <2>2. DOMAIN ring' = UNION {VNodes[t] : t \in DOMAIN servers'}
    BY <2>1 DEF RingFollows
  <2>3. ASSUME NEW t \in DOMAIN servers', NEW x \in VNodes[t]
        PROVE  ring'[x] = t
    <3>1. CASE t = s
      BY <2>1, <3>1
    <3>2. CASE t # s
      <4>1. t \in DOMAIN servers /\ x \in DOMAIN ring /\ ring[x] = t
        BY <2>1, <2>3, <3>2 DEF RingFollows
      <4>2. x \notin VNodes[s]
        BY <1>0, <2>3, <3>2, <4>1
      <4> QED  BY <2>1, <4>1, <4>2
    <3> QED  BY <3>1, <3>2
  <2> QED  BY <2>2, <2>3 DEF RingFollows
<1>2. ASSUME NEW s \in Server, UnregisterServer(s)
      PROVE  RingFollows'
  <2>1. /\ DOMAIN servers' = DOMAIN servers \ {s}
        /\ DOMAIN ring' = DOMAIN ring \ VNodes[s]
        /\ \A x \in DOMAIN ring' : ring'[x] = ring[x]
    BY <1>2, Leaves
  <2>2. ASSUME NEW t \in DOMAIN servers', NEW x \in VNodes[t]
        PROVE  x \in DOMAIN ring' /\ ring'[x] = t
    <3>1. t \in DOMAIN servers /\ x \in DOMAIN ring /\ ring[x] = t /\ t # s
      BY <2>1, <2>2 DEF RingFollows
    <3>2. x \notin VNodes[s]
      BY <1>0, <2>2, <3>1
    <3> QED  BY <2>1, <3>1, <3>2
  <2>3. ASSUME NEW x \in DOMAIN ring'
        PROVE  \E t \in DOMAIN servers' : x \in VNodes[t]
    <3>1. PICK t \in DOMAIN servers : x \in VNodes[t]
      BY <2>1 DEF RingFollows
    <3>2. t # s
      BY <2>1, <3>1
    <3> QED  BY <2>1, <3>1, <3>2
  <2>4. DOMAIN ring' = UNION {VNodes[t] : t \in DOMAIN servers'}
    <3>1. ASSUME NEW x \in DOMAIN ring'
          PROVE  x \in UNION {VNodes[t] : t \in DOMAIN servers'}
      BY <2>3
    <3>2. ASSUME NEW t \in DOMAIN servers', NEW x \in VNodes[t]
          PROVE  x \in DOMAIN ring'
      BY <2>2
    <3> QED  BY <3>1, <3>2
  <2>5. \A t \in DOMAIN servers' : \A x \in VNodes[t] : ring'[x] = t
    BY <2>2
  <2> QED  BY <2>4, <2>5 DEF RingFollows
<1>3. ASSUME DOMAIN servers' = DOMAIN servers, ring' = ring
      PROVE  RingFollows'
  BY <1>3 DEF RingFollows
<1>4. ASSUME NEW s \in DOMAIN listed, CheckServer(s)
      PROVE  DOMAIN servers' = DOMAIN servers /\ ring' = ring
  <2>1. servers' = servers \/ servers' = Marked(s, Count(s))
    BY <1>4, Checked
  <2>2. DOMAIN Marked(s, Count(s)) = DOMAIN servers
    BY MarkedKeeps
  <2> QED  BY <1>4, <2>1, <2>2, Checked
<1>5. ASSUME NEW s \in Announced,
             \/ Register(s) \/ UpdateServerInfo(s) \/ HeartbeatStep(s)
             \/ StopHeartbeat(s) \/ Unregister(s) \/ Crash(s) \/ ClockShift(s)
      PROVE  UNCHANGED balancerVars
  BY <1>5 DEF Register, UpdateServerInfo, HeartbeatStep, TestRunning,
              PublishServerInfo, StopHeartbeat, Unregister, Crash, ClockShift
<1>6. Tick \/ List \/ UNCHANGED vars => UNCHANGED balancerVars
  BY DEF Tick, List, vars
<1>7. UNCHANGED balancerVars => DOMAIN servers' = DOMAIN servers /\ ring' = ring
  BY DEF balancerVars
<1> QED  BY <1>1, <1>2, <1>3, <1>4, <1>5, <1>6, <1>7 DEF Next

\* The ring holds exactly the virtual nodes of the balancer's servers.
THEOREM RingFollowsServers == Spec => []RingFollows
<1>1. TypeOK /\ TypeOK' /\ RingFollows /\ [Next]_vars => RingFollows'
  BY RingNext
<1> QED  BY <1>1, RingInit, TypeCorrect, PTL DEF Spec

----------------------------------------------------------------------------
(* Consistency of the hash. *)

LEMMA ClockwiseType ==
  ASSUME NEW h \in Position, NEW x \in Position
  PROVE  Clockwise(h, x) \in Nat
  BY ConstantsAssumption DEF Clockwise, Position

\* Two positions are never equally far from a hash.
LEMMA ClockwiseInjective ==
  ASSUME NEW h \in Position, NEW x \in Position, NEW y \in Position,
         Clockwise(h, x) = Clockwise(h, y)
  PROVE  x = y
  BY ConstantsAssumption DEF Clockwise, Position

\* A ring that is not empty has one first position after each hash.
First(on, hash, x) ==
  x \in DOMAIN on /\ \A y \in DOMAIN on : Clockwise(hash, x) <= Clockwise(hash, y)

LEMMA FirstExists ==
  ASSUME NEW on, DOMAIN on \subseteq Position, DOMAIN on # {},
         NEW h \in Position
  PROVE  \E x : First(on, h, x)
<1> DEFINE T == {Clockwise(h, x) : x \in DOMAIN on}
<1>1. T \subseteq Nat /\ T # {}
  BY ClockwiseType
<1>2. PICK m \in T : \A k \in T : m <= k
  BY <1>1, Least
<1>3. PICK x \in DOMAIN on : m = Clockwise(h, x)
  OBVIOUS
<1>4. First(on, h, x)
  BY <1>2, <1>3 DEF First
<1> QED  BY <1>4

LEMMA FirstUnique ==
  ASSUME NEW on, DOMAIN on \subseteq Position, NEW h \in Position,
         NEW x, NEW y, First(on, h, x), First(on, h, y)
  PROVE  x = y
<1>1. x \in Position /\ y \in Position
  BY DEF First
<1>2. Clockwise(h, x) \in Nat /\ Clockwise(h, y) \in Nat
  BY <1>1, ClockwiseType
<1>3. Clockwise(h, x) = Clockwise(h, y)
  BY <1>2 DEF First
<1> QED  BY <1>1, <1>3, ClockwiseInjective

\* GetNode is the server at that position.
LEMMA GetNodeIsFirst ==
  ASSUME NEW on, DOMAIN on \subseteq Position, DOMAIN on # {},
         NEW h \in Position
  PROVE  \E x : First(on, h, x) /\ GetNode(on, h) = on[x]
<1> DEFINE c == CHOOSE x \in DOMAIN on :
                  \A y \in DOMAIN on : Clockwise(h, x) <= Clockwise(h, y)
<1>1. First(on, h, c)
  <2>1. PICK x : First(on, h, x)
    BY FirstExists
  <2>2. x \in DOMAIN on
        /\ \A y \in DOMAIN on : Clockwise(h, x) <= Clockwise(h, y)
    BY <2>1 DEF First
  <2>3. c \in DOMAIN on
        /\ \A y \in DOMAIN on : Clockwise(h, c) <= Clockwise(h, y)
    BY <2>2
  <2> QED  BY <2>3 DEF First
<1>2. GetNode(on, h) = on[c]
  BY DEF GetNode
<1> QED  BY <1>1, <1>2

\* The first position of a ring that contains another, if it is in that one,
\* is the first there.
LEMMA FirstOfLess ==
  ASSUME NEW on, NEW more, DOMAIN on \subseteq DOMAIN more, NEW h, NEW x,
         First(more, h, x), x \in DOMAIN on
  PROVE  First(on, h, x)
  BY DEF First

\* Adding positions to a ring moves keys to those positions only.
LEMMA KeysStay ==
  ASSUME NEW on, NEW more, DOMAIN on \subseteq DOMAIN more,
         DOMAIN more \subseteq Position, DOMAIN on # {},
         \A x \in DOMAIN on : more[x] = on[x], NEW h \in Position
  PROVE  \/ GetNode(more, h) = GetNode(on, h)
         \/ \E x \in DOMAIN more \ DOMAIN on : GetNode(more, h) = more[x]
<1>1. PICK x : First(on, h, x) /\ GetNode(on, h) = on[x]
  BY GetNodeIsFirst
<1>2. PICK y : First(more, h, y) /\ GetNode(more, h) = more[y]
  BY GetNodeIsFirst
<1>3. CASE y \in DOMAIN on
  <2>1. First(on, h, y)
    BY <1>2, <1>3, FirstOfLess
  <2>2. x = y
    BY <1>1, <2>1, FirstUnique
  <2> QED  BY <1>1, <1>2, <1>3, <2>2
<1>4. CASE y \notin DOMAIN on
  BY <1>2, <1>4 DEF First
<1> QED  BY <1>3, <1>4

\* A server that joins takes keys to itself, one that leaves gives up its own,
\* and no other key moves.
THEOREM OnlyTheirKeysMove == Spec => OnlyItsKeysMove
<1> DEFINE Kept ==
      \A hash \in Position : ring # NoEntry /\ ring' # NoEntry =>
        LET from == GetNode(ring, hash)
            to   == GetNode(ring', hash)
        IN  from # to => from \notin DOMAIN servers' \/ to \notin DOMAIN servers
<1>1. ASSUME TypeOK, TypeOK', RingFollows, [Next]_vars
      PROVE  [Kept]_<<servers, ring>>
  <2> SUFFICES ASSUME NEW h \in Position, ring # NoEntry, ring' # NoEntry,
                      GetNode(ring, h) # GetNode(ring', h)
               PROVE  \/ GetNode(ring, h) \notin DOMAIN servers'
                      \/ GetNode(ring', h) \notin DOMAIN servers
    OBVIOUS
  <2>0. /\ DOMAIN ring \subseteq Position /\ DOMAIN ring # {}
        /\ DOMAIN ring' \subseteq Position /\ DOMAIN ring' # {}
    BY <1>1 DEF TypeOK, NoEntry
  <2>1. ASSUME NEW s \in Server, RegisterServer(s)
        PROVE  GetNode(ring', h) \notin DOMAIN servers
    <3>1. /\ DOMAIN ring' = DOMAIN ring \union VNodes[s]
          /\ \A x \in VNodes[s] : ring'[x] = s
          /\ \A x \in DOMAIN ring \ VNodes[s] : ring'[x] = ring[x]
      BY <1>1, <2>1, Joins
    <3>2. s \in DOMAIN servers =>
            VNodes[s] \subseteq DOMAIN ring /\ \A x \in VNodes[s] : ring[x] = s
      BY <1>1 DEF RingFollows
    <3>3. \A x \in DOMAIN ring : x \in VNodes[s] => s \in DOMAIN servers
      <4>1. \A t \in Server : t # s => VNodes[s] \intersect VNodes[t] = {}
        BY ConstantsAssumption
      <4> QED  BY <1>1, <4>1 DEF RingFollows, TypeOK
    <3>4. \A x \in DOMAIN ring : ring'[x] = ring[x]
      BY <3>1, <3>2, <3>3
    <3>5. PICK x \in DOMAIN ring' \ DOMAIN ring : GetNode(ring', h) = ring'[x]
      BY <2>0, <3>1, <3>4, KeysStay
    <3>6. x \in VNodes[s] /\ s \notin DOMAIN servers
      BY <3>1, <3>2, <3>5
    <3> QED  BY <3>1, <3>5, <3>6
  <2>2. ASSUME NEW s \in Server, UnregisterServer(s)
        PROVE  GetNode(ring, h) \notin DOMAIN servers'
    <3>1. /\ s \in DOMAIN servers
          /\ DOMAIN servers' = DOMAIN servers \ {s}
          /\ DOMAIN ring' = DOMAIN ring \ VNodes[s]
          /\ \A x \in DOMAIN ring' : ring'[x] = ring[x]
      BY <1>1, <2>2, Leaves
    <3>2. PICK x \in DOMAIN ring \ DOMAIN ring' : GetNode(ring, h) = ring[x]
      BY <2>0, <3>1, KeysStay
    <3>3. ring[x] = s
      BY <1>1, <3>1, <3>2 DEF RingFollows
    <3> QED  BY <3>1, <3>2, <3>3
  <2>3. ASSUME NEW s \in DOMAIN listed, CheckServer(s)
        PROVE  ring' = ring
    BY <2>3 DEF CheckServer
  <2>4. ASSUME NEW s \in Announced,
               \/ Register(s) \/ UpdateServerInfo(s) \/ HeartbeatStep(s)
               \/ StopHeartbeat(s) \/ Unregister(s) \/ Crash(s)
               \/ ClockShift(s)
        PROVE  ring' = ring
    BY <2>4 DEF Register, UpdateServerInfo, HeartbeatStep, TestRunning,
                PublishServerInfo, StopHeartbeat, Unregister, Crash,
                ClockShift, balancerVars
  <2>5. Tick \/ List \/ UNCHANGED vars => ring' = ring
    BY DEF Tick, List, vars, balancerVars
  <2>6. ring' # ring
    OBVIOUS
  <2> QED  BY <1>1, <2>1, <2>2, <2>3, <2>4, <2>5, <2>6 DEF Next
<1> QED  BY <1>1, TypeCorrect, RingFollowsServers, PTL DEF Spec, OnlyItsKeysMove

----------------------------------------------------------------------------
(* Selection. *)

\* How far a walk from a hash goes until it meets a server.
Walk(on, h, s) == Clockwise(h, Nearest(on, h, s))

\* It meets each server of the ring at one of its positions, the first.
LEMMA NearestIsNearest ==
  ASSUME NEW on, DOMAIN on \subseteq Position, NEW h \in Position,
         NEW s \in Range(on)
  PROVE  /\ Nearest(on, h, s) \in DOMAIN on
         /\ on[Nearest(on, h, s)] = s
         /\ \A y \in DOMAIN on : on[y] = s => Walk(on, h, s) <= Clockwise(h, y)
         /\ Walk(on, h, s) \in Nat
<1> DEFINE its == {x \in DOMAIN on : on[x] = s}
           T == {Clockwise(h, x) : x \in its}
<1>1. its # {}
  BY DEF Range
<1>2. T \subseteq Nat /\ T # {}
  BY <1>1, ClockwiseType
<1>3. PICK m \in T : \A k \in T : m <= k
  BY <1>2, Least
<1>4. PICK x \in its : m = Clockwise(h, x)
  OBVIOUS
<1>5. x \in DOMAIN on /\ on[x] = s
      /\ \A y \in DOMAIN on : on[y] = s => Clockwise(h, x) <= Clockwise(h, y)
  BY <1>3, <1>4
<1> DEFINE c == Nearest(on, h, s)
<1>6. c \in DOMAIN on /\ on[c] = s
      /\ \A y \in DOMAIN on : on[y] = s => Clockwise(h, c) <= Clockwise(h, y)
  BY <1>5 DEF Nearest
<1> HIDE DEF c
<1>7. Clockwise(h, c) \in Nat
  BY <1>6, ClockwiseType
<1> QED  BY <1>6, <1>7 DEF Walk, c

\* It never meets two servers at once.
LEMMA WalkInjective ==
  ASSUME NEW on, DOMAIN on \subseteq Position, NEW h \in Position,
         NEW s \in Range(on), NEW t \in Range(on), Walk(on, h, s) = Walk(on, h, t)
  PROVE  s = t
<1> DEFINE x == Nearest(on, h, s)
           y == Nearest(on, h, t)
<1>1. x \in DOMAIN on /\ on[x] = s /\ y \in DOMAIN on /\ on[y] = t
  BY NearestIsNearest
<1>2. Clockwise(h, x) = Clockwise(h, y)
  BY DEF Walk
<1> HIDE DEF x, y
<1>3. x = y
  BY <1>1, <1>2, ClockwiseInjective
<1> QED  BY <1>1, <1>3

\* It meets the server that GetNode names before all others.
LEMMA GetNodeIsNearest ==
  ASSUME NEW on, DOMAIN on \subseteq Position, DOMAIN on # {},
         NEW h \in Position
  PROVE  /\ GetNode(on, h) \in Range(on)
         /\ Nearer(on, h, GetNode(on, h)) = {}
<1> DEFINE g == GetNode(on, h)
<1>1. PICK x : First(on, h, x) /\ g = on[x]
  BY GetNodeIsFirst
<1>2. x \in DOMAIN on /\ g \in Range(on)
  BY <1>1 DEF First, Range
<1> HIDE DEF g
<1>3. Walk(on, h, g) <= Clockwise(h, x) /\ Walk(on, h, g) \in Nat
  BY <1>1, <1>2, NearestIsNearest
<1>4. Clockwise(h, x) \in Nat
  BY <1>2, ClockwiseType
<1>5. ASSUME NEW t \in Range(on)
      PROVE  ~(Walk(on, h, t) < Walk(on, h, g))
  <2>1. Nearest(on, h, t) \in DOMAIN on /\ Walk(on, h, t) \in Nat
    BY NearestIsNearest
  <2>2. Clockwise(h, x) <= Walk(on, h, t)
    BY <1>1, <2>1 DEF First, Walk
  <2> QED  BY <1>3, <1>4, <2>1, <2>2
<1>6. Nearer(on, h, g) = {}
  BY <1>5 DEF Nearer, Walk
<1> QED  BY <1>2, <1>6 DEF g

\* The servers on the ring are those of the balancer, finitely many.
LEMMA RingServers ==
  ASSUME TypeOK, RingFollows
  PROVE  Range(ring) = DOMAIN servers /\ IsFiniteSet(DOMAIN servers)
<1>1. ASSUME NEW s \in Range(ring)
      PROVE  s \in DOMAIN servers
  <2>1. PICK x \in DOMAIN ring : ring[x] = s
    BY DEF Range
  <2>2. PICK t \in DOMAIN servers : x \in VNodes[t]
    BY DEF RingFollows
  <2> QED  BY <2>1, <2>2 DEF RingFollows
<1>2. ASSUME NEW s \in DOMAIN servers
      PROVE  s \in Range(ring)
  <2>1. PICK x : x \in VNodes[s]
    BY ConstantsAssumption DEF TypeOK
  <2>2. x \in DOMAIN ring /\ ring[x] = s
    BY <2>1 DEF RingFollows
  <2> QED  BY <2>2 DEF Range
<1>3. IsFiniteSet(DOMAIN servers)
  BY ConstantsAssumption, FS_Subset DEF TypeOK
<1> QED  BY <1>1, <1>2, <1>3

\* What the properties call fit, and what a selection finds of it.
Fit(capacity) == {s \in DOMAIN servers : servers[s] /\ s \in capacity}

LEMMA SelectedIsFit ==
  ASSUME TypeOK, RingFollows, NEW h \in Position, NEW capacity,
         NEW s \in Select(h, capacity)
  PROVE  /\ s \in Fit(capacity)
         /\ s \in GetNodes(ring, h, Candidates)
         /\ \A t \in Fit(capacity) \intersect GetNodes(ring, h, Candidates) :
              ~(Walk(ring, h, t) < Walk(ring, h, s))
<1>1. /\ s \in Fit(capacity) /\ s \in GetNodes(ring, h, Candidates)
      /\ \A t \in Fit(capacity) \intersect GetNodes(ring, h, Candidates) :
           t \notin Nearer(ring, h, s)
  BY DEF Select, Fit
<1>2. \A t \in Range(ring) : t \notin Nearer(ring, h, s)
                               => ~(Walk(ring, h, t) < Walk(ring, h, s))
  BY DEF Nearer, Walk
<1>3. GetNodes(ring, h, Candidates) \subseteq Range(ring)
  BY DEF GetNodes
<1> QED  BY <1>1, <1>2, <1>3

LEMMA FitIsSelected ==
  ASSUME TypeOK, RingFollows, NEW h \in Position, NEW capacity,
         NEW s \in Fit(capacity) \intersect GetNodes(ring, h, Candidates),
         \A t \in Fit(capacity) \intersect GetNodes(ring, h, Candidates) :
           ~(Walk(ring, h, t) < Walk(ring, h, s))
  PROVE  s \in Select(h, capacity)
  BY DEF Select, Fit, Nearer, Walk

\* The properties' selection, one conjunct after the other.
LEMMA SelectsOne ==
  ASSUME TypeOK, RingFollows, NEW h \in Position, NEW capacity
  PROVE  Cardinality(Select(h, capacity)) <= 1
<1> DEFINE got == Select(h, capacity)
<1>0. DOMAIN ring \subseteq Position
  BY DEF TypeOK
<1>1. ASSUME NEW s \in got, NEW t \in got
      PROVE  s = t
  <2>1. /\ s \in Fit(capacity) \intersect GetNodes(ring, h, Candidates)
        /\ t \in Fit(capacity) \intersect GetNodes(ring, h, Candidates)
        /\ ~(Walk(ring, h, s) < Walk(ring, h, t))
        /\ ~(Walk(ring, h, t) < Walk(ring, h, s))
    BY SelectedIsFit
  <2>2. s \in Range(ring) /\ t \in Range(ring)
    BY <2>1 DEF GetNodes
  <2>3. Walk(ring, h, s) \in Nat /\ Walk(ring, h, t) \in Nat
    BY <1>0, <2>2, NearestIsNearest
  <2>4. Walk(ring, h, s) = Walk(ring, h, t)
    BY <2>1, <2>3
  <2> QED  BY <1>0, <2>2, <2>4, WalkInjective
<1> HIDE DEF got
<1>2. CASE got = {}
  BY <1>2, FS_EmptySet DEF got
<1>3. CASE got # {}
  <2>1. PICK s : got = {s}
    BY <1>1, <1>3
  <2>2. Cardinality(got) = 1
    BY <2>1, FS_Singleton
  <2> QED  BY <2>2 DEF got
<1> QED  BY <1>2, <1>3

\* A walk that asks for as many servers as there are meets them all, and the
\* first of them that fits is selected.
LEMMA SelectsWhenFew ==
  ASSUME TypeOK, RingFollows, NEW h \in Position, NEW capacity,
         Cardinality(DOMAIN servers) <= Candidates, Fit(capacity) # {}
  PROVE  Select(h, capacity) # {}
<1>0. DOMAIN ring \subseteq Position /\ Candidates \in Nat
  BY ConstantsAssumption DEF TypeOK
<1>1. ASSUME NEW s \in DOMAIN servers
      PROVE  s \in GetNodes(ring, h, Candidates)
  <2>1. s \in Range(ring) /\ Walk(ring, h, s) \in Nat
    BY <1>0, RingServers, NearestIsNearest
  <2>2. Nearer(ring, h, s) \subseteq DOMAIN servers \ {s}
    BY <2>1, RingServers DEF Nearer, Walk
  <2>3. /\ IsFiniteSet(DOMAIN servers \ {s})
        /\ Cardinality(DOMAIN servers \ {s}) = Cardinality(DOMAIN servers) - 1
    BY RingServers, FS_RemoveElement
  <2>4. /\ Cardinality(Nearer(ring, h, s)) <= Cardinality(DOMAIN servers \ {s})
        /\ IsFiniteSet(Nearer(ring, h, s))
    BY <2>2, <2>3, FS_Subset
  <2>5. /\ Cardinality(Nearer(ring, h, s)) \in Nat
        /\ Cardinality(DOMAIN servers) \in Nat
    BY <2>4, RingServers, FS_CardinalityType
  <2>6. Cardinality(Nearer(ring, h, s)) < Candidates
    BY <1>0, <2>3, <2>4, <2>5
  <2> QED  BY <2>1, <2>6 DEF GetNodes
<1> DEFINE T == {Walk(ring, h, s) : s \in Fit(capacity)}
<1>2. \A s \in Fit(capacity) : s \in DOMAIN servers /\ Walk(ring, h, s) \in Nat
  BY <1>0, RingServers, NearestIsNearest DEF Fit
<1>3. PICK m \in T : \A k \in T : m <= k
  <2>1. T \subseteq Nat /\ T # {}
    BY <1>2
  <2> QED  BY <2>1, Least
<1>4. PICK s \in Fit(capacity) : m = Walk(ring, h, s)
  OBVIOUS
<1>5. \A t \in Fit(capacity) : ~(Walk(ring, h, t) < Walk(ring, h, s))
  BY <1>2, <1>3, <1>4
<1>6. s \in GetNodes(ring, h, Candidates)
  BY <1>1, <1>2
<1> QED  BY <1>4, <1>5, <1>6, FitIsSelected

\* The first choice of a key is selected if it fits.
LEMMA SelectsFirstChoice ==
  ASSUME TypeOK, RingFollows, NEW h \in Position, NEW capacity,
         ring # NoEntry, GetNode(ring, h) \in Fit(capacity)
  PROVE  Select(h, capacity) = {GetNode(ring, h)}
<1> DEFINE g == GetNode(ring, h)
           got == Select(h, capacity)
<1>0. DOMAIN ring \subseteq Position /\ DOMAIN ring # {}
  BY DEF TypeOK, NoEntry
<1>1. g \in Range(ring) /\ Nearer(ring, h, g) = {}
  BY <1>0, GetNodeIsNearest
<1>2. g \in GetNodes(ring, h, Candidates)
  <2>1. Cardinality({}) = 0 /\ Candidates \in Nat \ {0}
    BY FS_EmptySet, ConstantsAssumption
  <2>2. 0 < Candidates
    BY <2>1
  <2> QED  BY <1>1, <2>1, <2>2 DEF GetNodes
<1>3. \A t \in Range(ring) : ~(Walk(ring, h, t) < Walk(ring, h, g))
  BY <1>1 DEF Nearer, Walk
<1>4. g \in got
  <2>1. GetNodes(ring, h, Candidates) \subseteq Range(ring)
    BY DEF GetNodes
  <2> QED  BY <1>2, <1>3, <2>1, FitIsSelected
<1>5. ASSUME NEW s \in got
      PROVE  s = g
  <2>1. /\ s \in Range(ring) /\ ~(Walk(ring, h, g) < Walk(ring, h, s))
    BY <1>2, SelectedIsFit DEF GetNodes
  <2>2. Walk(ring, h, g) \in Nat /\ Walk(ring, h, s) \in Nat
    BY <1>0, <1>1, <2>1, NearestIsNearest
  <2>3. Walk(ring, h, g) = Walk(ring, h, s)
    BY <1>3, <2>1, <2>2
  <2> QED  BY <1>0, <1>1, <2>1, <2>3, WalkInjective
<1> QED  BY <1>4, <1>5

\* The ring is the balancer's servers, and a selection returns one of them that
\* fits: always when the ring is asked for all, and the first choice of the
\* key if that one fits.
THEOREM BalancerAlwaysServes == Spec => []BalancerServes
<1>1. TypeOK /\ RingFollows => BalancerServes
  <2> SUFFICES ASSUME TypeOK, RingFollows, NEW h \in Position,
                      NEW capacity \in SUBSET Server
               PROVE  /\ Select(h, capacity) \subseteq Fit(capacity)
                      /\ Cardinality(Select(h, capacity)) <= 1
                      /\ Cardinality(DOMAIN servers) <= Candidates
                         /\ Fit(capacity) # {} => Select(h, capacity) # {}
                      /\ ring # NoEntry /\ GetNode(ring, h) \in Fit(capacity)
                           => Select(h, capacity) = {GetNode(ring, h)}
    BY DEF BalancerServes, SelectionFinds, Fit
  <2>1. Select(h, capacity) \subseteq Fit(capacity)
    BY SelectedIsFit
  <2> QED  BY <2>1, SelectsOne, SelectsWhenFew, SelectsFirstChoice
<1> QED  BY <1>1, TypeCorrect, RingFollowsServers, PTL

----------------------------------------------------------------------------
(* InMemorySessionStore.  The reverse index is sound, and complete for      *)
(* every player that never had two sessions at a time.                     *)

\* The two facts about the index, and that "overlapped" really records every
\* player with two entries: without it completeness is not inductive, since
\* dropping one of two entries erases the index of the other.
StoreInv ==
  /\ StoreTypeOK
  /\ IndexSound
  /\ IndexComplete
  /\ \A r, s \in SessionId :
       r # s /\ owner[r] = owner[s] /\ owner[r] # NoPlayer
         => owner[r] \in overlapped

\* The empty store satisfies the invariant.
LEMMA StoreInvInit == StoreInit => StoreInv
  BY StoreAssumption
     DEF StoreInit, StoreInv, StoreTypeOK, IndexSound, IndexComplete

\* Dropping entries keeps the invariant.
LEMMA DropKeeps ==
  ASSUME StoreInv, NEW gone \in SUBSET SessionId, Drop(gone),
         UNCHANGED overlapped, running' \in BOOLEAN,
         cleaner' \in {"asleep", "sweeping", "ended"}
  PROVE  StoreInv'
  <1> USE StoreAssumption DEF StoreInv, StoreTypeOK
  <1>1. StoreTypeOK'
    BY DEF Drop
  <1>2. IndexSound'
    BY DEF Drop, IndexSound
  <1>3. IndexComplete'
    <2> SUFFICES ASSUME NEW p \in PlayerId \ overlapped', NEW s \in SessionId,
                        owner'[s] = p
                 PROVE  index'[p] = s
      BY DEF IndexComplete
    <2>1. s \notin gone /\ owner[s] = p /\ p \notin overlapped
      BY DEF Drop
    <2>2. \A r \in gone : owner[r] # p
      BY <2>1
    <2> QED  BY <2>1, <2>2 DEF Drop, IndexComplete
  <1>4. (\A r, s \in SessionId :
           r # s /\ owner[r] = owner[s] /\ owner[r] # NoPlayer
             => owner[r] \in overlapped)'
    BY DEF Drop
  <1> QED  BY <1>1, <1>2, <1>3, <1>4

\* A full TTL is a legal remaining time.
LEMMA FullTtl == Ttl \in -1..Ttl
  BY StoreAssumption

\* Every operation and every step of the cleanup thread keeps it.
LEMMA StoreInvNext == StoreInv /\ [StoreNext]_storeVars => StoreInv'
  <1> SUFFICES ASSUME StoreInv, [StoreNext]_storeVars
               PROVE  StoreInv'
    OBVIOUS
  <1> USE StoreAssumption DEF StoreInv, StoreTypeOK
  <1>1. ASSUME NEW s \in SessionId, NEW p \in PlayerId, SaveSession(s, p)
        PROVE  StoreInv'
    <2>1. StoreTypeOK'
      BY <1>1, FullTtl DEF SaveSession, IndexAfterSave
    <2>2. IndexSound'
      BY <1>1 DEF SaveSession, IndexAfterSave, IndexSound
    <2>3. IndexComplete'
      BY <1>1 DEF SaveSession, IndexAfterSave, IndexComplete
    <2>4. (\A r, t \in SessionId :
             r # t /\ owner[r] = owner[t] /\ owner[r] # NoPlayer
               => owner[r] \in overlapped)'
      BY <1>1 DEF SaveSession
    <2> QED  BY <2>1, <2>2, <2>3, <2>4
  <1>2. ASSUME NEW s \in SessionId, GetSession(s) \/ DeleteSession(s)
        PROVE  StoreInv'
    <2>1. Drop({s}) /\ UNCHANGED <<running, cleaner, overlapped>>
      BY <1>2 DEF GetSession, DeleteSession
    <2> QED  BY <2>1, DropKeeps
  <1>3. ASSUME NEW s \in SessionId, RefreshSession(s)
        PROVE  StoreInv'
    <2>1. CASE IsExpired(s)
      BY <1>3, <2>1, DropKeeps DEF RefreshSession
    <2>2. CASE ~IsExpired(s)
      <3>1. left' \in [SessionId -> -1..Ttl]
        BY <1>3, <2>2, FullTtl DEF RefreshSession
      <3>2. UNCHANGED <<owner, index, running, cleaner, overlapped>>
        BY <1>3, <2>2 DEF RefreshSession
      <3> QED  BY <3>1, <3>2 DEF IndexSound, IndexComplete
    <2> QED  BY <2>1, <2>2
  <1>4. ASSUME NEW p \in PlayerId, GetSessionByPlayerId(p)
        PROVE  StoreInv'
    <2> DEFINE s == index[p]
    <2>1. /\ s \in SessionId /\ owner[s] = p
          /\ index' = [index EXCEPT ![p] = NoSession]
          /\ owner' = [owner EXCEPT ![s] = NoPlayer]
          /\ left' = [left EXCEPT ![s] = Ttl]
          /\ UNCHANGED <<running, cleaner, overlapped>>
      BY <1>4 DEF GetSessionByPlayerId, IndexSound
    <2>2. Drop({s})
      <3> HIDE DEF s
      <3>1. owner' = [r \in SessionId |-> IF r \in {s} THEN NoPlayer ELSE owner[r]]
        BY <2>1
      <3>2. left' = [r \in SessionId |-> IF r \in {s} THEN Ttl ELSE left[r]]
        BY <2>1
      <3>3. index' = [q \in PlayerId |-> IF \E r \in {s} : owner[r] = q
                                         THEN NoSession ELSE index[q]]
        BY <2>1
      <3> QED  BY <3>1, <3>2, <3>3 DEF Drop
    <2> QED  BY <2>1, <2>2, DropKeeps
  <1>5. CASE TimePasses
    <2>1. left' \in [SessionId -> -1..Ttl]
      BY <1>5 DEF TimePasses, Live, IsExpired
    <2>2. UNCHANGED <<owner, index, running, cleaner, overlapped>>
      BY <1>5 DEF TimePasses
    <2> QED  BY <2>1, <2>2 DEF IndexSound, IndexComplete
  <1>6. CASE CleanerSweeps
    BY <1>6, DropKeeps DEF CleanerSweeps
  <1>7. CASE CleanerWakes \/ StopCleanup
    BY <1>7 DEF CleanerWakes, StopCleanup, IndexSound, IndexComplete
  <1>8. CASE UNCHANGED storeVars
    BY <1>8 DEF storeVars, IndexSound, IndexComplete
  <1> QED  BY <1>1, <1>2, <1>3, <1>4, <1>5, <1>6, <1>7, <1>8 DEF StoreNext

\* The inductive invariant of the store.
LEMMA StoreInvariant == StoreSpec => []StoreInv
  BY StoreInvInit, StoreInvNext, PTL DEF StoreSpec

\* Type correctness of the store.
THEOREM StoreTypeCorrect == StoreSpec => []StoreTypeOK
<1>1. StoreInv => StoreTypeOK
  BY DEF StoreInv
<1> QED  BY <1>1, StoreInvariant, PTL

\* A lookup by player never returns a session that is gone or another's.
THEOREM IndexIsSound == StoreSpec => []IndexSound
<1>1. StoreInv => IndexSound
  BY DEF StoreInv
<1> QED  BY <1>1, StoreInvariant, PTL

\* A player that never had two sessions at a time is always found.
THEOREM IndexIsComplete == StoreSpec => []IndexComplete
<1>1. StoreInv => IndexComplete
  BY DEF StoreInv
<1> QED  BY <1>1, StoreInvariant, PTL

\* The reverse index is sound, and complete for those players.
THEOREM IndexIsRight == StoreSpec => []IndexAgrees
<1>1. StoreInv => IndexAgrees
  BY DEF StoreInv, IndexAgrees
<1> QED  BY <1>1, StoreInvariant, PTL

\* Expiry is final: only a SaveSession gives an expired entry a new life.
THEOREM ExpiryIsFinal == StoreSpec => NoResurrection
<1>1. ASSUME StoreInv, [StoreNext]_storeVars, NEW s \in SessionId, Stored(s), IsExpired(s)
      PROVE  \/ left'[s] = left[s]
             \/ owner'[s] = NoPlayer
             \/ \E p \in PlayerId : SaveSession(s, p)
  <2> USE <1>1 DEF StoreInv, StoreTypeOK
  <2>1. ASSUME NEW gone, Drop(gone)
        PROVE  left'[s] = left[s] \/ owner'[s] = NoPlayer
    BY <2>1 DEF Drop
  <2>2. ASSUME NEW r \in SessionId, NEW p \in PlayerId, SaveSession(r, p)
        PROVE  left'[s] = left[s] \/ SaveSession(s, p)
    <3>1. CASE r = s
      BY <2>2, <3>1
    <3>2. CASE r # s
      BY <2>2, <3>2 DEF SaveSession
    <3> QED  BY <3>1, <3>2
  <2>3. ASSUME NEW r \in SessionId,
               GetSession(r) \/ DeleteSession(r)
        PROVE  left'[s] = left[s] \/ owner'[s] = NoPlayer
    BY <2>1, <2>3 DEF GetSession, DeleteSession
  <2>4. ASSUME NEW r \in SessionId, RefreshSession(r)
        PROVE  left'[s] = left[s] \/ owner'[s] = NoPlayer
    <3>1. CASE IsExpired(r)
      BY <2>1, <2>4, <3>1 DEF RefreshSession
    <3>2. CASE ~IsExpired(r)
      <4>1. r # s
        BY <1>1, <3>2
      <4> QED  BY <2>4, <3>2, <4>1 DEF RefreshSession
    <3> QED  BY <3>1, <3>2
  <2>5. ASSUME NEW p \in PlayerId, GetSessionByPlayerId(p)
        PROVE  left'[s] = left[s] \/ owner'[s] = NoPlayer
    BY <2>5 DEF GetSessionByPlayerId
  <2>6. CASE TimePasses
    BY <1>1, <2>6 DEF TimePasses, Live
  <2>7. CASE CleanerSweeps
    BY <2>1, <2>7 DEF CleanerSweeps
  <2>8. CASE CleanerWakes \/ StopCleanup \/ UNCHANGED storeVars
    BY <2>8 DEF CleanerWakes, StopCleanup, storeVars
  <2> QED
    BY <1>1, <2>2, <2>3, <2>4, <2>5, <2>6, <2>7, <2>8 DEF StoreNext
<1>2. StoreInv /\ [StoreNext]_storeVars =>
        [\A s \in SessionId :
           Stored(s) /\ IsExpired(s) =>
             \/ left'[s] = left[s]
             \/ owner'[s] = NoPlayer
             \/ \E p \in PlayerId : SaveSession(s, p)]_storeVars
  BY <1>1
<1> QED  BY <1>2, StoreInvariant, PTL DEF StoreSpec, NoResurrection
=============================================================================
