------------------------------ MODULE Cluster -------------------------------
(***************************************************************************)
(* Servers that announce themselves, a checker that watches them and a     *)
(* balancer that picks one (server/src/distributed/service_discovery.cpp,  *)
(* load_balancer.cpp and consistent_hash.cpp of cpp-pvp-server).  Every    *)
(* game server runs a ServiceDiscovery, whose heartbeat thread writes a    *)
(* record that Redis drops SERVER_TTL_SEC later; HealthChecker reads the   *)
(* records that are left, counts those that look too old, and tells the    *)
(* LoadBalancer, which servers join and leave independently of that.  The  *)
(* RedisClient of the source is a stub that stores nothing: records behave *)
(* here as the Redis commands it is named after do (SET with EX, DEL).     *)
(*                                                                         *)
(* Time is counted in intervals of five seconds, the pause of the          *)
(* heartbeat and of the checker alike.  A record is written by two         *)
(* commands, SET and SADD, taken as one, as are DEL and SREM; an expired   *)
(* record is one that a read does not find.  A server's clock may be       *)
(* behind the checker's by more than the TTL.  Hashes are distinct         *)
(* positions on a small ring.  Events, callbacks and region are left out.  *)
(***************************************************************************)
EXTENDS Naturals, FiniteSets, Functions

CONSTANTS
  Server,      \* game servers
  Announced,   \* those that announce themselves; the others are static
  VNodes,      \* the positions of each server's virtual nodes on the ring
  RingSize,    \* hashes are 0 .. RingSize - 1
  Candidates,  \* how many servers a selection asks the ring for (3)
  TTL,         \* SERVER_TTL_SEC, in intervals (3)
  Threshold    \* FAILURE_THRESHOLD (3)

Position == 0 .. RingSize - 1

ASSUME ConstantsAssumption ==
  /\ IsFiniteSet(Server) /\ Announced \subseteq Server
  /\ RingSize \in Nat \ {0} /\ Candidates \in Nat \ {0}
  /\ TTL \in Nat \ {0} /\ Threshold \in Nat \ {0}
  /\ VNodes \in [Server -> (SUBSET Position) \ {{}}]
  /\ \A s, t \in Server : s # t => VNodes[s] \intersect VNodes[t] = {}

VARIABLES
  proc,       \* the server process: "gone", "on", "stopping" or "crashed"
  thread,     \* its heartbeat thread: "none", "test", "publish" or "asleep"
  record,     \* age of its record in Redis; TTL when there is none
  behind,     \* servers whose clock is behind
  checker,    \* the checker's thread: "asleep", "due", "checking" or "late"
  listed,     \* servers it has read and not yet checked, with their age
  failures,   \* failure_counts_, up to one above the threshold
  servers,    \* servers_ of the balancer: who is in it, and healthy
  ring,       \* ring_: the server at each position in use
  rejoined    \* history: servers that joined while counted out

discoveryVars == <<proc, thread, record, behind>>
checkerVars == <<checker, listed, failures>>
balancerVars == <<servers, ring, rejoined>>
vars == <<discoveryVars, checkerVars, balancerVars>>

NoEntry == [x \in {} |-> x]

Init ==
  /\ proc = [s \in Announced |-> "gone"]
  /\ thread = [s \in Announced |-> "none"]
  /\ record = [s \in Announced |-> TTL]
  /\ behind = {}
  /\ checker = "due"
  /\ listed = NoEntry
  /\ failures = [s \in Announced |-> 0]
  /\ servers = NoEntry
  /\ ring = NoEntry
  /\ rejoined = {}

----------------------------------------------------------------------------
(* ServiceDiscovery. *)

\* Register: publish, then start the thread.
Register(s) ==
  /\ proc[s] \in {"gone", "crashed"}
  /\ proc' = [proc EXCEPT ![s] = "on"]
  /\ record' = [record EXCEPT ![s] = 0]
  /\ thread' = [thread EXCEPT ![s] = "test"]
  /\ UNCHANGED <<behind, checkerVars, balancerVars>>

\* UpdateServerInfo.  The code publishes whenever it is called; that a server
\* calls it only between Register and Unregister is a convention of the caller,
\* assumed here, or a record could come back after Unregister deleted it.
UpdateServerInfo(s) ==
  /\ proc[s] = "on"
  /\ record' = [record EXCEPT ![s] = 0]
  /\ UNCHANGED <<proc, thread, behind, checkerVars, balancerVars>>

\* HeartbeatLoop tests running_ ...
TestRunning(s) ==
  /\ thread[s] = "test"
  /\ thread' = [thread EXCEPT ![s] = IF proc[s] = "on" THEN "publish"
                                     ELSE "none"]
  /\ UNCHANGED <<proc, record, behind, checkerVars, balancerVars>>

\* ... publishes, and sleeps for an interval.
PublishServerInfo(s) ==
  /\ thread[s] = "publish"
  /\ record' = [record EXCEPT ![s] = 0]
  /\ thread' = [thread EXCEPT ![s] = "asleep"]
  /\ UNCHANGED <<proc, behind, checkerVars, balancerVars>>

\* Unregister: running_ is cleared ...
StopHeartbeat(s) ==
  /\ proc[s] = "on"
  /\ proc' = [proc EXCEPT ![s] = "stopping"]
  /\ UNCHANGED <<thread, record, behind, checkerVars, balancerVars>>

\* Slip: the thread is not joined.
UnregisterAtOnce(s) ==
  /\ proc[s] = "stopping"
  /\ proc' = [proc EXCEPT ![s] = "gone"]
  /\ record' = [record EXCEPT ![s] = TTL]
  /\ UNCHANGED <<thread, behind, checkerVars, balancerVars>>

\* ... and the record deleted when the thread has been joined.
Unregister(s) ==
  /\ proc[s] = "stopping" /\ thread[s] = "none"
  /\ proc' = [proc EXCEPT ![s] = "gone"]
  /\ record' = [record EXCEPT ![s] = TTL]
  /\ UNCHANGED <<thread, behind, checkerVars, balancerVars>>

Crash(s) ==
  /\ proc[s] \in {"on", "stopping"}
  /\ proc' = [proc EXCEPT ![s] = "crashed"]
  /\ thread' = [thread EXCEPT ![s] = "none"]
  /\ UNCHANGED <<record, behind, checkerVars, balancerVars>>

ClockShift(s) ==
  /\ behind' = IF s \in behind THEN behind \ {s} ELSE behind \union {s}
  /\ UNCHANGED <<proc, thread, record, checkerVars, balancerVars>>

----------------------------------------------------------------------------
(* Time. *)

Older(a) == IF a < TTL THEN a + 1 ELSE TTL

\* An interval passes.  A heartbeat that lives has published in it, and the
\* checker has begun a round; its end may come in the next interval.
Tick ==
  /\ \A s \in Announced : thread[s] \in {"none", "asleep"}
  /\ checker \in {"asleep", "checking"}
  /\ thread' = [s \in Announced |-> IF thread[s] = "asleep" THEN "test"
                                    ELSE "none"]
  /\ record' = [s \in Announced |-> Older(record[s])]
  /\ listed' = [s \in DOMAIN listed |-> Older(listed[s])]
  /\ checker' = IF checker = "checking" THEN "late" ELSE "due"
  /\ UNCHANGED <<proc, behind, failures, balancerVars>>

----------------------------------------------------------------------------
(* HealthChecker::CheckLoop. *)

\* GetAvailableServers.
List ==
  LET found == {s \in Announced : record[s] < TTL} IN
  /\ checker = "due"
  /\ listed' = [s \in found |-> record[s]]
  /\ checker' = IF found = {} THEN "asleep" ELSE "checking"
  /\ UNCHANGED <<failures, discoveryVars, balancerVars>>

\* Slip: a recovery marks nobody.
MarkedOnce(s, count) ==
  IF s \in DOMAIN servers /\ count = Threshold
  THEN [servers EXCEPT ![s] = FALSE] ELSE servers

\* MarkServerHealthy, when "count" failures follow a row of failures[s].
Marked(s, count) ==
  IF s \notin DOMAIN servers THEN servers
  ELSE IF count = 0 /\ failures[s] >= Threshold
       THEN [servers EXCEPT ![s] = TRUE]
  ELSE IF count = Threshold THEN [servers EXCEPT ![s] = FALSE]
  ELSE servers

\* CheckServer, and what follows under mutex_.
CheckServer(s) ==
  LET healthy == listed[s] < TTL /\ s \notin behind
      count   == IF healthy THEN 0
                 ELSE IF failures[s] > Threshold THEN failures[s]
                 ELSE failures[s] + 1
  IN  /\ checker \in {"checking", "late"}
      /\ servers' = IF count = failures[s] THEN servers ELSE Marked(s, count)
      /\ failures' = [failures EXCEPT ![s] = count]
      /\ rejoined' = IF healthy THEN rejoined \ {s} ELSE rejoined
      /\ listed' = Restrict(listed, DOMAIN listed \ {s})
      /\ checker' = IF DOMAIN listed = {s} THEN "asleep" ELSE checker
      /\ UNCHANGED <<ring, discoveryVars>>

----------------------------------------------------------------------------
(* LoadBalancer and ConsistentHashRing. *)

\* RegisterServer, with AddNode.
RegisterServer(s) ==
  /\ servers' = [t \in DOMAIN servers \union {s} |->
                   IF t = s THEN TRUE ELSE servers[t]]
  /\ ring' = [x \in DOMAIN ring \union VNodes[s] |->
                IF x \in VNodes[s] THEN s ELSE ring[x]]
  /\ rejoined' = IF s \in Announced /\ failures[s] >= Threshold
                 THEN rejoined \union {s} ELSE rejoined \ {s}
  /\ UNCHANGED <<discoveryVars, checkerVars>>

\* Slip: the positions that follow are erased.
RemoveFollowers(s) ==
  Restrict(ring, DOMAIN ring \ {(x + 1) % RingSize : x \in VNodes[s]})

RemoveNode(s) == Restrict(ring, DOMAIN ring \ VNodes[s])

UnregisterServer(s) ==
  /\ s \in DOMAIN servers
  /\ servers' = Restrict(servers, DOMAIN servers \ {s})
  /\ ring' = RemoveNode(s)
  /\ rejoined' = rejoined \ {s}
  /\ UNCHANGED <<discoveryVars, checkerVars>>

\* How far clockwise from a hash a position is.
Clockwise(hash, x) == (x + RingSize - hash) % RingSize

\* A position of a server, none nearer: where a walk first meets it.
Nearest(on, hash, s) ==
  CHOOSE x \in DOMAIN on : on[x] = s /\
    \A y \in DOMAIN on : on[y] = s => Clockwise(hash, x) <= Clockwise(hash, y)

\* GetNode.
GetNode(on, hash) ==
  on[CHOOSE x \in DOMAIN on :
       \A y \in DOMAIN on : Clockwise(hash, x) <= Clockwise(hash, y)]

\* Slip: the walk does not pass the end of the ring.
NearerUnwrapped(on, hash, s) ==
  {t \in Range(on) : Nearest(on, 0, t) < Nearest(on, 0, s)}

\* The servers that a walk from a hash meets before "s".
Nearer(on, hash, s) ==
  {t \in Range(on) : Clockwise(hash, Nearest(on, hash, t))
                     < Clockwise(hash, Nearest(on, hash, s))}

\* GetNodes.
GetNodes(on, hash, n) ==
  {s \in Range(on) : Cardinality(Nearer(on, hash, s)) < n}

\* SelectByConsistentHash, for the servers that have capacity: what it may
\* return, nothing or one server.
Select(hash, capacity) ==
  LET fit == {s \in GetNodes(ring, hash, Candidates) :
                s \in DOMAIN servers /\ servers[s] /\ s \in capacity}
  IN  {s \in fit : \A t \in fit : t \notin Nearer(ring, hash, s)}

----------------------------------------------------------------------------

HeartbeatStep(s) == TestRunning(s) \/ PublishServerInfo(s)

Next ==
  \/ \E s \in Announced :
       \/ Register(s) \/ UpdateServerInfo(s) \/ HeartbeatStep(s)
       \/ StopHeartbeat(s) \/ Unregister(s) \/ Crash(s) \/ ClockShift(s)
  \/ Tick
  \/ List
  \/ \E s \in DOMAIN listed : CheckServer(s)
  \/ \E s \in Server : RegisterServer(s) \/ UnregisterServer(s)

\* Threads that are not blocked run, a server that has begun to unregister
\* goes on with it, and time passes whatever else happens.
Fairness ==
  /\ SF_vars(Tick)
  /\ WF_vars(List)
  /\ WF_vars(\E s \in DOMAIN listed : CheckServer(s))
  /\ \A s \in Announced : WF_vars(HeartbeatStep(s)) /\ WF_vars(Unregister(s))

Spec == Init /\ [][Next]_vars /\ Fairness

----------------------------------------------------------------------------
(* Properties. *)

TypeOK ==
  /\ proc \in [Announced -> {"gone", "on", "stopping", "crashed"}]
  /\ thread \in [Announced -> {"none", "test", "publish", "asleep"}]
  /\ record \in [Announced -> 0..TTL]
  /\ behind \subseteq Announced
  /\ checker \in {"asleep", "due", "checking", "late"}
  /\ DOMAIN listed \subseteq Announced
  /\ listed \in [DOMAIN listed -> 0..TTL]
  /\ failures \in [Announced -> 0..Threshold+1]
  /\ DOMAIN servers \subseteq Server
  /\ servers \in [DOMAIN servers -> BOOLEAN]
  /\ DOMAIN ring \subseteq Position
  /\ ring \in [DOMAIN ring -> Server]
  /\ rejoined \subseteq Announced

\* A server that has unregistered stays unregistered: the heartbeat thread,
\* wherever it was, does not bring the record back.  (Its owner would, if it
\* called UpdateServerInfo then; see there.)
GoneStaysGone ==
  \A s \in Announced : proc[s] = "gone" => record[s] = TTL /\ thread[s] = "none"

\* The balancer and the checker agree on who is unhealthy, through joins,
\* leaves and outages: a server is shunned exactly while it is counted out,
\* but for those that joined during the outage.  So nobody is shunned whom no
\* success can bring back.
HealthAgrees ==
  \A s \in DOMAIN servers :
    IF s \in Announced
    THEN /\ ~servers[s] => failures[s] >= Threshold
         /\ failures[s] >= Threshold /\ s \notin rejoined => ~servers[s]
    ELSE servers[s]

\* Every position in use leads to a server that is in the balancer, and every
\* one of those has all its virtual nodes.
RingFollows ==
  /\ DOMAIN ring = UNION {VNodes[s] : s \in DOMAIN servers}
  /\ \A s \in DOMAIN servers : \A x \in VNodes[s] : ring[x] = s

\* A server that joins or leaves takes or gives up its own keys only: no key
\* moves between two servers that stay.
OnlyItsKeysMove ==
  [][\A hash \in Position : ring # NoEntry /\ ring' # NoEntry =>
       LET from == GetNode(ring, hash)
           to   == GetNode(ring', hash)
       IN  from # to => from \notin DOMAIN servers' \/ to \notin DOMAIN servers
    ]_<<servers, ring>>

\* A selection succeeds while there are no more servers than candidates and
\* one of them fits; it is one that fits, whatever the loads are, and the
\* first choice of its key if that one fits.
SelectionFinds ==
  \A hash \in Position, capacity \in SUBSET Server :
    LET fit == {s \in DOMAIN servers : servers[s] /\ s \in capacity}
        got == Select(hash, capacity)
    IN  /\ got \subseteq fit /\ Cardinality(got) <= 1
        /\ Cardinality(DOMAIN servers) <= Candidates /\ fit # {} => got # {}
        /\ ring # NoEntry /\ GetNode(ring, hash) \in fit =>
             got = {GetNode(ring, hash)}

\* The ring is the balancer's servers and a selection finds among them.
BalancerServes == RingFollows /\ SelectionFinds

\* A server that runs with its clock right is in the end not shunned.
ServersRecover ==
  \A s \in Announced :
    <>[](proc[s] = "on" /\ s \notin behind) =>
      <>[](s \in DOMAIN servers => servers[s])

\* "removal (abnormal): 1. the heartbeat stops and the TTL in Redis expires;
\* 2. HealthChecker increases the failure count; ... 4. MarkServerHealthy
\* (false)" (design/v2.0.1-load-balancer.md:375-379): a server that has
\* crashed for good is not selected for ever.
CrashesAreDetected ==
  \A s \in Announced :
    <>[](proc[s] = "crashed" /\ s \in DOMAIN servers) =>
      <>(s \in DOMAIN servers /\ ~servers[s])
=============================================================================
