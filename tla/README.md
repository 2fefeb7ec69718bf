# A TLA+ verification of cpp-pvp-server

This directory holds TLA+ models of the game server in
`src/cpp-pvp-server/server`, the TLC configurations that model-check them and
TLAPS proofs about them. Paths below are relative to
`src/cpp-pvp-server/server/` unless they start with `src/`.

The repository holds three independent projects: a server for 1v1 games in C++
(`cpp-pvp-server`), a Spring Boot training project (`spring-patterns`) and a
browser video editor (`native-video-editor`). The first has the concurrency,
the failure handling and the state machines; the other two are mostly wrappers
around frameworks, databases and FFmpeg, and are not modelled. The `snapshots/`
directories are older copies of the same code.

Contents: [The system](#the-system) · [Modules](#modules) ·
[Runs](#runs-and-what-they-show) · [Bounds](#bounds) · [Fairness](#fairness) ·
[Proofs](#proofs) · [Divergences](#where-the-code-and-its-documents-disagree) ·
[Not modelled](#not-modelled) · [Plan](#plan)

## The system

`main.cpp` runs one thread in `io_context.run()`, which executes every network
handler, the 200 ms matchmaking timer and the signal handler; and one
`GameLoop` thread, which posts `BroadcastState` to the io thread 60 times a
second. The session store has a cleanup thread of its own. Snapshots, netcode
and cluster are libraries: tests use them, `main` does not wire them.

| Component | State | Operations | Interacts with |
|---|---|---|---|
| `GameSession` (`game/`) | players with health, latch and counters; projectiles; pending deaths; combat log | `UpsertPlayer`, `RemovePlayer`, `ApplyInput`, `Tick`, `ConsumeDeathEvents` | called by both network front ends, under its own mutex |
| `WebSocketServer` (`network/websocket_server.cpp`) | `clients_`, one `ClientSession` per connection, `connection_count_` | accept, handshake, read loop, `RegisterClient`, `UnregisterClient`, `Stop` | `GameSession`; join and leave handlers of `main` feed the matchmaker and the database |
| its write side (same file) | `last_broadcast_tick_`; per session `write_queue_`, `writing_`, one `async_write` | `BroadcastState`, `EnqueueState`, `EnqueueDeath`, `DoWrite`, `OnWrite` | fed by the game loop, ends at the client |
| `UdpGameServer` (`network/udp_game_server.cpp`) | `clients_`, `endpoint_to_player_`, the socket's registered addresses | CONNECT, DISCONNECT, INPUT, HEARTBEAT, `BroadcastState` | `GameSession`; the loop thread broadcasts directly |
| `Matchmaker` (`matchmaking/`) | rating buckets, index, gauge | `Enqueue`, `Cancel`, `RunMatching` | lifecycle handlers, timer, notification channel |
| `InMemorySessionStore` (`storage/`) | sessions with expiry, reverse index by player | save, get, delete, refresh, lookup by player, sweep | cleanup thread |
| `GameLoop` (`core/`) | running and stop flags, callback, thread | `Start`, `Stop`, `Join`, `SetUpdateCallback` | callback into the servers |
| statistics (`stats/`) | profiles with ratings, the two indexes of the leaderboard | `Collect`, `RecordMatch`, `Upsert`, `Erase`, `TopN`, `TopProfiles` | fed by `BroadcastState` with the deaths of a tick and the combat log |
| `SnapshotManager` (`network/`) | ring of snapshots, head, count, sequence | `CreateSnapshot`, `SaveSnapshot`, `GetSnapshot`, `GetSnapshotAt`, `CalculateDelta`, `ApplyDelta` | any number of threads, under its mutex, which create and save do not hold together |
| netcode (`netcode/`) | inputs and predictions of a client, its acknowledgement; the server's input buffer | `Predict`, `Reconcile`, `Push`, `Pop` | joined by a network |
| cluster (`distributed/`) | records in Redis, failure counts, servers of the balancer, hash ring | `Register`, heartbeat, `Unregister`, `CheckLoop`, `RegisterServer`, selection | heartbeat threads of all servers, the checker's thread, Redis |
| anti-cheat, HTTP, storage wrappers, configuration | bans; counters; connections; settings | | see [Not modelled](#not-modelled) |

What makes each correct, and where it is hard:

- **GameSession.** A life is one fact stored three times (`health`, `is_alive`,
  `death_announced`). Several shots may kill in one tick, a heal may come at any
  time, a player may leave with shots in flight and return with its counters at
  zero. Deaths are announced once; credits never exceed shots.
- **Connections.** The registry, the game, the matchmaking queue and the
  session log must tell the same story after takeovers, late read errors, write
  errors and shutdown. Handlers run one at a time, but a read that completed
  before a takeover is handled after it.
- **Broadcast.** A websocket allows one write at a time. `writing_`, the queue
  and the write in flight are three accounts of one fact, and a completion may
  come before or after a stop; a lost wake-up would silence a client for good.
- **UDP.** Datagrams are lost, repeated, reordered and come from old addresses;
  one player's address changes; two filters under two locks drop repeated
  inputs.
- **Matchmaking.** Tolerance grows with each player's own wait; the greedy pass
  with its early exit must lose no acceptable pair and pair nobody twice.
- **Session store.** Two maps are kept in step through overwrites, expiry found
  on reads, refreshes and a concurrent sweep; stopping must terminate.
- **Game loop.** A stop may fall between the loop's test and its sleep.
- **Statistics.** What a match adds up comes from counters that vanish when a
  player leaves and from a log that drops its oldest events; two deaths in one
  tick are two matches over one log; the leaderboard has two indexes.
- **Snapshots.** Writers may save in another order than they created, the ring
  wraps, and a delta names only what changed.
- **Netcode.** Reports of the server come late, twice and out of order; replay
  must neither lose nor repeat an input; old inputs may arrive for ever in
  front of the buffer.
- **Cluster.** Three accounts of who is healthy (record, failure count, flag of
  the balancer) change in different threads; servers crash, return, leave with
  a heartbeat under way, and have wrong clocks.

## Modules

| Module | Models | Checked by | Proofs |
|---|---|---|---|
| `GameSession` | `game_session.cpp`, `combat.cpp`, `projectile.cpp` | `MCGameSession` | `GameSessionProofs` |
| `MatchStatistics` (extends `GameSession`) | `match_stats.cpp`, `player_profile_service.cpp`, `leaderboard_store.cpp`, and how `BroadcastState` drives them | `MCMatchStatistics` | `GameSessionProofs` |
| `WebSocketServer` | `websocket_server.cpp`, handlers, timer and signal handler of `main.cpp` | `MCWebSocketServer` | `WebSocketServerProofs` |
| `Presence` | abstract specification of who is online | refined by `WebSocketServer` | |
| `StateBroadcast` | the write side of `websocket_server.cpp` | `MCStateBroadcast` | `StateBroadcastProofs` |
| `ClientFeed` | abstract specification of what a client is sent | refined by `StateBroadcast` | |
| `UdpGameServer` | `udp_game_server.cpp`, client set of `udp_socket.cpp` | `MCUdpGameServer` | `NetcodeProofs` |
| `InMemorySessionStore` | `in_memory_session_store.cpp` | `MCInMemorySessionStore` | `ClusterProofs` |
| `GameLoop` | `game_loop.cpp` | `MCGameLoop` | `StateBroadcastProofs` |
| `Matchmaker` | `matchmaker.cpp`, `match_queue.cpp`, `match_request.cpp` | `MCMatchmaker` | `MatchmakerProofs` |
| `Snapshots` | `snapshot_manager.cpp` | `MCSnapshots` | `SnapshotsProofs` |
| `Netcode` | `client_prediction.cpp`, `reconciliation.cpp`, `input_buffer.cpp` | `MCNetcode` | `NetcodeProofs` |
| `Cluster` | `service_discovery.cpp`, `load_balancer.cpp`, `consistent_hash.cpp` | `MCCluster` | `ClusterProofs` |

`InductionLemmas` holds the lemmas on induction and recursion that five of the
proof modules share. A proof module about two components extends both; for that,
`GameLoop`, `UdpGameServer` and `InMemorySessionStore` call their specification
`LoopSpec`, `UdpSpec` and `StoreSpec`, and so on.

How state and actions correspond to the code (`PROJECT.json`, "map", gives the
lines of every definition):

**GameSession.** `players` is the key set of `players_` and `runtime` the
`PlayerRuntimeState`s; an absent player is `Fresh`. Projectiles are numbered by
`projectile_counter_`, which the code turns into `projectile-<n>`; a projectile
that is not active is not in the set. Every public method holds `mutex_`, so
each short one is an action. `Tick` is several: `TickStart` (advance, expire)
and one `Hit` or `Miss` per projectile; the non-empty `sweep` stands for the
held mutex, and every other operation requires it to be empty. The order of the
walk is the order of the ids, as in the vector. Which living player a
projectile meets, if any, is left open: positions only decide that. Time is
counted in ticks; the cooldown and the lifetime are numbers of ticks.

**WebSocketServer.** A handler on the io thread is one action, with everything
it calls: `FirstFrame` is `OnRead` with `RegisterClient`, the `Stop` of the
previous session and its `UnregisterClient`, the join and the leave handler of
`main`, and the input. `FrameArrives` and `PeerGone` complete the outstanding
read; the handler of the completed read is a later action, and closing a socket
does not undo a completion. Matchmaking appears as the queue of one rating,
which is what `main` uses (1200 for everybody); `recorded` is the last
`RecordSessionEvent` of each player. `Shutdown` is the signal handler:
`clients_` is cleared before the sessions are stopped, so `connection_count_`
keeps its value.

**Presence.** A player is online exactly while a connection holds it; a login
takes it over; a connection that lost its player never holds one again. The
refinement mapping reads the holder off the *sessions* (open, with that
`player_id_`), not off `clients_`.

**UdpGameServer.** The network has no state: any datagram may be received next,
which covers loss, repetition, delay and reordering, and any address may send
it. `HandleInput` and `ApplyInput` are the two critical sections of
`HandleInput`. `endpoint_to_player_` is indexed by hash values, and
`EndpointHash` is a constant function, so that colliding hashes are covered by
the proofs.

**InMemorySessionStore.** Time is what is left of each session's TTL (`left`),
so the clock needs no bound; `IsExpired` is `left < 0`, as in
`now > expiry_time`. The cleanup thread has three positions: asleep, about to
sweep (it has read `running_`), ended. `overlapped` is a history variable: the
players that ever had two entries at once.

**Matchmaker.** `buckets` and `index` are `buckets_` and `index_`;
`order_counter_` only grows, so a new entry goes to the end of its bucket and
the number itself is not needed. `Pairs` is the double loop of `RunMatching`
with its early exit; matches are published one by one after the mutex is
released.

**GameLoop.** Two program counters: `caller`, the thread that starts, stops and
joins, and `loop`, the thread in `Run`. `mutex_` is held across steps only by
the loop thread, in a callback (`"calling"`) and between `wait_for`'s test and
its sleep (`"dozing"`); `MutexFree` says so, and every critical section of the
caller requires it. `Stop` is three steps: the test of `running_`, the flag
under `mutex_`, the signal. `current` and `late` are history variables: the
callback of the last tick, and the ticks begun since the flag was set.

**StateBroadcast.** Every posted handler and every completion on the io thread
is an action; the game loop's thread only advances `tick`. `posted` holds the
handlers posted for a session, in order; `queue` and `writing` are
`write_queue_` and `writing_`; `wire` is the `async_write` under way: none,
taken by the socket at once, still to be taken (`blocked`), or refused because
the websocket is closed. `produced` and `sent` are history variables. `intact`
is one too: `DoWrite` hands `async_write` a buffer that refers to a local
string, so the rest of a blocked write may be anything.

**ClientFeed.** For every client, what was produced and what it received: one
message after the other, none missing, for as long as it stays; and who is owed
a message is served or gone. The refinement maps `received` to `sent` and
`gone` to `closed`; queues and posted handlers are invisible.

**MatchStatistics.** `BroadcastState` ticks the session, takes the deaths and
collects and records them in one handler of the only thread that uses the
session, and `Collect` reads nothing that `RecordMatch` writes: so one action
collects and records one death, and nothing else happens to the session until
none is pending. The session is `GameSession` unchanged. `aggregates`, `scores`
and `ordered` are the three maps. `TopN` walks the buckets: at position `i` of
`Ranking` is the entry with `i - 1` before it; ids, which break ties, are
numbers. `Gain` is the Elo formula as the set of its steps.

**Snapshots.** `CreateSnapshot` and `SaveSnapshot` are two critical sections, so
two actions, and `held` is what a writer carries between them. A player is one
coordinate, which stands for everything compared up to `EPSILON` and
interpolated, and its health, for everything compared exactly. The number of
changes is kept in a byte; `CountMod` is 256 there.

**Netcode.** `Press` is `Predict` with `SavePrediction`; `Reconcile` takes any
report the server ever sent and `Push` any input the client ever sent, which is
the network. What joins the classes is not in the repository: that a client
takes a corrected state over and that a server moves the player by what it pops
is external. Time is the age of the inputs in the buffer. `replayed` is a
history variable: the last correction replayed inputs.

**Cluster.** Time passes in intervals of five seconds, the pause of heartbeat
and checker alike; in `Tick` every thread that lives has had its turn, but a
round of the checker may end one interval late. `record` is the age of a
server's record, `TTL` when Redis has none; `thread` is the heartbeat's
position, `proc` the server's. `CheckServer` is one server of a round with what
follows under the mutex; `servers` and `ring` are the balancer's. A clock that
is `behind` makes a fresh record look old. `rejoined` is a history variable:
servers that joined the balancer while counted out. Two assumptions are not in
the code. `RedisClient` (`service_discovery.cpp:24-54`) is a stub that stores
nothing and finds nothing; the model gives it the meaning of the commands its
methods are named after: a record set with a TTL is found until the TTL has
passed or it is deleted. And `UpdateServerInfo` (lines 151-154) publishes
whenever it is called; the model lets a server call it only while it runs, that
is between `Register` and `Unregister`. That is a convention its caller has to
keep: a call during or after `Unregister` would bring the record back.

Definitions whose comment begins "A slip" or "Slip" are not part of the specification.
They are plausible errors in the definition below them; substituting one for it
makes the property named in `PROJECT.json` ("mutants") fail, which shows that
the property depends on the code being as it is.

## Runs and what they show

Every module has one run; `tlc -config <Name>.cfg MC<Name>` repeats it. States
are distinct states, times are with four workers.

| Run (`.cfg`) | Result | States, time | Question |
|---|---|---|---|
| `GameSession` | holds | 355,612, 14 s | Do lives, credits, counters and the log stay consistent, and is each death announced once? |
| `WebSocketServer` | holds | 21,092, 8 s | Do registry, game, queue, session log and gauge agree through takeovers, breaks and shutdown; does the layer implement `Presence`; do broken connections leave? |
| `StateBroadcast` | holds | 589,088, 63 s | Does each client get its messages in order and without loss, does the writer never sleep on work, does the write side implement `ClientFeed`? |
| `InMemorySessionStore` | holds | 12,710, 6 s | Is the reverse index sound, and complete as far as it can be? Does nothing expired return, do sweeps and stops end? |
| `UdpGameServer` | holds | 61,168, 3 s | Do the tables agree, is every input applied at most once, does only the present address speak for a player? |
| `GameLoop` | holds | 455, 1 s | Is a stop never lost, how much still runs after it, does it end the loop, and is a replaced callback gone? |
| `Matchmaker` | holds | 64,522, 22 s | Is the queue one queue, are matches mutual, does a round leave no acceptable pair? |
| `MatchStatistics` | holds | 341,610, 18 s | Do profiles add up, do ratings move from loser to winner, does the board show the best players? |
| `Snapshots` | holds | 578,595, 50 s | Is the ring the last snapshots saved, is a look back right, does a delta rebuild its target? |
| `Netcode` | holds | 33,315, 10 s | Is every input accounted for, does a correction replay exactly what is owed, does a client at rest agree, does the buffer drain? |
| `Cluster` | holds | 11,712, 13 s | Do checker and balancer agree, do keys move only with their server, is a healthy server in the end not shunned? |
| `ClusterCrashes` | violated | | Is a server that crashed for good marked unhealthy in the end? (`MCCluster`) |

The properties worth knowing:

- `SessionConsistent`: the life of a player is one fact (`LifeConsistent`); shots
  leave with their owner (`OwnersPresent`), so a player who returns with zeroed
  counters is not credited with hits of its earlier stay (`AccuracyBounded`).
  `DeathsArePaidFor`: `dead_total` deaths have cost at least
  `dead_total * ceil(max_hp / damage)` hits, whatever heals and re-joins happen.
  `DeathAnnouncedOnce`: exactly those who die in a step are counted and queued,
  once each. `LogInOrder`: a retained Death follows its Hit, eviction included.
- `RegistryAgrees`: a player maps to a session exactly when that session is open
  under its name (`Directory`), and the other places agree with that
  (`MembersAgree`, `CountAgrees`, `QueueHonest`). `ImplementsPresence`: a player
  is given and taken exactly once per login. `BrokenConnectionsLeave`
  (liveness): a broken connection takes its player out of the game.
- `WriterAwake`: a live session has a write in flight exactly while it has
  something to write. `NothingLost`: what was sent, queued and posted is
  together what was produced. `StateBeforeDeath`: a client hears of a death only
  after the state of that tick. `ImplementsFeed` adds that who is owed a
  message is served or gone.
- `TablesAgree`: the address map is never wrong, the clients are the game's
  players and the two duplicate filters stay in step. `AppliedOnce`: each
  applied input is newer than the last. `OnlyItsAddressSpeaks`: a late datagram
  from an old address has no effect.
- `IndexAgrees`: what the reverse index names exists and belongs to the player;
  it names the session of every player that never had two. `NoResurrection`,
  `ExpiredAreSwept`, `StopReturns`: expiry is final, the cleaner works while it
  runs, and the destructor's `join` returns.
- `StopWakesTheLoop`, `OneMoreTickAtMost`, `StopEnds`: the wake-up of a stop
  falls neither between test and sleep nor away; one tick may still begin; the
  loop ends and `Join` returns. `ReplacedNeverRuns`: once `SetUpdateCallback`
  has returned, the old callback is not running, so what it captured may go.
- `QueueConsistent`, `MatchesAreFair`, `NothingLeftBehind`: the early exit is
  sound because a player after the break is beyond the searcher's own
  tolerance, which is enough to refuse the pair.
- `ProfilesAddUp`: one winner and one loser a match, no accuracy above one,
  damage dealt is damage taken, whoever has left and whatever the log has
  dropped. `RatingsConserved`: a match moves points between its two players
  only, but for the one point that rounding adds to an even match.
  `LeaderboardIsRight`: the two indexes and the profiles name one rating, and
  the top is complete, in order and without repetition.
- `RingHoldsTheLast`: whatever the writers' order. `LookBackIsRight`: an answer
  is a snapshot of the ring or lies between two saved in a row; with snapshots
  saved in order, later times get later answers. `DeltaReconstructs`: who is in
  the target is where it is there, up to `EPSILON`. A delta does not say who has
  left, so the property does not ask that they go: it states that they stay on
  (the union of ids). It describes that behaviour and would not flag it.
- `InputsAccountedFor`: the client keeps exactly the unacknowledged inputs and a
  prediction for each; the server applies in order, each at most once.
  `CorrectionReplays`: a correction is the reported state moved by everything
  pressed since. `AtRestItAgrees`: client and server agree when all is
  acknowledged, unless inputs were replayed (see the divergences).
  `BufferDrains` (liveness): an input taken in is applied or passed.
- `HealthAgrees`: the balancer shuns a server exactly while the checker has
  counted it out, but for one that joined during the outage. `GoneStaysGone`: a
  heartbeat under way does not bring an unregistered server back, provided the
  owner itself no longer calls `UpdateServerInfo`.
  `OnlyItsKeysMove`: consistent hashing is consistent. `BalancerServes`: the
  ring is the balancer's servers, and a selection finds one that fits.
  `ServersRecover` (liveness): a server that runs with its clock right is in
  the end not shunned.

## Bounds

- **GameSession**: 2 players (interchangeable), health 3 and damage 2, so a
  player dies of the second hit and the clamp at zero is used; cooldown 1,
  lifetime 3 ticks; log capacity 3, so eviction separates a Hit from its Death;
  `MaxSpawns` 4 shots in one behaviour, enough for two kills, of one player
  healed in between or of both, and for a kill with more shots of the same tick
  still to be examined. `MaxSequence` 1. All shots, hits and
  deaths are bounded through `MaxSpawns`; nothing else is cut.
- **WebSocketServer**: 3 connections and 2 players, so that a player is taken
  over twice, or one is taken over while another plays. A connection is not
  reused; the model stops when all are spent (hence `CHECK_DEADLOCK FALSE`).
  `MaxSequence` is 0: sequence numbers do not matter to these properties.
- **StateBroadcast**: 2 connections and 2 ticks; a tick brings any number of
  deaths, each player at most once (`BroadcastState` ticks the session itself
  and takes its deaths at once), so none, one or two in either order: up to six messages per client, so a queue grows behind
  a slow write, drains and starts again, and one client stops while the other
  goes on. The ticks run out, hence `CHECK_DEADLOCK FALSE`.
- **InMemorySessionStore**: 3 sessions, 2 players, TTL 1 step: a session is
  full, at its last moment, or expired. Two sessions of one player and one of
  the other fit.
- **UdpGameServer**: 2 players, 3 addresses with different hashes, sequence
  numbers up to 2.
- **GameLoop**: 2 callbacks; `late` counts up to `MaxLate` 2, one more than
  the property allows. Nothing else needs a bound: frames, sleeps, stops and
  restarts repeat for ever.
- **Matchmaker**: 4 players, ratings 0 and 1, base tolerance 0, step 1 and one
  step of waiting, so the first round accepts equal ratings only and a wait
  opens the other; regions "any" and two others. Two pairs per round fit.
- **MatchStatistics**: 2 players, health 1 and damage 1, so every hit kills and
  4 shots (`MaxSpawns`) are up to four matches; two deaths in one tick, a player
  who left before the other's shot lands, and a log of 4 events, which evicts
  within the third match. One erasure. Shots run out, hence
  `CHECK_DEADLOCK FALSE`; four matches reach every tie and reversal of the
  board that two players have.
- **Snapshots**: ring of 3 and 4 snapshots, so it wraps; 2 interchangeable
  writers, which save in either order; a clock of 3 values, so snapshots share a
  time or are one or two apart; 6 worlds: empty, one player, two, the same in
  another order moved within and beyond `EPSILON` and hurt, one gone, three.
  `CountMod` 3: deltas of up to two changes are checked; those of three, whose
  count wraps to zero, occur and are excluded as the property says
  (`DeltasAlwaysReconstruct` is for any `CountMod`). The sequence runs out, hence
  `CHECK_DEADLOCK FALSE`.
- **Netcode**: 5 inputs of one step back or forth, histories of 3 and a buffer
  of 3, so both overflow; a delay of one; any difference is corrected
  (`Threshold` 0). The inputs run out, hence `CHECK_DEADLOCK FALSE`.
- **Cluster**: 3 servers, one of which announces itself and two are static: discovery
  and checker treat every server for itself, so servers meet on the ring only; 5
  virtual nodes that interleave on a ring of 7; 2 candidates, fewer than the
  servers; TTL and threshold 3, as in the code.

## Fairness

- `WebSocketServer`: weak fairness of each connection's handlers
  (`Handshake`, `ReadFails`, `FirstFrame`, `LaterFrame`). The io_context runs
  every completed handler. Nothing is assumed of the network, of write errors,
  of the timer or of the signal; that a broken read completes is the network's
  `PeerGone`, so the property starts there.
- `InMemorySessionStore`: weak fairness of the cleanup thread's two steps: its
  sleeps end and it is scheduled. No client call is assumed to happen.
- `GameLoop`: weak fairness of the loop thread (`Run`: it is scheduled,
  callbacks return, sleeps end) and of the two steps of a call that has been
  entered, the signal and the return of `join`. No call is assumed to be made.
- `StateBroadcast`: weak fairness of `BroadcastState`, of each session's posted
  handlers and of the end of each write, good or bad: the io_context runs what
  is posted, and the websocket's idle timeout ends a write whose peer no longer
  reads. Nothing is assumed of stops.
- `Netcode`: weak fairness of `Pop` and `Tick`: the server asks its buffer again
  and again and time passes. Nothing is assumed of the network.
- `Cluster`: weak fairness of the threads (`HeartbeatStep`, `List`,
  `CheckServer`) and of an `Unregister` that has begun; strong fairness of
  `Tick`, because time passes whatever else happens (steps that repeat at will
  within an interval, such as a server that leaves and registers again, enable
  and disable it). No call, crash or clock shift is assumed.
- The other modules state safety only and need no fairness.

## Proofs

TLAPS proves the following for every value of the constants that satisfies
the assumption of the module (`ConstantsAssumption`, or in the three modules with
prefixed names `CallbackAssumption`, `AddressAssumption` and `StoreAssumption`:
sets of players, sessions, connections,
servers and addresses of any size, any damage, cooldown, lifetime, capacity,
TTL, threshold, any hash and ring, any size of the snapshot ring, any ratings
and tolerances).

**`GameSessionProofs`**: `TypeCorrect`, `LifeIsConsistent`, `OwnersArePresent`,
`AccuracyIsBounded`, `MetricsAreConsistent`, and together `SessionIsConsistent`;
`DeathsAreAnnouncedOnce`; `LogIsInOrder`; `DeathsArePaid`. The inductive invariant `SessionInv`
adds to the properties that the projectiles are finitely many (they are
counted), that every id was handed out by the counter (so a shot fired is a new
element and raises the cardinality by one) and that an absent player is `Fresh`
(so a join starts from zero). `AccuracyBounded` needs `OwnersPresent`: a hit
whose shooter is gone is credited to nobody. The order of the log needs
`LogHistory` besides: no id is in flight twice, nor in flight once a hit of it
is logged. `LoggedEnd` says that the log is an end of all there was, and
`InOrder` is kept by taking an end. `DeathsArePaid` would need the sum of what
every player has lost; `PaidFor` says instead that hits can be handed out, to
each living player as many as its lost health takes, so that those left over pay
for the deaths (`Blows` is the set of what is handed out). A hit hands out one
more (`OneBlowMore`), a death takes a whole health bar back (`BlowsTakenBack`,
`EnoughToKill`), and a healing only makes the demand smaller.

The same module proves `MatchStatistics`, which extends `GameSession`:
`LeaderboardStaysRight`, `ProfilesAlwaysAddUp`, `RatingsAreConserved`. The
inductive invariant `StatsInv` adds to the properties the books of the session,
that players and profiles are finitely many, and that a pending death has two
players (so a match has a winner and somebody else as its loser).

- *Sums.* The totals of the profiles are folds over the set of players.
  `TotalIs` shows that the fold is what a sum should be: it may be taken apart
  at any element (`Sums`, `AnyOrder`). From that, a total grows by the sum of
  what each profile gets (`SumGrows`), and hits counted by shooter, or by
  target, come to all hits (`SumOfShares`): damage dealt stays damage taken.
- *The board.* `Removed` and `Entered` keep the two indexes in step, and `Upsert`
  is made of the two (`Upserted`). `Places`: in a finite set totally ordered by
  `Before`, the numbers of elements ahead are exactly 0 to n - 1, so `Ranking`
  names everybody once, best first.
- *Ratings.* `GainAndLoss`: winner and loser together gain one point when they
  were even, none otherwise.

**`WebSocketServerProofs`**: `RegistryAlwaysAgrees` and `PresenceImplemented`,
the refinement with every step of `Presence`. The inductive invariant is
`Books`, the parts of `RegistryAgrees` with the directory stated for the time
after a shutdown too (`Story`), and `Nameless`: a connection has no player
before its handshake is done, and reads nothing if it closed without one. `Takeover` is the lemma of the hardest step, a first frame
that takes a player from an open session: the old session's `Stop` unregisters
the player before the new one is entered. `Mapped` turns the refinement mapping,
read off the sessions, into `clients_`, after which every action is a login, a
logout, the shutdown or a stutter.

**`StateBroadcastProofs`**, the ticks from the loop that makes them to the
clients. Of `GameLoop`: `LoopTypeCorrect`, `ReplacedCallbacksRest`,
`StopAlwaysWakes`, `AtMostOneMoreTick`. That a stop wakes the loop needs that
with the flag set the loop is never between test and sleep, which holds because
the flag is set under `mutex_`; that one tick at most begins needs `LateInv`:
after that tick the loop does not come back to the point from which ticks begin.
Of `StateBroadcast`: `TypeCorrect`, `WriterIsAwake`, `NothingIsLost`,
`StatesComeFirst` and `BehavesLikeFeed`, the safety half of `ImplementsFeed`. `WriterInv` says
why the writer never sleeps: a write in flight and a message in the queue each
have `writing_` set, and in a live session nothing but the end of a write clears
it. `Carried` is `NothingLost` for stopped sessions as well, whose queue is
dead: sent, queue and posted, in a row, are what was produced. `JoinAssociative` and `HandOver` are the lemmas about sequences: the
head of one moves to the end of another. `StatesComeFirst` needs of `produced`
that it tells of every tick before its deaths and of no tick later than the last
one broadcast (`RoundsInOrder`), and then that a beginning of such a sequence is
one (`sent` is a beginning of `produced`, by `Carried`). The deaths of a tick are any
sequence of different players (`DeathsType`), of whatever length: nothing in
the proofs depends on how many there are.

**`ClusterProofs`**, the two tables whose entries expire. Of `Cluster`:
`TypeCorrect`, `GoneServersStayGone`, `HealthIsAgreedOn`,
`RingFollowsServers`, `OnlyTheirKeysMove`, `BalancerAlwaysServes`. The properties are inductive with the
types. `GoneServersStayGone` is about the heartbeat thread and holds under the
caller's convention about `UpdateServerInfo`, which is the guard of that action. `OnlyTheirKeysMove` is an argument about the ring: distances clockwise from a
hash are distinct naturals, so there is a nearest position (`Least`,
`FirstExists`, `FirstUnique`), and a position that is nearest on a ring and
still in use on a smaller one is nearest there (`FirstOfLess`).
`BalancerAlwaysServes` follows the walk from position to position: `GetNode` is
the nearest one, the candidates are the first servers met, and one that fits is
selected whenever there is one among them (`SelectedIsFit`, `FitIsSelected`).

Of `InMemorySessionStore`: `StoreTypeCorrect`, `IndexIsSound`,
`IndexIsComplete`, together `IndexIsRight`; `ExpiryIsFinal`. Completeness is not
inductive alone: erasing one of two entries of a player erases its index.
`StoreInv` adds that two entries of one player put it in `overlapped`.
`DropKeeps` is the shared lemma of the five operations that erase entries.

**`NetcodeProofs`**. Of `Netcode`: `InputsAreAccountedFor`, `ClientAgreesAtRest`,
`CorrectionsReplay`. The invariant `Inv` adds to the two state properties what
the server side and the screen have to satisfy: the buffer is sorted and newer
than what was applied, the player is where the applied inputs moved it, and the
client shows its newest prediction. `ReconcileInv` is the hardest step: a report
drops what it acknowledges, and the replay of the rest ends where the reported
state moved by everything pressed since would be. `SimulateCourse` says what the
fold over the inputs computes.

Of `UdpGameServer`: `UdpTypeCorrect`, `MappingIsSound`, `RostersAgree`,
`TablesAlwaysAgree`, `InputsAreAppliedOnce`, `OnlyItsAddressIsHeard`. `UdpInv`
adds `Absent` (exactly the clients have an address; whoever is absent has
sequence number 0 in both filters) and `InputAhead` (the input between the two
critical sections is newer than its player's, who is still there). The last two
theorems are action properties that follow from it.

**`SnapshotsProofs`**: `RingAlwaysHoldsTheLast`, `LookBackIsAlwaysRight`,
`DeltasAlwaysReconstruct`. The invariant `Inv` says that the slot of every age
holds the snapshot saved that many saves ago (`Ring`) and that no two snapshots,
saved or held by a writer, have one sequence (`Distinct`); all that reads the
ring is then arithmetic around it (`SlotIs`, `SlotAfter`).

- *Looking back.* `LookBackIs` has the three answers: the oldest, the newest, or
  between two neighbours. `PartOf` bounds an integer part of a distance by the
  distance, so an interpolated player is between its two places (`LerpBetween`).
  That later times get later answers needs that snapshots saved in order are in
  order throughout (`InOrderThroughout`).
- *Deltas.* `ChangesSay`: a delta has one entry for each player of the target
  that differs. `AppliedSays`: applying entries one after the other leaves
  every player with what the only entry about it says, or as it was. This rests
  on `DifferentIds`, the assumption that no vector has a player twice: the
  vectors are made from the keys of a map.

**`MatchmakerProofs`**: `QueueStaysConsistent`, `MatchesAreAlwaysFair`,
`NobodyIsLeftBehind`. `QueueInv` says that the bucket of a rating *lists* the
players whose index names it (`Lists`: all of them, each once). That is kept by
what takes players out (`ListsLess`) and what puts one at the end (`ListsMore`).
The two action properties are about one round:

- `FetchIs`: `FetchOrdered`, a recursion over the ratings, lists everybody who
  waits, sorted by rating.
- `PartnersAre`: in such a list the early exit excludes nobody acceptable,
  because whoever stands between is no farther away.
- `Matched` is the invariant of the double loop: pairs are acceptable and
  disjoint, and of the players who have had their turn nobody unpaired is
  acceptable to anybody unpaired. `MatchedNext` is one turn, `PairsAre` all.

**`InductionLemmas`**. Folds are recursive functions on the subsets of a finite
set, and what they compute is shown by induction. The induction theorems of the
library take an operator as parameter, which no installed prover instantiates;
here induction is over a *set* of numbers instead (`Least`, `UpTo`: a set that
has 0, and k whenever it has k - 1, has all numbers up to n) or over a set of
subsets (`SubsetInduction`), which is first-order and derived from the
well-foundedness of the naturals. `FoldExists`, `RecursionExists` and
`CourseExists` show that the recursive function is there at all.

With these, every invariant and every safety action property that a passing run
checks is a theorem. Only model-checked:

- All liveness (`BrokenConnectionsLeave`, the fairness of `ImplementsFeed`,
  `ExpiredAreSwept`, `StopReturns`, `StopEnds`, `BufferDrains`,
  `ServersRecover`): liveness under fairness and ENABLED are out of this
  prover's reach. Of `ImplementsFeed` the safety half is `BehavesLikeFeed`.
- The violation of `ClusterCrashes`, a counterexample.

`MetricsAreConsistent` and the like are parts of a property that a run checks;
they are theorems of their own because a reader may want to cite them.

## Where the code and its documents disagree

One disagreement is kept as a run:

1. **A crash is not detected** (`distributed/service_discovery.cpp:233, 105`;
   run `ClusterCrashes`). `CheckLoop` asks for the servers with a live record,
   and the record expires after the same 15 seconds after which it would count
   as a failure. A server that crashed drops out of the list, its failures are
   never counted, and the balancer goes on selecting it;
   `src/cpp-pvp-server/design/v2.0.1-load-balancer.md:375-379` says that the
   failure count rises and `MarkServerHealthy(false)` follows. Only servers
   whose record is fresh and whose clock is behind are counted.

The others are stated in their modules and in no run; a passing property says
what does hold. To see one, add its name to the run's `.cfg`, under INVARIANTS
or PROPERTIES, with the constants given here.

2. **Duplicate inputs fire** (`game/game_session.cpp:97`; `OneShotPerInput`,
   `MaxSpawns = 3`, `MaxSequence = 1`). Only strictly older sequence numbers are
   dropped; the comment at line 83 says duplicates are prevented. The UDP front
   end has a stricter filter of its own (`AppliedOnce`), the WebSocket front end
   has none.
3. **A kicked connection may be heard once more**
   (`network/websocket_server.cpp:202`; `OnlyTheHolderIsHeard`,
   `MaxSequence = 1`). `OnRead` does not look at `closed_`; the comment at line
   406 says that a duplicate login is prevented. The step: a frame arrives on
   the old connection, the new one's first frame is handled first, then the old
   frame moves the player.
4. **The bytes of a slow write may change** (`network/websocket_server.cpp:139`;
   `FramesAreIntact`). The comment at line 136 says a copy keeps the data while
   it is sent; the copy is a local of `DoWrite`, gone when it returns.
5. **A live session may be unreachable by player**
   (`storage/in_memory_session_store.cpp:78, 100, 116, 130, 217`;
   `LookupComplete`). The reverse index is erased with any session of the
   player, not only the one it names; `session_store.h:81-83` promises nullopt
   only if there is none.
6. **A client that reconnects from another address gets no broadcasts**
   (`network/udp_game_server.cpp:185`; `EveryClientIsReached`). The socket's set
   is not updated; `src/cpp-pvp-server/design/v1.4.0-udp-netcode.md:58` says
   that broadcasts go to every connected client. Its inputs and its DISCONNECT
   do work.
7. **Not the oldest first** (`matchmaking/match_queue.cpp:85`; `OldestFirst`,
   `PlayerId = {a, b, c}`, `Elo = {0, 1, 3}`, `BaseTolerance = 1`,
   `ToleranceStep = 1`, `MaxWait = 2`, and no `SYMMETRY`). The queue is ordered
   by rating, then age; `src/cpp-pvp-server/design/v1.2.0-matchmaking.md:33` and
   `matchmaker.cpp:101` say the longest waiting is matched first.
8. **A tick may begin after `Stop`** (`core/game_loop.cpp:140`;
   `StopPreventsAdditionalTicks`). The head of the loop releases `mutex_` before
   the tick takes it again; the test of that name
   (`tests/unit/test_game_loop.cpp:49`) expects the count at the `Stop` to be
   final. `OneMoreTickAtMost` is what holds.
9. **A kill is counted again in the next match** (`stats/match_stats.cpp`;
   `KillsCountOnce`). Kills and damage of a match are those of the whole
   retained log; `src/cpp-pvp-server/docs/mvp-specs/mvp-1.3.md:7` speaks of a
   record of one finished duel.
10. **Some prediction errors stay** (`netcode/reconciliation.cpp:84`;
    `ErrorsAreCorrected`). A correction replays inputs but leaves the
    predictions made for them as they were. A later report that agrees with
    such an old prediction corrects nothing, though the client shows something
    else. Line 3 says errors are corrected when the server's state comes in;
    `AtRestItAgrees` is what holds.

## Not modelled

Of the repository as a whole:

- `src/cpp-pvp-server/snapshots/`: eleven older copies of the same code, stage
  by stage. A model of one would repeat the model of the final code.
- `src/spring-patterns` and `src/native-video-editor`: two independent projects,
  for the most part calls into Spring, PostgreSQL, Redis, Kafka, Elasticsearch,
  WebGL and FFmpeg. Their behaviour is that of those systems.

Of the server:

- Positions, directions, wire formats, log output and metrics text: no property
  is about them.
- The anti-cheat validators and the anomaly detector: statistics over floating
  point samples. The ban service: three maps used by one thread, only in tests.
- Lag compensation and `SmoothCorrection`: geometry over a history of positions;
  the look back they rest on is in `Snapshots`.
- The moment within `HandleDisconnect` of the UDP server when the player has left
  the server's tables and not yet the `GameSession`: the server's mutex is held,
  and only `BroadcastState` may look at the session then and send a state with
  that player in it.
- Round robin and least connections of the balancer: one scan over the servers
  each. `UpdateServerLoad`: whether a server has capacity is left open.
- HTTP endpoints, PostgreSQL and Redis wrappers, the packet simulator and the
  configuration: stateless, pure I/O or random delays for tests.

`PROJECT.json` ("hazards") lists what can go wrong in the code, with the
properties that cover it or the reason why none does.

## Plan

In order of importance:

1. `UdpGameServer` with a second Start after Stop, and heartbeats once the code
   reads them.
2. Proofs: an abstract specification of the snapshot ring (a sequence of the
   last `Size` snapshots) and of the store's index, each refined by its module.
3. `BanService` with its three indexes, if the server comes to use it; lag
   compensation over `Snapshots`; the other two selections of the balancer.
