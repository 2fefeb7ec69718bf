------------------------------ MODULE GameLoop ------------------------------
(***************************************************************************)
(* The fixed-rate loop of cpp-pvp-server (server/src/core/game_loop.cpp):  *)
(* a thread that calls back once per frame and sleeps on a condition       *)
(* variable in between, and the thread that starts, stops and joins it.    *)
(*                                                                         *)
(* All calls come from one thread, as in main.cpp and in the tests.  The   *)
(* loop thread holds mutex_ for longer than one step in two places: while  *)
(* the callback runs ("calling"), and in wait_for between the predicate    *)
(* and the sleep ("dozing").  The other critical sections are one action   *)
(* each and need mutex_ to be free.                                        *)
(*                                                                         *)
(* A callback posts or sends and returns; it does not call the loop.  How  *)
(* long frames take is left open.                                          *)
(***************************************************************************)
EXTENDS Naturals

CONSTANTS
  Callback,   \* callbacks that may be installed
  NoCallback  \* the empty std::function

ASSUME CallbackAssumption == NoCallback \notin Callback

VARIABLES
  caller,         \* where the calling thread is; "idle" between two calls
  loop,           \* where the loop thread is; "none" when thread_ is empty
  running,        \* running_
  stop_requested, \* stop_requested_
  callback,       \* callback_
  current,        \* the callback of the last tick
  late            \* history: ticks begun since stop_requested_, up to MaxLate

loopVars == <<caller, loop, running, stop_requested, callback, current, late>>

MaxLate == 2   \* bound: late ticks that are told apart

LoopInit ==
  /\ caller = "idle"
  /\ loop = "none"
  /\ running = FALSE
  /\ stop_requested = FALSE
  /\ callback = NoCallback
  /\ current = NoCallback
  /\ late = 0

MutexFree == loop \notin {"calling", "dozing"}

----------------------------------------------------------------------------
(* The calling thread. *)

\* Start of a loop that is not running.  (Start of a running one returns at
\* once; one that has ended is joined before it is started again.)
Start ==
  /\ caller = "idle" /\ ~running /\ loop = "none"
  /\ running' = TRUE
  /\ stop_requested' = FALSE
  /\ loop' = "head"
  /\ late' = 0
  /\ UNCHANGED <<caller, callback, current>>

\* A slip: the callback is replaced without mutex_.
SetAtAnyTime(c) ==
  /\ caller = "idle"
  /\ callback' = c
  /\ UNCHANGED <<caller, loop, running, stop_requested, current, late>>

SetUpdateCallback(c) ==
  /\ caller = "idle" /\ MutexFree
  /\ callback' = c
  /\ UNCHANGED <<caller, loop, running, stop_requested, current, late>>

\* Stop of a loop that is running: the flag, under mutex_, then the signal.
StopCalled ==
  /\ caller = "idle" /\ running
  /\ caller' = "stopping"
  /\ UNCHANGED <<loop, running, stop_requested, callback, current, late>>

\* A slip: the flag is set without mutex_.
StopUnlocked ==
  /\ caller = "stopping"
  /\ stop_requested' = TRUE
  /\ caller' = "notifying"
  /\ UNCHANGED <<loop, running, callback, current, late>>

StopRequested ==
  /\ caller = "stopping" /\ MutexFree
  /\ stop_requested' = TRUE
  /\ caller' = "notifying"
  /\ UNCHANGED <<loop, running, callback, current, late>>

StopNotifies ==
  /\ caller = "notifying"
  /\ caller' = "idle"
  /\ loop' = IF loop = "asleep" THEN "woken" ELSE loop
  /\ UNCHANGED <<running, stop_requested, callback, current, late>>

JoinCalled ==
  /\ caller = "idle" /\ loop # "none"
  /\ caller' = "joining"
  /\ UNCHANGED <<loop, running, stop_requested, callback, current, late>>

JoinReturns ==
  /\ caller = "joining" /\ loop = "ended"
  /\ caller' = "idle"
  /\ loop' = "none"
  /\ UNCHANGED <<running, stop_requested, callback, current, late>>

----------------------------------------------------------------------------
(* Run, on the loop thread. *)

\* A slip: the head of the loop looks at running_, which nobody but the loop
\* itself resets.
HeadTestsRunning ==
  /\ loop = "head"
  /\ loop' = IF running THEN "ready" ELSE "ended"
  /\ UNCHANGED <<caller, running, stop_requested, callback, current, late>>

\* A slip: the loop ends and leaves running_ set.
HeadKeepingRunning ==
  /\ loop = "head"
  /\ loop' = IF stop_requested THEN "ended" ELSE "ready"
  /\ UNCHANGED <<caller, running, stop_requested, callback, current, late>>

\* The head of the loop.
Iterates ==
  /\ loop = "head"
  /\ loop' = IF stop_requested THEN "ended" ELSE "ready"
  /\ running' = ~stop_requested
  /\ UNCHANGED <<caller, stop_requested, callback, current, late>>

\* A tick: mutex_ is taken again and held for as long as the callback runs.
TickBegins ==
  /\ loop = "ready" /\ callback # NoCallback
  /\ loop' = "calling"
  /\ current' = callback
  /\ late' = IF stop_requested /\ late < MaxLate THEN late + 1 ELSE late
  /\ UNCHANGED <<caller, running, stop_requested, callback>>

TickEnds ==
  /\ \/ loop = "calling"
     \/ loop = "ready" /\ callback = NoCallback
  /\ loop' = "called"
  /\ UNCHANGED <<caller, running, stop_requested, callback, current, late>>

\* The frame took too long and the next one begins at once, or wait_for takes
\* mutex_ and evaluates its predicate.
FrameEnds ==
  /\ loop = "called"
  /\ \/ loop' = "head"
     \/ ~stop_requested /\ loop' = "dozing"
  /\ UNCHANGED <<caller, running, stop_requested, callback, current, late>>

\* wait_for releases mutex_ and sleeps, until the time is up ...
FallsAsleep ==
  /\ loop = "dozing"
  /\ loop' = "asleep"
  /\ UNCHANGED <<caller, running, stop_requested, callback, current, late>>

TimesOut ==
  /\ loop = "asleep"
  /\ loop' = "woken"
  /\ UNCHANGED <<caller, running, stop_requested, callback, current, late>>

\* ... or Stop has signalled; then it takes mutex_ and returns.
WaitReturns ==
  /\ loop = "woken"
  /\ loop' = "head"
  /\ UNCHANGED <<caller, running, stop_requested, callback, current, late>>

Run ==
  \/ Iterates \/ TickBegins \/ TickEnds \/ FrameEnds
  \/ FallsAsleep \/ TimesOut \/ WaitReturns

LoopNext ==
  \/ Start \/ StopCalled \/ StopRequested \/ StopNotifies
  \/ JoinCalled \/ JoinReturns
  \/ \E c \in Callback \union {NoCallback} : SetUpdateCallback(c)
  \/ Run

\* The loop thread is scheduled, callbacks return and sleeps end; a call that
\* has been entered proceeds.
LoopFairness ==
  WF_loopVars(Run) /\ WF_loopVars(StopNotifies) /\ WF_loopVars(JoinReturns)

LoopSpec == LoopInit /\ [][LoopNext]_loopVars /\ LoopFairness

----------------------------------------------------------------------------
(* Properties. *)

\* The types of the variables but late.
Types ==
  /\ caller \in {"idle", "stopping", "notifying", "joining"}
  /\ loop \in {"none", "head", "ready", "calling", "called", "dozing",
               "asleep", "woken", "ended"}
  /\ running \in BOOLEAN
  /\ stop_requested \in BOOLEAN
  /\ callback \in Callback \union {NoCallback}
  /\ current \in Callback \union {NoCallback}

\* running_ is set exactly while there is a loop to stop.
RunningHonest == running = FALSE <=> loop \in {"none", "ended"}

\* The types; and running_, which Start and Stop test without mutex_, tells
\* whether the loop runs: Stop is never dropped by its early return while
\* there is a loop to stop.
LoopTypeOK == Types /\ late \in 0..MaxLate /\ RunningHonest

\* Once SetUpdateCallback has returned the callback it replaced neither runs
\* nor will: UdpGameServer::Stop and its destructor rely on it when they take
\* their callback away.
ReplacedNeverRuns == loop = "calling" => current = callback

\* Once Stop has returned the loop is not asleep: the wake-up is not lost
\* between wait_for's test of stop_requested_ and its sleep, so nobody waits
\* for the rest of a frame.
StopWakesTheLoop ==
  stop_requested /\ caller # "notifying" => loop \notin {"dozing", "asleep"}

\* After the flag is set at most one more tick begins, the one whose iteration
\* had passed the head of the loop.
OneMoreTickAtMost == late <= 1

\* A loop that is asked to stop ends, and the join that waits for it returns.
StopEnds == stop_requested ~> (loop \in {"ended", "none"} /\ caller # "joining")

\* "StopPreventsAdditionalTicks" (tests/unit/test_game_loop.cpp:49): no tick
\* begins or runs after Stop has returned.  The head of the loop releases
\* mutex_ before the tick takes it again.
StopPreventsAdditionalTicks ==
  stop_requested /\ caller # "notifying" => loop # "calling"
=============================================================================
