--------------------------- MODULE StateBroadcast ---------------------------
(***************************************************************************)
(* How cpp-pvp-server brings each tick to its clients                      *)
(* (server/src/network/websocket_server.cpp): the game loop posts a        *)
(* BroadcastState to the io_context for every tick; BroadcastState posts   *)
(* to each ClientSession its state and then every death of the tick; a     *)
(* ClientSession queues what it is given and keeps one async_write in      *)
(* flight.                                                                 *)
(*                                                                         *)
(* One thread runs the io_context, so a handler is one action.  It runs    *)
(* posted handlers in the order they were posted; only the order of the    *)
(* broadcasts among themselves and of the handlers of one session is kept  *)
(* here, which allows every order the program has and more.  Completions   *)
(* of reads and writes come in between at any time.                        *)
(*                                                                         *)
(* Every connection has named its player (WebSocketServer models how), and *)
(* stands for it.                                                          *)
(***************************************************************************)
EXTENDS Naturals, Sequences, FiniteSets, Functions

CONSTANTS
  Conn,       \* the connections, each with a player of its own
  MaxTick     \* bound: ticks of the game loop

ASSUME ConstantsAssumption == IsFiniteSet(Conn) /\ MaxTick \in Nat

VARIABLES
  tick,                \* the last tick of the game loop
  last_broadcast_tick, \* last_broadcast_tick_; later ones are posted
  posted,              \* messages in handlers posted for each ClientSession
  queue,               \* its write_queue_
  writing,             \* its writing_
  wire,                \* the state of its async_write
  closed,              \* sessions with closed_ set
  produced,            \* history: what was produced for each session
  sent,                \* history: the frames its peer was sent
  intact               \* history: all their bytes were those of the message

sessionVars == <<queue, writing, wire, closed, sent, intact>>
vars == <<tick, last_broadcast_tick, posted, queue, writing, wire, closed,
          produced, sent, intact>>

Message == [type : {"state", "death"}, player : Conn, tick : 1..MaxTick]

StateOf(c, t) == [type |-> "state", player |-> c, tick |-> t]
DeathOf(p, t) == [type |-> "death", player |-> p, tick |-> t]

Init ==
  /\ tick = 0
  /\ last_broadcast_tick = 0
  /\ posted = [c \in Conn |-> <<>>]
  /\ queue = [c \in Conn |-> <<>>]
  /\ writing = [c \in Conn |-> FALSE]
  /\ wire = [c \in Conn |-> "idle"]
  /\ closed = {}
  /\ produced = [c \in Conn |-> <<>>]
  /\ sent = [c \in Conn |-> <<>>]
  /\ intact = TRUE

----------------------------------------------------------------------------
(* The game loop's thread: the update callback of one tick. *)

LoopTick ==
  /\ tick < MaxTick
  /\ tick' = tick + 1
  /\ UNCHANGED <<last_broadcast_tick, posted, produced>>
  /\ UNCHANGED sessionVars

----------------------------------------------------------------------------
(* BroadcastState. *)

\* The deaths a tick may bring: any players in any order, nobody twice, for
\* BroadcastState ticks the session itself and takes its deaths at once, and
\* within a tick nobody who has died comes back.
Deaths == UNION {Injection(1..n, Conn) : n \in 0..Cardinality(Conn)}

\* A slip: the deaths before the state.
DeathsFirst(c, t, dead) ==
  [i \in 1..Len(dead) |-> DeathOf(dead[i], t)] \o <<StateOf(c, t)>>

\* What one tick posts to a session: its state, then every death.
Round(c, t, dead) ==
  <<StateOf(c, t)>> \o [i \in 1..Len(dead) |-> DeathOf(dead[i], t)]

\* Sessions that have stopped are no longer among the clients.
BroadcastState(dead) ==
  LET t    == last_broadcast_tick + 1
      more == [c \in Conn |-> IF c \in closed THEN <<>> ELSE Round(c, t, dead)]
  IN  /\ t <= tick
      /\ last_broadcast_tick' = t
      /\ posted' = [c \in Conn |-> posted[c] \o more[c]]
      /\ produced' = [c \in Conn |-> produced[c] \o more[c]]
      /\ UNCHANGED tick
      /\ UNCHANGED sessionVars

----------------------------------------------------------------------------
(* ClientSession. *)

\* Where DoWrite leaves a write of the front of the queue.  "taken": the
\* socket took the whole frame during the call.  "blocked": it takes the rest
\* later, out of a buffer that refers to the local string of DoWrite, which is
\* gone by then.  "refused": the websocket is closed.
Begun(c) == IF c \in closed THEN {"refused"} ELSE {"taken", "blocked"}

\* Slips of QueueMessage: writing_ is not tested, or is not set.
QueueAndWrite(c) ==
  /\ posted[c] # <<>>
  /\ posted' = [posted EXCEPT ![c] = Tail(@)]
  /\ queue' = [queue EXCEPT ![c] = <<Head(posted[c])>> \o @]
  /\ writing' = [writing EXCEPT ![c] = TRUE]
  /\ \E w \in Begun(c) : wire' = [wire EXCEPT ![c] = w]
  /\ UNCHANGED <<tick, last_broadcast_tick, closed, produced, sent, intact>>

QueueWithoutWaking(c) ==
  /\ posted[c] # <<>>
  /\ posted' = [posted EXCEPT ![c] = Tail(@)]
  /\ queue' = [queue EXCEPT ![c] = Append(@, Head(posted[c]))]
  /\ IF ~writing[c] /\ queue[c] = <<>>
     THEN \E w \in Begun(c) : wire' = [wire EXCEPT ![c] = w]
     ELSE UNCHANGED wire
  /\ UNCHANGED <<tick, last_broadcast_tick, writing, closed, produced, sent,
                 intact>>

\* DoEnqueueState and DoEnqueueDeath, through QueueMessage and DoWrite.
QueueMessage(c) ==
  /\ posted[c] # <<>>
  /\ posted' = [posted EXCEPT ![c] = Tail(@)]
  /\ queue' = [queue EXCEPT ![c] = Append(@, Head(posted[c]))]
  /\ writing' = [writing EXCEPT ![c] = TRUE]
  /\ IF writing[c]
     THEN UNCHANGED wire
     ELSE \E w \in Begun(c) : wire' = [wire EXCEPT ![c] = w]
  /\ UNCHANGED <<tick, last_broadcast_tick, closed, produced, sent, intact>>

\* The peer has got a frame: that of the front of the queue.
Delivered(c) ==
  /\ sent' = [sent EXCEPT ![c] = Append(@, Head(queue[c]))]
  /\ \E same \in {TRUE} \union {wire[c] = "taken"} : intact' = (intact /\ same)

\* A slip of OnWrite: the queue is not looked at again.
WrittenOnce(c) ==
  /\ wire[c] \in (IF c \in closed THEN {"taken"} ELSE {"taken", "blocked"})
  /\ Delivered(c)
  /\ queue' = [queue EXCEPT ![c] = Tail(@)]
  /\ writing' = [writing EXCEPT ![c] = FALSE]
  /\ wire' = [wire EXCEPT ![c] = "idle"]
  /\ UNCHANGED <<tick, last_broadcast_tick, posted, closed, produced>>

\* OnWrite without an error: pop, then write the next, if any.  The end of a
\* write that was taken may be handled after the session was stopped.
Written(c) ==
  /\ wire[c] \in (IF c \in closed THEN {"taken"} ELSE {"taken", "blocked"})
  /\ Delivered(c)
  /\ queue' = [queue EXCEPT ![c] = Tail(@)]
  /\ writing' = [writing EXCEPT ![c] = Tail(queue[c]) # <<>>]
  /\ \E w \in IF Tail(queue[c]) = <<>> THEN {"idle"} ELSE Begun(c) :
       wire' = [wire EXCEPT ![c] = w]
  /\ UNCHANGED <<tick, last_broadcast_tick, posted, closed, produced>>

\* OnWrite with an error: Stop.  The queue and writing_ stay as they are.
WriteFailed(c) ==
  /\ wire[c] # "idle"
  /\ wire' = [wire EXCEPT ![c] = "idle"]
  /\ closed' = closed \union {c}
  /\ UNCHANGED <<tick, last_broadcast_tick, posted, queue, writing, produced,
                 sent, intact>>

\* Stop for any other reason: the read failed, or another connection took the
\* player over.
Stop(c) ==
  /\ c \notin closed
  /\ closed' = closed \union {c}
  /\ UNCHANGED <<tick, last_broadcast_tick, posted, queue, writing, wire,
                 produced, sent, intact>>

Next ==
  \/ LoopTick
  \/ \E dead \in Deaths : BroadcastState(dead)
  \/ \E c \in Conn : QueueMessage(c) \/ Written(c) \/ WriteFailed(c) \/ Stop(c)

\* The io thread runs every handler that is posted, and a write completes: if
\* the peer stops reading, the websocket's idle timeout ends it with an error.
Fairness ==
  /\ WF_vars(\E dead \in Deaths : BroadcastState(dead))
  /\ \A c \in Conn : WF_vars(QueueMessage(c))
  /\ \A c \in Conn : WF_vars(Written(c) \/ WriteFailed(c))

Spec == Init /\ [][Next]_vars /\ Fairness

----------------------------------------------------------------------------
(* Properties. *)

TypeOK ==
  /\ tick \in 0..MaxTick
  /\ last_broadcast_tick \in 0..tick
  /\ posted \in [Conn -> Seq(Message)]
  /\ queue \in [Conn -> Seq(Message)]
  /\ writing \in [Conn -> BOOLEAN]
  /\ wire \in [Conn -> {"idle", "taken", "blocked", "refused"}]
  /\ closed \subseteq Conn
  /\ produced \in [Conn -> Seq(Message)]
  /\ sent \in [Conn -> Seq(Message)]
  /\ intact \in BOOLEAN

\* The writer of a live session never sleeps on work and never starts a
\* second async_write: writing_, the write in flight and the queue say the
\* same, however handlers and completions interleave.  (A websocket stream
\* allows one write at a time.)
WriterAwake ==
  \A c \in Conn \ closed :
    /\ writing[c] <=> wire[c] # "idle"
    /\ writing[c] <=> queue[c] # <<>>

\* No message is lost, repeated or overtaken between BroadcastState and the
\* peer of a live session; a session that stops has sent a beginning of what
\* was produced for it.
NothingLost ==
  \A c \in Conn :
    IF c \in closed
    THEN /\ Len(sent[c]) <= Len(produced[c])
         /\ sent[c] = SubSeq(produced[c], 1, Len(sent[c]))
    ELSE sent[c] \o queue[c] \o posted[c] = produced[c]

\* A client learns of a death only after it has seen the state of that tick,
\* and never goes back in time: clients show what the last state said.
StateBeforeDeath ==
  \A c \in Conn : \A i \in 1..Len(sent[c]) :
    LET m == sent[c][i] IN
    /\ \A j \in 1..i : sent[c][j].tick <= m.tick
    /\ m.type = "death" => StateOf(c, m.tick) \in {sent[c][j] : j \in 1..i}

Feed == INSTANCE ClientFeed WITH received <- sent, gone <- closed

\* The broadcast and the sessions' writers implement ClientFeed: in order,
\* without loss, and every client that is owed a message gets it or is gone.
ImplementsFeed == Feed!Spec

\* "a copy (keeps the data while it is sent)" (websocket_server.cpp:136): the
\* bytes on the wire are those of the message.
FramesAreIntact == intact
=============================================================================
