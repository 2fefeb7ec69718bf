-------------------------- MODULE WebSocketServer --------------------------
(***************************************************************************)
(* The connection layer of cpp-pvp-server                                  *)
(* (server/src/network/websocket_server.cpp) together with what main.cpp   *)
(* hangs on it: the lifecycle handlers that feed the matchmaking queue and *)
(* the session log, the matchmaking timer and the signal handler.          *)
(*                                                                         *)
(* All of it runs on the one thread in io_context.run(), so a completion   *)
(* handler is one action.  What the network does between two handlers      *)
(* (a frame arrives, a peer goes away) is an action of its own: it leaves  *)
(* a completed read behind, which the io thread picks up later, perhaps    *)
(* after the connection has been closed by somebody else.                  *)
(*                                                                         *)
(* Of the game session only membership and the last input sequence number  *)
(* of each player are kept here (see GameSession).                         *)
(***************************************************************************)
EXTENDS Naturals, Sequences, FiniteSets

CONSTANTS
  PlayerId,     \* ids a client may put in its frames
  Conn,         \* TCP connections, numbered in the order they are accepted
  NoPlayer,     \* player_id_ is still empty
  NoConn,       \* no entry in clients_
  MaxSequence   \* bound: largest input sequence number

ASSUME ConstantsAssumption ==
  /\ NoPlayer \notin PlayerId
  /\ Conn \subseteq Nat
  /\ NoConn \notin Conn
  /\ MaxSequence \in Nat

VARIABLES
  phase,            \* life of each ClientSession; "closed" is closed_
  player_id,        \* player_id_ of each ClientSession
  read,             \* the outstanding async_read of each ClientSession
  clients,          \* clients_
  connection_count, \* connection_count_
  players,          \* players in the GameSession
  last_sequence,    \* their last_sequence; 0 when absent
  waiting,          \* the matchmaking queue, oldest first
  recorded,         \* last RecordSessionEvent of each player
  running           \* the io_context runs

connVars    == <<phase, player_id, read>>
sessionVars == <<players, last_sequence>>
vars == <<phase, player_id, read, clients, connection_count, players,
          last_sequence, waiting, recorded, running>>

Frame == [player : PlayerId, sequence : 0..MaxSequence]

Waiting == [state |-> "waiting"]   \* no completion queued yet
Failed  == [state |-> "failed"]    \* completed with an error code
Arrived(f) == [state |-> "arrived", frame |-> f]
NotReading == [state |-> "none"]

Read == {Waiting, Failed, NotReading} \union {Arrived(f) : f \in Frame}

Init ==
  /\ phase = [c \in Conn |-> "unused"]
  /\ player_id = [c \in Conn |-> NoPlayer]
  /\ read = [c \in Conn |-> NotReading]
  /\ clients = [p \in PlayerId |-> NoConn]
  /\ connection_count = 0
  /\ players = {}
  /\ last_sequence = [p \in PlayerId |-> 0]
  /\ waiting = <<>>
  /\ recorded = [p \in PlayerId |-> "none"]
  /\ running = TRUE

InQueue(queue) == {queue[i] : i \in 1..Len(queue)}

\* Cancel: the entry of p is erased, if there is one.
Without(queue, p) ==
  LET at == CHOOSE i \in 1..Len(queue) : queue[i] = p
  IN  IF p \in InQueue(queue)
      THEN SubSeq(queue, 1, at - 1) \o SubSeq(queue, at + 1, Len(queue))
      ELSE queue

\* Cancel of one player after the other.
WithoutAll(queue, gone) ==
  IF InQueue(queue) \subseteq gone THEN <<>>
  ELSE SelectSeq(queue, LAMBDA p : p \notin gone)

----------------------------------------------------------------------------
(* The network. *)

\* A well-formed frame reaches a connection that waits for one.  (A frame
\* that does not parse only restarts the read and changes nothing.)
FrameArrives(c, f) ==
  /\ phase[c] = "open" /\ read[c] = Waiting
  /\ read' = [read EXCEPT ![c] = Arrived(f)]
  /\ UNCHANGED <<phase, player_id, clients, connection_count, players,
                 last_sequence, waiting, recorded, running>>

\* The peer closes, resets or times out.
PeerGone(c) ==
  /\ phase[c] = "open" /\ read[c] = Waiting
  /\ read' = [read EXCEPT ![c] = Failed]
  /\ UNCHANGED <<phase, player_id, clients, connection_count, players,
                 last_sequence, waiting, recorded, running>>

----------------------------------------------------------------------------
(* Completion handlers on the io thread. *)

\* DoAccept's handler: a ClientSession is made and starts its handshake.
Accept(c) ==
  /\ running /\ phase[c] = "unused"
  /\ \A d \in Conn : d < c => phase[d] # "unused"
  /\ phase' = [phase EXCEPT ![c] = "handshake"]
  /\ UNCHANGED <<player_id, read, clients, connection_count, players,
                 last_sequence, waiting, recorded, running>>

\* ClientSession::Start's handler: read loop, or Stop of a nameless session.
Handshake(c) ==
  /\ running /\ phase[c] = "handshake"
  /\ \/ /\ phase' = [phase EXCEPT ![c] = "open"]
        /\ read' = [read EXCEPT ![c] = Waiting]
     \/ /\ phase' = [phase EXCEPT ![c] = "closed"]
        /\ UNCHANGED read
  /\ UNCHANGED <<player_id, clients, connection_count, players, last_sequence,
                 waiting, recorded, running>>

\* What closing a socket does to its read: an outstanding one is aborted, one
\* that has completed stays completed.
Aborted(r) == IF r = Waiting THEN Failed ELSE r

\* A slip of UnregisterClient: the player stays in the GameSession.
UnregisterKeepingPlayer(p) ==
  /\ connection_count' = IF clients[p] # NoConn /\ connection_count > 0
                         THEN connection_count - 1 ELSE connection_count
  /\ clients' = [clients EXCEPT ![p] = NoConn]
  /\ waiting' = Without(waiting, p)
  /\ recorded' = [recorded EXCEPT ![p] = "end"]
  /\ UNCHANGED <<players, last_sequence>>

\* UnregisterClient(p), with main's leave handler.
UnregisterClient(p) ==
  /\ connection_count' = IF clients[p] # NoConn /\ connection_count > 0
                         THEN connection_count - 1 ELSE connection_count
  /\ clients' = [clients EXCEPT ![p] = NoConn]
  /\ players' = players \ {p}
  /\ last_sequence' = [last_sequence EXCEPT ![p] = 0]
  /\ waiting' = Without(waiting, p)
  /\ recorded' = [recorded EXCEPT ![p] = "end"]

\* A slip of Stop: closed_ is set but not tested.
StopAgain(c) ==
  /\ phase' = [phase EXCEPT ![c] = "closed"]
  /\ IF player_id[c] # NoPlayer
     THEN UnregisterClient(player_id[c])
     ELSE UNCHANGED <<clients, connection_count, players, last_sequence,
                      waiting, recorded>>

\* ClientSession::Stop: only the first call does anything.
Stop(c) ==
  IF phase[c] = "closed"
  THEN UNCHANGED <<phase, clients, connection_count, players, last_sequence,
                   waiting, recorded>>
  ELSE /\ phase' = [phase EXCEPT ![c] = "closed"]
       /\ IF player_id[c] # NoPlayer
          THEN UnregisterClient(player_id[c])
          ELSE UNCHANGED <<clients, connection_count, players, last_sequence,
                           waiting, recorded>>

\* A slip: an orderly close by the peer returns before Stop.
ReadFailsQuietly(c) ==
  /\ running /\ read[c] = Failed
  /\ read' = [read EXCEPT ![c] = NotReading]
  /\ UNCHANGED <<phase, player_id, clients, connection_count, players,
                 last_sequence, waiting, recorded, running>>

\* ReadLoop's handler with an error: the session ends.
ReadFails(c) ==
  /\ running /\ read[c] = Failed
  /\ Stop(c)
  /\ read' = [read EXCEPT ![c] = NotReading]
  /\ UNCHANGED <<player_id, running>>

\* OnWrite with an error: the session ends while its read is outstanding.
\* Only a registered client is written to.
WriteFails(c) ==
  /\ running /\ phase[c] = "open" /\ player_id[c] # NoPlayer
  /\ Stop(c)
  /\ read' = [read EXCEPT ![c] = Aborted(@)]
  /\ UNCHANGED <<player_id, running>>

\* GameSession::ApplyInput as far as it is visible here.
Heard(old, members, p, sequence) ==
  IF p \in members /\ sequence >= old[p]
  THEN [old EXCEPT ![p] = sequence] ELSE old

\* The read that the handler issues before it returns.
ReadAgain(c) == IF phase[c] = "open" THEN Waiting ELSE Failed

\* The connection that RegisterClient stops before it installs the new one.
Previous(p) == {clients[p]} \ {NoConn}

\* OnRead of the first frame of a session: RegisterClient(p, c) stops the
\* previous session of p (whose UnregisterClient takes p out of the game),
\* installs c, puts p back in with main's join handler, and the input applies.
FirstFrame(c) ==
  /\ running /\ read[c].state = "arrived" /\ player_id[c] = NoPlayer
  /\ LET p == read[c].frame.player IN
       /\ player_id' = [player_id EXCEPT ![c] = p]
       /\ phase' = [d \in Conn |->
                      IF d \in Previous(p) THEN "closed" ELSE phase[d]]
       /\ read' = [d \in Conn |->
                     IF d = c THEN ReadAgain(c)
                     ELSE IF d \in Previous(p) THEN Aborted(read[d])
                     ELSE read[d]]
       /\ clients' = [clients EXCEPT ![p] = c]
       /\ connection_count' = connection_count - Cardinality(Previous(p)) + 1
       /\ players' = players \union {p}
       /\ last_sequence' =
            Heard(IF Previous(p) = {} THEN last_sequence
                  ELSE [last_sequence EXCEPT ![p] = 0],
                  players \union {p}, p, read[c].frame.sequence)
       /\ waiting' = Append(Without(waiting, p), p)
       /\ recorded' = [recorded EXCEPT ![p] = "start"]
  /\ UNCHANGED running

\* OnRead of a later frame.  The player id in the frame is ignored: the input
\* goes to the player of the session.  closed_ is not looked at.
LaterFrame(c) ==
  /\ running /\ read[c].state = "arrived" /\ player_id[c] # NoPlayer
  /\ UNCHANGED <<phase, player_id, clients, connection_count, players,
                 waiting, recorded, running>>
  /\ last_sequence' =
       Heard(last_sequence, players, player_id[c], read[c].frame.sequence)
  /\ read' = [read EXCEPT ![c] = ReadAgain(c)]

\* main's matchmaking timer: every player enqueues with the same rating, so
\* RunMatching pairs the queue off from its head; the matches go to the
\* notification channel, which main drains and drops.
MatchmakingTimer ==
  /\ running
  /\ waiting' = LET paired == 2 * (Len(waiting) \div 2)
                IN  SubSeq(waiting, paired + 1, Len(waiting))
  /\ UNCHANGED <<phase, player_id, read, clients, connection_count, players,
                 last_sequence, recorded, running>>

\* main's signal handler: WebSocketServer::Stop clears clients_ and then stops
\* each registered session, and the io_context stops.  UnregisterClient finds
\* no entry, so connection_count keeps its value.
Shutdown ==
  LET registered == {clients[p] : p \in PlayerId} \ {NoConn}
      gone       == {player_id[c] : c \in registered}
  IN /\ running /\ running' = FALSE
     /\ clients' = [p \in PlayerId |-> NoConn]
     /\ phase' = [c \in Conn |->
                    IF c \in registered THEN "closed" ELSE phase[c]]
     /\ read' = [c \in Conn |->
                   IF c \in registered THEN Aborted(read[c]) ELSE read[c]]
     /\ players' = players \ gone
     /\ last_sequence' = [p \in PlayerId |->
                            IF p \in gone THEN 0 ELSE last_sequence[p]]
     /\ waiting' = WithoutAll(waiting, gone)
     /\ recorded' = [p \in PlayerId |->
                       IF p \in gone THEN "end" ELSE recorded[p]]
     /\ UNCHANGED <<player_id, connection_count>>

Handler(c) ==
  Handshake(c) \/ ReadFails(c) \/ FirstFrame(c) \/ LaterFrame(c)

Next ==
  \/ \E c \in Conn : Accept(c) \/ PeerGone(c) \/ WriteFails(c) \/ Handler(c)
  \/ \E c \in Conn, f \in Frame : FrameArrives(c, f)
  \/ MatchmakingTimer
  \/ Shutdown

\* The io_context runs every handler whose operation has completed.
Fairness == \A c \in Conn : WF_vars(Handler(c))

Spec == Init /\ [][Next]_vars /\ Fairness

----------------------------------------------------------------------------
(* Properties. *)

\* The types; the sequence number kept is one that was sent.
TypeOK ==
  /\ phase \in [Conn -> {"unused", "handshake", "open", "closed"}]
  /\ player_id \in [Conn -> PlayerId \union {NoPlayer}]
  /\ read \in [Conn -> Read]
  /\ clients \in [PlayerId -> Conn \union {NoConn}]
  /\ connection_count \in Nat
  /\ players \subseteq PlayerId
  /\ last_sequence \in [PlayerId -> 0..MaxSequence]
  /\ waiting \in Seq(PlayerId)
  /\ recorded \in [PlayerId -> {"none", "start", "end"}]
  /\ running \in BOOLEAN

\* clients_ and the sessions' own player_id_ and closed_ tell the same story:
\* a player maps to a session exactly when that session is open under its
\* name.  Taking a player over stops a session that would otherwise, when its
\* read fails at last, unregister the player of the session that replaced it.
Directory ==
  running => \A p \in PlayerId, c \in Conn :
               clients[p] = c <=> phase[c] = "open" /\ player_id[c] = p

\* Who is registered is who plays, and who was last reported to the database
\* as started: no ghost in the GameSession, and every "start" that was reported
\* is followed by its "end", kicks and shutdown included.
MembersAgree ==
  \A p \in PlayerId :
    /\ clients[p] # NoConn <=> p \in players
    /\ recorded[p] = "start" <=> p \in players

\* websocket_connections_total is the number of registered clients for as long
\* as anybody can read it, kicks and double stops included.
CountAgrees ==
  running =>
    connection_count = Cardinality({p \in PlayerId : clients[p] # NoConn})

\* The matchmaker never pairs somebody who has left, nor anybody twice.
QueueHonest ==
  /\ \A i \in 1..Len(waiting) : waiting[i] \in players
  /\ \A i, j \in 1..Len(waiting) : waiting[i] = waiting[j] => i = j

\* Everything that knows who is online agrees, between any two handlers.
RegistryAgrees ==
  TypeOK /\ Directory /\ MembersAgree /\ CountAgrees /\ QueueHonest

\* A connection that breaks takes its player out of the game: nobody stays
\* behind as a ghost.
BrokenConnectionsLeave ==
  \A c \in Conn :
    (phase[c] = "open" /\ read[c] = Failed) ~> (phase[c] = "closed" \/ ~running)

\* The session open under the name of p, if any.
Holder(p) ==
  IF \E c \in Conn : phase[c] = "open" /\ player_id[c] = p
  THEN CHOOSE c \in Conn : phase[c] = "open" /\ player_id[c] = p
  ELSE NoConn

Abstract == INSTANCE Presence WITH
  holder <- [p \in PlayerId |-> Holder(p)],
  spent  <- {c \in Conn : phase[c] = "closed" /\ player_id[c] # NoPlayer},
  online <- players

\* The connection layer implements Presence, seen from its sessions: logins,
\* takeovers, broken connections and the shutdown give and take each player
\* exactly once, and a kicked session never holds its player again.
ImplementsPresence == Abstract!Spec

\* "end the existing connection (prevent duplicate login)"
\* (websocket_server.cpp:406): an input that changes a player comes from the
\* connection that holds the player.  OnRead does not look at closed_, and a
\* read that had completed before the takeover is still delivered.
OnlyTheHolderIsHeard ==
  [][\A c \in Conn :
       (/\ read[c].state = "arrived" /\ read'[c] # read[c]
        /\ last_sequence' # last_sequence)
       => clients'[player_id'[c]] = c]_vars
=============================================================================
