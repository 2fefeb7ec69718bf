---------------------------- MODULE UdpGameServer ----------------------------
(***************************************************************************)
(* The UDP front end of cpp-pvp-server                                     *)
(* (server/src/network/udp_game_server.cpp with udp_socket.cpp): who is    *)
(* connected, from which address, and which inputs reach the GameSession.  *)
(*                                                                         *)
(* A datagram may be lost, duplicated, delayed past anything sent later,   *)
(* or come from an address the server has never seen.  So the network has  *)
(* no state here: any datagram may be the next one received.               *)
(*                                                                         *)
(* One receive is outstanding at a time, so datagrams are handled one      *)
(* after the other; the GameLoop thread broadcasts between any two steps,  *)
(* in particular between the two critical sections of HandleInput.  The    *)
(* server is started once and stopped once.                                *)
(*                                                                         *)
(* HEARTBEAT stores a time that nothing reads and changes nothing else, so *)
(* it has no action.  Of the GameSession the players and their last        *)
(* sequence numbers are kept (see GameSession); nobody calls its Tick in   *)
(* this setup, so there are no deaths for BroadcastState to announce.      *)
(***************************************************************************)
EXTENDS Naturals

CONSTANTS
  PlayerId,
  NoPlayer,      \* no entry
  Endpoint,      \* addresses datagrams come from
  NoEndpoint,    \* no endpoint
  Key,           \* std::size_t, what endpoints are hashed to
  EndpointHash,  \* the hash of each endpoint
  MaxSequence    \* bound: largest input sequence number

ASSUME AddressAssumption ==
  /\ NoPlayer \notin PlayerId
  /\ NoEndpoint \notin Endpoint
  /\ EndpointHash \in [Endpoint -> Key]
  /\ MaxSequence \in Nat

VARIABLES
  running,              \* running_ (and the socket's receiving_)
  clients,              \* the keys of clients_
  endpoint,             \* ClientInfo::endpoint; NoEndpoint when absent
  last_input_sequence,  \* ClientInfo::last_input_sequence; 0 when absent
  endpoint_to_player,   \* endpoint_to_player_
  registered,           \* the UdpSocket's clients_
  players,              \* players in the GameSession
  last_sequence,        \* their last_sequence; 0 when absent
  input,                \* input taken by HandleInput, not yet applied
  reached               \* addresses of the last STATE_FULL broadcast

tableVars == <<clients, endpoint, last_input_sequence, endpoint_to_player,
               registered>>
sessionVars == <<players, last_sequence>>
udpVars == <<running, tableVars, sessionVars, input, reached>>

NoInput == [player |-> NoPlayer, sequence |-> 0]

Idle == input = NoInput   \* no handler is between two critical sections

UdpInit ==
  /\ running = FALSE
  /\ clients = {}
  /\ endpoint = [p \in PlayerId |-> NoEndpoint]
  /\ last_input_sequence = [p \in PlayerId |-> 0]
  /\ endpoint_to_player = [k \in Key |-> NoPlayer]
  /\ registered = {}
  /\ players = {}
  /\ last_sequence = [p \in PlayerId |-> 0]
  /\ input = NoInput
  /\ reached = {}

Start ==
  /\ ~running /\ running' = TRUE
  /\ UNCHANGED <<tableVars, sessionVars, input, reached>>

\* An outstanding receive completes without being handled from now on, and
\* the loop's callback is taken away.
Stop ==
  /\ running /\ running' = FALSE
  /\ UNCHANGED <<tableVars, sessionVars, input, reached>>

----------------------------------------------------------------------------
(* HandleConnect. *)

\* A slip: the old address is not taken out of the map.
ReaddressKeepingOld(map, p, e) == [map EXCEPT ![EndpointHash[e]] = p]

\* A player that is known: only its address changes.  The socket's set of
\* registered clients is not touched.
Readdress(map, p, e) ==
  [map EXCEPT ![EndpointHash[endpoint[p]]] = NoPlayer, ![EndpointHash[e]] = p]

\* A slip: the ClientInfo is built afresh, as for a new player.
ReconnectAfresh(p, e) ==
  /\ p \in clients
  /\ endpoint' = [endpoint EXCEPT ![p] = e]
  /\ endpoint_to_player' = Readdress(endpoint_to_player, p, e)
  /\ last_input_sequence' = [last_input_sequence EXCEPT ![p] = 0]
  /\ UNCHANGED <<clients, registered, sessionVars>>

Reconnect(p, e) ==
  /\ p \in clients
  /\ endpoint' = [endpoint EXCEPT ![p] = e]
  /\ endpoint_to_player' = Readdress(endpoint_to_player, p, e)
  /\ UNCHANGED <<clients, last_input_sequence, registered, sessionVars>>

\* A player that is not: it also joins the GameSession.  An entry another
\* player had under the same address is overwritten.
Connect(p, e) ==
  /\ p \notin clients
  /\ clients' = clients \union {p}
  /\ endpoint' = [endpoint EXCEPT ![p] = e]
  /\ endpoint_to_player' = [endpoint_to_player EXCEPT ![EndpointHash[e]] = p]
  /\ registered' = registered \union {e}
  /\ players' = players \union {p}
  /\ UNCHANGED <<last_input_sequence, last_sequence>>

HandleConnect(e, p) ==
  /\ running /\ Idle
  /\ Reconnect(p, e) \/ Connect(p, e)
  /\ UNCHANGED <<running, input, reached>>

----------------------------------------------------------------------------
(* HandleDisconnect and HandleInput. *)

PlayerAt(e) == endpoint_to_player[EndpointHash[e]]

\* A slip: the player is left in the GameSession.
DisconnectKeepingPlayer(e) ==
  /\ running /\ Idle /\ PlayerAt(e) # NoPlayer
  /\ endpoint_to_player' = [endpoint_to_player EXCEPT ![EndpointHash[e]] = NoPlayer]
  /\ clients' = clients \ {PlayerAt(e)}
  /\ endpoint' = [endpoint EXCEPT ![PlayerAt(e)] = NoEndpoint]
  /\ last_input_sequence' = [last_input_sequence EXCEPT ![PlayerAt(e)] = 0]
  /\ registered' = registered \ {e}
  /\ UNCHANGED <<running, sessionVars, input, reached>>

HandleDisconnect(e) ==
  /\ running /\ Idle /\ PlayerAt(e) # NoPlayer
  /\ endpoint_to_player' = [endpoint_to_player EXCEPT ![EndpointHash[e]] = NoPlayer]
  /\ clients' = clients \ {PlayerAt(e)}
  /\ endpoint' = [endpoint EXCEPT ![PlayerAt(e)] = NoEndpoint]
  /\ last_input_sequence' = [last_input_sequence EXCEPT ![PlayerAt(e)] = 0]
  /\ registered' = registered \ {e}
  /\ players' = players \ {PlayerAt(e)}
  /\ last_sequence' = [last_sequence EXCEPT ![PlayerAt(e)] = 0]
  /\ UNCHANGED <<running, input, reached>>

\* A slip: what is stored is the next sequence number to accept.
AcceptedNext(old, p, sequence) == [old EXCEPT ![p] = sequence + 1]

Accepted(old, p, sequence) == [old EXCEPT ![p] = sequence]

\* The critical section of HandleInput: FindClient, and the test against
\* duplicated and late inputs.
HandleInput(e, sequence) ==
  /\ running /\ Idle
  /\ PlayerAt(e) \in clients
  /\ sequence > last_input_sequence[PlayerAt(e)]
  /\ last_input_sequence' =
       Accepted(last_input_sequence, PlayerAt(e), sequence)
  /\ input' = [player |-> PlayerAt(e), sequence |-> sequence]
  /\ UNCHANGED <<running, clients, endpoint, endpoint_to_player, registered,
                 sessionVars, reached>>

\* Its second half: GameSession::ApplyInput, under the session's own mutex
\* and with the session's own test.
ApplyInput ==
  /\ ~Idle
  /\ last_sequence' =
       IF input.player \in players
          /\ input.sequence >= last_sequence[input.player]
       THEN [last_sequence EXCEPT ![input.player] = input.sequence]
       ELSE last_sequence
  /\ input' = NoInput
  /\ UNCHANGED <<running, tableVars, players, reached>>

\* The GameLoop's callback: STATE_FULL goes to every registered address.
BroadcastState ==
  /\ running /\ reached' = registered
  /\ UNCHANGED <<running, tableVars, sessionVars, input>>

UdpNext ==
  \/ Start \/ Stop \/ ApplyInput \/ BroadcastState
  \/ \E e \in Endpoint :
       \/ HandleDisconnect(e)
       \/ \E p \in PlayerId : HandleConnect(e, p)
       \/ \E s \in 0..MaxSequence : HandleInput(e, s)

UdpSpec == UdpInit /\ [][UdpNext]_udpVars

----------------------------------------------------------------------------
(* Properties. *)

\* The types; the sequence number kept is one that was sent.
UdpTypeOK ==
  /\ running \in BOOLEAN
  /\ clients \subseteq PlayerId
  /\ endpoint \in [PlayerId -> Endpoint \union {NoEndpoint}]
  /\ last_input_sequence \in [PlayerId -> 0..MaxSequence]
  /\ endpoint_to_player \in [Key -> PlayerId \union {NoPlayer}]
  /\ registered \subseteq Endpoint
  /\ players \subseteq PlayerId
  /\ last_sequence \in [PlayerId -> 0..MaxSequence]
  /\ input \in [player : PlayerId \union {NoPlayer}, sequence : 0..MaxSequence]
  /\ reached \subseteq Endpoint

\* endpoint_to_player_ never sends a datagram to the wrong player: what it
\* maps an address to is a client whose present address hashes to the same
\* key, whatever takeovers, reconnects and collisions came before.
MappingSound ==
  \A k \in Key :
    endpoint_to_player[k] # NoPlayer =>
      /\ endpoint_to_player[k] \in clients
      /\ EndpointHash[endpoint[endpoint_to_player[k]]] = k

\* The clients of the server are the players of the game.
RosterAgrees == clients = players

\* The two filters for duplicated and late inputs, each under its own lock,
\* agree whenever no input is between them: a player who reconnects from
\* another address resumes where it was, one who comes back starts at zero.
FiltersAgree ==
  \A p \in clients :
    last_input_sequence[p] =
      IF input.player = p THEN input.sequence ELSE last_sequence[p]

\* The five places that know a player agree: the address map, the client
\* table, the game's roster, and the sequence numbers on either side of the
\* gap between the two locks.
TablesAgree == MappingSound /\ RosterAgrees /\ FiltersAgree

\* A duplicated or late datagram never reaches a player a second time: every
\* input applied moves the player's sequence number forward.  (GameSession's
\* own test would let an equal number through.)
AppliedOnce ==
  [][~Idle /\ input' = NoInput =>
       /\ input.player \in players
       /\ input.sequence > last_sequence[input.player]]_udpVars

\* A datagram from e that acts on the player mapped to e.
Speaks(e) == HandleDisconnect(e) \/ \E s \in 0..MaxSequence : HandleInput(e, s)

\* Only the present address of a player speaks for it: after a reconnect, a
\* DISCONNECT or INPUT from the old address neither throws the player out nor
\* moves it.
OnlyItsAddressSpeaks ==
  [][\A p \in clients :
       (p \notin clients' \/ last_input_sequence'[p] # last_input_sequence[p])
       => \E e \in Endpoint :
            EndpointHash[e] = EndpointHash[endpoint[p]] /\ Speaks(e)]_udpVars

\* "broadcast (every connected client)" (design/v1.4.0-udp-netcode.md:58): a
\* broadcast goes to the address of every client.  A client that reconnects
\* from another address is not registered under it.
EveryClientIsReached ==
  [][BroadcastState => \A p \in clients : endpoint[p] \in reached']_udpVars
=============================================================================
