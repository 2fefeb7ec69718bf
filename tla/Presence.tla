------------------------------ MODULE Presence ------------------------------
(***************************************************************************)
(* What the connection layer of cpp-pvp-server promises: a player is in    *)
(* the game exactly while one connection holds it, a second login takes    *)
(* the player over from the first, and a connection that has lost its      *)
(* player never holds one again.                                           *)
(***************************************************************************)
EXTENDS FiniteSets

CONSTANTS PlayerId, Conn, NoConn

VARIABLES
  holder,   \* the connection that holds each player, or NoConn
  spent,    \* connections that have held a player and lost it
  online    \* players that take part in the game

vars == <<holder, spent, online>>

Init ==
  /\ holder = [p \in PlayerId |-> NoConn]
  /\ spent = {}
  /\ online = {}

Holds(c) == \E p \in PlayerId : holder[p] = c

\* A login, which ends the connection that held the player, if any.
Login(c, p) ==
  /\ c \notin spent /\ ~Holds(c)
  /\ holder' = [holder EXCEPT ![p] = c]
  /\ spent' = spent \union ({holder[p]} \ {NoConn})
  /\ online' = online \union {p}

Logout(p) ==
  /\ holder[p] # NoConn
  /\ holder' = [holder EXCEPT ![p] = NoConn]
  /\ spent' = spent \union {holder[p]}
  /\ online' = online \ {p}

Shutdown ==
  /\ holder' = [p \in PlayerId |-> NoConn]
  /\ spent' = spent \union ({holder[p] : p \in PlayerId} \ {NoConn})
  /\ online' = {}

Next ==
  \/ \E c \in Conn, p \in PlayerId : Login(c, p)
  \/ \E p \in PlayerId : Logout(p)
  \/ Shutdown

Spec == Init /\ [][Next]_vars
=============================================================================
