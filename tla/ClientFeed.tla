----------------------------- MODULE ClientFeed -----------------------------
(***************************************************************************)
(* What the write side of cpp-pvp-server promises each connected client:   *)
(* the messages produced for it arrive one by one, in the order in which   *)
(* they were produced, none missing and none twice, for as long as it      *)
(* stays; and a client that is owed a message is served or is let go.      *)
(***************************************************************************)
EXTENDS Naturals, Sequences

CONSTANT Conn

VARIABLES
  produced,   \* everything produced for each client so far
  received,   \* what each client was sent
  gone        \* clients that have left

vars == <<produced, received, gone>>

Init ==
  /\ produced = [c \in Conn |-> <<>>]
  /\ received = [c \in Conn |-> <<>>]
  /\ gone = {}

Extends(s, t) == Len(s) <= Len(t) /\ SubSeq(t, 1, Len(s)) = s

\* One round of production: several messages for several clients.
Produce ==
  /\ \A c \in Conn : Extends(produced[c], produced'[c])
  /\ \A c \in gone : produced'[c] = produced[c]
  /\ UNCHANGED <<received, gone>>

Owed(c) == Len(received[c]) < Len(produced[c])

Deliver(c) ==
  /\ Owed(c)
  /\ received' = [received EXCEPT ![c] = Append(@, produced[c][Len(@) + 1])]
  /\ UNCHANGED <<produced, gone>>

Leave(c) ==
  /\ c \notin gone
  /\ gone' = gone \union {c}
  /\ UNCHANGED <<produced, received>>

Served(c) == c \notin gone /\ Owed(c) /\ (Deliver(c) \/ Leave(c))

Next == Produce \/ \E c \in Conn : Deliver(c) \/ Leave(c)

Spec == Init /\ [][Next]_vars /\ \A c \in Conn : WF_vars(Served(c))
=============================================================================
