----------------------- MODULE WebSocketServerProofs ------------------------
(***************************************************************************)
(* TLAPS proofs about WebSocketServer, for any number of players and       *)
(* connections: everything that knows who is online agrees, and the        *)
(* connection layer implements Presence.                                   *)
(***************************************************************************)
EXTENDS WebSocketServer, FiniteSetTheorems, SequenceTheorems, TLAPS

----------------------------------------------------------------------------
(* The queue. *)

Distinct(queue) ==
  \A i, j \in 1..Len(queue) : queue[i] = queue[j] => i = j

\* Cancel takes out one player and leaves the others in their order.
LEMMA WithoutOne ==
  ASSUME NEW queue \in Seq(PlayerId), Distinct(queue), NEW p
  PROVE  /\ Without(queue, p) \in Seq(PlayerId)
         /\ Distinct(Without(queue, p))
         /\ InQueue(Without(queue, p)) = InQueue(queue) \ {p}
<1>1. CASE p \notin InQueue(queue)
  BY <1>1 DEF Without
<1>2. CASE p \in InQueue(queue)
  <2> DEFINE at == CHOOSE i \in 1..Len(queue) : queue[i] = p
             front == SubSeq(queue, 1, at - 1)
             back == SubSeq(queue, at + 1, Len(queue))
             rest == front \o back
             n == Len(queue)
  <2>1. at \in 1..n /\ queue[at] = p /\ n \in Nat
    BY <1>2 DEF InQueue
  <2>2. Without(queue, p) = rest
    BY <1>2 DEF Without
  <2> HIDE DEF at
  <2>3. /\ front \in Seq(PlayerId) /\ Len(front) = at - 1
        /\ \A i \in 1..at-1 : front[i] = queue[i]
    BY <2>1
  <2>4. /\ back \in Seq(PlayerId) /\ Len(back) = n - at
        /\ \A i \in 1..n-at : back[i] = queue[at + i]
    BY <2>1
  <2>5. /\ rest \in Seq(PlayerId) /\ Len(rest) = n - 1
        /\ \A i \in 1..n-1 : rest[i] = IF i < at THEN queue[i] ELSE queue[i + 1]
    <3>1. /\ rest \in Seq(PlayerId)
          /\ Len(rest) = Len(front) + Len(back)
          /\ \A i \in 1..Len(front) + Len(back) :
               rest[i] = IF i <= Len(front) THEN front[i] ELSE back[i - Len(front)]
      <4> HIDE DEF front, back
      <4> QED  BY <2>3, <2>4, ConcatProperties
    <3> HIDE DEF front, back, rest
    <3>2. Len(front) = at - 1 /\ Len(front) + Len(back) = n - 1
      BY <2>1, <2>3, <2>4
    <3>3. /\ Len(rest) = n - 1
          /\ \A i \in 1..n-1 :
               rest[i] = IF i <= at - 1 THEN front[i] ELSE back[i - (at - 1)]
      BY <3>1, <3>2
    <3>4. ASSUME NEW i \in 1..n-1
          PROVE  rest[i] = IF i < at THEN queue[i] ELSE queue[i + 1]
      <4>1. CASE i < at
        BY <2>1, <2>3, <3>3, <4>1
      <4>2. CASE ~(i < at)
        <5>1. rest[i] = back[i - (at - 1)]
          BY <2>1, <3>3, <4>2
        <5>2. i - (at - 1) \in 1..n-at /\ at + (i - (at - 1)) = i + 1
          BY <2>1, <4>2
        <5> QED  BY <5>1, <5>2, <2>4, <4>2
      <4> QED  BY <4>1, <4>2
    <3> QED  BY <3>1, <3>3, <3>4
  <2> HIDE DEF front, back
  <2> HIDE DEF rest
  <2>6. Distinct(rest)
    <3> SUFFICES ASSUME NEW i \in 1..n-1, NEW j \in 1..n-1, rest[i] = rest[j]
                 PROVE  i = j
      BY <2>5 DEF Distinct
    <3>1. \A k, l \in 1..n : queue[k] = queue[l] => k = l
      BY DEF Distinct
    <3>2. PICK k \in 1..n : k = (IF i < at THEN i ELSE i + 1) /\ rest[i] = queue[k]
      BY <2>1, <2>5
    <3>3. PICK l \in 1..n : l = (IF j < at THEN j ELSE j + 1) /\ rest[j] = queue[l]
      BY <2>1, <2>5
    <3>4. k = l
      BY <3>1, <3>2, <3>3
    <3> QED  BY <3>2, <3>3, <3>4, <2>1
  <2>7. InQueue(rest) = InQueue(queue) \ {p}
    <3>1. ASSUME NEW i \in 1..n-1
          PROVE  rest[i] \in InQueue(queue) \ {p}
      <4>1. PICK k \in 1..n : k # at /\ rest[i] = queue[k]
        BY <2>1, <2>5
      <4>2. queue[k] # queue[at]
        BY <4>1, <2>1 DEF Distinct
      <4> QED  BY <4>1, <4>2, <2>1 DEF InQueue
    <3>2. ASSUME NEW k \in 1..n, queue[k] # p
          PROVE  \E i \in 1..n-1 : rest[i] = queue[k]
      <4>1. CASE k < at
        <5>1. k \in 1..n-1
          BY <2>1, <4>1
        <5> QED  BY <5>1, <4>1, <2>5
      <4>2. CASE ~(k < at)
        <5>1. k # at
          BY <2>1, <3>2
        <5>2. k - 1 \in 1..n-1 /\ ~(k - 1 < at) /\ (k - 1) + 1 = k
          BY <2>1, <4>2, <5>1
        <5> QED  BY <5>2, <2>5
      <4> QED  BY <4>1, <4>2
    <3>3. InQueue(rest) \subseteq InQueue(queue) \ {p}
      BY <3>1, <2>5 DEF InQueue
    <3>4. InQueue(queue) \ {p} \subseteq InQueue(rest)
      BY <3>2, <2>5 DEF InQueue
    <3> QED  BY <3>3, <3>4
  <2> QED  BY <2>2, <2>5, <2>6, <2>7
<1> QED  BY <1>1, <1>2

\* A join: the player is last, once.
LEMMA AppendedOne ==
  ASSUME NEW queue \in Seq(PlayerId), Distinct(queue), NEW p \in PlayerId,
         p \notin InQueue(queue)
  PROVE  /\ Append(queue, p) \in Seq(PlayerId)
         /\ Distinct(Append(queue, p))
         /\ InQueue(Append(queue, p)) = InQueue(queue) \union {p}
<1> DEFINE more == Append(queue, p)
<1>1. /\ more \in Seq(PlayerId) /\ Len(more) = Len(queue) + 1
      /\ \A i \in 1..Len(queue) : more[i] = queue[i]
      /\ more[Len(queue) + 1] = p
      /\ Len(queue) \in Nat
  OBVIOUS
<1> HIDE DEF more
<1>2. Distinct(more)
  BY <1>1 DEF Distinct, InQueue
<1>3. InQueue(more) = InQueue(queue) \union {p}
  BY <1>1 DEF InQueue
<1> QED  BY <1>1, <1>2, <1>3 DEF more

\* The timer: a later part of the queue.
LEMMA CutOff ==
  ASSUME NEW queue \in Seq(PlayerId), Distinct(queue)
  PROVE  LET paired == 2 * (Len(queue) \div 2)
             left == SubSeq(queue, paired + 1, Len(queue))
         IN  /\ left \in Seq(PlayerId) /\ Distinct(left)
             /\ InQueue(left) \subseteq InQueue(queue)
<1> DEFINE n == Len(queue)
           paired == 2 * (n \div 2)
           left == SubSeq(queue, paired + 1, n)
<1>1. n \in Nat /\ paired \in 0..n
  OBVIOUS
<1> HIDE DEF paired
<1>2. /\ left \in Seq(PlayerId) /\ Len(left) = n - paired
      /\ \A i \in 1..n-paired : left[i] = queue[paired + i]
  BY <1>1
<1> HIDE DEF left
<1>3. \A i \in 1..n-paired : paired + i \in 1..n
  BY <1>1
<1>4. Distinct(left)
  BY <1>1, <1>2, <1>3 DEF Distinct
<1>5. InQueue(left) \subseteq InQueue(queue)
  BY <1>1, <1>2, <1>3 DEF InQueue
<1> QED  BY <1>2, <1>4, <1>5 DEF paired, left

----------------------------------------------------------------------------
(* The inductive invariant.  The directory is right after the shutdown too; *)
(* a session without a name, unless it is open, has no read outstanding: a  *)
(* first frame only ever reaches an open session.                           *)

Registered == {p \in PlayerId : clients[p] # NoConn}

Story ==
  \A p \in PlayerId, c \in Conn :
    clients[p] = c <=> phase[c] = "open" /\ player_id[c] = p

Nameless ==
  \A c \in Conn :
    /\ phase[c] \in {"unused", "handshake"} => player_id[c] = NoPlayer
    /\ player_id[c] = NoPlayer /\ phase[c] # "open" => read[c] = NotReading

Books ==
  /\ TypeOK /\ Story /\ MembersAgree /\ CountAgrees /\ QueueHonest
  /\ IsFiniteSet(Registered)

\* The queue lists players, each once.
LEMMA QueueWords == QueueHonest <=> InQueue(waiting) \subseteq players /\ Distinct(waiting)
BY DEF QueueHonest, InQueue, Distinct

\* A completed read carries a frame and is no other read.
LEMMA ArrivedRead ==
  ASSUME NEW r \in Read, r.state = "arrived"
  PROVE  r.frame \in Frame /\ r \notin {Waiting, Failed, NotReading}
<1>1. r \notin {Waiting, Failed, NotReading}
  BY DEF Waiting, Failed, NotReading
<1>2. PICK f \in Frame : r = Arrived(f)
  BY <1>1 DEF Read
<1> QED  BY <1>1, <1>2 DEF Arrived

\* The reads that handlers leave behind.
LEMMA ReadTypes ==
  /\ {Waiting, Failed, NotReading} \subseteq Read
  /\ \A r \in Read : Aborted(r) \in Read
  /\ \A c \in Conn : ReadAgain(c) \in Read
  /\ \A f \in Frame : Arrived(f) \in Read
BY DEF Read, Aborted, ReadAgain

\* The last number heard is one that was sent.
LEMMA HeardType ==
  ASSUME NEW old \in [PlayerId -> 0..MaxSequence], NEW members,
         NEW p \in PlayerId, NEW n \in 0..MaxSequence
  PROVE  Heard(old, members, p, n) \in [PlayerId -> 0..MaxSequence]
BY DEF Heard

\* Nobody is online at the start.
LEMMA BooksInit == Init => Books /\ Nameless
<1> SUFFICES ASSUME Init PROVE Books /\ Nameless
  OBVIOUS
<1>1. TypeOK
  BY ConstantsAssumption, ReadTypes DEF Init, TypeOK
<1>2. Registered = {}
  BY DEF Init, Registered
<1>3. Story /\ MembersAgree /\ QueueHonest /\ Nameless
  BY ConstantsAssumption DEF Init, Story, MembersAgree, QueueHonest, Nameless
<1>4. IsFiniteSet(Registered) /\ CountAgrees
  BY <1>2, FS_EmptySet DEF Init, CountAgrees, Registered
<1> QED  BY <1>1, <1>3, <1>4 DEF Books

\* A session that stops while it holds its player: everything forgets him.
LEMMA HolderStops ==
  ASSUME Books, running, NEW c \in Conn, NEW p \in PlayerId,
         phase[c] = "open", player_id[c] = p,
         phase' = [phase EXCEPT ![c] = "closed"], UnregisterClient(p),
         UNCHANGED <<player_id, running>>, read' \in [Conn -> Read]
  PROVE  /\ Books'
         /\ clients[p] = c /\ clients' = [clients EXCEPT ![p] = NoConn]
         /\ players' = players \ {p}
<1> USE DEF Books
<1>1. clients[p] = c /\ c # NoConn /\ p \in Registered /\ p \in players
  BY ConstantsAssumption DEF Story, Registered, MembersAgree
<1>2. /\ clients' = [clients EXCEPT ![p] = NoConn]
      /\ players' = players \ {p}
      /\ waiting' = Without(waiting, p)
      /\ recorded' = [recorded EXCEPT ![p] = "end"]
      /\ last_sequence' = [last_sequence EXCEPT ![p] = 0]
  BY DEF UnregisterClient
<1>3. Registered' = Registered \ {p}
  BY <1>2 DEF Registered, TypeOK
<1>4. /\ IsFiniteSet(Registered')
      /\ Cardinality(Registered') = Cardinality(Registered) - 1
      /\ Cardinality(Registered) \in Nat
      /\ Cardinality(Registered') \in Nat
  BY <1>1, <1>3, FS_RemoveElement, FS_CardinalityType
<1>5. connection_count = Cardinality(Registered)
  BY DEF CountAgrees, Registered
<1>6. connection_count' = Cardinality(Registered') /\ connection_count' \in Nat
  BY <1>1, <1>4, <1>5 DEF UnregisterClient
<1>7. CountAgrees'
  BY <1>6 DEF CountAgrees, Registered
<1>8. /\ waiting' \in Seq(PlayerId)
      /\ Distinct(waiting')
      /\ InQueue(waiting') = InQueue(waiting) \ {p}
  BY <1>2, WithoutOne, QueueWords DEF TypeOK
<1>9. QueueHonest'
  BY <1>2, <1>8, QueueWords DEF QueueHonest, InQueue, Distinct
<1>10. TypeOK'
  <2>1. /\ phase' \in [Conn -> {"unused", "handshake", "open", "closed"}]
        /\ player_id' \in [Conn -> PlayerId \union {NoPlayer}]
        /\ running' \in BOOLEAN
    BY DEF TypeOK
  <2>2. /\ clients' \in [PlayerId -> Conn \union {NoConn}]
        /\ recorded' \in [PlayerId -> {"none", "start", "end"}]
        /\ players' \subseteq PlayerId
    BY <1>2 DEF TypeOK
  <2>3. last_sequence' \in [PlayerId -> 0..MaxSequence]
    BY <1>2, ConstantsAssumption DEF TypeOK
  <2> QED  BY <1>6, <1>8, <2>1, <2>2, <2>3 DEF TypeOK
<1>11. Story'
  BY <1>1, <1>2, ConstantsAssumption DEF Story, TypeOK
<1>12. MembersAgree'
  BY <1>1, <1>2, ConstantsAssumption DEF MembersAgree, TypeOK
<1> QED  BY <1>1, <1>2, <1>4, <1>7, <1>9, <1>10, <1>11, <1>12

\* A first frame: the connection takes its player over.
LEMMA Takeover ==
  ASSUME Books, Nameless, NEW c \in Conn, FirstFrame(c)
  PROVE  LET p == read[c].frame.player
         IN  /\ Books'
             /\ p \in PlayerId /\ phase[c] = "open"
             /\ \A q \in PlayerId : clients[q] # c
             /\ clients' = [clients EXCEPT ![p] = c]
             /\ players' = players \union {p}
             /\ \A d \in Conn : phase'[d] =
                  IF d = clients[p] THEN "closed" ELSE phase[d]
             /\ player_id' = [player_id EXCEPT ![c] = p]
<1> USE DEF Books
<1> DEFINE p == read[c].frame.player
<1>1. read[c].state = "arrived" /\ player_id[c] = NoPlayer
  BY DEF FirstFrame
<1>2. read[c].frame \in Frame /\ read[c] # NotReading
  BY <1>1, ArrivedRead DEF TypeOK
<1>3. p \in PlayerId /\ read[c].frame.sequence \in 0..MaxSequence
  BY <1>2 DEF Frame
<1>4. phase[c] = "open"
  BY <1>1, <1>2 DEF Nameless
<1>5. \A q \in PlayerId : clients[q] # c
  BY <1>1, ConstantsAssumption DEF Story
<1>6. /\ player_id' = [player_id EXCEPT ![c] = p]
      /\ phase' = [d \in Conn |->
                     IF d \in Previous(p) THEN "closed" ELSE phase[d]]
      /\ clients' = [clients EXCEPT ![p] = c]
      /\ connection_count' = connection_count - Cardinality(Previous(p)) + 1
      /\ players' = players \union {p}
      /\ waiting' = Append(Without(waiting, p), p)
      /\ recorded' = [recorded EXCEPT ![p] = "start"]
      /\ running /\ running' = running
  BY DEF FirstFrame
<1>7. /\ read' = [d \in Conn |->
                    IF d = c THEN ReadAgain(c)
                    ELSE IF d \in Previous(p) THEN Aborted(read[d])
                    ELSE read[d]]
      /\ last_sequence' =
           Heard(IF Previous(p) = {} THEN last_sequence
                 ELSE [last_sequence EXCEPT ![p] = 0],
                 players \union {p}, p, read[c].frame.sequence)
  BY DEF FirstFrame
<1> HIDE DEF p
<1>8. \A d \in Conn : d \in Previous(p) <=> d = clients[p]
  BY ConstantsAssumption DEF Previous
<1>9. \A d \in Conn : phase'[d] = IF d = clients[p] THEN "closed" ELSE phase[d]
  BY <1>6, <1>8
<1>10. /\ waiting' \in Seq(PlayerId)
       /\ Distinct(waiting')
       /\ InQueue(waiting') = InQueue(waiting) \union {p}
  <2> DEFINE others == Without(waiting, p)
  <2>1. /\ others \in Seq(PlayerId) /\ Distinct(others)
        /\ InQueue(others) = InQueue(waiting) \ {p}
    BY WithoutOne, QueueWords DEF TypeOK
  <2> HIDE DEF others
  <2>2. /\ Append(others, p) \in Seq(PlayerId)
        /\ Distinct(Append(others, p))
        /\ InQueue(Append(others, p)) = InQueue(others) \union {p}
    BY <1>3, <2>1, AppendedOne
  <2>3. waiting' = Append(others, p)
    BY <1>6 DEF others
  <2> QED  BY <2>1, <2>2, <2>3
<1>11. QueueHonest'
  <2>1. InQueue(waiting') \subseteq players' /\ Distinct(waiting')
    BY <1>6, <1>10, QueueWords
  <2> QED  BY <2>1 DEF QueueHonest, InQueue, Distinct
<1>12. /\ IsFiniteSet(Registered')
       /\ connection_count' = Cardinality(Registered')
       /\ connection_count' \in Nat
  <2>1. Registered' = Registered \union {p}
    BY <1>3, <1>6, ConstantsAssumption DEF Registered, TypeOK
  <2>2. /\ IsFiniteSet(Registered')
        /\ Cardinality(Registered') = IF p \in Registered THEN Cardinality(Registered)
                                      ELSE Cardinality(Registered) + 1
        /\ Cardinality(Registered) \in Nat
        /\ Cardinality(Registered') \in Nat
    BY <2>1, FS_AddElement, FS_CardinalityType
  <2>3. connection_count = Cardinality(Registered)
    BY <1>6 DEF CountAgrees, Registered
  <2>4. Cardinality(Previous(p)) = IF p \in Registered THEN 1 ELSE 0
    <3>1. CASE p \in Registered
      <4>1. Previous(p) = {clients[p]}
        BY <3>1 DEF Previous, Registered
      <4> QED  BY <3>1, <4>1, FS_Singleton
    <3>2. CASE p \notin Registered
      <4>1. Previous(p) = {}
        BY <1>3, <3>2 DEF Previous, Registered
      <4> QED  BY <3>2, <4>1, FS_EmptySet
    <3> QED  BY <3>1, <3>2
  <2> HIDE DEF Registered
  <2> QED  BY <1>6, <2>2, <2>3, <2>4
<1>13. CountAgrees'
  BY <1>12 DEF CountAgrees, Registered
<1>14. TypeOK'
  <2>1. /\ phase' \in [Conn -> {"unused", "handshake", "open", "closed"}]
        /\ player_id' \in [Conn -> PlayerId \union {NoPlayer}]
        /\ running' \in BOOLEAN
    BY <1>3, <1>6 DEF TypeOK
  <2>2. /\ clients' \in [PlayerId -> Conn \union {NoConn}]
        /\ recorded' \in [PlayerId -> {"none", "start", "end"}]
        /\ players' \subseteq PlayerId
    BY <1>3, <1>6 DEF TypeOK
  <2>3. last_sequence' \in [PlayerId -> 0..MaxSequence]
    <3>1. [last_sequence EXCEPT ![p] = 0] \in [PlayerId -> 0..MaxSequence]
      <4>1. 0 \in 0..MaxSequence
        BY ConstantsAssumption
      <4>2. last_sequence \in [PlayerId -> 0..MaxSequence]
        BY DEF TypeOK
      <4> HIDE DEF Books
      <4> QED  BY <4>1, <4>2
    <3> QED  BY <1>3, <1>7, <3>1, HeardType DEF TypeOK
  <2>4. read' \in [Conn -> Read]
    BY <1>7, ReadTypes DEF TypeOK
  <2> QED  BY <1>10, <1>12, <2>1, <2>2, <2>3, <2>4 DEF TypeOK
<1>15. Story'
  <2> SUFFICES ASSUME NEW q \in PlayerId, NEW d \in Conn
               PROVE  clients'[q] = d <=> phase'[d] = "open" /\ player_id'[d] = q
    BY DEF Story
  <2>1. clients[q] = d <=> phase[d] = "open" /\ player_id[d] = q
    BY DEF Story
  <2>2. clients'[q] = IF q = p THEN c ELSE clients[q]
    BY <1>6 DEF TypeOK
  <2>3. player_id'[d] = IF d = c THEN p ELSE player_id[d]
    BY <1>6 DEF TypeOK
  <2>4. CASE d = c
    BY <1>4, <1>5, <1>3, <1>9, <2>2, <2>3, <2>4
  <2>5. CASE d # c
    <3>1. d = clients[p] => player_id[d] = p
      BY <1>3 DEF Story
    <3> QED  BY <1>9, <2>1, <2>2, <2>3, <2>5, <3>1
  <2> QED  BY <2>4, <2>5
<1>16. MembersAgree'
  BY <1>3, <1>6, ConstantsAssumption DEF MembersAgree, TypeOK
<1> QED
  BY <1>3, <1>4, <1>5, <1>6, <1>9, <1>11, <1>12, <1>13, <1>14, <1>15, <1>16 DEF p

\* The shutdown: whoever is registered is stopped, and nobody is left.
LEMMA ShutdownEmpties ==
  ASSUME Books, Shutdown
  PROVE  /\ Books'
         /\ clients' = [p \in PlayerId |-> NoConn]
         /\ players' = {}
         /\ \A c \in Conn : phase'[c] =
              IF \E p \in PlayerId : clients[p] = c THEN "closed" ELSE phase[c]
         /\ player_id' = player_id
<1> USE DEF Books
<1> DEFINE registered == {clients[p] : p \in PlayerId} \ {NoConn}
           gone == {player_id[c] : c \in registered}
<1>1. /\ clients' = [p \in PlayerId |-> NoConn]
      /\ phase' = [c \in Conn |->
                     IF c \in registered THEN "closed" ELSE phase[c]]
      /\ read' = [c \in Conn |->
                    IF c \in registered THEN Aborted(read[c]) ELSE read[c]]
      /\ players' = players \ gone
      /\ last_sequence' = [p \in PlayerId |->
                             IF p \in gone THEN 0 ELSE last_sequence[p]]
      /\ waiting' = WithoutAll(waiting, gone)
      /\ recorded' = [p \in PlayerId |->
                        IF p \in gone THEN "end" ELSE recorded[p]]
      /\ player_id' = player_id /\ connection_count' = connection_count
      /\ running' = FALSE
  BY DEF Shutdown
<1>2. \A c \in Conn : c \in registered <=> \E p \in PlayerId : clients[p] = c
  BY ConstantsAssumption
<1>3. players \subseteq gone
  <2> SUFFICES ASSUME NEW p \in players PROVE p \in gone
    OBVIOUS
  <2>1. p \in PlayerId /\ clients[p] # NoConn
    BY DEF MembersAgree, TypeOK
  <2>2. clients[p] \in Conn
    BY <2>1 DEF TypeOK
  <2>3. clients[p] \in registered /\ player_id[clients[p]] = p
    BY <2>1, <2>2 DEF Story
  <2> QED  BY <2>3
<1> HIDE DEF gone, registered
<1>4. players' = {} /\ waiting' = <<>>
  BY <1>1, <1>3, QueueWords DEF WithoutAll
<1>5. Registered' = {}
  BY <1>1 DEF Registered
<1>6. TypeOK'
  <2>1. /\ phase' \in [Conn -> {"unused", "handshake", "open", "closed"}]
        /\ player_id' \in [Conn -> PlayerId \union {NoPlayer}]
        /\ connection_count' \in Nat
        /\ running' \in BOOLEAN
    BY <1>1 DEF TypeOK
  <2>2. /\ clients' \in [PlayerId -> Conn \union {NoConn}]
        /\ recorded' \in [PlayerId -> {"none", "start", "end"}]
        /\ players' \subseteq PlayerId
        /\ waiting' \in Seq(PlayerId)
    BY <1>1, <1>4 DEF TypeOK
  <2>3. last_sequence' \in [PlayerId -> 0..MaxSequence]
    <3>1. 0 \in 0..MaxSequence
      BY ConstantsAssumption
    <3>2. \A p \in PlayerId : last_sequence[p] \in 0..MaxSequence
      BY DEF TypeOK
    <3> HIDE DEF Books
    <3> QED  BY <1>1, <3>1, <3>2
  <2>4. read' \in [Conn -> Read]
    BY <1>1, ReadTypes DEF TypeOK
  <2> QED  BY <2>1, <2>2, <2>3, <2>4 DEF TypeOK
<1>7. Story'
  <2> SUFFICES ASSUME NEW p \in PlayerId, NEW c \in Conn
               PROVE  clients'[p] = c <=> phase'[c] = "open" /\ player_id'[c] = p
    BY DEF Story
  <2>1. clients'[p] # c
    BY <1>1, ConstantsAssumption
  <2>2. phase[c] = "open" /\ player_id[c] = p => clients[p] = c
    BY DEF Story
  <2>3. phase'[c] = IF c \in registered THEN "closed" ELSE phase[c]
    BY <1>1
  <2> QED  BY <1>1, <1>2, <2>1, <2>2, <2>3
<1>8. MembersAgree'
  <2> SUFFICES ASSUME NEW p \in PlayerId
               PROVE  /\ clients'[p] # NoConn <=> p \in players'
                      /\ recorded'[p] = "start" <=> p \in players'
    BY DEF MembersAgree
  <2>1. recorded[p] = "start" => p \in gone
    BY <1>3 DEF MembersAgree
  <2>2. recorded'[p] = IF p \in gone THEN "end" ELSE recorded[p]
    BY <1>1
  <2>3. recorded'[p] # "start"
    BY <2>1, <2>2
  <2> QED  BY <1>1, <1>4, <2>3
<1>9. CountAgrees' /\ QueueHonest'
  BY <1>1, <1>4 DEF CountAgrees, QueueHonest
<1>10. IsFiniteSet(Registered')
  BY <1>5, FS_EmptySet
<1> QED  BY <1>1, <1>2, <1>4, <1>6, <1>7, <1>8, <1>9, <1>10

\* The timer takes the oldest players off the queue.
LEMMA TimerKeeps ==
  ASSUME Books, MatchmakingTimer
  PROVE  /\ Books'
         /\ UNCHANGED <<phase, player_id, read, clients, players>>
<1> USE DEF Books
<1>1. UNCHANGED <<phase, player_id, read, clients, connection_count, players,
                  last_sequence, recorded, running>>
  BY DEF MatchmakingTimer
<1>2. /\ waiting' \in Seq(PlayerId) /\ Distinct(waiting')
      /\ InQueue(waiting') \subseteq InQueue(waiting)
  BY CutOff, QueueWords DEF MatchmakingTimer, TypeOK
<1>3. QueueHonest'
  BY <1>1, <1>2, QueueWords DEF QueueHonest, InQueue, Distinct
<1>4. TypeOK'
  BY <1>1, <1>2 DEF TypeOK
<1>5. Story' /\ MembersAgree' /\ CountAgrees' /\ IsFiniteSet(Registered')
  BY <1>1 DEF Story, MembersAgree, CountAgrees, Registered
<1> QED  BY <1>1, <1>3, <1>4, <1>5

\* Steps that leave the books alone: reads come and go, inputs are heard,
\* sessions without a name open and close.
LEMMA Elsewhere ==
  ASSUME Books,
         UNCHANGED <<player_id, clients, connection_count, players, waiting,
                     recorded, running>>,
         phase' \in [Conn -> {"unused", "handshake", "open", "closed"}],
         read' \in [Conn -> Read],
         last_sequence' \in [PlayerId -> 0..MaxSequence],
         \A c \in Conn : player_id[c] # NoPlayer => phase'[c] = phase[c]
  PROVE  Books'
<1> USE DEF Books
<1>1. TypeOK'
  BY DEF TypeOK
<1>2. Story'
  BY ConstantsAssumption DEF Story
<1>3. MembersAgree' /\ CountAgrees' /\ QueueHonest' /\ IsFiniteSet(Registered')
  BY DEF MembersAgree, CountAgrees, QueueHonest, Registered
<1> QED  BY <1>1, <1>2, <1>3

\* Every step keeps the books.
LEMMA BooksNext ==
  ASSUME Books, Nameless, [Next]_vars
  PROVE  Books' /\ Nameless'
<1>0. TypeOK
  BY DEF Books
<1>1. ASSUME NEW c \in Conn, NEW f \in Frame, FrameArrives(c, f)
      PROVE  Books' /\ Nameless'
  <2>1. read' \in [Conn -> Read]
    BY <1>0, <1>1, ReadTypes DEF FrameArrives, TypeOK
  <2>2. Books'
    BY <1>0, <1>1, <2>1, Elsewhere DEF FrameArrives, TypeOK
  <2>3. Nameless'
    BY <1>0, <1>1 DEF FrameArrives, Nameless, TypeOK
  <2> QED  BY <2>2, <2>3
<1>2. ASSUME NEW c \in Conn, PeerGone(c)
      PROVE  Books' /\ Nameless'
  <2>1. read' \in [Conn -> Read]
    BY <1>0, <1>2, ReadTypes DEF PeerGone, TypeOK
  <2>2. Books'
    BY <1>0, <1>2, <2>1, Elsewhere DEF PeerGone, TypeOK
  <2>3. Nameless'
    BY <1>0, <1>2 DEF PeerGone, Nameless, TypeOK
  <2> QED  BY <2>2, <2>3
<1>3. ASSUME NEW c \in Conn, Accept(c)
      PROVE  Books' /\ Nameless'
  <2>1. /\ player_id[c] = NoPlayer
        /\ phase' \in [Conn -> {"unused", "handshake", "open", "closed"}]
    BY <1>0, <1>3 DEF Accept, Nameless, TypeOK
  <2>2. Books'
    BY <1>0, <1>3, <2>1, Elsewhere DEF Accept, TypeOK
  <2>3. Nameless'
    BY <1>0, <1>3 DEF Accept, Nameless, TypeOK
  <2> QED  BY <2>2, <2>3
<1>4. ASSUME NEW c \in Conn, Handshake(c)
      PROVE  Books' /\ Nameless'
  <2>1. /\ player_id[c] = NoPlayer
        /\ phase' \in [Conn -> {"unused", "handshake", "open", "closed"}]
    BY <1>0, <1>4 DEF Handshake, Nameless, TypeOK
  <2>2. read' \in [Conn -> Read]
    BY <1>0, <1>4, ReadTypes DEF Handshake, TypeOK
  <2>3. \A d \in Conn : d # c => phase'[d] = phase[d] /\ read'[d] = read[d]
    BY <1>0, <1>4 DEF Handshake, TypeOK
  <2>4. Books'
    BY <1>0, <1>4, <2>1, <2>2, <2>3, Elsewhere DEF Handshake, TypeOK
  <2>5. \/ phase'[c] = "open"
        \/ phase'[c] = "closed" /\ read'[c] = NotReading
    BY <1>0, <1>4, <2>1 DEF Handshake, Nameless, TypeOK
  <2>6. player_id' = player_id
    BY <1>4 DEF Handshake
  <2>7. Nameless'
    BY <2>3, <2>5, <2>6 DEF Nameless
  <2> QED  BY <2>4, <2>7
<1>5. ASSUME NEW c \in Conn, ReadFails(c)
      PROVE  Books' /\ Nameless'
  <2>1. /\ running /\ running' = running /\ player_id' = player_id
        /\ read[c] = Failed /\ Stop(c)
        /\ read' = [read EXCEPT ![c] = NotReading]
    BY <1>5 DEF ReadFails
  <2>2. Failed # NotReading
    BY DEF Failed, NotReading
  <2>3. phase[c] \in {"open", "closed"}
    BY <1>0, <2>1, <2>2 DEF Nameless, TypeOK
  <2>4. read' \in [Conn -> Read]
    BY <1>0, <2>1, ReadTypes DEF TypeOK
  <2>5. phase' = [phase EXCEPT ![c] = "closed"]
    BY <1>0, <2>1, <2>3 DEF Stop, TypeOK
  <2>6. Nameless'
    BY <1>0, <2>1, <2>5 DEF Nameless, TypeOK
  <2>7. CASE phase[c] = "open" /\ player_id[c] # NoPlayer
    <3>1. UnregisterClient(player_id[c]) /\ player_id[c] \in PlayerId
      BY <1>0, <2>1, <2>7 DEF Stop, TypeOK
    <3> QED  BY <2>1, <2>4, <2>5, <2>6, <2>7, <3>1, HolderStops
  <2>8. CASE ~(phase[c] = "open" /\ player_id[c] # NoPlayer)
    <3>1. /\ UNCHANGED <<clients, connection_count, players, last_sequence,
                         waiting, recorded>>
          /\ \A d \in Conn : player_id[d] # NoPlayer => phase'[d] = phase[d]
      BY <1>0, <2>1, <2>3, <2>5, <2>8 DEF Stop, TypeOK
    <3>2. /\ phase' \in [Conn -> {"unused", "handshake", "open", "closed"}]
          /\ last_sequence' \in [PlayerId -> 0..MaxSequence]
      BY <1>0, <2>5, <3>1 DEF TypeOK
    <3> QED  BY <2>1, <2>4, <2>6, <3>1, <3>2, Elsewhere
  <2> QED  BY <2>7, <2>8
<1>6. ASSUME NEW c \in Conn, WriteFails(c)
      PROVE  Books' /\ Nameless'
  <2>1. /\ running /\ running' = running /\ player_id' = player_id
        /\ phase[c] = "open" /\ player_id[c] # NoPlayer /\ Stop(c)
        /\ read' = [read EXCEPT ![c] = Aborted(@)]
    BY <1>6 DEF WriteFails
  <2>2. /\ phase' = [phase EXCEPT ![c] = "closed"]
        /\ UnregisterClient(player_id[c]) /\ player_id[c] \in PlayerId
    BY <1>0, <2>1 DEF Stop, TypeOK
  <2>3. read' \in [Conn -> Read]
    BY <1>0, <2>1, ReadTypes DEF TypeOK
  <2>4. Nameless'
    BY <1>0, <2>1, <2>2 DEF Nameless, TypeOK
  <2> QED  BY <2>1, <2>2, <2>3, <2>4, HolderStops
<1>7. ASSUME NEW c \in Conn, FirstFrame(c)
      PROVE  Books' /\ Nameless'
  <2> DEFINE p == read[c].frame.player
  <2>1. /\ Books' /\ p \in PlayerId /\ phase[c] = "open"
        /\ \A q \in PlayerId : clients[q] # c
        /\ \A d \in Conn : phase'[d] =
             IF d = clients[p] THEN "closed" ELSE phase[d]
        /\ player_id' = [player_id EXCEPT ![c] = p]
    BY <1>7, Takeover
  <2>2. read' = [d \in Conn |->
                   IF d = c THEN ReadAgain(c)
                   ELSE IF d \in Previous(p) THEN Aborted(read[d])
                   ELSE read[d]]
    BY <1>7 DEF FirstFrame
  <2> HIDE DEF p
  <2>3. \A d \in Conn : d = clients[p] =>
          player_id[d] = p /\ phase[d] = "open"
    BY <2>1 DEF Books, Story
  <2>4. ASSUME NEW d \in Conn
        PROVE  /\ phase'[d] \in {"unused", "handshake"} => player_id'[d] = NoPlayer
               /\ player_id'[d] = NoPlayer /\ phase'[d] # "open" => read'[d] = NotReading
    <3>1. CASE d = c
      <4>1. phase'[d] = "open" /\ player_id'[d] = p
        BY <1>0, <2>1, <3>1 DEF TypeOK
      <4> QED  BY <2>1, <4>1, ConstantsAssumption
    <3>2. CASE d # c /\ d = clients[p]
      <4>1. phase'[d] = "closed" /\ player_id'[d] = p
        BY <1>0, <2>1, <2>3, <3>2 DEF TypeOK
      <4> QED  BY <2>1, <4>1, ConstantsAssumption
    <3>3. CASE d # c /\ d # clients[p]
      <4>1. phase'[d] = phase[d] /\ player_id'[d] = player_id[d]
        BY <1>0, <2>1, <3>3 DEF TypeOK
      <4>2. read'[d] = read[d]
        BY <2>2, <3>3 DEF Previous
      <4> QED  BY <4>1, <4>2 DEF Nameless
    <3> QED  BY <3>1, <3>2, <3>3
  <2> QED  BY <2>1, <2>4 DEF Nameless
<1>8. ASSUME NEW c \in Conn, LaterFrame(c)
      PROVE  Books' /\ Nameless'
  <2>1. /\ read[c].state = "arrived" /\ player_id[c] # NoPlayer
        /\ UNCHANGED <<phase, player_id, clients, connection_count, players,
                       waiting, recorded, running>>
        /\ last_sequence' =
             Heard(last_sequence, players, player_id[c], read[c].frame.sequence)
        /\ read' = [read EXCEPT ![c] = ReadAgain(c)]
    BY <1>8 DEF LaterFrame
  <2>2. read[c].frame.sequence \in 0..MaxSequence /\ player_id[c] \in PlayerId
    BY <1>0, <2>1, ArrivedRead DEF TypeOK, Frame
  <2>3. last_sequence' \in [PlayerId -> 0..MaxSequence]
    BY <1>0, <2>1, <2>2, HeardType DEF TypeOK
  <2>4. read' \in [Conn -> Read]
    BY <1>0, <2>1, ReadTypes DEF TypeOK
  <2>5. Books'
    BY <1>0, <2>1, <2>3, <2>4, Elsewhere DEF TypeOK
  <2>6. Nameless'
    BY <1>0, <2>1 DEF Nameless, TypeOK
  <2> QED  BY <2>5, <2>6
<1>9. CASE MatchmakingTimer
  BY <1>9, TimerKeeps DEF Nameless
<1>10. CASE Shutdown
  <2>1. /\ Books' /\ player_id' = player_id
        /\ \A c \in Conn : phase'[c] =
             IF \E p \in PlayerId : clients[p] = c THEN "closed" ELSE phase[c]
    BY <1>10, ShutdownEmpties
  <2>2. ASSUME NEW c \in Conn, player_id[c] = NoPlayer
        PROVE  phase'[c] = phase[c] /\ read'[c] = read[c]
    <3>1. \A p \in PlayerId : clients[p] # c
      BY <2>2, ConstantsAssumption DEF Books, Story
    <3> QED  BY <1>10, <2>1, <3>1 DEF Shutdown
  <2>3. ASSUME NEW c \in Conn, phase'[c] \in {"unused", "handshake"}
        PROVE  player_id[c] = NoPlayer
    BY <2>1, <2>3 DEF Nameless
  <2> QED  BY <2>1, <2>2, <2>3 DEF Nameless
<1>11. CASE UNCHANGED vars
  <2>1. Books'
    BY <1>0, <1>11, Elsewhere DEF vars, TypeOK
  <2> QED  BY <1>11, <2>1 DEF vars, Nameless
<1> QED
  BY <1>1, <1>2, <1>3, <1>4, <1>5, <1>6, <1>7, <1>8, <1>9, <1>10, <1>11
  DEF Next, Handler

\* The books are right in every reachable state.
LEMMA BooksInvariant == Spec => [](Books /\ Nameless)
<1>1. (Books /\ Nameless) /\ [Next]_vars => (Books /\ Nameless)'
  BY BooksNext
<1> QED  BY <1>1, BooksInit, PTL DEF Spec

\* Everything that knows who is online agrees, between any two handlers.
THEOREM RegistryAlwaysAgrees == Spec => []RegistryAgrees
<1>1. Books => RegistryAgrees
  BY DEF Books, RegistryAgrees, Directory, Story
<1> QED  BY <1>1, BooksInvariant, PTL

----------------------------------------------------------------------------
(* The refinement. *)

Spent == {c \in Conn : phase[c] = "closed" /\ player_id[c] # NoPlayer}

\* The session open under the name of a player is the one in the directory.
LEMMA HolderMap ==
  ASSUME Books
  PROVE  [p \in PlayerId |-> Holder(p)] = clients
<1>1. ASSUME NEW p \in PlayerId PROVE Holder(p) = clients[p]
  <2>1. \A c \in Conn : phase[c] = "open" /\ player_id[c] = p <=> c = clients[p]
    BY DEF Books, Story
  <2>2. clients[p] \in Conn \union {NoConn}
    BY DEF Books, TypeOK
  <2>3. CASE clients[p] \in Conn
    BY <2>1, <2>3, Zenon DEF Holder
  <2>4. CASE clients[p] \notin Conn
    BY <2>1, <2>2, <2>4 DEF Holder
  <2> QED  BY <2>3, <2>4
<1> QED  BY <1>1 DEF Books, TypeOK

\* The same after a step.
LEMMA HolderMapNext ==
  ASSUME Books'
  PROVE  [p \in PlayerId |-> Holder(p)'] = clients'
<1>1. ASSUME NEW p \in PlayerId PROVE Holder(p)' = clients'[p]
  <2>1. \A c \in Conn : phase'[c] = "open" /\ player_id'[c] = p <=> c = clients'[p]
    BY DEF Books, Story
  <2>2. clients'[p] \in Conn \union {NoConn}
    BY DEF Books, TypeOK
  <2>3. CASE clients'[p] \in Conn
    BY <2>1, <2>3, Zenon DEF Holder
  <2>4. CASE clients'[p] \notin Conn
    BY <2>1, <2>2, <2>4 DEF Holder
  <2> QED  BY <2>3, <2>4
<1> QED  BY <1>1 DEF Books, TypeOK

\* Steps of Presence, said with the directory in the place of the sessions.
LEMMA Mapped ==
  ASSUME Books, Books'
  PROVE  /\ \A c \in Conn, p \in PlayerId :
              /\ c \notin Spent /\ \A q \in PlayerId : clients[q] # c
              /\ clients' = [clients EXCEPT ![p] = c]
              /\ Spent' = Spent \union ({clients[p]} \ {NoConn})
              /\ players' = players \union {p}
              => Abstract!Login(c, p)
         /\ \A p \in PlayerId :
              /\ clients[p] # NoConn
              /\ clients' = [clients EXCEPT ![p] = NoConn]
              /\ Spent' = Spent \union {clients[p]}
              /\ players' = players \ {p}
              => Abstract!Logout(p)
         /\ /\ clients' = [p \in PlayerId |-> NoConn]
            /\ Spent' = Spent \union ({clients[p] : p \in PlayerId} \ {NoConn})
            /\ players' = {}
            => Abstract!Shutdown
         /\ UNCHANGED <<clients, Spent, players>> => UNCHANGED Abstract!vars
<1>1. [p \in PlayerId |-> Holder(p)] = clients
  BY HolderMap
<1>2. [p \in PlayerId |-> Holder(p)'] = clients'
  BY HolderMapNext
<1>3. \A p \in PlayerId : Holder(p) = clients[p]
  BY <1>1
<1> QED
  BY <1>1, <1>2, <1>3
  DEF Abstract!Login, Abstract!Logout, Abstract!Shutdown, Abstract!Holds,
      Abstract!vars, Spent

\* A session that ends hands its player back, if it still holds one.
LEMMA StopPresence ==
  ASSUME Books, Books', running, NEW c \in Conn, Stop(c),
         phase[c] \in {"open", "closed"},
         UNCHANGED <<player_id, running>>, read' \in [Conn -> Read]
  PROVE  [Abstract!Next]_(Abstract!vars)
<1>0. TypeOK
  BY DEF Books
<1>1. CASE phase[c] = "open" /\ player_id[c] # NoPlayer
  <2>0. PICK p \in PlayerId : p = player_id[c]
    BY <1>0, <1>1 DEF TypeOK
  <2>1. UnregisterClient(p) /\ phase' = [phase EXCEPT ![c] = "closed"]
    BY <1>1, <2>0 DEF Stop, UnregisterClient
  <2>2. /\ clients[p] = c /\ clients' = [clients EXCEPT ![p] = NoConn]
        /\ players' = players \ {p}
    BY <1>1, <2>0, <2>1, HolderStops
  <2>3. Spent' = Spent \union {c}
    BY <1>0, <1>1, <2>1 DEF Spent, TypeOK
  <2>4. Abstract!Logout(p)
    BY <2>1, <2>2, <2>3, Mapped, ConstantsAssumption
  <2> QED  BY <2>4 DEF Abstract!Next
<1>2. CASE ~(phase[c] = "open" /\ player_id[c] # NoPlayer)
  <2>1. UNCHANGED <<clients, players>>
    BY <1>2 DEF Stop
  <2>2. Spent' = Spent
    BY <1>0, <1>2 DEF Stop, Spent, TypeOK
  <2> QED  BY <2>1, <2>2, Mapped
<1> QED  BY <1>1, <1>2

\* Every step is one of Presence's or leaves it alone.
LEMMA PresenceNext ==
  ASSUME Books, Nameless, [Next]_vars
  PROVE  [Abstract!Next]_(Abstract!vars)
<1>0. TypeOK /\ Books'
  BY BooksNext DEF Books
<1>1. ASSUME UNCHANGED <<clients, players, player_id>>,
             \A c \in Conn : phase'[c] = "closed" /\ player_id[c] # NoPlayer
                               <=> c \in Spent
      PROVE  [Abstract!Next]_(Abstract!vars)
  <2>1. Spent' = Spent
    BY <1>1 DEF Spent
  <2> QED  BY <1>0, <1>1, <2>1, Mapped
<1>2. ASSUME NEW c \in Conn, Accept(c) \/ Handshake(c)
      PROVE  [Abstract!Next]_(Abstract!vars)
  <2>1. player_id[c] = NoPlayer /\ UNCHANGED <<clients, players, player_id>>
    BY <1>0, <1>2 DEF Accept, Handshake, Nameless
  <2>2. \A d \in Conn : d # c => phase'[d] = phase[d]
    BY <1>0, <1>2 DEF Accept, Handshake, TypeOK
  <2>3. \A d \in Conn : phase'[d] = "closed" /\ player_id[d] # NoPlayer <=> d \in Spent
    BY <2>1, <2>2 DEF Spent
  <2> QED  BY <1>1, <2>1, <2>3
<1>3. ASSUME NEW c \in Conn,
             PeerGone(c) \/ LaterFrame(c) \/ \E f \in Frame : FrameArrives(c, f)
      PROVE  [Abstract!Next]_(Abstract!vars)
  BY <1>1, <1>3 DEF PeerGone, LaterFrame, FrameArrives, Spent
<1>4. CASE MatchmakingTimer
  BY <1>1, <1>4 DEF MatchmakingTimer, Spent
<1>5. ASSUME NEW c \in Conn, ReadFails(c)
      PROVE  [Abstract!Next]_(Abstract!vars)
  <2>1. Failed # NotReading /\ read[c] = Failed
    BY <1>5 DEF Failed, NotReading, ReadFails
  <2>2. phase[c] \in {"open", "closed"}
    BY <1>0, <2>1 DEF Nameless, TypeOK
  <2>3. running /\ Stop(c) /\ UNCHANGED <<player_id, running>>
    BY <1>5 DEF ReadFails
  <2>4. read' \in [Conn -> Read]
    BY <1>0 DEF Books, TypeOK
  <2> QED  BY <1>0, <2>2, <2>3, <2>4, StopPresence
<1>6. ASSUME NEW c \in Conn, WriteFails(c)
      PROVE  [Abstract!Next]_(Abstract!vars)
  <2>1. read' \in [Conn -> Read]
    BY <1>0 DEF Books, TypeOK
  <2>2. /\ running /\ Stop(c) /\ UNCHANGED <<player_id, running>>
        /\ phase[c] \in {"open", "closed"}
    BY <1>6 DEF WriteFails
  <2> QED  BY <1>0, <2>1, <2>2, StopPresence
<1>7. ASSUME NEW c \in Conn, FirstFrame(c)
      PROVE  [Abstract!Next]_(Abstract!vars)
  <2>0. PICK p \in PlayerId : p = read[c].frame.player
    BY <1>7, Takeover
  <2>1. /\ phase[c] = "open"
        /\ \A q \in PlayerId : clients[q] # c
        /\ clients' = [clients EXCEPT ![p] = c]
        /\ players' = players \union {p}
        /\ \A d \in Conn : phase'[d] =
             IF d = clients[p] THEN "closed" ELSE phase[d]
        /\ player_id' = [player_id EXCEPT ![c] = p]
    BY <1>7, <2>0, Takeover
  <2>2. \A d \in Conn : d = clients[p] => player_id[d] = p
    BY <2>1 DEF Books, Story
  <2>3. clients[p] \in Conn \union {NoConn}
    BY <1>0, <2>1 DEF TypeOK
  <2>4. ASSUME NEW d \in Conn
        PROVE  phase'[d] = "closed" /\ player_id'[d] # NoPlayer
                 <=> d \in Spent \/ d = clients[p]
    <3>1. CASE d = c
      BY <2>1, <3>1 DEF Spent
    <3>2. CASE d # c
      <4>1. player_id'[d] = player_id[d]
        BY <1>0, <2>1, <3>2 DEF TypeOK
      <4> QED  BY <2>1, <2>2, <4>1, ConstantsAssumption DEF Spent
    <3> QED  BY <3>1, <3>2
  <2>5. Spent' = Spent \union ({clients[p]} \ {NoConn})
    BY <2>3, <2>4, ConstantsAssumption DEF Spent
  <2>6. c \notin Spent
    BY <2>1 DEF Spent
  <2>7. Abstract!Login(c, p)
    BY <1>0, <2>1, <2>5, <2>6, Mapped
  <2> QED  BY <2>7 DEF Abstract!Next
<1>8. CASE Shutdown
  <2>1. /\ clients' = [p \in PlayerId |-> NoConn]
        /\ players' = {} /\ player_id' = player_id
        /\ \A c \in Conn : phase'[c] =
             IF \E p \in PlayerId : clients[p] = c THEN "closed" ELSE phase[c]
    BY <1>8, ShutdownEmpties
  <2>2. \A c \in Conn, p \in PlayerId : clients[p] = c => player_id[c] = p
    BY DEF Books, Story
  <2>3. \A p \in PlayerId : clients[p] \in Conn \union {NoConn}
    BY <1>0 DEF TypeOK
  <2>4. Spent' = Spent \union ({clients[p] : p \in PlayerId} \ {NoConn})
    <3>1. ASSUME NEW c \in Conn
          PROVE  phase'[c] = "closed" /\ player_id'[c] # NoPlayer
                   <=> c \in Spent \/ \E p \in PlayerId : clients[p] = c
      BY <2>1, <2>2, ConstantsAssumption DEF Spent
    <3>2. Spent' = {c \in Conn : c \in Spent \/ \E p \in PlayerId : clients[p] = c}
      BY <3>1 DEF Spent
    <3>3. Spent \subseteq Conn
      BY DEF Spent
    <3> QED  BY <2>3, <3>2, <3>3, ConstantsAssumption
  <2>5. Abstract!Shutdown
    BY <1>0, <2>1, <2>4, Mapped
  <2> QED  BY <2>5 DEF Abstract!Next
<1>9. CASE UNCHANGED vars
  BY <1>1, <1>9 DEF vars, Spent
<1> QED
  BY <1>2, <1>3, <1>4, <1>5, <1>6, <1>7, <1>8, <1>9 DEF Next, Handler

\* The connection layer implements Presence: logins, takeovers, broken
\* connections and the shutdown give and take each player exactly once.
THEOREM PresenceImplemented == Spec => ImplementsPresence
<1>1. Init => Abstract!Init
  <2> SUFFICES ASSUME Init PROVE Abstract!Init
    OBVIOUS
  <2>1. [p \in PlayerId |-> Holder(p)] = clients
    BY BooksInit, HolderMap
  <2> QED  BY <2>1 DEF Init, Abstract!Init
<1>2. (Books /\ Nameless) /\ [Next]_vars => [Abstract!Next]_(Abstract!vars)
  BY PresenceNext
<1> QED
  BY <1>1, <1>2, BooksInvariant, PTL
  DEF Spec, ImplementsPresence, Abstract!Spec
=============================================================================
