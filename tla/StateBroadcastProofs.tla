------------------------ MODULE StateBroadcastProofs ------------------------
(***************************************************************************)
(* TLAPS proofs about the ticks, from the loop that makes them to the      *)
(* clients they are sent to: about GameLoop, for any set of callbacks, and *)
(* about StateBroadcast, for any clients, any number of ticks and of       *)
(* deaths in each, and write queues of any length.                         *)
(***************************************************************************)
EXTENDS GameLoop, StateBroadcast, SequenceTheorems, FiniteSetTheorems, TLAPS

----------------------------------------------------------------------------
(* GameLoop. *)

\* The variables but late keep their types.
LEMMA TypesHold == LoopSpec => []Types
<1>1. LoopInit => Types
  BY DEF LoopInit, Types
<1>2. Types /\ [LoopNext]_loopVars => Types'
  <2> SUFFICES ASSUME Types, [LoopNext]_loopVars
               PROVE  Types'
    OBVIOUS
  <2> USE DEF Types
  <2>1. CASE Start
    BY <2>1 DEF Start
  <2>2. CASE StopCalled \/ StopRequested
    BY <2>2 DEF StopCalled, StopRequested
  <2>3. CASE StopNotifies
    BY <2>3 DEF StopNotifies
  <2>4. CASE JoinCalled \/ JoinReturns
    BY <2>4 DEF JoinCalled, JoinReturns
  <2>5. ASSUME NEW c \in Callback \union {NoCallback}, SetUpdateCallback(c)
        PROVE  Types'
    BY <2>5 DEF SetUpdateCallback
  <2>6. CASE Iterates
    BY <2>6 DEF Iterates
  <2>7. CASE TickBegins
    BY <2>7 DEF TickBegins
  <2>8. CASE TickEnds \/ FrameEnds
    BY <2>8 DEF TickEnds, FrameEnds
  <2>9. CASE FallsAsleep \/ TimesOut \/ WaitReturns
    BY <2>9 DEF FallsAsleep, TimesOut, WaitReturns
  <2>10. CASE UNCHANGED loopVars
    BY <2>10 DEF loopVars
  <2> QED
    BY <2>1, <2>2, <2>3, <2>4, <2>5, <2>6, <2>7, <2>8, <2>9, <2>10
       DEF LoopNext, Run
<1> QED
  BY <1>1, <1>2, PTL DEF LoopSpec

\* At most one tick begins once stop_requested_ is set: the one that begins
\* from "ready".  After it the loop thread reaches "ready" again only through
\* Iterates, and Iterates ends the loop.
LateInv ==
  /\ late = 0 \/ late = 1
  /\ late = 1 => stop_requested /\ loop # "ready"

\* LateInv holds in every state.
LEMMA LateInvariant == LoopSpec => []LateInv
<1>1. LoopInit => LateInv
  BY DEF LoopInit, LateInv
<1>2. LateInv /\ [LoopNext]_loopVars => LateInv'
  <2> SUFFICES ASSUME LateInv, [LoopNext]_loopVars
               PROVE  LateInv'
    OBVIOUS
  <2> USE DEF LateInv
  <2>1. CASE Start
    BY <2>1 DEF Start
  <2>2. CASE StopCalled \/ StopRequested \/ StopNotifies
    BY <2>2 DEF StopCalled, StopRequested, StopNotifies
  <2>3. CASE JoinCalled \/ JoinReturns
    BY <2>3 DEF JoinCalled, JoinReturns
  <2>4. ASSUME NEW c \in Callback \union {NoCallback}, SetUpdateCallback(c)
        PROVE  LateInv'
    BY <2>4 DEF SetUpdateCallback
  <2>5. CASE Iterates
    BY <2>5 DEF Iterates
  <2>6. CASE TickBegins
    BY <2>6 DEF TickBegins, MaxLate
  <2>7. CASE TickEnds \/ FrameEnds
    BY <2>7 DEF TickEnds, FrameEnds
  <2>8. CASE FallsAsleep \/ TimesOut \/ WaitReturns
    BY <2>8 DEF FallsAsleep, TimesOut, WaitReturns
  <2>9. CASE UNCHANGED loopVars
    BY <2>9 DEF loopVars
  <2> QED
    BY <2>1, <2>2, <2>3, <2>4, <2>5, <2>6, <2>7, <2>8, <2>9 DEF LoopNext, Run
<1> QED
  BY <1>1, <1>2, PTL DEF LoopSpec

\* After the flag is set at most one more tick begins, in every behaviour.
THEOREM AtMostOneMoreTick == LoopSpec => []OneMoreTickAtMost
<1>1. LateInv => OneMoreTickAtMost
  BY DEF LateInv, OneMoreTickAtMost
<1> QED
  BY LateInvariant, <1>1, PTL

\* LoopTypeOK holds in every state; running_ is right because the loop thread
\* alone resets it, in the step in which it ends.
THEOREM LoopTypeCorrect == LoopSpec => []LoopTypeOK
<1>1. LoopInit => RunningHonest
  BY DEF LoopInit, RunningHonest
<1>2. RunningHonest /\ [LoopNext]_loopVars => RunningHonest'
  <2> SUFFICES ASSUME RunningHonest, [LoopNext]_loopVars
               PROVE  RunningHonest'
    OBVIOUS
  <2> USE DEF RunningHonest
  <2>1. CASE Start
    BY <2>1 DEF Start
  <2>2. CASE StopCalled \/ StopRequested \/ StopNotifies
    BY <2>2 DEF StopCalled, StopRequested, StopNotifies
  <2>3. CASE JoinCalled \/ JoinReturns
    BY <2>3 DEF JoinCalled, JoinReturns
  <2>4. ASSUME NEW c \in Callback \union {NoCallback}, SetUpdateCallback(c)
        PROVE  RunningHonest'
    BY <2>4 DEF SetUpdateCallback
  <2>5. CASE Iterates
    BY <2>5 DEF Iterates
  <2>6. CASE TickBegins \/ TickEnds \/ FrameEnds
    BY <2>6 DEF TickBegins, TickEnds, FrameEnds
  <2>7. CASE FallsAsleep \/ TimesOut \/ WaitReturns
    BY <2>7 DEF FallsAsleep, TimesOut, WaitReturns
  <2>8. CASE UNCHANGED loopVars
    BY <2>8 DEF loopVars
  <2> QED
    BY <2>1, <2>2, <2>3, <2>4, <2>5, <2>6, <2>7, <2>8 DEF LoopNext, Run
<1>3. LoopSpec => []RunningHonest
  BY <1>1, <1>2, PTL DEF LoopSpec
<1>4. LateInv => late \in 0..MaxLate
  BY DEF LateInv, MaxLate
<1>5. Types /\ RunningHonest /\ LateInv => LoopTypeOK
  BY <1>4 DEF LoopTypeOK
<1> QED
  BY TypesHold, LateInvariant, <1>3, <1>5, PTL

----------------------------------------------------------------------------

\* A callback that has been replaced never runs: while the loop is in a
\* callback it holds mutex_, which SetUpdateCallback has to take.
THEOREM ReplacedCallbacksRest == LoopSpec => []ReplacedNeverRuns
<1>1. LoopInit => ReplacedNeverRuns
  BY DEF LoopInit, ReplacedNeverRuns
<1>2. ReplacedNeverRuns /\ [LoopNext]_loopVars => ReplacedNeverRuns'
  <2> SUFFICES ASSUME ReplacedNeverRuns, [LoopNext]_loopVars
               PROVE  ReplacedNeverRuns'
    OBVIOUS
  <2> USE DEF ReplacedNeverRuns
  <2>1. ASSUME NEW c \in Callback \union {NoCallback}, SetUpdateCallback(c)
        PROVE  ReplacedNeverRuns'
    BY <2>1 DEF SetUpdateCallback, MutexFree
  <2>2. CASE Start \/ StopCalled \/ StopRequested \/ StopNotifies
             \/ JoinCalled \/ JoinReturns
    BY <2>2 DEF Start, StopCalled, StopRequested, StopNotifies, JoinCalled,
                JoinReturns
  <2>3. CASE TickBegins
    BY <2>3 DEF TickBegins
  <2>4. CASE Iterates \/ TickEnds \/ FrameEnds \/ FallsAsleep \/ TimesOut
             \/ WaitReturns
    BY <2>4 DEF Iterates, TickEnds, FrameEnds, FallsAsleep, TimesOut, WaitReturns
  <2>5. CASE UNCHANGED loopVars
    BY <2>5 DEF loopVars
  <2> QED
    BY <2>1, <2>2, <2>3, <2>4, <2>5 DEF LoopNext, Run
<1> QED
  BY <1>1, <1>2, PTL DEF LoopSpec

----------------------------------------------------------------------------

\* The wake-up of Stop is never lost: the loop tests stop_requested_ and goes
\* to sleep under mutex_, so the flag changes before the one or after the
\* other, and in the second case the signal finds it asleep.
THEOREM StopAlwaysWakes == LoopSpec => []StopWakesTheLoop
<1> DEFINE NotDozing == stop_requested => loop # "dozing"
           Inv == NotDozing /\ StopWakesTheLoop
<1>1. LoopInit => Inv
  BY DEF LoopInit, StopWakesTheLoop
<1>2. Inv /\ [LoopNext]_loopVars => Inv'
  <2> SUFFICES ASSUME Inv, [LoopNext]_loopVars
               PROVE  Inv'
    OBVIOUS
  <2> USE DEF StopWakesTheLoop
  <2>1. ASSUME NEW c \in Callback \union {NoCallback}, SetUpdateCallback(c)
        PROVE  Inv'
    BY <2>1 DEF SetUpdateCallback
  <2>2. CASE Start \/ StopCalled \/ JoinCalled \/ JoinReturns
    BY <2>2 DEF Start, StopCalled, JoinCalled, JoinReturns
  <2>3. CASE StopRequested
    BY <2>3 DEF StopRequested, MutexFree
  <2>4. CASE StopNotifies
    BY <2>4 DEF StopNotifies
  <2>5. CASE Iterates \/ TickBegins \/ TickEnds
    BY <2>5 DEF Iterates, TickBegins, TickEnds
  <2>6. CASE FrameEnds
    BY <2>6 DEF FrameEnds
  <2>7. CASE FallsAsleep \/ TimesOut \/ WaitReturns
    BY <2>7 DEF FallsAsleep, TimesOut, WaitReturns
  <2>8. CASE UNCHANGED loopVars
    BY <2>8 DEF loopVars
  <2> QED
    BY <2>1, <2>2, <2>3, <2>4, <2>5, <2>6, <2>7, <2>8 DEF LoopNext, Run
<1> QED
  BY <1>1, <1>2, PTL DEF LoopSpec

----------------------------------------------------------------------------
(* StateBroadcast.  Sequences first. *)

\* One sequence after another.  Kept as an operator of its own so that the
\* provers see it as one, not by its elements.
Join(s, t) == s \o t

LEMMA JoinType ==
  ASSUME NEW S, NEW s \in Seq(S), NEW t \in Seq(S)
  PROVE  Join(s, t) \in Seq(S)
  BY ConcatProperties DEF Join

LEMMA JoinAssociative ==
  ASSUME NEW S, NEW s \in Seq(S), NEW t \in Seq(S), NEW u \in Seq(S)
  PROVE  Join(Join(s, t), u) = Join(s, Join(t, u))
  BY ConcatAssociative DEF Join

\* Handing the first message of one queue to the end of the next changes
\* nothing about the two in a row.
LEMMA HandOver ==
  ASSUME NEW S, NEW a \in Seq(S), NEW b \in Seq(S), b # <<>>
  PROVE  /\ Append(a, Head(b)) \in Seq(S)
         /\ Tail(b) \in Seq(S)
         /\ Join(Append(a, Head(b)), Tail(b)) = Join(a, b)
<1>1. Head(b) \in S /\ Tail(b) \in Seq(S) /\ Len(Tail(b)) = Len(b) - 1
      /\ \A i \in 1..Len(Tail(b)) : Tail(b)[i] = b[i+1]
  BY HeadTailProperties
<1>2. Append(a, Head(b)) \in Seq(S)
  BY <1>1, AppendProperties
<1>3. Join(<<Head(b)>>, Tail(b)) = b
  <2> SUFFICES /\ <<Head(b)>> \o Tail(b) \in Seq(S)
               /\ Len(<<Head(b)>> \o Tail(b)) = Len(b)
               /\ \A i \in 1..Len(b) : (<<Head(b)>> \o Tail(b))[i] = b[i]
    BY SeqEqual DEF Join
  <2> QED  BY <1>1, ConcatProperties
<1>4. Append(a, Head(b)) = Join(a, <<Head(b)>>)
  BY <1>1, AppendIsConcat DEF Join
<1>5. <<Head(b)>> \in Seq(S)
  BY <1>1
<1>6. Join(Join(a, <<Head(b)>>), Tail(b)) = Join(a, Join(<<Head(b)>>, Tail(b)))
  <2> DEFINE h == <<Head(b)>>
             r == Tail(b)
  <2>1. h \in Seq(S) /\ r \in Seq(S)
    BY <1>1, <1>5
  <2> HIDE DEF h, r
  <2>2. Join(Join(a, h), r) = Join(a, Join(h, r))
    BY <2>1, JoinAssociative
  <2> QED  BY <2>2 DEF h, r
<1> QED  BY <1>1, <1>2, <1>3, <1>4, <1>6

\* Of two sequences in a row the first is the beginning.
LEMMA Beginning ==
  ASSUME NEW S, NEW a \in Seq(S), NEW b \in Seq(S)
  PROVE  /\ Len(a) <= Len(Join(a, b))
         /\ a = SubSeq(Join(a, b), 1, Len(a))
<1>1. /\ a \o b \in Seq(S) /\ Len(a \o b) = Len(a) + Len(b)
      /\ \A i \in 1..Len(a) + Len(b) :
           (a \o b)[i] = IF i <= Len(a) THEN a[i] ELSE b[i - Len(a)]
  BY ConcatProperties
<1>2. Len(a) \in Nat /\ Len(b) \in Nat
  OBVIOUS
<1>3. \A i \in 1..Len(a) : (a \o b)[i] \in S
  BY <1>1, <1>2, ElementOfSeq
<1>4. /\ SubSeq(a \o b, 1, Len(a)) \in Seq(S)
      /\ Len(SubSeq(a \o b, 1, Len(a))) = Len(a)
      /\ \A i \in 1..Len(a) : SubSeq(a \o b, 1, Len(a))[i] = (a \o b)[i]
  <2>1. /\ SubSeq(a \o b, 1, Len(a)) \in Seq(S)
        /\ Len(SubSeq(a \o b, 1, Len(a)))
           = IF 1 <= Len(a) THEN Len(a) - 1 + 1 ELSE 0
        /\ \A i \in 1..Len(a) - 1 + 1 :
             SubSeq(a \o b, 1, Len(a))[i] = (a \o b)[1 + i - 1]
    BY <1>2, <1>3, SubSeqProperties
  <2> QED  BY <1>2, <2>1
<1>5. \A i \in 1..Len(a) : a[i] = SubSeq(a \o b, 1, Len(a))[i]
  BY <1>1, <1>2, <1>4
<1> QED  BY <1>1, <1>2, <1>4, <1>5, SeqEqual DEF Join

----------------------------------------------------------------------------
(* Types. *)

\* The deaths of a tick are a sequence of players, of whatever length.
LEMMA DeathsType == \A dead \in Deaths : dead \in Seq(Conn)
<1> SUFFICES ASSUME NEW dead \in Deaths
             PROVE  dead \in Seq(Conn)
  OBVIOUS
<1>1. Cardinality(Conn) \in Nat
  BY ConstantsAssumption, FS_CardinalityType
<1>2. PICK n \in 0..Cardinality(Conn) : dead \in Injection(1..n, Conn)
  BY DEF Deaths
<1>3. n \in Nat /\ dead \in [1..n -> Conn]
  BY <1>1, <1>2 DEF Injection
<1> QED  BY <1>3

\* What one tick posts to a session are messages of that tick.
LEMMA RoundType ==
  ASSUME NEW c \in Conn, NEW t \in 1..MaxTick, NEW dead \in Deaths
  PROVE  Round(c, t, dead) \in Seq(Message)
<1>1. dead \in Seq(Conn)
  BY DeathsType
<1>2. \A i \in 1..Len(dead) : DeathOf(dead[i], t) \in Message
  BY <1>1 DEF DeathOf, Message
<1>3. [i \in 1..Len(dead) |-> DeathOf(dead[i], t)] \in Seq(Message)
  BY <1>1, <1>2
<1>4. <<StateOf(c, t)>> \in Seq(Message)
  BY DEF StateOf, Message
<1> QED  BY <1>3, <1>4, ConcatProperties DEF Round

\* A write is in flight only while its message
\* is at the front of the queue, so what is popped is there.
WireHasWork == \A c \in Conn : wire[c] # "idle" => queue[c] # <<>>

\* It holds at the start ...
LEMMA TypeInit == Init => TypeOK /\ WireHasWork
  BY ConstantsAssumption DEF Init, TypeOK, WireHasWork

\* ... and every step keeps it and the types.
LEMMA TypeNext ==
  TypeOK /\ WireHasWork /\ [Next]_vars => TypeOK' /\ WireHasWork'
<1> SUFFICES ASSUME TypeOK, WireHasWork, [Next]_vars
             PROVE  TypeOK' /\ WireHasWork'
  OBVIOUS
<1> USE ConstantsAssumption DEF TypeOK, WireHasWork
<1>1. CASE LoopTick
  BY <1>1 DEF LoopTick, sessionVars
<1>2. ASSUME NEW dead \in Deaths, BroadcastState(dead)
      PROVE  TypeOK' /\ WireHasWork'
  <2> DEFINE t == last_broadcast_tick + 1
             more(c) == IF c \in closed THEN <<>> ELSE Round(c, t, dead)
  <2>1. t \in 1..MaxTick /\ last_broadcast_tick' = t /\ tick' = tick /\ t <= tick
    BY <1>2 DEF BroadcastState
  <2>2. \A c \in Conn : more(c) \in Seq(Message)
    BY <2>1, RoundType
  <2>3. /\ posted' = [c \in Conn |-> posted[c] \o more(c)]
        /\ produced' = [c \in Conn |-> produced[c] \o more(c)]
    BY <1>2 DEF BroadcastState
  <2> HIDE DEF more, t
  <2>4. posted' \in [Conn -> Seq(Message)] /\ produced' \in [Conn -> Seq(Message)]
    BY <2>2, <2>3, ConcatProperties
  <2>5. UNCHANGED sessionVars
    BY <1>2 DEF BroadcastState
  <2> QED  BY <2>1, <2>4, <2>5 DEF sessionVars
<1>3. ASSUME NEW c \in Conn, QueueMessage(c)
      PROVE  TypeOK' /\ WireHasWork'
  <2>1. Head(posted[c]) \in Message /\ Tail(posted[c]) \in Seq(Message)
    BY <1>3, HeadTailProperties DEF QueueMessage
  <2>2. /\ Append(queue[c], Head(posted[c])) \in Seq(Message)
        /\ Append(queue[c], Head(posted[c])) # <<>>
    <3>1. queue[c] \in Seq(Message)
      OBVIOUS
    <3> HIDE DEF TypeOK, WireHasWork
    <3> QED  BY <2>1, <3>1, AppendProperties
  <2>3. wire' \in [Conn -> {"idle", "taken", "blocked", "refused"}]
    BY <1>3 DEF QueueMessage, Begun
  <2>4. posted' \in [Conn -> Seq(Message)] /\ queue' \in [Conn -> Seq(Message)]
    BY <1>3, <2>1, <2>2 DEF QueueMessage
  <2>5. WireHasWork'
    BY <1>3, <2>2 DEF QueueMessage
  <2> QED  BY <1>3, <2>3, <2>4, <2>5 DEF QueueMessage
<1>4. ASSUME NEW c \in Conn, Written(c)
      PROVE  TypeOK' /\ WireHasWork'
  <2>0. queue[c] # <<>>
    BY <1>4 DEF Written
  <2>1. Head(queue[c]) \in Message /\ Tail(queue[c]) \in Seq(Message)
    BY <2>0, HeadTailProperties
  <2>2. Append(sent[c], Head(queue[c])) \in Seq(Message)
    BY <2>1, AppendProperties
  <2>3. wire' \in [Conn -> {"idle", "taken", "blocked", "refused"}]
    BY <1>4 DEF Written, Begun
  <2>4. sent' \in [Conn -> Seq(Message)] /\ queue' \in [Conn -> Seq(Message)]
    BY <1>4, <2>1, <2>2 DEF Written, Delivered
  <2>5. WireHasWork'
    BY <1>4 DEF Written
  <2>6. writing' \in [Conn -> BOOLEAN]
    BY <1>4 DEF Written
  <2>7. intact' \in BOOLEAN
    BY <1>4 DEF Written, Delivered
  <2> QED  BY <1>4, <2>3, <2>4, <2>5, <2>6, <2>7 DEF Written
<1>5. ASSUME NEW c \in Conn, WriteFailed(c) \/ Stop(c)
      PROVE  TypeOK' /\ WireHasWork'
  BY <1>5 DEF WriteFailed, Stop
<1>6. CASE UNCHANGED vars
  BY <1>6 DEF vars
<1> QED  BY <1>1, <1>2, <1>3, <1>4, <1>5, <1>6 DEF Next

\* The state is well-typed; the broadcast never overtakes the loop.
LEMMA TypeInvariant == Spec => [](TypeOK /\ WireHasWork)
  BY TypeInit, TypeNext, PTL DEF Spec

\* The same, without that.
THEOREM TypeCorrect == Spec => []TypeOK
<1>1. TypeOK /\ WireHasWork => TypeOK
  OBVIOUS
<1> QED  BY <1>1, TypeInvariant, PTL

----------------------------------------------------------------------------
(* The writer. *)

\* Why the writer never sleeps: a write in flight has writing_ set, a message
\* in the queue has it set too, and as long as the session lives nothing but
\* the end of a write clears it.
WriterInv ==
  \A c \in Conn :
    /\ wire[c] # "idle" => writing[c]
    /\ queue[c] # <<>> => writing[c]
    /\ c \notin closed /\ writing[c] => wire[c] # "idle"

LEMMA WriterInit == Init => WriterInv
  BY DEF Init, WriterInv

LEMMA WriterNext ==
  TypeOK /\ WireHasWork /\ WriterInv /\ [Next]_vars => WriterInv'
<1> SUFFICES ASSUME TypeOK, WireHasWork, WriterInv, [Next]_vars
             PROVE  WriterInv'
  OBVIOUS
<1>1. ASSUME LoopTick \/ \E dead \in Deaths : BroadcastState(dead)
      PROVE  WriterInv'
  <2>1. UNCHANGED sessionVars
    BY <1>1 DEF LoopTick, BroadcastState
  <2> QED  BY <2>1 DEF sessionVars, WriterInv
<1>2. ASSUME NEW c \in Conn, QueueMessage(c)
      PROVE  WriterInv'
  <2>1. /\ writing' = [writing EXCEPT ![c] = TRUE]
        /\ closed' = closed
        /\ \A d \in Conn \ {c} : queue'[d] = queue[d]
    BY <1>2 DEF QueueMessage, TypeOK
  <2>2. \/ wire' = wire /\ writing[c]
        \/ \E w \in {"taken", "blocked", "refused"} : wire' = [wire EXCEPT ![c] = w]
    BY <1>2 DEF QueueMessage, Begun
  <2> QED  BY <2>1, <2>2 DEF WriterInv, TypeOK
<1>3. ASSUME NEW c \in Conn, Written(c)
      PROVE  WriterInv'
  <2>1. /\ queue' = [queue EXCEPT ![c] = Tail(@)]
        /\ writing' = [writing EXCEPT ![c] = Tail(queue[c]) # <<>>]
        /\ closed' = closed
    BY <1>3 DEF Written
  <2>2. \E w \in {"idle", "taken", "blocked", "refused"} :
          /\ wire' = [wire EXCEPT ![c] = w]
          /\ w = "idle" <=> Tail(queue[c]) = <<>>
    BY <1>3 DEF Written, Begun
  <2>3. ASSUME NEW d \in Conn
        PROVE  /\ wire'[d] # "idle" => writing'[d]
               /\ queue'[d] # <<>> => writing'[d]
               /\ d \notin closed' /\ writing'[d] => wire'[d] # "idle"
    <3>1. CASE d = c
      BY <3>1, <2>1, <2>2 DEF TypeOK
    <3>2. CASE d # c
      BY <3>2, <2>1, <2>2 DEF TypeOK, WriterInv
    <3> QED  BY <3>1, <3>2
  <2> QED  BY <2>3 DEF WriterInv
<1>4. ASSUME NEW c \in Conn, WriteFailed(c) \/ Stop(c)
      PROVE  WriterInv'
  BY <1>4 DEF WriteFailed, Stop, WriterInv, TypeOK
<1>5. CASE UNCHANGED vars
  BY <1>5 DEF vars, WriterInv
<1> QED  BY <1>1, <1>2, <1>3, <1>4, <1>5 DEF Next

LEMMA WriterInvariant == Spec => [](TypeOK /\ WireHasWork /\ WriterInv)
  BY TypeInit, TypeNext, WriterInit, WriterNext, PTL DEF Spec

\* writing_, the write in flight and the queue of a live session always say
\* the same: nothing waits without a write, and there is one write at a time.
THEOREM WriterIsAwake == Spec => []WriterAwake
<1>1. TypeOK /\ WireHasWork /\ WriterInv => WriterAwake
  BY DEF TypeOK, WireHasWork, WriterInv, WriterAwake
<1> QED  BY <1>1, WriterInvariant, PTL

----------------------------------------------------------------------------
(* The messages. *)

\* What was sent, what is queued and what is posted, in a row, is what was
\* produced; also for a session that has stopped, whose queue is dead.
Carried ==
  \A c \in Conn : Join(Join(sent[c], queue[c]), posted[c]) = produced[c]

LEMMA CarriedInit == Init => Carried
<1>1. Join(Join(<<>>, <<>>), <<>>) = <<>>
  BY DEF Join
<1> QED  BY <1>1 DEF Init, Carried

LEMMA CarriedNext ==
  TypeOK /\ WireHasWork /\ Carried /\ [Next]_vars => Carried'
<1> SUFFICES ASSUME TypeOK, WireHasWork, Carried, [Next]_vars,
                    NEW c \in Conn
             PROVE  Join(Join(sent'[c], queue'[c]), posted'[c]) = produced'[c]
  BY DEF Carried
<1>0. /\ sent[c] \in Seq(Message) /\ queue[c] \in Seq(Message)
      /\ posted[c] \in Seq(Message)
      /\ Join(Join(sent[c], queue[c]), posted[c]) = produced[c]
  BY DEF TypeOK, Carried
<1> DEFINE Goal == Join(Join(sent'[c], queue'[c]), posted'[c]) = produced'[c]
<1>1. CASE LoopTick \/ UNCHANGED vars
  BY <1>0, <1>1 DEF LoopTick, sessionVars, vars
<1>2. ASSUME NEW dead \in Deaths, BroadcastState(dead)
      PROVE  Goal
  <2> DEFINE t == last_broadcast_tick + 1
             more == IF c \in closed THEN <<>> ELSE Round(c, t, dead)
  <2>1. t \in 1..MaxTick
    BY <1>2, ConstantsAssumption DEF BroadcastState, TypeOK
  <2>2. more \in Seq(Message)
    BY <2>1, RoundType
  <2>3. /\ posted'[c] = Join(posted[c], more)
        /\ produced'[c] = Join(produced[c], more)
        /\ sent'[c] = sent[c] /\ queue'[c] = queue[c]
    BY <1>2 DEF BroadcastState, sessionVars, Join
  <2> HIDE DEF more
  <2>4. Join(sent[c], queue[c]) \in Seq(Message)
    BY <1>0, JoinType
  <2>5. Join(Join(sent[c], queue[c]), Join(posted[c], more))
        = Join(Join(Join(sent[c], queue[c]), posted[c]), more)
    BY <1>0, <2>2, <2>4, JoinAssociative
  <2> QED  BY <1>0, <2>3, <2>5
<1>3. ASSUME NEW d \in Conn, QueueMessage(d)
      PROVE  Goal
  <2>1. CASE d = c
    <3>1. /\ posted[c] # <<>>
          /\ posted'[c] = Tail(posted[c])
          /\ queue'[c] = Append(queue[c], Head(posted[c]))
          /\ sent'[c] = sent[c] /\ produced'[c] = produced[c]
      BY <1>3, <2>1 DEF QueueMessage, TypeOK
    <3>2. /\ queue'[c] \in Seq(Message) /\ posted'[c] \in Seq(Message)
          /\ Join(queue'[c], posted'[c]) = Join(queue[c], posted[c])
      BY <1>0, <3>1, HandOver
    <3>3. Join(sent[c], Join(queue[c], posted[c])) = produced[c]
      BY <1>0, JoinAssociative
    <3>4. Join(Join(sent[c], queue'[c]), posted'[c])
          = Join(sent[c], Join(queue'[c], posted'[c]))
      BY <1>0, <3>2, JoinAssociative
    <3> QED  BY <3>1, <3>2, <3>3, <3>4
  <2>2. CASE d # c
    BY <1>0, <1>3, <2>2 DEF QueueMessage, TypeOK
  <2> QED  BY <2>1, <2>2
<1>4. ASSUME NEW d \in Conn, Written(d)
      PROVE  Goal
  <2>1. CASE d = c
    <3>1. /\ queue[c] # <<>>
          /\ queue'[c] = Tail(queue[c])
          /\ sent'[c] = Append(sent[c], Head(queue[c]))
          /\ posted'[c] = posted[c] /\ produced'[c] = produced[c]
      BY <1>4, <2>1 DEF Written, Delivered, TypeOK, WireHasWork
    <3>2. Join(sent'[c], queue'[c]) = Join(sent[c], queue[c])
      BY <1>0, <3>1, HandOver
    <3> QED  BY <1>0, <3>1, <3>2
  <2>2. CASE d # c
    BY <1>0, <1>4, <2>2 DEF Written, Delivered, TypeOK
  <2> QED  BY <2>1, <2>2
<1>5. ASSUME NEW d \in Conn, WriteFailed(d) \/ Stop(d)
      PROVE  Goal
  BY <1>0, <1>5 DEF WriteFailed, Stop
<1> QED  BY <1>1, <1>2, <1>3, <1>4, <1>5 DEF Next

LEMMA CarriedInvariant == Spec => [](TypeOK /\ WireHasWork /\ Carried)
  BY TypeInit, TypeNext, CarriedInit, CarriedNext, PTL DEF Spec

LEMMA CarriedIsKept == TypeOK /\ Carried => NothingLost
<1> SUFFICES ASSUME TypeOK, Carried, NEW c \in Conn
             PROVE  /\ sent[c] \o queue[c] \o posted[c] = produced[c]
                    /\ Len(sent[c]) <= Len(produced[c])
                    /\ sent[c] = SubSeq(produced[c], 1, Len(sent[c]))
  BY DEF NothingLost
<1>1. /\ sent[c] \in Seq(Message) /\ queue[c] \in Seq(Message)
      /\ posted[c] \in Seq(Message)
      /\ Join(Join(sent[c], queue[c]), posted[c]) = produced[c]
  BY DEF TypeOK, Carried
<1>2. Join(queue[c], posted[c]) \in Seq(Message)
  BY <1>1, JoinType
<1>3. Join(sent[c], Join(queue[c], posted[c])) = produced[c]
  BY <1>1, JoinAssociative
<1>4. /\ Len(sent[c]) <= Len(produced[c])
      /\ sent[c] = SubSeq(produced[c], 1, Len(sent[c]))
  BY <1>1, <1>2, <1>3, Beginning
<1>5. sent[c] \o queue[c] \o posted[c] = produced[c]
  BY <1>1 DEF Join
<1> QED  BY <1>4, <1>5

\* Nothing is lost, repeated or overtaken on the way to a live session, and a
\* session that stopped was sent a beginning of what was produced for it.
THEOREM NothingIsLost == Spec => []NothingLost
<1> QED  BY CarriedIsKept, CarriedInvariant, PTL

----------------------------------------------------------------------------
(* A tick before its deaths. *)

\* What StateBeforeDeath says of the messages of one client.
Told(s, c) ==
  \A i \in 1..Len(s) :
    /\ \A j \in 1..i : s[j].tick <= s[i].tick
    /\ s[i].type = "death" => \E j \in 1..i : s[j] = StateOf(c, s[i].tick)

\* What a tick posts: its state, then deaths of the same tick.
LEMMA RoundTold ==
  ASSUME NEW c \in Conn, NEW t \in 1..MaxTick, NEW dead \in Deaths
  PROVE  /\ Len(Round(c, t, dead)) \in Nat \ {0}
         /\ Round(c, t, dead)[1] = StateOf(c, t)
         /\ \A i \in 1..Len(Round(c, t, dead)) : Round(c, t, dead)[i].tick = t
<1> DEFINE d == [i \in 1..Len(dead) |-> DeathOf(dead[i], t)]
<1>1. Len(dead) \in Nat /\ dead \in Seq(Conn)
  BY DeathsType
<1>2. d \in Seq(Message) /\ Len(d) = Len(dead)
  BY <1>1 DEF DeathOf, Message
<1>3. <<StateOf(c, t)>> \in Seq(Message)
  BY DEF StateOf, Message
<1>4. /\ Len(Round(c, t, dead)) = 1 + Len(dead)
      /\ \A i \in 1..1 + Len(dead) :
           Round(c, t, dead)[i] = IF i <= 1 THEN StateOf(c, t) ELSE d[i - 1]
  <2> HIDE DEF d
  <2>1. Round(c, t, dead) = <<StateOf(c, t)>> \o d
    BY DEF Round, d
  <2> QED  BY <1>1, <1>2, <1>3, <2>1, ConcatProperties
<1>5. \A i \in 1..Len(dead) : d[i].tick = t
  BY DEF DeathOf
<1>6. StateOf(c, t).tick = t
  BY DEF StateOf
<1> QED
  <2> HIDE DEF d
  <2> QED  BY <1>1, <1>4, <1>5, <1>6

\* A round that is later than all before it keeps them in order.
LEMMA ToldOn ==
  ASSUME NEW c \in Conn, NEW t \in Nat,
         NEW a \in Seq(Message), NEW b \in Seq(Message), Told(a, c),
         \A i \in 1..Len(a) : a[i].tick <= t,
         Len(b) \in Nat \ {0}, b[1] = StateOf(c, t),
         \A i \in 1..Len(b) : b[i].tick = t
  PROVE  /\ Told(Join(a, b), c)
         /\ \A i \in 1..Len(Join(a, b)) : Join(a, b)[i].tick <= t
<1> DEFINE s == Join(a, b)
<1>1. /\ Len(a) \in Nat /\ Len(s) = Len(a) + Len(b)
      /\ \A i \in 1..Len(s) :
           s[i] = IF i <= Len(a) THEN a[i] ELSE b[i - Len(a)]
  BY ConcatProperties DEF Join
<1> HIDE DEF s
<1>2. \A i \in 1..Len(s) : s[i].tick <= t /\ (i > Len(a) => s[i].tick = t)
  <2> TAKE i \in 1..Len(s)
  <2>1. CASE i <= Len(a)
    BY <1>1, <2>1
  <2>2. CASE i > Len(a)
    <3>1. i - Len(a) \in 1..Len(b) /\ s[i] = b[i - Len(a)]
      BY <1>1, <2>2
    <3> QED  BY <3>1, <2>2
  <2> QED  BY <1>1, <2>1, <2>2
<1>3. ASSUME NEW i \in 1..Len(s)
      PROVE  /\ \A j \in 1..i : s[j].tick <= s[i].tick
             /\ s[i].type = "death" => \E j \in 1..i : s[j] = StateOf(c, s[i].tick)
  <2>1. CASE i <= Len(a)
    <3>1. /\ i \in 1..Len(a) /\ s[i] = a[i]
          /\ \A j \in 1..i : s[j] = a[j]
      BY <1>1, <2>1
    <3> QED  BY <3>1 DEF Told
  <2>2. CASE i > Len(a)
    <3>1. /\ s[i].tick = t /\ Len(a) + 1 \in 1..i
          /\ s[Len(a) + 1] = StateOf(c, t)
      BY <1>1, <1>2, <2>2
    <3>2. \A j \in 1..i : j \in 1..Len(s)
      OBVIOUS
    <3> QED  BY <1>2, <3>1, <3>2
  <2> QED  BY <1>1, <2>1, <2>2
<1> QED  BY <1>2, <1>3 DEF Told, s

\* Why it holds: what was produced is in order and of no later tick than the
\* last broadcast, so the next round comes after all of it.
RoundsInOrder ==
  \A c \in Conn :
    /\ Told(produced[c], c)
    /\ \A i \in 1..Len(produced[c]) : produced[c][i].tick <= last_broadcast_tick

LEMMA RoundsInit == Init => RoundsInOrder
<1>1. Len(<<>>) = 0 /\ \A i \in 1..0 : FALSE
  OBVIOUS
<1> QED  BY <1>1 DEF Init, RoundsInOrder, Told

LEMMA RoundsNext == TypeOK /\ RoundsInOrder /\ [Next]_vars => RoundsInOrder'
<1> SUFFICES ASSUME TypeOK, RoundsInOrder, [Next]_vars
             PROVE  RoundsInOrder'
  OBVIOUS
<1>1. CASE UNCHANGED <<produced, last_broadcast_tick>>
  BY <1>1 DEF RoundsInOrder
<1>2. ASSUME NEW dead \in Deaths, BroadcastState(dead), NEW c \in Conn
      PROVE  /\ Told(produced'[c], c)
             /\ \A i \in 1..Len(produced'[c]) :
                  produced'[c][i].tick <= last_broadcast_tick'
  <2> DEFINE t == last_broadcast_tick + 1
             a == produced[c]
             b == Round(c, t, dead)
  <2>1. t \in 1..MaxTick /\ last_broadcast_tick' = t
        /\ last_broadcast_tick \in Nat
    BY <1>2, ConstantsAssumption DEF BroadcastState, TypeOK
  <2>2. /\ produced'[c] = IF c \in closed THEN Join(a, <<>>) ELSE Join(a, b)
        /\ a \in Seq(Message)
    BY <1>2 DEF BroadcastState, TypeOK, Join
  <2>3. Told(a, c) /\ \A i \in 1..Len(a) : a[i].tick <= last_broadcast_tick
    BY DEF RoundsInOrder
  <2>4. \A i \in 1..Len(a) : a[i].tick <= t
    <3>1. \A i \in 1..Len(a) : a[i] \in Message
      BY <2>2, ElementOfSeq
    <3>2. \A m \in Message : m.tick \in Nat
      BY DEF Message
    <3> QED  BY <2>1, <2>3, <3>1, <3>2
  <2>5. /\ b \in Seq(Message) /\ Len(b) \in Nat \ {0} /\ b[1] = StateOf(c, t)
        /\ \A i \in 1..Len(b) : b[i].tick = t
    BY <2>1, RoundType, RoundTold
  <2> HIDE DEF a, b, t
  <2>6. CASE c \in closed
    <3>1. produced'[c] = a
      BY <2>2, <2>6, ConcatEmptySeq DEF Join
    <3> QED  BY <2>1, <2>3, <2>4, <3>1
  <2>7. CASE c \notin closed
    <3>1. t \in Nat
      BY <2>1
    <3> QED  BY <2>1, <2>2, <2>3, <2>4, <2>5, <2>7, <3>1, ToldOn
  <2> QED  BY <2>6, <2>7
<1>3. ASSUME \/ LoopTick \/ UNCHANGED vars
             \/ \E c \in Conn :
                  QueueMessage(c) \/ Written(c) \/ WriteFailed(c) \/ Stop(c)
      PROVE  UNCHANGED <<produced, last_broadcast_tick>>
  BY <1>3 DEF LoopTick, QueueMessage, Written, WriteFailed, Stop, vars
<1> QED  BY <1>1, <1>2, <1>3 DEF Next, RoundsInOrder

\* What a client was sent is a beginning of what was produced, and a beginning
\* of what is in order is in order.
LEMMA BeginningTold == TypeOK /\ Carried /\ RoundsInOrder => StateBeforeDeath
<1> SUFFICES ASSUME TypeOK, Carried, RoundsInOrder, NEW c \in Conn,
                    NEW i \in 1..Len(sent[c])
             PROVE  /\ \A j \in 1..i : sent[c][j].tick <= sent[c][i].tick
                    /\ sent[c][i].type = "death" =>
                         StateOf(c, sent[c][i].tick) \in {sent[c][j] : j \in 1..i}
  BY DEF StateBeforeDeath
<1> DEFINE a == sent[c]
           b == Join(queue[c], posted[c])
<1>1. a \in Seq(Message) /\ b \in Seq(Message) /\ Join(a, b) = produced[c]
  BY JoinType, JoinAssociative DEF TypeOK, Carried
<1>2. Told(Join(a, b), c)
  BY <1>1 DEF RoundsInOrder
<1> HIDE DEF b
<1>3. \A j \in 1..Len(a) : j \in 1..Len(Join(a, b)) /\ Join(a, b)[j] = a[j]
  BY <1>1, ConcatProperties DEF Join
<1>4. \A j \in 1..i : j \in 1..Len(a)
  BY <1>1
<1> QED  BY <1>1, <1>2, <1>3, <1>4 DEF Told

\* A client has seen the state of a tick before it learns of a death in it, and
\* what it is told never goes back in time, however the io thread orders its
\* handlers and whenever writes end.
THEOREM StatesComeFirst == Spec => []StateBeforeDeath
<1>1. Spec => [](TypeOK /\ RoundsInOrder)
  BY TypeInvariant, RoundsInit, RoundsNext, PTL DEF Spec
<1> QED  BY <1>1, BeginningTold, CarriedInvariant, PTL

----------------------------------------------------------------------------
(* The abstract feed. *)

\* What follows a sequence begins right after its end ...
LEMMA AfterTheEnd ==
  ASSUME NEW S, NEW a \in Seq(S), NEW b \in Seq(S), b # <<>>
  PROVE  Len(a) < Len(Join(a, b)) /\ Join(a, b)[Len(a) + 1] = Head(b)
<1>1. Len(a) \in Nat /\ Len(b) \in Nat \ {0}
  BY EmptySeq
<1>2. Len(a) + 1 \in 1..Len(a) + Len(b)
  BY <1>1
<1> QED  BY <1>1, <1>2, ConcatProperties DEF Join

\* ... with the front of its own first part.
LEMMA FrontStays ==
  ASSUME NEW S, NEW b \in Seq(S), NEW d \in Seq(S), b # <<>>
  PROVE  Join(b, d) # <<>> /\ Head(Join(b, d)) = Head(b)
<1>1. Len(b) \in Nat \ {0} /\ Len(d) \in Nat
  BY EmptySeq
<1>2. Len(b \o d) = Len(b) + Len(d) /\ (b \o d)[1] = b[1]
  BY <1>1, ConcatProperties
<1> QED  BY <1>1, <1>2 DEF Join

\* The next message owed is the front of the queue.
LEMMA NextOwed ==
  ASSUME NEW S, NEW a \in Seq(S), NEW b \in Seq(S), NEW d \in Seq(S), b # <<>>
  PROVE  /\ Len(a) < Len(Join(Join(a, b), d))
         /\ Join(Join(a, b), d)[Len(a) + 1] = Head(b)
<1>1. Join(Join(a, b), d) = Join(a, Join(b, d))
  BY JoinAssociative
<1>2. Join(b, d) \in Seq(S) /\ Join(b, d) # <<>> /\ Head(Join(b, d)) = Head(b)
  BY JoinType, FrontStays
<1> QED  BY <1>1, <1>2, AfterTheEnd

LEMMA FeedInit == Init => Feed!Init
  BY DEF Init, Feed!Init

\* Every step is one of the feed's or leaves it alone: a broadcast produces, a
\* write that ends delivers what is owed next, a session that stops leaves.
LEMMA FeedNext ==
  ASSUME TypeOK, WireHasWork, Carried, [Next]_vars
  PROVE  [Feed!Next]_Feed!vars
<1>1. ASSUME LoopTick \/ UNCHANGED vars \/ \E c \in Conn : QueueMessage(c)
      PROVE  UNCHANGED Feed!vars
  BY <1>1 DEF LoopTick, QueueMessage, vars, sessionVars, Feed!vars
<1>2. ASSUME NEW dead \in Deaths, BroadcastState(dead)
      PROVE  Feed!Produce
  <2> DEFINE t == last_broadcast_tick + 1
             more(c) == IF c \in closed THEN <<>> ELSE Round(c, t, dead)
  <2>1. t \in 1..MaxTick
    BY <1>2, ConstantsAssumption DEF BroadcastState, TypeOK
  <2>2. \A c \in Conn : more(c) \in Seq(Message)
    BY <2>1, RoundType
  <2>3. /\ produced' = [c \in Conn |-> produced[c] \o more(c)]
        /\ sent' = sent /\ closed' = closed
    BY <1>2 DEF BroadcastState, sessionVars
  <2>4. \A c \in closed : more(c) = <<>>
    OBVIOUS
  <2> HIDE DEF more
  <2>5. ASSUME NEW c \in Conn
        PROVE  Feed!Extends(produced[c], produced'[c])
    <3> DEFINE a == produced[c]
               b == more(c)
    <3>1. a \in Seq(Message) /\ b \in Seq(Message) /\ produced'[c] = Join(a, b)
      BY <2>2, <2>3 DEF TypeOK, Join
    <3> HIDE DEF a, b
    <3>2. Len(a) <= Len(Join(a, b)) /\ a = SubSeq(Join(a, b), 1, Len(a))
      BY <3>1, Beginning
    <3> QED  BY <3>1, <3>2 DEF Feed!Extends, a
  <2>6. \A c \in closed : produced'[c] = produced[c]
    BY <2>3, <2>4, ConcatEmptySeq DEF TypeOK
  <2> QED  BY <2>3, <2>5, <2>6 DEF Feed!Produce
<1>3. ASSUME NEW c \in Conn, Written(c)
      PROVE  Feed!Deliver(c)
  <2>1. /\ queue[c] # <<>>
        /\ sent' = [sent EXCEPT ![c] = Append(@, Head(queue[c]))]
        /\ produced' = produced /\ closed' = closed
    BY <1>3 DEF Written, Delivered, WireHasWork
  <2>2. /\ Len(sent[c]) < Len(produced[c])
        /\ produced[c][Len(sent[c]) + 1] = Head(queue[c])
    <3> DEFINE a == sent[c]
               b == queue[c]
               d == posted[c]
    <3>1. /\ a \in Seq(Message) /\ b \in Seq(Message) /\ d \in Seq(Message)
          /\ b # <<>> /\ produced[c] = Join(Join(a, b), d)
      BY <2>1 DEF TypeOK, Carried
    <3> HIDE DEF a, b, d
    <3>2. /\ Len(a) < Len(Join(Join(a, b), d))
          /\ Join(Join(a, b), d)[Len(a) + 1] = Head(b)
      BY <3>1, NextOwed
    <3> QED  BY <3>1, <3>2 DEF a, b
  <2>3. sent' = [sent EXCEPT ![c] = Append(sent[c], produced[c][Len(sent[c])+1])]
    BY <2>1, <2>2 DEF TypeOK
  <2> QED  BY <2>1, <2>2, <2>3 DEF Feed!Deliver, Feed!Owed
<1>4. ASSUME NEW c \in Conn, WriteFailed(c) \/ Stop(c)
      PROVE  Feed!Leave(c) \/ UNCHANGED Feed!vars
  BY <1>4 DEF WriteFailed, Stop, Feed!Leave, Feed!vars
<1> QED  BY <1>1, <1>2, <1>3, <1>4 DEF Next, Feed!Next

\* The safety half of ImplementsFeed: whatever the program does is what a
\* ClientFeed may do.  (That it must, its fairness, is left to TLC.)
THEOREM BehavesLikeFeed == Spec => Feed!Init /\ [][Feed!Next]_(Feed!vars)
<1>1. TypeOK /\ WireHasWork /\ Carried /\ [Next]_vars => [Feed!Next]_(Feed!vars)
  BY FeedNext
<1> QED  BY <1>1, FeedInit, CarriedInvariant, PTL DEF Spec

=============================================================================
