------------------------------ MODULE Netcode -------------------------------
(***************************************************************************)
(* Prediction on the client and the input buffer of the server             *)
(* (server/src/netcode/client_prediction.cpp, reconciliation.cpp and       *)
(* input_buffer.cpp of cpp-pvp-server), joined by a network that loses,    *)
(* repeats and reorders both ways.  The three classes are a library: the   *)
(* code that joins them is not in the repository, so that a client takes   *)
(* the corrected state over after a mismatch and keeps its own otherwise,  *)
(* and that a server moves the player by the inputs it pops and reports    *)
(* the result, is external to it.                                          *)
(*                                                                         *)
(* Positions have one coordinate; an input moves the player by an integer, *)
(* on the client and on the server alike.  Inputs are numbered from one.   *)
(* Time is the age of the inputs in the buffer: what matters is whether    *)
(* buffer_delay_ms_ has passed since the server received one.  Counters    *)
(* for metrics are left out.                                               *)
(***************************************************************************)
EXTENDS Integers, Sequences, SequencesExt

CONSTANTS
  Moves,        \* what an input may move
  MaxPending,   \* MAX_PENDING_INPUTS of ClientPrediction
  BufferSize,   \* BUFFER_SIZE of InputBuffer
  Delay,        \* buffer_delay_ms_
  Threshold,    \* POSITION_THRESHOLD
  MaxInputs     \* bound: inputs pressed

ASSUME ConstantsAssumption ==
  /\ Moves \subseteq Int
  /\ MaxPending \in Nat \ {0} /\ BufferSize \in Nat \ {0}
  /\ Delay \in Nat /\ Threshold \in Nat /\ MaxInputs \in Nat

VARIABLES
  pressed,            \* the moves pressed so far; input i is pressed[i]
  position,           \* where the client shows the player
  input_history_,     \* sequences of the inputs kept for replay
  predictions_,       \* the predictions kept, oldest first
  last_acknowledged_, \* last_acknowledged_
  replayed,           \* history: inputs were replayed since the last press
  buffer_,            \* sequences in the server's buffer, in order
  age,                \* how long each input in the buffer has been there
  last_processed,     \* last_processed_sequence_ of the buffer
  player,             \* where the server has the player
  reports,            \* history: every state the server has sent
  applied             \* history: the inputs the server has applied

clientVars == <<pressed, position, input_history_, predictions_,
                last_acknowledged_, replayed>>
serverVars == <<buffer_, age, last_processed, player, reports, applied>>
vars == <<clientVars, serverVars>>

\* The inputs the client has sent.
Sent == 1 .. Len(pressed)

Init ==
  /\ pressed = <<>>
  /\ position = 0
  /\ input_history_ = <<>>
  /\ predictions_ = <<>>
  /\ last_acknowledged_ = 0
  /\ replayed = FALSE
  /\ buffer_ = <<>>
  /\ age = <<>>
  /\ last_processed = 0
  /\ player = 0
  /\ reports = {}
  /\ applied = <<>>

----------------------------------------------------------------------------
(* The client. *)

\* push_back to a deque that holds MaxPending.
Kept(deque, x) ==
  IF Len(deque) < MaxPending THEN Append(deque, x)
  ELSE Tail(Append(deque, x))

\* Predict and SavePrediction; the input is sent.
Press(move) ==
  LET n  == Len(pressed) + 1
      to == position + move
  IN  /\ n <= MaxInputs
      /\ pressed' = Append(pressed, move)
      /\ position' = to
      /\ input_history_' = Kept(input_history_, n)
      /\ predictions_' = Kept(predictions_, [sequence |-> n, position |-> to])
      /\ replayed' = FALSE
      /\ age' = Append(age, 0)
      /\ UNCHANGED last_acknowledged_
      /\ UNCHANGED <<buffer_, last_processed, player, reports, applied>>

\* GetUnacknowledgedInputs.
Unacknowledged(after) ==
  FoldLeft(LAMBDA result, n : IF n > after THEN Append(result, n) ELSE result,
           <<>>, input_history_)

\* SimulateInput, input after input.
Simulate(moves, from, inputs) ==
  FoldLeft(LAMBDA at, n : at + moves[n], from, inputs)

\* Resimulate.
Resimulate(from, inputs) == Simulate(pressed, from, inputs)

\* How many entries at the front of a deque have a lower number than n: what
\* a loop takes that pops the front while it is lower, and where lower_bound
\* points.
Lower(numbers, n) ==
  CHOOSE k \in 0 .. Len(numbers) :
    /\ \A i \in 1 .. k : numbers[i] < n
    /\ k < Len(numbers) => numbers[k+1] >= n

\* A deque whose entries have these numbers, popped up to sequence.
Popped(deque, numbers, sequence) ==
  SubSeq(deque, Lower(numbers, sequence + 1) + 1, Len(deque))

\* Slip: every input is forgotten.
AcknowledgeBefore(sequence) ==
  /\ last_acknowledged_' = sequence
  /\ predictions_' = Popped(predictions_,
       [i \in DOMAIN predictions_ |-> predictions_[i].sequence], sequence)
  /\ input_history_' = <<>>

\* Slip: the acknowledged prediction itself stays.
AcknowledgeKeeping(sequence) ==
  /\ last_acknowledged_' = sequence
  /\ predictions_' = predictions_
  /\ input_history_' = Popped(input_history_, input_history_, sequence)

\* AcknowledgeUpTo.
AcknowledgeUpTo(sequence) ==
  /\ last_acknowledged_' = sequence
  /\ predictions_' = Popped(predictions_,
       [i \in DOMAIN predictions_ |-> predictions_[i].sequence], sequence)
  /\ input_history_' = Popped(input_history_, input_history_, sequence)

Distance(a, b) == IF a < b THEN b - a ELSE a - b

\* Reconcile with a report of the server; one that finds no prediction
\* changes nothing.  Resimulation leaves the predictions as they were.
Reconcile(report) ==
  \E i \in DOMAIN predictions_ :
    /\ predictions_[i].sequence = report.sequence
    /\ IF Distance(report.position, predictions_[i].position) > Threshold
       THEN LET inputs == Unacknowledged(report.sequence) IN
            /\ position' = Resimulate(report.position, inputs)
            /\ replayed' = (inputs # <<>>)
       ELSE UNCHANGED <<position, replayed>>
    /\ AcknowledgeUpTo(report.sequence)
    /\ UNCHANGED pressed
    /\ UNCHANGED serverVars

----------------------------------------------------------------------------
(* The server. *)

\* The buffer is cut down from the front.
Limited(deque) ==
  SubSeq(deque, IF Len(deque) > BufferSize THEN Len(deque) - BufferSize + 1
                ELSE 1, Len(deque))

\* A sorted insertion.
Inserted(deque, n) == InsertAt(deque, Lower(deque, n) + 1, n)

\* Slip: only the last input is recognised as processed.
PushUnlessLast(n) ==
  /\ n # last_processed
  /\ \A i \in DOMAIN buffer_ : buffer_[i] # n
  /\ buffer_' = Limited(Inserted(buffer_, n))
  /\ age' = [m \in DOMAIN age |-> IF m \in Range(buffer_') \ {n} THEN age[m] ELSE 0]
  /\ UNCHANGED <<last_processed, player, reports, applied>>
  /\ UNCHANGED clientVars

\* Push, of an input that was sent at some time; one that was processed or is
\* waiting is not taken.
Push(n) ==
  /\ n > last_processed
  /\ \A i \in DOMAIN buffer_ : buffer_[i] # n
  /\ buffer_' = Limited(Inserted(buffer_, n))
  /\ age' = [m \in DOMAIN age |-> IF m \in Range(buffer_') \ {n} THEN age[m] ELSE 0]
  /\ UNCHANGED <<last_processed, player, reports, applied>>
  /\ UNCHANGED clientVars

\* Slip: the last input in the buffer decides, and is passed over.
PopIfLastIsDue ==
  /\ Len(buffer_) > 1
  /\ age[buffer_[Len(buffer_)]] = Delay
  /\ buffer_' = Tail(buffer_)
  /\ last_processed' = Head(buffer_)
  /\ player' = player + pressed[Head(buffer_)]
  /\ applied' = Append(applied, Head(buffer_))
  /\ reports' = reports \union {[sequence |-> last_processed',
                                 position |-> player']}
  /\ age' = [age EXCEPT ![Head(buffer_)] = 0]
  /\ UNCHANGED clientVars

\* Pop, and what the server does with it: the front alone decides.
Pop ==
  /\ buffer_ # <<>>
  /\ age[Head(buffer_)] = Delay
  /\ buffer_' = Tail(buffer_)
  /\ last_processed' = Head(buffer_)
  /\ player' = player + pressed[Head(buffer_)]
  /\ applied' = Append(applied, Head(buffer_))
  /\ reports' = reports \union {[sequence |-> last_processed',
                                 position |-> player']}
  /\ age' = [age EXCEPT ![Head(buffer_)] = 0]
  /\ UNCHANGED clientVars

\* The inputs that are not due yet.
Waiting == {n \in Range(buffer_) : age[n] < Delay}

Tick ==
  /\ Waiting # {}
  /\ age' = [n \in DOMAIN age |-> IF n \in Waiting THEN age[n] + 1 ELSE age[n]]
  /\ UNCHANGED <<buffer_, last_processed, player, reports, applied>>
  /\ UNCHANGED clientVars

Next ==
  \/ \E move \in Moves : Press(move)
  \/ \E report \in reports : Reconcile(report)
  \/ \E n \in Sent : Push(n)
  \/ Pop
  \/ Tick

\* Time passes and the server asks its buffer again and again.
Spec == Init /\ [][Next]_vars /\ WF_vars(Pop) /\ WF_vars(Tick)

----------------------------------------------------------------------------
(* Properties. *)

TypeOK ==
  /\ pressed \in Seq(Moves)
  /\ position \in Int
  /\ input_history_ \in Seq(Sent)
  /\ predictions_ \in Seq([sequence : Sent, position : Int])
  /\ last_acknowledged_ \in 0 .. Len(pressed)
  /\ replayed \in BOOLEAN
  /\ buffer_ \in Seq(Sent)
  /\ age \in [Sent -> 0 .. Delay]
  /\ last_processed \in 0 .. Len(pressed)
  /\ player \in Int
  /\ reports \subseteq [sequence : Sent, position : Int]
  /\ applied \in Seq(Sent)

\* Where a player is after the inputs from .. to, having been at "at".
Moved(at, from, to) ==
  Simulate(pressed, at, [i \in 1 .. to-from+1 |-> from+i-1])

\* The client keeps for replay exactly what the server has not acknowledged,
\* up to MaxPending inputs, and a prediction for each, however late, often or
\* out of order the reports come in.
HistoryIsTheRest ==
  LET n    == Len(pressed)
      from == IF n - last_acknowledged_ > MaxPending THEN n - MaxPending
              ELSE last_acknowledged_
  IN  /\ input_history_ = [i \in 1 .. n - from |-> from + i]
      /\ Len(predictions_) = n - from
      /\ \A i \in 1 .. n - from : predictions_[i].sequence = from + i

\* A correction loses no input and repeats none: it puts the player where the
\* server had it after the input it reports, moved by everything pressed
\* since; and acknowledgements never go back.
CorrectionReplays ==
  [][/\ last_acknowledged_' >= last_acknowledged_
     /\ pressed' = pressed /\ position' # position =>
          \E report \in reports :
            /\ report.sequence = last_acknowledged_'
            /\ position' = Moved(report.position, report.sequence + 1,
                                 Len(pressed))]_vars

\* The server applies inputs in the order in which they were pressed, each at
\* most once, and what it reports of an input is what all it applied up to
\* that one amount to.
AppliedInOrder ==
  /\ \A i, j \in DOMAIN applied : i < j => applied[i] < applied[j]
  /\ \A report \in reports : \E i \in DOMAIN applied :
       /\ applied[i] = report.sequence
       /\ report.position = Simulate(pressed, 0, SubSeq(applied, 1, i))

\* Both ends account for every input: none is replayed or applied twice, none
\* is dropped that is still owed.
InputsAccountedFor == TypeOK /\ HistoryIsTheRest /\ AppliedInOrder

\* Once its last input is acknowledged the client shows what the server
\* reported, up to the threshold, provided no inputs were replayed since that
\* input was pressed (the predictions for those are not replaced).
AtRestItAgrees ==
  pressed # <<>> /\ last_acknowledged_ = Len(pressed) /\ ~replayed =>
    \E report \in reports :
      /\ report.sequence = last_acknowledged_
      /\ Distance(position, report.position) <= Threshold

\* The same without the proviso: "correct the prediction error of the client
\* when the server's state is received" (reconciliation.cpp:3).
ErrorsAreCorrected ==
  pressed # <<>> /\ last_acknowledged_ = Len(pressed) =>
    \E report \in reports :
      /\ report.sequence = last_acknowledged_
      /\ Distance(position, report.position) <= Threshold

\* Whatever the server takes into its buffer it applies or passes in the end,
\* even when older inputs keep arriving and wait in front of it.
BufferDrains ==
  \A n \in 1 .. MaxInputs :
    n \in Range(buffer_) ~> last_processed >= n
=============================================================================
