------------------------ MODULE InMemorySessionStore ------------------------
(***************************************************************************)
(* The in-memory session store of cpp-pvp-server                           *)
(* (server/src/storage/in_memory_session_store.cpp): sessions by id, the   *)
(* reverse index from players to sessions, expiry, and the thread that     *)
(* sweeps what has expired.                                                *)
(*                                                                         *)
(* Every method takes mutex_ for its whole body and is one action; the     *)
(* sweeping thread runs between them.  Of SessionData only the player id   *)
(* is kept.  Time is kept per session as what is left of its TTL, so the   *)
(* clock needs no bound; system_clock is taken not to jump backwards.      *)
(***************************************************************************)
EXTENDS Integers, FiniteSets

CONSTANTS
  SessionId,
  PlayerId,
  NoSession,   \* std::nullopt
  NoPlayer,    \* no entry in sessions_
  Ttl          \* ttl_seconds_

ASSUME StoreAssumption ==
  /\ NoSession \notin SessionId
  /\ NoPlayer \notin PlayerId
  /\ Ttl \in Nat

VARIABLES
  owner,       \* the player of each entry of sessions_
  left,        \* expiry_time - now of each entry; negative once expired
  index,       \* player_to_session_
  running,     \* running_
  cleaner,     \* where the cleanup thread is
  overlapped   \* history: players that ever had two entries at a time

storeVars == <<owner, left, index, running, cleaner, overlapped>>

StoreInit ==
  /\ owner = [s \in SessionId |-> NoPlayer]
  /\ left = [s \in SessionId |-> Ttl]
  /\ index = [p \in PlayerId |-> NoSession]
  /\ running = TRUE
  /\ cleaner = "asleep"
  /\ overlapped = {}

Stored(s) == owner[s] # NoPlayer

\* GetCurrentTimestamp() > expiry_time
IsExpired(s) == left[s] < 0

Live(s) == Stored(s) /\ ~IsExpired(s)

----------------------------------------------------------------------------
(* Operations. *)

\* A slip: the entry goes, its reverse index stays.
DropKeepingIndex(gone) ==
  /\ owner' = [s \in SessionId |-> IF s \in gone THEN NoPlayer ELSE owner[s]]
  /\ left' = [s \in SessionId |-> IF s \in gone THEN Ttl ELSE left[s]]
  /\ UNCHANGED index

\* Erases entries, and with each the reverse index of its player, whatever
\* session that index names.
Drop(gone) ==
  /\ owner' = [s \in SessionId |-> IF s \in gone THEN NoPlayer ELSE owner[s]]
  /\ left' = [s \in SessionId |-> IF s \in gone THEN Ttl ELSE left[s]]
  /\ index' = [p \in PlayerId |-> IF \E s \in gone : owner[s] = p
                                  THEN NoSession ELSE index[p]]

\* A slip: the former player's index is erased after the new one is set.
IndexErasedLast(s, p) ==
  [q \in PlayerId |-> IF q = owner[s] THEN NoSession
                      ELSE IF q = p THEN s ELSE index[q]]

\* SaveSession erases the index of the session's former player, then sets the
\* new one.
IndexAfterSave(s, p) ==
  [q \in PlayerId |-> IF q = p THEN s
                      ELSE IF q = owner[s] THEN NoSession ELSE index[q]]

SaveSession(s, p) ==
  /\ owner' = [owner EXCEPT ![s] = p]
  /\ left' = [left EXCEPT ![s] = Ttl]
  /\ index' = IndexAfterSave(s, p)
  /\ overlapped' = IF \E r \in SessionId \ {s} : owner[r] = p
                   THEN overlapped \union {p} ELSE overlapped
  /\ UNCHANGED <<running, cleaner>>

\* GetSession: an expired entry is erased on the way.
GetSession(s) ==
  /\ Stored(s) /\ IsExpired(s)
  /\ Drop({s})
  /\ UNCHANGED <<running, cleaner, overlapped>>

DeleteSession(s) ==
  /\ Stored(s)
  /\ Drop({s})
  /\ UNCHANGED <<running, cleaner, overlapped>>

\* A slip: an expired session is brought back to life.
RefreshAnyway(s) ==
  /\ Stored(s)
  /\ left' = [left EXCEPT ![s] = Ttl]
  /\ UNCHANGED <<owner, index, running, cleaner, overlapped>>

\* A slip: the TTL is added to the expiry time instead of to the time of day.
RefreshAdding(s) ==
  /\ Stored(s)
  /\ IF IsExpired(s)
     THEN Drop({s})
     ELSE left' = [left EXCEPT ![s] = @ + Ttl] /\ UNCHANGED <<owner, index>>
  /\ UNCHANGED <<running, cleaner, overlapped>>

\* RefreshSession: a live session gets a full TTL, an expired one is erased.
RefreshSession(s) ==
  /\ Stored(s)
  /\ IF IsExpired(s)
     THEN Drop({s})
     ELSE left' = [left EXCEPT ![s] = Ttl] /\ UNCHANGED <<owner, index>>
  /\ UNCHANGED <<running, cleaner, overlapped>>

\* GetSessionByPlayerId: an index entry whose session is gone or expired is
\* erased, the expired session with it.
GetSessionByPlayerId(p) ==
  LET s == index[p] IN
  /\ s # NoSession /\ ~Live(s)
  /\ index' = [index EXCEPT ![p] = NoSession]
  /\ owner' = [owner EXCEPT ![s] = NoPlayer]
  /\ left' = [left EXCEPT ![s] = Ttl]
  /\ UNCHANGED <<running, cleaner, overlapped>>

\* What the same call returns.
Lookup(p) == IF index[p] # NoSession /\ Live(index[p]) THEN index[p]
             ELSE NoSession

\* Time passes for every entry.
TimePasses ==
  /\ \E s \in SessionId : Live(s)
  /\ left' = [s \in SessionId |-> IF Live(s) THEN left[s] - 1 ELSE left[s]]
  /\ UNCHANGED <<owner, index, running, cleaner, overlapped>>

----------------------------------------------------------------------------
(* The cleanup thread. *)

\* A slip of the loop: its head does not look at running_, so a wake-up that
\* finds it cleared goes back to sleep.
WakesForEver ==
  /\ cleaner = "asleep"
  /\ cleaner' = IF running THEN "sweeping" ELSE "asleep"
  /\ UNCHANGED <<owner, left, index, running, overlapped>>

\* The sleep ends and running_ is read; StopCleanup may come before the sweep.
CleanerWakes ==
  /\ cleaner = "asleep"
  /\ cleaner' = IF running THEN "sweeping" ELSE "ended"
  /\ UNCHANGED <<owner, left, index, running, overlapped>>

\* A slip: the thread ends after its first sweep.
SweepsOnce ==
  /\ cleaner = "sweeping"
  /\ Drop({s \in SessionId : Stored(s) /\ IsExpired(s)})
  /\ cleaner' = "ended"
  /\ UNCHANGED <<running, overlapped>>

\* CleanExpiredSessions, then running_ is read at the head of the loop.
CleanerSweeps ==
  /\ cleaner = "sweeping"
  /\ Drop({s \in SessionId : Stored(s) /\ IsExpired(s)})
  /\ cleaner' = IF running THEN "asleep" ELSE "ended"
  /\ UNCHANGED <<running, overlapped>>

\* StopCleanup up to join().
StopCleanup ==
  /\ running
  /\ running' = FALSE
  /\ UNCHANGED <<owner, left, index, cleaner, overlapped>>

StoreNext ==
  \/ \E s \in SessionId, p \in PlayerId : SaveSession(s, p)
  \/ \E s \in SessionId : GetSession(s) \/ DeleteSession(s) \/ RefreshSession(s)
  \/ \E p \in PlayerId : GetSessionByPlayerId(p)
  \/ TimePasses
  \/ CleanerWakes
  \/ CleanerSweeps
  \/ StopCleanup

\* The thread is scheduled, and its sleeps end.
StoreFairness == WF_storeVars(CleanerWakes) /\ WF_storeVars(CleanerSweeps)

StoreSpec == StoreInit /\ [][StoreNext]_storeVars /\ StoreFairness

----------------------------------------------------------------------------
(* Properties. *)

\* The types; no entry ever has more than one full TTL to live.
StoreTypeOK ==
  /\ owner \in [SessionId -> PlayerId \union {NoPlayer}]
  /\ left \in [SessionId -> -1..Ttl]
  /\ index \in [PlayerId -> SessionId \union {NoSession}]
  /\ running \in BOOLEAN
  /\ cleaner \in {"asleep", "sweeping", "ended"}
  /\ overlapped \subseteq PlayerId

\* The reverse index never dangles and never names another player's session,
\* through overwrites, deletes, expiry and sweeps: what a lookup by player
\* returns is a session of that player.
IndexSound ==
  \A p \in PlayerId : index[p] # NoSession => owner[index[p]] = p

\* As long as a player never had two sessions at a time the lookup by player
\* finds its live session.
IndexComplete ==
  \A p \in PlayerId \ overlapped, s \in SessionId :
    owner[s] = p => index[p] = s

\* The two directions together: what the lookup by player returns is right,
\* and complete where the code makes it so.
IndexAgrees == IndexSound /\ IndexComplete

\* A session that has expired is never live again unless it is saved anew.
NoResurrection ==
  [][\A s \in SessionId :
       Stored(s) /\ IsExpired(s) =>
         \/ left'[s] = left[s]
         \/ owner'[s] = NoPlayer
         \/ \E p \in PlayerId : SaveSession(s, p)]_storeVars

\* While the cleaner runs an expired session does not stay.
ExpiredAreSwept ==
  \A s \in SessionId :
    (Stored(s) /\ IsExpired(s)) ~> (~(Stored(s) /\ IsExpired(s)) \/ ~running)

\* StopCleanup's join() returns.
StopReturns == (~running) ~> (cleaner = "ended")

\* "query the session by player_id; nullopt if there is none"
\* (session_store.h:81-83): a player with a live session is found.
LookupComplete ==
  \A p \in PlayerId :
    (\E s \in SessionId : Live(s) /\ owner[s] = p) => Lookup(p) # NoSession
=============================================================================
