--------------------------- MODULE SessionPresence ---------------------------
(***************************************************************************)
(* How the Hub knows that a session outside the history has a runtime      *)
(* (SessionPresenceService).  The runtime sends keepalives down its pipe;  *)
(* the Hub keeps the newest one as activeAt in its memory and, throttled,  *)
(* in the store; any other write on the session reads activeAt back from   *)
(* the store; a sweep detaches the session when activeAt is too old, by a  *)
(* compare-and-set on the stored one.                                      *)
(*                                                                         *)
(* Times are ages: how long ago, in one unit of time, capped at the first  *)
(* value that is too old.                                                  *)
(***************************************************************************)
EXTENDS Naturals

CONSTANTS
    PersistInterval,    \* SESSION_ACTIVE_PERSIST_INTERVAL_MS
    InactiveTimeout,    \* SESSION_INACTIVE_TIMEOUT_MS
    KeepAliveInterval,  \* KEEP_ALIVE_IDLE_INTERVAL_MS
    MaxDelay            \* the longest a keepalive stays in the pipe

ASSUME NumbersAssumption ==
    /\ PersistInterval \in Nat \ {0}
    /\ InactiveTimeout \in Nat
    /\ KeepAliveInterval \in Nat \ {0}
    /\ MaxDelay \in Nat

\* A keepalive is through before the next one is due, and one period, the
\* delay and the throttle together fit the timeout.
ASSUME TimingAssumption ==
    /\ MaxDelay < KeepAliveInterval
    /\ KeepAliveInterval + MaxDelay + PersistInterval <= InactiveTimeout

VARIABLES
    runtime,        \* the provider process
    sinceSent,      \* age of the last keepalive it sent
    pending,        \* that keepalive is still in the pipe
    active,         \* the Hub's memory says the session has a runtime
    storeActive,    \* and so does the store
    age,            \* age of activeAt in memory
    lag,            \* how much older activeAt is in the store
    known,          \* the Hub remembers what it persisted
    heard           \* age of the newest keepalive the Hub has handled

vars == <<runtime, sinceSent, pending, active, storeActive, age, lag, known, heard>>

TooOld == InactiveTimeout + 1

Capped(n) == IF n < TooOld THEN n ELSE TooOld

Smaller(m, n) == IF m < n THEN m ELSE n

TypeOK ==
    /\ runtime \in {"live", "gone"}
    /\ sinceSent \in 0..KeepAliveInterval
    /\ pending \in BOOLEAN
    /\ active \in BOOLEAN
    /\ storeActive \in BOOLEAN
    /\ age \in 0..TooOld
    /\ lag \in 0..TooOld
    /\ known \in BOOLEAN
    /\ heard \in 0..TooOld

-----------------------------------------------------------------------------
(* The runtime *)

Spawn ==
    /\ runtime = "gone" /\ ~pending /\ ~active
    /\ runtime' = "live"
    /\ sinceSent' = 0
    /\ UNCHANGED <<pending, active, storeActive, age, lag, known, heard>>

Send ==
    /\ runtime = "live" /\ ~pending
    /\ sinceSent' = 0
    /\ pending' = TRUE
    /\ UNCHANGED <<runtime, active, storeActive, age, lag, known, heard>>

\* The process dies; what it left in the pipe is read or dropped with it.
Crash ==
    /\ runtime = "live"
    /\ runtime' = "gone"
    /\ pending' \in {FALSE, pending}
    /\ UNCHANGED <<sinceSent, active, storeActive, age, lag, known, heard>>

-----------------------------------------------------------------------------
(* The Hub *)

\* Mutant: once a value is remembered, nothing is persisted again.
PersistsOnce(behind) == ~active \/ ~known

\* persistSessionAliveState, of an activeAt that is `behind` newer than the
\* stored one: throttled against what the Hub remembers, and written only
\* where it changes the row.
Persists(behind) == ~active \/ ~known \/ behind >= PersistInterval

\* handleSessionAlive of the keepalive in the pipe: activeAt only moves
\* forward.
HandleSessionAlive ==
    LET newAge == Smaller(age, sinceSent)
        behind == lag + (age - newAge)
        changes == Persists(behind) /\ (~storeActive \/ behind > 0)
    IN /\ pending
       /\ pending' = FALSE
       /\ heard' = sinceSent
       /\ active' = TRUE
       /\ age' = newAge
       /\ lag' = IF Persists(behind) THEN 0 ELSE behind
       /\ storeActive' = (storeActive \/ Persists(behind))
       /\ known' = (known \/ changes)
       /\ UNCHANGED <<runtime, sinceSent>>

\* refreshSessionSnapshot: memory is what the store says.
ReadBack(storedActive) ==
    /\ active' = storedActive
    /\ age' = Capped(age + lag)
    /\ lag' = 0
    /\ known' = TRUE

\* Any other durable write on the session.
Refresh ==
    /\ ReadBack(storeActive)
    /\ UNCHANGED <<runtime, sinceSent, pending, storeActive, heard>>

\* handleSessionEnd, of this runtime (after everything it sent), of an older
\* one or of the cleanup of a failed resume.  Settling a running lifecycle is
\* a durable write.
HandleSessionEnd ==
    /\ \/ runtime = "live" /\ ~pending /\ runtime' = "gone"
       \/ UNCHANGED runtime
    /\ storeActive' = FALSE
    /\ \/ ReadBack(FALSE)
       \/ active' = FALSE /\ known' = FALSE /\ UNCHANGED <<age, lag>>
    /\ UNCHANGED <<sinceSent, pending, heard>>

\* Mutant: the sweep compares with a stored time one unit newer.
ExpireInactiveMismatched ==
    /\ active /\ age > InactiveTimeout
    /\ IF storeActive /\ lag = 1
       THEN storeActive' = FALSE /\ active' = FALSE /\ known' = FALSE
       ELSE known' = FALSE /\ UNCHANGED <<active, storeActive>>
    /\ UNCHANGED <<runtime, sinceSent, pending, age, lag, heard>>

\* expireInactive: the compare-and-set finds the row only when the stored
\* activeAt is the one in memory; what the Hub remembers is dropped either way.
ExpireInactive ==
    /\ active /\ age > InactiveTimeout
    /\ IF storeActive /\ lag = 0
       THEN /\ storeActive' = FALSE
            /\ active' = FALSE
            /\ known' \in BOOLEAN
       ELSE known' = FALSE /\ UNCHANGED <<active, storeActive>>
    /\ UNCHANGED <<runtime, sinceSent, pending, age, lag, heard>>

\* A new Hub loads the store; the children of the old one are gone.
Restart ==
    /\ runtime' = "gone"
    /\ pending' = FALSE
    /\ ReadBack(storeActive)
    /\ UNCHANGED <<sinceSent, storeActive, heard>>

\* Time passes, but not past a keepalive that is due or one that must arrive.
Tick ==
    /\ runtime = "live" => sinceSent < KeepAliveInterval
    /\ pending => sinceSent < MaxDelay
    /\ sinceSent' = IF runtime = "live" \/ pending THEN sinceSent + 1 ELSE sinceSent
    /\ age' = Capped(age + 1)
    /\ heard' = Capped(heard + 1)
    /\ UNCHANGED <<runtime, pending, active, storeActive, lag, known>>

-----------------------------------------------------------------------------
(* The specification *)

\* A Hub that has just loaded the row an earlier one left.
Init ==
    /\ runtime = "gone" /\ sinceSent = 0 /\ pending = FALSE
    /\ active \in BOOLEAN /\ storeActive = active
    /\ age \in 0..TooOld /\ lag = 0 /\ known = TRUE
    /\ heard = age

Next ==
    \/ Spawn \/ Send \/ Crash
    \/ HandleSessionAlive \/ Refresh \/ HandleSessionEnd
    \/ ExpireInactive \/ Restart
    \/ Tick

Spec == Init /\ [][Next]_vars

\* Time passes, the pipe of a process is read, and the sweep is a timer.
FairSpec ==
    Spec /\ WF_vars(Tick) /\ WF_vars(HandleSessionAlive) /\ WF_vars(ExpireInactive)

-----------------------------------------------------------------------------
(* Properties *)

\* The store never falls a whole throttle interval behind the keepalives the
\* Hub has handled, whatever refreshes, sweeps and restarts come in between:
\* a Hub that loads it learns the presence of the session that precisely.
StoreFollowsKeepAlives ==
    active => storeActive /\ age + lag < heard + PersistInterval

\* A session whose runtime keeps its cadence is never old enough for the
\* sweep, although every refresh throws away the keepalives that the throttle
\* kept out of the store.
LiveSessionIsFresh ==
    runtime = "live" /\ active => age <= InactiveTimeout

\* A session whose runtime is gone is detached by the sweep, provided that the
\* last keepalive of the runtime was one of those the throttle let through.
PersistedSessionExpires ==
    (runtime = "gone" /\ ~pending /\ active /\ lag = 0) ~> ~active

-----------------------------------------------------------------------------
(* What a test of the repository says and the code does not do *)

\* hub/src/sync/sessionPresenceSweep.test.ts: the sweep persists the inactive
\* state of a session after the keepalive window expires.
CrashedSessionExpires ==
    (runtime = "gone" /\ ~pending /\ active) ~> ~active

=============================================================================
