------------------------ MODULE SessionPresence_proofs ------------------------
(***************************************************************************)
(* The store and the memory of the Hub stay close enough to each other,    *)
(* and to the runtime, for every choice of the timing constants.           *)
(***************************************************************************)
EXTENDS SessionPresence, TLAPS

\* Ages add up: the newest keepalive handled by a Hub with a live runtime is
\* the last one sent or, while that one is in the pipe, the one before it.
HeardOnTime ==
    runtime = "live" /\ active =>
        heard <= sinceSent + (IF pending THEN KeepAliveInterval ELSE 0)

PipeOnTime == pending => sinceSent <= MaxDelay

\* Memory and store agree on the presence, and on its time up to the throttle.
Coherent == (storeActive => active) /\ lag < PersistInterval

IInv == TypeOK /\ StoreFollowsKeepAlives /\ Coherent /\ PipeOnTime /\ HeardOnTime

\* The Hub starts with what it loads.
LEMMA InitIInv == Init => IInv
<1> SUFFICES ASSUME Init PROVE IInv
  OBVIOUS
<1>1. storeActive \in BOOLEAN /\ (active <=> storeActive) /\ pending \in BOOLEAN /\ known \in BOOLEAN
  BY Zenon DEF Init
<1>2. TypeOK
  <2>1. /\ runtime = "gone" /\ sinceSent = 0
        /\ active \in BOOLEAN /\ age \in 0..TooOld /\ lag = 0 /\ heard = age
    BY DEF Init
  <2> QED
    BY <1>1, <2>1, NumbersAssumption DEF TypeOK, TooOld
<1>3. active => age + lag < heard + PersistInterval
  BY NumbersAssumption DEF Init, TooOld
<1>4. PipeOnTime /\ HeardOnTime
  BY DEF Init, PipeOnTime, HeardOnTime
<1>5. lag < PersistInterval
  BY NumbersAssumption DEF Init
<1> QED
  BY <1>1, <1>2, <1>3, <1>4, <1>5 DEF IInv, StoreFollowsKeepAlives, Coherent

\* No step of the Hub, the runtime or the clock leaves the types.
LEMMA TypeStep == TypeOK /\ StoreFollowsKeepAlives /\ [Next]_vars => TypeOK'
<1> SUFFICES ASSUME TypeOK, StoreFollowsKeepAlives, [Next]_vars PROVE TypeOK'
  OBVIOUS
<1> USE NumbersAssumption, TimingAssumption DEF TypeOK, TooOld
<1>1. CASE Spawn
  BY <1>1 DEF Spawn
<1>2. CASE Send
  BY <1>2 DEF Send
<1>3. CASE Crash
  BY <1>3 DEF Crash
<1>4. CASE HandleSessionAlive
  <2>1. active' = TRUE /\ pending' = FALSE /\ storeActive' \in BOOLEAN /\ known' \in BOOLEAN
    BY <1>4, Zenon DEF HandleSessionAlive
  <2>2. age' \in 0..TooOld /\ lag' \in 0..TooOld /\ heard' \in 0..TooOld
    <3> DEFINE newAge == Smaller(age, sinceSent)
               behind == lag + (age - newAge)
    <3>1. newAge \in 0..TooOld /\ newAge <= age /\ age - newAge \in Nat
      BY DEF Smaller
    <3>2. age' = newAge /\ heard' = sinceSent
      BY <1>4 DEF HandleSessionAlive
    <3>3. lag' = IF Persists(behind) THEN 0 ELSE behind
      BY <1>4, Zenon DEF HandleSessionAlive
    <3>4. ~Persists(behind) => behind < PersistInterval
      BY <3>1 DEF Persists
    <3> QED
      BY <3>1, <3>2, <3>3, <3>4
  <2>3. runtime' = runtime /\ sinceSent' = sinceSent
    BY <1>4 DEF HandleSessionAlive
  <2> QED
    BY <2>1, <2>2, <2>3
<1>5. CASE Refresh
  BY <1>5 DEF Refresh, ReadBack, Capped
<1>6. CASE HandleSessionEnd
  <2>1. /\ runtime' \in {"live", "gone"} /\ sinceSent' = sinceSent
        /\ pending' = pending /\ heard' = heard /\ storeActive' = FALSE
    BY <1>6 DEF HandleSessionEnd
  <2>2. active' = FALSE /\ known' \in BOOLEAN
    BY <1>6, Zenon DEF HandleSessionEnd, ReadBack
  <2>3. age' \in 0..TooOld /\ lag' \in 0..TooOld
    BY <1>6 DEF HandleSessionEnd, ReadBack, Capped
  <2> QED
    BY <2>1, <2>2, <2>3
<1>7. CASE ExpireInactive
  BY <1>7 DEF ExpireInactive
<1>8. CASE Restart
  <2>1. /\ active' \in BOOLEAN /\ storeActive' \in BOOLEAN
        /\ known' \in BOOLEAN /\ pending' \in BOOLEAN
    BY <1>8, Zenon DEF Restart, ReadBack
  <2>2. /\ runtime' = "gone" /\ sinceSent' = sinceSent /\ heard' = heard
        /\ age' = Capped(age + lag) /\ lag' = 0
    BY <1>8 DEF Restart, ReadBack
  <2> QED
    BY <2>1, <2>2 DEF Capped
<1>9. CASE Tick
  BY <1>9 DEF Tick, Capped
<1>10. CASE UNCHANGED vars
  BY <1>10 DEF vars
<1> QED
  BY <1>1, <1>2, <1>3, <1>4, <1>5, <1>6, <1>7, <1>8, <1>9, <1>10 DEF Next

\* Every step keeps the inductive invariant.
LEMMA IInvStep == IInv /\ [Next]_vars => IInv'
<1> SUFFICES ASSUME IInv, [Next]_vars PROVE IInv'
  OBVIOUS
<1>0. TypeOK'
  BY TypeStep DEF IInv
<1> USE <1>0, NumbersAssumption, TimingAssumption
    DEF IInv, TypeOK, TooOld, StoreFollowsKeepAlives, Coherent, PipeOnTime, HeardOnTime
<1>1. CASE Spawn
  BY <1>1 DEF Spawn
<1>2. CASE Send
  BY <1>2 DEF Send
<1>3. CASE Crash
  BY <1>3 DEF Crash
<1>4. CASE HandleSessionAlive
  <2> DEFINE newAge == Smaller(age, sinceSent)
             behind == lag + (age - newAge)
  <2>1. /\ pending /\ ~pending' /\ active' /\ heard' = sinceSent /\ age' = newAge
        /\ runtime' = runtime /\ sinceSent' = sinceSent
    BY <1>4 DEF HandleSessionAlive
  <2>2. newAge \in Nat /\ newAge <= sinceSent /\ newAge <= age
    BY DEF Smaller
  <2>3. CASE Persists(behind)
    <3>1. storeActive' /\ lag' = 0
      BY <1>4, <2>3, Zenon DEF HandleSessionAlive
    <3> QED
      BY <2>1, <2>2, <3>1
  <2>4. CASE ~Persists(behind)
    <3>1. active /\ behind < PersistInterval
      BY <2>2, <2>4 DEF Persists
    <3>2. storeActive'
      BY <1>4, <3>1, Zenon DEF HandleSessionAlive
    <3>3. lag' = behind
      BY <1>4, <2>4, Zenon DEF HandleSessionAlive
    <3>4. age' + lag' < heard' + PersistInterval
      BY <2>1, <2>2, <3>1, <3>3
    <3> QED
      BY <2>1, <2>2, <3>1, <3>2, <3>3, <3>4
  <2> QED
    BY <2>3, <2>4
<1>5. CASE Refresh
  <2>1. /\ active' <=> storeActive
        /\ storeActive' <=> storeActive
        /\ pending' <=> pending
    BY <1>5, Zenon DEF Refresh, ReadBack
  <2>2. /\ age' = Capped(age + lag) /\ lag' = 0 /\ heard' = heard
        /\ runtime' = runtime /\ sinceSent' = sinceSent
    BY <1>5 DEF Refresh, ReadBack
  <2>3. StoreFollowsKeepAlives' /\ Coherent'
    BY <2>1, <2>2 DEF Capped
  <2>4. PipeOnTime' /\ HeardOnTime'
    BY <2>1, <2>2
  <2> QED
    BY <2>3, <2>4
<1>6. CASE HandleSessionEnd
  <2>1. ~active' /\ ~storeActive' /\ (pending' <=> pending)
    BY <1>6, Zenon DEF HandleSessionEnd, ReadBack
  <2>2. sinceSent' = sinceSent /\ lag' < PersistInterval
    BY <1>6 DEF HandleSessionEnd, ReadBack
  <2>3. StoreFollowsKeepAlives' /\ Coherent' /\ HeardOnTime'
    BY <2>1, <2>2
  <2>4. PipeOnTime'
    BY <2>1, <2>2
  <2> QED
    BY <2>3, <2>4
<1>7. CASE ExpireInactive
  BY <1>7 DEF ExpireInactive
<1>8. CASE Restart
  <2>1. (active' <=> storeActive) /\ (storeActive' <=> storeActive)
    BY <1>8, Zenon DEF Restart, ReadBack
  <2>2. /\ age' = Capped(age + lag) /\ lag' = 0 /\ heard' = heard
        /\ runtime' = "gone" /\ ~pending'
    BY <1>8 DEF Restart, ReadBack
  <2> QED
    BY <2>1, <2>2 DEF Capped
<1>9. CASE Tick
  <2>1. /\ runtime' = runtime /\ pending' = pending /\ active' = active
        /\ storeActive' = storeActive /\ lag' = lag
        /\ age' = Capped(age + 1) /\ heard' = Capped(heard + 1)
    BY <1>9 DEF Tick
  <2>2. /\ runtime = "live" \/ pending => sinceSent' = sinceSent + 1
        /\ pending => sinceSent < MaxDelay
    BY <1>9 DEF Tick
  <2>3. StoreFollowsKeepAlives' /\ Coherent'
    BY <2>1 DEF Capped
  <2>4. PipeOnTime'
    BY <2>1, <2>2
  <2>5. HeardOnTime'
    BY <2>1, <2>2 DEF Capped
  <2> QED
    BY <2>3, <2>4, <2>5
<1>10. CASE UNCHANGED vars
  BY <1>10 DEF vars
<1> QED
  BY <1>1, <1>2, <1>3, <1>4, <1>5, <1>6, <1>7, <1>8, <1>9, <1>10 DEF Next

\* The inductive invariant of the presence of a session.
THEOREM PresenceInvariant == Spec => []IInv
  BY InitIInv, IInvStep, PTL DEF Spec

\* Every variable keeps its type.
THEOREM PresenceTypeCorrect == Spec => []TypeOK
<1>1. IInv => TypeOK
  BY DEF IInv
<1> QED
  BY <1>1, PresenceInvariant, PTL

\* The store is less than one throttle interval behind what the Hub has heard.
THEOREM StoreFollows == Spec => []StoreFollowsKeepAlives
<1>1. IInv => StoreFollowsKeepAlives
  BY DEF IInv
<1> QED
  BY <1>1, PresenceInvariant, PTL

\* The sweep never takes a session from a runtime that keeps its cadence.
THEOREM LiveSessionStaysFresh == Spec => []LiveSessionIsFresh
<1>1. IInv => LiveSessionIsFresh
  BY NumbersAssumption, TimingAssumption
  DEF IInv, TypeOK, TooOld, StoreFollowsKeepAlives, PipeOnTime, HeardOnTime,
      LiveSessionIsFresh
<1> QED
  BY <1>1, PresenceInvariant, PTL

=============================================================================
