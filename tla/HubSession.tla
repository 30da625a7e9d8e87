----------------------------- MODULE HubSession -----------------------------
(***************************************************************************)
(* The life of one Hub session: its durable row, the Hub's cached copy,    *)
(* the runtimes AppCore forks for it, and the commands users run on it.    *)
(*                                                                         *)
(* The Hub is a single JavaScript thread.  A step of this module is one    *)
(* uninterrupted stretch of it: from an event or an answer to the next     *)
(* await that waits for something outside the Hub (an RPC answer, a change *)
(* of the session, a timer).  Awaits of work that is already done are part *)
(* of the stretch, and a command whose wait is over goes on before the     *)
(* next event is taken (Drained).                                          *)
(***************************************************************************)
EXTENDS Naturals, FiniteSets, SessionLifecycle

CONSTANTS
    Drivers,        \* provider drivers the session can run on
    Tokens,         \* provider session ids (durable resume tokens)
    NoToken,        \* no durable handle
    Runtimes,       \* slots for provider processes forked by AppCore
    NoRuntime,      \* no process
    Commands,       \* the kinds of command users issue
    Ops,            \* slots for commands in flight
    Fallback,       \* how a session with no token resumes on each driver
    MaxRestarts     \* bound on the Hub restarts

CommandKinds ==
    {"close", "archive", "unarchive", "resume", "start", "abort", "send", "switch"}

ASSUME DriversAssumption == Drivers # {}
ASSUME TokensAssumption == NoToken \notin Tokens
ASSUME RuntimesAssumption == NoRuntime \notin Runtimes
ASSUME CommandsAssumption == Commands \subseteq CommandKinds
ASSUME FallbackAssumption == Fallback \in [Drivers -> {"replay", "continuity", "none"}]
ASSUME BoundsAssumption == MaxRestarts \in Nat

VARIABLES
    hub,            \* the session in the store and in the Hub's memory
    runtimes,       \* the provider processes
    target,         \* the process session RPCs are sent to
    ops,            \* the commands in flight
    hasMessages,    \* the session has messages in its log
    restarts        \* Hub restarts so far

vars == <<hub, runtimes, target, ops, hasMessages, restarts>>

-----------------------------------------------------------------------------
(* Types *)

Handles == [Drivers -> Tokens \cup {NoToken}]

Row == [active : BOOLEAN, lifecycle : LifecycleStates,
        driver : Drivers, handles : Handles]

Hub == [store : Row, cache : Row, thinking : BOOLEAN, stopping : BOOLEAN]

\* A child reads the session (connected), writes its own metadata (synced) and
\* reports session-started (live).  One that was handed the session by a
\* handoff writes no metadata.
RuntimeStates == {"none", "starting", "handed", "connected", "synced", "abandoned",
                  "live", "stopping", "ended"}

Runtime == [state : RuntimeStates, driver : Drivers, handles : Handles]

OpStates == {"idle", "gate", "teardown", "abort", "availability", "stopKill",
             "stopWait", "spawn", "failed", "acked", "wait", "cleanup"}

Op == [kind : CommandKinds, pc : OpStates, prev : LifecycleStates,
       token : Tokens \cup {NoToken}, driver : Drivers, prevDriver : Drivers,
       handoff : BOOLEAN, seen : BOOLEAN, child : Runtimes \cup {NoRuntime}]

TypeOK ==
    /\ hub \in Hub
    /\ runtimes \in [Runtimes -> Runtime]
    /\ target \in Runtimes \cup {NoRuntime}
    /\ ops \in [Ops -> Op]
    /\ hasMessages \in BOOLEAN
    /\ restarts \in 0..MaxRestarts

-----------------------------------------------------------------------------
(* The session in the store and in the cache.  Each operator is a handler  *)
(* of the Hub: the session before it, the session after it.                *)

TokenOf(row) == row.handles[row.driver]

Visible(row) == VisibleLifecycle(row.active, row.lifecycle)

\* refreshSession: the cached copy is read again from the store, thinking only
\* survives on an active row, and the session-updated event it emits carries
\* `active`, so that the SyncEngine forgets a runtime that was stopping.
Refresh(h) ==
    [h EXCEPT !.cache = h.store,
              !.thinking = h.store.active /\ h.thinking,
              !.stopping = FALSE]

CommitLifecycle(h, lifecycle) ==
    Refresh([h EXCEPT !.store.lifecycle = lifecycle])

\* writeSessionResumeToken: the handle of the driver the row names now.
WriteToken(h, token) ==
    Refresh([h EXCEPT !.store.handles[h.store.driver] = token])

\* Mutant: the driver is written and not read back.
WriteDriverUnread(h, driver) == [h EXCEPT !.store.driver = driver]

WriteDriver(h, driver) == Refresh([h EXCEPT !.store.driver = driver])

\* A runtime reports its provider session id; the merge keeps the lifecycle
\* the Hub owns.
MergeRuntimeMetadata(h, driver, token) ==
    Refresh([h EXCEPT !.store.driver = driver, !.store.handles[driver] = token])

\* A child writes its metadata with the handles of the session it once read:
\* when the versioned write finds a newer row, it is retried with the same
\* value until it gets through.
MergeBootstrapMetadata(h, driver, handles) ==
    Refresh([h EXCEPT !.store.driver = driver, !.store.handles = handles])

MarkInactive(h) ==
    [h EXCEPT !.cache.active = FALSE, !.thinking = FALSE, !.store.active = FALSE]

TransitionLifecycle(h, lifecycle, markInactive) ==
    CommitLifecycle(IF markInactive THEN MarkInactive(h) ELSE h, lifecycle)

NormalizeInactive(h) ==
    IF ResolveInactive(h.cache.lifecycle) = h.cache.lifecycle
    THEN h
    ELSE CommitLifecycle(h, ResolveInactive(h.cache.lifecycle))

\* Mutant: the sweep and the session end forget to settle the lifecycle.
DeactivateUnsettled(h) == [MarkInactive(h) EXCEPT !.stopping = FALSE]

\* deactivateSession, with the patch {active: false} it emits.
Deactivate(h) == [NormalizeInactive(MarkInactive(h)) EXCEPT !.stopping = FALSE]

HandleSessionEnd(h) ==
    IF h.cache.active \/ h.thinking
    THEN Deactivate(h)
    ELSE [h EXCEPT !.store.active = FALSE]

\* Mutant: the throttle also applies to the first keepalive.
HandleSessionAliveThrottled(h, thinks, persists, broadcasts) ==
    IF IsHistory(h.cache.lifecycle)
    THEN h
    ELSE [h EXCEPT !.cache.active = TRUE,
                   !.thinking = thinks,
                   !.store.active = @ \/ persists]

\* Mutant: keepalives of history sessions are not blocked.
HandleSessionAliveUnblocked(h, thinks, persists, broadcasts) ==
    [h EXCEPT !.cache.active = TRUE, !.thinking = thinks, !.store.active = TRUE]

\* handleSessionAlive: a first keepalive is always persisted and broadcast, a
\* later one when its throttle lets it; a change of thinking is broadcast.
HandleSessionAlive(h, thinks, persists, broadcasts) ==
    IF IsHistory(h.cache.lifecycle)
    THEN h
    ELSE [h EXCEPT !.cache.active = TRUE,
                   !.thinking = thinks,
                   !.store.active = @ \/ persists \/ ~h.cache.active,
                   !.stopping = @ /\ h.cache.active /\ h.thinking = thinks
                                  /\ ~broadcasts]

\* ingestSessionEnd: a runtime that stopped for idleness leaves an open session.
IngestSessionEnd(h) ==
    HandleSessionEnd(IF h.stopping THEN CommitLifecycle(h, "open") ELSE h)

\* Mutant: only the detached running sessions are repaired.
BootRepairRunningOnly(row) ==
    IF row.active THEN row ELSE [row EXCEPT !.lifecycle = ResolveInactive(@)]

\* The drifts a starting Hub repairs in the store.
BootRepair(row) ==
    LET detached == [row EXCEPT !.active = @ /\ ~IsHistory(row.lifecycle)]
    IN IF detached.active
       THEN detached
       ELSE [detached EXCEPT !.lifecycle = ResolveInactive(@)]

Loaded(row) ==
    [store |-> row, cache |-> row, thinking |-> FALSE, stopping |-> FALSE]

-----------------------------------------------------------------------------
(* The commands in flight *)

AnyDriver == CHOOSE driver \in Drivers : TRUE

IdleOp ==
    [kind |-> "close", pc |-> "idle", prev |-> "open", token |-> NoToken,
     driver |-> AnyDriver, prevDriver |-> AnyDriver, handoff |-> FALSE,
     seen |-> FALSE, child |-> NoRuntime]

NoHandles == [driver \in Drivers |-> NoToken]

NoProcess == [state |-> "none", driver |-> AnyDriver, handles |-> NoHandles]

At(o, pc) == ops[o].pc = pc

Issue(o, kind) == At(o, "idle") /\ kind \in Commands

Finish(o) == ops' = [ops EXCEPT ![o] = IdleOp]

GoTo(o, pc) == ops' = [ops EXCEPT ![o].pc = pc]

\* The resume contract: an active session that holds the token it was resumed
\* with.  Start, continuity resume and driver switch only ask for activity.
IsReady(op, h) ==
    h.cache.active /\ (op.token # NoToken => TokenOf(h.cache) = op.token)

\* The contract saw the session active and sees it inactive now.
IsLost(op, h) == op.token # NoToken /\ op.seen /\ ~h.cache.active

\* The contract sees the session active for the first time, with another token.
IsNoticed(op, h) == op.token # NoToken /\ h.cache.active /\ ~op.seen

\* The wait of a command is over, or takes note of what it sees: the session
\* event that made it so runs the listener before any other event.
Settled(o) ==
    \/ At(o, "wait") /\ (\/ IsReady(ops[o], hub)
                         \/ IsLost(ops[o], hub)
                         \/ IsNoticed(ops[o], hub))
    \/ At(o, "stopWait") /\ ~hub.cache.active
    \/ At(o, "gate") /\ ~hub.stopping

Drained == \A o \in Ops : ~Settled(o)

-----------------------------------------------------------------------------
(* Bringing a session up: mark it running, fork a runtime, wait for it     *)

\* Mutant: the command does not keep the token it takes out of the store.
BeginSpawnForgetful(o, kind, h, token, handoff) ==
    /\ hub' = CommitLifecycle(h, "running")
    /\ ops' = [ops EXCEPT ![o] =
                 [IdleOp EXCEPT !.kind = kind, !.pc = "spawn",
                                !.prev = Visible(h.cache), !.handoff = handoff,
                                !.driver = h.cache.driver,
                                !.prevDriver = h.cache.driver]]

\* markSpawnStarting, then the spawn RPC.  A handoff is a driver switch or a
\* continuity resume: the child gets the conversation in a file.
BeginSpawn(o, kind, h, token, handoff) ==
    /\ hub' = CommitLifecycle(h, "running")
    /\ ops' = [ops EXCEPT ![o] =
                 [IdleOp EXCEPT !.kind = kind, !.pc = "spawn",
                                !.prev = Visible(h.cache), !.token = token,
                                !.handoff = handoff,
                                !.driver = h.cache.driver,
                                !.prevDriver = h.cache.driver]]

\* No machine online, no way to resume, no handoff: nothing is marked.
Refuse(o, h) == hub' = h /\ Finish(o)

StartInactive(o, kind, h) ==
    \/ Visible(h.cache) # "archived" /\ BeginSpawn(o, kind, h, NoToken, FALSE)
    \/ Refuse(o, h)

\* The token is taken out of the store before the spawn: only the command
\* holds it until the contract is met or the spawn is undone.
ResumeInactive(o, kind, h) ==
    LET token == TokenOf(h.cache)
    IN \/ /\ Visible(h.cache) # "archived"
          /\ \/ /\ token # NoToken
                /\ BeginSpawn(o, kind, WriteToken(h, NoToken), token, FALSE)
             \/ /\ token = NoToken
                /\ Fallback[h.cache.driver] # "none"
                /\ BeginSpawn(o, kind, h, NoToken, Fallback[h.cache.driver] = "continuity")
       \/ Refuse(o, h)

\* Mutant: a failed resume does not write its token back.
RestoreSpawnTokenless(h, op) ==
    LET restored == CommitLifecycle(h, op.prev)
    IN IF op.kind = "switch" /\ restored.cache.driver # op.prevDriver
       THEN WriteDriver(restored, op.prevDriver)
       ELSE restored

\* What a failed spawn puts back: the token, the lifecycle before the spawn
\* and, for a driver switch, the driver.
RestoreSpawn(h, op) ==
    LET withToken == IF op.token = NoToken THEN h ELSE WriteToken(h, op.token)
        restored == CommitLifecycle(withToken, op.prev)
    IN IF op.kind = "switch" /\ restored.cache.driver # op.prevDriver
       THEN WriteDriver(restored, op.prevDriver)
       ELSE restored

\* AppCore forks the child of a spawn.
Fork(o, r) ==
    /\ At(o, "spawn") /\ ops[o].child = NoRuntime
    /\ runtimes[r].state = "none"
    /\ runtimes' = [runtimes EXCEPT ![r] =
                      [NoProcess EXCEPT
                         !.state = IF ops[o].handoff THEN "handed" ELSE "starting",
                         !.driver = ops[o].driver]]
    /\ ops' = [ops EXCEPT ![o].child = r]
    /\ UNCHANGED <<hub, target, hasMessages, restarts>>

\* The spawn of command o goes on when child r reports or is lost.
Awaits(o, r) == ops[o].pc \in {"spawn", "acked"} /\ ops[o].child = r

\* The spawn of a child fails.  The files of a handoff are removed before the
\* Hub hears of it; without a handoff nothing that was read from a runtime
\* comes between the failure and what it puts back.
ChildLost(o) ==
    IF ops[o].handoff \/ At(o, "acked")
    THEN /\ ops' = [ops EXCEPT ![o].pc = IF @ = "spawn" THEN "failed" ELSE @,
                               ![o].child = NoRuntime]
         /\ UNCHANGED hub
    ELSE hub' = RestoreSpawn(hub, ops[o]) /\ Finish(o)

\* The child did not report its session in time, or broke the protocol: it is
\* told to stop.
AbandonSpawn(o) ==
    /\ At(o, "spawn") /\ ops[o].child # NoRuntime
    /\ runtimes' = [runtimes EXCEPT ![ops[o].child].state = "abandoned",
                                    ![ops[o].child].handles = NoHandles]
    /\ ChildLost(o)
    /\ UNCHANGED <<target, hasMessages, restarts>>

\* The spawn RPC answers an error: nothing was forked, or the handoff failed.
SpawnFailed(o) ==
    /\ At(o, "failed") \/ (At(o, "spawn") /\ ops[o].child = NoRuntime)
    /\ hub' = RestoreSpawn(hub, ops[o])
    /\ Finish(o)
    /\ UNCHANGED <<runtimes, target, hasMessages, restarts>>

\* The spawn RPC answers success.  When the files of a handoff cannot be
\* removed, the child that started is told to stop and the spawn fails.
SpawnAcked(o) ==
    /\ At(o, "acked")
    /\ \/ /\ ops' = [ops EXCEPT ![o].pc = "wait", ![o].child = NoRuntime]
          /\ UNCHANGED runtimes
       \/ /\ ops[o].handoff
          /\ ops' = [ops EXCEPT ![o].pc = "failed", ![o].child = NoRuntime]
          /\ runtimes' = [r \in Runtimes |->
                            IF r = ops[o].child /\ runtimes[r].state = "live"
                            THEN [runtimes[r] EXCEPT !.state = "stopping"]
                            ELSE runtimes[r]]
    /\ UNCHANGED <<hub, target, hasMessages, restarts>>

-----------------------------------------------------------------------------
(* A command whose wait is over *)

AppendMessage(h) == hub' = Refresh(h) /\ hasMessages' = TRUE

SpawnReady(o) ==
    /\ At(o, "wait") /\ IsReady(ops[o], hub)
    /\ CASE ops[o].kind = "switch" ->
               hub' = WriteDriver(hub, ops[o].driver) /\ UNCHANGED hasMessages
         [] ops[o].kind = "send" ->
               AppendMessage(TransitionLifecycle(hub, "running", FALSE))
         [] OTHER ->
               /\ hub' = TransitionLifecycle(hub, "running", FALSE)
               /\ UNCHANGED hasMessages
    /\ Finish(o)
    /\ UNCHANGED <<runtimes, target, restarts>>

SpawnNoticed(o) ==
    /\ At(o, "wait") /\ IsNoticed(ops[o], hub) /\ ~IsReady(ops[o], hub)
    /\ ops' = [ops EXCEPT ![o].seen = TRUE]
    /\ UNCHANGED <<hub, runtimes, target, hasMessages, restarts>>

SpawnLost(o) ==
    /\ At(o, "wait") /\ IsLost(ops[o], hub)
    /\ GoTo(o, "cleanup")
    /\ UNCHANGED <<hub, runtimes, target, hasMessages, restarts>>

\* The source runtime of a driver switch is gone.  When no machine is online
\* now, the switch returns after markSpawnStarting and restores nothing.
SwitchStopped(o) ==
    /\ At(o, "stopWait") /\ ~hub.cache.active
    /\ hub' = CommitLifecycle(hub, "running")
    /\ \/ ops' = [ops EXCEPT ![o].pc = "spawn", ![o].prev = Visible(hub.cache)]
       \/ Finish(o)
    /\ UNCHANGED <<runtimes, target, hasMessages, restarts>>

\* The runtime a send waited for is no longer stopping.  Whether the session
\* was archived is asked of the object read before the wait, which the Hub may
\* have updated in place or replaced since.
GateOpened(o) ==
    /\ At(o, "gate") /\ ~hub.stopping
    /\ IF hub.cache.active
       THEN AppendMessage(hub) /\ Finish(o)
       ELSE \E unarchives \in {FALSE, ops[o].prev = "archived"} :
              LET h == IF unarchives /\ Visible(hub.cache) = "archived"
                       THEN TransitionLifecycle(hub, "closed", FALSE)
                       ELSE hub
              IN /\ IF hasMessages
                    THEN ResumeInactive(o, "send", h)
                    ELSE StartInactive(o, "send", h)
                 /\ UNCHANGED hasMessages
    /\ UNCHANGED <<runtimes, target, restarts>>

Continue(o) ==
    SpawnReady(o) \/ SpawnNoticed(o) \/ SpawnLost(o) \/ SwitchStopped(o) \/ GateOpened(o)

-----------------------------------------------------------------------------
(* A user issues a command *)

\* closeSession and archiveSession.  Whether there is a runtime to kill is
\* asked of the session object the command holds, after the transition marked
\* that very object inactive.
CloseOrArchive(o, kind, lifecycle) ==
    LET markInactive == hub.cache.active
        heldActive == hub.cache.active /\ ~markInactive
    IN /\ Issue(o, kind)
       /\ Visible(hub.cache) # "archived"
       /\ hub' = TransitionLifecycle(hub, lifecycle, markInactive)
       /\ ops' = IF heldActive
                 THEN [ops EXCEPT ![o] = [IdleOp EXCEPT !.kind = kind, !.pc = "teardown"]]
                 ELSE ops
       /\ UNCHANGED <<runtimes, target, hasMessages, restarts>>

Unarchive(o) ==
    /\ Issue(o, "unarchive")
    /\ Visible(hub.cache) = "archived"
    /\ hub' = TransitionLifecycle(hub, "closed", FALSE)
    /\ UNCHANGED <<runtimes, target, ops, hasMessages, restarts>>

Resume(o) ==
    /\ Issue(o, "resume") /\ ~hub.cache.active
    /\ ResumeInactive(o, "resume", hub)
    /\ UNCHANGED <<runtimes, target, hasMessages, restarts>>

Start(o) ==
    /\ Issue(o, "start") /\ ~hub.cache.active
    /\ StartInactive(o, "start", hub)
    /\ UNCHANGED <<runtimes, target, hasMessages, restarts>>

Abort(o) ==
    /\ Issue(o, "abort") /\ hub.cache.active
    /\ ops' = [ops EXCEPT ![o] = [IdleOp EXCEPT !.kind = "abort", !.pc = "abort"]]
    /\ UNCHANGED <<hub, runtimes, target, hasMessages, restarts>>

\* sendMessage: an active session takes the message, unless its runtime is
\* stopping; an inactive one is unarchived and brought up first.
Send(o) ==
    /\ Issue(o, "send")
    /\ IF hub.cache.active
       THEN IF hub.stopping
            THEN /\ ops' = [ops EXCEPT ![o] =
                             [IdleOp EXCEPT !.kind = "send", !.pc = "gate",
                                            !.prev = hub.cache.lifecycle]]
                 /\ UNCHANGED <<hub, hasMessages>>
            ELSE AppendMessage(hub) /\ UNCHANGED ops
       ELSE LET h == IF Visible(hub.cache) = "archived"
                     THEN TransitionLifecycle(hub, "closed", FALSE)
                     ELSE hub
            IN /\ IF hasMessages
                  THEN ResumeInactive(o, "send", h)
                  ELSE StartInactive(o, "send", h)
               /\ UNCHANGED hasMessages
    /\ UNCHANGED <<runtimes, target, restarts>>

\* switchSessionDriver up to its first await.
Switch(o, driver) ==
    /\ Issue(o, "switch")
    /\ driver # hub.cache.driver
    /\ hub.cache.active /\ ~hub.thinking
    /\ \E pc \in {"availability", "stopKill"} :
         ops' = [ops EXCEPT ![o] =
                   [IdleOp EXCEPT !.kind = "switch", !.pc = pc, !.handoff = TRUE,
                                  !.driver = driver, !.prevDriver = hub.cache.driver]]
    /\ UNCHANGED <<hub, runtimes, target, hasMessages, restarts>>

-----------------------------------------------------------------------------
(* Timers and RPC answers *)

\* The contract or the settle timer of a spawn fires.
SpawnTimeout(o) ==
    /\ At(o, "wait")
    /\ IF ops[o].token # NoToken
       THEN GoTo(o, "cleanup") /\ UNCHANGED hub
       ELSE hub' = RestoreSpawn(hub, ops[o]) /\ Finish(o)
    /\ UNCHANGED <<runtimes, target, hasMessages, restarts>>

StopTimeout(o) ==
    /\ At(o, "stopWait") \/ At(o, "gate")
    /\ Finish(o)
    /\ UNCHANGED <<hub, runtimes, target, hasMessages, restarts>>

\* The process that session RPCs reach answers them.
Answers ==
    target # NoRuntime /\ runtimes[target].state \in {"live", "stopping", "ended"}

\* killSession reached the runtime, which answers before it shuts down.
Killed ==
    [runtimes EXCEPT ![target].state = IF @ = "live" THEN "stopping" ELSE @]

KillAnswered == Answers /\ runtimes' = Killed

\* No handler, a timeout (the request may still have been read) or a lost child.
KillFailed ==
    \/ UNCHANGED runtimes
    \/ target # NoRuntime /\ runtimes' = Killed

\* The kill of close/archive or of the cleanup of a failed resume is over;
\* both go on whatever it answered.
KillReturned(o) ==
    /\ At(o, "teardown") \/ At(o, "cleanup")
    /\ KillAnswered \/ KillFailed
    /\ hub' = IF At(o, "cleanup")
              THEN RestoreSpawn(CommitLifecycle(HandleSessionEnd(hub), "closed"), ops[o])
              ELSE hub
    /\ Finish(o)
    /\ UNCHANGED <<target, hasMessages, restarts>>

AvailabilityAnswered(o) ==
    /\ At(o, "availability")
    /\ GoTo(o, "stopKill") \/ Finish(o)
    /\ UNCHANGED <<hub, runtimes, target, hasMessages, restarts>>

SwitchKillReturned(o) ==
    /\ At(o, "stopKill")
    /\ \/ KillAnswered /\ GoTo(o, "stopWait")
       \/ KillFailed /\ Finish(o)
    /\ UNCHANGED <<hub, target, hasMessages, restarts>>

\* The lifecycle is committed whatever happened to the session meanwhile.
AbortReturned(o) ==
    /\ At(o, "abort")
    /\ \/ Answers /\ hub' = [CommitLifecycle(hub, "open") EXCEPT !.thinking = FALSE]
       \/ UNCHANGED hub
    /\ Finish(o)
    /\ UNCHANGED <<runtimes, target, hasMessages, restarts>>

-----------------------------------------------------------------------------
(* The runtimes *)

Speaks(r) == runtimes[r].state \in {"live", "stopping"}

SetRuntime(r, state) == runtimes' = [runtimes EXCEPT ![r].state = state]

\* getOrCreateSession of an existing session.
Connect(r) ==
    /\ \/ /\ runtimes[r].state = "starting"
          /\ runtimes' = [runtimes EXCEPT ![r].state = "connected",
                                          ![r].handles = hub.store.handles]
       \/ runtimes[r].state = "handed" /\ SetRuntime(r, "synced")
    /\ hub' = Refresh(hub)
    /\ UNCHANGED <<target, ops, hasMessages, restarts>>

SyncMetadata(r) ==
    /\ runtimes[r].state = "connected"
    /\ hub' = MergeBootstrapMetadata(hub, runtimes[r].driver, runtimes[r].handles)
    /\ runtimes' = [runtimes EXCEPT ![r].state = "synced", ![r].handles = NoHandles]
    /\ UNCHANGED <<target, ops, hasMessages, restarts>>

\* session-started: the child takes over the RPCs of the session, an abandoned
\* one too, and a spawn that waits for it is acknowledged.
Started(r) ==
    /\ \/ runtimes[r].state = "synced" /\ SetRuntime(r, "live")
       \/ runtimes[r].state = "abandoned" /\ SetRuntime(r, "stopping")
    /\ target' = r
    /\ ops' = [o \in Ops |->
                 IF At(o, "spawn") /\ ops[o].child = r
                 THEN [ops[o] EXCEPT !.pc = "acked"]
                 ELSE ops[o]]
    /\ UNCHANGED <<hub, hasMessages, restarts>>

KeepAlive(r) ==
    /\ Speaks(r)
    /\ \E thinks, persists, broadcasts \in BOOLEAN :
         hub' = HandleSessionAlive(hub, thinks, persists, broadcasts)
    /\ UNCHANGED <<runtimes, target, ops, hasMessages, restarts>>

FoundToken(r, token) ==
    /\ Speaks(r)
    /\ hub' = MergeRuntimeMetadata(hub, runtimes[r].driver, token)
    /\ UNCHANGED <<runtimes, target, ops, hasMessages, restarts>>

IdleStop(r) ==
    /\ runtimes[r].state = "live"
    /\ SetRuntime(r, "stopping")
    /\ hub' = [hub EXCEPT !.stopping = TRUE]
    /\ UNCHANGED <<target, ops, hasMessages, restarts>>

SessionEnd(r) ==
    /\ Speaks(r)
    /\ SetRuntime(r, "ended")
    /\ hub' = IngestSessionEnd(hub)
    /\ UNCHANGED <<target, ops, hasMessages, restarts>>

\* The process is gone, with or without a session-end.
Exit(r) ==
    /\ runtimes[r].state # "none"
    /\ runtimes' = [runtimes EXCEPT ![r] = NoProcess]
    /\ target' = IF target = r THEN NoRuntime ELSE target
    /\ \/ \E o \in Ops : Awaits(o, r) /\ ChildLost(o)
       \/ (\A o \in Ops : ~Awaits(o, r)) /\ UNCHANGED <<hub, ops>>
    /\ UNCHANGED <<hasMessages, restarts>>

-----------------------------------------------------------------------------
(* The Hub itself *)

\* The sweep finds a session whose last keepalive is too old.
Expire ==
    /\ hub.cache.active
    /\ hub' = Deactivate(hub)
    /\ UNCHANGED <<runtimes, target, ops, hasMessages, restarts>>

\* Any other durable write on the session (rename, agent state) refreshes it.
Touch ==
    /\ hub' = Refresh(hub)
    /\ UNCHANGED <<runtimes, target, ops, hasMessages, restarts>>

\* The Hub process goes away with its commands and its children; a new one
\* repairs the store and loads it.
Restart ==
    /\ restarts < MaxRestarts
    /\ restarts' = restarts + 1
    /\ hub' = Loaded(BootRepair(hub.store))
    /\ runtimes' = [r \in Runtimes |-> NoProcess]
    /\ target' = NoRuntime
    /\ ops' = [o \in Ops |-> IdleOp]
    /\ UNCHANGED hasMessages

-----------------------------------------------------------------------------
(* The specification *)

Init ==
    /\ hub \in {Loaded(BootRepair(row)) : row \in Row}
    /\ runtimes = [r \in Runtimes |-> NoProcess]
    /\ target = NoRuntime
    /\ ops = [o \in Ops |-> IdleOp]
    /\ hasMessages \in BOOLEAN
    /\ restarts = 0

\* Mutant: a switch and a send wait for the end of a runtime without a timer.
AnswerUntimed(o) ==
    \/ AbandonSpawn(o) \/ SpawnFailed(o) \/ SpawnAcked(o)
    \/ SpawnTimeout(o)
    \/ KillReturned(o) \/ AvailabilityAnswered(o) \/ SwitchKillReturned(o)
    \/ AbortReturned(o)

\* What a command in flight does next, once its answer or its timer is there.
Answer(o) ==
    \/ AbandonSpawn(o) \/ SpawnFailed(o) \/ SpawnAcked(o)
    \/ SpawnTimeout(o) \/ StopTimeout(o)
    \/ KillReturned(o) \/ AvailabilityAnswered(o) \/ SwitchKillReturned(o)
    \/ AbortReturned(o)

UserCommand(o) ==
    \/ CloseOrArchive(o, "close", "closed")
    \/ CloseOrArchive(o, "archive", "archived")
    \/ Unarchive(o) \/ Resume(o) \/ Start(o) \/ Abort(o) \/ Send(o)
    \/ \E driver \in Drivers : Switch(o, driver)

RuntimeEvent(r) ==
    \/ Connect(r) \/ SyncMetadata(r)
    \/ Started(r) \/ KeepAlive(r) \/ IdleStop(r) \/ SessionEnd(r) \/ Exit(r)
    \/ \E token \in Tokens : FoundToken(r, token)

Event ==
    \/ \E o \in Ops : Answer(o) \/ UserCommand(o) \/ (\E r \in Runtimes : Fork(o, r))
    \/ \E r \in Runtimes : RuntimeEvent(r)
    \/ Expire \/ Touch \/ Restart

Next ==
    \/ \E o \in Ops : Continue(o)
    \/ Drained /\ Event

Spec == Init /\ [][Next]_vars

\* The event loop gets to every timer and every answer, however many other
\* events it takes in between; nothing makes a user, a runtime or the sweep act.
FairSpec ==
    Spec /\ \A o \in Ops : SF_vars(Continue(o) \/ (Drained /\ Answer(o)))

-----------------------------------------------------------------------------
(* Properties *)

\* Between two steps the Hub's memory says of the session what the store says:
\* presence writes through (the first keepalive of an attachment is persisted
\* although later ones are throttled), every lifecycle, token and driver write
\* is read back, and only an active session thinks.
CacheIsCoherent ==
    /\ hub.cache = hub.store
    /\ hub.thinking => hub.cache.active

\* A detached session is durably "running" only while a command is bringing it
\* up: whatever fails, races or detaches, the other paths settle it to open,
\* closed or archived.
BringingUp(o) == ops[o].pc \in {"spawn", "failed", "acked", "wait", "cleanup"}

IdleSessionIsNeverRunning ==
    ~hub.cache.active /\ hub.cache.lifecycle = "running" => \E o \in Ops : BringingUp(o)

\* A keepalive of a runtime the user already closed or archived never makes the
\* session active again: an inactive session becomes active only out of an
\* open or running lifecycle, and the step that does so leaves it there.
PresenceNeverRevivesHistory ==
    [][~hub.cache.active /\ hub'.cache.active =>
         ~IsHistory(hub.cache.lifecycle) /\ ~IsHistory(hub'.cache.lifecycle)]_vars

\* Child r writes its metadata.
Boots(r) == runtimes[r].state = "connected" /\ runtimes'[r].state = "synced"

\* No command forgets the provider session of the current driver: while the Hub
\* runs, a handle that a step of the Hub takes out of the store is held by a
\* command that either sees it come back or writes it back.  (What a booting
\* child may do to it is BootKeepsHandles.)
TokenIsHeld ==
    [][ /\ TokenOf(hub.store) # NoToken
        /\ TokenOf(hub'.store) = NoToken
        /\ restarts' = restarts
        /\ ~\E r \in Runtimes : Boots(r)
        => \E o \in Ops : ops'[o].token = TokenOf(hub.store) /\ BringingUp(o)' ]_vars

\* The command that holds the last copy of a token never ends without one in
\* the store, while the Hub runs.
TokenComesBack ==
    [][\A o \in Ops :
         /\ ops[o].token # NoToken
         /\ ops'[o].token = NoToken
         /\ restarts' = restarts
         => TokenOf(hub'.store) # NoToken]_vars

\* A Hub that dies in the middle of anything comes back without the two drifts
\* its repair passes are for: an active session of the history, and a detached
\* session that is still running.
BootSettlesDrift ==
    [][restarts' # restarts =>
         /\ ~(hub'.cache.active /\ IsHistory(hub'.cache.lifecycle))
         /\ ~(~hub'.cache.active /\ hub'.cache.lifecycle = "running")]_vars

\* Every command ends: each of its waits is bounded by a timer or an answer.
CommandsEnd == \A o \in Ops : ~At(o, "idle") ~> At(o, "idle")

-----------------------------------------------------------------------------
(* What the documents and tests of the repository say and the code does not *)

\* docs/development/hub-owners.md: an active session whose lifecycle is still
\* closed or archived is forbidden; at least one whose runtime is at work, and
\* was not told to stop, is none.
NoActiveHistory ==
    hub.cache.active /\ (\E r \in Runtimes : runtimes[r].state = "live")
        => ~IsHistory(hub.cache.lifecycle)

\* docs/architecture/pairing-broker.md: once close or archive is committed, what
\* the runtime does afterwards never brings the session back among the open ones.
RuntimeNeverReopensHistory ==
    [][(\E r \in Runtimes : RuntimeEvent(r)) /\ IsHistory(hub.cache.lifecycle)
         => IsHistory(hub'.cache.lifecycle)]_vars

\* app-core/src/agent/sessionFactory.test.ts: a child that converges the metadata
\* of the session it was given deletes no runtime handle.
BootKeepsHandles ==
    [][(\E r \in Runtimes : Boots(r)) =>
         \A driver \in Drivers :
            hub.store.handles[driver] # NoToken =>
                hub'.store.handles[driver] = hub.store.handles[driver]]_vars

=============================================================================
