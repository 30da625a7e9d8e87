-------------------------- MODULE HubSession_proofs --------------------------
(***************************************************************************)
(* For every set of drivers, tokens, runtimes and commands: the types, the *)
(* agreement of the Hub's memory with its store, and the rule that no      *)
(* keepalive revives a session of the history.                             *)
(***************************************************************************)
EXTENDS HubSession, TLAPS

-----------------------------------------------------------------------------
(* The session, one handler at a time.                                     *)

\* Memory and store agree in session h.
Coherent(h) == h.cache = h.store /\ (h.thinking => h.cache.active)

Sound(h) == h \in Hub /\ Coherent(h)

\* g is sound, and is active only if h was.
Keeps(h, g) == Sound(g) /\ (g.cache.active => h.cache.active)

\* Two handlers in a row keep what each of them keeps.
LEMMA KeepsTransitive ==
  ASSUME NEW f, NEW g, NEW h, Keeps(f, g), Keeps(g, h)
  PROVE  Keeps(f, h)
  BY DEF Keeps

\* A handler that does nothing keeps everything.
LEMMA KeepsSelf ==
  ASSUME NEW h, Sound(h)
  PROVE  Keeps(h, h)
  BY DEF Keeps

\* Settling a lifecycle gives a lifecycle, and never "running".
LEMMA ResolveInactiveType ==
  ASSUME NEW lifecycle \in LifecycleStates
  PROVE  ResolveInactive(lifecycle) \in LifecycleStates \ {"running"}
  BY DEF ResolveInactive, LifecycleStates

\* A refresh makes any typed session sound, as active as its store.
LEMMA RefreshSound ==
  ASSUME NEW h \in Hub
  PROVE  Sound(Refresh(h)) /\ Refresh(h).cache = h.store
<1>1. /\ Refresh(h).store = h.store
      /\ Refresh(h).cache = h.store
      /\ Refresh(h).stopping = FALSE
  BY DEF Refresh, Hub
<1>2. Refresh(h).thinking = (h.store.active /\ h.thinking)
  BY Zenon DEF Refresh, Hub
<1>3. Refresh(h) \in Hub
  BY DEF Refresh, Hub, Row
<1> QED
  BY <1>1, <1>2, <1>3 DEF Sound, Coherent

\* A write that leaves the presence alone, read back.
LEMMA CommitLifecycleKeeps ==
  ASSUME NEW h, Sound(h), NEW lifecycle \in LifecycleStates
  PROVE  /\ Keeps(h, CommitLifecycle(h, lifecycle))
         /\ CommitLifecycle(h, lifecycle).cache.lifecycle = lifecycle
         /\ CommitLifecycle(h, lifecycle).cache.active = h.cache.active
<1> DEFINE g == [h EXCEPT !.store.lifecycle = lifecycle]
<1>1. g \in Hub
  BY DEF Sound, Hub, Row
<1>2. g.store.active = h.store.active /\ g.store.lifecycle = lifecycle
  BY DEF Sound, Hub, Row
<1> HIDE DEF g
<1>3. Sound(Refresh(g)) /\ Refresh(g).cache = g.store
  BY <1>1, RefreshSound
<1>4. CommitLifecycle(h, lifecycle) = Refresh(g)
  BY DEF CommitLifecycle, g
<1>5. h.cache = h.store
  BY DEF Sound, Coherent
<1> QED
  BY <1>2, <1>3, <1>4, <1>5 DEF Keeps

\* writeSessionResumeToken leaves the presence of the session alone.
LEMMA WriteTokenKeeps ==
  ASSUME NEW h, Sound(h), NEW token \in Tokens \cup {NoToken}
  PROVE  Keeps(h, WriteToken(h, token))
<1> DEFINE g == [h EXCEPT !.store.handles[h.store.driver] = token]
<1>1. g \in Hub
  BY DEF Sound, Hub, Row, Handles
<1>2. g.store.active = h.store.active
  BY DEF Sound, Hub, Row, Handles
<1> HIDE DEF g
<1>3. Sound(Refresh(g)) /\ Refresh(g).cache = g.store
  BY <1>1, RefreshSound
<1>4. WriteToken(h, token) = Refresh(g)
  BY DEF WriteToken, g
<1> QED
  BY <1>2, <1>3, <1>4 DEF Keeps, Sound, Coherent

\* The driver a switch ends on leaves the presence of the session alone.
LEMMA WriteDriverKeeps ==
  ASSUME NEW h, Sound(h), NEW driver \in Drivers
  PROVE  Keeps(h, WriteDriver(h, driver))
<1> DEFINE g == [h EXCEPT !.store.driver = driver]
<1>1. g \in Hub
  BY DEF Sound, Hub, Row
<1>2. g.store.active = h.store.active
  BY DEF Sound, Hub, Row
<1> HIDE DEF g
<1>3. Sound(Refresh(g)) /\ Refresh(g).cache = g.store
  BY <1>1, RefreshSound
<1>4. WriteDriver(h, driver) = Refresh(g)
  BY DEF WriteDriver, g
<1> QED
  BY <1>2, <1>3, <1>4 DEF Keeps, Sound, Coherent

\* The metadata a runtime reports leave the presence and the lifecycle alone.
LEMMA MergeRuntimeMetadataKeeps ==
  ASSUME NEW h, Sound(h), NEW driver \in Drivers, NEW token \in Tokens
  PROVE  Keeps(h, MergeRuntimeMetadata(h, driver, token))
<1> DEFINE g == [h EXCEPT !.store.driver = driver, !.store.handles[driver] = token]
<1>1. g \in Hub
  BY DEF Sound, Hub, Row, Handles
<1>2. g.store.active = h.store.active
  BY DEF Sound, Hub, Row, Handles
<1> HIDE DEF g
<1>3. Sound(Refresh(g)) /\ Refresh(g).cache = g.store
  BY <1>1, RefreshSound
<1>4. MergeRuntimeMetadata(h, driver, token) = Refresh(g)
  BY DEF MergeRuntimeMetadata, g
<1> QED
  BY <1>2, <1>3, <1>4 DEF Keeps, Sound, Coherent

\* The metadata a child boots with leave the presence and the lifecycle alone.
LEMMA MergeBootstrapMetadataKeeps ==
  ASSUME NEW h, Sound(h), NEW driver \in Drivers, NEW handles \in Handles
  PROVE  Keeps(h, MergeBootstrapMetadata(h, driver, handles))
<1> DEFINE g == [h EXCEPT !.store.driver = driver, !.store.handles = handles]
<1>1. g \in Hub
  BY DEF Sound, Hub, Row
<1>2. g.store.active = h.store.active
  BY DEF Sound, Hub, Row
<1> HIDE DEF g
<1>3. Sound(Refresh(g)) /\ Refresh(g).cache = g.store
  BY <1>1, RefreshSound
<1>4. MergeBootstrapMetadata(h, driver, handles) = Refresh(g)
  BY DEF MergeBootstrapMetadata, g
<1> QED
  BY <1>2, <1>3, <1>4 DEF Keeps, Sound, Coherent

\* The two copies are marked inactive together.
LEMMA MarkInactiveKeeps ==
  ASSUME NEW h, Sound(h)
  PROVE  /\ Keeps(h, MarkInactive(h))
         /\ ~MarkInactive(h).cache.active
         /\ MarkInactive(h).cache.lifecycle = h.cache.lifecycle
<1> DEFINE g == MarkInactive(h)
<1>1. g \in Hub
  BY DEF MarkInactive, Sound, Hub, Row
<1>2. /\ g.cache = [h.cache EXCEPT !.active = FALSE]
      /\ g.store = [h.store EXCEPT !.active = FALSE]
  BY DEF MarkInactive, Sound, Hub, Row
<1>3. g.cache = g.store
  BY <1>2 DEF Sound, Coherent
<1>4. ~g.thinking /\ ~g.cache.active /\ g.cache.lifecycle = h.cache.lifecycle
  BY DEF MarkInactive, Sound, Hub, Row
<1> QED
  BY <1>1, <1>3, <1>4 DEF Keeps, Sound, Coherent

\* transitionSessionLifecycle never makes a session active.
LEMMA TransitionLifecycleKeeps ==
  ASSUME NEW h, Sound(h), NEW lifecycle \in LifecycleStates, NEW markInactive
  PROVE  Keeps(h, TransitionLifecycle(h, lifecycle, markInactive))
<1>1. CASE markInactive
  BY <1>1, MarkInactiveKeeps, CommitLifecycleKeeps, KeepsTransitive
  DEF TransitionLifecycle, Keeps
<1>2. CASE ~markInactive
  BY <1>2, CommitLifecycleKeeps DEF TransitionLifecycle
<1> QED
  BY <1>1, <1>2

\* A session that is detached is not running.
LEMMA DeactivateKeeps ==
  ASSUME NEW h, Sound(h)
  PROVE  /\ Keeps(h, Deactivate(h))
         /\ ~Deactivate(h).cache.active
         /\ Deactivate(h).cache.lifecycle # "running"
<1> DEFINE m == MarkInactive(h)
           n == NormalizeInactive(m)
<1>1. Keeps(h, m) /\ ~m.cache.active
  BY MarkInactiveKeeps
<1>2. m.cache.lifecycle \in LifecycleStates
  BY <1>1 DEF Keeps, Sound, Hub, Row
<1> HIDE DEF m
<1>3. ResolveInactive(m.cache.lifecycle) \in LifecycleStates \ {"running"}
  BY <1>2, ResolveInactiveType
<1>4. /\ Keeps(m, n)
      /\ ~n.cache.active
      /\ n.cache.lifecycle # "running"
  <2>1. CASE ResolveInactive(m.cache.lifecycle) = m.cache.lifecycle
    BY <2>1, <1>1, <1>3, KeepsSelf DEF NormalizeInactive, Keeps
  <2>2. CASE ResolveInactive(m.cache.lifecycle) # m.cache.lifecycle
    BY <2>2, <1>1, <1>3, CommitLifecycleKeeps DEF NormalizeInactive, Keeps
  <2> QED
    BY <2>1, <2>2
<1>5. Deactivate(h) = [n EXCEPT !.stopping = FALSE]
  BY DEF Deactivate, m
<1> HIDE DEF n
<1>6. /\ Deactivate(h) \in Hub
      /\ Deactivate(h).cache = n.cache
      /\ Deactivate(h).store = n.store
      /\ Deactivate(h).thinking = n.thinking
  BY <1>4, <1>5 DEF Keeps, Sound, Hub
<1> QED
  BY <1>1, <1>4, <1>6 DEF Keeps, Sound, Coherent

\* A session end never makes a session active.
LEMMA HandleSessionEndKeeps ==
  ASSUME NEW h, Sound(h)
  PROVE  Keeps(h, HandleSessionEnd(h))
<1>1. CASE h.cache.active \/ h.thinking
  BY <1>1, DeactivateKeeps DEF HandleSessionEnd
<1>2. CASE ~(h.cache.active \/ h.thinking)
  <2>1. HandleSessionEnd(h) = [h EXCEPT !.store.active = FALSE]
    BY <1>2 DEF HandleSessionEnd
  <2>2. h.store.active = FALSE
    BY <1>2 DEF Sound, Coherent, Hub, Row
  <2>3. [h EXCEPT !.store.active = FALSE] = h
    BY <2>2 DEF Sound, Hub, Row
  <2> QED
    BY <2>1, <2>3, KeepsSelf
<1> QED
  BY <1>1, <1>2

\* Nor does the end of a runtime that stopped for idleness.
LEMMA IngestSessionEndKeeps ==
  ASSUME NEW h, Sound(h)
  PROVE  Keeps(h, IngestSessionEnd(h))
<1>1. CASE h.stopping
  <2>1. Keeps(h, CommitLifecycle(h, "open"))
    BY CommitLifecycleKeeps DEF LifecycleStates
  <2>2. IngestSessionEnd(h) = HandleSessionEnd(CommitLifecycle(h, "open"))
    BY <1>1 DEF IngestSessionEnd
  <2> QED
    BY <2>1, <2>2, HandleSessionEndKeeps, KeepsTransitive DEF Keeps
<1>2. CASE ~h.stopping
  BY <1>2, HandleSessionEndKeeps DEF IngestSessionEnd
<1> QED
  BY <1>1, <1>2

\* A keepalive attaches the session in both copies, whatever its throttles let
\* through, and does nothing to a session of the history.
LEMMA HandleSessionAliveSound ==
  ASSUME NEW h, Sound(h),
         NEW thinks \in BOOLEAN, NEW persists \in BOOLEAN, NEW broadcasts \in BOOLEAN
  PROVE  LET g == HandleSessionAlive(h, thinks, persists, broadcasts)
         IN /\ Sound(g)
            /\ g.cache.lifecycle = h.cache.lifecycle
            /\ IsHistory(h.cache.lifecycle) => g = h
<1> DEFINE g == HandleSessionAlive(h, thinks, persists, broadcasts)
<1>1. CASE IsHistory(h.cache.lifecycle)
  BY <1>1 DEF HandleSessionAlive
<1>2. CASE ~IsHistory(h.cache.lifecycle)
  <2> DEFINE stored == h.store.active \/ persists \/ ~h.cache.active
             stops == h.stopping /\ h.cache.active /\ h.thinking = thinks /\ ~broadcasts
  <2>1. stored = TRUE
    BY DEF Sound, Coherent, Hub, Row
  <2>2. stops \in BOOLEAN
    BY Zenon
  <2>3. g = [h EXCEPT !.cache.active = TRUE, !.thinking = thinks,
                      !.store.active = stored, !.stopping = stops]
    BY <1>2, Zenon DEF HandleSessionAlive, Sound, Hub, Row
  <2> HIDE DEF stored, stops
  <2>4. g = [h EXCEPT !.cache.active = TRUE, !.thinking = thinks,
                      !.store.active = TRUE, !.stopping = stops]
    BY <2>1, <2>3
  <2> HIDE DEF g
  <2>5. /\ g \in Hub
        /\ g.cache = [h.cache EXCEPT !.active = TRUE]
        /\ g.store = [h.store EXCEPT !.active = TRUE]
    BY <2>2, <2>4 DEF Sound, Hub, Row
  <2>6. g.cache = g.store /\ g.cache.active /\ g.cache.lifecycle = h.cache.lifecycle
    BY <2>5 DEF Sound, Coherent, Hub, Row
  <2> QED
    BY <1>2, <2>5, <2>6 DEF Sound, Coherent, g
<1> QED
  BY <1>1, <1>2

\* What a starting Hub repairs and loads is sound and free of both drifts.
LEMMA LoadedSound ==
  ASSUME NEW row \in Row
  PROVE  /\ Sound(Loaded(BootRepair(row)))
         /\ Loaded(BootRepair(row)).cache = BootRepair(row)
         /\ BootRepair(row).active => row.active /\ ~IsHistory(BootRepair(row).lifecycle)
         /\ ~BootRepair(row).active => BootRepair(row).lifecycle # "running"
<1> DEFINE kept == row.active /\ ~IsHistory(row.lifecycle)
           detached == [row EXCEPT !.active = kept]
<1>1. kept \in BOOLEAN
  BY Zenon
<1>2. BootRepair(row) = IF detached.active THEN detached
                        ELSE [detached EXCEPT !.lifecycle = ResolveInactive(row.lifecycle)]
  BY Zenon DEF BootRepair, Row
<1>3. kept => row.active /\ ~IsHistory(row.lifecycle)
  OBVIOUS
<1> HIDE DEF kept
<1>4. detached \in Row /\ detached.active = kept /\ detached.lifecycle = row.lifecycle
  BY <1>1 DEF Row
<1>5. ResolveInactive(row.lifecycle) \in LifecycleStates \ {"running"}
  BY ResolveInactiveType DEF Row
<1>6. /\ BootRepair(row) \in Row
      /\ BootRepair(row).active = kept
      /\ kept => BootRepair(row).lifecycle = row.lifecycle
      /\ ~kept => BootRepair(row).lifecycle # "running"
  <2>1. CASE kept
    BY <2>1, <1>2, <1>4
  <2>2. CASE ~kept
    <3> HIDE DEF detached
    <3>1. BootRepair(row) = [detached EXCEPT !.lifecycle = ResolveInactive(row.lifecycle)]
      BY <2>2, <1>2, <1>4
    <3> QED
      BY <2>2, <3>1, <1>4, <1>5 DEF Row
  <2> QED
    BY <2>1, <2>2
<1>7. Sound(Loaded(BootRepair(row))) /\ Loaded(BootRepair(row)).cache = BootRepair(row)
  BY <1>6 DEF Loaded, Sound, Coherent, Hub
<1> QED
  BY <1>3, <1>6, <1>7

\* Undoing a spawn never makes a session active.
LEMMA RestoreSpawnKeeps ==
  ASSUME NEW h, Sound(h), NEW op \in Op
  PROVE  Keeps(h, RestoreSpawn(h, op))
<1> DEFINE withToken == IF op.token = NoToken THEN h ELSE WriteToken(h, op.token)
           restored == CommitLifecycle(withToken, op.prev)
<1>1. Keeps(h, withToken)
  BY WriteTokenKeeps, KeepsSelf DEF Op
<1>2. Sound(withToken)
  BY <1>1 DEF Keeps
<1> HIDE DEF withToken
<1>3. Keeps(withToken, restored)
  BY <1>2, CommitLifecycleKeeps DEF Op
<1>4. Keeps(h, restored) /\ Sound(restored)
  BY <1>1, <1>3, KeepsTransitive DEF Keeps
<1> HIDE DEF restored
<1>5. Keeps(restored, WriteDriver(restored, op.prevDriver))
  BY <1>4, WriteDriverKeeps DEF Op
<1>6. RestoreSpawn(h, op) \in {restored, WriteDriver(restored, op.prevDriver)}
  BY DEF RestoreSpawn, withToken, restored
<1> QED
  BY <1>4, <1>5, <1>6, KeepsTransitive

-----------------------------------------------------------------------------
(* The commands in flight *)

Rest ==
    /\ runtimes \in [Runtimes -> Runtime]
    /\ target \in Runtimes \cup {NoRuntime}
    /\ ops \in [Ops -> Op]
    /\ hasMessages \in BOOLEAN
    /\ restarts \in 0..MaxRestarts

\* The inductive invariant: types, and agreement of memory and store.
Inv == Sound(hub) /\ Rest

\* The state a user sees is one of the four lifecycle states.
LEMMA VisibleType ==
  ASSUME NEW row \in Row
  PROVE  Visible(row) \in LifecycleStates
  BY ResolveInactiveType DEF Visible, VisibleLifecycle, LifecycleStates, Row

\* The idle command and the missing process have their types.
LEMMA IdleOpType == IdleOp \in Op /\ NoProcess \in Runtime
<1>1. AnyDriver \in Drivers
  BY DriversAssumption DEF AnyDriver
<1> QED
  BY <1>1 DEF IdleOp, NoProcess, NoHandles, Handles, Op, Runtime, RuntimeStates,
              CommandKinds, OpStates, LifecycleStates

\* No process has read a handle.
LEMMA NoHandlesType == NoHandles \in Handles
  BY DEF NoHandles, Handles

\* A command that ends leaves the commands typed.
LEMMA FinishType ==
  ASSUME NEW o \in Ops, ops \in [Ops -> Op], Finish(o)
  PROVE  ops' \in [Ops -> Op]
  BY IdleOpType DEF Finish

\* A command that goes on to its next wait leaves the commands typed.
LEMMA GoToType ==
  ASSUME NEW o \in Ops, ops \in [Ops -> Op], NEW pc \in OpStates, GoTo(o, pc)
  PROVE  ops' \in [Ops -> Op]
  BY DEF GoTo, Op

\* Marking a session as being brought up never makes it active.
LEMMA BeginSpawnKeeps ==
  ASSUME NEW o \in Ops, ops \in [Ops -> Op], NEW h, Sound(h),
         NEW kind \in CommandKinds, NEW token \in Tokens \cup {NoToken},
         NEW handoff \in BOOLEAN, BeginSpawn(o, kind, h, token, handoff)
  PROVE  Keeps(h, hub') /\ ops' \in [Ops -> Op]
<1>1. Keeps(h, hub')
  BY CommitLifecycleKeeps DEF BeginSpawn, LifecycleStates
<1>2. Visible(h.cache) \in LifecycleStates /\ h.cache.driver \in Drivers
  BY VisibleType DEF Sound, Hub, Row
<1>3. [IdleOp EXCEPT !.kind = kind, !.pc = "spawn",
                     !.prev = Visible(h.cache), !.token = token,
                     !.handoff = handoff,
                     !.driver = h.cache.driver,
                     !.prevDriver = h.cache.driver] \in Op
  BY <1>2, IdleOpType DEF Op, OpStates
<1> QED
  BY <1>1, <1>3 DEF BeginSpawn

\* A refused spawn leaves the session alone.
LEMMA RefuseKeeps ==
  ASSUME NEW o \in Ops, ops \in [Ops -> Op], NEW h, Sound(h), Refuse(o, h)
  PROVE  Keeps(h, hub') /\ ops' \in [Ops -> Op]
  BY FinishType, KeepsSelf DEF Refuse

\* spawnInactiveSession, up to its RPC, never makes a session active.
LEMMA StartInactiveKeeps ==
  ASSUME NEW o \in Ops, ops \in [Ops -> Op], NEW h, Sound(h),
         NEW kind \in CommandKinds, StartInactive(o, kind, h)
  PROVE  Keeps(h, hub') /\ ops' \in [Ops -> Op]
  BY BeginSpawnKeeps, RefuseKeeps DEF StartInactive

\* resumeSession, up to its RPC, never makes a session active.
LEMMA ResumeInactiveKeeps ==
  ASSUME NEW o \in Ops, ops \in [Ops -> Op], NEW h, Sound(h),
         NEW kind \in CommandKinds, ResumeInactive(o, kind, h)
  PROVE  Keeps(h, hub') /\ ops' \in [Ops -> Op]
<1> DEFINE token == TokenOf(h.cache)
           taken == WriteToken(h, NoToken)
<1>1. token \in Tokens \cup {NoToken}
  BY DEF TokenOf, Sound, Hub, Row, Handles
<1>2. Keeps(h, taken) /\ Sound(taken)
  BY WriteTokenKeeps DEF Keeps
<1> HIDE DEF taken
<1>3. CASE BeginSpawn(o, kind, taken, token, FALSE)
  <2>1. Keeps(taken, hub') /\ ops' \in [Ops -> Op]
    BY <1>1, <1>2, <1>3, BeginSpawnKeeps
  <2> QED
    BY <1>2, <2>1, KeepsTransitive
<1>4. CASE BeginSpawn(o, kind, h, NoToken, Fallback[h.cache.driver] = "continuity")
  BY <1>4, BeginSpawnKeeps
<1>5. CASE Refuse(o, h)
  BY <1>5, RefuseKeeps
<1> QED
  BY <1>3, <1>4, <1>5 DEF ResumeInactive, taken

\* Reading a sound session back changes nothing of its presence.
LEMMA RefreshKeeps ==
  ASSUME NEW h, Sound(h)
  PROVE  Keeps(h, Refresh(h))
  BY RefreshSound DEF Keeps, Sound, Coherent

-----------------------------------------------------------------------------
(* The steps of the specification                                          *)

\* What every step but a keepalive and a restart does: it stays within the
\* invariant and activates nothing.
Detaches == Keeps(hub, hub') /\ Rest'

\* A command whose wait is over.
LEMMA ContinueStep ==
  ASSUME Inv, NEW o \in Ops, Continue(o)
  PROVE  Detaches
<1> USE DEF Inv, Detaches
<1>0. ops[o] \in Op /\ Sound(hub)
  BY DEF Rest
<1>1. CASE SpawnReady(o)
  <2>1. ops' \in [Ops -> Op] /\ UNCHANGED <<runtimes, target, restarts>>
    BY <1>1, FinishType DEF SpawnReady, Rest
  <2> DEFINE running == TransitionLifecycle(hub, "running", FALSE)
  <2>2. Keeps(hub, running) /\ Sound(running)
    BY TransitionLifecycleKeeps DEF LifecycleStates, Keeps
  <2>3. ops[o].driver \in Drivers
    BY <1>0 DEF Op
  <2> HIDE DEF running
  <2>4. CASE hub' = WriteDriver(hub, ops[o].driver) /\ UNCHANGED hasMessages
    BY <2>1, <2>3, <2>4, WriteDriverKeeps DEF Rest
  <2>5. CASE AppendMessage(running)
    <3>1. Keeps(running, hub') /\ hasMessages' = TRUE
      BY <2>2, <2>5, RefreshKeeps DEF AppendMessage
    <3> QED
      BY <2>1, <2>2, <3>1, KeepsTransitive DEF Rest
  <2>6. CASE hub' = running /\ UNCHANGED hasMessages
    BY <2>1, <2>2, <2>6 DEF Rest
  <2> QED
    BY <1>1, <2>4, <2>5, <2>6 DEF SpawnReady, running
<1>2. CASE SpawnNoticed(o)
  <2>1. ops' \in [Ops -> Op]
    BY <1>2 DEF SpawnNoticed, Rest, Op
  <2> QED
    BY <1>2, <2>1, KeepsSelf DEF SpawnNoticed, Rest
<1>3. CASE SpawnLost(o)
  <2>1. ops' \in [Ops -> Op]
    BY <1>3, GoToType DEF SpawnLost, Rest, OpStates
  <2> QED
    BY <1>3, <2>1, KeepsSelf DEF SpawnLost, Rest
<1>4. CASE SwitchStopped(o)
  <2>1. Keeps(hub, hub')
    BY <1>4, CommitLifecycleKeeps DEF SwitchStopped, LifecycleStates
  <2>2. Visible(hub.cache) \in LifecycleStates
    BY VisibleType DEF Sound, Hub
  <2>3. [ops[o] EXCEPT !.pc = "spawn", !.prev = Visible(hub.cache)] \in Op
    BY <1>0, <2>2 DEF Op, OpStates
  <2>4. [ops EXCEPT ![o].pc = "spawn", ![o].prev = Visible(hub.cache)] \in [Ops -> Op]
    BY <2>3 DEF Rest, Op
  <2>5. ops' \in [Ops -> Op]
    BY <1>4, <2>4, FinishType DEF SwitchStopped, Rest
  <2> QED
    BY <1>4, <2>1, <2>5 DEF SwitchStopped, Rest
<1>5. CASE GateOpened(o)
  <2>1. UNCHANGED <<runtimes, target, restarts>>
    BY <1>5 DEF GateOpened
  <2>2. CASE hub.cache.active
    <3>1. Keeps(hub, hub') /\ hasMessages' = TRUE
      BY <1>5, <2>2, RefreshKeeps DEF GateOpened, AppendMessage
    <3>2. ops' \in [Ops -> Op]
      BY <1>5, <2>2, FinishType DEF GateOpened, Rest
    <3> QED
      BY <2>1, <3>1, <3>2 DEF Rest
  <2>3. CASE ~hub.cache.active
    <3>1. PICK h \in {hub, TransitionLifecycle(hub, "closed", FALSE)} :
            /\ ResumeInactive(o, "send", h) \/ StartInactive(o, "send", h)
            /\ UNCHANGED hasMessages
      BY <1>5, <2>3 DEF GateOpened
    <3>2. Keeps(hub, h) /\ Sound(h)
      BY <3>1, TransitionLifecycleKeeps, KeepsSelf DEF LifecycleStates, Keeps
    <3>3. Keeps(h, hub') /\ ops' \in [Ops -> Op]
      BY <3>1, <3>2, ResumeInactiveKeeps, StartInactiveKeeps DEF Rest, CommandKinds
    <3> QED
      BY <2>1, <3>1, <3>2, <3>3, KeepsTransitive DEF Rest
  <2> QED
    BY <2>2, <2>3
<1> QED
  BY <1>1, <1>2, <1>3, <1>4, <1>5 DEF Continue

\* A user issues a command.
LEMMA UserCommandStep ==
  ASSUME Inv, NEW o \in Ops, UserCommand(o)
  PROVE  Detaches
<1> USE DEF Inv, Detaches
<1>0. /\ ops[o] \in Op /\ Sound(hub) /\ ops \in [Ops -> Op]
      /\ hub.cache.driver \in Drivers /\ hub.cache.lifecycle \in LifecycleStates
  BY DEF Rest, Sound, Hub, Row
<1>1. ASSUME NEW kind \in CommandKinds, NEW lifecycle \in LifecycleStates,
             CloseOrArchive(o, kind, lifecycle)
      PROVE  Detaches
  <2>1. Keeps(hub, hub')
    BY <1>1, TransitionLifecycleKeeps DEF CloseOrArchive
  <2>2. [IdleOp EXCEPT !.kind = kind, !.pc = "teardown"] \in Op
    BY IdleOpType DEF Op, OpStates
  <2>3. ops' \in [Ops -> Op]
    BY <1>0, <1>1, <2>2 DEF CloseOrArchive
  <2> QED
    BY <1>1, <2>1, <2>3 DEF CloseOrArchive, Rest
<1>2. CASE Unarchive(o)
  BY <1>2, TransitionLifecycleKeeps DEF Unarchive, Rest, LifecycleStates
<1>3. CASE Resume(o)
  <2>1. Keeps(hub, hub') /\ ops' \in [Ops -> Op]
    BY <1>0, <1>3, ResumeInactiveKeeps DEF Resume, CommandKinds
  <2> QED
    BY <1>3, <2>1 DEF Resume, Rest
<1>4. CASE Start(o)
  <2>1. Keeps(hub, hub') /\ ops' \in [Ops -> Op]
    BY <1>0, <1>4, StartInactiveKeeps DEF Start, CommandKinds
  <2> QED
    BY <1>4, <2>1 DEF Start, Rest
<1>5. CASE Abort(o)
  <2>1. [IdleOp EXCEPT !.kind = "abort", !.pc = "abort"] \in Op
    BY IdleOpType DEF Op, OpStates, CommandKinds
  <2>2. ops' \in [Ops -> Op]
    BY <1>0, <1>5, <2>1 DEF Abort
  <2> QED
    BY <1>0, <1>5, <2>2, KeepsSelf DEF Abort, Rest
<1>6. CASE Send(o)
  <2>1. UNCHANGED <<runtimes, target, restarts>>
    BY <1>6 DEF Send
  <2>2. CASE hub.cache.active /\ hub.stopping
    <3>1. [IdleOp EXCEPT !.kind = "send", !.pc = "gate", !.prev = hub.cache.lifecycle] \in Op
      BY <1>0, IdleOpType DEF Op, OpStates, CommandKinds
    <3>2. ops' \in [Ops -> Op] /\ UNCHANGED <<hub, hasMessages>>
      BY <1>0, <1>6, <2>2, <3>1 DEF Send
    <3> QED
      BY <1>0, <2>1, <3>2, KeepsSelf DEF Rest
  <2>3. CASE hub.cache.active /\ ~hub.stopping
    <3>1. Keeps(hub, hub') /\ hasMessages' = TRUE /\ ops' = ops
      BY <1>0, <1>6, <2>3, RefreshKeeps DEF Send, AppendMessage
    <3> QED
      BY <2>1, <3>1 DEF Rest
  <2>4. CASE ~hub.cache.active
    <3>1. PICK h \in {hub, TransitionLifecycle(hub, "closed", FALSE)} :
            /\ ResumeInactive(o, "send", h) \/ StartInactive(o, "send", h)
            /\ UNCHANGED hasMessages
      BY <1>6, <2>4 DEF Send
    <3>2. Keeps(hub, h) /\ Sound(h)
      BY <1>0, <3>1, TransitionLifecycleKeeps, KeepsSelf DEF LifecycleStates, Keeps
    <3>3. Keeps(h, hub') /\ ops' \in [Ops -> Op]
      BY <1>0, <3>1, <3>2, ResumeInactiveKeeps, StartInactiveKeeps DEF CommandKinds
    <3> QED
      BY <2>1, <3>1, <3>2, <3>3, KeepsTransitive DEF Rest
  <2> QED
    BY <2>2, <2>3, <2>4
<1>7. ASSUME NEW driver \in Drivers, Switch(o, driver)
      PROVE  Detaches
  <2>1. \A pc \in {"availability", "stopKill"} :
          [IdleOp EXCEPT !.kind = "switch", !.pc = pc, !.handoff = TRUE,
                         !.driver = driver, !.prevDriver = hub.cache.driver] \in Op
    BY <1>0, IdleOpType DEF Op, OpStates, CommandKinds
  <2>2. ops' \in [Ops -> Op]
    BY <1>0, <1>7, <2>1 DEF Switch
  <2> QED
    BY <1>0, <1>7, <2>2, KeepsSelf DEF Switch, Rest
<1> QED
  BY <1>1, <1>2, <1>3, <1>4, <1>5, <1>6, <1>7
  DEF UserCommand, CommandKinds, LifecycleStates

\* Telling the process that answers to stop leaves the processes typed.
LEMMA KilledType ==
  ASSUME runtimes \in [Runtimes -> Runtime]
  PROVE  Killed \in [Runtimes -> Runtime]
  BY DEF Killed, Runtime, RuntimeStates

\* The loss of a child never makes a session active.
LEMMA ChildLostKeeps ==
  ASSUME NEW o \in Ops, ops \in [Ops -> Op], Sound(hub), ChildLost(o)
  PROVE  Keeps(hub, hub') /\ ops' \in [Ops -> Op]
<1>1. CASE ops[o].handoff \/ At(o, "acked")
  BY <1>1, KeepsSelf DEF ChildLost, Op, OpStates
<1>2. CASE ~(ops[o].handoff \/ At(o, "acked"))
  BY <1>2, RestoreSpawnKeeps, FinishType DEF ChildLost
<1> QED
  BY <1>1, <1>2

\* An answer or a timer of a command.
LEMMA AnswerStep ==
  ASSUME Inv, NEW o \in Ops, Answer(o)
  PROVE  Detaches
<1> USE DEF Inv, Detaches
<1>0. ops[o] \in Op /\ Sound(hub) /\ ops \in [Ops -> Op] /\ Keeps(hub, hub)
  BY KeepsSelf DEF Rest
<1>1. CASE AbandonSpawn(o)
  <2>1. runtimes' \in [Runtimes -> Runtime]
    BY <1>0, <1>1, NoHandlesType DEF AbandonSpawn, Rest, Runtime, RuntimeStates
  <2>2. Keeps(hub, hub') /\ ops' \in [Ops -> Op]
    BY <1>0, <1>1, ChildLostKeeps DEF AbandonSpawn
  <2> QED
    BY <1>1, <2>1, <2>2 DEF AbandonSpawn, Rest
<1>2. CASE SpawnFailed(o)
  BY <1>0, <1>2, RestoreSpawnKeeps, FinishType DEF SpawnFailed, Rest
<1>3. CASE SpawnAcked(o)
  <2>1. ops' \in [Ops -> Op]
    BY <1>0, <1>3 DEF SpawnAcked, Op, OpStates
  <2>2. runtimes' \in [Runtimes -> Runtime]
    BY <1>3 DEF SpawnAcked, Rest, Runtime, RuntimeStates
  <2> QED
    BY <1>0, <1>3, <2>1, <2>2 DEF SpawnAcked, Rest
<1>4. CASE SpawnTimeout(o)
  <2>1. Keeps(hub, hub')
    BY <1>0, <1>4, RestoreSpawnKeeps DEF SpawnTimeout
  <2>2. ops' \in [Ops -> Op]
    BY <1>0, <1>4, GoToType, FinishType DEF SpawnTimeout, OpStates
  <2> QED
    BY <1>4, <2>1, <2>2 DEF SpawnTimeout, Rest
<1>5. CASE StopTimeout(o)
  BY <1>0, <1>5, FinishType DEF StopTimeout, Rest
<1>6. CASE KillReturned(o)
  <2> DEFINE ended == HandleSessionEnd(hub)
             closed == CommitLifecycle(ended, "closed")
             undone == RestoreSpawn(closed, ops[o])
  <2>1. Keeps(hub, ended) /\ Sound(ended)
    BY <1>0, HandleSessionEndKeeps DEF Keeps
  <2>2. Keeps(ended, closed) /\ Sound(closed)
    BY <2>1, CommitLifecycleKeeps DEF LifecycleStates, Keeps
  <2>3. Keeps(closed, undone)
    BY <1>0, <2>2, RestoreSpawnKeeps
  <2>4. Keeps(hub, undone)
    BY <2>1, <2>2, <2>3, KeepsTransitive
  <2>5. hub' = undone \/ hub' = hub
    BY <1>6 DEF KillReturned
  <2>6. runtimes' \in [Runtimes -> Runtime]
    BY <1>6, KilledType DEF KillReturned, KillAnswered, KillFailed, Rest
  <2>7. ops' \in [Ops -> Op] /\ UNCHANGED <<target, hasMessages, restarts>>
    BY <1>0, <1>6, FinishType DEF KillReturned
  <2> HIDE DEF undone
  <2> QED
    BY <1>0, <2>4, <2>5, <2>6, <2>7 DEF Rest
<1>7. CASE AvailabilityAnswered(o)
  BY <1>0, <1>7, GoToType, FinishType DEF AvailabilityAnswered, Rest, OpStates
<1>8. CASE SwitchKillReturned(o)
  <2>1. runtimes' \in [Runtimes -> Runtime]
    BY <1>8, KilledType DEF SwitchKillReturned, KillAnswered, KillFailed, Rest
  <2>2. ops' \in [Ops -> Op]
    BY <1>0, <1>8, GoToType, FinishType DEF SwitchKillReturned, OpStates
  <2> QED
    BY <1>0, <1>8, <2>1, <2>2 DEF SwitchKillReturned, Rest
<1>9. CASE AbortReturned(o)
  <2> DEFINE opened == CommitLifecycle(hub, "open")
  <2>1. Keeps(hub, opened)
    BY <1>0, CommitLifecycleKeeps DEF LifecycleStates
  <2> HIDE DEF opened
  <2>2. Keeps(hub, [opened EXCEPT !.thinking = FALSE])
    <3>1. /\ [opened EXCEPT !.thinking = FALSE] \in Hub
          /\ [opened EXCEPT !.thinking = FALSE].cache = opened.cache
          /\ [opened EXCEPT !.thinking = FALSE].store = opened.store
          /\ ~[opened EXCEPT !.thinking = FALSE].thinking
      BY <2>1 DEF Keeps, Sound, Hub
    <3> QED
      BY <2>1, <3>1 DEF Keeps, Sound, Coherent
  <2>3. Keeps(hub, hub')
    BY <1>0, <1>9, <2>2 DEF AbortReturned, opened
  <2> QED
    BY <1>0, <1>9, <2>3, FinishType DEF AbortReturned, Rest
<1> QED
  BY <1>1, <1>2, <1>3, <1>4, <1>5, <1>6, <1>7, <1>8, <1>9 DEF Answer

\* AppCore forks the child of a spawn.
LEMMA ForkStep ==
  ASSUME Inv, NEW o \in Ops, NEW r \in Runtimes, Fork(o, r)
  PROVE  Detaches
<1>1. \A state \in {"starting", "handed"} :
        [NoProcess EXCEPT !.state = state, !.driver = ops[o].driver] \in Runtime
  BY IdleOpType DEF Inv, Rest, Op, Runtime, RuntimeStates
<1>2. runtimes' \in [Runtimes -> Runtime] /\ ops' \in [Ops -> Op]
  BY <1>1 DEF Fork, Inv, Rest, Op
<1> QED
  BY <1>2, KeepsSelf DEF Fork, Inv, Rest, Detaches

\* A runtime does something other than sending a keepalive.
LEMMA RuntimeStep ==
  ASSUME Inv, NEW r \in Runtimes, RuntimeEvent(r), ~KeepAlive(r)
  PROVE  Detaches
<1> USE DEF Inv, Detaches
<1>0. Sound(hub) /\ Keeps(hub, hub) /\ ops \in [Ops -> Op] /\ runtimes \in [Runtimes -> Runtime]
  BY KeepsSelf DEF Rest
<1>1. CASE Started(r)
  <2>1. runtimes' \in [Runtimes -> Runtime]
    BY <1>0, <1>1 DEF Started, SetRuntime, Runtime, RuntimeStates
  <2>2. \A o \in Ops : [ops[o] EXCEPT !.pc = "acked"] \in Op
    BY <1>0 DEF Op, OpStates
  <2>3. ops' \in [Ops -> Op]
    BY <1>0, <1>1, <2>2 DEF Started
  <2> QED
    BY <1>0, <1>1, <2>1, <2>3 DEF Started, Rest
<1>2. CASE IdleStop(r)
  <2>1. runtimes' \in [Runtimes -> Runtime]
    BY <1>0, <1>2 DEF IdleStop, SetRuntime, Runtime, RuntimeStates
  <2>2. /\ hub' \in Hub /\ hub'.cache = hub.cache /\ hub'.store = hub.store
        /\ hub'.thinking = hub.thinking
    BY <1>0, <1>2 DEF IdleStop, Sound, Hub
  <2>3. Keeps(hub, hub')
    BY <1>0, <2>2 DEF Keeps, Sound, Coherent
  <2> QED
    BY <1>2, <2>1, <2>3 DEF IdleStop, Rest
<1>3. CASE SessionEnd(r)
  <2>1. runtimes' \in [Runtimes -> Runtime]
    BY <1>0, <1>3 DEF SessionEnd, SetRuntime, Runtime, RuntimeStates
  <2>2. Keeps(hub, hub')
    BY <1>0, <1>3, IngestSessionEndKeeps DEF SessionEnd
  <2> QED
    BY <1>3, <2>1, <2>2 DEF SessionEnd, Rest
<1>4. CASE Exit(r)
  <2>1. runtimes' \in [Runtimes -> Runtime]
    BY <1>0, <1>4, IdleOpType DEF Exit
  <2>2. Keeps(hub, hub') /\ ops' \in [Ops -> Op]
    BY <1>0, <1>4, ChildLostKeeps DEF Exit
  <2> QED
    BY <1>0, <1>4, <2>1, <2>2 DEF Exit, Rest
<1>5. ASSUME NEW token \in Tokens, FoundToken(r, token)
      PROVE  Detaches
  <2>1. runtimes[r].driver \in Drivers
    BY <1>0 DEF Runtime
  <2>2. Keeps(hub, hub')
    BY <1>0, <1>5, <2>1, MergeRuntimeMetadataKeeps DEF FoundToken
  <2> QED
    BY <1>5, <2>2 DEF FoundToken, Rest
<1>6. CASE Connect(r)
  <2>1. hub.store.handles \in Handles
    BY <1>0 DEF Sound, Hub, Row
  <2>2. runtimes' \in [Runtimes -> Runtime]
    BY <1>0, <1>6, <2>1 DEF Connect, SetRuntime, Runtime, RuntimeStates
  <2>3. Keeps(hub, hub')
    BY <1>0, <1>6, RefreshKeeps DEF Connect
  <2> QED
    BY <1>6, <2>2, <2>3 DEF Connect, Rest
<1>7. CASE SyncMetadata(r)
  <2>1. runtimes[r].driver \in Drivers /\ runtimes[r].handles \in Handles
    BY <1>0 DEF Runtime
  <2>2. runtimes' \in [Runtimes -> Runtime]
    BY <1>0, <1>7, NoHandlesType DEF SyncMetadata, Runtime, RuntimeStates
  <2>3. Keeps(hub, hub')
    BY <1>0, <1>7, <2>1, MergeBootstrapMetadataKeeps DEF SyncMetadata
  <2> QED
    BY <1>7, <2>2, <2>3 DEF SyncMetadata, Rest
<1> QED
  BY <1>1, <1>2, <1>3, <1>4, <1>5, <1>6, <1>7 DEF RuntimeEvent

\* A keepalive keeps the invariant, and only it may make a session active.
LEMMA KeepAliveStep ==
  ASSUME Inv, NEW r \in Runtimes, KeepAlive(r)
  PROVE  /\ Inv'
         /\ hub'.cache.lifecycle = hub.cache.lifecycle
         /\ IsHistory(hub.cache.lifecycle) => hub' = hub
<1>1. /\ Sound(hub')
      /\ hub'.cache.lifecycle = hub.cache.lifecycle
      /\ IsHistory(hub.cache.lifecycle) => hub' = hub
  <2>1. PICK thinks \in BOOLEAN, persists \in BOOLEAN, broadcasts \in BOOLEAN :
          hub' = HandleSessionAlive(hub, thinks, persists, broadcasts)
    BY DEF KeepAlive
  <2>2. Sound(hub)
    BY DEF Inv
  <2> QED
    BY <2>1, <2>2, HandleSessionAliveSound
<1> QED
  BY <1>1 DEF KeepAlive, Inv, Rest

\* The sweep and the other durable writes keep the invariant.
LEMMA HubStep ==
  ASSUME Inv, Expire \/ Touch
  PROVE  Detaches
<1>1. Keeps(hub, hub')
  BY DeactivateKeeps, RefreshKeeps DEF Inv, Expire, Touch
<1> QED
  BY <1>1 DEF Expire, Touch, Inv, Rest, Detaches

\* A restart reloads a sound session, with no command and no process.
LEMMA RestartStep ==
  ASSUME Inv, Restart
  PROVE  /\ Inv'
         /\ hub'.cache.active => hub.cache.active /\ ~IsHistory(hub'.cache.lifecycle)
         /\ ~hub'.cache.active => hub'.cache.lifecycle # "running"
<1>1. hub.store \in Row /\ hub.cache = hub.store
  BY DEF Inv, Sound, Coherent, Hub
<1>2. /\ Sound(hub')
      /\ hub'.cache.active => hub.cache.active /\ ~IsHistory(hub'.cache.lifecycle)
      /\ ~hub'.cache.active => hub'.cache.lifecycle # "running"
  BY <1>1, LoadedSound DEF Restart
<1>3. Rest'
  BY IdleOpType, BoundsAssumption DEF Restart, Inv, Rest
<1> QED
  BY <1>2, <1>3 DEF Inv

-----------------------------------------------------------------------------
(* The theorems *)

\* The Hub starts from a repaired and loaded row.
LEMMA InitInv == Init => Inv
<1> SUFFICES ASSUME Init PROVE Inv
  OBVIOUS
<1>1. PICK row \in Row : hub = Loaded(BootRepair(row))
  BY DEF Init
<1>2. Sound(hub)
  BY <1>1, LoadedSound
<1>3. Rest
  BY IdleOpType, BoundsAssumption DEF Init, Rest
<1> QED
  BY <1>2, <1>3 DEF Inv

\* A step detaches, is a keepalive of a runtime, or restarts the Hub.
LEMMA NextCases ==
  ASSUME Inv, Next
  PROVE  Detaches \/ (\E r \in Runtimes : KeepAlive(r)) \/ Restart
<1>1. ASSUME NEW o \in Ops, Continue(o) PROVE Detaches
  BY <1>1, ContinueStep
<1>2. ASSUME NEW o \in Ops, Answer(o) PROVE Detaches
  BY <1>2, AnswerStep
<1>3. ASSUME NEW o \in Ops, UserCommand(o) PROVE Detaches
  BY <1>3, UserCommandStep
<1>4. ASSUME NEW o \in Ops, NEW r \in Runtimes, Fork(o, r) PROVE Detaches
  BY <1>4, ForkStep
<1>5. ASSUME NEW r \in Runtimes, RuntimeEvent(r), ~KeepAlive(r) PROVE Detaches
  BY <1>5, RuntimeStep
<1>6. ASSUME Expire \/ Touch PROVE Detaches
  BY <1>6, HubStep
<1> QED
  BY <1>1, <1>2, <1>3, <1>4, <1>5, <1>6 DEF Next, Event

\* Every step keeps the inductive invariant.
LEMMA InvStep == Inv /\ [Next]_vars => Inv'
<1> SUFFICES ASSUME Inv, [Next]_vars PROVE Inv'
  OBVIOUS
<1>1. CASE Detaches
  BY <1>1 DEF Detaches, Keeps, Inv
<1>2. ASSUME NEW r \in Runtimes, KeepAlive(r) PROVE Inv'
  BY <1>2, KeepAliveStep
<1>3. CASE Restart
  BY <1>3, RestartStep
<1>4. CASE UNCHANGED vars
  BY <1>4 DEF vars, Inv, Rest, Sound, Coherent
<1> QED
  BY <1>1, <1>2, <1>3, <1>4, NextCases

\* The inductive invariant of the session.
THEOREM HubInvariant == Spec => []Inv
  BY InitInv, InvStep, PTL DEF Spec

\* Every variable keeps its type.
THEOREM HubTypeCorrect == Spec => []TypeOK
<1>1. Inv => TypeOK
  BY DEF Inv, Sound, Rest, TypeOK
<1> QED
  BY <1>1, HubInvariant, PTL

\* The Hub's memory agrees with its store between any two steps.
THEOREM MemoryFollowsStore == Spec => []CacheIsCoherent
<1>1. Inv => CacheIsCoherent
  BY DEF Inv, Sound, Coherent, CacheIsCoherent
<1> QED
  BY <1>1, HubInvariant, PTL

\* No step, of whatever runtime and in whatever command, attaches a session of
\* the history.
THEOREM HistoryStaysDetached == Spec => PresenceNeverRevivesHistory
<1> DEFINE Revives == ~hub.cache.active /\ hub'.cache.active
           Outside == ~IsHistory(hub.cache.lifecycle) /\ ~IsHistory(hub'.cache.lifecycle)
<1>1. Inv /\ [Next]_vars => [Revives => Outside]_vars
  <2> SUFFICES ASSUME Inv, Next, Revives PROVE Outside
    BY DEF vars
  <2>1. ~Detaches
    BY DEF Detaches, Keeps
  <2>2. ~Restart
    BY RestartStep
  <2>3. PICK r \in Runtimes : KeepAlive(r)
    BY <2>1, <2>2, NextCases
  <2> QED
    BY <2>3, KeepAliveStep
<1> QED
  BY <1>1, HubInvariant, PTL DEF Spec, PresenceNeverRevivesHistory

\* A restart, in the middle of whatever commands, settles the drifts.
THEOREM RestartSettles == Spec => BootSettlesDrift
<1> DEFINE Settles ==
             restarts' # restarts =>
               /\ ~(hub'.cache.active /\ IsHistory(hub'.cache.lifecycle))
               /\ ~(~hub'.cache.active /\ hub'.cache.lifecycle = "running")
<1>1. Inv /\ [Next]_vars => [Settles]_vars
  <2> SUFFICES ASSUME Inv, Next, restarts' # restarts PROVE Settles
    BY DEF vars
  <2>1. Restart
    BY DEF Next, Event, Continue, SpawnReady, SpawnNoticed, SpawnLost, SwitchStopped,
           GateOpened, Answer, ChildLost, AbandonSpawn, SpawnFailed, SpawnAcked, SpawnTimeout,
           StopTimeout, KillReturned, AvailabilityAnswered, SwitchKillReturned,
           AbortReturned, UserCommand, CloseOrArchive, Unarchive, Resume, Start,
           Abort, Send, Switch, Fork, RuntimeEvent, Connect, SyncMetadata, Started,
           KeepAlive, IdleStop,
           SessionEnd, Exit, FoundToken, Expire, Touch
  <2> QED
    BY <2>1, RestartStep
<1> QED
  BY <1>1, HubInvariant, PTL DEF Spec, BootSettlesDrift

=============================================================================
