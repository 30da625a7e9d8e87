-------------------------- MODULE HubCommands_proofs --------------------------
(***************************************************************************)
(* What commands leave behind, for every set of drivers, tokens, runtimes  *)
(* and commands: the provider token a command took out of the store comes  *)
(* back or is held, and a detached session does not stay running.          *)
(***************************************************************************)
EXTENDS HubSession_proofs

-----------------------------------------------------------------------------
(* What each handler does to the token of the current driver               *)

SameToken(h, g) == TokenOf(g.store) = TokenOf(h.store)

\* Neither driver nor handles are part of a lifecycle.
LEMMA CommitLifecycleToken ==
  ASSUME NEW h, Sound(h), NEW lifecycle \in LifecycleStates
  PROVE  SameToken(h, CommitLifecycle(h, lifecycle))
<1> DEFINE g == [h EXCEPT !.store.lifecycle = lifecycle]
<1>1. g \in Hub /\ g.store.driver = h.store.driver /\ g.store.handles = h.store.handles
  BY DEF Sound, Hub, Row
<1> HIDE DEF g
<1>2. Refresh(g).store = g.store
  BY <1>1 DEF Refresh, Hub
<1> QED
  BY <1>1, <1>2 DEF CommitLifecycle, g, SameToken, TokenOf

\* A refresh writes nothing.
LEMMA RefreshToken ==
  ASSUME NEW h, Sound(h)
  PROVE  SameToken(h, Refresh(h))
  BY DEF Sound, Hub, Refresh, SameToken

\* Nor is the presence.
LEMMA MarkInactiveToken ==
  ASSUME NEW h, Sound(h)
  PROVE  SameToken(h, MarkInactive(h))
<1>1. /\ MarkInactive(h).store.driver = h.store.driver
      /\ MarkInactive(h).store.handles = h.store.handles
  BY DEF MarkInactive, Sound, Hub, Row
<1> QED
  BY <1>1 DEF SameToken, TokenOf

\* transitionSessionLifecycle leaves the token alone.
LEMMA TransitionLifecycleToken ==
  ASSUME NEW h, Sound(h), NEW lifecycle \in LifecycleStates, NEW markInactive
  PROVE  SameToken(h, TransitionLifecycle(h, lifecycle, markInactive))
<1>1. Sound(MarkInactive(h)) /\ SameToken(h, MarkInactive(h))
  BY MarkInactiveKeeps, MarkInactiveToken DEF Keeps
<1> QED
  BY <1>1, CommitLifecycleToken DEF TransitionLifecycle, SameToken

\* So does the sweep.
LEMMA DeactivateToken ==
  ASSUME NEW h, Sound(h)
  PROVE  SameToken(h, Deactivate(h))
<1> DEFINE m == MarkInactive(h)
           n == NormalizeInactive(m)
<1>1. Sound(m) /\ SameToken(h, m)
  BY MarkInactiveKeeps, MarkInactiveToken DEF Keeps
<1> HIDE DEF m
<1>2. ResolveInactive(m.cache.lifecycle) \in LifecycleStates
  BY <1>1, ResolveInactiveType DEF Sound, Hub, Row
<1>3. Sound(n) /\ SameToken(m, n)
  BY <1>1, <1>2, CommitLifecycleKeeps, CommitLifecycleToken
  DEF NormalizeInactive, SameToken, Keeps
<1>4. Deactivate(h) = [n EXCEPT !.stopping = FALSE]
  BY DEF Deactivate, m
<1> HIDE DEF n
<1>5. Deactivate(h).store = n.store
  BY <1>3, <1>4 DEF Sound, Hub
<1> QED
  BY <1>1, <1>3, <1>5 DEF SameToken

\* And the end of a runtime.
LEMMA HandleSessionEndToken ==
  ASSUME NEW h, Sound(h)
  PROVE  SameToken(h, HandleSessionEnd(h))
<1>1. CASE h.cache.active \/ h.thinking
  BY <1>1, DeactivateToken DEF HandleSessionEnd
<1>2. CASE ~(h.cache.active \/ h.thinking)
  <2>1. HandleSessionEnd(h) = [h EXCEPT !.store.active = FALSE]
    BY <1>2 DEF HandleSessionEnd
  <2>2. /\ [h EXCEPT !.store.active = FALSE].store.driver = h.store.driver
        /\ [h EXCEPT !.store.active = FALSE].store.handles = h.store.handles
    BY DEF Sound, Hub, Row
  <2> QED
    BY <2>1, <2>2 DEF SameToken, TokenOf
<1> QED
  BY <1>1, <1>2

\* Also of one that stopped for idleness.
LEMMA IngestSessionEndToken ==
  ASSUME NEW h, Sound(h)
  PROVE  SameToken(h, IngestSessionEnd(h))
<1>1. "open" \in LifecycleStates
  BY DEF LifecycleStates
<1>2. Sound(CommitLifecycle(h, "open")) /\ SameToken(h, CommitLifecycle(h, "open"))
  BY <1>1, CommitLifecycleKeeps, CommitLifecycleToken DEF Keeps
<1> QED
  BY <1>2, HandleSessionEndToken DEF IngestSessionEnd, SameToken

\* And a keepalive.
LEMMA HandleSessionAliveToken ==
  ASSUME NEW h, Sound(h),
         NEW thinks \in BOOLEAN, NEW persists \in BOOLEAN, NEW broadcasts \in BOOLEAN
  PROVE  SameToken(h, HandleSessionAlive(h, thinks, persists, broadcasts))
<1> DEFINE g == HandleSessionAlive(h, thinks, persists, broadcasts)
<1>1. g.store.driver = h.store.driver /\ g.store.handles = h.store.handles
  BY DEF HandleSessionAlive, Sound, Hub, Row
<1> QED
  BY <1>1 DEF SameToken, TokenOf

\* writeSessionResumeToken writes the token that is read back.
LEMMA WriteTokenToken ==
  ASSUME NEW h, Sound(h), NEW token \in Tokens \cup {NoToken}
  PROVE  TokenOf(WriteToken(h, token).store) = token
<1> DEFINE g == [h EXCEPT !.store.handles[h.store.driver] = token]
<1>1. g \in Hub /\ TokenOf(g.store) = token
  BY DEF Sound, Hub, Row, Handles, TokenOf
<1> HIDE DEF g
<1>2. Refresh(g).store = g.store
  BY <1>1 DEF Refresh, Hub
<1> QED
  BY <1>1, <1>2 DEF WriteToken, g

\* The token a runtime found is the one of the driver it reports.
LEMMA MergeRuntimeMetadataToken ==
  ASSUME NEW h, Sound(h), NEW driver \in Drivers, NEW token \in Tokens
  PROVE  TokenOf(MergeRuntimeMetadata(h, driver, token).store) = token
<1> DEFINE g == [h EXCEPT !.store.driver = driver, !.store.handles[driver] = token]
<1>1. g \in Hub /\ TokenOf(g.store) = token
  BY DEF Sound, Hub, Row, Handles, TokenOf
<1> HIDE DEF g
<1>2. Refresh(g).store = g.store
  BY <1>1 DEF Refresh, Hub
<1> QED
  BY <1>1, <1>2 DEF MergeRuntimeMetadata, g

\* A failed spawn, other than the one of a driver switch, puts the token of
\* its command back and leaves the one in the store alone when it has none.
LEMMA RestoreSpawnToken ==
  ASSUME NEW h, Sound(h), NEW op \in Op, op.kind # "switch"
  PROVE  /\ op.token # NoToken => TokenOf(RestoreSpawn(h, op).store) = op.token
         /\ op.token = NoToken => SameToken(h, RestoreSpawn(h, op))
<1> DEFINE withToken == IF op.token = NoToken THEN h ELSE WriteToken(h, op.token)
<1>1. op.token \in Tokens \cup {NoToken} /\ op.prev \in LifecycleStates
  BY DEF Op
<1>2. /\ Sound(withToken)
      /\ op.token # NoToken => TokenOf(withToken.store) = op.token
      /\ op.token = NoToken => withToken = h
  BY <1>1, WriteTokenKeeps, WriteTokenToken DEF Keeps
<1>3. RestoreSpawn(h, op) = CommitLifecycle(withToken, op.prev)
  BY DEF RestoreSpawn
<1> HIDE DEF withToken
<1>4. SameToken(withToken, CommitLifecycle(withToken, op.prev))
  BY <1>1, <1>2, CommitLifecycleToken
<1> QED
  BY <1>2, <1>3, <1>4 DEF SameToken

-----------------------------------------------------------------------------
(* Tokens come back                                                        *)

\* Only a command that is bringing a session up, and no driver switch, holds a
\* token.
HoldsWell(op) ==
    op.token # NoToken =>
        op.pc \in {"spawn", "failed", "acked", "wait", "cleanup"} /\ op.kind # "switch"

Orderly == \A o \in Ops : HoldsWell(ops[o])

Drops(o) == ops[o].token # NoToken /\ ops'[o].token = NoToken

Returned == TokenOf(hub'.store) # NoToken

\* What a step of a running Hub does.
Tidy == Orderly' /\ (\A o \in Ops : Drops(o) => Returned)

\* A command that ends drops nothing but its own token.
LEMMA FinishTidy ==
  ASSUME NEW o \in Ops, ops \in [Ops -> Op], Orderly, Finish(o),
         ops[o].token # NoToken => Returned
  PROVE  Tidy
<1>1. IdleOp.token = NoToken
  BY DEF IdleOp
<1>2. HoldsWell(IdleOp)
  BY <1>1 DEF HoldsWell
<1>3. ops'[o] = IdleOp /\ (\A p \in Ops \ {o} : ops'[p] = ops[p])
  BY DEF Finish
<1> QED
  BY <1>2, <1>3 DEF Tidy, Orderly, Drops

\* A command that goes on keeps its token.
LEMMA GoToTidy ==
  ASSUME NEW o \in Ops, ops \in [Ops -> Op], Orderly, NEW pc, GoTo(o, pc),
         ops[o].token # NoToken => pc \in {"spawn", "failed", "acked", "wait", "cleanup"}
  PROVE  Tidy
<1>1. /\ ops'[o].token = ops[o].token /\ ops'[o].kind = ops[o].kind /\ ops'[o].pc = pc
      /\ \A p \in Ops \ {o} : ops'[p] = ops[p]
  BY DEF GoTo, Op
<1> QED
  BY <1>1 DEF Tidy, Orderly, HoldsWell, Drops

\* A command that holds nothing may begin to bring the session up.
LEMMA BeginSpawnTidy ==
  ASSUME NEW o \in Ops, ops \in [Ops -> Op], Orderly, ops[o].token = NoToken,
         NEW kind, kind # "switch", NEW h, NEW token, NEW handoff,
         BeginSpawn(o, kind, h, token, handoff)
  PROVE  Tidy
<1>1. /\ ops'[o].kind = kind /\ ops'[o].pc = "spawn"
      /\ \A p \in Ops \ {o} : ops'[p] = ops[p]
  BY DEF BeginSpawn, IdleOp
<1> QED
  BY <1>1 DEF Tidy, Orderly, HoldsWell, Drops

\* spawnInactiveSession, up to its RPC.
LEMMA StartInactiveTidy ==
  ASSUME NEW o \in Ops, ops \in [Ops -> Op], Orderly, ops[o].token = NoToken,
         NEW kind, kind # "switch", NEW h, StartInactive(o, kind, h)
  PROVE  Tidy
  BY BeginSpawnTidy, FinishTidy DEF StartInactive, Refuse

\* resumeSession, up to its RPC.
LEMMA ResumeInactiveTidy ==
  ASSUME NEW o \in Ops, ops \in [Ops -> Op], Orderly, ops[o].token = NoToken,
         NEW kind, kind # "switch", NEW h, ResumeInactive(o, kind, h)
  PROVE  Tidy
  BY BeginSpawnTidy, FinishTidy DEF ResumeInactive, Refuse

\* A step that touches no command.
LEMMA OpsUnchangedTidy ==
  ASSUME Orderly, ops' = ops
  PROVE  Tidy
  BY DEF Tidy, Orderly, Drops

\* A command that waits for none of the answers to a spawn holds no token.
LEMMA HoldsNothing ==
  ASSUME Orderly, NEW o \in Ops,
         ops[o].pc \notin {"spawn", "failed", "acked", "wait", "cleanup"}
  PROVE  ops[o].token = NoToken
  BY DEF Orderly, HoldsWell

\* A command whose wait is over.
LEMMA ContinueTidy ==
  ASSUME Inv, Orderly, NEW o \in Ops, Continue(o)
  PROVE  Tidy
<1>0. ops[o] \in Op /\ Sound(hub) /\ ops \in [Ops -> Op] /\ hub.cache = hub.store
  BY DEF Inv, Rest, Sound, Coherent
<1>1. CASE SpawnReady(o)
  <2>1. SUFFICES ASSUME ops[o].token # NoToken PROVE Returned
    BY <1>0, <1>1, FinishTidy DEF SpawnReady
  <2>2. TokenOf(hub.store) # NoToken /\ ops[o].kind # "switch"
    BY <1>0, <1>1, <2>1 DEF SpawnReady, IsReady, Orderly, HoldsWell
  <2> DEFINE running == TransitionLifecycle(hub, "running", FALSE)
  <2>3. Sound(running) /\ SameToken(hub, running)
    BY <1>0, TransitionLifecycleKeeps, TransitionLifecycleToken DEF LifecycleStates, Keeps
  <2> HIDE DEF running
  <2>4. SameToken(running, Refresh(running))
    BY <2>3, RefreshToken
  <2>5. hub' \in {running, Refresh(running)}
    BY <1>1, <2>2 DEF SpawnReady, AppendMessage, running
  <2> QED
    BY <2>2, <2>3, <2>4, <2>5 DEF SameToken, Returned
<1>2. CASE SpawnNoticed(o)
  <2>1. /\ ops'[o].token = ops[o].token /\ ops'[o].kind = ops[o].kind /\ ops'[o].pc = ops[o].pc
        /\ \A p \in Ops \ {o} : ops'[p] = ops[p]
    BY <1>0, <1>2 DEF SpawnNoticed, Op
  <2> QED
    BY <2>1 DEF Tidy, Orderly, HoldsWell, Drops
<1>3. CASE SpawnLost(o)
  BY <1>0, <1>3, GoToTidy DEF SpawnLost
<1>4. CASE SwitchStopped(o)
  <2>1. ops[o].token = NoToken
    BY <1>4, HoldsNothing DEF SwitchStopped, At
  <2>2. CASE Finish(o)
    BY <1>0, <2>1, <2>2, FinishTidy
  <2>3. CASE ops' = [ops EXCEPT ![o].pc = "spawn", ![o].prev = Visible(hub.cache)]
    <3>1. ops'[o].token = NoToken /\ (\A p \in Ops \ {o} : ops'[p] = ops[p])
      BY <1>0, <2>1, <2>3 DEF Op
    <3> QED
      BY <2>1, <3>1 DEF Tidy, Orderly, HoldsWell, Drops
  <2> QED
    BY <1>4, <2>2, <2>3 DEF SwitchStopped
<1>5. CASE GateOpened(o)
  <2>1. ops[o].token = NoToken
    BY <1>5, HoldsNothing DEF GateOpened, At
  <2>2. CASE hub.cache.active
    BY <1>0, <1>5, <2>1, <2>2, FinishTidy DEF GateOpened
  <2>3. CASE ~hub.cache.active
    <3>1. \E h : ResumeInactive(o, "send", h) \/ StartInactive(o, "send", h)
      BY <1>5, <2>3 DEF GateOpened
    <3> QED
      BY <1>0, <2>1, <3>1, ResumeInactiveTidy, StartInactiveTidy
  <2> QED
    BY <2>2, <2>3
<1> QED
  BY <1>1, <1>2, <1>3, <1>4, <1>5 DEF Continue

\* A user issues a command.
LEMMA UserCommandTidy ==
  ASSUME Inv, Orderly, NEW o \in Ops, UserCommand(o)
  PROVE  Tidy
<1>0. ops \in [Ops -> Op]
  BY DEF Inv, Rest
<1>1. ops[o].token = NoToken
  BY HoldsNothing
  DEF UserCommand, CloseOrArchive, Unarchive, Resume, Start, Abort, Send, Switch, Issue, At
<1>2. ASSUME NEW op, op.token = NoToken, ops' = [ops EXCEPT ![o] = op]
      PROVE  Tidy
  BY <1>0, <1>1, <1>2 DEF Tidy, Orderly, HoldsWell, Drops
<1>3. IdleOp.token = NoToken
  BY DEF IdleOp
<1>4. ASSUME NEW kind, NEW lifecycle, CloseOrArchive(o, kind, lifecycle)
      PROVE  Tidy
  <2>1. [IdleOp EXCEPT !.kind = kind, !.pc = "teardown"].token = NoToken
    BY DEF IdleOp
  <2> QED
    BY <1>2, <1>4, <2>1, OpsUnchangedTidy DEF CloseOrArchive
<1>5. CASE Unarchive(o)
  BY <1>5, OpsUnchangedTidy DEF Unarchive
<1>6. CASE Resume(o)
  BY <1>0, <1>1, <1>6, ResumeInactiveTidy DEF Resume
<1>7. CASE Start(o)
  BY <1>0, <1>1, <1>7, StartInactiveTidy DEF Start
<1>8. CASE Abort(o)
  <2>1. [IdleOp EXCEPT !.kind = "abort", !.pc = "abort"].token = NoToken
    BY DEF IdleOp
  <2> QED
    BY <1>2, <1>8, <2>1 DEF Abort
<1>9. CASE Send(o)
  <2>1. CASE hub.cache.active
    <3>1. [IdleOp EXCEPT !.kind = "send", !.pc = "gate", !.prev = hub.cache.lifecycle].token = NoToken
      BY DEF IdleOp
    <3> QED
      BY <1>2, <1>9, <2>1, <3>1, OpsUnchangedTidy DEF Send
  <2>2. CASE ~hub.cache.active
    <3>1. \E h : ResumeInactive(o, "send", h) \/ StartInactive(o, "send", h)
      BY <1>9, <2>2 DEF Send
    <3> QED
      BY <1>0, <1>1, <3>1, ResumeInactiveTidy, StartInactiveTidy
  <2> QED
    BY <2>1, <2>2
<1>10. ASSUME NEW driver \in Drivers, Switch(o, driver)
       PROVE  Tidy
  <2>1. \A pc : [IdleOp EXCEPT !.kind = "switch", !.pc = pc, !.handoff = TRUE,
                               !.driver = driver, !.prevDriver = hub.cache.driver].token = NoToken
    BY DEF IdleOp
  <2> QED
    BY <1>2, <1>10, <2>1 DEF Switch
<1> QED
  BY <1>4, <1>5, <1>6, <1>7, <1>8, <1>9, <1>10 DEF UserCommand

\* A command that undoes its spawn ends with its token back.
LEMMA RestoreTidy ==
  ASSUME Inv, Orderly, NEW o \in Ops,
         NEW h, Sound(h), hub' = RestoreSpawn(h, ops[o]), Finish(o)
  PROVE  Tidy
<1>0. ops[o] \in Op /\ ops \in [Ops -> Op]
  BY DEF Inv, Rest
<1>1. SUFFICES ASSUME ops[o].token # NoToken PROVE Returned
  BY <1>0, FinishTidy
<1>2. ops[o].kind # "switch"
  BY <1>1 DEF Orderly, HoldsWell
<1> QED
  BY <1>0, <1>1, <1>2, RestoreSpawnToken DEF Returned

\* A command whose child is lost keeps its token or writes it back.
LEMMA ChildLostTidy ==
  ASSUME Inv, Orderly, NEW o \in Ops, ops[o].pc \in {"spawn", "acked"}, ChildLost(o)
  PROVE  Tidy
<1>0. ops[o] \in Op /\ Sound(hub) /\ ops \in [Ops -> Op]
  BY DEF Inv, Rest
<1>1. CASE ops[o].handoff \/ At(o, "acked")
  <2>1. /\ ops'[o].token = ops[o].token /\ ops'[o].kind = ops[o].kind
        /\ ops'[o].pc \in {"failed", "acked"}
        /\ \A p \in Ops \ {o} : ops'[p] = ops[p]
    BY <1>0, <1>1 DEF ChildLost, Op
  <2> QED
    BY <2>1 DEF Tidy, Orderly, HoldsWell, Drops
<1>2. CASE ~(ops[o].handoff \/ At(o, "acked"))
  BY <1>0, <1>2, RestoreTidy DEF ChildLost
<1> QED
  BY <1>1, <1>2

\* An answer or a timer of a command.
LEMMA AnswerTidy ==
  ASSUME Inv, Orderly, NEW o \in Ops, Answer(o)
  PROVE  Tidy
<1>0. ops[o] \in Op /\ Sound(hub) /\ ops \in [Ops -> Op]
  BY DEF Inv, Rest
<1>1. CASE AbandonSpawn(o)
  BY <1>1, ChildLostTidy DEF AbandonSpawn, At
<1>2. ASSUME NEW h, Sound(h), hub' = RestoreSpawn(h, ops[o]), Finish(o)
      PROVE  Tidy
  BY <1>2, RestoreTidy
<1>3. CASE SpawnFailed(o)
  BY <1>0, <1>2, <1>3 DEF SpawnFailed
<1>4. CASE SpawnAcked(o)
  <2>1. /\ ops'[o].token = ops[o].token /\ ops'[o].kind = ops[o].kind
        /\ ops'[o].pc \in {"wait", "failed"}
        /\ \A p \in Ops \ {o} : ops'[p] = ops[p]
    BY <1>0, <1>4 DEF SpawnAcked, Op
  <2> QED
    BY <2>1 DEF Tidy, Orderly, HoldsWell, Drops
<1>5. CASE SpawnTimeout(o)
  BY <1>0, <1>2, <1>5, GoToTidy DEF SpawnTimeout
<1>6. CASE StopTimeout(o)
  <2>1. ops[o].token = NoToken
    BY <1>6, HoldsNothing DEF StopTimeout, At
  <2> QED
    BY <1>0, <1>6, <2>1, FinishTidy DEF StopTimeout
<1>7. CASE KillReturned(o)
  <2>1. CASE At(o, "cleanup")
    <3> DEFINE closed == CommitLifecycle(HandleSessionEnd(hub), "closed")
    <3>1. Sound(closed)
      BY <1>0, HandleSessionEndKeeps, CommitLifecycleKeeps DEF LifecycleStates, Keeps
    <3>2. hub' = RestoreSpawn(closed, ops[o]) /\ Finish(o)
      BY <1>7, <2>1 DEF KillReturned
    <3> HIDE DEF closed
    <3> QED
      BY <1>2, <3>1, <3>2
  <2>2. CASE ~At(o, "cleanup")
    <3>1. ops[o].token = NoToken
      BY <1>7, <2>2, HoldsNothing DEF KillReturned, At
    <3> QED
      BY <1>0, <1>7, <3>1, FinishTidy DEF KillReturned
  <2> QED
    BY <2>1, <2>2
<1>8. CASE AvailabilityAnswered(o) \/ SwitchKillReturned(o) \/ AbortReturned(o)
  <2>1. ops[o].token = NoToken
    BY <1>8, HoldsNothing DEF AvailabilityAnswered, SwitchKillReturned, AbortReturned, At
  <2> QED
    BY <1>0, <1>8, <2>1, FinishTidy, GoToTidy
    DEF AvailabilityAnswered, SwitchKillReturned, AbortReturned
<1> QED
  BY <1>1, <1>3, <1>4, <1>5, <1>6, <1>7, <1>8 DEF Answer

\* The fork of a child, and what a child or the Hub does by itself.
LEMMA OtherTidy ==
  ASSUME Inv, Orderly,
         \/ \E o \in Ops, r \in Runtimes : Fork(o, r)
         \/ \E r \in Runtimes : RuntimeEvent(r)
         \/ Expire \/ Touch
  PROVE  Tidy
<1>0. ops \in [Ops -> Op]
  BY DEF Inv, Rest
<1>1. ASSUME NEW o \in Ops, NEW r \in Runtimes, Fork(o, r) PROVE Tidy
  <2>1. /\ ops'[o].token = ops[o].token /\ ops'[o].kind = ops[o].kind /\ ops'[o].pc = ops[o].pc
        /\ \A p \in Ops \ {o} : ops'[p] = ops[p]
    BY <1>0, <1>1 DEF Fork, Op
  <2> QED
    BY <2>1 DEF Tidy, Orderly, HoldsWell, Drops
<1>2. ASSUME NEW r \in Runtimes, Started(r) PROVE Tidy
  <2>1. \A o \in Ops : /\ ops'[o].token = ops[o].token /\ ops'[o].kind = ops[o].kind
                       /\ ops'[o].pc = ops[o].pc \/ ops'[o].pc = "acked"
    <3> TAKE o \in Ops
    <3>1. ops[o] \in Op
      BY <1>0
    <3>2. ops'[o] = ops[o] \/ ops'[o] = [ops[o] EXCEPT !.pc = "acked"]
      BY <1>2, Zenon DEF Started
    <3> QED
      BY <3>1, <3>2 DEF Op
  <2> QED
    BY <2>1 DEF Tidy, Orderly, HoldsWell, Drops
<1>3. ASSUME NEW r \in Runtimes, RuntimeEvent(r), ~Started(r), ~Exit(r) PROVE ops' = ops
  BY <1>3 DEF RuntimeEvent, Connect, SyncMetadata, KeepAlive, IdleStop, SessionEnd, FoundToken
<1>4. ASSUME Expire \/ Touch PROVE ops' = ops
  BY <1>4 DEF Expire, Touch
<1>5. ASSUME NEW r \in Runtimes, Exit(r) PROVE Tidy
  BY <1>5, ChildLostTidy, OpsUnchangedTidy DEF Exit, Awaits
<1> QED
  BY <1>1, <1>2, <1>3, <1>4, <1>5, OpsUnchangedTidy

\* A restart forgets every command.
LEMMA RestartOrderly ==
  ASSUME Restart
  PROVE  Orderly' /\ (Inv => restarts' # restarts)
<1>1. HoldsWell(IdleOp)
  BY DEF HoldsWell, IdleOp
<1> QED
  BY <1>1, BoundsAssumption DEF Restart, Orderly, Inv, Rest

\* Every step is tidy, or a restart.
LEMMA NextTidy ==
  ASSUME Inv, Orderly, Next
  PROVE  Tidy \/ Restart
  BY ContinueTidy, UserCommandTidy, AnswerTidy, OtherTidy DEF Next, Event

\* A token in the hands of a command comes back to the store, under some
\* driver, before the command ends, unless the Hub dies.
THEOREM TokensComeBack == Spec => TokenComesBack
<1> DEFINE Back == \A o \in Ops :
                     /\ ops[o].token # NoToken
                     /\ ops'[o].token = NoToken
                     /\ restarts' = restarts
                     => TokenOf(hub'.store) # NoToken
<1>1. Init => Orderly
  BY DEF Init, Orderly, HoldsWell, IdleOp
<1>2. Inv /\ Orderly /\ [Next]_vars => Orderly'
  <2> SUFFICES ASSUME Inv, Orderly, [Next]_vars PROVE Orderly'
    OBVIOUS
  <2>1. CASE Next
    BY <2>1, NextTidy, RestartOrderly DEF Tidy
  <2>2. CASE UNCHANGED vars
    BY <2>2 DEF vars, Orderly
  <2> QED
    BY <2>1, <2>2
<1>3. Inv /\ Orderly /\ [Next]_vars => [Back]_vars
  <2> SUFFICES ASSUME Inv, Orderly, Next PROVE Back
    BY DEF vars
  <2> QED
    BY NextTidy, RestartOrderly DEF Tidy, Drops, Returned
<1> QED
  BY <1>1, <1>2, <1>3, HubInvariant, PTL DEF Spec, TokenComesBack

-----------------------------------------------------------------------------
(* What each handler does to a detached session                            *)

\* The session of h is detached and still running.
Drifts(h) == ~h.cache.active /\ h.cache.lifecycle = "running"

SamePresence(h, g) ==
    g.cache.active = h.cache.active /\ g.cache.lifecycle = h.cache.lifecycle

\* A refresh of a sound session changes nothing.
LEMMA RefreshPresence ==
  ASSUME NEW h, Sound(h)
  PROVE  SamePresence(h, Refresh(h))
  BY RefreshSound DEF SamePresence, Sound, Coherent

\* A token is no part of the presence.
LEMMA WriteTokenPresence ==
  ASSUME NEW h, Sound(h), NEW token \in Tokens \cup {NoToken}
  PROVE  SamePresence(h, WriteToken(h, token))
<1> DEFINE g == [h EXCEPT !.store.handles[h.store.driver] = token]
<1>1. g \in Hub
  BY DEF Sound, Hub, Row, Handles
<1>2. g.store.active = h.store.active /\ g.store.lifecycle = h.store.lifecycle
  BY DEF Sound, Hub, Row, Handles
<1> HIDE DEF g
<1>3. Refresh(g).cache = g.store
  BY <1>1, RefreshSound
<1> QED
  BY <1>2, <1>3 DEF WriteToken, g, SamePresence, Sound, Coherent

\* Nor are the driver and the token a runtime reports.
LEMMA MergeRuntimeMetadataPresence ==
  ASSUME NEW h, Sound(h), NEW driver \in Drivers, NEW token \in Tokens
  PROVE  SamePresence(h, MergeRuntimeMetadata(h, driver, token))
<1> DEFINE g == [h EXCEPT !.store.driver = driver, !.store.handles[driver] = token]
<1>1. g \in Hub
  BY DEF Sound, Hub, Row, Handles
<1>2. g.store.active = h.store.active /\ g.store.lifecycle = h.store.lifecycle
  BY DEF Sound, Hub, Row, Handles
<1> HIDE DEF g
<1>3. Refresh(g).cache = g.store
  BY <1>1, RefreshSound
<1> QED
  BY <1>2, <1>3 DEF MergeRuntimeMetadata, g, SamePresence, Sound, Coherent

\* Nor the driver and the handles a child boots with.
LEMMA MergeBootstrapMetadataPresence ==
  ASSUME NEW h, Sound(h), NEW driver \in Drivers, NEW handles \in Handles
  PROVE  SamePresence(h, MergeBootstrapMetadata(h, driver, handles))
<1> DEFINE g == [h EXCEPT !.store.driver = driver, !.store.handles = handles]
<1>1. g \in Hub
  BY DEF Sound, Hub, Row
<1>2. g.store.active = h.store.active /\ g.store.lifecycle = h.store.lifecycle
  BY DEF Sound, Hub, Row
<1> HIDE DEF g
<1>3. Refresh(g).cache = g.store
  BY <1>1, RefreshSound
<1> QED
  BY <1>2, <1>3 DEF MergeBootstrapMetadata, g, SamePresence, Sound, Coherent

\* A transition commits its lifecycle.
LEMMA TransitionLifecyclePresence ==
  ASSUME NEW h, Sound(h), NEW lifecycle \in LifecycleStates, NEW markInactive
  PROVE  LET g == TransitionLifecycle(h, lifecycle, markInactive)
         IN /\ g.cache.lifecycle = lifecycle
            /\ ~markInactive => g.cache.active = h.cache.active
<1>1. Sound(MarkInactive(h))
  BY MarkInactiveKeeps DEF Keeps
<1> QED
  BY <1>1, CommitLifecycleKeeps DEF TransitionLifecycle

\* The end of a runtime detaches a session and settles it.
LEMMA HandleSessionEndDrift ==
  ASSUME NEW h, Sound(h)
  PROVE  Drifts(HandleSessionEnd(h)) => Drifts(h)
<1>1. CASE h.cache.active \/ h.thinking
  BY <1>1, DeactivateKeeps DEF HandleSessionEnd, Drifts
<1>2. CASE ~(h.cache.active \/ h.thinking)
  <2>1. [h EXCEPT !.store.active = FALSE].cache = h.cache
    BY DEF Sound, Hub
  <2> QED
    BY <1>2, <2>1 DEF HandleSessionEnd, Drifts
<1> QED
  BY <1>1, <1>2

\* So does the end of a runtime that stopped for idleness.
LEMMA IngestSessionEndDrift ==
  ASSUME NEW h, Sound(h)
  PROVE  Drifts(IngestSessionEnd(h)) => Drifts(h)
<1> DEFINE opened == CommitLifecycle(h, "open")
<1>1. Sound(opened) /\ opened.cache.lifecycle = "open"
  BY CommitLifecycleKeeps DEF Keeps, LifecycleStates
<1> HIDE DEF opened
<1>2. ~Drifts(HandleSessionEnd(opened))
  BY <1>1, HandleSessionEndDrift DEF Drifts
<1> QED
  BY <1>2, HandleSessionEndDrift DEF IngestSessionEnd, opened

\* A keepalive only attaches.
LEMMA HandleSessionAliveDrift ==
  ASSUME NEW h, Sound(h),
         NEW thinks \in BOOLEAN, NEW persists \in BOOLEAN, NEW broadcasts \in BOOLEAN
  PROVE  Drifts(HandleSessionAlive(h, thinks, persists, broadcasts)) => Drifts(h)
<1>1. CASE IsHistory(h.cache.lifecycle)
  BY <1>1 DEF HandleSessionAlive
<1>2. CASE ~IsHistory(h.cache.lifecycle)
  <2>1. HandleSessionAlive(h, thinks, persists, broadcasts).cache.active = TRUE
    BY <1>2 DEF HandleSessionAlive, Sound, Hub, Row
  <2> QED
    BY <2>1 DEF Drifts
<1> QED
  BY <1>1, <1>2

\* A failed spawn, other than the one of a driver switch, leaves the lifecycle
\* of before it.
LEMMA RestoreSpawnPresence ==
  ASSUME NEW h, Sound(h), NEW op \in Op, op.kind # "switch"
  PROVE  RestoreSpawn(h, op).cache.lifecycle = op.prev
<1> DEFINE withToken == IF op.token = NoToken THEN h ELSE WriteToken(h, op.token)
<1>1. op.token \in Tokens \cup {NoToken} /\ op.prev \in LifecycleStates
  BY DEF Op
<1>2. Sound(withToken)
  BY <1>1, WriteTokenKeeps DEF Keeps
<1>3. RestoreSpawn(h, op) = CommitLifecycle(withToken, op.prev)
  BY DEF RestoreSpawn
<1> HIDE DEF withToken
<1> QED
  BY <1>1, <1>2, <1>3, CommitLifecycleKeeps

\* The state the user sees of a detached session is not running.
LEMMA DetachedVisible ==
  ASSUME NEW h, Sound(h), ~h.cache.active
  PROVE  Visible(h.cache) # "running"
<1>1. h.cache.lifecycle \in LifecycleStates
  BY DEF Sound, Hub, Row
<1> QED
  BY <1>1, ResolveInactiveType DEF Visible, VisibleLifecycle

-----------------------------------------------------------------------------
(* Tokens are held, and detached sessions settled.  A driver switch is out:   *)
(* it takes the session to a driver that may have no token, and when it finds *)
(* no machine for it leaves the session detached and running.                 *)

Up(op) == op.pc \in {"spawn", "failed", "acked", "wait", "cleanup"}

\* A command that brings a session up knows a lifecycle to go back to.
Attended(op) ==
    /\ op.kind # "switch"
    /\ op.pc \notin {"availability", "stopKill", "stopWait"}
    /\ Up(op) => op.prev # "running"

AllAttended == \A o \in Ops : Attended(ops[o])

Watched == \E o \in Ops : Up(ops[o])

Calm == AllAttended /\ (Drifts(hub) => Watched)

\* The step forgets the token of the current driver and no command holds it.
Forgets ==
    /\ TokenOf(hub.store) # NoToken
    /\ TokenOf(hub'.store) = NoToken
    /\ ~\E o \in Ops : ops'[o].token = TokenOf(hub.store) /\ Up(ops[o])'

\* What a step of a running Hub does.
Careful == Calm' /\ ((~\E r \in Runtimes : Boots(r)) => ~Forgets)

\* The commands keep watching; the session drifts only if it did.
LEMMA StillWatched ==
  ASSUME Calm, AllAttended',
         Drifts(hub') => Drifts(hub),
         \A o \in Ops : Up(ops[o]) => Up(ops[o])' \/ ~Drifts(hub'),
         ~Forgets
  PROVE  Careful
  BY DEF Calm, Careful, Watched

\* A command that ends when the session does not drift, or that did not watch.
LEMMA FinishCareful ==
  ASSUME NEW o \in Ops, ops \in [Ops -> Op], Calm, Finish(o),
         Drifts(hub') => Drifts(hub) /\ ~Up(ops[o]),
         ~Forgets
  PROVE  Careful
<1>1. Attended(IdleOp)
  BY DEF Attended, Up, IdleOp
<1>2. ops'[o] = IdleOp /\ (\A p \in Ops \ {o} : ops'[p] = ops[p])
  BY DEF Finish
<1>3. AllAttended'
  BY <1>1, <1>2 DEF Calm, AllAttended
<1>4. \A p \in Ops : Up(ops[p]) => Up(ops[p])' \/ ~Drifts(hub')
  BY <1>2 DEF Up
<1> QED
  BY <1>3, <1>4, StillWatched

\* A command that goes on to another wait of the spawn.
LEMMA GoOnCareful ==
  ASSUME NEW o \in Ops, Calm, hub' = hub,
         ops'[o].kind = ops[o].kind, ops'[o].prev = ops[o].prev,
         Up(ops[o]), Up(ops[o])',
         \A p \in Ops \ {o} : ops'[p] = ops[p]
  PROVE  Careful
<1>1. AllAttended'
  BY DEF Calm, AllAttended, Attended, Up
<1>2. \A p \in Ops : Up(ops[p]) => Up(ops[p])'
  BY DEF Up
<1> QED
  BY <1>1, <1>2, StillWatched DEF Forgets

\* A step that touches no command.
LEMMA OpsUnchangedCareful ==
  ASSUME Calm, ops' = ops, Drifts(hub') => Drifts(hub),
         (~\E r \in Runtimes : Boots(r)) => ~Forgets
  PROVE  Careful
  BY DEF Calm, Careful, AllAttended, Watched

\* A command that was idle or at the gate starts to bring the session up.
LEMMA BeginSpawnCareful ==
  ASSUME NEW o \in Ops, ops \in [Ops -> Op], Calm,
         NEW kind \in CommandKinds, kind # "switch",
         NEW h, Sound(h), ~h.cache.active,
         NEW token, NEW handoff, BeginSpawn(o, kind, h, token, handoff),
         TokenOf(hub.store) \in {token, TokenOf(hub'.store)}
  PROVE  Careful
<1>1. /\ ops'[o].kind = kind /\ ops'[o].pc = "spawn" /\ ops'[o].prev = Visible(h.cache)
      /\ ops'[o].token = token
      /\ \A p \in Ops \ {o} : ops'[p] = ops[p]
  BY DEF BeginSpawn, IdleOp
<1>2. Attended(ops'[o])
  BY <1>1, DetachedVisible DEF Attended
<1>3. AllAttended'
  BY <1>1, <1>2 DEF Calm, AllAttended
<1>4. Up(ops[o])'
  BY <1>1 DEF Up
<1> QED
  BY <1>1, <1>3, <1>4 DEF Careful, Calm, Watched, Forgets

\* spawnInactiveSession of a detached session, up to its RPC.
LEMMA StartInactiveCareful ==
  ASSUME NEW o \in Ops, ops \in [Ops -> Op], Calm, ~Up(ops[o]),
         NEW kind \in CommandKinds, kind # "switch",
         NEW h, Sound(h), ~h.cache.active, Drifts(h) => Drifts(hub), SameToken(hub, h),
         StartInactive(o, kind, h)
  PROVE  Careful
<1>1. CASE BeginSpawn(o, kind, h, NoToken, FALSE)
  <2>1. SameToken(h, hub')
    BY <1>1, CommitLifecycleToken DEF BeginSpawn, LifecycleStates
  <2> QED
    BY <1>1, <2>1, BeginSpawnCareful DEF SameToken
<1>2. CASE Refuse(o, h)
  BY <1>2, FinishCareful DEF Refuse, Forgets, SameToken
<1> QED
  BY <1>1, <1>2 DEF StartInactive

\* resumeSession of a detached session, up to its RPC: the token it takes out
\* is the one it holds.
LEMMA ResumeInactiveCareful ==
  ASSUME NEW o \in Ops, ops \in [Ops -> Op], Calm, ~Up(ops[o]),
         NEW kind \in CommandKinds, kind # "switch",
         NEW h, Sound(h), ~h.cache.active, Drifts(h) => Drifts(hub), SameToken(hub, h),
         ResumeInactive(o, kind, h)
  PROVE  Careful
<1> DEFINE taken == WriteToken(h, NoToken)
           token == TokenOf(h.cache)
<1>1. CASE BeginSpawn(o, kind, taken, token, FALSE)
  <2>1. Sound(taken) /\ ~taken.cache.active
    BY WriteTokenKeeps DEF Keeps
  <2>2. TokenOf(hub.store) = token
    BY DEF SameToken, Sound, Coherent
  <2> HIDE DEF taken, token
  <2> QED
    BY <1>1, <2>1, <2>2, BeginSpawnCareful
<1>2. CASE BeginSpawn(o, kind, h, NoToken, Fallback[h.cache.driver] = "continuity")
  <2>1. SameToken(h, hub')
    BY <1>2, CommitLifecycleToken DEF BeginSpawn, LifecycleStates
  <2> QED
    BY <1>2, <2>1, BeginSpawnCareful DEF SameToken
<1>3. CASE Refuse(o, h)
  BY <1>3, FinishCareful DEF Refuse, Forgets, SameToken
<1> QED
  BY <1>1, <1>2, <1>3 DEF ResumeInactive

\* A session that is unarchived before it is brought up stays detached, with
\* its token.
LEMMA UnarchivedFirst ==
  ASSUME Sound(hub), ~hub.cache.active,
         NEW h \in {hub, TransitionLifecycle(hub, "closed", FALSE)}
  PROVE  Sound(h) /\ ~h.cache.active /\ (Drifts(h) => Drifts(hub)) /\ SameToken(hub, h)
<1> DEFINE closed == TransitionLifecycle(hub, "closed", FALSE)
<1>1. Sound(closed) /\ ~closed.cache.active
  BY TransitionLifecycleKeeps DEF Keeps, LifecycleStates
<1>2. closed.cache.lifecycle = "closed" /\ SameToken(hub, closed)
  BY TransitionLifecyclePresence, TransitionLifecycleToken DEF LifecycleStates
<1> HIDE DEF closed
<1>3. h \in {hub, closed}
  BY DEF closed
<1> QED
  BY <1>1, <1>2, <1>3 DEF Drifts, SameToken

\* A command whose wait is over.
LEMMA ContinueCareful ==
  ASSUME Inv, Calm, NEW o \in Ops, Continue(o)
  PROVE  Careful
<1>0. /\ ops[o] \in Op /\ Sound(hub) /\ ops \in [Ops -> Op] /\ Attended(ops[o])
      /\ hub.cache = hub.store
  BY DEF Inv, Rest, Sound, Coherent, Calm, AllAttended
<1>1. CASE SpawnReady(o)
  <2> DEFINE running == TransitionLifecycle(hub, "running", FALSE)
  <2>1. /\ Sound(running) /\ SameToken(hub, running) /\ running.cache.active = hub.cache.active
    <3>1. "running" \in LifecycleStates
      BY DEF LifecycleStates
    <3>2. Keeps(hub, running) /\ SameToken(hub, running)
      BY <1>0, <3>1, TransitionLifecycleKeeps, TransitionLifecycleToken
    <3>3. running.cache.active = hub.cache.active
      BY <1>0, <3>1, TransitionLifecyclePresence
    <3> QED
      BY <3>2, <3>3 DEF Keeps
  <2> HIDE DEF running
  <2>2. SameToken(running, Refresh(running)) /\ SamePresence(running, Refresh(running))
    BY <2>1, RefreshToken, RefreshPresence
  <2>3. hub' \in {running, Refresh(running)}
    BY <1>0, <1>1 DEF SpawnReady, AppendMessage, running, Attended
  <2>4. hub.cache.active
    BY <1>1 DEF SpawnReady, IsReady
  <2>5. ~Drifts(hub') /\ SameToken(hub, hub')
    BY <2>1, <2>2, <2>3, <2>4 DEF Drifts, SameToken, SamePresence
  <2> QED
    BY <1>0, <1>1, <2>5, FinishCareful DEF SpawnReady, Forgets, SameToken
<1>2. CASE SpawnNoticed(o)
  <2>1. /\ ops'[o].kind = ops[o].kind /\ ops'[o].prev = ops[o].prev /\ ops'[o].pc = ops[o].pc
        /\ \A p \in Ops \ {o} : ops'[p] = ops[p]
    BY <1>0, <1>2 DEF SpawnNoticed, Op
  <2> QED
    BY <1>2, <2>1, GoOnCareful DEF SpawnNoticed, At, Up
<1>3. CASE SpawnLost(o)
  <2>1. /\ ops'[o].kind = ops[o].kind /\ ops'[o].prev = ops[o].prev /\ ops'[o].pc = "cleanup"
        /\ \A p \in Ops \ {o} : ops'[p] = ops[p]
    BY <1>0, <1>3 DEF SpawnLost, GoTo, Op
  <2> QED
    BY <1>3, <2>1, GoOnCareful DEF SpawnLost, At, Up
<1>4. CASE SwitchStopped(o)
  BY <1>0, <1>4 DEF SwitchStopped, At, Attended
<1>5. CASE GateOpened(o)
  <2>1. ~Up(ops[o])
    BY <1>5 DEF GateOpened, At, Up
  <2>2. CASE hub.cache.active
    <3>1. hub' = Refresh(hub) /\ Finish(o)
      BY <1>5, <2>2 DEF GateOpened, AppendMessage
    <3>2. SamePresence(hub, hub') /\ SameToken(hub, hub')
      BY <1>0, <3>1, RefreshPresence, RefreshToken
    <3> QED
      BY <1>0, <2>1, <3>1, <3>2, FinishCareful DEF SamePresence, SameToken, Drifts, Forgets
  <2>3. CASE ~hub.cache.active
    <3>1. PICK h \in {hub, TransitionLifecycle(hub, "closed", FALSE)} :
            ResumeInactive(o, "send", h) \/ StartInactive(o, "send", h)
      BY <1>5, <2>3 DEF GateOpened
    <3>2. Sound(h) /\ ~h.cache.active /\ (Drifts(h) => Drifts(hub)) /\ SameToken(hub, h)
      BY <1>0, <2>3, UnarchivedFirst
    <3> QED
      BY <1>0, <2>1, <3>1, <3>2, ResumeInactiveCareful, StartInactiveCareful DEF CommandKinds
  <2> QED
    BY <2>2, <2>3
<1> QED
  BY <1>1, <1>2, <1>3, <1>4, <1>5 DEF Continue

\* A user issues a command.
LEMMA UserCommandCareful ==
  ASSUME Inv, Calm, NEW o \in Ops, UserCommand(o), "switch" \notin Commands
  PROVE  Careful
<1>0. ops \in [Ops -> Op] /\ Sound(hub)
  BY DEF Inv, Rest
<1>1. ~Up(ops[o])
  BY DEF UserCommand, CloseOrArchive, Unarchive, Resume, Start, Abort, Send, Switch,
         Issue, At, Up
<1>2. ASSUME NEW op, Attended(op), ~Up(op), ops' = [ops EXCEPT ![o] = op],
             Drifts(hub') => Drifts(hub), ~Forgets
      PROVE  Careful
  <2>1. ops'[o] = op /\ (\A p \in Ops \ {o} : ops'[p] = ops[p])
    BY <1>0, <1>2
  <2>2. AllAttended'
    BY <1>2, <2>1 DEF Calm, AllAttended
  <2>3. \A p \in Ops : Up(ops[p]) => Up(ops[p])'
    BY <1>1, <2>1 DEF Up
  <2> QED
    BY <1>2, <2>2, <2>3, StillWatched
<1>3. ASSUME NEW lifecycle \in {"closed", "archived"}, NEW markInactive,
             hub' = TransitionLifecycle(hub, lifecycle, markInactive)
      PROVE  ~Drifts(hub') /\ ~Forgets
  <2>1. lifecycle \in LifecycleStates
    BY DEF LifecycleStates
  <2>2. hub'.cache.lifecycle = lifecycle /\ SameToken(hub, hub')
    BY <1>0, <1>3, <2>1, TransitionLifecyclePresence, TransitionLifecycleToken
  <2> QED
    BY <2>2 DEF Drifts, Forgets, SameToken
<1>4. ASSUME NEW kind \in {"close", "archive"}, NEW lifecycle \in {"closed", "archived"},
             CloseOrArchive(o, kind, lifecycle)
      PROVE  Careful
  <2>1. ~Drifts(hub') /\ ~Forgets
    BY <1>3, <1>4 DEF CloseOrArchive
  <2> DEFINE op == [IdleOp EXCEPT !.kind = kind, !.pc = "teardown"]
  <2>2. Attended(op) /\ ~Up(op)
    BY DEF IdleOp, Attended, Up
  <2>3. ops' \in {ops, [ops EXCEPT ![o] = op]}
    BY <1>4 DEF CloseOrArchive
  <2> HIDE DEF op
  <2> QED
    BY <1>2, <2>1, <2>2, <2>3, OpsUnchangedCareful
<1>5. CASE Unarchive(o)
  BY <1>3, <1>5, OpsUnchangedCareful DEF Unarchive
<1>6. CASE Resume(o)
  BY <1>0, <1>1, <1>6, ResumeInactiveCareful DEF Resume, CommandKinds, SameToken
<1>7. CASE Start(o)
  BY <1>0, <1>1, <1>7, StartInactiveCareful DEF Start, CommandKinds, SameToken
<1>8. CASE Abort(o)
  <2> DEFINE op == [IdleOp EXCEPT !.kind = "abort", !.pc = "abort"]
  <2>1. Attended(op) /\ ~Up(op)
    BY DEF IdleOp, Attended, Up
  <2>2. ops' = [ops EXCEPT ![o] = op] /\ hub' = hub
    BY <1>8 DEF Abort
  <2> HIDE DEF op
  <2> QED
    BY <1>2, <2>1, <2>2 DEF Forgets
<1>9. CASE Send(o)
  <2>1. CASE hub.cache.active /\ hub.stopping
    <3> DEFINE op == [IdleOp EXCEPT !.kind = "send", !.pc = "gate", !.prev = hub.cache.lifecycle]
    <3>1. Attended(op) /\ ~Up(op)
      BY DEF IdleOp, Attended, Up
    <3>2. ops' = [ops EXCEPT ![o] = op] /\ hub' = hub
      BY <1>9, <2>1 DEF Send
    <3> HIDE DEF op
    <3> QED
      BY <1>2, <3>1, <3>2 DEF Forgets
  <2>2. CASE hub.cache.active /\ ~hub.stopping
    <3>1. hub' = Refresh(hub) /\ ops' = ops
      BY <1>9, <2>2 DEF Send, AppendMessage
    <3>2. SamePresence(hub, hub') /\ SameToken(hub, hub')
      BY <1>0, <3>1, RefreshPresence, RefreshToken
    <3> QED
      BY <3>1, <3>2, OpsUnchangedCareful DEF SamePresence, SameToken, Drifts, Forgets
  <2>3. CASE ~hub.cache.active
    <3>1. PICK h \in {hub, TransitionLifecycle(hub, "closed", FALSE)} :
            ResumeInactive(o, "send", h) \/ StartInactive(o, "send", h)
      BY <1>9, <2>3 DEF Send
    <3>2. Sound(h) /\ ~h.cache.active /\ (Drifts(h) => Drifts(hub)) /\ SameToken(hub, h)
      BY <1>0, <2>3, UnarchivedFirst
    <3> QED
      BY <1>0, <1>1, <3>1, <3>2, ResumeInactiveCareful, StartInactiveCareful DEF CommandKinds
  <2> QED
    BY <2>1, <2>2, <2>3
<1>10. ~\E driver \in Drivers : Switch(o, driver)
  BY DEF Switch, Issue
<1> QED
  BY <1>4, <1>5, <1>6, <1>7, <1>8, <1>9, <1>10 DEF UserCommand

\* A command that undoes its spawn leaves the lifecycle of before it.
LEMMA RestoreCareful ==
  ASSUME Inv, Calm, NEW o \in Ops, Up(ops[o]),
         NEW h, Sound(h), SameToken(hub, h),
         hub' = RestoreSpawn(h, ops[o]), Finish(o)
  PROVE  Careful
<1>0. ops[o] \in Op /\ ops \in [Ops -> Op] /\ Attended(ops[o])
  BY DEF Inv, Rest, Calm, AllAttended
<1>1. hub'.cache.lifecycle # "running"
  BY <1>0, RestoreSpawnPresence DEF Attended
<1>2. ~Forgets
  BY <1>0, RestoreSpawnToken DEF Attended, Forgets, SameToken
<1> QED
  BY <1>0, <1>1, <1>2, FinishCareful DEF Drifts

\* A command whose child is lost goes on watching the session, or settles it.
LEMMA ChildLostCareful ==
  ASSUME Inv, Calm, NEW o \in Ops, ops[o].pc \in {"spawn", "acked"}, ChildLost(o)
  PROVE  Careful
<1>0. ops[o] \in Op /\ Sound(hub) /\ ops \in [Ops -> Op] /\ Up(ops[o])
  BY DEF Inv, Rest, Up
<1>1. CASE ops[o].handoff \/ At(o, "acked")
  <2>1. /\ ops'[o].kind = ops[o].kind /\ ops'[o].prev = ops[o].prev
        /\ ops'[o].pc \in {"failed", "acked"} /\ hub' = hub
        /\ \A p \in Ops \ {o} : ops'[p] = ops[p]
    BY <1>0, <1>1 DEF ChildLost, Op
  <2> QED
    BY <1>0, <2>1, GoOnCareful DEF Up
<1>2. CASE ~(ops[o].handoff \/ At(o, "acked"))
  BY <1>0, <1>2, RestoreCareful DEF ChildLost, SameToken
<1> QED
  BY <1>1, <1>2

\* An answer or a timer of a command.
LEMMA AnswerCareful ==
  ASSUME Inv, Calm, NEW o \in Ops, Answer(o)
  PROVE  Careful
<1>0. ops[o] \in Op /\ Sound(hub) /\ ops \in [Ops -> Op] /\ Attended(ops[o])
  BY DEF Inv, Rest, Calm, AllAttended
<1>1. CASE AbandonSpawn(o)
  BY <1>1, ChildLostCareful DEF AbandonSpawn, At
<1>2. ASSUME NEW h, Sound(h), SameToken(hub, h), Up(ops[o]),
             hub' = RestoreSpawn(h, ops[o]), Finish(o)
      PROVE  Careful
  BY <1>2, RestoreCareful
<1>3. ASSUME ~Up(ops[o]), Finish(o), hub' = hub
      PROVE  Careful
  BY <1>0, <1>3, FinishCareful DEF Forgets
<1>4. SameToken(hub, hub)
  BY DEF SameToken
<1>5. CASE SpawnFailed(o)
  BY <1>0, <1>2, <1>4, <1>5 DEF SpawnFailed, At, Up
<1>6. CASE SpawnAcked(o)
  <2>1. /\ ops'[o].kind = ops[o].kind /\ ops'[o].prev = ops[o].prev
        /\ ops'[o].pc \in {"wait", "failed"}
        /\ \A p \in Ops \ {o} : ops'[p] = ops[p]
    BY <1>0, <1>6 DEF SpawnAcked, Op
  <2> QED
    BY <1>6, <2>1, GoOnCareful DEF SpawnAcked, At, Up
<1>7. CASE SpawnTimeout(o)
  <2>1. CASE GoTo(o, "cleanup") /\ hub' = hub
    <3>1. /\ ops'[o].kind = ops[o].kind /\ ops'[o].prev = ops[o].prev /\ ops'[o].pc = "cleanup"
          /\ \A p \in Ops \ {o} : ops'[p] = ops[p]
      BY <1>0, <2>1 DEF GoTo, Op
    <3> QED
      BY <1>7, <2>1, <3>1, GoOnCareful DEF SpawnTimeout, At, Up
  <2>2. CASE hub' = RestoreSpawn(hub, ops[o]) /\ Finish(o)
    BY <1>0, <1>2, <1>4, <1>7, <2>2 DEF SpawnTimeout, At, Up
  <2> QED
    BY <1>7, <2>1, <2>2 DEF SpawnTimeout
<1>8. CASE StopTimeout(o)
  BY <1>0, <1>3, <1>8 DEF StopTimeout, At, Up
<1>9. CASE KillReturned(o)
  <2>1. CASE At(o, "cleanup")
    <3> DEFINE ended == HandleSessionEnd(hub)
               closed == CommitLifecycle(ended, "closed")
    <3>1. Sound(ended) /\ SameToken(hub, ended)
      BY <1>0, HandleSessionEndKeeps, HandleSessionEndToken DEF Keeps
    <3> HIDE DEF ended
    <3>2. Sound(closed) /\ SameToken(ended, closed)
      BY <3>1, CommitLifecycleKeeps, CommitLifecycleToken DEF LifecycleStates, Keeps
    <3>3. hub' = RestoreSpawn(closed, ops[o]) /\ Finish(o)
      BY <1>9, <2>1 DEF KillReturned, ended
    <3> HIDE DEF closed
    <3>4. Up(ops[o]) /\ SameToken(hub, closed)
      BY <2>1, <3>1, <3>2 DEF At, Up, SameToken
    <3> QED
      BY <1>2, <3>2, <3>3, <3>4
  <2>2. CASE ~At(o, "cleanup")
    BY <1>3, <1>9, <2>2 DEF KillReturned, At, Up
  <2> QED
    BY <2>1, <2>2
<1>10. CASE AvailabilityAnswered(o) \/ SwitchKillReturned(o)
  BY <1>0, <1>10 DEF AvailabilityAnswered, SwitchKillReturned, At, Attended
<1>11. CASE AbortReturned(o)
  <2>1. ~Up(ops[o]) /\ Finish(o)
    BY <1>11 DEF AbortReturned, At, Up
  <2>2. CASE hub' = hub
    BY <1>3, <2>1, <2>2
  <2>3. CASE hub' = [CommitLifecycle(hub, "open") EXCEPT !.thinking = FALSE]
    <3> DEFINE opened == CommitLifecycle(hub, "open")
    <3>1. Sound(opened) /\ opened.cache.lifecycle = "open" /\ SameToken(hub, opened)
      BY <1>0, CommitLifecycleKeeps, CommitLifecycleToken DEF LifecycleStates, Keeps
    <3> HIDE DEF opened
    <3>2. hub'.cache = opened.cache /\ hub'.store = opened.store
      BY <2>3, <3>1 DEF Sound, Hub, opened
    <3> QED
      BY <1>0, <2>1, <3>1, <3>2, FinishCareful DEF Drifts, Forgets, SameToken
  <2> QED
    BY <1>11, <2>2, <2>3 DEF AbortReturned
<1> QED
  BY <1>1, <1>5, <1>6, <1>7, <1>8, <1>9, <1>10, <1>11 DEF Answer

\* The fork of a child.
LEMMA ForkCareful ==
  ASSUME Inv, Calm, NEW o \in Ops, NEW r \in Runtimes, Fork(o, r)
  PROVE  Careful
<1>1. /\ ops'[o].kind = ops[o].kind /\ ops'[o].prev = ops[o].prev /\ ops'[o].pc = "spawn"
      /\ \A p \in Ops \ {o} : ops'[p] = ops[p]
  BY DEF Fork, At, Inv, Rest, Op
<1> QED
  BY <1>1, GoOnCareful DEF Fork, At, Up

\* What a child does by itself.
LEMMA RuntimeCareful ==
  ASSUME Inv, Calm, NEW r \in Runtimes, RuntimeEvent(r)
  PROVE  Careful
<1>0. Sound(hub) /\ ops \in [Ops -> Op] /\ runtimes \in [Runtimes -> Runtime]
  BY DEF Inv, Rest
<1>1. ASSUME ops' = ops, SamePresence(hub, hub'), SameToken(hub, hub')
      PROVE  Careful
  BY <1>1, OpsUnchangedCareful DEF SamePresence, SameToken, Drifts, Forgets
<1>2. CASE Started(r)
  <2>1. \A o \in Ops : /\ ops'[o].kind = ops[o].kind /\ ops'[o].prev = ops[o].prev
                       /\ \/ ops'[o].pc = ops[o].pc
                          \/ ops[o].pc = "spawn" /\ ops'[o].pc = "acked"
    <3> TAKE o \in Ops
    <3>1. ops[o] \in Op
      BY <1>0
    <3>2. \/ ops'[o] = ops[o]
          \/ At(o, "spawn") /\ ops'[o] = [ops[o] EXCEPT !.pc = "acked"]
      BY <1>2, Zenon DEF Started
    <3> QED
      BY <3>1, <3>2 DEF Op, At
  <2>2. AllAttended' /\ (\A o \in Ops : Up(ops[o]) => Up(ops[o])')
    BY <2>1 DEF Calm, AllAttended, Attended, Up
  <2>3. hub' = hub
    BY <1>2 DEF Started
  <2> QED
    BY <2>2, <2>3, StillWatched DEF Forgets
<1>3. CASE Connect(r)
  BY <1>0, <1>1, <1>3, RefreshPresence, RefreshToken DEF Connect
<1>4. CASE SyncMetadata(r)
  <2>1. runtimes[r].driver \in Drivers /\ runtimes[r].handles \in Handles
    BY <1>0 DEF Runtime
  <2>2. SamePresence(hub, hub') /\ ops' = ops
    BY <1>0, <1>4, <2>1, MergeBootstrapMetadataPresence DEF SyncMetadata
  <2>3. Boots(r)
    BY <1>0, <1>4 DEF SyncMetadata, Boots, Runtime
  <2> QED
    BY <2>2, <2>3, OpsUnchangedCareful DEF SamePresence, Drifts
<1>5. CASE KeepAlive(r)
  <2>1. PICK thinks \in BOOLEAN, persists \in BOOLEAN, broadcasts \in BOOLEAN :
          hub' = HandleSessionAlive(hub, thinks, persists, broadcasts)
    BY <1>5 DEF KeepAlive
  <2>2. (Drifts(hub') => Drifts(hub)) /\ SameToken(hub, hub')
    BY <1>0, <2>1, HandleSessionAliveDrift, HandleSessionAliveToken
  <2> QED
    BY <1>5, <2>2, OpsUnchangedCareful DEF KeepAlive, SameToken, Forgets
<1>6. CASE IdleStop(r)
  <2>1. hub'.cache = hub.cache /\ hub'.store = hub.store /\ ops' = ops
    BY <1>0, <1>6 DEF IdleStop, Sound, Hub
  <2> QED
    BY <1>1, <2>1 DEF SamePresence, SameToken
<1>7. CASE SessionEnd(r)
  <2>1. (Drifts(hub') => Drifts(hub)) /\ SameToken(hub, hub')
    BY <1>0, <1>7, IngestSessionEndDrift, IngestSessionEndToken DEF SessionEnd
  <2> QED
    BY <1>7, <2>1, OpsUnchangedCareful DEF SessionEnd, SameToken, Forgets
<1>8. ASSUME NEW token \in Tokens, FoundToken(r, token)
      PROVE  Careful
  <2>1. runtimes[r].driver \in Drivers
    BY <1>0 DEF Runtime
  <2>2. SamePresence(hub, hub') /\ TokenOf(hub'.store) = token
    BY <1>0, <1>8, <2>1, MergeRuntimeMetadataPresence, MergeRuntimeMetadataToken DEF FoundToken
  <2> QED
    BY <1>8, <2>2, TokensAssumption, OpsUnchangedCareful
    DEF FoundToken, SamePresence, Drifts, Forgets
<1>9. CASE Exit(r)
  BY <1>1, <1>9, ChildLostCareful DEF Exit, Awaits, SamePresence, SameToken
<1> QED
  BY <1>2, <1>3, <1>4, <1>5, <1>6, <1>7, <1>8, <1>9 DEF RuntimeEvent

\* The sweep and the other durable writes.
LEMMA HubCareful ==
  ASSUME Inv, Calm, Expire \/ Touch
  PROVE  Careful
<1>0. Sound(hub)
  BY DEF Inv
<1>1. CASE Expire
  <2>1. ~Drifts(hub') /\ SameToken(hub, hub')
    BY <1>0, <1>1, DeactivateKeeps, DeactivateToken DEF Expire, Drifts
  <2> QED
    BY <1>1, <2>1, OpsUnchangedCareful DEF Expire, SameToken, Forgets
<1>2. CASE Touch
  <2>1. SamePresence(hub, hub') /\ SameToken(hub, hub')
    BY <1>0, <1>2, RefreshPresence, RefreshToken DEF Touch
  <2> QED
    BY <1>2, <2>1, OpsUnchangedCareful DEF Touch, SamePresence, SameToken, Drifts, Forgets
<1> QED
  BY <1>1, <1>2

\* A restart leaves no command, and no session that drifts.
LEMMA RestartCalm ==
  ASSUME Inv, Restart
  PROVE  Calm' /\ restarts' # restarts
<1>1. ~Drifts(hub')
  BY RestartStep DEF Drifts
<1>2. Attended(IdleOp)
  BY DEF Attended, Up, IdleOp
<1>3. AllAttended' /\ restarts' # restarts
  BY <1>2, BoundsAssumption DEF Restart, AllAttended, Inv, Rest
<1> QED
  BY <1>1, <1>3 DEF Calm

\* Every step is careful, or a restart.
LEMMA NextCareful ==
  ASSUME Inv, Calm, Next, "switch" \notin Commands
  PROVE  Careful \/ Restart
<1>1. ASSUME NEW o \in Ops, Continue(o) PROVE Careful
  BY <1>1, ContinueCareful
<1>2. ASSUME NEW o \in Ops, Answer(o) PROVE Careful
  BY <1>2, AnswerCareful
<1>3. ASSUME NEW o \in Ops, UserCommand(o) PROVE Careful
  BY <1>3, UserCommandCareful
<1>4. ASSUME NEW o \in Ops, NEW r \in Runtimes, Fork(o, r) PROVE Careful
  BY <1>4, ForkCareful
<1>5. ASSUME NEW r \in Runtimes, RuntimeEvent(r) PROVE Careful
  BY <1>5, RuntimeCareful
<1>6. ASSUME Expire \/ Touch PROVE Careful
  BY <1>6, HubCareful
<1> QED
  BY <1>1, <1>2, <1>3, <1>4, <1>5, <1>6 DEF Next, Event

\* The Hub loads no session that drifts, and starts with no command.
LEMMA InitCalm == Init => Calm
<1> SUFFICES ASSUME Init PROVE Calm
  OBVIOUS
<1>1. PICK row \in Row : hub = Loaded(BootRepair(row))
  BY DEF Init
<1>2. ~Drifts(hub)
  BY <1>1, LoadedSound DEF Drifts
<1>3. Attended(IdleOp)
  BY DEF Attended, Up, IdleOp
<1> QED
  BY <1>2, <1>3 DEF Init, Calm, AllAttended

\* Without driver switches, every step keeps the commands attended and the
\* session from drifting unwatched.
LEMMA CalmStep ==
  ASSUME "switch" \notin Commands
  PROVE  Inv /\ Calm /\ [Next]_vars => Calm'
<1> SUFFICES ASSUME Inv, Calm, [Next]_vars PROVE Calm'
  OBVIOUS
<1>1. CASE Next
  BY <1>1, NextCareful, RestartCalm DEF Careful
<1>2. CASE UNCHANGED vars
  BY <1>2 DEF vars, Calm, AllAttended, Watched
<1> QED
  BY <1>1, <1>2

\* Without driver switches, a detached session is durably running only while a
\* command is bringing it up.
THEOREM DetachedSessionsSettle ==
  ASSUME "switch" \notin Commands
  PROVE  Spec => []IdleSessionIsNeverRunning
<1>1. Calm => IdleSessionIsNeverRunning
  BY DEF Calm, Drifts, Watched, Up, IdleSessionIsNeverRunning, BringingUp
<1> QED
  BY <1>1, InitCalm, CalmStep, HubInvariant, PTL DEF Spec

\* Without driver switches, a token that a step of a running Hub takes out of
\* the store is in the hands of a command that brings the session up.
THEOREM TokensAreHeld ==
  ASSUME "switch" \notin Commands
  PROVE  Spec => TokenIsHeld
<1> DEFINE Taken == /\ TokenOf(hub.store) # NoToken
                    /\ TokenOf(hub'.store) = NoToken
                    /\ restarts' = restarts
                    /\ ~\E r \in Runtimes : Boots(r)
           InHands == \E o \in Ops : ops'[o].token = TokenOf(hub.store) /\ BringingUp(o)'
<1>1. Inv /\ Calm /\ [Next]_vars => [Taken => InHands]_vars
  <2> SUFFICES ASSUME Inv, Calm, Next, Taken PROVE InHands
    BY DEF vars
  <2>1. ~Forgets
    BY NextCareful, RestartCalm DEF Careful
  <2> QED
    BY <2>1 DEF Forgets, Up, BringingUp
<1> QED
  BY <1>1, InitCalm, CalmStep, HubInvariant, PTL DEF Spec, TokenIsHeld

=============================================================================
