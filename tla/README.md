# Viby in TLA+

Viby is a local-first control plane for coding agents: a **Hub** (one Bun
process) keeps every session in SQLite and in memory and serves the web client;
an **AppCore** inside it forks one provider process per running session; an
optional **pairing broker** lets a remote browser reach the Hub. This directory
holds TLA+ modules translated from that code, TLC configurations that check
them, and TLAPS proofs about them.

Five parts of it are modelled:

* *what the Hub believes about a session* — is it running, closed, archived,
  attached to a process, and with which provider token can it be resumed — while
  commands, processes, timers and restarts interleave (sections 2 and 3);
* *how a message reaches a turn*: from the post of a client, through the Hub's
  log and the pipes of the runtimes, to the turn loop that runs it (section 4);
* *permission requests* and the versioned document they are kept in (section 5);
* *the signalling of a remote pairing*: perfect negotiation over the broker
  (section 6);
* *what the web client shows of the log* while its socket comes and goes
  (section 7).

The modules meet at the Hub: `HubSession` takes the runtimes' presence and
stopping announcements that `MessageDelivery` refines with the message path;
the rows that `MessageDelivery` appends, invokes and cancels are the log that
`MessageWindow` shows; the runtime that raises a request in `PermissionRequests`
is one of the processes of the first two.

| file | what it is |
|---|---|
| `SessionLifecycle.tla` | the lifecycle vocabulary (`shared/src/sessionLifecycle.ts`) |
| `HubSession.tla` | one session: durable row, cached copy, runtimes, commands |
| `HubSession_proofs.tla` | theorems about the session: types, coherence, history, restart |
| `HubCommands_proofs.tla` | theorems about the commands: tokens, detached sessions |
| `MCHubSession.tla`, `MCHubSession_*.cfg` | its instances for TLC |
| `SessionPresence.tla`, `SessionPresence_*.cfg` | keepalives, throttling and the sweep, in time |
| `SessionPresence_proofs.tla` | theorems about it |
| `MessageDelivery.tla` | gate, message log, pipes, queue, turn loop, idle stop |
| `MCMessageDelivery.tla`, `MCMessageDelivery_*.cfg` | its instances |
| `MessageDelivery_proofs.tla` | theorems about it |
| `RequestBook.tla` | what the permission part of the agent state promises |
| `PermissionRequests.tla`, `PermissionRequests_permission.cfg` | the permission handler over versioned updates, which implements it |
| `PermissionRequests_proofs.tla` | theorems about it, the refinement among them |
| `PairingSignaling.tla`, `PairingSignaling_glare.cfg` | both peers, their sockets and the broker between them |
| `PairingSignaling_proofs.tla` | theorems about them: all its safety properties |
| `MessageWindow.tla`, `MessageWindow_window.cfg` | the web client's window of one session's log |
| `MessageWindow_proofs.tla` | theorems about it: all its invariants |
| `SetInduction.tla` | induction over the naturals, stated with sets, for the proofs |
| `PROJECT.json` | components, runs, mutants, source map, findings, hazards, theorems |

## 1. Inventory

### Components, their state and operations

| component | state | operations |
|---|---|---|
| Session lifecycle (`hub/src/sync/session*.ts`) | the `sessions` row (active, metadata with lifecycle, driver, runtime handles); the cached `Session` | close, archive, unarchive, resume, start, abort, send, driver switch; refresh, transition, normalise; boot repair |
| Session presence (`sessionPresenceService.ts`) | `active`, `activeAt`, `thinking` in memory; `active`, `active_at` in the store; what was last persisted and broadcast | keepalive, session end, inactivity sweep |
| Runtime stopping gate (`sessionRuntimeStateService.ts`, `sessionInteractionService.ts`) | sessions whose runtime announced it is stopping | mark, clear, wait |
| Runtime supervisor (`app-core/src/runtime`) | tracked child processes, pending spawns, RPC registrations | spawn, start timeout, adoption by session-started, stop, exit |
| Runtime bootstrap (`app-core/src/agent/sessionFactory.ts`) | the child's copy of the metadata and its version | get-or-create session, metadata sync, session-started |
| Versioned metadata updates | metadata version in row and client | read–compute–write, mismatch, retry |
| Message log (`messageService.ts`, `store/messages.ts`) | numbered messages, queued / invoked / cancelled | append (idempotent by local id), queue, invoke, cancel, stream replace |
| Turn owner (`sessionBase.ts`, `MessageQueue2.ts`, idle stop) | queue, thinking, idle timer | push, batch, reset, turn start / end, idle stop |
| Pairing broker (`pairing/src`) | pairing sessions, tokens, connections, sockets | create, approve, renew, reconnect, delete, expire |
| Shared pairing transport (`shared/src/pairing`) | route state, probe generation, negotiation flags | heartbeat, promote / demote, offer, answer, candidates |
| Capability cache | snapshots, pending probes | refresh, forced refresh |
| Permission handler | pending permission requests | request, answer, reset |
| Terminal registry, machine cache, notifications, device auth, web, desktop, provider adapters, store migrations, local recovery | see `PROJECT.json` | see `PROJECT.json` |

### How they interact

* A **user command** enters through an HTTP route or a socket, runs
  `executeSessionCommand` and, between awaits, reads and writes the session
  through the session cache. Commands hold *references to the cached object*;
  some writers update that object in place, others replace it.
* **RPCs** to a runtime go through `DirectRuntimeRegistry`: the last process that
  registered for a session gets them. They can be answered, fail, or time out
  after having been read.
* A **runtime** talks back over its stdout pipe (session-started, metadata,
  keepalive, idle stop, session-end). The pipe is ordered; it is drained after
  the child was told to stop and even after a command gave it up.
* **Waits** (`waitForSessionCondition` and friends) subscribe to session events
  and re-evaluate on each; each carries a timer.
* A **Hub restart** takes AppCore and its children with it; the new Hub repairs
  the rows it loads.

### What is hard about it

Interleavings of commands across awaits; objects read before an await and used
after it; late keepalives and late session-ends of a process nobody tracks any
more; a throttle that leaves the store behind the memory while refreshes read
the store back; durable values (the resume token) that live in a command's local
variable across failures; retried writes that carry old values; waits that may
never be satisfied. `PROJECT.json` lists each hazard at its line, with the
property that covers it or the reason none does yet.

### What makes each component correct

* Lifecycle and presence: memory agrees with store; history sessions stay
  detached and detached sessions are not `running`; a resume token is never
  lost; every command ends; a restart settles every drift.
* Presence in time: live sessions are not swept, dead ones are.
* Bootstrap and versioned updates: a child's metadata write deletes nothing
  another writer wrote.
* Message log and turn owner: an accepted message is invoked once or cancelled,
  in order; the loop does not sleep on it; it is not handed to a process that
  leaves.
* Supervisor: one runtime per session answers its messages and its RPCs.
* Versioned updates and permissions: no update is lost or applied to a document
  other than the one stored; what the user is shown can be answered, and the
  agent hears of each request once.
* Pairing and transport: both peers come to rest on one exchange; an expired
  session grants nothing; one socket per role; a route is never promoted by a
  stale acknowledgement.
* Web window: every row the Hub keeps is shown or can be reached, once, in the
  state the Hub has it.
* Capability cache: a forced refresh is never answered by an older probe.

## 2. HubSession

### State and the code

| variable | code |
|---|---|
| `hub.store` | the row of `sessions`: `active`, `metadata.lifecycleState`, `metadata.driver`, `metadata.runtimeHandles` |
| `hub.cache` | the same of the `Session` in `SessionCache` |
| `hub.thinking` | `session.thinking`, only in memory |
| `hub.stopping` | the session's entry in `SessionRuntimeStateService` |
| `runtimes[r]` | a child of `spawnSessionProcess`: `starting`, `connected` (has read the session), `synced` (has written its metadata), `handed` (started with a handoff: it reads the session and writes no metadata), `live`, `stopping`, `ended` (session-end sent), `abandoned` (told to stop by the start timeout, its output still read); `handles` is what it read |
| `target` | the process `DirectRuntimeRegistry` sends session RPCs to |
| `ops[o]` | a command between two awaits: what it waits for (`pc`) and the locals it keeps (`prev`, `token`, `driver`, `prevDriver`, `handoff`, `seen`, `child`) |
| `hasMessages` | whether the log has a message (a send then resumes, otherwise it starts) |

The Hub is one thread. A step is one uninterrupted stretch of it: from an event,
timer or answer to the next await that waits for something outside. Handlers are
operators from session to session (`CommitLifecycle`, `TransitionLifecycle`,
`Deactivate`, `HandleSessionAlive`, `IngestSessionEnd`, …) composed in the order
of the code, trailing refreshes included; a lifecycle write and the refresh and
event that follow it are one operator. A wait whose condition has become true
continues before the next event is taken (`Drained`), since listeners run inside
the event that satisfies them.

Commands: `CloseOrArchive`, `Unarchive`, `Resume`, `Start`, `Abort`, `Send`,
`Switch`. Their later stretches: `SpawnFailed`, `SpawnAcked`, `SpawnReady`,
`SpawnNoticed`, `SpawnLost`, `SpawnTimeout`, `SwitchStopped`, `GateOpened`,
`StopTimeout`, `KillReturned`, `AvailabilityAnswered`, `SwitchKillReturned`,
`AbortReturned`. Runtimes: `Fork`, `Connect`, `SyncMetadata`, `Started`,
`KeepAlive`, `FoundToken`, `IdleStop`, `SessionEnd`, `Exit`, `AbandonSpawn`. The
Hub: `Expire`, `Touch` (any other durable write on the session), `Restart`.

### Abstractions

* One session, after its creation; deletion is not modelled. `activeAt` is left
  to `SessionPresence`: here the sweep (`Expire`) may strike whenever the session
  is active, and the persist and broadcast throttles are free choices — both are
  supersets of the code.
* Whether a machine is online, whether a handoff can be built, what an
  availability probe or an RPC answers: free choices.
* A child's versioned metadata write is retried without limit
  (`updateMetadataAndWait`), so it is one write at any later time with the value
  first computed. What an abandoned child may still write from its pipe is what
  it read, and is left out.
* session-started and the RPC registration are adjacent in the pipe: one step.
* A handoff is a driver switch or a continuity resume
  (`sessionLifecycleService.ts:170`): its child is spawned with driver-switch
  arguments and persists no bootstrap metadata (`sessionFactory.ts:145`).
* When a spawn that waits for its child fails (`ChildLost`: start timeout,
  protocol failure, exit), what follows depends on the handoff. Without one only
  settled promises lie between the failure and what the command puts back, so
  both are one step; with one the clean-up of the handoff's files is awaited
  first, and lines of runtimes are read in between. When that clean-up fails
  after the child started, the child is told to stop and the spawn fails
  (`SpawnAcked`).
* The spawn's session-id mismatch and the clean-up of worktrees are left out. A
  switch child's read of the session is a `Touch`.
* The teardown wait of close and archive is kept in the model although the code
  never reaches it (finding `hub_close`): `heldActive` is computed as the code
  computes it.

### Runs

| run | instance | shows |
|---|---|---|
| `hub_commands` | 1 driver, 1 token, 2 runtimes, 2 commands of any kind but the switch | `TypeOK`, `CacheIsCoherent`, `IdleSessionIsNeverRunning`, `PresenceNeverRevivesHistory`, `TokenIsHeld`, `TokenComesBack` |
| `hub_switch` | 2 drivers (one that resumes without a token), 1 runtime, 1 command, 1 restart | `CacheIsCoherent`, `PresenceNeverRevivesHistory`, `BootSettlesDrift`, and `CommandsEnd` under fairness |
| `hub_close` | 1 runtime, archive and resume | `RuntimeNeverReopensHistory` is violated |
| `hub_split` | 1 runtime, close and resume, a driver that resumes by token only | `NoActiveHistory` is violated |
| `hub_boot` | 2 runtimes, a resume and a start | `BootKeepsHandles` is violated |

Bounds. Two runtimes are enough for an old process and a new one (every hazard
here is between those two; a third can only repeat what the second does, since
the Hub does not tell processes apart by anything but "last registered"). Two
commands are enough for a pair of awaits to interleave. One token is enough
where a property asks whether *a* handle is there; the proofs cover any number.
`Init` is every row a Hub may find, after its repair; slots for commands and
runtimes are reused without limit, so histories are unbounded. `hub_commands`
uses the symmetry of runtimes and commands (no liveness is checked there).

Fairness. `CommandsEnd` assumes strong fairness of each command's next stretch:
the event loop reaches every due timer and every answer however many other
events come first, and every RPC and wait of these commands has a timer in the
code. Nothing makes a user, a runtime or the sweep act. Strong and not weak,
because an event in between may leave another command to be continued first
(`Drained`), which disables the answer for a moment.

## 3. SessionPresence

`HubSession` ignores time; this module is about it. State: ages (time since) of
the last keepalive sent, of `activeAt` in memory, how much older it is in the
store (`lag`), and of the newest keepalive handled; `known` is whether the
persisted-time map has an entry. `HandleSessionAlive`, `HandleSessionEnd`,
`ExpireInactive`, `Refresh`, `Restart` are the handlers; `Send`, `Spawn`, `Crash`
the runtime; `Tick` the clock, which does not pass a keepalive that is due or one
that must have arrived.

Ages are capped one above the timeout, where nothing distinguishes them any
more. Assumed: the session is outside the history, one runtime at a time, one
keepalive in the pipe, a runtime is spawned for an inactive session, and a
runtime keeps its idle cadence (the busy cadence of 2 s only sends more often
and is included: `Send` may happen at any time).

`presence_sweep` checks the code's constants in seconds (persist 10, timeout 30,
keepalive 10, delay up to 2): `StoreFollowsKeepAlives`, `LiveSessionIsFresh` and,
under fairness, `PersistedSessionExpires`. The fairness is that time passes, the
pipe is read and the sweep's interval fires. `presence_crash` finds
`CrashedSessionExpires` violated.

## 4. MessageDelivery

One session, outside the archive, with history, on one machine; its runtimes are
spawned one after the other and may overlap.

| variable | code |
|---|---|
| `active`, `thinking`, `stopping` | the session in `SessionCache`, its entry in `SessionRuntimeStateService` |
| `row`, `rowSeq`, `lastSeq` | the rows of `messages` by local id (`invoked_at` null or not) and the sequence numbers handed out |
| `op`, `asQueued` | where a post is: `idle`, `held` at the gate, `resuming`, `done`; the `queuedForInvocation` it computed before the awaits |
| `tracked` | the processes `RuntimeSupervisor` knows by this session; it finds the one spawned first |
| `inPipe`, `outPipe` | stdin and stdout of each process, unread |
| `queue`, `waiter` | `MessageQueue2.queue` and its `waiter` |
| `pc`, `aborted`, `aborts`, `shouldExit` | the turn loop, the signal it captured, aborts between their two halves, the launcher's exit flag |
| `busy`, `armed`, `timer` | `AgentSessionBase.thinking`, `IdleRuntimeStopController` |
| `stopInFlight` | `AgentSessionBase.runtimeStopInFlight`: the idle timer is not set meanwhile |
| `lastSeen` | `lastSeenMessageSeq` of the recovery state |
| `taken`, `lost` | history: what each process ran; what went away with a process or was sent to none |

A step is one uninterrupted stretch of the Hub or of one process. Hub: `Send` (up
to its first await), `Released`, `GivesUp`, `Resumed`, `Cancel`, `Sweep`,
`Ingest` (one line of a runtime: session-started, keepalive, stopping, consumed,
cancelled, session-end). Process: `Spawn`, `Read` (one line of stdin),
`LoopTop`, `Collect`, `EndTurn`, `KeepAlive`, `Abort` with `AbortEnd` after its
await, `IdleStop`, `Kill`, `SendDeath`, `Exit`, `Crash`. The launcher is that of
one driver (copilot): the drivers share the turn owner and differ in what an
abort awaits.

What a turn does, isolated messages and attachments are left out. The budget
`MaxEvents` covers client retries, aborts, kills, sweeps and crashes together.

`delivery` checks

* `RunsFollowTheLog`: a process runs messages in the order of the log, none
  twice, with client retries and repeated deliveries;
* `QueueFollowsLog`: what a process has queued is in the log, or its
  cancellation is in the pipe — a cancelled message does not run;
* `WaitingIsHeld`: a row shown as waiting is with a process that will take it or
  say that it will not;
* `NothingSleeps`: the loop is not asleep on a non-empty queue (`reset` drops the
  waiter without waking it; only the abort that follows saves it);
* `IdleIsTimed`: an idle runtime has its idle timer set, also after a cancel
  emptied the queue that kept the timer off, unless a stop of it is in flight
  (`schedule()` refuses then);
* `WaitingSettles`, under fairness: a waiting row is invoked or cancelled in the
  end. Fairness: each process gets on with what it has to do — a provider ends
  its turns, timers fire — and the Hub reads its pipes. Nothing makes a user or a
  crash act.

`WaitingIsHeld` and `WaitingSettles` except `lost` messages: a message in the
pipe or queue of a process that exits or crashes, or that was appended when no
process was tracked, stays as the log has it. That is what the code does: the Hub
does not deliver again.

Bounds: one user message with one retry and one that the Hub itself sends, two
runtimes, one event (305,858 states). The same with two modes of
messages (`TwoModes`, so that batches split) was also checked for safety (301,326
states).

`delivery_gate` finds `SendsWaitForTheRuntime` violated (section 8).

## 5. PermissionRequests and RequestBook

`RequestBook` is the abstract specification: a book of open and completed
requests that changes only by whole operations — register, finish, auto-approve,
cancel all — each on the book as it is.

`PermissionRequests` is the code that keeps it. Each runtime holds its requests
twice (`backend`: `pendingBackendRequests` of the driver's handler; `pending`:
`pendingRequests` of the base class) and changes `agentState` through updates
queued on a lock (`lockq`), computed on its own copy (`local`), written down its
pipe with the version it expects, taken by the Hub's compare-and-set (`Handle`)
or refused with the stored document, and retried for ever. An ack may time out
(`TimeOut`) and arrive later. `Answer` is the user's post, an RPC to the process
that registered last. `Close` sends the session-end before the updates are
flushed, so a successor (`Start`) may already be running: two writers.

`CancelAll`, as in the gemini handler, empties the driver's map, awaits the
backend for each request and then cancels *every request of the stored
document*. Two consequences are kept as history: `late` (raised during that
await, cancelled without the agent being told) and `wiped` (another runtime's
request).

`permission` checks `OneBook` (`PermissionRequests` implements `RequestBook`,
with the stored document as the book), `CopiesAreVersioned` (a copy that carries
the stored version is the stored document), `ShownIsPending` (what the user is
shown is what the handler can take an answer to), `WaitingIsPending`,
`ToldOnce` (the agent hears of a request at most once, and what the book calls
answered it was told) and, with the lock's holder sending and the pipes read,
`UpdatesLand`. Whether the backend ever returns is not assumed.

Bounds: two requests, two runtimes, one click, one event (cancel, timeout or
crash) — 221,453 states. Safety was also checked with two events under the
symmetry of requests (1,331,017 states): a cancel *and* a timeout.

The permission modes decide between `Raise` and `AutoApprove`; here the choice is
free.

## 6. PairingSignaling

Host and guest each run `createPerfectNegotiation` on an `RTCPeerConnection`,
over a transport that reconnects its broker socket for ever. The broker forwards
to the socket of the other role or keeps the signal; attaching a guest awaits the
store before the kept signals are flushed.

Of the browser's object the model has what the code relies on — the chain of
operations, the signalling state, the implicit rollback, negotiation-needed —
and `map` marks these external. Each `await` of `perfectNegotiation.ts` is an
operation on that chain, so `makingOffer`, `ignoreOffer` and
`isSettingRemoteAnswerPending` are read and written at the points the code does.
A description is who made it and its number; it has one candidate.

Faults, `MaxEvents` together: `RestartIce`, `Drop` (a socket breaks with what is
under way), `RestartBroker` (all sockets, all kept signals). `ForwardEarly` is a
frame that arrives before the broker has finished attaching its socket: the code
closes with 1008, which the transport treats as final (`sock = "fatal"`).

`glare` checks `RestInAgreement` (at rest both ends hold the two halves of one
exchange), `CandidatesArrive`, `HostOfferStands` (in a glare only the polite
guest gives way) and `NegotiationEnds` under fairness (chains, tasks,
reconnection and the broker make progress). The last asks that no signal was
lost: the code sends a lost description again only with the next ICE restart.
The first two except a signal that *overtook* those the broker had kept, which
happens when a frame for the guest comes during its attach; `perfectNegotiation`
then refuses or misplaces it. In the first exchange even that does no harm, and
`CandidatesArrive` says so.

Bounds: two events (180,565 states); safety also with three (4,836,208).

## 7. MessageWindow

The Hub's log, as the client sees it: rows by sequence number with writer and
state. The client's window (`shown`, `pending`, `bubble`, `hasMore`,
`atBottom`) is fed from `wire` (the room's events, recoverable while the socket
is briefly down), `view` (the page requests, by who deduplicates them: `"load"`
is the first load of the route, then the latest page the window asks for in its
place when it fails; `"sync"` is the recovery, which stays `Applied` from the
moment its view is applied to the moment the other queries it invalidated have
settled), `unread` (no page was shown, nor asked for in the load's place),
`older` (history pages up to the previous user
message) and `post` (the send mutation, whose request may time out on the client
and be handled by the Hub later: `late`). `status` is
`RealtimeRecoveryRuntime`.

Hub actions: `AgentWrites`, `HandlePost`, `HandleLate`, `Consume`, `Cancel`,
`Answer`, `Join`. User: `Send`, `Retry`, `Scroll`, `Flush`, `LoadOlder`,
`Refresh`. Network: `Receive`, `Accepted`, `Rejected`, `Hydrate`,
`LoadFails`, `PageFails`, `RecoveryEnds`, `RecoveryFails`, `OlderPage`, `ShowOlder`, `OlderFails`, `Connect`,
`Disconnect`, `ConnectFails`. Each way rows come in is a reducer of the code:
`ShowPage`, `Ingest`, `Flush`, `ShowOlder`, `MarkConsumed`, `RemoveQueued`, all
over `Merge` (`mergeMessages`), which also drops bubbles.

`window` checks `CaughtUp` (a settled window accounts for every row the Hub
keeps: shown, behind the new-messages button, or older and loadable),
`QueueIsCurrent`, `ShownOnce`, `SendsEnd`, `BannerFollowsSocket` and, under
fairness, `RowsArrive`. Fairness: the socket is tried again until it connects,
events and answers arrive, and the queries a recovery awaits settle; one weak fairness condition over all of them, the
least that makes progress.

Writing these down showed five situations in which the code does not keep them,
none of which a document excludes. They set history flags, each at the action
that sets it, and the properties hold in all other behaviours:

| flag | situation | code |
|---|---|---|
| `blind` | a reconnect joins a recovery whose answer the Hub read before the socket was back in the room, or whose view was applied while its other queries still ran | `realtimeRecoveryRuntime.ts:108`, `sessionViewReconciler.ts:90` |
| `blind` | the first load fails and so does the page asked for in its place: the window is idle, joined and shows a warning instead of the rows | `messageWindowStoreAsync.ts:153`, `messageWindowPageReducers.ts:76` |
| `wide` | more than a page was missed (or a newer view is applied first): the newest page leaves a hole no later request asks for; `catchupMessagesAfter` has no caller. Or older history was asked for below a row that was cancelled before it came | `messageWindowStoreAsync.ts:180` |
| `stale` | a missed consume or cancel, or an answer slower than the event that superseded it | `messages.ts:66` |
| `doubled` | a page of older history holds the stored row of a bubble marked failed | `messageWindowPageReducers.ts:117` |

Bounds: one message, two rows, pages of one row, two events (1,681,272 states);
an event is a broken socket, a rejected send, a refresh, a failed load or a failed
recovery. The failure of the page is free of charge once its load has failed. A
page of one row makes "more than a page was missed" happen with two rows.
Also checked for safety: three rows with pages of one (1,473,564 states) and of
two (937,520), one event; one message, two rows, three events (6,334,154); two
messages, two rows, one event (1,722,680).

Left out: the stream and the pending reply, the warm snapshot, the trimming at
400 shown and 200 pending rows; refreshes that read the view outside a recovery;
and the second try of a failed load, which reads what the page in its place
reads.

## 8. Where the code and what is said of it disagree

1. **`hub_close`** — close and archive commit the lifecycle and then ask
   `session.active` of the object that the transition has just marked inactive in
   place, so the runtime is never told to stop; when it stops for idleness its
   session-end commits `open` over `closed` or `archived`.
   `docs/architecture/pairing-broker.md` says the commit is final.
2. **`hub_split`** — a failed resume puts back the lifecycle of before the spawn
   although a runtime spoke meanwhile: active and closed, the split state
   `docs/development/hub-owners.md` forbids. The runtime is an older one: a first
   resume of a closed session started it, the session did not come up in time,
   the kill of the clean-up failed (it goes on whatever the kill answers) and
   closed was put back. A second resume marks the session running, which lets the
   old runtime's next keepalive through; then its own spawn fails.
3. **`hub_boot`** — a booting child's metadata write ignores the metadata it is
   retried on and puts back the handles it first read. A resume takes the token
   out of the store; the child of a concurrent start reads the session; the
   resume's spawn fails and writes the token back; the child's write deletes it.
   `sessionFactory.test.ts` says unrelated handles survive. (A child with a
   handoff writes nothing and does no such harm.)
4. **`presence_crash`** — the sweep's compare-and-set uses the `activeAt` in
   memory, which is newer than the stored one whenever the last keepalive was
   throttled. It then never matches again, and a runtime that died without a
   session-end stays active until something writes the session. It needs a crash
   between two persisted keepalives, which is most of a busy turn (keepalives
   every 2 s, persisted every 10 s). `sessionPresenceSweep.test.ts` covers the
   case where the last keepalive was persisted, which `PersistedSessionExpires`
   shows to work.
5. **`delivery_gate`** — the Hub forgets that a runtime is stopping at the next
   `session-updated` event that carries `active`, which the broadcast of a
   keepalive and the refresh after an append both do. A send then goes into the
   pipe of a process that announced its end; that message is lost with it.
   `hub-owners.md` says the gate must wait until the runtime has ended or
   recovered.

## 9. Proofs

TLC checks instances; TLAPS proves the following for every value of the
constants that satisfies the named assumptions of the modules.

**`HubSession_proofs`** — from `DriversAssumption`, `TokensAssumption`,
`RuntimesAssumption`, `CommandsAssumption`, `FallbackAssumption`,
`BoundsAssumption`:

* `HubTypeCorrect`: `Spec => []TypeOK`.
* `MemoryFollowsStore`: `Spec => []CacheIsCoherent`.
* `HistoryStaysDetached`: `Spec => PresenceNeverRevivesHistory`.
* `RestartSettles`: `Spec => BootSettlesDrift`.

The inductive invariant is `Inv`: the session is `Sound` (typed and coherent) and
the rest of the state is typed. `CacheIsCoherent` alone is not inductive, since
the handlers read one copy and write the other; and stating the types of the
session together with its coherence lets the argument go handler by handler
instead of action by action: for each operator a lemma says that it keeps a
sound session sound and, where it matters, keeps an inactive session inactive or
leaves the lifecycle of an activating keepalive outside the history. Each action
is a composition of those operators, so its case cites two or three lemmas.

**`HubCommands_proofs`** — from the same assumptions, on top of `Inv`:

* `TokensComeBack`: `Spec => TokenComesBack`.
* `DetachedSessionsSettle`: `"switch" \notin Commands` implies
  `Spec => []IdleSessionIsNeverRunning`.
* `TokensAreHeld`: `"switch" \notin Commands` implies `Spec => TokenIsHeld`.

`TokenComesBack` needs `Orderly`: a command that holds a token is bringing the
session up and is no driver switch, so that the step that ends it either saw
that token in the store (the resume contract) or writes it back. The other two
need `Calm`: no command is a switch, a command that brings the session up knows
a lifecycle other than running to go back to, and a detached running session has
such a command. The driver switch is excluded because both are false of it: it
moves the session to a driver that may hold no token, and when it finds no
machine after stopping the source it leaves the session detached and running.

**`SessionPresence_proofs`** — from `NumbersAssumption` and `TimingAssumption`
(the delay is shorter than a keepalive period; a period, the delay and the
throttle fit the timeout):

* `PresenceTypeCorrect`, `StoreFollows`, `LiveSessionStaysFresh`.

The inductive invariant `IInv` adds to the two safety properties that the store
is active only if the memory is and the lag stays under the throttle
(`Coherent`), that nothing is in the pipe for longer than the delay
(`PipeOnTime`), and that what the Hub heard last is no older than the last
keepalive sent, or the one before it while that one is in the pipe
(`HeardOnTime`). `LiveSessionIsFresh` follows by adding the three: a refresh puts
`activeAt` back by less than a throttle interval, the pipe holds back less than a
period plus the delay.

**`MessageDelivery_proofs`** — from `BoundsAssumption`; for any messages, modes
and number of runtimes:

* `TypeCorrect`, `RunsInOrder` (`RunsFollowTheLog`), `LoopWakes`
  (`NothingSleeps`), `IdleRuntimesStop` (`IdleIsTimed`: timed, or stopping).

The invariant has a part for the whole state, `Typed` (types, and every row that
exists has a number), and a part for each process, `Local(p)`: `Wakes` (a
sleeping loop has its waiter set or an abort under way), `Timed` (what the idle
controller knows) and `Ordered` (what was taken lies below what is queued, which
lies below what was seen last). The split pays: a step of one process or of the
Hub leaves `Local` of the others alone, which one lemma says once.

* `QueueIsLogged` (`QueueFollowsLog`) and `WaitingIsKept` (`WaitingIsHeld`).

These relate the log to several pipes at once, and rest on three more parts.
`Succession`: a resume spawns a runtime only when the supervisor knows all that
live, so a process announced later never takes the place of the one messages are
sent to, and only that one (`Target`) has anything in its pipe or queue. Without
it a cancellation could go to one process and the message to another.
`Dated`: no number a process has seen or will read is above the log's last.
`Follows(p)`: an item, queued or on its way, is in the log *exactly if* no
cancellation of it comes later on the same pipe; the reverse direction is what
makes a later cancellation harmless to a message that was posted again. `Held`
says where a waiting message is: queued, on its way with a newer number than all
that is read before it (else the process would take it for a repetition), or in a
report on stdout. Every step is first put into one of nine kinds (`Kinds`), by
what it does to the messages, and each part is proved over those.

**`PermissionRequests_proofs`** — from `BoundsAssumption`:

* `TypeCorrect`; `CopiesVersioned` (`CopiesAreVersioned`);
  `WaitingCanBeAnswered` (`WaitingIsPending`);
* `ToldAtMostOnce` (`ToldOnce`): who waits in a backend has been told nothing
  (`HandlerTold`); an update that will call a request answered, on a lock, in a
  pipe or behind an await, follows what told the backend (`UpdatesTold`); and so
  does what the stored document calls answered (`AnsweredTold`).
* `ShownCanBeAnswered` (`ShownIsPending`): the invariant is about the document as
  it *will* be once a runtime has sent what it queued (`Shown`), which is a fold
  over the queue on its lock. That fold is a recursive function; what it does
  with the first update, with the last and with one that changes nothing is
  proved with `SetInduction`. When the first update leaves the queue it must be
  in effect already (`Effective`), which holds since its success was sent after
  the write and other runtimes' updates name other requests (`Owned`), a
  cancellation of theirs aside (`wiped`). `InOrder` numbers the lines so that a
  late ack is not taken for the one awaited.
* `Refinement`: `Spec => OneBook`. Every step of the system is a step of
  `RequestBook` or leaves it alone. The one step that writes the store is
  `Handle`, and it writes what the *sender* computed on its copy; that this is
  the handler's operation on the *stored* document is what `CopiesAreVersioned`
  gives, which therefore is the heart of the proof: every line on its way
  carries a base that is the stored document if its version is the stored one.

**`PairingSignaling_proofs`** — from `BoundsAssumption`, for any number of
restarts, broken sockets and lost signals:

* `TypeCorrect`; `HostKeepsItsOffer` (`HostOfferStands`).

An operation that is queued runs later, in a signaling state nobody knows yet,
so `HostOfferStands` is not inductive: what must be excluded is a remote offer
that was let in and *then* finds an own offer set. `HostChain` says why there is
none: at most one own offer is in the making and `makingOffer` is on while it
is, with no remote offer in the chain; and while an own offer is out, a remote
offer in the chain waits behind the answer that completes it, which is what
`isSettingRemoteAnswerPending` stands for. The lemmas on chains say that taking
the first operation off and putting others at the end keep each part.

* `PeersRestInAgreement` (`RestInAgreement`).

A signal travels from the chain of one peer to the chain of the other over the
transport's queue, the socket, the broker's buffer and the other socket; these
five `Stages` make up the one way of what `p` has said and its peer has not yet
taken (`Places`, `Before`), read in order as long as nothing overtakes.
`Exchange` says, for each stage of an exchange, where the two halves must be: an
offer of the host that is out was answered, is on the way, or waits at the guest
(`HostOffers`, `GuestAnswers`); an offer of the guest that is out was answered,
will be ignored because an offer of the host that stands comes towards it, or is
still on the way (`GuestOffers`, `HostAnswers`); who is answering answers what
it was told last (`GuestAnswering`, `HostAnswering`); and when neither is the
case the halves agree (`Agreed`). Every step leaves the descriptions under way
in their order, some perhaps lost (`Thins`), takes the first of them (`Yields`)
or puts one behind all others (`Gains`); three groups of lemmas say what that
does to `Exchange`, and each action is one of the three.

* `EarlyCandidatesArrive` (`CandidatesArrive`), on top of `Exchange`.

Here no signal may be lost unnoticed, so a step has to say more: all that is
under way is still there, in its order, except the one that is handled
(`Flows`). `Courses` puts every step into one of six kinds by what it does to
the two ways and to the descriptions. The claim has two cases, and they need
different invariants.

While the order of signals is kept, `Behind`: the candidate of the description in
force comes behind that description wherever it is, and once the other peer has
set the description the candidate was added or is still to come. This holds
only because a description is never sent twice (`Fresh`: offers are numbered as
they are made, an offer is answered once): a second copy of a description with
no candidate behind it would be a counterexample. And a candidate that is added
is one of the remote description, since an offer whose candidates would be
refused (`ignoreOffer`) was refused itself.

When the broker let signals overtake its buffer, a candidate may come before its
description, and only the first exchange promises anything. `FirstExchange`
carries that: the guest makes no offer before it took the host's
(`BeforeTheOffer`), the two descriptions of that exchange are all there are
(`OnlyThese`), nothing is ignored, and a candidate that was gathered is added,
under way, or in `pendingCandidates` *with a flush to come* (`AllKept`): the
remote description is still missing, or its flush waits in the chain.

**`MessageWindow_proofs`** — from `SizesAssumption`; every invariant of the run:

* `TypeCorrect` (`TypeOK`), `BannerIsTrue` (`BannerFollowsSocket`),
  `SendsAreOver` (`SendsEnd`), `QueueIsShown` (`QueueIsCurrent`),
  `ShownAtMostOnce` (`ShownOnce`), `WindowCatchesUp` (`CaughtUp`).

For the banner the invariant `Banner` adds what a view request can look like, so
that an answer that loses its freshness stays an answer. For the sends,
`Sending` adds that an answered POST names a row of the log that its message
wrote: only then does the accepted row take the place of the right bubble.

The other three say of every row what is on its way to the window, and in which
order. For `QueueIsCurrent`, `Told`: the Hub keeps one row of a message; events
are under way only to a socket that is in the room; a row told as waiting that
no longer does is told of again *behind* that, and a row shown as waiting that no
longer does has the news on their way. For `ShownOnce`, `NoTwin` on top of it: no
row is shown beside its bubble. For `CaughtUp`, `Caught`: a message cancelled and
stored anew is told of anew *behind* the cancellation (`CancelFollowed`); a view
has no holes (`Shapes`); one read since the socket is in the room, together with
the window and the wire, has every row (`Fresh`); history being read is gapless
below the row it began at (`OlderShaped`); and whenever the window cannot know
better (`Excused`: the connection is down, a recovery failed, or a page is still
to be read or to be asked for again), or a view with all it lacks waits to be applied, or it has the rows
itself (`Covered`). `Covered` is the inductive form of what a settled window is
promised: it names who, in each state of a recovery, will bring a missing row. A
page that cannot be read brings none: `PageFails` leaves `Covered` true because
it sets `blind` whenever a row the Hub keeps is not accounted for, or another
answer on its way is older than the subscription (`Uncovered`).

Only model-checked: liveness (`CommandsEnd`, `PersistedSessionExpires`,
`WaitingSettles`, `UpdatesLand`, `NegotiationEnds`, `RowsArrive`), which needs
fairness and ENABLED, out of the prover's reach. Every invariant and every action
property of a passing run is proved, the two commands properties named above for
sessions without driver switch.

## 10. Not modelled

The driver switch together with turns (a composition of `HubSession` and
`MessageDelivery` is beyond TLC at bounds where it would say anything); the
pairing records and their expiry; the tunnel route over the opened channels; the
capability cache; terminals; streams and replies. Presentation, build scripts,
platform glue, provider protocol translation and migrations are pure input and
output or run once; their place in the models is a free choice of inputs.

What would come next: `TunnelRoute` (generations of probes against
renegotiation), `PairingBroker` (approval against expiry, in memory and Redis),
`CapabilityCache` (joined and forced probes), and `SessionContract`, the
lifecycle a user sees as an abstract specification of `HubSession`, with the
findings as the steps that fall outside it.
