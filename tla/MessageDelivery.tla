--------------------------- MODULE MessageDelivery ---------------------------
(***************************************************************************)
(* How a user message gets from the Hub's log into a turn of the provider. *)
(* A send waits at the gate while the runtime is stopping, resumes the     *)
(* session when it has no runtime, and appends a row to the log; the row   *)
(* goes down the stdin pipe of the first runtime process tracked for the   *)
(* session; the process keeps it in a MessageQueue2 that the turn loop     *)
(* (runRuntimeTurnOwner) empties in batches.  What the runtime did comes   *)
(* back as lines on its stdout pipe.                                       *)
(*                                                                         *)
(* The session is one with history, outside the archive, on one machine.   *)
(* Pipes are FIFO; a process that goes away takes its pipes with it.       *)
(***************************************************************************)
EXTENDS Naturals, Sequences, FiniteSets

CONSTANTS
    Messages,       \* the messages, by the localId the client gave them
    Passive,        \* those the Hub itself sends (appendPassiveInternalUserMessage)
    Mode,           \* the mode hash of each message
    MaxRetries,     \* how often the client posts one message again
    Runtimes,       \* how many runtime processes are ever spawned
    MaxEvents       \* how many retries, aborts, kills, sweeps and crashes in all

ASSUME BoundsAssumption ==
    /\ IsFiniteSet(Messages) /\ Passive \subseteq Messages
    /\ DOMAIN Mode = Messages
    /\ {MaxRetries, Runtimes, MaxEvents} \subseteq Nat

VARIABLES
    active,     \* the Hub's presence of the session
    thinking,   \* what the last keepalive said
    stopping,   \* SessionRuntimeStateService has the session
    row,        \* "absent", "queued" (invoked_at IS NULL) or "invoked"
    rowSeq,     \* the seq of the row of each message
    lastSeq,    \* the last seq the session handed out
    op,         \* where each post of a message is
    asQueued,   \* the queuedForInvocation it carries
    tracked,    \* the processes the supervisor knows by this session
    inPipe,     \* stdin of each process, unread
    outPipe,    \* stdout of each process, unread
    pc,         \* the turn loop of each process
    queue,      \* its MessageQueue2
    waiter,     \* the queue has a waiter to wake
    lastSeen,   \* lastSeenMessageSeq, 0 for null
    aborted,    \* the signal the loop captured is aborted
    aborts,     \* aborts past their reset and not yet at their abort()
    shouldExit, \* the launcher was asked to stop
    stopInFlight, \* runtimeStopInFlight: the abort of that stop goes on
    busy,       \* AgentSessionBase.thinking
    armed,      \* IdleRuntimeStopController.armed
    timer,      \* its timer is set
    budget,     \* what is left of MaxEvents
    taken,      \* history: the seqs each process ran, in order
    lost        \* history: messages that went away with a process, or to none

hubVars == <<active, thinking, stopping>>
logVars == <<row, rowSeq, lastSeq>>
opVars == <<op, asQueued>>
loopVars == <<pc, queue, waiter, lastSeen, aborted, aborts, shouldExit,
              stopInFlight, busy, armed, timer, taken>>
vars == <<hubVars, logVars, opVars, tracked, inPipe, outPipe, loopVars, budget,
          lost>>

Procs == 1..Runtimes
Seqs == Nat \ {0}
Ops == Messages \X (0..MaxRetries)

Items == [m : Messages, seq : Seqs]
InLines ==
    [type : {"message"}, item : Items]
        \cup [type : {"cancel"}, ms : SUBSET Messages]
OutLines ==
    [type : {"started", "stopping", "end"}]
        \cup [type : {"alive"}, thinking : BOOLEAN]
        \cup [type : {"consumed", "canceled"}, ms : SUBSET Messages]

LoopStates == {"top", "waiting", "woken", "turn", "left", "ended"}
Live(p) == pc[p] \in LoopStates
Running(p) == pc[p] \in {"top", "waiting", "woken", "turn"}

TypeOK ==
    /\ {active, thinking, stopping} \subseteq BOOLEAN
    /\ row \in [Messages -> {"absent", "queued", "invoked"}]
    /\ rowSeq \in [Messages -> Nat]
    /\ lastSeq \in Nat
    /\ op \in [Ops -> {"idle", "held", "resuming", "done"}]
    /\ asQueued \in [Ops -> BOOLEAN]
    /\ tracked \subseteq Procs
    /\ inPipe \in [Procs -> Seq(InLines)]
    /\ outPipe \in [Procs -> Seq(OutLines)]
    /\ pc \in [Procs -> {"unborn", "gone"} \cup LoopStates]
    /\ queue \in [Procs -> Seq(Items)]
    /\ lastSeen \in [Procs -> Nat]
    /\ aborts \in [Procs -> Nat]
    /\ {waiter, aborted, shouldExit, stopInFlight} \subseteq [Procs -> BOOLEAN]
    /\ {busy, armed, timer} \subseteq [Procs -> BOOLEAN]
    /\ budget \in 0..MaxEvents
    /\ taken \in [Procs -> Seq(Seqs)]
    /\ lost \subseteq Messages

Init ==
    /\ active = FALSE /\ thinking = FALSE /\ stopping = FALSE
    /\ row = [m \in Messages |-> "absent"]
    /\ rowSeq = [m \in Messages |-> 0]
    /\ lastSeq = 0
    /\ op = [o \in Ops |-> "idle"]
    /\ asQueued = [o \in Ops |-> FALSE]
    /\ tracked = {}
    /\ inPipe = [p \in Procs |-> <<>>]
    /\ outPipe = [p \in Procs |-> <<>>]
    /\ pc = [p \in Procs |-> "unborn"]
    /\ queue = [p \in Procs |-> <<>>]
    /\ lastSeen = [p \in Procs |-> 0]
    /\ aborts = [p \in Procs |-> 0]
    /\ waiter = [p \in Procs |-> FALSE] /\ aborted = waiter /\ shouldExit = waiter
    /\ stopInFlight = waiter /\ busy = waiter /\ armed = waiter /\ timer = waiter
    /\ budget = MaxEvents
    /\ taken = [p \in Procs |-> <<>>]
    /\ lost = {}

-----------------------------------------------------------------------------
(* Pipes *)

\* The supervisor gives every session event to the first process it tracks
\* for the session; processes are tracked in the order they were spawned.
Target == {p \in tracked : \A q \in tracked : p <= q}

\* pipes with `line` sent down to the target, if there is one.
Sent(pipes, line) ==
    [p \in Procs |-> IF p \in Target THEN Append(pipes[p], line) ELSE pipes[p]]

MessageLine(m, seq) == [type |-> "message", item |-> [m |-> m, seq |-> seq]]
CancelLine(ms) == [type |-> "cancel", ms |-> ms]
Line(type) == [type |-> type]
IdsLine(type, ms) == [type |-> type, ms |-> ms]
AliveLine(isThinking) == [type |-> "alive", thinking |-> isThinking]

Spends == budget > 0 /\ budget' = budget - 1

Says(p, lines) == outPipe' = [outPipe EXCEPT ![p] = @ \o lines]

-----------------------------------------------------------------------------
(* The Hub: sending *)

Answered(o) ==
    /\ op' = [op EXCEPT ![o] = "done"]
    /\ asQueued' = [asQueued EXCEPT ![o] = FALSE]

\* addMessage, appendMessage and the refresh after it: a localId the log has
\* keeps its row, and is delivered once more; the session-updated event of
\* the refresh carries active, and the Hub forgets that a runtime is stopping.
AppendMessage(o, queued) ==
    LET m == o[1]
        isNew == row[m] = "absent"
        seq == IF isNew THEN lastSeq + 1 ELSE rowSeq[m]
    IN /\ row' = [row EXCEPT ![m] = IF ~isNew THEN @
                                    ELSE IF queued THEN "queued" ELSE "invoked"]
       /\ rowSeq' = [rowSeq EXCEPT ![m] = seq]
       /\ lastSeq' = IF isNew THEN seq ELSE lastSeq
       /\ inPipe' = Sent(inPipe, MessageLine(m, seq))
       /\ lost' = IF Target = {} THEN lost \cup {m} ELSE lost
       /\ stopping' = FALSE
       /\ Answered(o)

Waits(o, where, queued) ==
    /\ op' = [op EXCEPT ![o] = where]
    /\ asQueued' = [asQueued EXCEPT ![o] = queued]
    /\ UNCHANGED <<stopping, logVars, inPipe, lost>>

\* sendMessage up to its first await, or appendPassiveInternalUserMessage: the
\* client posts the message, or posts it again because the answer to its last
\* post failed to come.
Send(o) ==
    /\ op[o] = "idle"
    /\ IF o[2] = 0 THEN UNCHANGED budget
       ELSE Spends /\ o[1] \notin Passive /\ op[<<o[1], o[2] - 1>>] # "idle"
    /\ LET passive == o[1] \in Passive
           queued == ~passive /\ active /\ thinking
       IN \/ active /\ (passive \/ ~stopping) /\ AppendMessage(o, queued)
          \/ active /\ ~passive /\ stopping /\ Waits(o, "held", queued)
          \/ ~active /\ Waits(o, "resuming", queued)
    /\ UNCHANGED <<active, thinking, tracked, outPipe, loopVars>>

\* waitUntilNotStopping resolves, and the send goes on with the session as it
\* is now.
Released(o) ==
    /\ op[o] = "held" /\ ~stopping
    /\ \/ active /\ AppendMessage(o, asQueued[o])
       \/ ~active /\ Waits(o, "resuming", asQueued[o])
    /\ UNCHANGED <<active, thinking, tracked, outPipe, loopVars, budget>>

\* It times out after DEFAULT_STOPPING_WAIT_TIMEOUT_MS, or the resume fails.
GivesUp(o) ==
    /\ \/ op[o] = "held" /\ stopping
       \/ op[o] = "resuming" /\ ~active
    /\ Answered(o)
    /\ UNCHANGED <<hubVars, logVars, tracked, inPipe, outPipe, loopVars, budget, lost>>

\* The resume succeeded: the session is active.
Resumed(o) ==
    /\ op[o] = "resuming" /\ active
    /\ AppendMessage(o, asQueued[o])
    /\ UNCHANGED <<active, thinking, tracked, outPipe, loopVars, budget>>

\* A resume spawns the runtime; resumes of one session share a spawn.
Spawn(p) ==
    /\ pc[p] = "unborn" /\ \A q \in Procs : q < p => pc[q] # "unborn"
    /\ ~active /\ \E o \in Ops : op[o] = "resuming"
    /\ \A q \in Procs : Live(q) => q \in tracked
    /\ pc' = [pc EXCEPT ![p] = "top"]
    /\ Says(p, <<Line("started"), AliveLine(FALSE)>>)
    /\ UNCHANGED <<hubVars, logVars, opVars, tracked, inPipe, queue, waiter, lastSeen,
                   aborted, aborts, shouldExit, stopInFlight, busy, armed, timer, taken,
                   budget, lost>>

\* Mutant: the runtime is not told.
CancelRowsOnly(ms, pipes) ==
    /\ row' = [m \in Messages |-> IF m \in ms /\ row[m] = "queued" THEN "absent" ELSE row[m]]
    /\ inPipe' = pipes

\* The rows of `ms` the user may still take back are deleted, and the runtime
\* is told.
CancelRows(ms, pipes) ==
    LET canceled == {m \in ms : row[m] = "queued"}
    IN /\ row' = [m \in Messages |-> IF m \in canceled THEN "absent" ELSE row[m]]
       /\ inPipe' = IF canceled = {} THEN pipes ELSE Sent(pipes, CancelLine(canceled))

\* cancelQueuedMessages, by the user.
Cancel(m) ==
    /\ row[m] = "queued"
    /\ CancelRows({m}, inPipe)
    /\ UNCHANGED <<hubVars, rowSeq, lastSeq, opVars, tracked, outPipe, loopVars, budget,
                   lost>>

\* expireInactive: no keepalive came for SESSION_INACTIVE_TIMEOUT_MS.
Sweep ==
    /\ active /\ Spends
    /\ active' = FALSE /\ thinking' = FALSE /\ stopping' = FALSE
    /\ UNCHANGED <<logVars, opVars, tracked, inPipe, outPipe, loopVars, lost>>

-----------------------------------------------------------------------------
(* The Hub: what the runtime says (RuntimeEventIngestor) *)

Invoke(ms) ==
    row' = [m \in Messages |-> IF m \in ms /\ row[m] = "queued" THEN "invoked" ELSE row[m]]

\* onVibySessionWebhook: the supervisor learns the session of the process.
Started(p) ==
    /\ tracked' = tracked \cup {p}
    /\ UNCHANGED <<hubVars, row, inPipe>>

\* handleSessionAlive: a broadcast carries active; it is throttled unless
\* presence changed.
Alive(isThinking) ==
    /\ active' = TRUE /\ thinking' = isThinking
    /\ stopping' \in IF active /\ thinking = isThinking THEN {stopping, FALSE} ELSE {FALSE}
    /\ UNCHANGED <<row, tracked, inPipe>>

\* markRuntimeStopping.
MarkStopping ==
    /\ stopping' = TRUE
    /\ UNCHANGED <<active, thinking, row, tracked, inPipe>>

\* markMessagesInvoked.
Consumed(ms) ==
    /\ Invoke(ms)
    /\ UNCHANGED <<hubVars, tracked, inPipe>>

\* cancelQueuedMessages, for a queue that was reset.
Canceled(ms) ==
    /\ CancelRows(ms, inPipe)
    /\ UNCHANGED <<hubVars, tracked>>

\* ingestSessionEnd: every row still waiting counts as invoked; nothing is
\* broadcast of a session that is inactive already.
SessionEnd ==
    /\ Invoke(Messages)
    /\ active' = FALSE /\ thinking' = FALSE
    /\ stopping' \in IF active \/ thinking THEN {FALSE} ELSE {stopping, FALSE}
    /\ UNCHANGED <<tracked, inPipe>>

\* ingest: one line of the runtime's stdout.
Ingest(p) ==
    /\ Live(p) /\ outPipe[p] # <<>>
    /\ outPipe' = [outPipe EXCEPT ![p] = Tail(@)]
    /\ LET line == Head(outPipe[p])
       IN \/ line.type = "started" /\ Started(p)
          \/ line.type = "alive" /\ Alive(line.thinking)
          \/ line.type = "stopping" /\ MarkStopping
          \/ line.type = "consumed" /\ Consumed(line.ms)
          \/ line.type = "canceled" /\ Canceled(line.ms)
          \/ line.type = "end" /\ SessionEnd
    /\ UNCHANGED <<rowSeq, lastSeq, opVars, loopVars, budget, lost>>

-----------------------------------------------------------------------------
(* The runtime: its queue *)

\* Mutant: what was seen before is queued again.
EnqueueAgain(p, item) ==
    /\ lastSeen' = [lastSeen EXCEPT ![p] = item.seq]
    /\ queue' = [queue EXCEPT ![p] = Append(@, item)]
    /\ timer' = [timer EXCEPT ![p] = FALSE]
    /\ waiter' = [waiter EXCEPT ![p] = FALSE]
    /\ pc' = [pc EXCEPT ![p] = IF waiter[p] THEN "woken" ELSE @]

\* Mutant: only the first message wakes the loop.
EnqueueQuietly(p, item) ==
    IF item.seq <= lastSeen[p]
    THEN UNCHANGED <<pc, queue, waiter, lastSeen, timer>>
    ELSE /\ lastSeen' = [lastSeen EXCEPT ![p] = item.seq]
         /\ queue' = [queue EXCEPT ![p] = Append(@, item)]
         /\ timer' = [timer EXCEPT ![p] = FALSE]
         /\ waiter' = [waiter EXCEPT ![p] = FALSE]
         /\ pc' = [pc EXCEPT ![p] = IF waiter[p] /\ lastSeen[p] = 0 THEN "woken" ELSE @]

\* handleIncomingSessionMessage and enqueue: a seq that is not newer than the
\* last one is a repetition; a new message stops the idle timer and wakes the
\* loop.
Enqueue(p, item) ==
    IF item.seq <= lastSeen[p]
    THEN UNCHANGED <<pc, queue, waiter, lastSeen, timer>>
    ELSE /\ lastSeen' = [lastSeen EXCEPT ![p] = item.seq]
         /\ queue' = [queue EXCEPT ![p] = Append(@, item)]
         /\ timer' = [timer EXCEPT ![p] = FALSE]
         /\ waiter' = [waiter EXCEPT ![p] = FALSE]
         /\ pc' = [pc EXCEPT ![p] = IF waiter[p] THEN "woken" ELSE @]

\* Mutant: a cancellation leaves the idle timer alone.
RemoveUntimed(p, ms) ==
    /\ queue' = [queue EXCEPT ![p] = SelectSeq(@, LAMBDA item : item.m \notin ms)]
    /\ UNCHANGED <<pc, waiter, lastSeen, timer>>

\* removeByLocalIds, then the idle timer, which is not set again while a stop
\* is in flight (IdleRuntimeStopController.schedule).
Remove(p, ms) ==
    /\ LET kept == {i \in DOMAIN queue[p] : queue[p][i].m \notin ms}
           size == Cardinality(kept)
       IN \E at \in [1..size -> kept] :
             /\ \A i, j \in 1..size : i < j => at[i] < at[j]
             /\ queue' = [queue EXCEPT ![p] = [i \in 1..size |-> queue[p][at[i]]]]
    /\ timer' = [timer EXCEPT ![p] = armed[p] /\ ~busy[p] /\ ~stopInFlight[p]
                                      /\ pc[p] # "ended"]
    /\ UNCHANGED <<pc, waiter, lastSeen>>

\* One line of the runtime's stdin.
Read(p) ==
    /\ Live(p) /\ inPipe[p] # <<>>
    /\ inPipe' = [inPipe EXCEPT ![p] = Tail(@)]
    /\ LET line == Head(inPipe[p])
       IN \/ line.type = "message" /\ Enqueue(p, line.item)
          \/ line.type = "cancel" /\ Remove(p, line.ms)
    /\ UNCHANGED <<hubVars, logVars, opVars, tracked, outPipe, aborted, aborts, shouldExit,
                   stopInFlight, busy, armed, taken, budget, lost>>

-----------------------------------------------------------------------------
(* The runtime: its turn loop *)

\* collectBatch takes the items of one mode from the head of the queue.
IsBatch(n, q) ==
    /\ n \in 1..Len(q)
    /\ \A i \in 1..n : Mode[q[i].m] = Mode[q[1].m]
    /\ n < Len(q) => Mode[q[n + 1].m] # Mode[q[1].m]

\* collectBatch, and the turn that begins with it.
StartTurn(p) ==
    \E n \in 1..Len(queue[p]) :
        LET q == queue[p]
            batch == SubSeq(q, 1, n)
        IN /\ IsBatch(n, q)
           /\ queue' = [queue EXCEPT ![p] = SubSeq(q, n + 1, Len(q))]
           /\ taken' = [taken EXCEPT ![p] = @ \o [i \in 1..n |-> q[i].seq]]
           /\ Says(p, <<IdsLine("consumed", {q[i].m : i \in 1..n}), AliveLine(TRUE)>>)
           /\ pc' = [pc EXCEPT ![p] = "turn"]
           /\ busy' = [busy EXCEPT ![p] = TRUE]
           /\ armed' = [armed EXCEPT ![p] = TRUE]
           /\ timer' = [timer EXCEPT ![p] = FALSE]

loopRest == <<hubVars, logVars, opVars, tracked, inPipe, lastSeen, aborts, shouldExit,
              stopInFlight, budget, lost>>

\* while (!shouldExit()): leave, take a batch, or wait for one on a signal
\* that is not aborted.
LoopTop(p) ==
    /\ pc[p] = "top"
    /\ IF ~shouldExit[p] /\ queue[p] # <<>>
       THEN StartTurn(p) /\ UNCHANGED waiter
       ELSE /\ pc' = [pc EXCEPT ![p] = IF shouldExit[p] THEN "left" ELSE "waiting"]
            /\ waiter' = [waiter EXCEPT ![p] = ~shouldExit[p]]
            /\ UNCHANGED <<queue, taken, outPipe, busy, armed, timer>>
    /\ aborted' = [aborted EXCEPT ![p] = FALSE]
    /\ UNCHANGED loopRest

\* The woken loop collects.  What woke it may be gone by now: then there is
\* no batch, and the loop goes on only if its signal was aborted meanwhile.
Collect(p) ==
    /\ pc[p] = "woken"
    /\ IF queue[p] # <<>>
       THEN StartTurn(p)
       ELSE /\ pc' = [pc EXCEPT ![p] =
                         IF aborted[p] /\ ~shouldExit[p] THEN "top" ELSE "left"]
            /\ UNCHANGED <<queue, taken, outPipe, busy, armed, timer>>
    /\ UNCHANGED <<waiter, aborted, loopRest>>

\* The turn ended, well or not (settleTerminalTurn).
EndTurn(p) ==
    /\ pc[p] = "turn"
    /\ pc' = [pc EXCEPT ![p] = "top"]
    /\ busy' = [busy EXCEPT ![p] = FALSE]
    /\ timer' = [timer EXCEPT ![p] = ~stopInFlight[p]]
    /\ Says(p, <<AliveLine(FALSE)>>)
    /\ UNCHANGED <<queue, waiter, aborted, armed, taken, loopRest>>

-----------------------------------------------------------------------------
(* The runtime: keepalives, aborting, stopping and going away *)

\* KeepAliveController; only a keepalive that tells the Hub something is a
\* step.
KeepAlive(p) ==
    /\ Running(p) /\ outPipe[p] = <<>>
    /\ ~active \/ stopping \/ thinking # busy[p]
    /\ Says(p, <<AliveLine(busy[p])>>)
    /\ UNCHANGED <<hubVars, logVars, opVars, tracked, inPipe, loopVars, budget, lost>>

\* Mutant: the items, not their ids.
QueuedItems(p) == {queue[p][i] : i \in DOMAIN queue[p]}

QueuedIds(p) == {queue[p][i].m : i \in DOMAIN queue[p]}

\* Mutant: nobody is told what the reset drops.
ResetQuietly(p, announced) ==
    /\ Says(p, announced \o <<AliveLine(FALSE)>>)
    /\ queue' = [queue EXCEPT ![p] = <<>>]
    /\ waiter' = [waiter EXCEPT ![p] = FALSE]
    /\ busy' = [busy EXCEPT ![p] = FALSE]
    /\ timer' = [timer EXCEPT ![p] = armed[p] /\ ~stopInFlight[p]]
    /\ aborts' = [aborts EXCEPT ![p] = @ + 1]
    /\ UNCHANGED <<hubVars, logVars, opVars, tracked, inPipe, pc, lastSeen, aborted, armed,
                   taken, lost>>

\* handleAbort up to its await: the queue is reset, which forgets its waiter
\* without waking it.
Reset(p, announced) ==
    /\ Says(p, announced
               \o (IF queue[p] = <<>> THEN <<>> ELSE <<IdsLine("canceled", QueuedIds(p))>>)
               \o <<AliveLine(FALSE)>>)
    /\ queue' = [queue EXCEPT ![p] = <<>>]
    /\ waiter' = [waiter EXCEPT ![p] = FALSE]
    /\ busy' = [busy EXCEPT ![p] = FALSE]
    /\ timer' = [timer EXCEPT ![p] = armed[p] /\ ~stopInFlight[p]]
    /\ aborts' = [aborts EXCEPT ![p] = @ + 1]
    /\ UNCHANGED <<hubVars, logVars, opVars, tracked, inPipe, pc, lastSeen, aborted, armed,
                   taken, lost>>

\* The user's abort.
Abort(p) ==
    /\ Running(p) /\ Spends
    /\ Reset(p, <<>>)
    /\ UNCHANGED <<shouldExit, stopInFlight>>

\* requestRuntimeStop: the stop is in flight once its handler has reset the
\* queue, until the handler's abort ends.
RequestStop(p, announced) ==
    /\ shouldExit' = [shouldExit EXCEPT ![p] = TRUE]
    /\ stopInFlight' = [stopInFlight EXCEPT ![p] = TRUE]
    /\ Reset(p, announced)

\* The idle timer fires: the Hub is told that the runtime is stopping.
IdleStop(p) ==
    /\ Running(p) /\ ~shouldExit[p]
    /\ timer[p] /\ ~busy[p] /\ queue[p] = <<>>
    /\ RequestStop(p, <<Line("stopping")>>)
    /\ UNCHANGED budget

\* killSession: a stop that nobody announces.
Kill(p) ==
    /\ Running(p) /\ ~shouldExit[p] /\ p \in tracked /\ Spends
    /\ RequestStop(p, <<>>)

\* The stop in flight is over with the last abort, or with one before it.
StopMayEnd(p) ==
    \E ends \in BOOLEAN :
        /\ aborts[p] = 1 => ends
        /\ stopInFlight' = [stopInFlight EXCEPT ![p] = @ /\ ~ends]

\* Mutant: the signal is renewed and not aborted.
AbortEndSilent(p) ==
    /\ Live(p) /\ aborts[p] > 0
    /\ aborts' = [aborts EXCEPT ![p] = @ - 1]
    /\ StopMayEnd(p)
    /\ UNCHANGED <<hubVars, logVars, opVars, tracked, inPipe, outPipe, pc, queue, waiter,
                   lastSeen, aborted, shouldExit, busy, armed, timer, taken, budget, lost>>

\* handleAbort after its await: abort() ends the wait of the loop.
AbortEnd(p) ==
    /\ Live(p) /\ aborts[p] > 0
    /\ aborts' = [aborts EXCEPT ![p] = @ - 1]
    /\ StopMayEnd(p)
    /\ aborted' = [aborted EXCEPT ![p] = @ \/ pc[p] \in {"woken", "turn"}]
    /\ waiter' = [waiter EXCEPT ![p] = FALSE]
    /\ pc' = [pc EXCEPT ![p] = IF @ # "waiting" THEN @
                               ELSE IF shouldExit[p] THEN "left" ELSE "top"]
    /\ UNCHANGED <<hubVars, logVars, opVars, tracked, inPipe, outPipe, queue, lastSeen,
                   shouldExit, busy, armed, timer, taken, budget, lost>>

\* cleanup and sendSessionDeath.
SendDeath(p) ==
    /\ pc[p] = "left"
    /\ pc' = [pc EXCEPT ![p] = "ended"]
    /\ timer' = [timer EXCEPT ![p] = FALSE]
    /\ Says(p, <<Line("end")>>)
    /\ UNCHANGED <<hubVars, logVars, opVars, tracked, inPipe, queue, waiter, lastSeen,
                   aborted, aborts, shouldExit, stopInFlight, busy, armed, taken, budget,
                   lost>>

HeldBy(p) ==
    QueuedIds(p)
        \cup {inPipe[p][i].item.m :
                 i \in {j \in DOMAIN inPipe[p] : inPipe[p][j].type = "message"}}
        \cup UNION {outPipe[p][i].ms :
                 i \in {j \in DOMAIN outPipe[p] :
                           outPipe[p][j].type \in {"consumed", "canceled"}}}

\* The process exits: its memory is gone, and what it said and nobody has
\* read is dropped.
Gone(p) ==
    /\ pc' = [pc EXCEPT ![p] = "gone"]
    /\ tracked' = tracked \ {p}
    /\ inPipe' = [inPipe EXCEPT ![p] = <<>>]
    /\ outPipe' = [outPipe EXCEPT ![p] = <<>>]
    /\ queue' = [queue EXCEPT ![p] = <<>>]
    /\ taken' = [taken EXCEPT ![p] = <<>>]
    /\ lastSeen' = [lastSeen EXCEPT ![p] = 0]
    /\ aborts' = [aborts EXCEPT ![p] = 0]
    /\ waiter' = [waiter EXCEPT ![p] = FALSE]
    /\ aborted' = [aborted EXCEPT ![p] = FALSE]
    /\ shouldExit' = [shouldExit EXCEPT ![p] = FALSE]
    /\ stopInFlight' = [stopInFlight EXCEPT ![p] = FALSE]
    /\ busy' = [busy EXCEPT ![p] = FALSE]
    /\ armed' = [armed EXCEPT ![p] = FALSE]
    /\ timer' = [timer EXCEPT ![p] = FALSE]
    /\ lost' = lost \cup HeldBy(p)
    /\ UNCHANGED <<hubVars, logVars, opVars>>

Exit(p) ==
    /\ pc[p] = "ended"
    /\ Gone(p)
    /\ UNCHANGED budget

Crash(p) ==
    /\ Running(p) /\ Spends
    /\ Gone(p)

-----------------------------------------------------------------------------
(* The system *)

Runtime(p) ==
    \/ Read(p)
    \/ LoopTop(p) \/ Collect(p) \/ EndTurn(p)
    \/ AbortEnd(p) \/ IdleStop(p)
    \/ SendDeath(p) \/ Exit(p)

Next ==
    \/ \E o \in Ops : Send(o) \/ Released(o) \/ GivesUp(o) \/ Resumed(o)
    \/ \E m \in Messages : Cancel(m)
    \/ Sweep
    \/ \E p \in Procs : \/ Spawn(p) \/ Runtime(p) \/ Ingest(p) \/ KeepAlive(p)
                        \/ Abort(p) \/ Kill(p) \/ Crash(p)

Spec == Init /\ [][Next]_vars

\* Every process gets on with what it has to do (a provider ends its turns,
\* a timer fires), and the Hub with what it was told.
Fairness == \A p \in Procs : WF_vars(Runtime(p)) /\ WF_vars(Ingest(p))

FairSpec == Spec /\ Fairness

-----------------------------------------------------------------------------
(* Properties *)

\* A runtime runs the messages in the order of the log, and none twice,
\* however often they are delivered.
RunsFollowTheLog ==
    \A p \in Procs : \A i, j \in DOMAIN taken[p] : i < j => taken[p][i] < taken[p][j]

\* What a runtime has in its queue is in the log, or its cancellation is on
\* its way to this runtime: a message the user took back before it was read
\* from the queue never runs.
QueueFollowsLog ==
    \A p \in Procs : \A i \in DOMAIN queue[p] :
        LET item == queue[p][i]
        IN \/ row[item.m] # "absent" /\ rowSeq[item.m] = item.seq
           \/ \E j \in DOMAIN inPipe[p] :
                 inPipe[p][j].type = "cancel" /\ item.m \in inPipe[p][j].ms

\* A message the log shows as waiting is with a runtime that will take it,
\* or say that it did or that it will not, unless it was lost with a process.
WaitingIsHeld ==
    \A m \in Messages : row[m] = "queued" =>
        m \in lost \/ \E p \in Procs : Live(p) /\ m \in HeldBy(p)

\* The loop does not sleep on a queue that has messages, unless an abort is
\* about to wake it.
NothingSleeps ==
    \A p \in Procs : pc[p] = "waiting" /\ queue[p] # <<>> => aborts[p] > 0

\* A runtime that has had a turn and is idle has its idle timer set, whatever
\* was queued, canceled and aborted since, unless it is stopping already.
IdleIsTimed ==
    \A p \in Procs :
        pc[p] = "waiting" /\ queue[p] = <<>> /\ armed[p] /\ ~busy[p] /\ ~stopInFlight[p]
            => timer[p]

\* A send that comes to the gate, or leaves it, goes to no runtime the Hub has
\* heard announce that it is stopping, as long as that runtime has not ended.
SendsWaitForTheRuntime ==
    [][\A o \in Ops, p \in Procs :
          /\ o[1] \notin Passive /\ op[o] \in {"idle", "held"} /\ op'[o] = "done"
          /\ shouldExit[p] /\ Running(p)
          /\ \A i \in DOMAIN outPipe[p] : outPipe[p][i].type # "stopping"
          => inPipe'[p] = inPipe[p]]_vars

\* A message that is waiting is settled in the end.
WaitingSettles ==
    \A m \in Messages : row[m] = "queued" ~> row[m] # "queued" \/ m \in lost
=============================================================================
