------------------------- MODULE PermissionRequests -------------------------
(***************************************************************************)
(* Permission requests of an agent, and the versioned document they are    *)
(* kept in.  A runtime's permission handler holds the requests its backend *)
(* waits on; every change it makes to agentState is an update queued on    *)
(* the runtime's agentStateLock, computed on the runtime's own copy of the *)
(* document, sent with the version it expects and retried until the Hub's  *)
(* compare-and-set takes it.  The user answers what the Hub's document     *)
(* shows; the answer is an RPC to the runtime that registered last.        *)
(*                                                                         *)
(* A runtime that closes tells the Hub so before it flushes its updates:   *)
(* its successor may start while they are still under way.                 *)
(***************************************************************************)
EXTENDS Naturals, Sequences, FiniteSets

CONSTANTS
    Requests,   \* the permission requests, by their id
    Runtimes,   \* how many runtime processes are ever spawned
    MaxClicks,  \* how many answers the user posts
    MaxEvents   \* how many cancels, ack timeouts and crashes in all

ASSUME BoundsAssumption ==
    /\ IsFiniteSet(Requests)
    /\ {Runtimes, MaxClicks, MaxEvents} \subseteq Nat

VARIABLES
    store,      \* the agent_state column: [doc, version]
    life,       \* of each runtime: "unborn", "up", "closing", "gone"
    local,      \* its recoveryState: the document and version it last saw
    lockq,      \* the updates queued on its agentStateLock, the holder first
    attempt,    \* the holder: "ready" to send, or "sent" and awaiting the ack
    asked,      \* how many requests it wrote; the last is the pending ack
    outPipe,    \* its stdout, unread
    inPipe,     \* its stdin, unread
    backend,    \* pendingBackendRequests
    pending,    \* pendingRequests
    replies,    \* awaits of respondToPermission, with the update that follows
    cancels,    \* cancelAlls that await their respondToPermissions
    raisedBy,   \* the runtime whose agent raised each request, 0 for none
    clicks, budget,
    told,       \* history: how often the backend got an outcome of a request
    late,       \* history: requests raised while a cancelAll was awaiting
    wiped       \* history: requests another runtime's cancelAll completed

hubVars == <<store, wiped>>
updateVars == <<lockq, attempt, asked, local>>
handlerVars == <<backend, pending, replies, cancels, told, late, raisedBy>>
vars == <<hubVars, life, updateVars, outPipe, inPipe, handlerVars, clicks,
          budget>>

Procs == 1..Runtimes
Outcomes == {"no", "answered", "canceled"}
Docs == [requests : SUBSET Requests, completed : [Requests -> Outcomes]]
Copies == [doc : Docs, version : Nat]
Updates == [kind : {"add", "finish", "approve"}, r : Requests]
               \cup [kind : {"cancel"}]
OutLines == [n : Nat, u : Updates, expected : Nat, doc : Docs]
InLines == [type : {"answer"}, r : Requests]
               \cup [type : {"ack"}, n : Nat, success : BOOLEAN, copy : Copies]

Alive(c) == life[c] \in {"up", "closing"}

TypeOK ==
    /\ store \in Copies
    /\ life \in [Procs -> {"unborn", "up", "closing", "gone"}]
    /\ local \in [Procs -> Copies]
    /\ lockq \in [Procs -> Seq(Updates)]
    /\ attempt \in [Procs -> {"ready", "sent"}]
    /\ asked \in [Procs -> Nat]
    /\ outPipe \in [Procs -> Seq(OutLines)]
    /\ inPipe \in [Procs -> Seq(InLines)]
    /\ backend \in [Procs -> SUBSET Requests]
    /\ pending \in [Procs -> SUBSET Requests]
    /\ replies \in [Procs -> SUBSET Updates]
    /\ cancels \in [Procs -> Nat]
    /\ raisedBy \in [Requests -> {0} \cup Procs]
    /\ clicks \in 0..MaxClicks /\ budget \in 0..MaxEvents
    /\ told \in [Requests -> Nat]
    /\ late \subseteq Requests /\ wiped \subseteq Requests

NoDoc == [requests |-> {}, completed |-> [r \in Requests |-> "no"]]

Init ==
    /\ store = [doc |-> NoDoc, version |-> 1]
    /\ life = [c \in Procs |-> "unborn"]
    /\ local = [c \in Procs |-> store]
    /\ lockq = [c \in Procs |-> <<>>]
    /\ attempt = [c \in Procs |-> "ready"]
    /\ asked = [c \in Procs |-> 0]
    /\ outPipe = [c \in Procs |-> <<>>] /\ inPipe = outPipe
    /\ backend = [c \in Procs |-> {}] /\ pending = backend /\ replies = backend
    /\ cancels = [c \in Procs |-> 0]
    /\ raisedBy = [r \in Requests |-> 0] /\ told = raisedBy
    /\ clicks = MaxClicks /\ budget = MaxEvents
    /\ late = {} /\ wiped = {}

Spends == budget > 0 /\ budget' = budget - 1

-----------------------------------------------------------------------------
(* The document *)

Added(r, doc) == [doc EXCEPT !.requests = @ \cup {r}]

Finished(r, doc) ==
    IF r \in doc.requests
    THEN [requests |-> doc.requests \ {r},
          completed |-> [doc.completed EXCEPT ![r] = "answered"]]
    ELSE doc

Approved(r, doc) == [doc EXCEPT !.completed[r] = "answered"]

Canceled(doc) ==
    [requests |-> {},
     completed |-> [r \in Requests |-> IF r \in doc.requests THEN "canceled"
                                       ELSE doc.completed[r]]]

\* The handler an update passes to updateAgentState, applied to a document.
Apply(u, doc) ==
    CASE u.kind = "add" -> Added(u.r, doc)
      [] u.kind = "finish" -> Finished(u.r, doc)
      [] u.kind = "approve" -> Approved(u.r, doc)
      [] u.kind = "cancel" -> Canceled(doc)

Update(kind, r) == [kind |-> kind, r |-> r]
Cancellation == [kind |-> "cancel"]

\* updateAgentState: the update waits its turn for the lock.
Queue(c, u) == lockq' = [lockq EXCEPT ![c] = Append(@, u)]

-----------------------------------------------------------------------------
(* The permission handler of runtime c *)

\* The agent asks for a permission the mode does not grant by itself.
Raise(c, r) ==
    /\ Alive(c) /\ raisedBy[r] = 0
    /\ raisedBy' = [raisedBy EXCEPT ![r] = c]
    /\ backend' = [backend EXCEPT ![c] = @ \cup {r}]
    /\ pending' = [pending EXCEPT ![c] = @ \cup {r}]
    /\ late' = IF cancels[c] > 0 THEN late \cup {r} ELSE late
    /\ Queue(c, Update("add", r))
    /\ UNCHANGED <<hubVars, life, attempt, asked, local, outPipe, inPipe,
                   replies, cancels, told, clicks, budget>>

\* It asks for one the mode grants: the backend is told at once.
AutoApprove(c, r) ==
    /\ Alive(c) /\ raisedBy[r] = 0
    /\ raisedBy' = [raisedBy EXCEPT ![r] = c]
    /\ told' = [told EXCEPT ![r] = @ + 1]
    /\ replies' = [replies EXCEPT ![c] = @ \cup {Update("approve", r)}]
    /\ UNCHANGED <<hubVars, life, updateVars, outPipe, inPipe, backend, pending,
                   cancels, late, clicks, budget>>

\* Mutant: the backend request is not deleted before the await.
TakeAnswerKeeping(c, r) ==
    IF r \notin backend[c] THEN UNCHANGED <<lockq, handlerVars>>
    ELSE /\ pending' = [pending EXCEPT ![c] = @ \ {r}]
         /\ told' = [told EXCEPT ![r] = @ + 1]
         /\ replies' = [replies EXCEPT ![c] = @ \cup {Update("finish", r)}]
         /\ UNCHANGED <<lockq, backend, cancels, late, raisedBy>>

\* The permission RPC.  An answer to a request that is no longer pending is
\* dropped; one whose backend request a cancelAll has taken away completes the
\* request without telling the backend.
TakeAnswer(c, r) ==
    IF r \notin pending[c] THEN UNCHANGED <<lockq, handlerVars>>
    ELSE /\ pending' = [pending EXCEPT ![c] = @ \ {r}]
         /\ IF r \in backend[c]
            THEN /\ backend' = [backend EXCEPT ![c] = @ \ {r}]
                 /\ told' = [told EXCEPT ![r] = @ + 1]
                 /\ replies' = [replies EXCEPT ![c] = @ \cup {Update("finish", r)}]
                 /\ UNCHANGED lockq
            ELSE /\ Queue(c, Update("finish", r))
                 /\ UNCHANGED <<backend, told, replies>>
         /\ UNCHANGED <<cancels, late, raisedBy>>

\* respondToPermission returned: the request is completed in the document.
Replied(c, u) ==
    /\ Alive(c) /\ u \in replies[c]
    /\ replies' = [replies EXCEPT ![c] = @ \ {u}]
    /\ Queue(c, u)
    /\ UNCHANGED <<hubVars, life, attempt, asked, local, outPipe, inPipe,
                   backend, pending, cancels, told, late, raisedBy, clicks,
                   budget>>

\* Mutant: the pending half is cleared, the backend half is kept.
CancelAllPending(c) ==
    /\ Alive(c) /\ Spends
    /\ pending' = [pending EXCEPT ![c] = {}]
    /\ Queue(c, Cancellation)
    /\ UNCHANGED <<hubVars, life, attempt, asked, local, outPipe, inPipe,
                   backend, replies, cancels, told, late, raisedBy, clicks>>

\* cancelAll up to its first await.  With nothing to tell the backend it runs
\* through.
CancelAll(c) ==
    /\ Alive(c) /\ Spends
    /\ told' = [r \in Requests |-> told[r] + (IF r \in backend[c] THEN 1 ELSE 0)]
    /\ backend' = [backend EXCEPT ![c] = {}]
    /\ IF backend[c] = {}
       THEN /\ pending' = [pending EXCEPT ![c] = {}]
            /\ Queue(c, Cancellation)
            /\ UNCHANGED cancels
       ELSE /\ cancels' = [cancels EXCEPT ![c] = @ + 1]
            /\ UNCHANGED <<pending, lockq>>
    /\ UNCHANGED <<hubVars, life, attempt, asked, local, outPipe, inPipe,
                   replies, late, raisedBy, clicks>>

\* Mutant: nobody checks that the cancelAll is still to be finished.
FinishCancelAgain(c) ==
    /\ Alive(c)
    /\ cancels' = [cancels EXCEPT ![c] = @ - 1]
    /\ pending' = [pending EXCEPT ![c] = {}]
    /\ Queue(c, Cancellation)
    /\ UNCHANGED <<hubVars, life, attempt, asked, local, outPipe, inPipe,
                   backend, replies, told, late, raisedBy, clicks, budget>>

\* The rest of it: cancelPendingRequests.
FinishCancel(c) ==
    /\ Alive(c) /\ cancels[c] > 0
    /\ cancels' = [cancels EXCEPT ![c] = @ - 1]
    /\ pending' = [pending EXCEPT ![c] = {}]
    /\ Queue(c, Cancellation)
    /\ UNCHANGED <<hubVars, life, attempt, asked, local, outPipe, inPipe,
                   backend, replies, told, late, raisedBy, clicks, budget>>

-----------------------------------------------------------------------------
(* Updates on the wire *)

\* One attempt of the lock's holder: the handler runs on the local copy.
Send(c) ==
    /\ Alive(c) /\ lockq[c] # <<>> /\ attempt[c] = "ready"
    /\ attempt' = [attempt EXCEPT ![c] = "sent"]
    /\ asked' = [asked EXCEPT ![c] = @ + 1]
    /\ outPipe' = [outPipe EXCEPT ![c] =
           Append(@, [n |-> asked[c] + 1, u |-> Head(lockq[c]),
                      expected |-> local[c].version,
                      doc |-> Apply(Head(lockq[c]), local[c].doc)])]
    /\ UNCHANGED <<hubVars, life, lockq, local, inPipe, handlerVars, clicks,
                   budget>>

\* Mutant: an update without its WHERE version clause.
TakenAnyway(line) == line.expected <= store.version

\* updateVersionedField: UPDATE ... WHERE agent_state_version = expected.
Taken(line) == line.expected = store.version

Written(line) == [doc |-> line.doc, version |-> line.expected + 1]

\* The Hub reads a line, tries it, and answers with what the column holds.
Handle(c) ==
    /\ life[c] # "gone" /\ outPipe[c] # <<>>
    /\ LET line == Head(outPipe[c])
           now == IF Taken(line) THEN Written(line) ELSE store
       IN  /\ store' = now
           /\ inPipe' = [inPipe EXCEPT ![c] =
                  Append(@, [type |-> "ack", n |-> line.n,
                             success |-> Taken(line), copy |-> now])]
           /\ wiped' = IF Taken(line) /\ line.u.kind = "cancel"
                       THEN wiped \cup {r \in store.doc.requests : raisedBy[r] # c}
                       ELSE wiped
    /\ outPipe' = [outPipe EXCEPT ![c] = Tail(@)]
    /\ UNCHANGED <<life, updateVars, handlerVars, clicks, budget>>

\* Mutant: a mismatch brings the version, not the value it belongs to.
TakeAckVersion(c, line) ==
    IF attempt[c] = "ready" \/ line.n # asked[c] THEN UNCHANGED updateVars
    ELSE /\ local' = [local EXCEPT ![c] =
                IF line.success THEN line.copy
                ELSE [@ EXCEPT !.version = line.copy.version]]
         /\ attempt' = [attempt EXCEPT ![c] = "ready"]
         /\ lockq' = IF line.success THEN [lockq EXCEPT ![c] = Tail(@)] ELSE lockq
         /\ UNCHANGED asked

\* Mutant: a mismatch ends the update instead of retrying it.
TakeAckOnce(c, line) ==
    IF attempt[c] = "ready" \/ line.n # asked[c] THEN UNCHANGED updateVars
    ELSE /\ local' = [local EXCEPT ![c] = line.copy]
         /\ attempt' = [attempt EXCEPT ![c] = "ready"]
         /\ lockq' = [lockq EXCEPT ![c] = Tail(@)]
         /\ UNCHANGED asked

\* Mutant: a mismatch leaves the holder waiting.
TakeAckStuck(c, line) ==
    IF attempt[c] = "ready" \/ line.n # asked[c] THEN UNCHANGED updateVars
    ELSE /\ local' = [local EXCEPT ![c] = line.copy]
         /\ attempt' = IF line.success THEN [attempt EXCEPT ![c] = "ready"]
                       ELSE attempt
         /\ lockq' = IF line.success THEN [lockq EXCEPT ![c] = Tail(@)] ELSE lockq
         /\ UNCHANGED asked

\* resolveAck and applyVersionedAck: an ack nobody awaits is dropped, any other
\* brings the local copy up to date; after a mismatch the holder tries again.
TakeAck(c, line) ==
    IF attempt[c] = "ready" \/ line.n # asked[c] THEN UNCHANGED updateVars
    ELSE /\ local' = [local EXCEPT ![c] = line.copy]
         /\ attempt' = [attempt EXCEPT ![c] = "ready"]
         /\ lockq' = IF line.success THEN [lockq EXCEPT ![c] = Tail(@)] ELSE lockq
         /\ UNCHANGED asked

Read(c) ==
    /\ Alive(c) /\ inPipe[c] # <<>>
    /\ LET line == Head(inPipe[c])
       IN  \/ /\ line.type = "ack"
              /\ TakeAck(c, line)
              /\ UNCHANGED handlerVars
           \/ /\ line.type = "answer"
              /\ TakeAnswer(c, line.r)
              /\ UNCHANGED <<attempt, asked, local>>
    /\ inPipe' = [inPipe EXCEPT ![c] = Tail(@)]
    /\ UNCHANGED <<hubVars, life, outPipe, clicks, budget>>

\* The 15 s of a request pass: the pending ack is forgotten, the holder retries.
TimeOut(c) ==
    /\ Alive(c) /\ attempt[c] = "sent" /\ Spends
    /\ attempt' = [attempt EXCEPT ![c] = "ready"]
    /\ UNCHANGED <<hubVars, life, asked, local, lockq, outPipe, inPipe,
                   handlerVars, clicks>>

-----------------------------------------------------------------------------
(* The user, and the life of a runtime *)

\* The RPC goes to the runtime that registered the method last.
Registered(c) == Alive(c) /\ \A d \in Procs : d > c => life[d] = "unborn"

\* The routes approve and deny: only a request the Hub's document shows.
Answer(r) ==
    /\ clicks > 0 /\ clicks' = clicks - 1
    /\ r \in store.doc.requests
    /\ \E c \in Procs :
          /\ Registered(c)
          /\ inPipe' = [inPipe EXCEPT ![c] = Append(@, [type |-> "answer", r |-> r])]
    /\ UNCHANGED <<hubVars, life, updateVars, outPipe, handlerVars, budget>>

\* A runtime begins with the session's document as its copy, and only once its
\* predecessor has said that it ended, or is gone.
Start(c) ==
    /\ life[c] = "unborn"
    /\ \A d \in Procs : d < c => life[d] \in {"closing", "gone"}
    /\ life' = [life EXCEPT ![c] = "up"]
    /\ local' = [local EXCEPT ![c] = store]
    /\ UNCHANGED <<hubVars, lockq, attempt, asked, outPipe, inPipe, handlerVars,
                   clicks, budget>>

\* closeSession: the session-end goes out first, then the locks are drained.
Close(c) ==
    /\ life[c] = "up"
    /\ life' = [life EXCEPT ![c] = "closing"]
    /\ UNCHANGED <<hubVars, updateVars, outPipe, inPipe, handlerVars, clicks,
                   budget>>

\* A process that goes takes its pipes, its queue and its handler with it.
Gone(c) ==
    /\ life' = [life EXCEPT ![c] = "gone"]
    /\ outPipe' = [outPipe EXCEPT ![c] = <<>>]
    /\ inPipe' = [inPipe EXCEPT ![c] = <<>>]
    /\ lockq' = [lockq EXCEPT ![c] = <<>>]
    /\ backend' = [backend EXCEPT ![c] = {}]
    /\ pending' = [pending EXCEPT ![c] = {}]
    /\ replies' = [replies EXCEPT ![c] = {}]
    /\ cancels' = [cancels EXCEPT ![c] = 0]
    /\ attempt' = [attempt EXCEPT ![c] = "ready"]
    /\ UNCHANGED <<hubVars, asked, local, told, late, raisedBy, clicks>>

\* The locks are drained, or the five seconds they get have passed.
Exit(c) == life[c] = "closing" /\ Gone(c) /\ UNCHANGED budget

Crash(c) == life[c] = "up" /\ Spends /\ Gone(c)

Next ==
    \/ \E r \in Requests : Answer(r)
    \/ \E c \in Procs :
          \/ \E r \in Requests : Raise(c, r) \/ AutoApprove(c, r)
          \/ \E u \in replies[c] : Replied(c, u)
          \/ CancelAll(c) \/ FinishCancel(c)
          \/ Send(c) \/ Handle(c) \/ Read(c) \/ TimeOut(c)
          \/ Start(c) \/ Close(c) \/ Exit(c) \/ Crash(c)

Spec == Init /\ [][Next]_vars

\* The holder of the lock always sends, the Hub always reads a pipe, and so
\* does a runtime; whether the backend ever returns is not assumed.
FairSpec ==
    /\ Spec
    /\ \A c \in Procs : WF_vars(Send(c)) /\ WF_vars(Handle(c)) /\ WF_vars(Read(c))

-----------------------------------------------------------------------------
(* Properties *)

\* The versioned column loses no update and invents none (versionedUpdates.ts):
\* whatever races, repeats or arrives late, agentState only changes by one
\* whole handler operation on the document as it is.
Book == INSTANCE RequestBook WITH requests <- store.doc.requests,
                                  completed <- store.doc.completed
OneBook == Book!Spec

\* A copy with the store's version is the store's document, in a runtime
\* (recoveryState), in the acks on their way to it, and as the base of the
\* updates on their way to the Hub.  Without it the compare-and-set compares
\* versions of something else.
CopyIsStore(copy) ==
    /\ copy.version <= store.version
    /\ copy.version = store.version => copy.doc = store.doc

BaseIsStore(line) ==
    /\ line.expected <= store.version
    /\ line.expected = store.version => line.doc = Apply(line.u, store.doc)

CopiesAreVersioned ==
    \A c \in Procs :
        /\ CopyIsStore(local[c])
        /\ \A i \in DOMAIN inPipe[c] :
               inPipe[c][i].type = "ack" => CopyIsStore(inPipe[c][i].copy)
        /\ \A i \in DOMAIN outPipe[c] : BaseIsStore(outPipe[c][i])

\* The document after the updates runtime c has queued.
AfterUpdates(us, doc) ==
    LET after[i \in 0..Len(us)] ==
            IF i = 0 THEN doc ELSE Apply(us[i], after[i - 1])
    IN  after[Len(us)]

\* What the user is shown of a runtime's requests is what its handler can take
\* an answer to, as soon as its queue is empty (BasePermissionHandler.ts):
\* nothing shown is unknown to the handler, and nothing pending is hidden but
\* what another runtime's cancelAll completed.
ShownIsPending ==
    \A c \in Procs : Alive(c) =>
        LET shown == {r \in AfterUpdates(lockq[c], store.doc).requests :
                          raisedBy[r] = c}
            answered == {r \in Requests : Update("finish", r) \in replies[c]}
        IN  /\ shown \subseteq pending[c] \cup answered
            /\ pending[c] \ wiped \subseteq shown

\* A request the backend waits on can be answered: its handler never forgets
\* the pending half of it (permissionHandler.ts), but for a request raised
\* while a cancelAll was awaiting.
WaitingIsPending ==
    \A c \in Procs : backend[c] \ late \subseteq pending[c]

\* The backend is told of a request at most once, however the answer and the
\* cancelAlls overlap, and the document calls answered only what it was told.
ToldOnce ==
    \A r \in Requests :
        /\ told[r] <= 1
        /\ store.doc.completed[r] = "answered" => told[r] = 1

\* An update that waits for the lock is in the document some time, unless its
\* runtime goes first: retries and late acks neither block nor starve it
\* (runtimeSessionMutations.ts).
UpdatesLand ==
    \A c \in Procs : lockq[c] # <<>> ~> lockq[c] = <<>>
==============================================================================
