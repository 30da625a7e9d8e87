---------------------- MODULE PermissionRequests_proofs ----------------------
(***************************************************************************)
(* Proofs about PermissionRequests, for any requests, any number of        *)
(* runtimes and any bounds: its types, what holds of every copy of the     *)
(* versioned document, and with it that the document implements            *)
(* RequestBook; what holds between a handler and its backend, how often a  *)
(* backend is told; and that what is shown can be answered.                *)
(***************************************************************************)
EXTENDS PermissionRequests, SetInduction, TLAPS

\* The variables the handlers of a step leave alone, spelled out.
USE DEF hubVars, updateVars, handlerVars

-----------------------------------------------------------------------------
(* Types *)

\* Who awaits an ack holds the lock: its update is the first in the queue.
HolderQueued == \A c \in Procs : attempt[c] = "sent" => lockq[c] # <<>>

\* A handler makes a document of a document (BasePermissionHandler.ts).
LEMMA ApplyType ==
    ASSUME NEW u \in Updates, NEW doc \in Docs
    PROVE  Apply(u, doc) \in Docs
<1>1. CASE u.kind = "add"
  BY <1>1 DEF Apply, Added, Updates, Docs
<1>2. CASE u.kind = "finish"
  BY <1>2 DEF Apply, Finished, Updates, Docs, Outcomes
<1>3. CASE u.kind = "approve"
  BY <1>3 DEF Apply, Approved, Updates, Docs, Outcomes
<1>4. CASE u.kind = "cancel"
  BY <1>4 DEF Apply, Canceled, Updates, Docs, Outcomes
<1>5. u.kind \in {"add", "finish", "approve", "cancel"}
  BY DEF Updates
<1> QED  BY <1>1, <1>2, <1>3, <1>4, <1>5

\* An update joins the queue of its lock.
LEMMA QueueType ==
    ASSUME lockq \in [Procs -> Seq(Updates)], NEW c \in Procs,
           NEW u \in Updates, Queue(c, u)
    PROVE  lockq' \in [Procs -> Seq(Updates)]
BY DEF Queue

\* The head of a queue can be taken off.
LEMMA TailType ==
    ASSUME NEW S, NEW f \in [Procs -> Seq(S)], NEW c \in Procs, f[c] # <<>>
    PROVE  [f EXCEPT ![c] = Tail(@)] \in [Procs -> Seq(S)]
<1>1. Tail(f[c]) \in Seq(S)
  OBVIOUS
<1> QED  BY <1>1

\* The runtimes begin with empty queues and the session's first document.
LEMMA InitType == Init => TypeOK
<1> SUFFICES ASSUME Init PROVE TypeOK
  OBVIOUS
<1> USE DEF Init
<1>1. NoDoc \in Docs
  BY DEF NoDoc, Docs, Outcomes
<1>2. store \in Copies
  BY <1>1 DEF Copies
<1>3. local \in [Procs -> Copies]
  BY <1>2
<1>4. lockq \in [Procs -> Seq(Updates)] /\ outPipe \in [Procs -> Seq(OutLines)]
        /\ inPipe \in [Procs -> Seq(InLines)]
  OBVIOUS
<1>5. /\ backend \in [Procs -> SUBSET Requests]
      /\ pending \in [Procs -> SUBSET Requests]
      /\ replies \in [Procs -> SUBSET Updates]
  OBVIOUS
<1>6. clicks \in 0..MaxClicks /\ budget \in 0..MaxEvents
  BY BoundsAssumption
<1> QED  BY <1>2, <1>3, <1>4, <1>5, <1>6 DEF TypeOK

\* No step of a runtime, the user or the Hub leaves the types.
LEMMA RaiseType ==
    ASSUME TypeOK, NEW c \in Procs, NEW r \in Requests,
           Raise(c, r) \/ AutoApprove(c, r)
    PROVE  TypeOK'
<1> USE DEF TypeOK
<1>u. \A k \in {"add", "finish", "approve"} : Update(k, r) \in Updates
  BY DEF Update, Updates
<1>1. CASE Raise(c, r)
  <2>1. Update("add", r) \in Updates
    BY <1>u
  <2>2. lockq' \in [Procs -> Seq(Updates)]
    BY <1>1, <2>1, QueueType DEF Raise
  <2> QED  BY <1>1, <2>2 DEF Raise
<1>2. CASE AutoApprove(c, r)
  <2>1. Update("approve", r) \in Updates
    BY <1>u
  <2>2. replies' \in [Procs -> SUBSET Updates]
    BY <1>2, <2>1 DEF AutoApprove
  <2> QED  BY <1>2, <2>2 DEF AutoApprove
<1> QED  BY <1>1, <1>2

LEMMA ReplyType ==
    ASSUME TypeOK, NEW c \in Procs, NEW u \in replies[c], Replied(c, u)
    PROVE  TypeOK'
<1> USE DEF TypeOK
<1>1. u \in Updates
  OBVIOUS
<1>2. lockq' \in [Procs -> Seq(Updates)]
  BY <1>1, QueueType DEF Replied
<1> QED  BY <1>2 DEF Replied

LEMMA CancelType ==
    ASSUME TypeOK, NEW c \in Procs, CancelAll(c) \/ FinishCancel(c)
    PROVE  TypeOK'
<1>1. Cancellation \in Updates
  BY DEF Cancellation, Updates
<1>2. CASE CancelAll(c)
  <2>1. lockq' \in [Procs -> Seq(Updates)]
    <3>1. CASE backend[c] = {}
      <4>1. Queue(c, Cancellation)
        BY <1>2, <3>1 DEF CancelAll
      <4> QED  BY <4>1, <1>1, QueueType DEF TypeOK
    <3>2. CASE backend[c] # {}
      BY <1>2, <3>2 DEF CancelAll, TypeOK
    <3> QED  BY <3>1, <3>2
  <2>2. /\ pending' = pending \/ pending' = [pending EXCEPT ![c] = {}]
        /\ cancels' = cancels \/ cancels' = [cancels EXCEPT ![c] = @ + 1]
    <3>1. CASE backend[c] = {}
      BY <1>2, <3>1 DEF CancelAll
    <3>2. CASE backend[c] # {}
      BY <1>2, <3>2 DEF CancelAll
    <3> QED  BY <3>1, <3>2
  <2>3. pending' \in [Procs -> SUBSET Requests] /\ cancels' \in [Procs -> Nat]
    <3>1. pending \in [Procs -> SUBSET Requests] /\ cancels \in [Procs -> Nat]
      BY DEF TypeOK
    <3>2. [pending EXCEPT ![c] = {}] \in [Procs -> SUBSET Requests]
      BY <3>1
    <3>3. [cancels EXCEPT ![c] = @ + 1] \in [Procs -> Nat]
      BY <3>1
    <3> QED  BY <3>1, <3>2, <3>3, <2>2
  <2>4. told' = [r \in Requests |-> told[r] + (IF r \in backend[c] THEN 1 ELSE 0)]
    BY <1>2 DEF CancelAll
  <2>5. told' \in [Requests -> Nat]
    BY <2>4 DEF TypeOK
  <2>6. backend' = [backend EXCEPT ![c] = {}] /\ budget' \in 0..MaxEvents
    BY <1>2, BoundsAssumption DEF CancelAll, Spends, TypeOK
  <2>7. backend' \in [Procs -> SUBSET Requests]
    BY <2>6 DEF TypeOK
  <2>8. UNCHANGED <<hubVars, life, attempt, asked, local, outPipe, inPipe,
                    replies, late, raisedBy, clicks>>
    BY <1>2 DEF CancelAll
  <2> QED  BY <2>1, <2>3, <2>5, <2>6, <2>7, <2>8 DEF TypeOK
<1>3. CASE FinishCancel(c)
  <2>1. lockq' \in [Procs -> Seq(Updates)]
    BY <1>3, <1>1, QueueType DEF FinishCancel, TypeOK
  <2>2. cancels' \in [Procs -> Nat] /\ pending' \in [Procs -> SUBSET Requests]
    BY <1>3 DEF FinishCancel, TypeOK
  <2>3. UNCHANGED <<hubVars, life, attempt, asked, local, outPipe, inPipe,
                    backend, replies, told, late, raisedBy, clicks, budget>>
    BY <1>3 DEF FinishCancel
  <2> QED  BY <2>1, <2>2, <2>3 DEF TypeOK
<1> QED  BY <1>2, <1>3

LEMMA WireType ==
    ASSUME TypeOK, NEW c \in Procs, Send(c) \/ Handle(c) \/ TimeOut(c)
    PROVE  TypeOK'
<1> USE DEF TypeOK
<1>1. CASE Send(c)
  <2>1. Head(lockq[c]) \in Updates
    BY <1>1 DEF Send
  <2>2. local[c].version \in Nat /\ local[c].doc \in Docs
    BY DEF Copies
  <2>3. Apply(Head(lockq[c]), local[c].doc) \in Docs
    BY <2>1, <2>2, ApplyType
  <2> DEFINE line == [n |-> asked[c] + 1, u |-> Head(lockq[c]),
                      expected |-> local[c].version,
                      doc |-> Apply(Head(lockq[c]), local[c].doc)]
  <2>4. line \in OutLines
    BY <2>1, <2>2, <2>3 DEF OutLines
  <2>5. outPipe' = [outPipe EXCEPT ![c] = Append(@, line)]
    BY <1>1 DEF Send
  <2> HIDE DEF line
  <2>6. outPipe' \in [Procs -> Seq(OutLines)]
    BY <2>4, <2>5
  <2> QED  BY <1>1, <2>6 DEF Send
<1>2. CASE Handle(c)
  <2> DEFINE line == Head(outPipe[c])
             now == IF Taken(line) THEN Written(line) ELSE store
             ack == [type |-> "ack", n |-> line.n, success |-> Taken(line),
                     copy |-> now]
  <2>1. line \in OutLines
    BY <1>2 DEF Handle
  <2>2. now \in Copies
    BY <2>1 DEF Written, OutLines, Copies
  <2>3. ack \in InLines
    BY <2>1, <2>2 DEF InLines, OutLines, Taken
  <2>4. /\ store' = now /\ inPipe' = [inPipe EXCEPT ![c] = Append(@, ack)]
        /\ outPipe' = [outPipe EXCEPT ![c] = Tail(@)]
    BY <1>2 DEF Handle
  <2>5. wiped' \subseteq Requests
    BY <1>2, <2>2 DEF Handle, Copies, Docs
  <2> HIDE DEF line, now, ack
  <2>6. inPipe' \in [Procs -> Seq(InLines)]
    BY <2>3, <2>4
  <2>7. outPipe' \in [Procs -> Seq(OutLines)]
    BY <2>4, <1>2 DEF Handle
  <2> QED  BY <1>2, <2>2, <2>4, <2>5, <2>6, <2>7 DEF Handle
<1>3. CASE TimeOut(c)
  BY <1>3, BoundsAssumption DEF TimeOut, Spends
<1> QED  BY <1>1, <1>2, <1>3

LEMMA AckType ==
    ASSUME TypeOK, NEW c \in Procs, NEW line \in InLines, line.type = "ack",
           TakeAck(c, line), HolderQueued
    PROVE  /\ local' \in [Procs -> Copies] /\ attempt' \in [Procs -> {"ready", "sent"}]
           /\ lockq' \in [Procs -> Seq(Updates)] /\ asked' \in [Procs -> Nat]
<1>1. CASE attempt[c] = "ready" \/ line.n # asked[c]
  BY <1>1 DEF TakeAck, TypeOK
<1>2. CASE attempt[c] # "ready" /\ line.n = asked[c]
  <2>1. line.copy \in Copies
    BY DEF InLines
  <2>2. /\ local' = [local EXCEPT ![c] = line.copy]
        /\ attempt' = [attempt EXCEPT ![c] = "ready"]
        /\ lockq' = lockq \/ lockq' = [lockq EXCEPT ![c] = Tail(@)]
        /\ asked' = asked
    BY <1>2, Zenon DEF TakeAck
  <2>3. local' \in [Procs -> Copies] /\ attempt' \in [Procs -> {"ready", "sent"}]
    BY <2>1, <2>2 DEF TypeOK
  <2>4. lockq[c] # <<>>
    BY <1>2 DEF HolderQueued, TypeOK
  <2>5. lockq' \in [Procs -> Seq(Updates)]
    <3>1. lockq \in [Procs -> Seq(Updates)]
      BY DEF TypeOK
    <3>2. [lockq EXCEPT ![c] = Tail(@)] \in [Procs -> Seq(Updates)]
      BY <3>1, <2>4, TailType
    <3> QED  BY <3>1, <3>2, <2>2
  <2> QED  BY <2>2, <2>3, <2>5 DEF TypeOK
<1> QED  BY <1>1, <1>2

LEMMA AnswerType ==
    ASSUME TypeOK, NEW c \in Procs, NEW r \in Requests, TakeAnswer(c, r)
    PROVE  /\ lockq' \in [Procs -> Seq(Updates)]
           /\ backend' \in [Procs -> SUBSET Requests]
           /\ pending' \in [Procs -> SUBSET Requests]
           /\ replies' \in [Procs -> SUBSET Updates]
           /\ cancels' \in [Procs -> Nat] /\ told' \in [Requests -> Nat]
           /\ raisedBy' \in [Requests -> {0} \cup Procs] /\ late' \subseteq Requests
<1>1. Update("finish", r) \in Updates
  BY DEF Update, Updates
<1>2. CASE r \notin pending[c]
  BY <1>2 DEF TakeAnswer, TypeOK
<1>3. CASE r \in pending[c] /\ r \in backend[c]
  <2>1. /\ pending' = [pending EXCEPT ![c] = @ \ {r}]
        /\ backend' = [backend EXCEPT ![c] = @ \ {r}]
        /\ told' = [told EXCEPT ![r] = @ + 1]
        /\ replies' = [replies EXCEPT ![c] = @ \cup {Update("finish", r)}]
        /\ UNCHANGED <<lockq, cancels, late, raisedBy>>
    BY <1>3, Zenon DEF TakeAnswer
  <2>2. replies' \in [Procs -> SUBSET Updates]
    BY <2>1, <1>1 DEF TypeOK
  <2>3. /\ backend' \in [Procs -> SUBSET Requests]
        /\ pending' \in [Procs -> SUBSET Requests]
        /\ told' \in [Requests -> Nat]
    BY <2>1 DEF TypeOK
  <2> QED  BY <2>1, <2>2, <2>3 DEF TypeOK
<1>4. CASE r \in pending[c] /\ r \notin backend[c]
  <2>1. /\ pending' = [pending EXCEPT ![c] = @ \ {r}]
        /\ Queue(c, Update("finish", r))
        /\ UNCHANGED <<backend, told, replies, cancels, late, raisedBy>>
    BY <1>4, Zenon DEF TakeAnswer
  <2>2. lockq' \in [Procs -> Seq(Updates)]
    BY <2>1, <1>1, QueueType DEF TypeOK
  <2>3. pending' \in [Procs -> SUBSET Requests]
    BY <2>1 DEF TypeOK
  <2> QED  BY <2>1, <2>2, <2>3 DEF TypeOK
<1> QED  BY <1>2, <1>3, <1>4

LEMMA ReadType ==
    ASSUME TypeOK, HolderQueued, NEW c \in Procs, Read(c)
    PROVE  TypeOK'
<1> DEFINE line == Head(inPipe[c])
<1>1. line \in InLines /\ inPipe[c] # <<>>
  BY DEF Read, TypeOK
<1>2. inPipe' = [inPipe EXCEPT ![c] = Tail(@)]
  BY DEF Read
<1>3. inPipe' \in [Procs -> Seq(InLines)]
  <2>1. inPipe \in [Procs -> Seq(InLines)]
    BY DEF TypeOK
  <2> QED  BY <1>1, <1>2, <2>1, TailType
<1>4. UNCHANGED <<hubVars, life, outPipe, clicks, budget>>
  BY DEF Read
<1>5. \/ line.type = "ack" /\ TakeAck(c, line) /\ UNCHANGED handlerVars
      \/ /\ line.type = "answer" /\ TakeAnswer(c, line.r)
         /\ UNCHANGED <<attempt, asked, local>>
  BY DEF Read
<1> HIDE DEF line
<1>6. CASE line.type = "ack" /\ TakeAck(c, line) /\ UNCHANGED handlerVars
  <2>1. /\ local' \in [Procs -> Copies] /\ attempt' \in [Procs -> {"ready", "sent"}]
        /\ lockq' \in [Procs -> Seq(Updates)] /\ asked' \in [Procs -> Nat]
    BY <1>1, <1>6, AckType
  <2> QED  BY <1>3, <1>4, <1>6, <2>1 DEF TypeOK
<1>7. CASE /\ line.type = "answer" /\ TakeAnswer(c, line.r)
           /\ UNCHANGED <<attempt, asked, local>>
  <2>1. line.r \in Requests
    BY <1>1, <1>7 DEF InLines
  <2>2. /\ lockq' \in [Procs -> Seq(Updates)]
        /\ backend' \in [Procs -> SUBSET Requests]
        /\ pending' \in [Procs -> SUBSET Requests]
        /\ replies' \in [Procs -> SUBSET Updates]
        /\ cancels' \in [Procs -> Nat] /\ told' \in [Requests -> Nat]
        /\ raisedBy' \in [Requests -> {0} \cup Procs] /\ late' \subseteq Requests
    BY <1>7, <2>1, AnswerType
  <2> QED  BY <1>3, <1>4, <1>7, <2>2 DEF TypeOK
<1> QED  BY <1>5, <1>6, <1>7

LEMMA LifeType ==
    ASSUME TypeOK, NEW c \in Procs, Start(c) \/ Close(c) \/ Exit(c) \/ Crash(c)
    PROVE  TypeOK'
<1>1. CASE Start(c)
  BY <1>1 DEF Start, TypeOK
<1>2. CASE Close(c)
  BY <1>2 DEF Close, TypeOK
<1>3. CASE Exit(c) \/ Crash(c)
  <2>1. Gone(c) /\ budget' \in 0..MaxEvents
    BY <1>3, BoundsAssumption DEF Exit, Crash, Spends, TypeOK
  <2>2. /\ lockq' = [lockq EXCEPT ![c] = <<>>]
        /\ outPipe' = [outPipe EXCEPT ![c] = <<>>]
        /\ inPipe' = [inPipe EXCEPT ![c] = <<>>]
    BY <2>1 DEF Gone
  <2>3. /\ lockq' \in [Procs -> Seq(Updates)]
        /\ outPipe' \in [Procs -> Seq(OutLines)]
        /\ inPipe' \in [Procs -> Seq(InLines)]
    BY <2>2 DEF TypeOK
  <2>4. /\ backend' \in [Procs -> SUBSET Requests]
        /\ pending' \in [Procs -> SUBSET Requests]
        /\ replies' \in [Procs -> SUBSET Updates] /\ cancels' \in [Procs -> Nat]
    BY <2>1 DEF Gone, TypeOK
  <2>5. /\ life' \in [Procs -> {"unborn", "up", "closing", "gone"}]
        /\ attempt' \in [Procs -> {"ready", "sent"}]
        /\ UNCHANGED <<hubVars, asked, local, told, late, raisedBy, clicks>>
    BY <2>1 DEF Gone, TypeOK
  <2> QED  BY <2>1, <2>3, <2>4, <2>5 DEF TypeOK
<1> QED  BY <1>1, <1>2, <1>3

LEMMA ClickType ==
    ASSUME TypeOK, NEW r \in Requests, Answer(r)
    PROVE  TypeOK'
<1>1. [type |-> "answer", r |-> r] \in InLines
  BY DEF InLines
<1>2. PICK c \in Procs :
          inPipe' = [inPipe EXCEPT ![c] = Append(@, [type |-> "answer", r |-> r])]
  BY DEF Answer
<1>3. inPipe' \in [Procs -> Seq(InLines)]
  BY <1>1, <1>2 DEF TypeOK
<1>4. clicks' \in 0..MaxClicks
  BY BoundsAssumption DEF Answer, TypeOK
<1> QED  BY <1>3, <1>4 DEF Answer, TypeOK

\* Every step is one of these.
LEMMA Steps ==
    ASSUME [Next]_vars
    PROVE  \/ UNCHANGED vars
           \/ \E r \in Requests : Answer(r)
           \/ \E c \in Procs :
                 \/ \E r \in Requests : Raise(c, r) \/ AutoApprove(c, r)
                 \/ \E u \in replies[c] : Replied(c, u)
                 \/ CancelAll(c) \/ FinishCancel(c)
                 \/ Send(c) \/ Handle(c) \/ TimeOut(c)
                 \/ Read(c)
                 \/ Start(c) \/ Close(c) \/ Exit(c) \/ Crash(c)
BY DEF Next

\* The holder of a lock is not taken off its queue while its ack is awaited.
LEMMA HolderStep ==
    ASSUME TypeOK, HolderQueued, [Next]_vars
    PROVE  HolderQueued'
<1> SUFFICES ASSUME NEW d \in Procs, attempt'[d] = "sent"
             PROVE  lockq'[d] # <<>>
  BY DEF HolderQueued
<1>1. \A c \in Procs : \A u : Queue(c, u) =>
          lockq'[d] = lockq[d] \/ lockq'[d] = Append(lockq[d], u)
  BY DEF Queue, TypeOK
<1>2. attempt[d] = "sent" /\ (\/ lockq'[d] = lockq[d]
                              \/ \E u : lockq'[d] = Append(lockq[d], u))
          => lockq'[d] # <<>>
  <2>1. lockq[d] \in Seq(Updates)
    BY DEF TypeOK
  <2> QED  BY <2>1 DEF HolderQueued
<1>3. CASE UNCHANGED vars
  BY <1>2, <1>3 DEF vars
<1>4. ASSUME NEW r \in Requests, Answer(r) PROVE lockq'[d] # <<>>
  BY <1>2, <1>4 DEF Answer
<1>5. ASSUME NEW c \in Procs, NEW r \in Requests, Raise(c, r) \/ AutoApprove(c, r)
      PROVE lockq'[d] # <<>>
  BY <1>1, <1>2, <1>5 DEF Raise, AutoApprove
<1>6. ASSUME NEW c \in Procs, NEW u \in replies[c], Replied(c, u)
      PROVE lockq'[d] # <<>>
  BY <1>1, <1>2, <1>6 DEF Replied
<1>7. ASSUME NEW c \in Procs, CancelAll(c) \/ FinishCancel(c)
      PROVE lockq'[d] # <<>>
  BY <1>1, <1>2, <1>7 DEF CancelAll, FinishCancel
<1>8. ASSUME NEW c \in Procs, Send(c) PROVE lockq'[d] # <<>>
  BY <1>2, <1>8 DEF Send, TypeOK
<1>9. ASSUME NEW c \in Procs, Handle(c) \/ TimeOut(c) PROVE lockq'[d] # <<>>
  BY <1>2, <1>9 DEF Handle, TimeOut, TypeOK
<1>10. ASSUME NEW c \in Procs, Read(c) PROVE lockq'[d] # <<>>
  <2> DEFINE line == Head(inPipe[c])
  <2>1. CASE TakeAck(c, line)
    BY <1>2, <2>1 DEF TakeAck, TypeOK
  <2>2. CASE TakeAnswer(c, line.r) /\ attempt' = attempt
    BY <1>1, <1>2, <2>2 DEF TakeAnswer
  <2> QED  BY <1>10, <2>1, <2>2 DEF Read
<1>11. ASSUME NEW c \in Procs, Start(c) \/ Close(c) \/ Exit(c) \/ Crash(c)
       PROVE lockq'[d] # <<>>
  <2>1. CASE Start(c) \/ Close(c)
    BY <1>2, <2>1 DEF Start, Close
  <2>2. CASE Gone(c)
    BY <1>2, <2>2 DEF Gone, TypeOK
  <2> QED  BY <1>11, <2>1, <2>2 DEF Exit, Crash
<1> QED  BY Steps, <1>3, <1>4, <1>5, <1>6, <1>7, <1>8, <1>9, <1>10, <1>11

Typed == TypeOK /\ HolderQueued

LEMMA InitTyped == Init => Typed
BY InitType DEF Init, Typed, HolderQueued

LEMMA TypedStep == Typed /\ [Next]_vars => Typed'
<1> SUFFICES ASSUME TypeOK, HolderQueued, [Next]_vars PROVE TypeOK' /\ HolderQueued'
  BY DEF Typed
<1>1. CASE UNCHANGED vars
  BY <1>1 DEF vars, TypeOK, HolderQueued
<1>2. TypeOK'
  BY Steps, <1>1, ClickType, RaiseType, ReplyType, CancelType, WireType, ReadType,
     LifeType DEF Typed
<1> QED  BY <1>2, HolderStep

\* Every reachable state has the types the code gives its state.
THEOREM TypeCorrect == Spec => []TypeOK
<1>1. Spec => []Typed
  BY InitTyped, TypedStep, PTL DEF Spec
<1>2. Typed => TypeOK
  BY DEF Typed
<1> QED  BY <1>1, <1>2, PTL

-----------------------------------------------------------------------------
(* Copies of the document *)

\* What CopiesAreVersioned says of runtime c.
CopiesOf(c) ==
    /\ CopyIsStore(local[c])
    /\ \A i \in DOMAIN inPipe[c] :
           inPipe[c][i].type = "ack" => CopyIsStore(inPipe[c][i].copy)
    /\ \A i \in DOMAIN outPipe[c] : BaseIsStore(outPipe[c][i])

\* What leaves the store alone, and changes no copy of runtime c but to one of
\* the store's, keeps runtime c's copies.
LEMMA CopiesKept ==
    ASSUME TypeOK, NEW c \in Procs, CopiesOf(c), store' = store,
           CopyIsStore(local'[c]),
           \A i \in DOMAIN inPipe'[c] : inPipe'[c][i].type = "ack" =>
               CopyIsStore(inPipe'[c][i].copy),
           \A i \in DOMAIN outPipe'[c] : BaseIsStore(outPipe'[c][i])
    PROVE  CopiesOf(c)'
BY DEF CopiesOf, CopyIsStore, BaseIsStore

\* A queue that loses its head keeps what held of its elements.
LEMMA TailElements ==
    ASSUME NEW S, NEW s \in Seq(S), s # <<>>
    PROVE  \A i \in DOMAIN Tail(s) : \E j \in DOMAIN s : Tail(s)[i] = s[j]
<1> SUFFICES ASSUME NEW i \in DOMAIN Tail(s)
             PROVE  \E j \in DOMAIN s : Tail(s)[i] = s[j]
  OBVIOUS
<1>1. i + 1 \in DOMAIN s /\ Tail(s)[i] = s[i + 1]
  OBVIOUS
<1> QED  BY <1>1

\* And one that gets a new element has that and the old ones.
LEMMA AppendElements ==
    ASSUME NEW S, NEW s \in Seq(S), NEW e \in S
    PROVE  \A i \in DOMAIN Append(s, e) :
               Append(s, e)[i] = e \/ \E j \in DOMAIN s : Append(s, e)[i] = s[j]
OBVIOUS

\* A version that is taken is newer than every copy: all of them become old.
LEMMA TakenIsNewer ==
    ASSUME TypeOK, CopiesAreVersioned, NEW c \in Procs, Handle(c),
           Taken(Head(outPipe[c]))
    PROVE  CopiesAreVersioned'
<1> DEFINE line == Head(outPipe[c])
           ack == [type |-> "ack", n |-> line.n, success |-> TRUE, copy |-> store']
<1>1. line \in OutLines /\ outPipe[c] # <<>>
  BY DEF Handle, TypeOK
<1>2. store' = Written(line)
  BY DEF Handle
<1>3. store'.version = store.version + 1 /\ store.version \in Nat
  BY <1>1, <1>2 DEF Written, Taken, TypeOK, Copies
<1>4. inPipe' = [inPipe EXCEPT ![c] = Append(@, ack)]
  BY <1>2 DEF Handle
<1>5. outPipe' = [outPipe EXCEPT ![c] = Tail(@)] /\ local' = local
  BY DEF Handle
<1>6. ack \in InLines
  <2>1. store' \in Copies
    BY WireType DEF TypeOK
  <2> QED  BY <1>1, <2>1 DEF InLines, OutLines
<1>7. \A copy \in Copies : CopyIsStore(copy) => CopyIsStore(copy)'
  BY <1>3 DEF CopyIsStore, Copies
<1>8. \A l \in OutLines : BaseIsStore(l) => BaseIsStore(l)'
  BY <1>3 DEF BaseIsStore, OutLines
<1>9. CopyIsStore(store)'
  BY <1>3 DEF CopyIsStore
<1> HIDE DEF line, ack
<1> SUFFICES ASSUME NEW d \in Procs PROVE CopiesOf(d)'
  BY DEF CopiesAreVersioned, CopiesOf
<1>10. CopyIsStore(local[d])'
  BY <1>5, <1>7 DEF CopiesAreVersioned, TypeOK
<1>11. ASSUME NEW i \in DOMAIN inPipe'[d], inPipe'[d][i].type = "ack"
       PROVE  CopyIsStore(inPipe[d][i].copy)'
  <2>1. inPipe[d] \in Seq(InLines)
    BY DEF TypeOK
  <2>2. (inPipe'[d] = Append(inPipe[d], ack) /\ d = c) \/ inPipe'[d] = inPipe[d]
    BY <1>4 DEF TypeOK
  <2>3. (inPipe'[d][i] = ack) \/ \E j \in DOMAIN inPipe[d] : inPipe'[d][i] = inPipe[d][j]
    <3>1. CASE inPipe'[d] = inPipe[d]
      BY <3>1
    <3>2. CASE inPipe'[d] = Append(inPipe[d], ack)
      BY <3>2, <2>1, <1>6, AppendElements
    <3> QED  BY <3>1, <3>2, <2>2
  <2>4. CASE inPipe'[d][i] = ack
    <3>1. inPipe'[d][i].copy = store'
      BY <2>4 DEF ack
    <3> QED  BY <3>1, <1>9
  <2>5. CASE \E j \in DOMAIN inPipe[d] : inPipe'[d][i] = inPipe[d][j]
    <3>1. PICK j \in DOMAIN inPipe[d] : inPipe'[d][i] = inPipe[d][j]
      BY <2>5
    <3>2. inPipe[d][j] \in InLines
      BY <2>1
    <3>3. inPipe[d][j].copy \in Copies
      BY <3>1, <3>2, <1>11 DEF InLines
    <3>4. CopyIsStore(inPipe[d][j].copy)
      BY <3>1, <1>11 DEF CopiesAreVersioned
    <3>5. CopyIsStore(inPipe[d][j].copy) => inPipe[d][j].copy.version <= store'.version
                                            /\ inPipe[d][j].copy.version # store'.version
      BY <3>3, <1>3 DEF CopyIsStore, Copies
    <3> QED  BY <3>1, <3>4, <3>5 DEF CopyIsStore
  <2> QED  BY <2>3, <2>4, <2>5
<1>12. ASSUME NEW i \in DOMAIN outPipe'[d]
       PROVE  BaseIsStore(outPipe[d][i])'
  <2>1. outPipe[d] \in Seq(OutLines)
    BY DEF TypeOK
  <2>2. (outPipe'[d] = Tail(outPipe[d]) /\ d = c) \/ outPipe'[d] = outPipe[d]
    BY <1>5 DEF TypeOK
  <2>3. \E j \in DOMAIN outPipe[d] : outPipe'[d][i] = outPipe[d][j]
    <3>1. CASE outPipe'[d] = Tail(outPipe[d]) /\ d = c
      <4>1. outPipe[d] # <<>>
        BY <1>1, <3>1
      <4>2. \A k \in DOMAIN Tail(outPipe[d]) :
                \E j \in DOMAIN outPipe[d] : Tail(outPipe[d])[k] = outPipe[d][j]
        BY <2>1, <4>1, TailElements
      <4> QED  BY <3>1, <4>2, <1>12
    <3>2. CASE outPipe'[d] = outPipe[d]
      BY <3>2, <1>12
    <3> QED  BY <2>2, <3>1, <3>2
  <2>4. PICK j \in DOMAIN outPipe[d] : outPipe'[d][i] = outPipe[d][j]
    BY <2>3
  <2>5. outPipe[d][j] \in OutLines /\ BaseIsStore(outPipe[d][j])
    BY <2>1 DEF CopiesAreVersioned
  <2>6. outPipe[d][j].expected <= store'.version /\ outPipe[d][j].expected # store'.version
    BY <2>5, <1>3 DEF BaseIsStore, OutLines
  <2> QED  BY <2>4, <2>6 DEF BaseIsStore
<1> QED  BY <1>10, <1>11, <1>12 DEF CopiesOf

\* The acks on their way to a runtime, and the lines on their way to the Hub.
AcksOf(c) ==
    \A i \in DOMAIN inPipe[c] :
        inPipe[c][i].type = "ack" => CopyIsStore(inPipe[c][i].copy)

LinesOf(c) == \A i \in DOMAIN outPipe[c] : BaseIsStore(outPipe[c][i])

\* A line that is not an ack changes nothing about the acks; an ack of the
\* store's copy neither.
LEMMA AcksGrow ==
    ASSUME TypeOK, NEW d \in Procs, AcksOf(d), store' = store, NEW line \in InLines,
           inPipe'[d] = Append(inPipe[d], line),
           line.type = "ack" => line.copy = store
    PROVE  AcksOf(d)'
<1>1. inPipe[d] \in Seq(InLines)
  BY DEF TypeOK
<1>2. \A i \in DOMAIN inPipe'[d] :
          inPipe'[d][i] = line \/ \E j \in DOMAIN inPipe[d] : inPipe'[d][i] = inPipe[d][j]
  BY <1>1, AppendElements
<1>3. store.version \in Nat
  BY DEF TypeOK, Copies
<1> QED  BY <1>2, <1>3 DEF AcksOf, CopyIsStore

LEMMA AcksShrink ==
    ASSUME TypeOK, NEW d \in Procs, AcksOf(d), store' = store,
           inPipe[d] # <<>>, inPipe'[d] = Tail(inPipe[d])
    PROVE  AcksOf(d)'
<1>1. inPipe[d] \in Seq(InLines)
  BY DEF TypeOK
<1>2. \A i \in DOMAIN inPipe'[d] :
          \E j \in DOMAIN inPipe[d] : inPipe'[d][i] = inPipe[d][j]
  <2>1. \A i \in DOMAIN Tail(inPipe[d]) :
            \E j \in DOMAIN inPipe[d] : Tail(inPipe[d])[i] = inPipe[d][j]
    BY <1>1, TailElements
  <2> QED  BY <2>1
<1> QED  BY <1>2 DEF AcksOf, CopyIsStore

\* What leaves the store alone.
LEMMA CopiesStill ==
    ASSUME CopiesAreVersioned, store' = store, NEW d \in Procs,
           local'[d] = local[d] \/ local'[d] = store,
           inPipe'[d] = inPipe[d] \/ inPipe'[d] = <<>> \/ AcksOf(d)',
           outPipe'[d] = outPipe[d] \/ outPipe'[d] = <<>> \/ LinesOf(d)',
           store.version \in Nat
    PROVE  CopiesOf(d)'
<1>1. CopyIsStore(local[d])'
  BY DEF CopiesAreVersioned, CopyIsStore
<1>2. AcksOf(d)'
  <2>1. CASE inPipe'[d] = inPipe[d]
    BY <2>1 DEF CopiesAreVersioned, CopyIsStore, AcksOf
  <2>2. CASE inPipe'[d] = <<>>
    BY <2>2 DEF AcksOf
  <2> QED  BY <2>1, <2>2
<1>3. LinesOf(d)'
  <2>1. CASE outPipe'[d] = outPipe[d]
    BY <2>1 DEF CopiesAreVersioned, BaseIsStore, LinesOf
  <2>2. CASE outPipe'[d] = <<>>
    BY <2>2 DEF LinesOf
  <2> QED  BY <2>1, <2>2
<1> QED  BY <1>1, <1>2, <1>3 DEF CopiesOf, AcksOf, LinesOf

\* Every step keeps the copies versioned.
LEMMA CopiesStep ==
    ASSUME Typed, CopiesAreVersioned, [Next]_vars
    PROVE  CopiesAreVersioned'
<1> USE DEF Typed
<1>1. store.version \in Nat /\ store \in Copies
  BY DEF TypeOK, Copies
<1>2. CASE \E c \in Procs : Handle(c) /\ Taken(Head(outPipe[c]))
  BY <1>2, TakenIsNewer
<1> SUFFICES ASSUME ~\E c \in Procs : Handle(c) /\ Taken(Head(outPipe[c])),
                    NEW d \in Procs
             PROVE  CopiesOf(d)'
  BY <1>2 DEF CopiesAreVersioned, CopiesOf
<1>a. AcksOf(d) /\ LinesOf(d) /\ CopyIsStore(local[d])
  BY DEF CopiesAreVersioned, AcksOf, LinesOf
<1>3. CASE UNCHANGED vars
  BY <1>1, <1>3, CopiesStill DEF vars
<1>4. ASSUME NEW r \in Requests, Answer(r) PROVE CopiesOf(d)'
  <2>1. PICK c \in Procs :
            inPipe' = [inPipe EXCEPT ![c] = Append(@, [type |-> "answer", r |-> r])]
    BY <1>4 DEF Answer
  <2>2. [type |-> "answer", r |-> r] \in InLines
    BY DEF InLines
  <2>3. store' = store /\ local' = local /\ outPipe' = outPipe
    BY <1>4 DEF Answer
  <2>4. inPipe'[d] = inPipe[d] \/ inPipe'[d] = Append(inPipe[d], [type |-> "answer", r |-> r])
    BY <2>1 DEF TypeOK
  <2>5. inPipe'[d] = inPipe[d] \/ AcksOf(d)'
    BY <1>a, <2>2, <2>3, <2>4, AcksGrow
  <2> QED  BY <1>1, <2>3, <2>5, CopiesStill
<1>5. ASSUME NEW c \in Procs, NEW r \in Requests, Raise(c, r) \/ AutoApprove(c, r)
      PROVE CopiesOf(d)'
  <2>1. store' = store /\ local' = local /\ inPipe' = inPipe /\ outPipe' = outPipe
    BY <1>5 DEF Raise, AutoApprove
  <2> QED  BY <1>1, <2>1, CopiesStill
<1>6. ASSUME NEW c \in Procs, NEW u \in replies[c], Replied(c, u) PROVE CopiesOf(d)'
  <2>1. store' = store /\ local' = local /\ inPipe' = inPipe /\ outPipe' = outPipe
    BY <1>6 DEF Replied
  <2> QED  BY <1>1, <2>1, CopiesStill
<1>7. ASSUME NEW c \in Procs, CancelAll(c) \/ FinishCancel(c) \/ TimeOut(c) \/ Close(c)
      PROVE CopiesOf(d)'
  <2>1. store' = store /\ local' = local /\ inPipe' = inPipe /\ outPipe' = outPipe
    BY <1>7 DEF CancelAll, FinishCancel, TimeOut, Close
  <2> QED  BY <1>1, <2>1, CopiesStill
<1>8. ASSUME NEW c \in Procs, Send(c) PROVE CopiesOf(d)'
  <2> DEFINE line == [n |-> asked[c] + 1, u |-> Head(lockq[c]),
                      expected |-> local[c].version,
                      doc |-> Apply(Head(lockq[c]), local[c].doc)]
  <2>1. /\ store' = store /\ local' = local /\ inPipe' = inPipe
        /\ outPipe' = [outPipe EXCEPT ![c] = Append(@, line)]
    BY <1>8 DEF Send
  <2>2. outPipe[d] \in Seq(OutLines) /\ outPipe[c] \in Seq(OutLines)
    BY DEF TypeOK
  <2>3. line \in OutLines
    <3>1. Head(lockq[c]) \in Updates
      BY <1>8 DEF Send, TypeOK
    <3>2. local[c].version \in Nat /\ local[c].doc \in Docs /\ asked[c] + 1 \in Nat
      BY DEF TypeOK, Copies
    <3>3. Apply(Head(lockq[c]), local[c].doc) \in Docs
      BY <3>1, <3>2, ApplyType
    <3> QED  BY <3>1, <3>2, <3>3 DEF OutLines
  <2>4. BaseIsStore(line)
    BY DEF CopiesAreVersioned, CopyIsStore, BaseIsStore
  <2> HIDE DEF line
  <2>5. outPipe'[d] = outPipe[d] \/ LinesOf(d)'
    <3>1. CASE c # d
      BY <2>1, <3>1 DEF TypeOK
    <3>2. CASE c = d
      <4>1. outPipe'[d] = Append(outPipe[d], line)
        BY <2>1, <3>2 DEF TypeOK
      <4>2. \A i \in DOMAIN outPipe'[d] :
                outPipe'[d][i] = line
                    \/ \E j \in DOMAIN outPipe[d] : outPipe'[d][i] = outPipe[d][j]
        BY <2>2, <2>3, <4>1, AppendElements
      <4> QED  BY <4>2, <2>4, <2>1, <1>a DEF LinesOf, BaseIsStore
    <3> QED  BY <3>1, <3>2
  <2> QED  BY <1>1, <2>1, <2>5, CopiesStill
<1>9. ASSUME NEW c \in Procs, Handle(c) PROVE CopiesOf(d)'
  <2> DEFINE line == Head(outPipe[c])
             ack == [type |-> "ack", n |-> line.n, success |-> Taken(line),
                     copy |-> store]
  <2>1. ~Taken(line)
    BY <1>9
  <2>2. /\ store' = store /\ local' = local
        /\ inPipe' = [inPipe EXCEPT ![c] = Append(@, ack)]
        /\ outPipe' = [outPipe EXCEPT ![c] = Tail(@)] /\ outPipe[c] # <<>>
    BY <1>9, <2>1 DEF Handle
  <2>3. line \in OutLines
    BY <2>2 DEF TypeOK
  <2>4. ack \in InLines
    BY <1>1, <2>3 DEF InLines, OutLines, Taken
  <2>5. ack.type = "ack" => ack.copy = store
    OBVIOUS
  <2> HIDE DEF line, ack
  <2>6. inPipe'[d] = inPipe[d] \/ AcksOf(d)'
    <3>1. inPipe'[d] = inPipe[d] \/ inPipe'[d] = Append(inPipe[d], ack)
      BY <2>2 DEF TypeOK
    <3> QED  BY <1>a, <2>2, <2>4, <2>5, <3>1, AcksGrow
  <2>7. outPipe'[d] = outPipe[d] \/ LinesOf(d)'
    <3>1. CASE c # d
      BY <2>2, <3>1 DEF TypeOK
    <3>2. CASE c = d
      <4>1. outPipe'[d] = Tail(outPipe[d]) /\ outPipe[d] # <<>>
              /\ outPipe[d] \in Seq(OutLines)
        BY <2>2, <3>2 DEF TypeOK
      <4>2. \A i \in DOMAIN outPipe'[d] :
                \E j \in DOMAIN outPipe[d] : outPipe'[d][i] = outPipe[d][j]
        BY <4>1, TailElements
      <4> QED  BY <4>2, <2>2, <1>a DEF LinesOf, BaseIsStore
    <3> QED  BY <3>1, <3>2
  <2> QED  BY <1>1, <2>2, <2>6, <2>7, CopiesStill
<1>10. ASSUME NEW c \in Procs, Read(c) PROVE CopiesOf(d)'
  <2> DEFINE line == Head(inPipe[c])
  <2>1. store' = store /\ outPipe' = outPipe /\ inPipe[c] # <<>>
          /\ inPipe' = [inPipe EXCEPT ![c] = Tail(@)]
    BY <1>10 DEF Read
  <2>2. inPipe'[d] = inPipe[d] \/ AcksOf(d)'
    <3>1. CASE c # d
      BY <2>1, <3>1 DEF TypeOK
    <3>2. CASE c = d
      <4>1. inPipe'[d] = Tail(inPipe[d]) /\ inPipe[d] # <<>>
        BY <2>1, <3>2 DEF TypeOK
      <4> QED  BY <4>1, <1>a, <2>1, AcksShrink
    <3> QED  BY <3>1, <3>2
  <2>3. line.type = "ack" => CopyIsStore(line.copy)
    <3>1. inPipe[c] \in Seq(InLines) /\ 1 \in DOMAIN inPipe[c] /\ line = inPipe[c][1]
      BY <2>1 DEF TypeOK
    <3> QED  BY <3>1 DEF CopiesAreVersioned
  <2>4. local'[d] = local[d] \/ CopyIsStore(local[d])'
    <3>1. CASE line.type = "ack" /\ TakeAck(c, line)
      <4>1. local' = local \/ local' = [local EXCEPT ![c] = line.copy]
        BY <3>1 DEF TakeAck
      <4>2. local'[d] = local[d] \/ local'[d] = line.copy
        BY <4>1 DEF TypeOK
      <4> QED  BY <4>2, <3>1, <2>1, <2>3 DEF CopyIsStore
    <3>2. CASE local' = local
      BY <3>2
    <3> QED  BY <1>10, <3>1, <3>2 DEF Read
  <2>5. CopyIsStore(local[d])'
    BY <2>1, <2>4, <1>a DEF CopyIsStore
  <2>6. AcksOf(d)' /\ LinesOf(d)'
    BY <2>1, <2>2, <1>a DEF AcksOf, LinesOf, CopyIsStore, BaseIsStore
  <2> QED  BY <2>5, <2>6 DEF CopiesOf, AcksOf, LinesOf
<1>11. ASSUME NEW c \in Procs, Start(c) PROVE CopiesOf(d)'
  <2>1. store' = store /\ inPipe' = inPipe /\ outPipe' = outPipe
          /\ local' = [local EXCEPT ![c] = store]
    BY <1>11 DEF Start
  <2>2. local'[d] = local[d] \/ local'[d] = store
    BY <2>1 DEF TypeOK
  <2> QED  BY <1>1, <2>1, <2>2, CopiesStill
<1>12. ASSUME NEW c \in Procs, Exit(c) \/ Crash(c) PROVE CopiesOf(d)'
  <2>1. Gone(c)
    BY <1>12 DEF Exit, Crash
  <2>2. /\ store' = store /\ local' = local
        /\ inPipe'[d] = inPipe[d] \/ inPipe'[d] = <<>>
        /\ outPipe'[d] = outPipe[d] \/ outPipe'[d] = <<>>
    BY <2>1 DEF Gone, TypeOK
  <2> QED  BY <1>1, <2>2, CopiesStill
<1> QED  BY Steps, <1>3, <1>4, <1>5, <1>6, <1>7, <1>8, <1>9, <1>10, <1>11, <1>12

\* A version number means one document, wherever it is.
THEOREM CopiesVersioned == Spec => []CopiesAreVersioned
<1>1. Init => Typed /\ CopiesAreVersioned
  <2>1. Init => CopiesAreVersioned
    BY InitType DEF Init, CopiesAreVersioned, CopyIsStore, TypeOK, Copies
  <2> QED  BY <2>1, InitTyped
<1>2. Typed /\ CopiesAreVersioned /\ [Next]_vars => Typed' /\ CopiesAreVersioned'
  BY TypedStep, CopiesStep
<1> QED  BY <1>1, <1>2, PTL DEF Spec

-----------------------------------------------------------------------------
(* The document implements RequestBook *)

bookVars == <<store.doc.requests, store.doc.completed>>

\* A handler applied to the document as it is, is one operation of the book.
LEMMA ApplyIsBookStep ==
    ASSUME TypeOK, NEW u \in Updates, store'.doc = Apply(u, store.doc)
    PROVE  Book!Next \/ UNCHANGED bookVars
<1>1. store.doc \in Docs
  BY DEF TypeOK, Copies
<1>2. CASE u.kind = "add"
  <2>1. u.r \in Requests
    BY <1>2 DEF Updates
  <2>2. store'.doc = Added(u.r, store.doc)
    BY <1>2 DEF Apply
  <2>3. Book!Register(u.r)
    BY <1>1, <2>2 DEF Added, Docs, Book!Register
  <2> QED  BY <2>1, <2>3 DEF Book!Next
<1>3. CASE u.kind = "finish"
  <2>1. u.r \in Requests
    BY <1>3 DEF Updates
  <2>2. store'.doc = Finished(u.r, store.doc)
    BY <1>3 DEF Apply
  <2>3. CASE u.r \in store.doc.requests
    <3>1. Book!Finish(u.r)
      BY <1>1, <2>2, <2>3 DEF Finished, Docs, Book!Finish
    <3> QED  BY <2>1, <3>1 DEF Book!Next
  <2>4. CASE u.r \notin store.doc.requests
    BY <2>2, <2>4 DEF Finished, bookVars
  <2> QED  BY <2>3, <2>4
<1>4. CASE u.kind = "approve"
  <2>1. u.r \in Requests
    BY <1>4 DEF Updates
  <2>2. store'.doc = Approved(u.r, store.doc)
    BY <1>4 DEF Apply
  <2>3. Book!Approve(u.r)
    BY <1>1, <2>2 DEF Approved, Docs, Book!Approve
  <2> QED  BY <2>1, <2>3 DEF Book!Next
<1>5. CASE u.kind = "cancel"
  <2>1. store'.doc = Canceled(store.doc)
    BY <1>5 DEF Apply
  <2>2. Book!CancelAll
    BY <2>1 DEF Canceled, Book!CancelAll
  <2> QED  BY <2>2 DEF Book!Next
<1> QED  BY <1>2, <1>3, <1>4, <1>5 DEF Updates

\* Only the Hub's compare-and-set writes the document, and what it takes is a
\* handler applied to the document as it is: the version vouches for that.
LEMMA BookStep ==
    ASSUME Typed, CopiesAreVersioned, [Next]_vars
    PROVE  Book!Next \/ UNCHANGED bookVars
<1> USE DEF Typed
<1>1. ASSUME NEW c \in Procs, Handle(c) PROVE Book!Next \/ UNCHANGED bookVars
  <2> DEFINE line == Head(outPipe[c])
  <2>1. outPipe[c] # <<>> /\ outPipe[c] \in Seq(OutLines)
    BY <1>1 DEF Handle, TypeOK
  <2>2. line \in OutLines /\ 1 \in DOMAIN outPipe[c] /\ line = outPipe[c][1]
    BY <2>1
  <2>3. BaseIsStore(line)
    BY <2>2 DEF CopiesAreVersioned
  <2>4. store' = IF Taken(line) THEN Written(line) ELSE store
    BY <1>1 DEF Handle
  <2> HIDE DEF line
  <2>5. CASE Taken(line)
    <3>1. store'.doc = Apply(line.u, store.doc)
      BY <2>3, <2>4, <2>5 DEF BaseIsStore, Taken, Written
    <3>2. line.u \in Updates
      BY <2>2 DEF OutLines
    <3> QED  BY <3>1, <3>2, ApplyIsBookStep
  <2>6. CASE ~Taken(line)
    BY <2>4, <2>6 DEF bookVars
  <2> QED  BY <2>5, <2>6
<1>2. CASE store' = store
  BY <1>2 DEF bookVars
<1>3. CASE UNCHANGED vars
  BY <1>2, <1>3 DEF vars
<1>4. ASSUME NEW r \in Requests, Answer(r) PROVE store' = store
  BY <1>4 DEF Answer
<1>5. ASSUME NEW c \in Procs, NEW r \in Requests, Raise(c, r) \/ AutoApprove(c, r)
      PROVE  store' = store
  BY <1>5 DEF Raise, AutoApprove
<1>6. ASSUME NEW c \in Procs, NEW u \in replies[c], Replied(c, u) PROVE store' = store
  BY <1>6 DEF Replied
<1>7. ASSUME NEW c \in Procs, CancelAll(c) \/ FinishCancel(c) PROVE store' = store
  BY <1>7 DEF CancelAll, FinishCancel
<1>8. ASSUME NEW c \in Procs, Send(c) \/ TimeOut(c) \/ Read(c) PROVE store' = store
  BY <1>8 DEF Send, TimeOut, Read
<1>9. ASSUME NEW c \in Procs, Start(c) \/ Close(c) \/ Exit(c) \/ Crash(c)
      PROVE  store' = store
  BY <1>9 DEF Start, Close, Exit, Crash, Gone
<1> QED
  BY Steps, <1>1, <1>2, <1>3, <1>4, <1>5, <1>6, <1>7, <1>8, <1>9

\* The Hub's column behaves as one book of requests, whatever the runtimes, the
\* retries and the late acks do: the detailed specification implements
\* RequestBook.
THEOREM Refinement == Spec => OneBook
<1>1. Init => Book!Init
  BY DEF Init, Book!Init, NoDoc
<1>2. Init => Typed /\ CopiesAreVersioned
  <2>1. Init => CopiesAreVersioned
    BY InitType DEF Init, CopiesAreVersioned, CopyIsStore, TypeOK, Copies
  <2> QED  BY <2>1, InitTyped
<1>3. Typed /\ CopiesAreVersioned /\ [Next]_vars => Typed' /\ CopiesAreVersioned'
  BY TypedStep, CopiesStep
<1>4. Typed /\ CopiesAreVersioned /\ [Next]_vars
        => [Book!Next]_<<store.doc.requests, store.doc.completed>>
  BY BookStep DEF bookVars
<1> QED  BY <1>1, <1>2, <1>3, <1>4, PTL DEF Spec, OneBook, Book!Spec

-----------------------------------------------------------------------------
(* A handler and its backend *)

\* While a cancelAll awaits its backend, what is left in it came late.
WaitingLate == \A c \in Procs : cancels[c] > 0 => backend[c] \subseteq late

Waits(d) ==
    /\ backend[d] \ late \subseteq pending[d]
    /\ cancels[d] > 0 => backend[d] \subseteq late

LEMMA WaitingStep ==
    ASSUME Typed, WaitingIsPending, WaitingLate, [Next]_vars, NEW d \in Procs
    PROVE  Waits(d)'
<1> USE DEF Typed
<1>a. /\ backend[d] \ late \subseteq pending[d]
      /\ cancels[d] > 0 => backend[d] \subseteq late
  BY DEF WaitingIsPending, WaitingLate
<1>b. CASE UNCHANGED <<backend, late, pending, cancels>>
  BY <1>a, <1>b DEF Waits
<1>1. ASSUME NEW c \in Procs, NEW r \in Requests, Raise(c, r) PROVE Waits(d)'
  BY <1>a, <1>1 DEF Waits, Raise, TypeOK
<1>2. ASSUME NEW c \in Procs, CancelAll(c) PROVE Waits(d)'
  <2>1. backend' = [backend EXCEPT ![c] = {}] /\ late' = late
    BY <1>2 DEF CancelAll
  <2>2. c # d => pending'[d] = pending[d] /\ cancels'[d] = cancels[d]
    BY <1>2 DEF CancelAll, TypeOK
  <2> QED  BY <1>a, <2>1, <2>2 DEF Waits, TypeOK
<1>3. ASSUME NEW c \in Procs, FinishCancel(c) PROVE Waits(d)'
  <2>1. /\ pending' = [pending EXCEPT ![c] = {}] /\ backend' = backend
        /\ cancels' = [cancels EXCEPT ![c] = @ - 1] /\ late' = late /\ cancels[c] > 0
    BY <1>3 DEF FinishCancel
  <2>2. backend[c] \subseteq late
    BY <2>1 DEF WaitingLate
  <2> QED  BY <1>a, <2>1, <2>2 DEF Waits, TypeOK
<1>4. ASSUME NEW c \in Procs, NEW r \in Requests, TakeAnswer(c, r) PROVE Waits(d)'
  <2>1. CASE r \notin pending[c]
    BY <1>b, <1>4, <2>1 DEF Waits, TakeAnswer
  <2>2. CASE r \in pending[c]
    <3>1. pending' = [pending EXCEPT ![c] = @ \ {r}] /\ UNCHANGED <<cancels, late>>
      BY <1>4, <2>2 DEF TakeAnswer
    <3>2. \/ r \in backend[c] /\ backend' = [backend EXCEPT ![c] = @ \ {r}]
          \/ r \notin backend[c] /\ backend' = backend
      BY <1>4, <2>2 DEF TakeAnswer
    <3> QED  BY <1>a, <3>1, <3>2 DEF Waits, TypeOK
  <2> QED  BY <2>1, <2>2
<1>5. ASSUME NEW c \in Procs, Read(c) PROVE Waits(d)'
  <2>1. \/ UNCHANGED handlerVars
        \/ Head(inPipe[c]).r \in Requests /\ TakeAnswer(c, Head(inPipe[c]).r)
    <3>1. Head(inPipe[c]) \in InLines
      BY <1>5 DEF Read, TypeOK
    <3> QED  BY <1>5, <3>1 DEF Read, InLines
  <2> QED  BY <1>b, <1>4, <2>1 DEF handlerVars
<1>6. ASSUME NEW c \in Procs, Exit(c) \/ Crash(c) PROVE Waits(d)'
  <2>1. /\ backend' = [backend EXCEPT ![c] = {}]
        /\ pending' = [pending EXCEPT ![c] = {}]
        /\ cancels' = [cancels EXCEPT ![c] = 0] /\ late' = late
    BY <1>6 DEF Exit, Crash, Gone
  <2> QED  BY <1>a, <2>1 DEF Waits, TypeOK
<1>7. ASSUME NEW c \in Procs, NEW r \in Requests, AutoApprove(c, r) PROVE Waits(d)'
  BY <1>b, <1>7 DEF Waits, AutoApprove
<1>8. ASSUME NEW r \in Requests, Answer(r) PROVE Waits(d)'
  BY <1>b, <1>8 DEF Waits, Answer
<1>9. ASSUME NEW c \in Procs, NEW u \in replies[c], Replied(c, u) PROVE Waits(d)'
  BY <1>b, <1>9 DEF Waits, Replied
<1>10. ASSUME NEW c \in Procs, Send(c) \/ Handle(c) \/ TimeOut(c) PROVE Waits(d)'
  BY <1>b, <1>10 DEF Waits, Send, Handle, TimeOut
<1>11. ASSUME NEW c \in Procs, Start(c) \/ Close(c) PROVE Waits(d)'
  BY <1>b, <1>11 DEF Waits, Start, Close
<1>12. CASE UNCHANGED vars
  BY <1>b, <1>12 DEF Waits, vars
<1> QED
  BY Steps, <1>1, <1>2, <1>3, <1>5, <1>6, <1>7, <1>8, <1>9, <1>10, <1>11, <1>12

\* The handler can take an answer to every request its backend waits on, but
\* for one raised while a cancelAll was awaiting.
THEOREM WaitingCanBeAnswered == Spec => []WaitingIsPending
<1>1. Init => WaitingIsPending /\ WaitingLate
  BY DEF Init, WaitingIsPending, WaitingLate
<1>2. Typed /\ WaitingIsPending /\ WaitingLate /\ [Next]_vars
        => Typed' /\ WaitingIsPending' /\ WaitingLate'
  <2>1. Typed /\ WaitingIsPending /\ WaitingLate /\ [Next]_vars
            => \A d \in Procs : Waits(d)'
    BY WaitingStep
  <2> QED  BY <2>1, TypedStep DEF Waits, WaitingIsPending, WaitingLate
<1> QED  BY InitTyped, <1>1, <1>2, PTL DEF Spec

-----------------------------------------------------------------------------
(* Updates in a runtime's hands *)

\* The updates runtime c will send or has sent: those that follow an await,
\* those queued on its lock, those in its pipe.
Held(c) ==
    replies[c] \cup {lockq[c][i] : i \in DOMAIN lockq[c]}
               \cup {outPipe[c][i].u : i \in DOMAIN outPipe[c]}

\* The updates a step of runtime c begins.
Begun(c, u) ==
    \/ u = Cancellation
    \/ \E r \in Requests :
          \/ Raise(c, r) /\ u = Update("add", r)
          \/ AutoApprove(c, r) /\ u = Update("approve", r)
          \/ r \in pending[c] /\ TakeAnswer(c, r) /\ u = Update("finish", r)

\* Elements are what is in a queue before and after it grows or shrinks.
LEMMA QueueElements ==
    ASSUME TypeOK, NEW c \in Procs, NEW u \in Updates, Queue(c, u), NEW d \in Procs
    PROVE  \A i \in DOMAIN lockq'[d] :
               \/ c = d /\ lockq'[d][i] = u
               \/ \E j \in DOMAIN lockq[d] : lockq'[d][i] = lockq[d][j]
<1>1. lockq[d] \in Seq(Updates)
  BY DEF TypeOK
<1>2. CASE c = d
  <2>1. lockq'[d] = Append(lockq[d], u)
    BY <1>2 DEF Queue, TypeOK
  <2> QED  BY <1>1, <1>2, <2>1, AppendElements
<1>3. CASE c # d
  BY <1>3 DEF Queue, TypeOK
<1> QED  BY <1>2, <1>3

LEMMA UpdateType ==
    /\ \A k \in {"add", "finish", "approve"}, r \in Requests : Update(k, r) \in Updates
    /\ Cancellation \in Updates
BY DEF Update, Updates, Cancellation

LEMMA HeldType ==
    ASSUME TypeOK, NEW c \in Procs, NEW u \in Held(c)
    PROVE  u \in Updates
<1>1. /\ replies[c] \subseteq Updates /\ lockq[c] \in Seq(Updates)
      /\ outPipe[c] \in Seq(OutLines)
  BY DEF TypeOK
<1>2. \A l \in OutLines : l.u \in Updates
  BY DEF OutLines
<1> QED  BY <1>1, <1>2 DEF Held

\* What leaves the replies and the pipes alone holds nothing but what it queues.
LEMMA HeldGrows ==
    ASSUME TypeOK, NEW c \in Procs, NEW v \in Updates, NEW d \in Procs,
           Queue(c, v) \/ lockq' = lockq, outPipe' = outPipe,
           replies'[d] \subseteq replies[d] \cup {v}, c # d => replies'[d] = replies[d]
    PROVE  \A u \in Held(d)' : u \in Held(d) \/ (c = d /\ u = v)
<1>1. CASE Queue(c, v)
  BY <1>1, QueueElements DEF Held
<1>2. CASE lockq' = lockq
  BY <1>2 DEF Held
<1> QED  BY <1>1, <1>2

\* Only the ack of the holder's last request takes it off the queue.
LEMMA AckTaken ==
    ASSUME Typed, NEW c \in Procs, NEW line, TakeAck(c, line)
    PROVE  \/ lockq' = lockq
           \/ /\ attempt[c] = "sent" /\ line.n = asked[c] /\ line.success
              /\ lockq' = [lockq EXCEPT ![c] = Tail(@)] /\ lockq[c] # <<>>
<1>1. CASE attempt[c] = "ready" \/ line.n # asked[c]
  BY <1>1 DEF TakeAck
<1>2. CASE attempt[c] # "ready" /\ line.n = asked[c]
  <2>1. attempt[c] = "sent" /\ lockq[c] # <<>>
    BY <1>2 DEF Typed, TypeOK, HolderQueued
  <2>2. CASE line.success
    BY <1>2, <2>1, <2>2, Zenon DEF TakeAck
  <2>3. CASE ~ line.success
    BY <1>2, <2>3, Zenon DEF TakeAck
  <2> QED  BY <2>2, <2>3
<1> QED  BY <1>1, <1>2

\* Nothing is sent that no handler began, and no runtime sends another's.
LEMMA HeldStep ==
    ASSUME Typed, [Next]_vars, NEW d \in Procs, NEW u \in Held(d)'
    PROVE  u \in Held(d) \/ Begun(d, u)
<1> USE DEF Typed
<1>1. CASE UNCHANGED vars
  BY <1>1 DEF vars, Held
<1>2. ASSUME NEW r \in Requests, Answer(r) PROVE u \in Held(d)
  BY <1>2 DEF Answer, Held
<1>3. ASSUME NEW c \in Procs, NEW r \in Requests, Raise(c, r)
      PROVE  u \in Held(d) \/ Begun(d, u)
  <2>1. Update("add", r) \in Updates
    BY UpdateType
  <2>2. Queue(c, Update("add", r)) /\ outPipe' = outPipe /\ replies' = replies
    BY <1>3 DEF Raise
  <2>3. u \in Held(d) \/ (c = d /\ u = Update("add", r))
    BY <2>1, <2>2, HeldGrows
  <2> QED  BY <1>3, <2>3 DEF Begun
<1>4. ASSUME NEW c \in Procs, NEW r \in Requests, AutoApprove(c, r)
      PROVE  u \in Held(d) \/ Begun(d, u)
  <2>1. Update("approve", r) \in Updates
    BY UpdateType
  <2>2. /\ lockq' = lockq /\ outPipe' = outPipe
        /\ replies' = [replies EXCEPT ![c] = @ \cup {Update("approve", r)}]
    BY <1>4 DEF AutoApprove
  <2>3. u \in Held(d) \/ (c = d /\ u = Update("approve", r))
    BY <2>2 DEF Held, TypeOK
  <2> QED  BY <1>4, <2>3 DEF Begun
<1>5. ASSUME NEW c \in Procs, NEW v \in replies[c], Replied(c, v) PROVE u \in Held(d)
  <2>1. v \in Updates
    BY DEF TypeOK
  <2>2. /\ Queue(c, v) /\ outPipe' = outPipe
        /\ replies' = [replies EXCEPT ![c] = @ \ {v}]
    BY <1>5 DEF Replied
  <2>3. u \in Held(d) \/ (c = d /\ u = v)
    BY <2>1, <2>2, HeldGrows DEF TypeOK
  <2> QED  BY <2>3 DEF Held
<1>6. ASSUME NEW c \in Procs, CancelAll(c) \/ FinishCancel(c)
      PROVE  u \in Held(d) \/ Begun(d, u)
  <2>1. /\ outPipe' = outPipe /\ replies' = replies
        /\ Queue(c, Cancellation) \/ lockq' = lockq
    BY <1>6 DEF CancelAll, FinishCancel
  <2>2. u \in Held(d) \/ u = Cancellation
    BY <2>1, UpdateType, HeldGrows
  <2> QED  BY <2>2 DEF Begun
<1>7. ASSUME NEW c \in Procs, Send(c) PROVE u \in Held(d)
  <2> DEFINE line == [n |-> asked[c] + 1, u |-> Head(lockq[c]),
                      expected |-> local[c].version,
                      doc |-> Apply(Head(lockq[c]), local[c].doc)]
  <2>1. /\ lockq' = lockq /\ replies' = replies
        /\ outPipe' = [outPipe EXCEPT ![c] = Append(@, line)]
    BY <1>7 DEF Send
  <2>2. line \in OutLines /\ line.u = Head(lockq[c])
    <3>1. Head(lockq[c]) \in Updates
      BY <1>7 DEF Send, TypeOK
    <3>2. local[c].version \in Nat /\ local[c].doc \in Docs /\ asked[c] + 1 \in Nat
      BY DEF TypeOK, Copies
    <3>3. Apply(Head(lockq[c]), local[c].doc) \in Docs
      BY <3>1, <3>2, ApplyType
    <3> QED  BY <3>1, <3>2, <3>3 DEF OutLines
  <2> HIDE DEF line
  <2>3. CASE c # d
    BY <2>1, <2>3 DEF Held, TypeOK
  <2>4. CASE c = d
    <3>1. outPipe'[d] = Append(outPipe[d], line) /\ outPipe[d] \in Seq(OutLines)
      BY <2>1, <2>4 DEF TypeOK
    <3>2. \A i \in DOMAIN outPipe'[d] :
              outPipe'[d][i] = line
                  \/ \E j \in DOMAIN outPipe[d] : outPipe'[d][i] = outPipe[d][j]
      BY <2>2, <3>1, AppendElements
    <3>3. lockq[d] \in Seq(Updates) /\ lockq[d] # <<>>
      BY <1>7, <2>4 DEF Send, TypeOK
    <3>4. 1 \in DOMAIN lockq[d] /\ Head(lockq[d]) = lockq[d][1]
      BY <3>3
    <3> QED  BY <2>1, <2>2, <2>4, <3>2, <3>4 DEF Held
  <2> QED  BY <2>3, <2>4
<1>8. ASSUME NEW c \in Procs, Handle(c) PROVE u \in Held(d)
  <2>1. /\ outPipe' = [outPipe EXCEPT ![c] = Tail(@)] /\ outPipe[c] # <<>>
        /\ lockq' = lockq /\ replies' = replies
    BY <1>8 DEF Handle
  <2>2. CASE c # d
    BY <2>1, <2>2 DEF Held, TypeOK
  <2>3. CASE c = d
    <3>1. outPipe'[d] = Tail(outPipe[d]) /\ outPipe[d] \in Seq(OutLines)
            /\ outPipe[d] # <<>>
      BY <2>1, <2>3 DEF TypeOK
    <3>2. \A i \in DOMAIN outPipe'[d] :
              \E j \in DOMAIN outPipe[d] : outPipe'[d][i] = outPipe[d][j]
      BY <3>1, TailElements
    <3> QED  BY <2>1, <3>2 DEF Held
  <2> QED  BY <2>2, <2>3
<1>9. ASSUME NEW c \in Procs, Read(c) PROVE u \in Held(d) \/ Begun(d, u)
  <2> DEFINE line == Head(inPipe[c])
  <2>1. line \in InLines /\ outPipe' = outPipe
    BY <1>9 DEF Read, TypeOK
  <2>2. \/ TakeAck(c, line) /\ UNCHANGED handlerVars
        \/ line.r \in Requests /\ TakeAnswer(c, line.r)
    BY <1>9, <2>1 DEF Read, InLines
  <2> HIDE DEF line
  <2>3. CASE TakeAck(c, line) /\ UNCHANGED handlerVars
    <3>1. lockq' = lockq \/ (lockq' = [lockq EXCEPT ![c] = Tail(@)] /\ lockq[c] # <<>>)
      BY <2>3, AckTaken
    <3>2. \A i \in DOMAIN lockq'[d] :
              \E j \in DOMAIN lockq[d] : lockq'[d][i] = lockq[d][j]
      <4>1. CASE lockq' = lockq
        BY <4>1
      <4>2. CASE lockq' = [lockq EXCEPT ![c] = Tail(@)] /\ lockq[c] # <<>>
        <5>1. lockq[d] \in Seq(Updates)
          BY DEF TypeOK
        <5>2. lockq'[d] = lockq[d] \/ (lockq'[d] = Tail(lockq[d]) /\ lockq[d] # <<>>)
          BY <4>2 DEF TypeOK
        <5>3. CASE lockq'[d] = Tail(lockq[d]) /\ lockq[d] # <<>>
          BY <5>1, <5>3, TailElements
        <5> QED  BY <5>2, <5>3
      <4> QED  BY <3>1, <4>1, <4>2
    <3> QED  BY <2>1, <2>3, <3>2 DEF Held
  <2>4. CASE line.r \in Requests /\ TakeAnswer(c, line.r)
    <3>1. CASE line.r \notin pending[c]
      BY <2>1, <2>4, <3>1 DEF TakeAnswer, Held
    <3>2. CASE line.r \in pending[c]
      <4>1. Update("finish", line.r) \in Updates
        BY <2>4, UpdateType
      <4>2. \/ /\ replies' = [replies EXCEPT ![c] = @ \cup {Update("finish", line.r)}]
               /\ lockq' = lockq
            \/ Queue(c, Update("finish", line.r)) /\ replies' = replies
        BY <2>4, <3>2 DEF TakeAnswer
      <4>3. u \in Held(d) \/ (c = d /\ u = Update("finish", line.r))
        <5>1. /\ replies'[d] \subseteq replies[d] \cup {Update("finish", line.r)}
              /\ c # d => replies'[d] = replies[d]
          BY <4>2 DEF TypeOK
        <5> QED  BY <2>1, <4>1, <4>2, <5>1, HeldGrows
      <4> QED  BY <2>4, <3>2, <4>3 DEF Begun
    <3> QED  BY <3>1, <3>2
  <2> QED  BY <2>2, <2>3, <2>4
<1>10. ASSUME NEW c \in Procs, TimeOut(c) \/ Start(c) \/ Close(c) PROVE u \in Held(d)
  BY <1>10 DEF TimeOut, Start, Close, Held
<1>11. ASSUME NEW c \in Procs, Exit(c) \/ Crash(c) PROVE u \in Held(d)
  <2>1. Gone(c)
    BY <1>11 DEF Exit, Crash
  <2>2. /\ replies'[d] = replies[d] \/ replies'[d] = {}
        /\ lockq'[d] = lockq[d] \/ lockq'[d] = <<>>
        /\ outPipe'[d] = outPipe[d] \/ outPipe'[d] = <<>>
    BY <2>1 DEF Gone, TypeOK
  <2> QED  BY <2>2 DEF Held
<1> QED
  BY Steps, <1>1, <1>2, <1>3, <1>4, <1>5, <1>6, <1>7, <1>8, <1>9, <1>10, <1>11

-----------------------------------------------------------------------------
(* What the backend is told *)

\* Who waits in a backend was raised there and is told nothing yet; who is
\* pending waits there, or was told by a cancelAll.
HandlerTold ==
    /\ \A r \in Requests : told[r] <= 1 /\ (raisedBy[r] = 0 => told[r] = 0)
    /\ \A c \in Procs :
          /\ \A r \in backend[c] : raisedBy[r] = c /\ told[r] = 0
          /\ \A r \in pending[c] : raisedBy[r] = c /\ (r \in backend[c] \/ told[r] = 1)

\* An update that will call a request answered follows what told the backend.
Vouched(u) == u.kind \in {"finish", "approve"} => told[u.r] = 1

UpdatesTold == \A c \in Procs : \A u \in Held(c) : Vouched(u)

AnsweredTold == \A r \in Requests : store.doc.completed[r] = "answered" => told[r] = 1

\* No step of a handler tells a backend twice.
LEMMA HandlerToldStep ==
    ASSUME Typed, HandlerTold, [Next]_vars
    PROVE  /\ HandlerTold'
           /\ \A r \in Requests : told[r] = 1 => told'[r] = 1
<1> USE DEF Typed
<1> DEFINE Goal == HandlerTold' /\ \A r \in Requests : told[r] = 1 => told'[r] = 1
<1>b. ASSUME UNCHANGED <<backend, pending, raisedBy, told>> PROVE Goal
  BY <1>b DEF HandlerTold
<1>c. \A c \in Procs : c # 0
  BY BoundsAssumption DEF Procs
<1>1. ASSUME NEW c \in Procs, NEW r \in Requests, Raise(c, r) PROVE Goal
  <2>1. /\ raisedBy[r] = 0 /\ raisedBy' = [raisedBy EXCEPT ![r] = c]
        /\ backend' = [backend EXCEPT ![c] = @ \cup {r}]
        /\ pending' = [pending EXCEPT ![c] = @ \cup {r}] /\ told' = told
    BY <1>1 DEF Raise
  <2>2. \A q \in Requests : told'[q] <= 1 /\ (raisedBy'[q] = 0 => told'[q] = 0)
    BY <2>1 DEF HandlerTold, TypeOK
  <2>3. ASSUME NEW d \in Procs, NEW q \in backend'[d]
        PROVE  raisedBy'[q] = d /\ told'[q] = 0
    <3>1. q \in backend[d] \/ (d = c /\ q = r)
      BY <2>1 DEF TypeOK
    <3> QED  BY <1>c, <2>1, <3>1 DEF HandlerTold, TypeOK
  <2>4. ASSUME NEW d \in Procs, NEW q \in pending'[d]
        PROVE  raisedBy'[q] = d /\ (q \in backend'[d] \/ told'[q] = 1)
    <3>1. q \in pending[d] \/ (d = c /\ q = r)
      BY <2>1 DEF TypeOK
    <3> QED  BY <1>c, <2>1, <3>1 DEF HandlerTold, TypeOK
  <2> QED  BY <2>1, <2>2, <2>3, <2>4 DEF HandlerTold
<1>2. ASSUME NEW c \in Procs, NEW r \in Requests, AutoApprove(c, r) PROVE Goal
  <2>1. /\ raisedBy[r] = 0 /\ raisedBy' = [raisedBy EXCEPT ![r] = c]
        /\ told' = [told EXCEPT ![r] = @ + 1] /\ backend' = backend
        /\ pending' = pending
    BY <1>2 DEF AutoApprove
  <2>2. \A d \in Procs : r \notin backend[d] /\ r \notin pending[d]
    BY <1>c, <2>1 DEF HandlerTold
  <2> QED  BY <1>c, <2>1, <2>2 DEF HandlerTold, TypeOK
<1>3. ASSUME NEW c \in Procs, CancelAll(c) PROVE Goal
  <2>1. /\ told' = [r \in Requests |-> told[r] + (IF r \in backend[c] THEN 1 ELSE 0)]
        /\ backend' = [backend EXCEPT ![c] = {}] /\ raisedBy' = raisedBy
        /\ pending' = pending \/ pending' = [pending EXCEPT ![c] = {}]
    BY <1>3 DEF CancelAll
  <2>2. \A r \in Requests : told'[r] = IF r \in backend[c] THEN 1 ELSE told[r]
    BY <2>1 DEF HandlerTold, TypeOK
  <2>3. ASSUME NEW r \in Requests
        PROVE  /\ told'[r] <= 1 /\ (raisedBy'[r] = 0 => told'[r] = 0)
               /\ told[r] = 1 => told'[r] = 1
    BY <1>c, <2>1, <2>2 DEF HandlerTold
  <2>4. ASSUME NEW d \in Procs, NEW q \in backend'[d]
        PROVE  raisedBy'[q] = d /\ told'[q] = 0
    <3>1. q \in backend[d] /\ d # c /\ q \in Requests
      BY <2>1 DEF TypeOK
    <3> QED  BY <2>1, <2>2, <3>1 DEF HandlerTold
  <2>5. ASSUME NEW d \in Procs, NEW q \in pending'[d]
        PROVE  raisedBy'[q] = d /\ (q \in backend'[d] \/ told'[q] = 1)
    <3>1. q \in pending[d] /\ q \in Requests
      BY <2>1 DEF TypeOK
    <3>2. CASE q \in backend[c]
      BY <2>1, <2>2, <3>1, <3>2 DEF HandlerTold
    <3>3. CASE q \notin backend[c]
      <4>1. raisedBy[q] = d /\ (q \in backend[d] \/ told[q] = 1)
        BY <3>1 DEF HandlerTold
      <4>2. q \in backend[d] => q \in backend'[d]
        BY <2>1, <3>3 DEF TypeOK
      <4> QED  BY <2>1, <2>2, <3>1, <3>3, <4>1, <4>2
    <3> QED  BY <3>2, <3>3
  <2> QED  BY <2>3, <2>4, <2>5 DEF HandlerTold
<1>4. ASSUME NEW c \in Procs, FinishCancel(c) PROVE Goal
  BY <1>4 DEF FinishCancel, HandlerTold, TypeOK
<1>5. ASSUME NEW c \in Procs, NEW r \in Requests, TakeAnswer(c, r) PROVE Goal
  <2>1. CASE r \notin pending[c]
    BY <1>b, <1>5, <2>1 DEF TakeAnswer
  <2>2. CASE r \in pending[c] /\ r \notin backend[c]
    <3>1. /\ pending' = [pending EXCEPT ![c] = @ \ {r}]
          /\ UNCHANGED <<backend, told, raisedBy>>
      BY <1>5, <2>2 DEF TakeAnswer
    <3> QED  BY <3>1 DEF HandlerTold, TypeOK
  <2>3. CASE r \in pending[c] /\ r \in backend[c]
    <3>1. /\ pending' = [pending EXCEPT ![c] = @ \ {r}]
          /\ backend' = [backend EXCEPT ![c] = @ \ {r}]
          /\ told' = [told EXCEPT ![r] = @ + 1] /\ raisedBy' = raisedBy
      BY <1>5, <2>3 DEF TakeAnswer
    <3>2. raisedBy[r] = c /\ told[r] = 0 /\ told'[r] = 1
      BY <2>3, <3>1 DEF HandlerTold, TypeOK
    <3>3. \A q \in Requests : q # r => told'[q] = told[q]
      BY <3>1 DEF TypeOK
    <3>4. ASSUME NEW q \in Requests
          PROVE  /\ told'[q] <= 1 /\ (raisedBy'[q] = 0 => told'[q] = 0)
                 /\ told[q] = 1 => told'[q] = 1
      BY <1>c, <3>1, <3>2, <3>3 DEF HandlerTold
    <3>5. ASSUME NEW d \in Procs, NEW q \in backend'[d]
          PROVE  raisedBy'[q] = d /\ told'[q] = 0
      <4>1. q \in backend[d] /\ q # r /\ q \in Requests
        <5>1. q \in backend[d] /\ q \in Requests /\ (d = c => q # r)
          BY <3>1 DEF TypeOK
        <5> QED  BY <3>2, <5>1 DEF HandlerTold
      <4> QED  BY <3>1, <3>3, <4>1 DEF HandlerTold
    <3>6. ASSUME NEW d \in Procs, NEW q \in pending'[d]
          PROVE  raisedBy'[q] = d /\ (q \in backend'[d] \/ told'[q] = 1)
      <4>1. q \in pending[d] /\ q \in Requests
        BY <3>1 DEF TypeOK
      <4>2. raisedBy[q] = d /\ (q \in backend[d] \/ told[q] = 1)
        BY <4>1 DEF HandlerTold
      <4>3. q # r /\ q \in backend[d] => q \in backend'[d]
        BY <3>1 DEF TypeOK
      <4> QED  BY <3>1, <3>2, <3>3, <4>1, <4>2, <4>3
    <3> QED  BY <3>4, <3>5, <3>6 DEF HandlerTold
  <2> QED  BY <2>1, <2>2, <2>3
<1>6. ASSUME NEW c \in Procs, Exit(c) \/ Crash(c) PROVE Goal
  <2>1. /\ backend' = [backend EXCEPT ![c] = {}]
        /\ pending' = [pending EXCEPT ![c] = {}]
        /\ told' = told /\ raisedBy' = raisedBy
    BY <1>6 DEF Exit, Crash, Gone
  <2> QED  BY <2>1 DEF HandlerTold, TypeOK
<1> HIDE DEF Goal
<1>7. ASSUME NEW c \in Procs, Read(c) PROVE Goal
  <2>1. \/ UNCHANGED handlerVars
        \/ Head(inPipe[c]).r \in Requests /\ TakeAnswer(c, Head(inPipe[c]).r)
    <3>1. Head(inPipe[c]) \in InLines
      BY <1>7 DEF Read, TypeOK
    <3> QED  BY <1>7, <3>1 DEF Read, InLines
  <2> QED  BY <1>b, <1>5, <2>1
<1>8. ASSUME \/ UNCHANGED vars
             \/ \E r \in Requests : Answer(r)
             \/ \E c \in Procs :
                   \/ \E u \in replies[c] : Replied(c, u)
                   \/ Send(c) \/ Handle(c) \/ TimeOut(c) \/ Start(c) \/ Close(c)
      PROVE  Goal
  <2>1. UNCHANGED <<backend, pending, raisedBy, told>>
    BY <1>8 DEF vars, Answer, Replied, Send, Handle, TimeOut, Start, Close
  <2> QED  BY <1>b, <2>1
<1>9. Goal
  BY Steps, <1>1, <1>2, <1>3, <1>4, <1>6, <1>7, <1>8
<1> QED  BY <1>9 DEF Goal

LEMMA UpdatesToldStep ==
    ASSUME Typed, HandlerTold, UpdatesTold, [Next]_vars
    PROVE  UpdatesTold'
<1>1. HandlerTold' /\ \A r \in Requests : told[r] = 1 => told'[r] = 1
  BY HandlerToldStep
<1> SUFFICES ASSUME NEW d \in Procs, NEW u \in Held(d)' PROVE Vouched(u)'
  BY DEF UpdatesTold
<1>2. u \in Held(d) \/ Begun(d, u)
  BY HeldStep
<1>3. CASE u \in Held(d)
  <2>1. u \in Updates
    BY <1>3, HeldType DEF Typed
  <2>2. u.kind \in {"finish", "approve"} => u.r \in Requests
    BY <2>1 DEF Updates
  <2>3. Vouched(u)
    BY <1>3 DEF UpdatesTold
  <2> QED  BY <1>1, <2>2, <2>3 DEF Vouched
<1>4. CASE u = Cancellation
  BY <1>4 DEF Cancellation, Vouched
<1>5. ASSUME NEW r \in Requests, u = Update("add", r) PROVE Vouched(u)'
  BY <1>5 DEF Update, Vouched
<1>6. ASSUME NEW r \in Requests, AutoApprove(d, r), u = Update("approve", r)
      PROVE  Vouched(u)'
  <2>1. told'[r] = 1
    BY <1>6 DEF AutoApprove, HandlerTold, Typed, TypeOK
  <2> QED  BY <1>6, <2>1 DEF Update, Vouched
<1>7. ASSUME NEW r \in pending[d], TakeAnswer(d, r), u = Update("finish", r)
      PROVE  Vouched(u)'
  <2>1. r \in Requests
    BY DEF Typed, TypeOK
  <2>2. told'[r] = 1
    <3>1. CASE r \in backend[d]
      <4>1. told[r] = 0 /\ told' = [told EXCEPT ![r] = @ + 1]
        BY <1>7, <3>1 DEF TakeAnswer, HandlerTold
      <4> QED  BY <2>1, <4>1 DEF Typed, TypeOK
    <3>2. CASE r \notin backend[d]
      BY <1>1, <2>1, <3>2 DEF HandlerTold
    <3> QED  BY <3>1, <3>2
  <2> QED  BY <1>7, <2>2 DEF Update, Vouched
<1> QED  BY <1>2, <1>3, <1>4, <1>5, <1>6, <1>7 DEF Begun

\* The Hub writes what an update in the writer's pipe makes of the document.
LEMMA StoreStep ==
    ASSUME Typed, CopiesAreVersioned, [Next]_vars
    PROVE  \/ store' = store /\ wiped' = wiped
           \/ \E c \in Procs : \E u \in Held(c) \cap Updates :
                 /\ Handle(c) /\ Taken(Head(outPipe[c])) /\ u = Head(outPipe[c]).u
                 /\ store'.doc = Apply(u, store.doc)
                 /\ wiped' = IF u.kind = "cancel"
                             THEN wiped \cup {r \in store.doc.requests : raisedBy[r] # c}
                             ELSE wiped
<1> USE DEF Typed
<1>1. ASSUME NEW c \in Procs, Handle(c)
      PROVE  \/ store' = store /\ wiped' = wiped
             \/ \E u \in Held(c) \cap Updates :
                   /\ Handle(c) /\ Taken(Head(outPipe[c])) /\ u = Head(outPipe[c]).u
                   /\ store'.doc = Apply(u, store.doc)
                   /\ wiped' = IF u.kind = "cancel"
                               THEN wiped \cup {r \in store.doc.requests : raisedBy[r] # c}
                               ELSE wiped
  <2> DEFINE line == Head(outPipe[c])
  <2>1. outPipe[c] # <<>> /\ outPipe[c] \in Seq(OutLines)
    BY <1>1 DEF Handle, TypeOK
  <2>2. line \in OutLines /\ 1 \in DOMAIN outPipe[c] /\ line = outPipe[c][1]
    BY <2>1
  <2>3. BaseIsStore(line) /\ line.u \in Held(c) /\ line.u \in Updates
    BY <2>2 DEF CopiesAreVersioned, Held, OutLines
  <2>4. /\ store' = IF Taken(line) THEN Written(line) ELSE store
        /\ wiped' = IF Taken(line) /\ line.u.kind = "cancel"
                    THEN wiped \cup {r \in store.doc.requests : raisedBy[r] # c}
                    ELSE wiped
    BY <1>1 DEF Handle
  <2> HIDE DEF line
  <2>5. CASE Taken(line)
    <3>1. store'.doc = Apply(line.u, store.doc)
      BY <2>3, <2>4, <2>5 DEF BaseIsStore, Taken, Written
    <3>2. wiped' = IF line.u.kind = "cancel"
                   THEN wiped \cup {r \in store.doc.requests : raisedBy[r] # c}
                   ELSE wiped
      BY <2>4, <2>5
    <3> QED  BY <1>1, <2>3, <2>5, <3>1, <3>2 DEF line
  <2>6. CASE ~Taken(line)
    BY <2>4, <2>6
  <2> QED  BY <2>5, <2>6
<1>2. CASE \/ UNCHANGED vars
           \/ \E r \in Requests : Answer(r)
           \/ \E c \in Procs :
                 \/ \E r \in Requests : Raise(c, r) \/ AutoApprove(c, r)
                 \/ \E u \in replies[c] : Replied(c, u)
                 \/ CancelAll(c) \/ FinishCancel(c) \/ Send(c) \/ TimeOut(c)
                 \/ Read(c) \/ Start(c) \/ Close(c) \/ Exit(c) \/ Crash(c)
  BY <1>2 DEF vars, Answer, Raise, AutoApprove, Replied, CancelAll, FinishCancel,
     Send, TimeOut, Read, Start, Close, Exit, Crash, Gone
<1>3. \/ \E c \in Procs : Handle(c)
      \/ UNCHANGED vars
      \/ \E r \in Requests : Answer(r)
      \/ \E c \in Procs :
            \/ \E r \in Requests : Raise(c, r) \/ AutoApprove(c, r)
            \/ \E u \in replies[c] : Replied(c, u)
            \/ CancelAll(c) \/ FinishCancel(c) \/ Send(c) \/ TimeOut(c)
            \/ Read(c) \/ Start(c) \/ Close(c) \/ Exit(c) \/ Crash(c)
  BY Steps
<1> QED  BY <1>1, <1>2, <1>3

LEMMA AnsweredToldStep ==
    ASSUME Typed, CopiesAreVersioned, HandlerTold, UpdatesTold, AnsweredTold,
           [Next]_vars
    PROVE  AnsweredTold'
<1> SUFFICES ASSUME NEW r \in Requests, store'.doc.completed[r] = "answered"
             PROVE  told'[r] = 1
  BY DEF AnsweredTold
<1>1. told[r] = 1 => told'[r] = 1
  BY HandlerToldStep
<1>2. CASE store' = store
  BY <1>1, <1>2 DEF AnsweredTold
<1>3. ASSUME NEW c \in Procs, NEW u \in Held(c), u \in Updates,
             store'.doc = Apply(u, store.doc)
      PROVE  told[r] = 1
  <2>1. store.doc \in Docs /\ Vouched(u)
    BY <1>3 DEF Typed, TypeOK, Copies, UpdatesTold
  <2>2. CASE u.kind \in {"finish", "approve"}
    <3>1. told[u.r] = 1 /\ u.r \in Requests
      BY <2>1, <2>2, <1>3 DEF Vouched, Updates
    <3>2. r # u.r => store'.doc.completed[r] = store.doc.completed[r]
      <4>1. CASE u.kind = "finish"
        BY <1>3, <2>1, <4>1 DEF Apply, Finished, Docs
      <4>2. CASE u.kind = "approve"
        BY <1>3, <2>1, <4>2 DEF Apply, Approved, Docs
      <4> QED  BY <2>2, <4>1, <4>2
    <3> QED  BY <3>1, <3>2 DEF AnsweredTold
  <2>3. CASE u.kind = "add"
    <3>1. store'.doc.completed = store.doc.completed
      BY <1>3, <2>1, <2>3 DEF Apply, Added, Docs
    <3> QED  BY <3>1 DEF AnsweredTold
  <2>4. CASE u.kind = "cancel"
    <3>1. store'.doc.completed[r] = "canceled"
            \/ store'.doc.completed[r] = store.doc.completed[r]
      BY <1>3, <2>1, <2>4 DEF Apply, Canceled, Docs
    <3> QED  BY <3>1 DEF AnsweredTold
  <2> QED  BY <1>3, <2>2, <2>3, <2>4 DEF Updates
<1> QED  BY StoreStep, <1>1, <1>2, <1>3

\* The backend is told of a request at most once, whatever answers, cancelAlls
\* and auto approvals overlap, and the document calls a request answered only
\* when its backend was told.
THEOREM ToldAtMostOnce == Spec => []ToldOnce
<1> DEFINE Inv == Typed /\ CopiesAreVersioned /\ HandlerTold /\ UpdatesTold
                    /\ AnsweredTold
<1>1. Init => Inv
  <2>1. Init => CopiesAreVersioned
    BY InitType DEF Init, CopiesAreVersioned, CopyIsStore, TypeOK, Copies
  <2>2. Init => HandlerTold
    BY DEF Init, HandlerTold
  <2>3. Init => UpdatesTold
    BY DEF Init, UpdatesTold, Held
  <2>4. Init => AnsweredTold
    BY DEF Init, NoDoc, AnsweredTold
  <2> QED  BY <2>1, <2>2, <2>3, <2>4, InitTyped
<1>2. Inv /\ [Next]_vars => Inv'
  BY TypedStep, CopiesStep, HandlerToldStep, UpdatesToldStep, AnsweredToldStep
<1>3. Inv => ToldOnce
  BY DEF HandlerTold, AnsweredTold, ToldOnce
<1> HIDE DEF Inv
<1> QED  BY <1>1, <1>2, <1>3, PTL DEF Spec

-----------------------------------------------------------------------------
(* The document after the queued updates *)

\* g is the document before, between and after the updates us.
Stages(g, us, doc) ==
    /\ g[0] = doc
    /\ \A i \in 1..Len(us) : g[i] = Apply(us[i], g[i - 1])

\* There are such stages: the recursion is well-founded.
LEMMA StagesExist ==
    ASSUME NEW us \in Seq(Updates), NEW doc
    PROVE  \E f : f = [i \in 0..Len(us) |->
                          IF i = 0 THEN doc ELSE Apply(us[i], f[i - 1])]
<1> DEFINE T == {n \in Nat : \E f : f = [i \in 0..n |->
                          IF i = 0 THEN doc ELSE Apply(us[i], f[i - 1])]}
<1>1. 0 \in T
  <2> DEFINE f == [i \in 0..0 |-> doc]
  <2>1. f = [i \in 0..0 |-> IF i = 0 THEN doc ELSE Apply(us[i], f[i - 1])]
    OBVIOUS
  <2> QED  BY <2>1
<1>2. ASSUME NEW n \in T PROVE n + 1 \in T
  <2>1. PICK f : f = [i \in 0..n |->
                         IF i = 0 THEN doc ELSE Apply(us[i], f[i - 1])]
    OBVIOUS
  <2> DEFINE h == [i \in 0..(n + 1) |-> IF i = n + 1 THEN Apply(us[i], f[n]) ELSE f[i]]
  <2>2. \A i \in 0..n : f[i] = IF i = 0 THEN doc ELSE Apply(us[i], f[i - 1])
    BY <2>1
  <2>3. \A i \in 0..(n + 1) : h[i] = IF i = 0 THEN doc ELSE Apply(us[i], h[i - 1])
    BY <2>2
  <2>4. h = [i \in 0..(n + 1) |-> IF i = 0 THEN doc ELSE Apply(us[i], h[i - 1])]
    BY <2>3
  <2> HIDE DEF h
  <2>5. \E k : k = [i \in 0..(n + 1) |-> IF i = 0 THEN doc ELSE Apply(us[i], k[i - 1])]
    BY <2>4
  <2>6. n + 1 \in Nat
    OBVIOUS
  <2> QED  BY <2>5, <2>6
<1>3. T \in SUBSET Nat
  OBVIOUS
<1> HIDE DEF T
<1>4. Len(us) \in T
  BY <1>1, <1>2, <1>3, SetInduction
<1> QED  BY <1>4 DEF T

LEMMA AfterStages ==
    ASSUME NEW us \in Seq(Updates), NEW doc
    PROVE  \E g : Stages(g, us, doc) /\ AfterUpdates(us, doc) = g[Len(us)]
<1> DEFINE IsAfter(f) == f = [i \in 0..Len(us) |->
                                 IF i = 0 THEN doc ELSE Apply(us[i], f[i - 1])]
<1>1. AfterUpdates(us, doc) = (CHOOSE f : IsAfter(f))[Len(us)]
  BY DEF AfterUpdates
<1>2. IsAfter(CHOOSE f : IsAfter(f))
  <2>1. \E f : IsAfter(f)
    BY StagesExist
  <2> HIDE DEF IsAfter
  <2> QED  BY <2>1
<1>3. \A f : IsAfter(f) => Stages(f, us, doc)
  BY DEF Stages
<1> QED  BY <1>1, <1>2, <1>3

LEMMA StagesEnd ==
    ASSUME NEW us \in Seq(Updates), NEW doc, NEW g, Stages(g, us, doc)
    PROVE  AfterUpdates(us, doc) = g[Len(us)]
<1>1. PICK f : Stages(f, us, doc) /\ AfterUpdates(us, doc) = f[Len(us)]
  BY AfterStages
<1> DEFINE T == {n \in Nat : n <= Len(us) => f[n] = g[n]}
<1>2. 0 \in T
  BY <1>1 DEF Stages
<1>3. ASSUME NEW n \in T PROVE n + 1 \in T
  BY <1>1 DEF Stages
<1>4. T \in SUBSET Nat
  OBVIOUS
<1> HIDE DEF T
<1>5. Len(us) \in T
  BY <1>2, <1>3, <1>4, SetInduction
<1> QED  BY <1>1, <1>5 DEF T

LEMMA AfterNothing ==
    ASSUME NEW doc
    PROVE  AfterUpdates(<<>>, doc) = doc
<1>1. <<>> \in Seq(Updates) /\ Len(<<>>) = 0
  OBVIOUS
<1>2. PICK g : Stages(g, <<>>, doc) /\ AfterUpdates(<<>>, doc) = g[Len(<<>>)]
  BY <1>1, AfterStages
<1> QED  BY <1>1, <1>2 DEF Stages

\* What joins the queue is applied last.
LEMMA AfterAppend ==
    ASSUME NEW us \in Seq(Updates), NEW u \in Updates, NEW doc
    PROVE  AfterUpdates(Append(us, u), doc) = Apply(u, AfterUpdates(us, doc))
<1> DEFINE vs == Append(us, u)
<1>0. vs \in Seq(Updates)
  OBVIOUS
<1> HIDE DEF vs
<1>1. PICK g : Stages(g, vs, doc) /\ AfterUpdates(vs, doc) = g[Len(vs)]
  BY <1>0, AfterStages
<1> USE DEF vs
<1>2. Len(vs) = Len(us) + 1 /\ vs[Len(vs)] = u /\ \A i \in 1..Len(us) : vs[i] = us[i]
  OBVIOUS
<1> HIDE DEF vs
<1>3. Stages(g, us, doc)
  BY <1>1, <1>2 DEF Stages
<1>4. AfterUpdates(us, doc) = g[Len(us)]
  BY <1>3, StagesEnd
<1> QED  BY <1>1, <1>2, <1>4 DEF Stages, vs

\* What leads the queue is applied first.
LEMMA AfterHead ==
    ASSUME NEW us \in Seq(Updates), us # <<>>, NEW doc
    PROVE  AfterUpdates(us, doc) = AfterUpdates(Tail(us), Apply(Head(us), doc))
<1>1. PICK g : Stages(g, us, doc) /\ AfterUpdates(us, doc) = g[Len(us)]
  BY AfterStages
<1> DEFINE vs == Tail(us)
           h == [i \in 0..Len(vs) |-> g[i + 1]]
<1>2. /\ vs \in Seq(Updates) /\ Len(us) = Len(vs) + 1 /\ Head(us) = us[1]
      /\ \A i \in 1..Len(vs) : vs[i] = us[i + 1]
  OBVIOUS
<1> HIDE DEF vs
<1>3. Stages(h, vs, Apply(Head(us), doc))
  <2>1. h[0] = Apply(Head(us), doc)
    BY <1>1, <1>2 DEF Stages
  <2>2. ASSUME NEW i \in 1..Len(vs) PROVE h[i] = Apply(vs[i], h[i - 1])
    <3>1. i + 1 \in 1..Len(us) /\ (i + 1) - 1 = i
      BY <1>2
    <3>2. g[i + 1] = Apply(us[i + 1], g[i])
      BY <1>1, <3>1 DEF Stages
    <3>3. h[i] = g[i + 1] /\ h[i - 1] = g[i]
      BY <1>2
    <3> QED  BY <1>2, <3>2, <3>3
  <2> QED  BY <2>1, <2>2 DEF Stages
<1> HIDE DEF h
<1>4. AfterUpdates(vs, Apply(Head(us), doc)) = h[Len(vs)]
  BY <1>2, <1>3, StagesEnd
<1> QED  BY <1>1, <1>2, <1>4 DEF h, vs

\* What an update does to the open requests.
LEMMA ApplyRequests ==
    ASSUME NEW u \in Updates, NEW doc \in Docs
    PROVE  Apply(u, doc).requests =
               CASE u.kind = "add" -> doc.requests \cup {u.r}
                 [] u.kind = "finish" -> doc.requests \ {u.r}
                 [] u.kind = "approve" -> doc.requests
                 [] u.kind = "cancel" -> {}
<1>1. CASE u.kind = "add"
  BY <1>1 DEF Apply, Added, Docs
<1>2. CASE u.kind = "finish"
  BY <1>2 DEF Apply, Finished, Docs
<1>3. CASE u.kind = "approve"
  BY <1>3 DEF Apply, Approved, Docs
<1>4. CASE u.kind = "cancel"
  BY <1>4 DEF Apply, Canceled, Docs
<1> QED  BY <1>1, <1>2, <1>3, <1>4 DEF Updates

\* Two documents differ after the same updates only where they did before.
LEMMA AfterDiffers ==
    ASSUME NEW us \in Seq(Updates), NEW a \in Docs, NEW b \in Docs
    PROVE  /\ AfterUpdates(us, a) \in Docs
           /\ AfterUpdates(us, a).requests \ AfterUpdates(us, b).requests
                  \subseteq a.requests \ b.requests
<1>1. PICK f : Stages(f, us, a) /\ AfterUpdates(us, a) = f[Len(us)]
  BY AfterStages
<1>2. PICK g : Stages(g, us, b) /\ AfterUpdates(us, b) = g[Len(us)]
  BY AfterStages
<1> DEFINE T == {n \in Nat : n <= Len(us) =>
                    /\ f[n] \in Docs /\ g[n] \in Docs
                    /\ f[n].requests \ g[n].requests \subseteq a.requests \ b.requests}
<1>3. 0 \in T
  BY <1>1, <1>2 DEF Stages
<1>4. ASSUME NEW n \in T PROVE n + 1 \in T
  <2> SUFFICES ASSUME n + 1 <= Len(us)
               PROVE  /\ f[n + 1] \in Docs /\ g[n + 1] \in Docs
                      /\ f[n + 1].requests \ g[n + 1].requests
                             \subseteq a.requests \ b.requests
    OBVIOUS
  <2>1. /\ f[n] \in Docs /\ g[n] \in Docs
        /\ f[n].requests \ g[n].requests \subseteq a.requests \ b.requests
    OBVIOUS
  <2>2. us[n + 1] \in Updates
    OBVIOUS
  <2>3. n + 1 \in 1..Len(us) /\ (n + 1) - 1 = n
    OBVIOUS
  <2>4. f[n + 1] = Apply(us[n + 1], f[n]) /\ g[n + 1] = Apply(us[n + 1], g[n])
    BY <1>1, <1>2, <2>3 DEF Stages
  <2> DEFINE u == us[n + 1]
  <2>5. f[n + 1] \in Docs /\ g[n + 1] \in Docs
    BY <2>1, <2>2, <2>4, ApplyType
  <2>6. f[n + 1].requests \ g[n + 1].requests \subseteq f[n].requests \ g[n].requests
    <3> HIDE DEF u
    <3>1. u \in Updates /\ f[n + 1] = Apply(u, f[n]) /\ g[n + 1] = Apply(u, g[n])
      BY <2>2, <2>4 DEF u
    <3>2. u.kind \in {"add", "finish", "approve", "cancel"}
      BY <3>1 DEF Updates
    <3> QED  BY <2>1, <3>1, <3>2, ApplyRequests
  <2> QED  BY <2>1, <2>5, <2>6
<1>5. T \in SUBSET Nat
  OBVIOUS
<1> HIDE DEF T
<1>6. Len(us) \in T
  BY <1>3, <1>4, <1>5, SetInduction
<1> QED  BY <1>1, <1>2, <1>6 DEF T

\* And hold nothing that was not there or is not added.
LEMMA AfterWithin ==
    ASSUME NEW us \in Seq(Updates), NEW doc \in Docs, NEW S, doc.requests \subseteq S,
           \A i \in DOMAIN us : us[i].kind = "add" => us[i].r \in S
    PROVE  AfterUpdates(us, doc).requests \subseteq S
<1>1. PICK g : Stages(g, us, doc) /\ AfterUpdates(us, doc) = g[Len(us)]
  BY AfterStages
<1> DEFINE T == {n \in Nat : n <= Len(us) => g[n] \in Docs /\ g[n].requests \subseteq S}
<1>2. 0 \in T
  BY <1>1 DEF Stages
<1>3. ASSUME NEW n \in T PROVE n + 1 \in T
  <2> SUFFICES ASSUME n + 1 <= Len(us)
               PROVE  g[n + 1] \in Docs /\ g[n + 1].requests \subseteq S
    OBVIOUS
  <2>1. g[n] \in Docs /\ g[n].requests \subseteq S
    OBVIOUS
  <2>2. us[n + 1] \in Updates /\ n + 1 \in DOMAIN us
    OBVIOUS
  <2>3. n + 1 \in 1..Len(us) /\ (n + 1) - 1 = n
    OBVIOUS
  <2>4. g[n + 1] = Apply(us[n + 1], g[n])
    BY <1>1, <2>3 DEF Stages
  <2>5. PICK u : u = us[n + 1]
    OBVIOUS
  <2>6. u \in Updates /\ (u.kind = "add" => u.r \in S) /\ g[n + 1] = Apply(u, g[n])
    BY <2>2, <2>4, <2>5
  <2>7. u.kind \in {"add", "finish", "approve", "cancel"}
    BY <2>6 DEF Updates
  <2> QED  BY <2>1, <2>6, <2>7, ApplyRequests, ApplyType
<1>4. T \in SUBSET Nat
  OBVIOUS
<1> HIDE DEF T
<1>5. Len(us) \in T
  BY <1>2, <1>3, <1>4, SetInduction
<1> QED  BY <1>1, <1>5 DEF T

-----------------------------------------------------------------------------
(* Requests of a runtime, on the wire *)

\* What a step may do to the queue, the pipes and the lock's holder of d.
OneSent(d) ==
    \E doc \in Docs :
        /\ lockq[d] # <<>> /\ attempt'[d] = "sent" /\ asked'[d] = asked[d] + 1
        /\ outPipe'[d] = Append(outPipe[d],
               [n |-> asked[d] + 1, u |-> Head(lockq[d]),
                expected |-> local[d].version, doc |-> doc])
        /\ lockq'[d] = lockq[d] /\ inPipe'[d] = inPipe[d]

OneHandled(d) ==
    \E ack \in InLines :
        /\ ack.type = "ack" /\ ack.n = Head(outPipe[d]).n
        /\ ack.success => Taken(Head(outPipe[d]))
        /\ inPipe'[d] = Append(inPipe[d], ack)
        /\ outPipe[d] # <<>> /\ outPipe'[d] = Tail(outPipe[d])
        /\ lockq'[d] = lockq[d] /\ asked'[d] = asked[d] /\ attempt'[d] = attempt[d]

AllGone(d) ==
    /\ outPipe'[d] = <<>> /\ inPipe'[d] = <<>> /\ lockq'[d] = <<>>
    /\ attempt'[d] = "ready"

HeadDone(d) ==
    /\ attempt[d] = "sent" /\ attempt'[d] = "ready"
    /\ inPipe[d] # <<>> /\ Head(inPipe[d]).type = "ack"
    /\ Head(inPipe[d]).n = asked[d] /\ Head(inPipe[d]).success
    /\ lockq[d] # <<>> /\ lockq'[d] = Tail(lockq[d])
    /\ inPipe'[d] = Tail(inPipe[d])

Calmly(d) ==
    /\ attempt'[d] = attempt[d] \/ attempt'[d] = "ready"
    /\ lockq'[d] = lockq[d] \/ \E u \in Updates : lockq'[d] = Append(lockq[d], u)
    /\ \/ inPipe'[d] = inPipe[d]
       \/ inPipe[d] # <<>> /\ inPipe'[d] = Tail(inPipe[d])
       \/ \E line \in InLines : line.type = "answer" /\ inPipe'[d] = Append(inPipe[d], line)

WireStep(d) ==
    \/ OneSent(d)
    \/ Handle(d) /\ OneHandled(d)
    \/ AllGone(d)
    \/ /\ asked'[d] = asked[d] /\ outPipe'[d] = outPipe[d]
       /\ HeadDone(d) \/ Calmly(d)

LEMMA WireSteps ==
    ASSUME Typed, [Next]_vars, NEW d \in Procs
    PROVE  WireStep(d)
<1> USE DEF Typed
<1>q. \A c \in Procs, u \in Updates : Queue(c, u) =>
          lockq'[d] = lockq[d] \/ lockq'[d] = Append(lockq[d], u)
  BY DEF Queue, TypeOK
<1>1. CASE UNCHANGED vars
  BY <1>1 DEF vars, WireStep, Calmly
<1>2. ASSUME NEW r \in Requests, Answer(r) PROVE WireStep(d)
  <2>1. PICK c \in Procs :
            inPipe' = [inPipe EXCEPT ![c] = Append(@, [type |-> "answer", r |-> r])]
    BY <1>2 DEF Answer
  <2>2. [type |-> "answer", r |-> r] \in InLines
    BY DEF InLines
  <2>3. inPipe'[d] = inPipe[d] \/ inPipe'[d] = Append(inPipe[d], [type |-> "answer", r |-> r])
    BY <2>1 DEF TypeOK
  <2>4. \/ inPipe'[d] = inPipe[d]
        \/ \E line \in InLines : line.type = "answer" /\ inPipe'[d] = Append(inPipe[d], line)
    BY <2>2, <2>3
  <2> QED  BY <1>2, <2>4 DEF Answer, WireStep, Calmly
<1>3. ASSUME NEW c \in Procs, NEW r \in Requests, Raise(c, r) \/ AutoApprove(c, r)
      PROVE  WireStep(d)
  <2>1. Update("add", r) \in Updates
    BY UpdateType
  <2> QED  BY <1>3, <1>q, <2>1 DEF Raise, AutoApprove, WireStep, Calmly
<1>4. ASSUME NEW c \in Procs, NEW u \in replies[c], Replied(c, u) PROVE WireStep(d)
  <2>1. u \in Updates
    BY DEF TypeOK
  <2> QED  BY <1>4, <1>q, <2>1 DEF Replied, WireStep, Calmly
<1>5. ASSUME NEW c \in Procs, CancelAll(c) \/ FinishCancel(c) PROVE WireStep(d)
  <2>1. /\ UNCHANGED <<attempt, asked, outPipe, inPipe>>
        /\ Queue(c, Cancellation) \/ lockq' = lockq
    BY <1>5 DEF CancelAll, FinishCancel
  <2> QED  BY <1>q, <2>1, UpdateType DEF WireStep, Calmly
<1>6. ASSUME NEW c \in Procs, Send(c) PROVE WireStep(d)
  <2>1. CASE c # d
    BY <1>6, <2>1 DEF Send, WireStep, Calmly, TypeOK
  <2>2. CASE c = d
    <3>1. Head(lockq[d]) \in Updates /\ lockq[d] # <<>>
      BY <1>6, <2>2 DEF Send, TypeOK
    <3>2. local[d].doc \in Docs
      BY DEF TypeOK, Copies
    <3>3. Apply(Head(lockq[d]), local[d].doc) \in Docs
      BY <3>1, <3>2, ApplyType
    <3>4. OneSent(d)
      <4> DEFINE doc == Apply(Head(lockq[d]), local[d].doc)
                 line == [n |-> asked[d] + 1, u |-> Head(lockq[d]),
                          expected |-> local[d].version, doc |-> doc]
      <4>1. /\ attempt' = [attempt EXCEPT ![d] = "sent"]
            /\ asked' = [asked EXCEPT ![d] = @ + 1]
            /\ outPipe' = [outPipe EXCEPT ![d] = Append(@, line)]
            /\ lockq' = lockq /\ inPipe' = inPipe
        BY <1>6, <2>2 DEF Send
      <4> HIDE DEF doc, line
      <4>2. attempt'[d] = "sent" /\ asked'[d] = asked[d] + 1
        BY <4>1 DEF TypeOK
      <4>3. outPipe'[d] = Append(outPipe[d], line)
        BY <4>1 DEF TypeOK
      <4> QED  BY <3>1, <3>3, <4>1, <4>2, <4>3 DEF OneSent, doc, line
    <3> QED  BY <3>4 DEF WireStep
  <2> QED  BY <2>1, <2>2
<1>7. ASSUME NEW c \in Procs, Handle(c) PROVE WireStep(d)
  <2>1. CASE c # d
    BY <1>7, <2>1 DEF Handle, WireStep, Calmly, TypeOK
  <2>2. CASE c = d
    <3> DEFINE line == Head(outPipe[d])
               now == IF Taken(line) THEN Written(line) ELSE store
               ack == [type |-> "ack", n |-> line.n, success |-> Taken(line),
                       copy |-> now]
    <3>1. outPipe[d] # <<>> /\ line \in OutLines
      BY <1>7, <2>2 DEF Handle, TypeOK
    <3>2. now \in Copies
      <4>1. store \in Copies
        BY DEF TypeOK
      <4>2. Written(line) \in Copies
        BY <3>1 DEF Written, OutLines, Copies
      <4> QED  BY <4>1, <4>2
    <3>3. ack \in InLines
      <4>1. line.n \in Nat /\ Taken(line) \in BOOLEAN
        BY <3>1 DEF OutLines, Taken
      <4> HIDE DEF line, now
      <4> QED  BY <3>2, <4>1 DEF InLines
    <3>4. ack.type = "ack" /\ ack.n = line.n /\ (ack.success => Taken(line))
      OBVIOUS
    <3>5. /\ inPipe' = [inPipe EXCEPT ![d] = Append(@, ack)]
          /\ outPipe' = [outPipe EXCEPT ![d] = Tail(@)] /\ UNCHANGED updateVars
      BY <1>7, <2>2 DEF Handle
    <3> HIDE DEF ack, line
    <3>6. inPipe'[d] = Append(inPipe[d], ack) /\ outPipe'[d] = Tail(outPipe[d])
      BY <3>5 DEF TypeOK
    <3>7. OneHandled(d)
      BY <3>1, <3>3, <3>4, <3>5, <3>6 DEF OneHandled, line
    <3> QED  BY <1>7, <2>2, <3>7 DEF WireStep
  <2> QED  BY <2>1, <2>2
<1>8. ASSUME NEW c \in Procs, Read(c) PROVE WireStep(d)
  <2> DEFINE line == Head(inPipe[c])
  <2>1. /\ line \in InLines /\ outPipe' = outPipe /\ inPipe[c] # <<>>
        /\ inPipe' = [inPipe EXCEPT ![c] = Tail(@)]
    BY <1>8 DEF Read, TypeOK
  <2>2. \/ line.type = "ack" /\ TakeAck(c, line)
        \/ line.r \in Requests /\ TakeAnswer(c, line.r) /\ UNCHANGED <<attempt, asked>>
    BY <1>8, <2>1 DEF Read, InLines
  <2>3. /\ inPipe'[d] = inPipe[d] \/ (inPipe[d] # <<>> /\ inPipe'[d] = Tail(inPipe[d]))
        /\ c = d => inPipe'[d] = Tail(inPipe[d])
    BY <2>1 DEF TypeOK
  <2>4. CASE line.type = "ack" /\ TakeAck(c, line)
    <3>1. /\ asked' = asked
          /\ attempt' = attempt \/ attempt' = [attempt EXCEPT ![c] = "ready"]
      BY <2>4 DEF TakeAck
    <3>2. asked'[d] = asked[d] /\ (attempt'[d] = attempt[d] \/ attempt'[d] = "ready")
      BY <3>1 DEF TypeOK
    <3>3. CASE lockq' = lockq
      BY <2>1, <2>3, <3>2, <3>3 DEF WireStep, Calmly
    <3>4. CASE /\ attempt[c] = "sent" /\ line.n = asked[c] /\ line.success
               /\ lockq' = [lockq EXCEPT ![c] = Tail(@)] /\ lockq[c] # <<>>
      <4>1. CASE c # d
        <5>1. lockq'[d] = lockq[d]
          BY <3>4, <4>1 DEF TypeOK
        <5> QED  BY <2>1, <2>3, <3>2, <5>1 DEF WireStep, Calmly
      <4>2. CASE c = d
        <5>1. lockq'[d] = Tail(lockq[d])
          BY <3>4, <4>2 DEF TypeOK
        <5>2. attempt' = [attempt EXCEPT ![c] = "ready"]
          BY <2>4, <3>4, Zenon DEF TakeAck
        <5>3. attempt'[d] = "ready"
          BY <4>2, <5>2 DEF TypeOK
        <5>4. HeadDone(d)
          BY <2>1, <2>3, <2>4, <3>4, <4>2, <5>1, <5>3 DEF HeadDone
        <5> QED  BY <2>1, <3>2, <5>4 DEF WireStep
      <4> QED  BY <4>1, <4>2
    <3> QED  BY <2>4, <3>3, <3>4, AckTaken
  <2>5. CASE /\ line.r \in Requests /\ TakeAnswer(c, line.r)
             /\ UNCHANGED <<attempt, asked>>
    <3>1. Update("finish", line.r) \in Updates
      BY <2>5, UpdateType
    <3>2. lockq' = lockq \/ Queue(c, Update("finish", line.r))
      BY <2>5 DEF TakeAnswer
    <3>3. lockq'[d] = lockq[d] \/ \E u \in Updates : lockq'[d] = Append(lockq[d], u)
      BY <1>q, <3>1, <3>2
    <3> QED  BY <2>1, <2>3, <2>5, <3>3 DEF WireStep, Calmly
  <2> QED  BY <2>2, <2>4, <2>5
<1>9. ASSUME NEW c \in Procs, TimeOut(c) \/ Start(c) \/ Close(c) PROVE WireStep(d)
  <2>1. /\ UNCHANGED <<lockq, asked, outPipe, inPipe>>
        /\ attempt' = attempt \/ attempt' = [attempt EXCEPT ![c] = "ready"]
    BY <1>9 DEF TimeOut, Start, Close
  <2>2. attempt'[d] = attempt[d] \/ attempt'[d] = "ready"
    BY <2>1 DEF TypeOK
  <2> QED  BY <2>1, <2>2 DEF WireStep, Calmly
<1>10. ASSUME NEW c \in Procs, Exit(c) \/ Crash(c) PROVE WireStep(d)
  <2>1. Gone(c)
    BY <1>10 DEF Exit, Crash
  <2>2. CASE c = d
    <3>1. AllGone(d)
      BY <2>1, <2>2 DEF Gone, AllGone, TypeOK
    <3> QED  BY <3>1 DEF WireStep
  <2>3. CASE c # d
    BY <2>1, <2>3 DEF Gone, WireStep, Calmly, TypeOK
  <2> QED  BY <2>2, <2>3
<1> QED
  BY Steps, <1>1, <1>2, <1>3, <1>4, <1>5, <1>6, <1>7, <1>8, <1>9, <1>10

\* What is in the pipes of a runtime are attempts of its queue's head, in the
\* order of their numbers; the answers come before the lines not yet read.
Numbered(c) ==
    /\ \A i, j \in DOMAIN outPipe[c] : i < j => outPipe[c][i].n < outPipe[c][j].n
    /\ \A i \in DOMAIN outPipe[c] :
           /\ outPipe[c][i].n <= asked[c]
           /\ lockq[c] # <<>> /\ outPipe[c][i].u = Head(lockq[c])
    /\ \A i \in DOMAIN inPipe[c] : inPipe[c][i].type = "ack" =>
           /\ inPipe[c][i].n <= asked[c]
           /\ \A j \in DOMAIN outPipe[c] : inPipe[c][i].n < outPipe[c][j].n

InOrder == \A c \in Procs : Numbered(c)

LEMMA HeadIsFirst ==
    ASSUME NEW S, NEW s \in Seq(S), s # <<>>
    PROVE  Head(s) \in S /\ 1 \in DOMAIN s /\ Head(s) = s[1]
OBVIOUS

LEMMA TailIndices ==
    ASSUME NEW S, NEW s \in Seq(S), s # <<>>
    PROVE  \A i \in DOMAIN Tail(s) : i + 1 \in DOMAIN s /\ i + 1 > 1 /\ Tail(s)[i] = s[i + 1]
OBVIOUS

LEMMA AppendIndices ==
    ASSUME NEW S, NEW s \in Seq(S), NEW e \in S
    PROVE  \A i \in DOMAIN Append(s, e) :
               \/ i \in DOMAIN s /\ Append(s, e)[i] = s[i]
               \/ i = Len(s) + 1 /\ Append(s, e)[i] = e
OBVIOUS

LEMMA AppendHead ==
    ASSUME NEW S, NEW s \in Seq(S), NEW e \in S, s # <<>>
    PROVE  Append(s, e) # <<>> /\ Head(Append(s, e)) = Head(s)
OBVIOUS

LEMMA NumberedStep ==
    ASSUME Typed, [Next]_vars, NEW d \in Procs, Numbered(d)
    PROVE  Numbered(d)'
<1>1. /\ outPipe[d] \in Seq(OutLines) /\ inPipe[d] \in Seq(InLines)
      /\ lockq[d] \in Seq(Updates) /\ asked[d] \in Nat
      /\ outPipe'[d] \in Seq(OutLines) /\ inPipe'[d] \in Seq(InLines)
  BY TypedStep DEF Typed, TypeOK
<1>n. /\ \A l \in OutLines : l.n \in Nat
      /\ \A l \in InLines : l.type = "ack" => l.n \in Nat
  BY DEF OutLines, InLines
<1>2. CASE OneSent(d)
  <2>1. PICK line : /\ line.n = asked[d] + 1 /\ line.u = Head(lockq[d])
                    /\ outPipe'[d] = Append(outPipe[d], line)
    BY <1>2 DEF OneSent
  <2>2. /\ lockq[d] # <<>> /\ asked'[d] = asked[d] + 1 /\ lockq'[d] = lockq[d]
        /\ inPipe'[d] = inPipe[d]
    BY <1>2 DEF OneSent
  <2>3. \A i \in DOMAIN outPipe'[d] :
            \/ i \in DOMAIN outPipe[d] /\ outPipe'[d][i] = outPipe[d][i]
            \/ i = Len(outPipe[d]) + 1 /\ outPipe'[d][i] = line
    BY <1>1, <2>1
  <2>4. \A i \in DOMAIN outPipe[d] : i \in Nat /\ i <= Len(outPipe[d])
                                       /\ outPipe[d][i].n \in Nat
    BY <1>1, <1>n
  <2>5. \A i \in DOMAIN inPipe[d] : inPipe[d][i].type = "ack" => inPipe[d][i].n \in Nat
    BY <1>1, <1>n
  <2>6. \A i, j \in DOMAIN outPipe'[d] : i < j => outPipe'[d][i].n < outPipe'[d][j].n
    BY <1>1, <2>1, <2>3, <2>4 DEF Numbered
  <2>7. \A i \in DOMAIN outPipe'[d] :
            outPipe'[d][i].n <= asked'[d] /\ outPipe'[d][i].u = Head(lockq'[d])
    BY <1>1, <2>1, <2>2, <2>3, <2>4 DEF Numbered
  <2>8. \A i \in DOMAIN inPipe'[d] : inPipe'[d][i].type = "ack" =>
            /\ inPipe'[d][i].n <= asked'[d]
            /\ \A j \in DOMAIN outPipe'[d] : inPipe'[d][i].n < outPipe'[d][j].n
    BY <1>1, <2>1, <2>2, <2>3, <2>4, <2>5 DEF Numbered
  <2> QED  BY <2>2, <2>6, <2>7, <2>8 DEF Numbered
<1>3. CASE OneHandled(d)
  <2>1. PICK ack \in InLines :
            /\ ack.type = "ack" /\ ack.n = Head(outPipe[d]).n
            /\ inPipe'[d] = Append(inPipe[d], ack)
    BY <1>3 DEF OneHandled
  <2>2. /\ outPipe[d] # <<>> /\ outPipe'[d] = Tail(outPipe[d])
        /\ lockq'[d] = lockq[d] /\ asked'[d] = asked[d]
    BY <1>3 DEF OneHandled
  <2>3. \A i \in DOMAIN outPipe'[d] :
            i + 1 \in DOMAIN outPipe[d] /\ i + 1 > 1 /\ outPipe'[d][i] = outPipe[d][i + 1]
    BY <1>1, <2>2, TailIndices
  <2>4. 1 \in DOMAIN outPipe[d] /\ ack.n = outPipe[d][1].n
    BY <1>1, <2>1, <2>2, HeadIsFirst
  <2>5. \A i \in DOMAIN inPipe'[d] :
            \/ i \in DOMAIN inPipe[d] /\ inPipe'[d][i] = inPipe[d][i]
            \/ inPipe'[d][i] = ack
    BY <1>1, <2>1, AppendIndices
  <2>6. \A i, j \in DOMAIN outPipe'[d] : i < j => outPipe'[d][i].n < outPipe'[d][j].n
    <3>1. \A i, j \in DOMAIN outPipe'[d] : i < j => i + 1 < j + 1
      BY <1>1
    <3> QED  BY <2>3, <3>1 DEF Numbered
  <2>7. \A i \in DOMAIN outPipe'[d] :
            outPipe'[d][i].n <= asked'[d] /\ outPipe'[d][i].u = Head(lockq'[d])
    BY <2>2, <2>3 DEF Numbered
  <2>8. ASSUME NEW i \in DOMAIN inPipe'[d], inPipe'[d][i].type = "ack"
        PROVE  /\ inPipe'[d][i].n <= asked'[d]
               /\ \A j \in DOMAIN outPipe'[d] : inPipe'[d][i].n < outPipe'[d][j].n
    <3>1. CASE i \in DOMAIN inPipe[d] /\ inPipe'[d][i] = inPipe[d][i]
      BY <2>2, <2>3, <2>8, <3>1 DEF Numbered
    <3>2. CASE inPipe'[d][i] = ack
      BY <2>2, <2>3, <2>4, <3>2 DEF Numbered
    <3> QED  BY <2>5, <3>1, <3>2
  <2>9. lockq'[d] # <<>>
    BY <2>2, <2>4 DEF Numbered
  <2> QED  BY <2>6, <2>7, <2>8, <2>9 DEF Numbered
<1>4. CASE AllGone(d)
  BY <1>4 DEF AllGone, Numbered
<1>5. ASSUME asked'[d] = asked[d], outPipe'[d] = outPipe[d],
             outPipe[d] # <<>> => lockq'[d] # <<>> /\ Head(lockq'[d]) = Head(lockq[d]),
             \A i \in DOMAIN inPipe'[d] : inPipe'[d][i].type = "ack" =>
                 \E j \in DOMAIN inPipe[d] : inPipe'[d][i] = inPipe[d][j]
      PROVE  Numbered(d)'
  <2>1. (\E i \in DOMAIN outPipe[d] : TRUE) => outPipe[d] # <<>>
    OBVIOUS
  <2> QED  BY <1>5, <2>1 DEF Numbered
<1>6. CASE HeadDone(d) /\ asked'[d] = asked[d] /\ outPipe'[d] = outPipe[d]
  <2>1. /\ inPipe[d] # <<>> /\ Head(inPipe[d]).type = "ack"
        /\ Head(inPipe[d]).n = asked[d] /\ inPipe'[d] = Tail(inPipe[d])
    BY <1>6 DEF HeadDone
  <2>2. 1 \in DOMAIN inPipe[d] /\ Head(inPipe[d]) = inPipe[d][1]
    BY <1>1, <2>1, HeadIsFirst
  <2>3. ASSUME outPipe[d] # <<>> PROVE FALSE
    <3>1. 1 \in DOMAIN outPipe[d] /\ outPipe[d][1].n \in Nat
      BY <1>1, <1>n, <2>3, HeadIsFirst
    <3> QED  BY <1>1, <2>1, <2>2, <3>1 DEF Numbered
  <2>4. \A i \in DOMAIN inPipe'[d] :
            \E j \in DOMAIN inPipe[d] : inPipe'[d][i] = inPipe[d][j]
    BY <1>1, <2>1, TailElements
  <2> QED  BY <1>5, <1>6, <2>3, <2>4
<1>7. CASE Calmly(d) /\ asked'[d] = asked[d] /\ outPipe'[d] = outPipe[d]
  <2>1. ASSUME outPipe[d] # <<>>
        PROVE  lockq'[d] # <<>> /\ Head(lockq'[d]) = Head(lockq[d])
    <3>1. 1 \in DOMAIN outPipe[d]
      BY <1>1, <2>1, HeadIsFirst
    <3>2. lockq[d] # <<>>
      BY <3>1 DEF Numbered
    <3>3. lockq'[d] = lockq[d] \/ \E u \in Updates : lockq'[d] = Append(lockq[d], u)
      BY <1>7 DEF Calmly
    <3> QED  BY <1>1, <3>2, <3>3, AppendHead
  <2>2. ASSUME NEW i \in DOMAIN inPipe'[d], inPipe'[d][i].type = "ack"
        PROVE  \E j \in DOMAIN inPipe[d] : inPipe'[d][i] = inPipe[d][j]
    <3>1. CASE inPipe'[d] = inPipe[d]
      BY <2>2, <3>1
    <3>2. CASE inPipe[d] # <<>> /\ inPipe'[d] = Tail(inPipe[d])
      BY <1>1, <2>2, <3>2, TailElements
    <3>3. ASSUME NEW line \in InLines, line.type = "answer",
                 inPipe'[d] = Append(inPipe[d], line)
          PROVE  \E j \in DOMAIN inPipe[d] : inPipe'[d][i] = inPipe[d][j]
      BY <1>1, <2>2, <3>3, AppendElements
    <3> QED  BY <1>7, <3>1, <3>2, <3>3 DEF Calmly
  <2> QED  BY <1>5, <1>7, <2>1, <2>2
<1> QED  BY <1>2, <1>3, <1>4, <1>6, <1>7, WireSteps DEF WireStep

-----------------------------------------------------------------------------
(* Requests of a runtime, in the document *)

\* A runtime adds and finishes only requests it raised itself.
ByOwner(c, u) == u.kind \in {"add", "finish"} => raisedBy[u.r] = c

Owned == \A c \in Procs : \A u \in Held(c) : ByOwner(c, u)

\* Nothing is open that nobody raised.
Known == \A r \in store.doc.requests : raisedBy[r] # 0

\* Who raised a request raised it for good.
LEMMA RaisedStays ==
    ASSUME Typed, [Next]_vars, NEW r \in Requests, raisedBy[r] # 0
    PROVE  raisedBy'[r] = raisedBy[r]
<1>1. ASSUME NEW c \in Procs, NEW q \in Requests, Raise(c, q) \/ AutoApprove(c, q)
      PROVE  raisedBy'[r] = raisedBy[r]
  BY <1>1 DEF Raise, AutoApprove, Typed, TypeOK
<1>2. ASSUME NEW c \in Procs, Read(c) PROVE raisedBy' = raisedBy
  BY <1>2 DEF Read, TakeAnswer
<1>3. ASSUME \/ UNCHANGED vars
             \/ \E q \in Requests : Answer(q)
             \/ \E c \in Procs :
                   \/ \E u \in replies[c] : Replied(c, u)
                   \/ CancelAll(c) \/ FinishCancel(c)
                   \/ Send(c) \/ Handle(c) \/ TimeOut(c)
                   \/ Start(c) \/ Close(c) \/ Exit(c) \/ Crash(c)
      PROVE  raisedBy' = raisedBy
  BY <1>3 DEF vars, Answer, Replied, CancelAll, FinishCancel, Send, Handle, TimeOut,
     Start, Close, Exit, Crash, Gone
<1> QED  BY Steps, <1>1, <1>2, <1>3

LEMMA NoProcIsZero == \A c \in Procs : c # 0
BY BoundsAssumption DEF Procs

LEMMA OwnedStep ==
    ASSUME Typed, HandlerTold, Owned, [Next]_vars
    PROVE  Owned'
<1> SUFFICES ASSUME NEW d \in Procs, NEW u \in Held(d)' PROVE ByOwner(d, u)'
  BY DEF Owned
<1>1. u \in Held(d) \/ Begun(d, u)
  BY HeldStep
<1>2. CASE u \in Held(d)
  <2>1. u \in Updates /\ ByOwner(d, u)
    BY <1>2, HeldType DEF Owned, Typed
  <2>2. u.kind \in {"add", "finish"} => u.r \in Requests /\ raisedBy[u.r] # 0
    BY <2>1, NoProcIsZero DEF Updates, ByOwner
  <2> QED  BY <2>1, <2>2, RaisedStays DEF ByOwner
<1>3. CASE u = Cancellation
  BY <1>3 DEF Cancellation, ByOwner
<1>4. ASSUME NEW r \in Requests, Raise(d, r), u = Update("add", r)
      PROVE  ByOwner(d, u)'
  BY <1>4 DEF Raise, Update, ByOwner, Typed, TypeOK
<1>5. ASSUME NEW r \in Requests, u = Update("approve", r) PROVE ByOwner(d, u)'
  BY <1>5 DEF Update, ByOwner
<1>6. ASSUME NEW r \in Requests, r \in pending[d], u = Update("finish", r)
      PROVE  ByOwner(d, u)'
  <2>1. raisedBy[r] = d
    BY <1>6 DEF HandlerTold
  <2>2. raisedBy'[r] = d
    BY <2>1, NoProcIsZero, RaisedStays
  <2> QED  BY <1>6, <2>2 DEF Update, ByOwner
<1> QED  BY <1>1, <1>2, <1>3, <1>4, <1>5, <1>6 DEF Begun

\* What a taken update of runtime c does to the open requests, seen by owner.
LEMMA OpenStep ==
    ASSUME Typed, CopiesAreVersioned, Owned, Known, [Next]_vars
    PROVE  \/ store' = store /\ wiped' = wiped
           \/ \E c \in Procs : \E u \in Updates :
                 /\ Handle(c) /\ Taken(Head(outPipe[c])) /\ u = Head(outPipe[c]).u
                 /\ store.doc \in Docs /\ store'.doc = Apply(u, store.doc)
                 /\ store'.doc \in Docs /\ wiped \subseteq wiped'
                 /\ \A r \in store'.doc.requests \ store.doc.requests :
                        raisedBy[r] = c
                 /\ \A r \in store.doc.requests \ store'.doc.requests :
                        raisedBy[r] = c \/ r \in wiped'
<1>1. ASSUME NEW c \in Procs, NEW u \in Held(c) \cap Updates,
             Handle(c), Taken(Head(outPipe[c])), u = Head(outPipe[c]).u,
             store'.doc = Apply(u, store.doc),
             wiped' = IF u.kind = "cancel"
                      THEN wiped \cup {r \in store.doc.requests : raisedBy[r] # c}
                      ELSE wiped
      PROVE  /\ store.doc \in Docs /\ store'.doc \in Docs /\ wiped \subseteq wiped'
             /\ \A r \in store'.doc.requests \ store.doc.requests : raisedBy[r] = c
             /\ \A r \in store.doc.requests \ store'.doc.requests :
                    raisedBy[r] = c \/ r \in wiped'
  <2>1. store.doc \in Docs /\ u \in Updates /\ ByOwner(c, u)
    BY DEF Typed, TypeOK, Copies, Owned
  <2>2. store'.doc \in Docs
    BY <1>1, <2>1, ApplyType
  <2>3. wiped \subseteq wiped'
    BY <1>1
  <2>4. CASE u.kind = "add"
    BY <1>1, <2>1, <2>2, <2>3, <2>4, ApplyRequests DEF ByOwner
  <2>5. CASE u.kind = "finish"
    BY <1>1, <2>1, <2>2, <2>3, <2>5, ApplyRequests DEF ByOwner
  <2>6. CASE u.kind = "approve"
    BY <1>1, <2>1, <2>2, <2>3, <2>6, ApplyRequests
  <2>7. CASE u.kind = "cancel"
    BY <1>1, <2>1, <2>2, <2>3, <2>7, ApplyRequests
  <2> QED  BY <2>1, <2>4, <2>5, <2>6, <2>7 DEF Updates
<1> QED  BY <1>1, StoreStep

LEMMA KnownStep ==
    ASSUME Typed, CopiesAreVersioned, Owned, Known, [Next]_vars
    PROVE  Known'
<1> SUFFICES ASSUME NEW r \in store'.doc.requests PROVE raisedBy'[r] # 0
  BY DEF Known
<1>1. r \in Requests /\ store.doc.requests \subseteq Requests
  BY TypedStep DEF Typed, TypeOK, Copies, Docs
<1>2. raisedBy[r] # 0
  <2>1. CASE store' = store
    BY <2>1 DEF Known
  <2>2. CASE \E c \in Procs : \A q \in store'.doc.requests \ store.doc.requests :
                                  raisedBy[q] = c
    BY <2>2, NoProcIsZero DEF Known
  <2> QED  BY <2>1, <2>2, OpenStep
<1> QED  BY <1>1, <1>2, RaisedStays

\* What the holder's update is to do is done, but for what a cancelAll of
\* another runtime completed since.
InEffect(c, u) ==
    /\ u.kind = "add" => u.r \in store.doc.requests \cup wiped
    /\ u.kind = "finish" => u.r \notin store.doc.requests
    /\ u.kind = "cancel" => \A r \in store.doc.requests : raisedBy[r] # c

\* A success that the holder awaits is of an update that is in effect.
Effective(c) ==
    attempt[c] = "sent" =>
        \A i \in DOMAIN inPipe[c] :
            (/\ inPipe[c][i].type = "ack" /\ inPipe[c][i].n = asked[c]
             /\ inPipe[c][i].success)
                => InEffect(c, Head(lockq[c]))

\* Only its own runtime undoes what an update did.
LEMMA EffectStays ==
    ASSUME Typed, CopiesAreVersioned, Owned, Known, [Next]_vars,
           NEW d \in Procs, NEW u \in Updates, ByOwner(d, u), InEffect(d, u),
           ~ (Handle(d) /\ Taken(Head(outPipe[d])))
    PROVE  InEffect(d, u)'
<1>1. \A r \in store.doc.requests \cap Requests : raisedBy'[r] = raisedBy[r]
  BY RaisedStays DEF Known
<1>2. store.doc.requests \subseteq Requests
  BY DEF Typed, TypeOK, Copies, Docs
<1>3. CASE store' = store /\ wiped' = wiped
  BY <1>1, <1>2, <1>3 DEF InEffect
<1>4. ASSUME NEW c \in Procs, Handle(c), Taken(Head(outPipe[c])),
             wiped \subseteq wiped',
             \A r \in store'.doc.requests \ store.doc.requests : raisedBy[r] = c,
             \A r \in store.doc.requests \ store'.doc.requests :
                 raisedBy[r] = c \/ r \in wiped'
      PROVE  InEffect(d, u)'
  <2>1. c # d /\ raisedBy' = raisedBy
    BY <1>4 DEF Handle
  <2> QED  BY <1>4, <2>1 DEF InEffect, ByOwner
<1> QED  BY <1>3, <1>4, OpenStep

LEMMA EffectiveStep ==
    ASSUME Typed, CopiesAreVersioned, Owned, Known, InOrder, [Next]_vars,
           NEW d \in Procs, Effective(d)
    PROVE  Effective(d)'
<1>1. /\ outPipe[d] \in Seq(OutLines) /\ inPipe[d] \in Seq(InLines)
      /\ lockq[d] \in Seq(Updates) /\ asked[d] \in Nat
  BY DEF Typed, TypeOK
<1>2. Numbered(d)
  BY DEF InOrder
<1>3. \A i \in DOMAIN inPipe[d] : inPipe[d][i].type = "ack" => inPipe[d][i].n \in Nat
  BY <1>1 DEF InLines
<1>4. CASE OneSent(d)
  <2>1. inPipe'[d] = inPipe[d] /\ asked'[d] = asked[d] + 1
    BY <1>4 DEF OneSent
  <2>2. \A i \in DOMAIN inPipe'[d] : inPipe'[d][i].type = "ack" =>
            inPipe'[d][i].n # asked'[d]
    BY <1>1, <1>2, <1>3, <2>1 DEF Numbered
  <2> QED  BY <2>2 DEF Effective
<1>5. CASE AllGone(d)
  BY <1>5 DEF AllGone, Effective
<1>6. CASE HeadDone(d)
  BY <1>6 DEF HeadDone, Effective
<1>7. CASE Handle(d)
  <2> DEFINE line == Head(outPipe[d])
  <2>1. /\ outPipe[d] # <<>> /\ UNCHANGED updateVars
        /\ inPipe' = [inPipe EXCEPT ![d] =
              Append(@, [type |-> "ack", n |-> line.n, success |-> Taken(line),
                         copy |-> IF Taken(line) THEN Written(line) ELSE store])]
    BY <1>7 DEF Handle
  <2>2. 1 \in DOMAIN outPipe[d] /\ line = outPipe[d][1] /\ line \in OutLines
    BY <1>1, <2>1, HeadIsFirst
  <2>3. \A i \in DOMAIN inPipe[d] : inPipe[d][i].type = "ack" =>
            inPipe[d][i].n < line.n /\ line.n <= asked[d]
    BY <1>2, <2>2 DEF Numbered
  <2>4. line.u = Head(lockq[d]) /\ line.n \in Nat /\ line.u \in Updates
    BY <1>2, <2>2 DEF Numbered, OutLines
  <2>5. ASSUME NEW i \in DOMAIN inPipe'[d], inPipe'[d][i].type = "ack",
               inPipe'[d][i].n = asked'[d], inPipe'[d][i].success
        PROVE  Taken(line)
    <3>1. PICK ack : /\ inPipe'[d] = Append(inPipe[d], ack)
                     /\ ack.success => Taken(line)
      BY <2>1 DEF Typed, TypeOK
    <3>2. \/ inPipe'[d] \in Seq(InLines) /\ inPipe'[d][i].n # asked'[d]
          \/ inPipe'[d][i] = ack
      <4>1. CASE i \in DOMAIN inPipe[d]
        <5>1. inPipe'[d][i] = inPipe[d][i]
          BY <1>1, <3>1, <4>1
        <5>2. inPipe[d][i].n < line.n /\ line.n <= asked[d]
          BY <2>3, <2>5, <4>1, <5>1
        <5> QED  BY <1>1, <1>3, <2>1, <2>4, <2>5, <4>1, <5>1, <5>2
      <4>2. CASE i \notin DOMAIN inPipe[d]
        BY <1>1, <3>1, <4>2
      <4> QED  BY <4>1, <4>2
    <3> QED  BY <2>5, <3>1, <3>2
  <2>6. PICK u : u = line.u
    OBVIOUS
  <2>7. ASSUME Taken(line) PROVE InEffect(d, u)'
    <3>1. BaseIsStore(line) /\ store.doc \in Docs
      BY <2>2 DEF CopiesAreVersioned, Typed, TypeOK, Copies
    <3>2. store' = Written(line)
      BY <1>7, <2>7 DEF Handle
    <3>3. store'.doc = Apply(u, store.doc)
      BY <2>6, <2>7, <3>1, <3>2 DEF BaseIsStore, Taken, Written
    <3>4. u \in Updates /\ u.kind \in {"add", "finish", "approve", "cancel"}
      BY <2>4, <2>6 DEF Updates
    <3> QED  BY <3>1, <3>3, <3>4, ApplyRequests DEF InEffect
  <2>8. Head(lockq'[d]) = u
    BY <2>1, <2>4, <2>6
  <2> HIDE DEF line
  <2>9. Taken(line) => InEffect(d, Head(lockq[d]))'
    BY <2>7, <2>8 DEF InEffect
  <2> QED  BY <2>5, <2>9 DEF Effective
<1>8. CASE ~Handle(d) /\ Calmly(d) /\ asked'[d] = asked[d]
  <2> SUFFICES ASSUME attempt'[d] = "sent", NEW i \in DOMAIN inPipe'[d],
                      inPipe'[d][i].type = "ack", inPipe'[d][i].n = asked'[d],
                      inPipe'[d][i].success
               PROVE  InEffect(d, Head(lockq[d]))'
    BY DEF Effective
  <2>1. attempt[d] = "sent" /\ lockq[d] # <<>>
    BY <1>8 DEF Calmly, Typed, HolderQueued
  <2>2. Head(lockq[d]) \in Updates /\ Head(lockq[d]) \in Held(d)
    <3>1. Head(lockq[d]) \in Updates /\ 1 \in DOMAIN lockq[d]
            /\ Head(lockq[d]) = lockq[d][1]
      BY <1>1, <2>1, HeadIsFirst
    <3> QED  BY <3>1 DEF Held
  <2>3. Head(lockq'[d]) = Head(lockq[d])
    <3>1. lockq'[d] = lockq[d] \/ \E u \in Updates : lockq'[d] = Append(lockq[d], u)
      BY <1>8 DEF Calmly
    <3> QED  BY <1>1, <2>1, <3>1, AppendHead
  <2>4. \E j \in DOMAIN inPipe[d] : inPipe'[d][i] = inPipe[d][j]
    <3>1. CASE inPipe'[d] = inPipe[d]
      BY <3>1
    <3>2. CASE inPipe[d] # <<>> /\ inPipe'[d] = Tail(inPipe[d])
      BY <1>1, <3>2, TailElements
    <3>3. ASSUME NEW l \in InLines, l.type = "answer", inPipe'[d] = Append(inPipe[d], l)
          PROVE  \E j \in DOMAIN inPipe[d] : inPipe'[d][i] = inPipe[d][j]
      BY <1>1, <3>3, AppendElements
    <3> QED  BY <1>8, <3>1, <3>2, <3>3 DEF Calmly
  <2>5. InEffect(d, Head(lockq[d]))
    BY <1>8, <2>1, <2>4 DEF Effective
  <2>6. ByOwner(d, Head(lockq[d]))
    BY <2>2 DEF Owned
  <2>7. PICK u : u = Head(lockq[d])
    OBVIOUS
  <2>8. InEffect(d, u)'
    BY <1>8, <2>2, <2>5, <2>6, <2>7, EffectStays
  <2> QED  BY <2>3, <2>7, <2>8 DEF InEffect
<1> QED  BY <1>4, <1>5, <1>6, <1>7, <1>8, WireSteps DEF WireStep

\* An awaited reply completes a request, which is no longer pending.
Replying ==
    \A c \in Procs : \A u \in replies[c] :
        u.kind \in {"finish", "approve"} /\ (u.kind = "finish" => u.r \notin pending[c])

LEMMA ReplyingStep ==
    ASSUME Typed, Owned, Replying, [Next]_vars
    PROVE  Replying'
<1> USE DEF Typed
<1> SUFFICES ASSUME NEW d \in Procs, NEW u \in replies'[d]
             PROVE  /\ u.kind \in {"finish", "approve"}
                    /\ u.kind = "finish" => u.r \notin pending'[d]
  BY DEF Replying
<1> DEFINE Goal == /\ u.kind \in {"finish", "approve"}
                   /\ u.kind = "finish" => u.r \notin pending'[d]
<1>b. ASSUME u \in replies[d], pending'[d] \subseteq pending[d] PROVE Goal
  BY <1>b DEF Replying
<1>1. ASSUME NEW c \in Procs, NEW r \in Requests, Raise(c, r) PROVE Goal
  <2>1. /\ replies' = replies /\ raisedBy[r] = 0
        /\ pending' = [pending EXCEPT ![c] = @ \cup {r}]
    BY <1>1 DEF Raise
  <2>2. u.kind = "finish" => raisedBy[u.r] = d
    BY <2>1 DEF Owned, Held, ByOwner
  <2>3. pending'[d] \subseteq pending[d] \cup {r}
    BY <2>1 DEF TypeOK
  <2> QED  BY <2>1, <2>2, <2>3, NoProcIsZero DEF Replying
<1>2. ASSUME NEW c \in Procs, NEW r \in Requests, AutoApprove(c, r) PROVE Goal
  <2>1. /\ replies' = [replies EXCEPT ![c] = @ \cup {Update("approve", r)}]
        /\ pending' = pending
    BY <1>2 DEF AutoApprove
  <2>2. u \in replies[d] \/ u = Update("approve", r)
    BY <2>1 DEF TypeOK
  <2>3. CASE u = Update("approve", r)
    BY <2>3 DEF Update
  <2> QED  BY <1>b, <2>1, <2>2, <2>3
<1>3. ASSUME NEW c \in Procs, NEW r \in Requests, TakeAnswer(c, r) PROVE Goal
  <2>1. CASE r \notin pending[c]
    <3>1. UNCHANGED <<replies, pending>>
      BY <1>3, <2>1 DEF TakeAnswer
    <3> QED  BY <1>b, <3>1
  <2>2. CASE r \in pending[c]
    <3>1. /\ pending' = [pending EXCEPT ![c] = @ \ {r}]
          /\ \/ replies' = replies
             \/ replies' = [replies EXCEPT ![c] = @ \cup {Update("finish", r)}]
      BY <1>3, <2>2 DEF TakeAnswer
    <3>2. u \in replies[d] \/ (c = d /\ u = Update("finish", r))
      <4>1. CASE replies' = replies
        BY <4>1
      <4>2. CASE replies' = [replies EXCEPT ![c] = @ \cup {Update("finish", r)}]
        BY <4>2 DEF TypeOK
      <4> QED  BY <3>1, <4>1, <4>2
    <3>3. pending'[d] \subseteq pending[d] /\ (c = d => r \notin pending'[d])
      BY <3>1 DEF TypeOK
    <3>4. CASE c = d /\ u = Update("finish", r)
      BY <3>3, <3>4 DEF Update
    <3> QED  BY <1>b, <3>2, <3>3, <3>4
  <2> QED  BY <2>1, <2>2
<1>4. ASSUME NEW c \in Procs, CancelAll(c) \/ FinishCancel(c) PROVE Goal
  <2>1. replies' = replies /\ (pending' = pending \/ pending' = [pending EXCEPT ![c] = {}])
    BY <1>4 DEF CancelAll, FinishCancel
  <2>2. pending'[d] \subseteq pending[d]
    BY <2>1 DEF TypeOK
  <2> QED  BY <1>b, <2>1, <2>2
<1>5. ASSUME NEW c \in Procs, NEW v \in replies[c], Replied(c, v) PROVE Goal
  <2>1. replies' = [replies EXCEPT ![c] = @ \ {v}] /\ pending' = pending
    BY <1>5 DEF Replied
  <2>2. u \in replies[d]
    BY <2>1 DEF TypeOK
  <2> QED  BY <1>b, <2>1, <2>2
<1>6. ASSUME NEW c \in Procs, Exit(c) \/ Crash(c) PROVE Goal
  <2>1. /\ replies' = [replies EXCEPT ![c] = {}]
        /\ pending' = [pending EXCEPT ![c] = {}]
    BY <1>6 DEF Exit, Crash, Gone
  <2>2. u \in replies[d] /\ pending'[d] \subseteq pending[d]
    BY <2>1 DEF TypeOK
  <2> QED  BY <1>b, <2>2
<1>7. ASSUME UNCHANGED <<replies, pending>> PROVE Goal
  BY <1>7, <1>b
<1>8. ASSUME NEW c \in Procs, Read(c) PROVE Goal
  <2>1. \/ UNCHANGED handlerVars
        \/ Head(inPipe[c]).r \in Requests /\ TakeAnswer(c, Head(inPipe[c]).r)
    <3>1. Head(inPipe[c]) \in InLines
      BY <1>8 DEF Read, TypeOK
    <3> QED  BY <1>8, <3>1 DEF Read, InLines
  <2> HIDE DEF Goal
  <2> QED  BY <1>3, <1>7, <2>1
<1>9. ASSUME \/ UNCHANGED vars
             \/ \E r \in Requests : Answer(r)
             \/ \E c \in Procs : \/ Send(c) \/ Handle(c) \/ TimeOut(c)
                                 \/ Start(c) \/ Close(c)
      PROVE  Goal
  <2>1. UNCHANGED <<replies, pending>>
    BY <1>9 DEF vars, Answer, Send, Handle, TimeOut, Start, Close
  <2> QED  BY <1>7, <2>1
<1> HIDE DEF Goal
<1>10. Goal
  BY Steps, <1>1, <1>2, <1>4, <1>5, <1>6, <1>8, <1>9
<1> QED  BY <1>10 DEF Goal

\* What is open once runtime d has sent what it queued.
Open(d) == AfterUpdates(lockq[d], store.doc).requests

\* Of these, d's own are pending or answered; what is pending is among them.
Shown(d) ==
    life[d] # "gone" =>
        /\ \A r \in Open(d) : raisedBy[r] = d =>
               r \in pending[d] \/ Update("finish", r) \in replies[d]
        /\ \A r \in pending[d] : r \in Open(d) \/ r \in wiped

\* An update that joins the queue changes what will be open, by its kind.
LEMMA OpenAppend ==
    ASSUME TypeOK, NEW d \in Procs, NEW u \in Updates, store' = store,
           lockq'[d] = Append(lockq[d], u)
    PROVE  Open(d)' = CASE u.kind = "add" -> Open(d) \cup {u.r}
                        [] u.kind = "finish" -> Open(d) \ {u.r}
                        [] u.kind = "approve" -> Open(d)
                        [] u.kind = "cancel" -> {}
<1>1. lockq[d] \in Seq(Updates) /\ store.doc \in Docs
  BY DEF TypeOK, Copies
<1>2. AfterUpdates(lockq[d], store.doc) \in Docs
  BY <1>1, AfterDiffers
<1>3. AfterUpdates(Append(lockq[d], u), store.doc)
          = Apply(u, AfterUpdates(lockq[d], store.doc))
  BY <1>1, AfterAppend
<1> QED  BY <1>2, <1>3, ApplyRequests DEF Open

\* Nobody else's update opens or closes a request of d, but by a cancelAll; and
\* what d's own head did already is not done twice.
LEMMA OpenHandled ==
    ASSUME Typed, CopiesAreVersioned, Owned, Known, InOrder, [Next]_vars,
           NEW c \in Procs, Handle(c), NEW d \in Procs
    PROVE  /\ \A r \in Open(d)' : raisedBy[r] = d => r \in Open(d)
           /\ \A r \in Open(d) : raisedBy[r] = d => r \in Open(d)' \/ r \in wiped'
<1>1. lockq' = lockq /\ lockq[d] \in Seq(Updates) /\ outPipe[d] \in Seq(OutLines)
  BY DEF Handle, Typed, TypeOK
<1>2. CASE store' = store
  BY <1>1, <1>2 DEF Open
<1>3. ASSUME NEW e \in Procs, NEW u \in Updates, Handle(e), u = Head(outPipe[e]).u,
             store.doc \in Docs, store'.doc = Apply(u, store.doc), store'.doc \in Docs,
             \A r \in store'.doc.requests \ store.doc.requests : raisedBy[r] = e,
             \A r \in store.doc.requests \ store'.doc.requests :
                 raisedBy[r] = e \/ r \in wiped'
      PROVE  /\ \A r \in Open(d)' : raisedBy[r] = d => r \in Open(d)
             /\ \A r \in Open(d) : raisedBy[r] = d => r \in Open(d)' \/ r \in wiped'
  <2>1. CASE e # d
    <3>1. PICK a : a = store'.doc
      OBVIOUS
    <3>2. /\ Open(d) = AfterUpdates(lockq[d], store.doc).requests
          /\ Open(d)' = AfterUpdates(lockq[d], a).requests
      BY <1>1, <3>1 DEF Open
    <3>3. /\ Open(d)' \ Open(d) \subseteq a.requests \ store.doc.requests
          /\ Open(d) \ Open(d)' \subseteq store.doc.requests \ a.requests
      BY <1>1, <1>3, <3>1, <3>2, AfterDiffers
    <3> QED  BY <1>3, <2>1, <3>1, <3>3
  <2>2. CASE e = d
    <3>1. outPipe[d] # <<>> /\ 1 \in DOMAIN outPipe[d]
            /\ Head(outPipe[d]) = outPipe[d][1]
      <4>1. outPipe[d] # <<>>
        BY <1>3, <2>2 DEF Handle
      <4> QED  BY <1>1, <4>1, HeadIsFirst
    <3>2. lockq[d] # <<>> /\ u = Head(lockq[d])
      BY <1>3, <2>2, <3>1 DEF InOrder, Numbered
    <3> DEFINE us == Tail(lockq[d])
    <3>3. us \in Seq(Updates)
      BY <1>1, <3>2
    <3>4. \A doc : AfterUpdates(lockq[d], doc) = AfterUpdates(us, Apply(u, doc))
      BY <1>1, <3>2, AfterHead
    <3> HIDE DEF us
    <3>5. PICK a : a = store'.doc
      OBVIOUS
    <3>6. PICK b : b = Apply(u, a)
      OBVIOUS
    <3>7. a \in Docs /\ a = Apply(u, store.doc)
      BY <1>3, <3>5
    <3>8. b \in Docs /\ b.requests = a.requests
      <4>1. u.kind \in {"add", "finish", "approve", "cancel"}
        BY DEF Updates
      <4>2. b \in Docs
        BY <3>6, <3>7, ApplyType
      <4>3. b.requests = CASE u.kind = "add" -> a.requests \cup {u.r}
                           [] u.kind = "finish" -> a.requests \ {u.r}
                           [] u.kind = "approve" -> a.requests
                           [] u.kind = "cancel" -> {}
        BY <3>6, <3>7, ApplyRequests
      <4>4. store.doc \in Docs
        BY <1>3
      <4>5. a.requests = CASE u.kind = "add" -> store.doc.requests \cup {u.r}
                           [] u.kind = "finish" -> store.doc.requests \ {u.r}
                           [] u.kind = "approve" -> store.doc.requests
                           [] u.kind = "cancel" -> {}
        BY <3>7, <4>4, ApplyRequests
      <4>6. CASE u.kind = "add"
        BY <4>2, <4>3, <4>5, <4>6
      <4>7. CASE u.kind = "finish"
        BY <4>2, <4>3, <4>5, <4>7
      <4>8. CASE u.kind = "approve"
        BY <4>2, <4>3, <4>5, <4>8
      <4>9. CASE u.kind = "cancel"
        BY <4>2, <4>3, <4>5, <4>9
      <4> QED  BY <4>1, <4>6, <4>7, <4>8, <4>9
    <3>9. /\ AfterUpdates(us, a).requests \ AfterUpdates(us, b).requests = {}
          /\ AfterUpdates(us, b).requests \ AfterUpdates(us, a).requests = {}
      BY <3>3, <3>7, <3>8, AfterDiffers
    <3>10. Open(d) = AfterUpdates(us, a).requests
      BY <3>4, <3>7 DEF Open
    <3>11. Open(d)' = AfterUpdates(us, b).requests
      BY <1>1, <3>4, <3>5, <3>6 DEF Open
    <3> QED  BY <3>9, <3>10, <3>11
  <2> QED  BY <2>1, <2>2
<1> QED  BY <1>2, <1>3, OpenStep

\* An acked head can go: what it did is in the document.
LEMMA OpenDone ==
    ASSUME Typed, Owned, InOrder, NEW d \in Procs, Effective(d), HeadDone(d),
           store' = store
    PROVE  /\ \A r \in Open(d)' : raisedBy[r] = d => r \in Open(d)
           /\ \A r \in Open(d) : raisedBy[r] = d => r \in Open(d)' \/ r \in wiped
<1>1. /\ lockq[d] \in Seq(Updates) /\ inPipe[d] \in Seq(InLines)
      /\ lockq[d] # <<>> /\ inPipe[d] # <<>> /\ store.doc \in Docs
  BY DEF HeadDone, Typed, TypeOK, Copies
<1>2. PICK u : u = Head(lockq[d])
  OBVIOUS
<1>3. u \in Updates /\ ByOwner(d, u)
  BY <1>1, <1>2, HeadIsFirst DEF Owned, Held
<1>4. InEffect(d, u)
  BY <1>1, <1>2, HeadIsFirst DEF HeadDone, Effective
<1> DEFINE us == Tail(lockq[d])
<1>5. us \in Seq(Updates)
  BY <1>1
<1>6. Open(d) = AfterUpdates(us, Apply(u, store.doc)).requests
  BY <1>1, <1>2, AfterHead DEF Open
<1>7. Open(d)' = AfterUpdates(us, store.doc).requests
  BY DEF HeadDone, Open
<1> HIDE DEF us
<1>8. PICK a : a = Apply(u, store.doc)
  OBVIOUS
<1>9. a \in Docs
  BY <1>1, <1>3, <1>8, ApplyType
<1>10. /\ Open(d)' \ Open(d) \subseteq store.doc.requests \ a.requests
       /\ Open(d) \ Open(d)' \subseteq a.requests \ store.doc.requests
  BY <1>1, <1>5, <1>6, <1>7, <1>8, <1>9, AfterDiffers
<1>11. u.kind \in {"add", "finish", "approve", "cancel"}
  BY <1>3 DEF Updates
<1>12. /\ \A r \in store.doc.requests \ a.requests : raisedBy[r] # d
       /\ \A r \in a.requests \ store.doc.requests : r \in wiped
  BY <1>1, <1>3, <1>4, <1>8, <1>11, ApplyRequests DEF InEffect
<1> QED  BY <1>10, <1>12

\* What another runtime does, and what changes neither d's handler nor what
\* will be open of its requests.
LEMMA ShownKept ==
    ASSUME Typed, HandlerTold, NEW d \in Procs, Shown(d), life'[d] # "gone" => life[d] # "gone",
           pending'[d] = pending[d], replies'[d] = replies[d], wiped \subseteq wiped',
           \A r \in Open(d)' : raisedBy'[r] = d => r \in Open(d) /\ raisedBy[r] = d,
           \A r \in Open(d) : raisedBy[r] = d => r \in Open(d)' \/ r \in wiped'
    PROVE  Shown(d)'
<1> SUFFICES ASSUME life'[d] # "gone"
             PROVE  /\ \A r \in Open(d)' : raisedBy'[r] = d =>
                           r \in pending'[d] \/ Update("finish", r) \in replies'[d]
                    /\ \A r \in pending'[d] : r \in Open(d)' \/ r \in wiped'
  BY DEF Shown, Update
<1>1. \A r \in Open(d)' : raisedBy'[r] = d =>
          r \in pending'[d] \/ Update("finish", r) \in replies'[d]
  BY DEF Shown
<1>2. \A r \in pending'[d] : r \in Open(d)' \/ r \in wiped'
  BY DEF Shown, HandlerTold
<1> QED  BY <1>1, <1>2

\* What of d's requests will be open, after d's queue got an update or none.
LEMMA OpenSame ==
    ASSUME NEW d \in Procs, store' = store, lockq'[d] = lockq[d]
    PROVE  Open(d)' = Open(d)
BY DEF Open

LEMMA OpenQueue ==
    ASSUME TypeOK, NEW d \in Procs, NEW u \in Updates, store' = store, Queue(d, u)
    PROVE  /\ u.kind = "add" => Open(d)' = Open(d) \cup {u.r}
           /\ u.kind = "finish" => Open(d)' = Open(d) \ {u.r}
           /\ u.kind = "approve" => Open(d)' = Open(d)
           /\ u.kind = "cancel" => Open(d)' = {}
<1>1. lockq'[d] = Append(lockq[d], u)
  BY DEF Queue, TypeOK
<1>2. Open(d)' = CASE u.kind = "add" -> Open(d) \cup {u.r}
                   [] u.kind = "finish" -> Open(d) \ {u.r}
                   [] u.kind = "approve" -> Open(d)
                   [] u.kind = "cancel" -> {}
  BY <1>1, OpenAppend
<1>3. CASE u.kind = "add"
  BY <1>2, <1>3
<1>4. CASE u.kind = "finish"
  BY <1>2, <1>4
<1>5. CASE u.kind = "approve"
  BY <1>2, <1>5
<1>6. CASE u.kind = "cancel"
  BY <1>2, <1>6
<1> QED  BY <1>3, <1>4, <1>5, <1>6 DEF Updates

\* Nothing that will be open is not raised.
LEMMA OpenRaised ==
    ASSUME Typed, Owned, Known, NEW d \in Procs, NEW r \in Open(d)
    PROVE  r \in Requests /\ raisedBy[r] # 0
<1>1. lockq[d] \in Seq(Updates) /\ store.doc \in Docs
  BY DEF Typed, TypeOK, Copies
<1> DEFINE S == {q \in Requests : raisedBy[q] # 0}
<1>2. store.doc.requests \subseteq S
  BY <1>1 DEF Known, Docs
<1>3. ASSUME NEW i \in DOMAIN lockq[d], lockq[d][i].kind = "add"
      PROVE  lockq[d][i].r \in S
  <2>1. lockq[d][i] \in Updates /\ ByOwner(d, lockq[d][i])
    BY <1>1 DEF Owned, Held
  <2> QED  BY <1>3, <2>1, NoProcIsZero DEF ByOwner, Updates
<1> HIDE DEF S
<1>4. Open(d) \subseteq S
  BY <1>1, <1>2, <1>3, AfterWithin DEF Open
<1> QED  BY <1>4 DEF S

LEMMA ShownStep ==
    ASSUME Typed, CopiesAreVersioned, HandlerTold, Owned, Known, InOrder, Replying,
           [Next]_vars, NEW d \in Procs, Effective(d), Shown(d)
    PROVE  Shown(d)'
<1> USE DEF Typed
<1>s. ASSUME UNCHANGED <<store, wiped, raisedBy>>, lockq'[d] = lockq[d],
             pending'[d] = pending[d], replies'[d] = replies[d],
             life'[d] # "gone" => life[d] # "gone"
      PROVE  Shown(d)'
  <2>1. Open(d)' = Open(d)
    BY <1>s, OpenSame
  <2> QED  BY <1>s, <2>1, ShownKept
<1>0. ASSUME life'[d] = "gone" PROVE Shown(d)'
  BY <1>0 DEF Shown
<1>1. CASE UNCHANGED vars
  BY <1>1, <1>s DEF vars
<1>2. ASSUME NEW r \in Requests, Answer(r) PROVE Shown(d)'
  BY <1>2, <1>s DEF Answer
<1>3. ASSUME NEW c \in Procs, Send(c) \/ TimeOut(c) PROVE Shown(d)'
  BY <1>3, <1>s DEF Send, TimeOut
<1>4. ASSUME NEW c \in Procs, Start(c) \/ Close(c) PROVE Shown(d)'
  <2>1. life'[d] # "gone" => life[d] # "gone"
    BY <1>4 DEF Start, Close, TypeOK
  <2> QED  BY <1>4, <1>s, <2>1 DEF Start, Close
<1>5. ASSUME NEW c \in Procs, Exit(c) \/ Crash(c) PROVE Shown(d)'
  <2>1. Gone(c)
    BY <1>5 DEF Exit, Crash
  <2>2. CASE c = d
    <3>1. life'[d] = "gone"
      BY <2>1, <2>2 DEF Gone, TypeOK
    <3> QED  BY <1>0, <3>1
  <2>3. CASE c # d
    <3>1. /\ lockq'[d] = lockq[d] /\ pending'[d] = pending[d]
          /\ replies'[d] = replies[d] /\ life'[d] = life[d]
      BY <2>1, <2>3 DEF Gone, TypeOK
    <3> QED  BY <1>s, <2>1, <3>1 DEF Gone
  <2> QED  BY <2>2, <2>3
<1>6. ASSUME NEW c \in Procs, Handle(c) PROVE Shown(d)'
  <2>1. wiped \subseteq wiped' /\ UNCHANGED <<life, pending, replies, raisedBy>>
    BY <1>6 DEF Handle
  <2>2. /\ \A r \in Open(d)' : raisedBy[r] = d => r \in Open(d)
        /\ \A r \in Open(d) : raisedBy[r] = d => r \in Open(d)' \/ r \in wiped'
    BY <1>6, OpenHandled
  <2> QED  BY <2>1, <2>2, ShownKept
<1>7. ASSUME NEW c \in Procs, NEW r \in Requests, Raise(c, r) PROVE Shown(d)'
  <2>1. /\ raisedBy[r] = 0 /\ raisedBy' = [raisedBy EXCEPT ![r] = c]
        /\ pending' = [pending EXCEPT ![c] = @ \cup {r}]
        /\ Queue(c, Update("add", r)) /\ UNCHANGED <<store, wiped, life, replies>>
    BY <1>7 DEF Raise
  <2>2. CASE c # d
    <3>1. lockq'[d] = lockq[d] /\ pending'[d] = pending[d]
      BY <2>1, <2>2 DEF Queue, TypeOK
    <3>2. Open(d)' = Open(d)
      BY <2>1, <3>1, OpenSame
    <3>3. \A q \in Requests : raisedBy'[q] = d => raisedBy[q] = d
      BY <2>1, <2>2 DEF TypeOK
    <3>4. \A q \in Open(d) : q \in Requests
      BY OpenRaised
    <3> QED  BY <2>1, <3>1, <3>2, <3>3, <3>4, ShownKept
  <2>3. CASE c = d
    <3>1. Update("add", r) \in Updates /\ Update("add", r).kind = "add"
            /\ Update("add", r).r = r
      BY DEF Update, Updates
    <3>2. Open(d)' = Open(d) \cup {r}
      BY <2>1, <2>3, <3>1, OpenQueue
    <3>3. pending'[d] = pending[d] \cup {r}
      BY <2>1, <2>3 DEF TypeOK
    <3>4. \A q \in Open(d) : q \in Requests
      BY OpenRaised
    <3>5. \A q \in Requests : q # r => raisedBy'[q] = raisedBy[q]
      BY <2>1 DEF TypeOK
    <3>6. \A q \in Open(d)' : raisedBy'[q] = d =>
              q \in pending'[d] \/ Update("finish", q) \in replies'[d]
              \/ life'[d] = "gone"
      BY <2>1, <3>2, <3>3, <3>4, <3>5 DEF Shown
    <3>7. \A q \in pending'[d] : q \in Open(d)' \/ q \in wiped' \/ life'[d] = "gone"
      BY <2>1, <3>2, <3>3 DEF Shown
    <3> QED  BY <3>6, <3>7 DEF Shown, Update
  <2> QED  BY <2>2, <2>3
<1>8. ASSUME NEW c \in Procs, NEW r \in Requests, AutoApprove(c, r) PROVE Shown(d)'
  <2>1. /\ raisedBy[r] = 0 /\ raisedBy' = [raisedBy EXCEPT ![r] = c]
        /\ replies' = [replies EXCEPT ![c] = @ \cup {Update("approve", r)}]
        /\ UNCHANGED <<store, wiped, life, lockq, pending>>
    BY <1>8 DEF AutoApprove
  <2>2. Open(d)' = Open(d)
    BY <2>1, OpenSame
  <2>3. \A q \in Open(d) : q \in Requests /\ q # r
    BY <2>1, OpenRaised
  <2>4. \A q \in Requests : q # r => raisedBy'[q] = raisedBy[q]
    BY <2>1 DEF TypeOK
  <2>5. \A q : Update("finish", q) \in replies[d] => Update("finish", q) \in replies'[d]
    BY <2>1 DEF TypeOK
  <2>6. \A q \in Open(d)' : raisedBy'[q] = d =>
            q \in pending'[d] \/ Update("finish", q) \in replies'[d] \/ life'[d] = "gone"
    BY <2>1, <2>2, <2>3, <2>4, <2>5 DEF Shown
  <2>7. \A q \in pending'[d] : q \in Open(d)' \/ q \in wiped' \/ life'[d] = "gone"
    BY <2>1, <2>2 DEF Shown
  <2> QED  BY <2>6, <2>7 DEF Shown, Update
<1>9. ASSUME NEW c \in Procs, NEW u \in replies[c], Replied(c, u) PROVE Shown(d)'
  <2>1. /\ replies' = [replies EXCEPT ![c] = @ \ {u}] /\ Queue(c, u)
        /\ UNCHANGED <<store, wiped, life, raisedBy, pending>>
    BY <1>9 DEF Replied
  <2>2. CASE c # d
    <3>1. lockq'[d] = lockq[d] /\ replies'[d] = replies[d]
      BY <2>1, <2>2 DEF Queue, TypeOK
    <3> QED  BY <1>s, <2>1, <3>1
  <2>3. CASE c = d
    <3>1. u \in Updates /\ u.kind \in {"finish", "approve"}
            /\ (u.kind = "finish" => u.r \notin pending[d])
      BY <2>3 DEF Replying, TypeOK
    <3>2. /\ u.kind = "finish" => Open(d)' = Open(d) \ {u.r}
          /\ u.kind = "approve" => Open(d)' = Open(d)
      BY <2>1, <2>3, <3>1, OpenQueue
    <3>3. replies'[d] = replies[d] \ {u}
      BY <2>1, <2>3 DEF TypeOK
    <3>4. \A q : Update("finish", q) \in replies[d] =>
              \/ Update("finish", q) \in replies'[d]
              \/ u.kind = "finish" /\ u.r = q
      BY <3>3 DEF Update
    <3>5. \A q \in Open(d)' : raisedBy'[q] = d =>
              q \in pending'[d] \/ Update("finish", q) \in replies'[d]
              \/ life'[d] = "gone"
      BY <2>1, <3>1, <3>2, <3>4 DEF Shown
    <3>6. \A q \in pending'[d] : q \in Open(d)' \/ q \in wiped' \/ life'[d] = "gone"
      BY <2>1, <3>1, <3>2 DEF Shown
    <3> QED  BY <3>5, <3>6 DEF Shown, Update
  <2> QED  BY <2>2, <2>3
<1>10. ASSUME NEW c \in Procs, CancelAll(c) \/ FinishCancel(c) PROVE Shown(d)'
  <2>1. /\ UNCHANGED <<store, wiped, life, raisedBy, replies>>
        /\ \/ pending' = pending /\ lockq' = lockq
           \/ pending' = [pending EXCEPT ![c] = {}] /\ Queue(c, Cancellation)
    BY <1>10 DEF CancelAll, FinishCancel
  <2>2. CASE pending' = pending /\ lockq' = lockq
    BY <1>s, <2>1, <2>2
  <2>3. CASE pending' = [pending EXCEPT ![c] = {}] /\ Queue(c, Cancellation)
    <3>1. CASE c # d
      <4>1. lockq'[d] = lockq[d] /\ pending'[d] = pending[d]
        BY <2>3, <3>1 DEF Queue, TypeOK
      <4> QED  BY <1>s, <2>1, <4>1
    <3>2. CASE c = d
      <4>1. Cancellation \in Updates /\ Cancellation.kind = "cancel"
        BY DEF Cancellation, Updates
      <4>2. Open(d)' = {}
        BY <2>1, <2>3, <3>2, <4>1, OpenQueue
      <4>3. pending'[d] = {}
        BY <2>3, <3>2 DEF TypeOK
      <4> QED  BY <4>2, <4>3 DEF Shown
    <3> QED  BY <3>1, <3>2
  <2> QED  BY <2>1, <2>2, <2>3
<1>11. ASSUME NEW c \in Procs, NEW r \in Requests, TakeAnswer(c, r),
              UNCHANGED <<store, wiped, life>>
       PROVE  Shown(d)'
  <2>1. CASE r \notin pending[c]
    <3>1. UNCHANGED <<lockq, pending, replies, raisedBy>>
      BY <1>11, <2>1 DEF TakeAnswer
    <3> QED  BY <1>s, <1>11, <3>1
  <2>2. CASE r \in pending[c] /\ c # d
    <3>1. /\ raisedBy' = raisedBy /\ pending' = [pending EXCEPT ![c] = @ \ {r}]
          /\ \/ lockq' = lockq
             \/ Queue(c, Update("finish", r))
          /\ \/ replies' = replies
             \/ replies' = [replies EXCEPT ![c] = @ \cup {Update("finish", r)}]
      BY <1>11, <2>2 DEF TakeAnswer
    <3>2. pending'[d] = pending[d]
      BY <2>2, <3>1 DEF TypeOK
    <3>3. lockq'[d] = lockq[d]
      BY <2>2, <3>1 DEF TypeOK, Queue
    <3>4. replies'[d] = replies[d]
      BY <2>2, <3>1 DEF TypeOK
    <3> QED  BY <1>s, <1>11, <3>1, <3>2, <3>3, <3>4
  <2>3. CASE r \in pending[c] /\ c = d /\ r \in backend[c]
    <3>1. /\ pending' = [pending EXCEPT ![d] = @ \ {r}]
          /\ replies' = [replies EXCEPT ![d] = @ \cup {Update("finish", r)}]
          /\ UNCHANGED <<lockq, raisedBy>>
      BY <1>11, <2>3 DEF TakeAnswer
    <3>2. Open(d)' = Open(d)
      BY <1>11, <3>1, OpenSame
    <3>3. pending'[d] = pending[d] \ {r}
            /\ replies'[d] = replies[d] \cup {Update("finish", r)}
      BY <3>1 DEF TypeOK
    <3>4. \A q \in Open(d)' : raisedBy'[q] = d =>
              q \in pending'[d] \/ Update("finish", q) \in replies'[d]
              \/ life'[d] = "gone"
      BY <1>11, <3>1, <3>2, <3>3 DEF Shown
    <3>5. \A q \in pending'[d] : q \in Open(d)' \/ q \in wiped' \/ life'[d] = "gone"
      BY <1>11, <3>2, <3>3 DEF Shown
    <3> QED  BY <3>4, <3>5 DEF Shown, Update
  <2>4. CASE r \in pending[c] /\ c = d /\ r \notin backend[c]
    <3>1. /\ pending' = [pending EXCEPT ![d] = @ \ {r}]
          /\ Queue(d, Update("finish", r)) /\ UNCHANGED <<replies, raisedBy>>
      BY <1>11, <2>4 DEF TakeAnswer
    <3>2. Update("finish", r) \in Updates /\ Update("finish", r).kind = "finish"
            /\ Update("finish", r).r = r
      BY DEF Update, Updates
    <3>3. Open(d)' = Open(d) \ {r}
      BY <1>11, <3>1, <3>2, OpenQueue
    <3>4. pending'[d] = pending[d] \ {r}
      BY <3>1 DEF TypeOK
    <3>5. \A q \in Open(d)' : raisedBy'[q] = d =>
              q \in pending'[d] \/ Update("finish", q) \in replies'[d]
              \/ life'[d] = "gone"
      BY <1>11, <3>1, <3>3, <3>4 DEF Shown
    <3>6. \A q \in pending'[d] : q \in Open(d)' \/ q \in wiped' \/ life'[d] = "gone"
      BY <1>11, <3>3, <3>4 DEF Shown
    <3> QED  BY <3>5, <3>6 DEF Shown, Update
  <2> QED  BY <2>1, <2>2, <2>3, <2>4
<1>12. ASSUME NEW c \in Procs, Read(c) PROVE Shown(d)'
  <2> DEFINE line == Head(inPipe[c])
  <2>1. line \in InLines /\ UNCHANGED <<store, wiped, life>>
    BY <1>12 DEF Read, TypeOK
  <2>2. \/ TakeAck(c, line) /\ UNCHANGED handlerVars
        \/ line.r \in Requests /\ TakeAnswer(c, line.r)
    BY <1>12, <2>1 DEF Read, InLines
  <2>3. CASE TakeAck(c, line) /\ UNCHANGED handlerVars
    <3>1. HeadDone(d) \/ lockq'[d] = lockq[d]
      <4>1. WireStep(d)
        BY WireSteps
      <4>2. CASE lockq' = lockq
        BY <4>2
      <4>3. CASE /\ attempt[c] = "sent" /\ line.n = asked[c] /\ line.success
                 /\ lockq' = [lockq EXCEPT ![c] = Tail(@)] /\ lockq[c] # <<>>
        <5>1. CASE c # d
          BY <4>3, <5>1 DEF TypeOK
        <5>2. CASE c = d
          <6>1. CASE line.type = "ack"
            <7>1. attempt' = [attempt EXCEPT ![c] = "ready"]
              BY <2>3, <4>3, Zenon DEF TakeAck
            <7>2. attempt'[d] = "ready" /\ lockq'[d] = Tail(lockq[d])
              BY <4>3, <5>2, <7>1 DEF TypeOK
            <7>3. inPipe[d] # <<>> /\ inPipe'[d] = Tail(inPipe[d])
              BY <1>12, <5>2 DEF Read, TypeOK
            <7> QED  BY <4>3, <5>2, <6>1, <7>2, <7>3 DEF HeadDone
          <6>2. CASE line.type # "ack"
            <7>1. UNCHANGED <<attempt, asked, local>>
              BY <1>12, <6>2 DEF Read
            <7>2. attempt' = [attempt EXCEPT ![c] = "ready"]
              BY <2>3, <4>3, Zenon DEF TakeAck
            <7> QED  BY <4>3, <7>1, <7>2 DEF TypeOK
          <6> QED  BY <6>1, <6>2
        <5> QED  BY <5>1, <5>2
      <4> QED  BY <2>3, <4>2, <4>3, AckTaken
    <3>2. CASE lockq'[d] = lockq[d]
      BY <1>s, <2>1, <2>3, <3>2
    <3>3. CASE HeadDone(d)
      <4>1. /\ \A r \in Open(d)' : raisedBy[r] = d => r \in Open(d)
            /\ \A r \in Open(d) : raisedBy[r] = d => r \in Open(d)' \/ r \in wiped
        BY <2>1, <3>3, OpenDone
      <4> QED  BY <2>1, <2>3, <4>1, ShownKept
    <3> QED  BY <3>1, <3>2, <3>3
  <2> HIDE DEF line
  <2> QED  BY <1>11, <2>1, <2>2, <2>3
<1> QED
  BY Steps, <1>1, <1>2, <1>3, <1>4, <1>5, <1>6, <1>7, <1>8, <1>9, <1>10, <1>12

\* What the user is shown of a runtime's requests is what its handler can take
\* an answer to, once its queue is empty, however its retries and the late acks
\* race; and what is pending is shown, but for what the cancelAll of another
\* runtime completed.
THEOREM ShownCanBeAnswered == Spec => []ShownIsPending
<1> DEFINE Inv == /\ Typed /\ CopiesAreVersioned /\ HandlerTold /\ Owned /\ Known
                  /\ InOrder /\ Replying
                  /\ \A d \in Procs : Effective(d) /\ Shown(d)
<1>1. Init => Inv
  <2> SUFFICES ASSUME Init PROVE Inv
    OBVIOUS
  <2>1. CopiesAreVersioned
    BY InitType DEF Init, CopiesAreVersioned, CopyIsStore, TypeOK, Copies
  <2>2. HandlerTold /\ Replying
    BY DEF Init, HandlerTold, Replying
  <2>3. Owned /\ InOrder
    BY DEF Init, Owned, Held, InOrder, Numbered
  <2>4. Known
    BY DEF Init, NoDoc, Known
  <2>5. ASSUME NEW d \in Procs PROVE Effective(d) /\ Shown(d)
    <3>1. lockq[d] = <<>> /\ store.doc.requests = {} /\ pending[d] = {}
            /\ attempt[d] = "ready"
      BY DEF Init, NoDoc
    <3>2. Open(d) = {}
      BY <3>1, AfterNothing DEF Open
    <3> QED  BY <3>1, <3>2 DEF Effective, Shown
  <2> QED  BY <2>1, <2>2, <2>3, <2>4, <2>5, InitTyped
<1>2. Inv /\ [Next]_vars => Inv'
  <2> SUFFICES ASSUME Inv, [Next]_vars PROVE Inv'
    OBVIOUS
  <2>1. Typed' /\ CopiesAreVersioned' /\ HandlerTold' /\ Owned' /\ Known' /\ Replying'
    BY TypedStep, CopiesStep, HandlerToldStep, OwnedStep, KnownStep, ReplyingStep
  <2>2. InOrder'
    BY NumberedStep DEF InOrder
  <2>3. \A d \in Procs : Effective(d)' /\ Shown(d)'
    BY EffectiveStep, ShownStep
  <2> QED  BY <2>1, <2>2, <2>3
<1>3. Inv => ShownIsPending
  <2> SUFFICES ASSUME Inv, NEW c \in Procs, Alive(c)
               PROVE  LET shown == {r \in Open(c) : raisedBy[r] = c}
                          answered == {r \in Requests :
                                           Update("finish", r) \in replies[c]}
                      IN  /\ shown \subseteq pending[c] \cup answered
                          /\ pending[c] \ wiped \subseteq shown
    BY DEF ShownIsPending, Open
  <2>1. life[c] # "gone" /\ \A r \in Open(c) : r \in Requests
    BY OpenRaised DEF Alive
  <2> QED  BY <2>1 DEF Shown, HandlerTold
<1> HIDE DEF Inv
<1> QED  BY <1>1, <1>2, <1>3, PTL DEF Spec
=============================================================================
