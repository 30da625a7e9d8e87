----------------------- MODULE MessageDelivery_proofs -----------------------
(***************************************************************************)
(* Proofs about MessageDelivery, for any messages, any number of runtime   *)
(* processes and any bounds: its types, that a runtime runs the messages   *)
(* in the order of the log, that its loop does not sleep on a queue with   *)
(* messages, and that it is not idle without its timer; that what is       *)
(* queued is in the log or about to be canceled, and that a message the    *)
(* log shows as waiting is held by a runtime or was lost with one.         *)
(***************************************************************************)
EXTENDS MessageDelivery, FiniteSetTheorems, TLAPS

\* The variables an action leaves alone, spelled out.
USE DEF hubVars, logVars, opVars, loopVars, loopRest

-----------------------------------------------------------------------------
(* Types *)

\* A row that is in the log has a seq.
RowsNumbered == \A m \in Messages : row[m] # "absent" => rowSeq[m] \in Seqs

Typed == TypeOK /\ RowsNumbered

\* The types, by the part of the system they belong to.
HubTyped ==
    /\ {active, thinking, stopping} \subseteq BOOLEAN
    /\ row \in [Messages -> {"absent", "queued", "invoked"}]
    /\ rowSeq \in [Messages -> Nat]
    /\ lastSeq \in Nat
    /\ RowsNumbered
    /\ op \in [Ops -> {"idle", "held", "resuming", "done"}]
    /\ asQueued \in [Ops -> BOOLEAN]
    /\ budget \in 0..MaxEvents
    /\ lost \subseteq Messages

PipesTyped ==
    /\ tracked \subseteq Procs
    /\ inPipe \in [Procs -> Seq(InLines)]
    /\ outPipe \in [Procs -> Seq(OutLines)]

LoopTyped ==
    /\ pc \in [Procs -> {"unborn", "gone"} \cup LoopStates]
    /\ queue \in [Procs -> Seq(Items)]
    /\ lastSeen \in [Procs -> Nat]
    /\ aborts \in [Procs -> Nat]
    /\ {waiter, aborted, shouldExit, stopInFlight} \subseteq [Procs -> BOOLEAN]
    /\ {busy, armed, timer} \subseteq [Procs -> BOOLEAN]
    /\ taken \in [Procs -> Seq(Seqs)]

LEMMA TypedParts == Typed <=> HubTyped /\ PipesTyped /\ LoopTyped
BY DEF Typed, TypeOK, HubTyped, PipesTyped, LoopTyped

\* What is written on one pipe, and what is sent down to the target.
LEMMA SaysType ==
    ASSUME outPipe \in [Procs -> Seq(OutLines)], NEW p \in Procs,
           NEW lines \in Seq(OutLines), Says(p, lines)
    PROVE  outPipe' \in [Procs -> Seq(OutLines)]
BY DEF Says

LEMMA SentType ==
    ASSUME NEW pipes \in [Procs -> Seq(InLines)], NEW line \in InLines
    PROVE  Sent(pipes, line) \in [Procs -> Seq(InLines)]
BY DEF Sent

LEMMA TailType ==
    ASSUME NEW S, NEW f \in [Procs -> Seq(S)], NEW p \in Procs, f[p] # <<>>
    PROVE  [f EXCEPT ![p] = Tail(@)] \in [Procs -> Seq(S)]
<1>1. Tail(f[p]) \in Seq(S)
  OBVIOUS
<1> QED  BY <1>1

\* A line of the runtime is one the Hub knows.
LEMMA LineType == \A t \in {"started", "stopping", "end"} : Line(t) \in OutLines
BY DEF Line, OutLines

LEMMA AliveLineType ==
    /\ AliveLine(TRUE) \in OutLines /\ AliveLine(FALSE) \in OutLines
    /\ \A p \in Procs : busy \in [Procs -> BOOLEAN] => AliveLine(busy[p]) \in OutLines
BY DEF AliveLine, OutLines

LEMMA IdsLineType ==
    ASSUME NEW type \in {"consumed", "canceled"}, NEW ms \in SUBSET Messages
    PROVE  IdsLine(type, ms) \in OutLines
BY DEF IdsLine, OutLines

\* Lines make sequences of lines.
LEMMA LinesType ==
    ASSUME NEW a \in OutLines, NEW b \in OutLines
    PROVE  <<a>> \in Seq(OutLines) /\ <<a, b>> \in Seq(OutLines)
OBVIOUS

LEMMA AllLinesType ==
    ASSUME NEW s \in Seq(OutLines), NEW a \in OutLines, NEW b \in OutLines
    PROVE  /\ s \o <<>> \o <<b>> \in Seq(OutLines)
           /\ s \o <<a>> \o <<b>> \in Seq(OutLines)
OBVIOUS

\* And a line of the Hub is one the runtime knows.
LEMMA CancelLineType ==
    ASSUME NEW ms \in SUBSET Messages
    PROVE  CancelLine(ms) \in InLines
BY DEF CancelLine, InLines

LEMMA MessageLineType ==
    ASSUME NEW m \in Messages, NEW s \in Seqs
    PROVE  MessageLine(m, s) \in InLines
BY DEF MessageLine, InLines, Items

LEMMA InitTyped == Init => Typed
<1> SUFFICES ASSUME Init PROVE Typed
  OBVIOUS
<1> USE DEF Init
<1>1. HubTyped
  <2>1. budget \in 0..MaxEvents
    BY BoundsAssumption
  <2>2. RowsNumbered
    BY DEF RowsNumbered
  <2>3. /\ row \in [Messages -> {"absent", "queued", "invoked"}]
        /\ rowSeq \in [Messages -> Nat]
        /\ op \in [Ops -> {"idle", "held", "resuming", "done"}]
        /\ asQueued \in [Ops -> BOOLEAN]
    OBVIOUS
  <2>4. {active, thinking, stopping} \subseteq BOOLEAN /\ lastSeq \in Nat /\ lost = {}
    OBVIOUS
  <2> QED  BY <2>1, <2>2, <2>3, <2>4 DEF HubTyped
<1>2. PipesTyped
  BY DEF PipesTyped
<1>3. LoopTyped
  <2>1. waiter \in [Procs -> BOOLEAN]
    OBVIOUS
  <2>2. aborted = waiter /\ shouldExit = waiter /\ stopInFlight = waiter /\ busy = waiter
          /\ armed = waiter /\ timer = waiter
    OBVIOUS
  <2> QED  BY <2>1, <2>2 DEF LoopTyped, LoopStates
<1> QED  BY <1>1, <1>2, <1>3, TypedParts

\* addMessage keeps the log numbered, and sends a message line.
LEMMA AppendTyped ==
    ASSUME HubTyped, PipesTyped, NEW o \in Ops, NEW queued \in BOOLEAN,
           AppendMessage(o, queued), UNCHANGED <<active, thinking, tracked, outPipe>>,
           budget' \in 0..MaxEvents
    PROVE  HubTyped' /\ PipesTyped'
<1> DEFINE m == o[1]
           seq == IF row[m] = "absent" THEN lastSeq + 1 ELSE rowSeq[m]
<1>1. m \in Messages
  BY DEF Ops
<1>2. seq \in Seqs
  BY <1>1 DEF HubTyped, RowsNumbered, Seqs
<1>3. /\ row' = [row EXCEPT ![m] = IF row[m] # "absent" THEN @
                                   ELSE IF queued THEN "queued" ELSE "invoked"]
      /\ rowSeq' = [rowSeq EXCEPT ![m] = seq]
      /\ lastSeq' = IF row[m] = "absent" THEN seq ELSE lastSeq
      /\ inPipe' = Sent(inPipe, MessageLine(m, seq))
      /\ lost' = IF Target = {} THEN lost \cup {m} ELSE lost
      /\ stopping' = FALSE
  BY DEF AppendMessage
<1>4. /\ op' = [op EXCEPT ![o] = "done"]
      /\ asQueued' = [asQueued EXCEPT ![o] = FALSE]
  BY DEF AppendMessage, Answered
<1> HIDE DEF m, seq
<1>5. inPipe' \in [Procs -> Seq(InLines)]
  <2>1. MessageLine(m, seq) \in InLines
    BY <1>1, <1>2, MessageLineType
  <2> QED  BY <1>3, <2>1, SentType DEF PipesTyped
<1>6. row' \in [Messages -> {"absent", "queued", "invoked"}]
  BY <1>1, <1>3 DEF HubTyped
<1>7. rowSeq' \in [Messages -> Nat] /\ lastSeq' \in Nat
  BY <1>1, <1>2, <1>3 DEF HubTyped, Seqs
<1>8. RowsNumbered'
  BY <1>1, <1>2, <1>3 DEF HubTyped, RowsNumbered, Seqs
<1>9. op' \in [Ops -> {"idle", "held", "resuming", "done"}]
        /\ asQueued' \in [Ops -> BOOLEAN]
  BY <1>4 DEF HubTyped
<1>10. lost' \subseteq Messages /\ {active', thinking', stopping'} \subseteq BOOLEAN
  BY <1>1, <1>3 DEF HubTyped
<1>11. HubTyped'
  BY <1>6, <1>7, <1>8, <1>9, <1>10 DEF HubTyped
<1>12. PipesTyped'
  BY <1>5 DEF PipesTyped
<1> QED  BY <1>11, <1>12

LEMMA WaitsTyped ==
    ASSUME HubTyped, PipesTyped, NEW o \in Ops, NEW queued \in BOOLEAN,
           NEW where \in {"held", "resuming"}, Waits(o, where, queued),
           UNCHANGED <<active, thinking, tracked, outPipe>>, budget' \in 0..MaxEvents
    PROVE  HubTyped' /\ PipesTyped'
<1>1. /\ op' = [op EXCEPT ![o] = where] /\ asQueued' = [asQueued EXCEPT ![o] = queued]
      /\ UNCHANGED <<stopping, row, rowSeq, lastSeq, inPipe, lost>>
  BY DEF Waits
<1>2. op' \in [Ops -> {"idle", "held", "resuming", "done"}]
        /\ asQueued' \in [Ops -> BOOLEAN]
  BY <1>1 DEF HubTyped
<1>3. HubTyped'
  BY <1>1, <1>2 DEF HubTyped, RowsNumbered
<1> QED  BY <1>1, <1>3 DEF PipesTyped

\* The posts of the user.
LEMMA SendTyped ==
    ASSUME HubTyped, PipesTyped, LoopTyped, NEW o \in Ops,
           Send(o) \/ Released(o) \/ GivesUp(o) \/ Resumed(o)
    PROVE  HubTyped' /\ PipesTyped' /\ LoopTyped'
<1>1. LoopTyped'
  BY DEF Send, Released, GivesUp, Resumed, LoopTyped
<1>2. UNCHANGED <<active, thinking, tracked, outPipe>> /\ budget' \in 0..MaxEvents
  <2>1. UNCHANGED <<active, thinking, tracked, outPipe>>
    BY DEF Send, Released, GivesUp, Resumed
  <2>2. budget' = budget \/ Spends
    BY DEF Send, Released, GivesUp, Resumed
  <2> QED  BY <2>1, <2>2, BoundsAssumption DEF HubTyped, Spends
<1>3. asQueued[o] \in BOOLEAN
  BY DEF HubTyped
<1>4. CASE Send(o)
  <2> DEFINE queued == ~(o[1] \in Passive) /\ active /\ thinking
  <2>1. queued \in BOOLEAN
    OBVIOUS
  <2>2. AppendMessage(o, queued) \/ Waits(o, "held", queued) \/ Waits(o, "resuming", queued)
    BY <1>4 DEF Send
  <2> HIDE DEF queued
  <2>3. HubTyped' /\ PipesTyped'
    BY <1>2, <2>1, <2>2, AppendTyped, WaitsTyped
  <2> QED  BY <1>1, <2>3
<1>5. CASE Released(o)
  <2>1. AppendMessage(o, asQueued[o]) \/ Waits(o, "resuming", asQueued[o])
    BY <1>5 DEF Released
  <2>2. HubTyped' /\ PipesTyped'
    BY <1>2, <1>3, <2>1, AppendTyped, WaitsTyped
  <2> QED  BY <1>1, <2>2
<1>6. CASE GivesUp(o)
  <2>1. op' = [op EXCEPT ![o] = "done"] /\ asQueued' = [asQueued EXCEPT ![o] = FALSE]
    BY <1>6 DEF GivesUp, Answered
  <2>2. op' \in [Ops -> {"idle", "held", "resuming", "done"}]
          /\ asQueued' \in [Ops -> BOOLEAN]
    BY <2>1 DEF HubTyped
  <2>3. HubTyped' /\ PipesTyped'
    BY <1>2, <1>6, <2>2 DEF GivesUp, HubTyped, RowsNumbered, PipesTyped
  <2> QED  BY <1>1, <2>3
<1>7. CASE Resumed(o)
  <2>1. AppendMessage(o, asQueued[o])
    BY <1>7 DEF Resumed
  <2>2. HubTyped' /\ PipesTyped'
    BY <1>2, <1>3, <2>1, AppendTyped
  <2> QED  BY <1>1, <2>2
<1> QED  BY <1>4, <1>5, <1>6, <1>7

\* A row that is taken back or invoked is still in a log that is numbered.
LEMMA RowsTyped ==
    ASSUME HubTyped, NEW ms \in SUBSET Messages, NEW to \in {"absent", "invoked"},
           row' = [m \in Messages |-> IF m \in ms /\ row[m] = "queued" THEN to ELSE row[m]],
           UNCHANGED <<rowSeq, lastSeq, op, asQueued, budget, lost>>,
           {active', thinking', stopping'} \subseteq BOOLEAN
    PROVE  HubTyped'
<1>1. row' \in [Messages -> {"absent", "queued", "invoked"}]
  BY DEF HubTyped
<1>2. RowsNumbered'
  BY DEF HubTyped, RowsNumbered
<1> QED  BY <1>1, <1>2 DEF HubTyped

\* cancelQueuedMessages and the line that tells the runtime.
LEMMA CancelRowsTyped ==
    ASSUME HubTyped, NEW ms \in SUBSET Messages,
           NEW pipes \in [Procs -> Seq(InLines)], CancelRows(ms, pipes),
           UNCHANGED <<rowSeq, lastSeq, op, asQueued, budget, lost, active, thinking,
                       stopping>>
    PROVE  HubTyped' /\ inPipe' \in [Procs -> Seq(InLines)]
<1> DEFINE canceled == {m \in ms : row[m] = "queued"}
<1>1. row' = [m \in Messages |->
                 IF m \in ms /\ row[m] = "queued" THEN "absent" ELSE row[m]]
  BY DEF CancelRows
<1>2. HubTyped'
  <2>1. {active', thinking', stopping'} \subseteq BOOLEAN
    BY DEF HubTyped
  <2>2. "absent" \in {"absent", "invoked"}
    OBVIOUS
  <2> QED  BY <1>1, <2>1, <2>2, RowsTyped
<1>3. inPipe' = pipes \/ inPipe' = Sent(pipes, CancelLine(canceled))
  BY DEF CancelRows
<1>4. CancelLine(canceled) \in InLines
  <2>1. canceled \in SUBSET Messages
    OBVIOUS
  <2> HIDE DEF canceled
  <2> QED  BY <2>1, CancelLineType
<1> QED  BY <1>2, <1>3, <1>4, SentType

\* What the Hub does by itself, or on a line of a runtime.
LEMMA HubStepTyped ==
    ASSUME HubTyped, PipesTyped, LoopTyped,
           \/ \E m \in Messages : Cancel(m)
           \/ Sweep
           \/ \E p \in Procs : Ingest(p)
    PROVE  HubTyped' /\ PipesTyped' /\ LoopTyped'
<1>1. ASSUME NEW m \in Messages, Cancel(m)
      PROVE  HubTyped' /\ PipesTyped' /\ LoopTyped'
  <2>1. CancelRows({m}, inPipe)
    BY <1>1 DEF Cancel
  <2>2. UNCHANGED <<rowSeq, lastSeq, op, asQueued, budget, lost, active, thinking,
                    stopping>>
    BY <1>1 DEF Cancel
  <2>3. inPipe \in [Procs -> Seq(InLines)] /\ {m} \in SUBSET Messages
    BY DEF PipesTyped
  <2>4. HubTyped' /\ inPipe' \in [Procs -> Seq(InLines)]
    BY <2>1, <2>2, <2>3, CancelRowsTyped
  <2> QED  BY <1>1, <2>4 DEF Cancel, PipesTyped, LoopTyped
<1>2. CASE Sweep
  <2>1. budget' \in 0..MaxEvents
    BY <1>2, BoundsAssumption DEF Sweep, Spends, HubTyped
  <2>2. HubTyped'
    BY <1>2, <2>1 DEF Sweep, HubTyped, RowsNumbered
  <2> QED  BY <1>2, <2>2 DEF Sweep, PipesTyped, LoopTyped
<1>3. ASSUME NEW p \in Procs, Ingest(p)
      PROVE  HubTyped' /\ PipesTyped' /\ LoopTyped'
  <2> DEFINE line == Head(outPipe[p])
  <2>1. outPipe[p] # <<>> /\ outPipe' = [outPipe EXCEPT ![p] = Tail(@)]
    BY <1>3 DEF Ingest
  <2>2. outPipe' \in [Procs -> Seq(OutLines)]
    BY <2>1, TailType DEF PipesTyped
  <2>3. line \in OutLines
    BY <2>1 DEF PipesTyped
  <2>4. UNCHANGED <<rowSeq, lastSeq, opVars, loopVars, budget, lost>>
    BY <1>3 DEF Ingest
  <2>5. LoopTyped'
    BY <2>4 DEF LoopTyped
  <2>6. \/ line.type = "started" /\ Started(p)
        \/ line.type = "alive" /\ Alive(line.thinking)
        \/ line.type = "stopping" /\ MarkStopping
        \/ line.type = "consumed" /\ Consumed(line.ms)
        \/ line.type = "canceled" /\ Canceled(line.ms)
        \/ line.type = "end" /\ SessionEnd
    BY <1>3 DEF Ingest
  <2> HIDE DEF line
  <2>7. CASE line.type = "started" /\ Started(p)
    BY <2>2, <2>5, <2>4, <2>7 DEF Started, HubTyped, RowsNumbered, PipesTyped
  <2>8. CASE line.type = "alive" /\ Alive(line.thinking)
    <3>1. line.thinking \in BOOLEAN
      BY <2>3, <2>8 DEF OutLines
    <3>2. active' = TRUE /\ thinking' = line.thinking /\ UNCHANGED <<row, tracked, inPipe>>
      BY <2>8 DEF Alive
    <3>3. stopping' \in BOOLEAN
      BY <2>8 DEF Alive, HubTyped
    <3> QED  BY <2>2, <2>5, <2>4, <3>1, <3>2, <3>3 DEF HubTyped, RowsNumbered, PipesTyped
  <2>9. CASE line.type = "stopping" /\ MarkStopping
    BY <2>2, <2>5, <2>4, <2>9 DEF MarkStopping, HubTyped, RowsNumbered, PipesTyped
  <2>10. CASE line.type = "consumed" /\ Consumed(line.ms)
    <3>1. line.ms \in SUBSET Messages
      BY <2>3, <2>10 DEF OutLines
    <3>2. Invoke(line.ms) /\ UNCHANGED <<active, thinking, stopping, tracked, inPipe>>
      BY <2>10 DEF Consumed
    <3>3. row' = [m \in Messages |->
                     IF m \in line.ms /\ row[m] = "queued" THEN "invoked" ELSE row[m]]
      BY <3>2 DEF Invoke
    <3>4. {active', thinking', stopping'} \subseteq BOOLEAN
            /\ "invoked" \in {"absent", "invoked"}
      BY <3>2 DEF HubTyped
    <3>5. HubTyped'
      BY <2>4, <3>1, <3>3, <3>4, RowsTyped
    <3> QED  BY <2>2, <2>5, <3>2, <3>5 DEF PipesTyped
  <2>11. CASE line.type = "canceled" /\ Canceled(line.ms)
    <3>1. line.ms \in SUBSET Messages
      BY <2>3, <2>11 DEF OutLines
    <3>2. CancelRows(line.ms, inPipe) /\ UNCHANGED <<active, thinking, stopping, tracked>>
      BY <2>11 DEF Canceled
    <3>3. HubTyped' /\ inPipe' \in [Procs -> Seq(InLines)]
      BY <2>4, <3>1, <3>2, CancelRowsTyped DEF PipesTyped
    <3> QED  BY <2>2, <2>5, <3>2, <3>3 DEF PipesTyped
  <2>12. CASE line.type = "end" /\ SessionEnd
    <3>1. Invoke(Messages) /\ active' = FALSE /\ thinking' = FALSE
            /\ UNCHANGED <<tracked, inPipe>>
      BY <2>12 DEF SessionEnd
    <3>2. stopping' \in BOOLEAN
      BY <2>12 DEF SessionEnd, HubTyped
    <3>3. row' = [m \in Messages |->
                     IF m \in Messages /\ row[m] = "queued" THEN "invoked" ELSE row[m]]
      BY <3>1 DEF Invoke
    <3>4. /\ {active', thinking', stopping'} \subseteq BOOLEAN
          /\ "invoked" \in {"absent", "invoked"} /\ Messages \in SUBSET Messages
      BY <3>1, <3>2
    <3>5. HubTyped'
      BY <2>4, <3>3, <3>4, RowsTyped
    <3> QED  BY <2>2, <2>5, <3>1, <3>5 DEF PipesTyped
  <2> QED  BY <2>6, <2>7, <2>8, <2>9, <2>10, <2>11, <2>12
<1> QED  BY <1>1, <1>2, <1>3

-----------------------------------------------------------------------------
(* The queue of a runtime *)

\* The first n numbers.
LEMMA UpTo ==
    ASSUME NEW n \in Nat
    PROVE  IsFiniteSet(1..n) /\ Cardinality(1..n) = n
<1>1. IsFiniteSet(1..n) /\ Cardinality(1..n) = IF 1 > n THEN 0 ELSE n - 1 + 1
  BY FS_Interval
<1> QED  BY <1>1

\* What is in one queue after a cancellation was in it before, in that order.
LEMMA RemoveIsSubsequence ==
    ASSUME queue \in [Procs -> Seq(Items)], NEW p \in Procs, NEW ms, Remove(p, ms)
    PROVE  \E size \in 0..Len(queue[p]) :
               \E at \in [1..size -> DOMAIN queue[p]] :
                   /\ \A i, j \in 1..size : i < j => at[i] < at[j]
                   /\ queue' = [queue EXCEPT ![p] = [i \in 1..size |-> queue[p][at[i]]]]
<1> DEFINE kept == {i \in DOMAIN queue[p] : queue[p][i].m \notin ms}
           size == Cardinality(kept)
<1>1. queue[p] \in Seq(Items) /\ DOMAIN queue[p] = 1..Len(queue[p]) /\ Len(queue[p]) \in Nat
  OBVIOUS
<1>2. size \in 0..Len(queue[p])
  <2>1. IsFiniteSet(1..Len(queue[p])) /\ Cardinality(1..Len(queue[p])) = Len(queue[p])
    BY <1>1, UpTo
  <2>2. kept \subseteq 1..Len(queue[p])
    BY <1>1
  <2> HIDE DEF kept
  <2>3. IsFiniteSet(kept) /\ size <= Len(queue[p])
    BY <2>1, <2>2, FS_Subset
  <2>4. size \in Nat
    BY <2>3, FS_CardinalityType
  <2> QED  BY <1>1, <2>3, <2>4
<1>3. PICK at \in [1..size -> kept] :
          /\ \A i, j \in 1..size : i < j => at[i] < at[j]
          /\ queue' = [queue EXCEPT ![p] = [i \in 1..size |-> queue[p][at[i]]]]
  BY DEF Remove
<1>4. at \in [1..size -> DOMAIN queue[p]]
  OBVIOUS
<1> HIDE DEF size, kept
<1> QED  BY <1>2, <1>3, <1>4

LEMMA RemoveType ==
    ASSUME queue \in [Procs -> Seq(Items)], NEW p \in Procs, NEW ms, Remove(p, ms)
    PROVE  queue' \in [Procs -> Seq(Items)]
<1>1. PICK size \in 0..Len(queue[p]) : \E at \in [1..size -> DOMAIN queue[p]] :
          queue' = [queue EXCEPT ![p] = [i \in 1..size |-> queue[p][at[i]]]]
  BY RemoveIsSubsequence
<1>2. PICK at \in [1..size -> DOMAIN queue[p]] :
          queue' = [queue EXCEPT ![p] = [i \in 1..size |-> queue[p][at[i]]]]
  BY <1>1
<1>3. queue[p] \in Seq(Items) /\ size \in Nat
  BY <1>1
<1>4. \A i \in 1..size : queue[p][at[i]] \in Items
  BY <1>3, <1>2
<1>5. [i \in 1..size |-> queue[p][at[i]]] \in Seq(Items)
  BY <1>3, <1>4
<1> QED  BY <1>2, <1>5

\* The start of a turn: a batch leaves the queue at its head.
LEMMA BatchSplit ==
    ASSUME NEW q \in Seq(Items), NEW n \in 1..Len(q)
    PROVE  /\ SubSeq(q, n + 1, Len(q)) \in Seq(Items)
           /\ Len(SubSeq(q, n + 1, Len(q))) = Len(q) - n
           /\ \A i \in 1..(Len(q) - n) : SubSeq(q, n + 1, Len(q))[i] = q[n + i]
           /\ [i \in 1..n |-> q[i].seq] \in Seq(Seqs)
           /\ Len([i \in 1..n |-> q[i].seq]) = n
<1>1. n \in Nat /\ Len(q) \in Nat
  OBVIOUS
<1>2. /\ SubSeq(q, n + 1, Len(q)) \in Seq(Items)
      /\ Len(SubSeq(q, n + 1, Len(q))) = Len(q) - n
      /\ \A i \in 1..(Len(q) - n) : SubSeq(q, n + 1, Len(q))[i] = q[n + i]
  BY <1>1
<1>3. \A i \in 1..n : q[i].seq \in Seqs
  <2>1. \A i \in 1..n : q[i] \in Items
    OBVIOUS
  <2> QED  BY <2>1 DEF Items
<1>4. [i \in 1..n |-> q[i].seq] \in Seq(Seqs) /\ Len([i \in 1..n |-> q[i].seq]) = n
  BY <1>1, <1>3
<1> QED  BY <1>2, <1>4

\* What a step of the runtime leaves of the rest of the system.
LEMMA HubRest ==
    ASSUME HubTyped, UNCHANGED <<hubVars, row, rowSeq, lastSeq, op, asQueued>>,
           budget' \in 0..MaxEvents, lost' \subseteq Messages
    PROVE  HubTyped'
BY DEF HubTyped, RowsNumbered

LEMMA SpendsType ==
    ASSUME HubTyped, Spends \/ UNCHANGED budget
    PROVE  budget' \in 0..MaxEvents
BY BoundsAssumption DEF HubTyped, Spends

LEMMA StartTurnType ==
    ASSUME LoopTyped, PipesTyped, NEW p \in Procs, StartTurn(p)
    PROVE  /\ queue' \in [Procs -> Seq(Items)] /\ taken' \in [Procs -> Seq(Seqs)]
           /\ outPipe' \in [Procs -> Seq(OutLines)]
           /\ pc' = [pc EXCEPT ![p] = "turn"] /\ busy' = [busy EXCEPT ![p] = TRUE]
           /\ armed' = [armed EXCEPT ![p] = TRUE] /\ timer' = [timer EXCEPT ![p] = FALSE]
<1> DEFINE q == queue[p]
<1>1. PICK n \in 1..Len(q) :
          /\ queue' = [queue EXCEPT ![p] = SubSeq(q, n + 1, Len(q))]
          /\ taken' = [taken EXCEPT ![p] = @ \o [i \in 1..n |-> q[i].seq]]
          /\ Says(p, <<IdsLine("consumed", {q[i].m : i \in 1..n}), AliveLine(TRUE)>>)
          /\ pc' = [pc EXCEPT ![p] = "turn"] /\ busy' = [busy EXCEPT ![p] = TRUE]
          /\ armed' = [armed EXCEPT ![p] = TRUE] /\ timer' = [timer EXCEPT ![p] = FALSE]
  BY DEF StartTurn
<1>2. q \in Seq(Items)
  BY DEF LoopTyped
<1> HIDE DEF q
<1>3. /\ SubSeq(q, n + 1, Len(q)) \in Seq(Items)
      /\ [i \in 1..n |-> q[i].seq] \in Seq(Seqs)
  BY <1>2, BatchSplit
<1>4. queue' \in [Procs -> Seq(Items)]
  BY <1>1, <1>3 DEF LoopTyped
<1>5. taken' \in [Procs -> Seq(Seqs)]
  <2>1. taken[p] \in Seq(Seqs) /\ taken \in [Procs -> Seq(Seqs)]
    BY DEF LoopTyped
  <2>2. taken[p] \o [i \in 1..n |-> q[i].seq] \in Seq(Seqs)
    BY <1>3, <2>1
  <2> QED  BY <1>1, <2>1, <2>2
<1>6. outPipe' \in [Procs -> Seq(OutLines)]
  <2>1. \A i \in 1..n : q[i].m \in Messages
    <3>1. \A i \in 1..n : q[i] \in Items
      BY <1>2
    <3> QED  BY <3>1 DEF Items
  <2> DEFINE ids == {q[i].m : i \in 1..n}
  <2>2. ids \in SUBSET Messages
    BY <2>1
  <2>3. Says(p, <<IdsLine("consumed", ids), AliveLine(TRUE)>>)
    BY <1>1
  <2> HIDE DEF ids
  <2>4. IdsLine("consumed", ids) \in OutLines /\ AliveLine(TRUE) \in OutLines
    <3>1. "consumed" \in {"consumed", "canceled"}
      OBVIOUS
    <3>2. IdsLine("consumed", ids) \in OutLines
      BY <2>2, <3>1, IdsLineType
    <3>3. AliveLine(TRUE) \in OutLines
      BY AliveLineType
    <3> QED  BY <3>2, <3>3
  <2> DEFINE lines == <<IdsLine("consumed", ids), AliveLine(TRUE)>>
  <2>5. lines \in Seq(OutLines)
    BY <2>4, LinesType
  <2>6. Says(p, lines)
    BY <2>3
  <2> HIDE DEF lines
  <2> QED  BY <2>5, <2>6, SaysType DEF PipesTyped
<1> QED  BY <1>1, <1>4, <1>5, <1>6

LEMMA ResetType ==
    ASSUME LoopTyped, PipesTyped, NEW p \in Procs, NEW announced \in Seq(OutLines),
           Reset(p, announced)
    PROVE  /\ outPipe' \in [Procs -> Seq(OutLines)]
           /\ queue' = [queue EXCEPT ![p] = <<>>]
           /\ waiter' = [waiter EXCEPT ![p] = FALSE]
           /\ busy' = [busy EXCEPT ![p] = FALSE]
           /\ timer' = [timer EXCEPT ![p] = armed[p] /\ ~stopInFlight[p]]
           /\ aborts' = [aborts EXCEPT ![p] = @ + 1]
           /\ UNCHANGED <<hubVars, logVars, opVars, tracked, inPipe, pc, lastSeen,
                          aborted, armed, taken, lost>>
<1>1. queue[p] \in Seq(Items)
  BY DEF LoopTyped
<1>2. QueuedIds(p) \in SUBSET Messages
  <2>1. \A i \in DOMAIN queue[p] : queue[p][i] \in Items
    BY <1>1
  <2>2. \A i \in DOMAIN queue[p] : queue[p][i].m \in Messages
    BY <2>1 DEF Items
  <2> QED  BY <2>2 DEF QueuedIds
<1>3. IdsLine("canceled", QueuedIds(p)) \in OutLines /\ AliveLine(FALSE) \in OutLines
  <2>1. "canceled" \in {"consumed", "canceled"}
    OBVIOUS
  <2>2. IdsLine("canceled", QueuedIds(p)) \in OutLines
    BY <1>2, <2>1, IdsLineType
  <2>3. AliveLine(FALSE) \in OutLines
    BY AliveLineType
  <2> QED  BY <2>2, <2>3
<1> DEFINE lines == announced
                      \o (IF queue[p] = <<>> THEN <<>>
                          ELSE <<IdsLine("canceled", QueuedIds(p))>>)
                      \o <<AliveLine(FALSE)>>
<1>4. lines \in Seq(OutLines)
  <2>1. CASE queue[p] = <<>>
    <3>1. lines = announced \o <<>> \o <<AliveLine(FALSE)>>
      BY <2>1
    <3> QED  BY <1>3, <3>1, AllLinesType
  <2>2. CASE queue[p] # <<>>
    <3>1. lines = announced \o <<IdsLine("canceled", QueuedIds(p))>> \o <<AliveLine(FALSE)>>
      BY <2>2
    <3> QED  BY <1>3, <3>1, AllLinesType
  <2> QED  BY <2>1, <2>2
<1>5. Says(p, lines)
  BY DEF Reset
<1> HIDE DEF lines
<1>6. outPipe' \in [Procs -> Seq(OutLines)]
  BY <1>4, <1>5, SaysType DEF PipesTyped
<1> QED  BY <1>6 DEF Reset

LEMMA HeldByType ==
    ASSUME LoopTyped, PipesTyped, NEW p \in Procs
    PROVE  HeldBy(p) \subseteq Messages
<1>1. \A i \in DOMAIN queue[p] : queue[p][i].m \in Messages
  <2>1. \A i \in DOMAIN queue[p] : queue[p][i] \in Items
    BY DEF LoopTyped
  <2> QED  BY <2>1 DEF Items
<1>2. \A j \in DOMAIN inPipe[p] :
          inPipe[p][j].type = "message" => inPipe[p][j].item.m \in Messages
  <2>1. \A j \in DOMAIN inPipe[p] : inPipe[p][j] \in InLines
    BY DEF PipesTyped
  <2> QED  BY <2>1 DEF InLines, Items
<1>3. \A j \in DOMAIN outPipe[p] :
          outPipe[p][j].type \in {"consumed", "canceled"} => outPipe[p][j].ms \subseteq Messages
  <2>1. \A j \in DOMAIN outPipe[p] : outPipe[p][j] \in OutLines
    BY DEF PipesTyped
  <2> QED  BY <2>1 DEF OutLines
<1> QED  BY <1>1, <1>2, <1>3 DEF HeldBy, QueuedIds

\* A turn loop, its reads of the pipe, and the ends of its turns and aborts.
LEMMA LoopStepTyped ==
    ASSUME HubTyped, PipesTyped, LoopTyped, NEW p \in Procs,
           \/ LoopTop(p) \/ Collect(p) \/ EndTurn(p) \/ KeepAlive(p)
           \/ AbortEnd(p) \/ SendDeath(p) \/ Spawn(p) \/ Read(p)
    PROVE  HubTyped' /\ PipesTyped' /\ LoopTyped'
<1>1. CASE LoopTop(p)
  <2>1. HubTyped' /\ UNCHANGED <<tracked, inPipe, lastSeen, aborts, shouldExit, stopInFlight>>
          /\ aborted' = [aborted EXCEPT ![p] = FALSE]
    BY <1>1 DEF LoopTop, HubTyped, RowsNumbered
  <2>2. CASE StartTurn(p) /\ UNCHANGED waiter
    <3>1. /\ queue' \in [Procs -> Seq(Items)] /\ taken' \in [Procs -> Seq(Seqs)]
          /\ outPipe' \in [Procs -> Seq(OutLines)]
          /\ pc' = [pc EXCEPT ![p] = "turn"] /\ busy' = [busy EXCEPT ![p] = TRUE]
          /\ armed' = [armed EXCEPT ![p] = TRUE] /\ timer' = [timer EXCEPT ![p] = FALSE]
      BY <2>2, StartTurnType
    <3>2. pc' \in [Procs -> {"unborn", "gone"} \cup LoopStates]
      BY <3>1 DEF LoopTyped, LoopStates
    <3>3. {busy', armed', timer'} \subseteq [Procs -> BOOLEAN]
      BY <3>1 DEF LoopTyped
    <3>4. aborted' \in [Procs -> BOOLEAN]
      BY <2>1 DEF LoopTyped
    <3> QED  BY <2>1, <2>2, <3>1, <3>2, <3>3, <3>4 DEF PipesTyped, LoopTyped
  <2>3. CASE /\ pc' = [pc EXCEPT ![p] = IF shouldExit[p] THEN "left" ELSE "waiting"]
             /\ waiter' = [waiter EXCEPT ![p] = ~shouldExit[p]]
             /\ UNCHANGED <<queue, taken, outPipe, busy, armed, timer>>
    <3>1. /\ pc' \in [Procs -> {"unborn", "gone"} \cup LoopStates]
          /\ waiter' \in [Procs -> BOOLEAN]
      BY <2>3 DEF LoopTyped, LoopStates
    <3> QED  BY <2>1, <2>3, <3>1 DEF PipesTyped, LoopTyped
  <2> QED  BY <1>1, <2>2, <2>3 DEF LoopTop
<1>2. CASE Collect(p)
  <2>1. HubTyped' /\ UNCHANGED <<tracked, inPipe, lastSeen, aborts, shouldExit,
                                 stopInFlight, waiter, aborted>>
    BY <1>2 DEF Collect, HubTyped, RowsNumbered
  <2>2. CASE StartTurn(p)
    <3>1. /\ queue' \in [Procs -> Seq(Items)] /\ taken' \in [Procs -> Seq(Seqs)]
          /\ outPipe' \in [Procs -> Seq(OutLines)]
          /\ pc' = [pc EXCEPT ![p] = "turn"] /\ busy' = [busy EXCEPT ![p] = TRUE]
          /\ armed' = [armed EXCEPT ![p] = TRUE] /\ timer' = [timer EXCEPT ![p] = FALSE]
      BY <2>2, StartTurnType
    <3>2. pc' \in [Procs -> {"unborn", "gone"} \cup LoopStates]
      BY <3>1 DEF LoopTyped, LoopStates
    <3>3. {busy', armed', timer'} \subseteq [Procs -> BOOLEAN]
      BY <3>1 DEF LoopTyped
    <3> QED  BY <2>1, <3>1, <3>2, <3>3 DEF PipesTyped, LoopTyped
  <2>3. CASE /\ pc' = [pc EXCEPT ![p] =
                          IF aborted[p] /\ ~shouldExit[p] THEN "top" ELSE "left"]
             /\ UNCHANGED <<queue, taken, outPipe, busy, armed, timer>>
    <3>1. pc' \in [Procs -> {"unborn", "gone"} \cup LoopStates]
      BY <2>3 DEF LoopTyped, LoopStates
    <3> QED  BY <2>1, <2>3, <3>1 DEF PipesTyped, LoopTyped
  <2> QED  BY <1>2, <2>2, <2>3 DEF Collect
<1>3. CASE EndTurn(p)
  <2>1. <<AliveLine(FALSE)>> \in Seq(OutLines) /\ Says(p, <<AliveLine(FALSE)>>)
    BY <1>3, AliveLineType, LinesType DEF EndTurn
  <2>2. outPipe' \in [Procs -> Seq(OutLines)]
    BY <2>1, SaysType DEF PipesTyped
  <2>3. HubTyped'
    BY <1>3 DEF EndTurn, HubTyped, RowsNumbered
  <2>4. timer' \in [Procs -> BOOLEAN]
    BY <1>3 DEF EndTurn, LoopTyped
  <2>5. pc' \in [Procs -> {"unborn", "gone"} \cup LoopStates]
          /\ busy' \in [Procs -> BOOLEAN]
    BY <1>3 DEF EndTurn, LoopTyped, LoopStates
  <2>6. UNCHANGED <<tracked, inPipe, queue, waiter, aborted, armed, taken, lastSeen, aborts,
                    shouldExit, stopInFlight>>
    BY <1>3 DEF EndTurn
  <2> QED  BY <2>2, <2>3, <2>4, <2>5, <2>6 DEF PipesTyped, LoopTyped
<1>4. CASE KeepAlive(p)
  <2>1. AliveLine(busy[p]) \in OutLines
    BY AliveLineType DEF LoopTyped
  <2>2. <<AliveLine(busy[p])>> \in Seq(OutLines) /\ Says(p, <<AliveLine(busy[p])>>)
    BY <1>4, <2>1, LinesType DEF KeepAlive
  <2>3. outPipe' \in [Procs -> Seq(OutLines)]
    BY <2>2, SaysType DEF PipesTyped
  <2>4. HubTyped'
    BY <1>4 DEF KeepAlive, HubTyped, RowsNumbered
  <2> QED  BY <1>4, <2>3, <2>4 DEF KeepAlive, PipesTyped, LoopTyped
<1>5. CASE AbortEnd(p)
  <2>1. aborts' \in [Procs -> Nat]
    BY <1>5 DEF AbortEnd, LoopTyped
  <2>2. aborted' \in [Procs -> BOOLEAN] /\ waiter' \in [Procs -> BOOLEAN]
    BY <1>5 DEF AbortEnd, LoopTyped
  <2>3. pc' \in [Procs -> {"unborn", "gone"} \cup LoopStates]
    BY <1>5 DEF AbortEnd, LoopTyped, LoopStates
  <2>4. HubTyped'
    BY <1>5 DEF AbortEnd, HubTyped, RowsNumbered
  <2>5. stopInFlight' \in [Procs -> BOOLEAN]
    BY <1>5 DEF AbortEnd, StopMayEnd, LoopTyped
  <2>6. UNCHANGED <<tracked, inPipe, outPipe, queue, lastSeen, shouldExit, busy, armed, timer,
                    taken>>
    BY <1>5 DEF AbortEnd
  <2> QED  BY <2>1, <2>2, <2>3, <2>4, <2>5, <2>6 DEF PipesTyped, LoopTyped
<1>6. CASE SendDeath(p)
  <2>1. <<Line("end")>> \in Seq(OutLines)
    <3>1. Line("end") \in OutLines
      BY LineType
    <3> QED  BY <3>1, LinesType
  <2>2. Says(p, <<Line("end")>>)
    BY <1>6 DEF SendDeath
  <2>3. outPipe' \in [Procs -> Seq(OutLines)]
    BY <2>1, <2>2, SaysType DEF PipesTyped
  <2>4. HubTyped'
    BY <1>6 DEF SendDeath, HubTyped, RowsNumbered
  <2> QED  BY <1>6, <2>3, <2>4 DEF SendDeath, PipesTyped, LoopTyped, LoopStates
<1>7. CASE Spawn(p)
  <2>1. <<Line("started"), AliveLine(FALSE)>> \in Seq(OutLines)
    <3>1. Line("started") \in OutLines
      BY LineType
    <3> QED  BY <3>1, AliveLineType, LinesType
  <2>2. Says(p, <<Line("started"), AliveLine(FALSE)>>)
    BY <1>7 DEF Spawn
  <2>3. outPipe' \in [Procs -> Seq(OutLines)]
    BY <2>1, <2>2, SaysType DEF PipesTyped
  <2>4. HubTyped'
    BY <1>7 DEF Spawn, HubTyped, RowsNumbered
  <2> QED  BY <1>7, <2>3, <2>4 DEF Spawn, PipesTyped, LoopTyped, LoopStates
<1>8. CASE Read(p)
  <2> DEFINE line == Head(inPipe[p])
  <2>1. inPipe[p] # <<>> /\ inPipe' = [inPipe EXCEPT ![p] = Tail(@)]
    BY <1>8 DEF Read
  <2>2. inPipe' \in [Procs -> Seq(InLines)]
    BY <2>1, TailType DEF PipesTyped
  <2>3. line \in InLines
    BY <2>1 DEF PipesTyped
  <2>4. UNCHANGED <<tracked, outPipe, aborted, aborts, shouldExit, stopInFlight, busy, armed,
                    taken>>
          /\ HubTyped'
    BY <1>8 DEF Read, HubTyped, RowsNumbered
  <2>5. PipesTyped'
    BY <2>2, <2>4 DEF PipesTyped
  <2>6. \/ line.type = "message" /\ Enqueue(p, line.item)
        \/ line.type = "cancel" /\ Remove(p, line.ms)
    BY <1>8 DEF Read
  <2> HIDE DEF line
  <2>7. CASE line.type = "message" /\ Enqueue(p, line.item)
    <3> DEFINE item == line.item
    <3>1. item \in Items
      BY <2>3, <2>7 DEF InLines
    <3>2. \/ UNCHANGED <<pc, queue, waiter, lastSeen, timer>>
          \/ /\ lastSeen' = [lastSeen EXCEPT ![p] = item.seq]
             /\ queue' = [queue EXCEPT ![p] = Append(@, item)]
             /\ timer' = [timer EXCEPT ![p] = FALSE]
             /\ waiter' = [waiter EXCEPT ![p] = FALSE]
             /\ pc' = [pc EXCEPT ![p] = IF waiter[p] THEN "woken" ELSE @]
      BY <2>7 DEF Enqueue
    <3> HIDE DEF item
    <3>3. lastSeen' \in [Procs -> Nat] /\ queue' \in [Procs -> Seq(Items)]
      <4>1. item.seq \in Nat
        BY <3>1 DEF Items, Seqs
      <4>2. Append(queue[p], item) \in Seq(Items)
        BY <3>1 DEF LoopTyped
      <4> QED  BY <3>2, <4>1, <4>2 DEF LoopTyped
    <3>4. timer' \in [Procs -> BOOLEAN] /\ waiter' \in [Procs -> BOOLEAN]
      BY <3>2 DEF LoopTyped
    <3>5. pc' \in [Procs -> {"unborn", "gone"} \cup LoopStates]
      BY <3>2 DEF LoopTyped, LoopStates
    <3> QED  BY <2>4, <2>5, <3>3, <3>4, <3>5 DEF LoopTyped
  <2>8. CASE line.type = "cancel" /\ Remove(p, line.ms)
    <3>1. queue' \in [Procs -> Seq(Items)]
      BY <2>8, RemoveType DEF LoopTyped
    <3>2. timer' = [timer EXCEPT ![p] = armed[p] /\ ~busy[p] /\ ~stopInFlight[p]
                                         /\ pc[p] # "ended"]
            /\ UNCHANGED <<pc, waiter, lastSeen>>
      BY <2>8 DEF Remove
    <3>3. timer' \in [Procs -> BOOLEAN]
      BY <3>2 DEF LoopTyped
    <3> QED  BY <2>4, <2>5, <3>1, <3>2, <3>3 DEF LoopTyped
  <2> QED  BY <2>6, <2>7, <2>8
<1> QED  BY <1>1, <1>2, <1>3, <1>4, <1>5, <1>6, <1>7, <1>8

\* The stops of a runtime, and its end.
LEMMA StopTyped ==
    ASSUME HubTyped, PipesTyped, LoopTyped, NEW p \in Procs,
           Abort(p) \/ IdleStop(p) \/ Kill(p) \/ Exit(p) \/ Crash(p)
    PROVE  HubTyped' /\ PipesTyped' /\ LoopTyped'
<1>1. budget' \in 0..MaxEvents
  <2>1. Spends \/ UNCHANGED budget
    BY DEF Abort, IdleStop, Kill, Exit, Crash
  <2> QED  BY <2>1, SpendsType
<1>2. ASSUME NEW announced \in Seq(OutLines), Reset(p, announced),
             shouldExit' \in [Procs -> BOOLEAN], stopInFlight' \in [Procs -> BOOLEAN]
      PROVE  HubTyped' /\ PipesTyped' /\ LoopTyped'
  <2>1. /\ outPipe' \in [Procs -> Seq(OutLines)]
        /\ queue' = [queue EXCEPT ![p] = <<>>]
        /\ waiter' = [waiter EXCEPT ![p] = FALSE]
        /\ busy' = [busy EXCEPT ![p] = FALSE]
        /\ timer' = [timer EXCEPT ![p] = armed[p] /\ ~stopInFlight[p]]
        /\ aborts' = [aborts EXCEPT ![p] = @ + 1]
        /\ UNCHANGED <<hubVars, logVars, opVars, tracked, inPipe, pc, lastSeen,
                       aborted, armed, taken, lost>>
    BY <1>2, ResetType
  <2>2. HubTyped'
    BY <1>1, <2>1 DEF HubTyped, RowsNumbered
  <2>3. PipesTyped'
    BY <2>1 DEF PipesTyped
  <2>4. queue' \in [Procs -> Seq(Items)] /\ aborts' \in [Procs -> Nat]
    BY <2>1 DEF LoopTyped
  <2>5. {waiter', busy', timer'} \subseteq [Procs -> BOOLEAN]
    BY <2>1 DEF LoopTyped
  <2>6. LoopTyped'
    BY <1>2, <2>1, <2>4, <2>5 DEF LoopTyped
  <2> QED  BY <2>2, <2>3, <2>6
<1>3. <<>> \in Seq(OutLines) /\ <<Line("stopping")>> \in Seq(OutLines)
  <2>1. Line("stopping") \in OutLines
    BY LineType
  <2> QED  BY <2>1, LinesType
<1>4. CASE Abort(p) \/ IdleStop(p) \/ Kill(p)
  <2>1. shouldExit' \in [Procs -> BOOLEAN] /\ stopInFlight' \in [Procs -> BOOLEAN]
    BY <1>4 DEF Abort, IdleStop, Kill, RequestStop, LoopTyped
  <2>2. Reset(p, <<>>) \/ Reset(p, <<Line("stopping")>>)
    BY <1>4 DEF Abort, IdleStop, Kill, RequestStop
  <2> QED  BY <1>2, <1>3, <2>1, <2>2
<1>5. CASE Exit(p) \/ Crash(p)
  <2>1. Gone(p)
    BY <1>5 DEF Exit, Crash
  <2>2. lost' \subseteq Messages /\ UNCHANGED <<hubVars, logVars, opVars>>
    BY <2>1, HeldByType DEF Gone, HubTyped
  <2>3. HubTyped'
    BY <1>1, <2>2 DEF HubTyped, RowsNumbered
  <2>4. PipesTyped'
    BY <2>1 DEF Gone, PipesTyped
  <2>5. /\ pc' \in [Procs -> {"unborn", "gone"} \cup LoopStates]
        /\ queue' \in [Procs -> Seq(Items)] /\ taken' \in [Procs -> Seq(Seqs)]
        /\ lastSeen' \in [Procs -> Nat] /\ aborts' \in [Procs -> Nat]
    BY <2>1 DEF Gone, LoopTyped
  <2>6. /\ {waiter', aborted', shouldExit', stopInFlight'} \subseteq [Procs -> BOOLEAN]
        /\ {busy', armed', timer'} \subseteq [Procs -> BOOLEAN]
    BY <2>1 DEF Gone, LoopTyped
  <2> QED  BY <2>3, <2>4, <2>5, <2>6 DEF LoopTyped
<1> QED  BY <1>4, <1>5

\* Every step is one of these.
LEMMA Steps ==
    ASSUME [Next]_vars
    PROVE  \/ UNCHANGED vars
           \/ \E o \in Ops : Send(o) \/ Released(o) \/ GivesUp(o) \/ Resumed(o)
           \/ \E m \in Messages : Cancel(m)
           \/ Sweep
           \/ \E p \in Procs : Ingest(p)
           \/ \E p \in Procs : \/ LoopTop(p) \/ Collect(p) \/ EndTurn(p) \/ KeepAlive(p)
                               \/ AbortEnd(p) \/ SendDeath(p) \/ Spawn(p) \/ Read(p)
           \/ \E p \in Procs : Abort(p) \/ IdleStop(p) \/ Kill(p) \/ Exit(p) \/ Crash(p)
BY DEF Next, Runtime

LEMMA TypedStep == Typed /\ [Next]_vars => Typed'
<1> SUFFICES ASSUME HubTyped, PipesTyped, LoopTyped, [Next]_vars
             PROVE  HubTyped' /\ PipesTyped' /\ LoopTyped'
  BY TypedParts, PTL
<1>1. CASE UNCHANGED vars
  BY <1>1 DEF vars, HubTyped, RowsNumbered, PipesTyped, LoopTyped
<1> QED  BY Steps, <1>1, SendTyped, HubStepTyped, LoopStepTyped, StopTyped

\* Every reachable state has the types the code gives its state.
THEOREM TypeCorrect == Spec => []TypeOK
<1>1. Spec => []Typed
  BY InitTyped, TypedStep, PTL DEF Spec
<1>2. Typed => TypeOK
  BY DEF Typed
<1> QED  BY <1>1, <1>2, PTL

-----------------------------------------------------------------------------
(* The loop, its queue and its timer *)

\* A waiter belongs to a loop that waits on an empty queue; a loop that waits
\* without one is about to be woken by an abort.
Wakes(p) ==
    /\ waiter[p] => pc[p] = "waiting" /\ queue[p] = <<>>
    /\ pc[p] = "waiting" /\ ~waiter[p] => aborts[p] > 0

\* A stop in flight is one the launcher was asked for; a loop that waits when
\* it was asked has the abort of that stop before it.
Stopping(p) ==
    /\ stopInFlight[p] => shouldExit[p]
    /\ pc[p] = "waiting" /\ shouldExit[p] => stopInFlight[p]

\* The idle timer is set whenever the loop has nothing to do between turns, as
\* long as nobody asked it to stop.
Timed(p) ==
    /\ pc[p] \notin {"turn", "left", "ended"} /\ queue[p] = <<>>
    /\ armed[p] /\ ~busy[p] /\ ~shouldExit[p]
    => timer[p]

\* What ran, what is queued and what was last seen, in the order of the log.
Ordered(p) ==
    /\ \A i, j \in DOMAIN taken[p] : i < j => taken[p][i] < taken[p][j]
    /\ \A i, j \in DOMAIN queue[p] : i < j => queue[p][i].seq < queue[p][j].seq
    /\ \A i \in DOMAIN taken[p], j \in DOMAIN queue[p] : taken[p][i] < queue[p][j].seq
    /\ \A i \in DOMAIN queue[p] : queue[p][i].seq <= lastSeen[p]
    /\ \A i \in DOMAIN taken[p] : taken[p][i] <= lastSeen[p]

Local(p) == Wakes(p) /\ Stopping(p) /\ Timed(p) /\ Ordered(p)

LEMMA LocalSame ==
    ASSUME NEW d \in Procs, Local(d),
           pc'[d] = pc[d], queue'[d] = queue[d], waiter'[d] = waiter[d],
           aborts'[d] = aborts[d], armed'[d] = armed[d], busy'[d] = busy[d],
           timer'[d] = timer[d], taken'[d] = taken[d], lastSeen'[d] = lastSeen[d],
           shouldExit'[d] = shouldExit[d], stopInFlight'[d] = stopInFlight[d]
    PROVE  Local(d)'
<1>1. Wakes(d)'
  BY DEF Local, Wakes
<1>2. Stopping(d)' /\ Timed(d)'
  BY DEF Local, Stopping, Timed
<1>3. Ordered(d)'
  BY DEF Local, Ordered
<1> QED  BY <1>1, <1>2, <1>3 DEF Local

\* An empty queue is in order, and so is a message newer than the last seen.
LEMMA OrderedEmpty ==
    ASSUME LoopTyped, NEW d \in Procs, Ordered(d), queue'[d] = <<>>,
           taken'[d] = taken[d] \/ taken'[d] = <<>>,
           lastSeen'[d] = lastSeen[d] \/ taken'[d] = <<>>
    PROVE  Ordered(d)'
<1>1. DOMAIN queue'[d] = {}
  OBVIOUS
<1>2. taken'[d] = <<>> => DOMAIN taken'[d] = {}
  OBVIOUS
<1> QED  BY <1>1, <1>2 DEF Ordered

LEMMA OrderedAppend ==
    ASSUME LoopTyped, NEW d \in Procs, Ordered(d), NEW item \in Items,
           item.seq > lastSeen[d], queue'[d] = Append(queue[d], item),
           lastSeen'[d] = item.seq, taken'[d] = taken[d]
    PROVE  Ordered(d)'
<1>1. /\ queue[d] \in Seq(Items) /\ taken[d] \in Seq(Seqs) /\ lastSeen[d] \in Nat
      /\ item.seq \in Nat
  BY DEF LoopTyped, Items, Seqs
<1>2. \A i \in DOMAIN queue[d] : queue[d][i] \in Items
  BY <1>1
<1>3. \A i \in DOMAIN queue[d] : queue[d][i].seq \in Nat
  BY <1>2 DEF Items, Seqs
<1>4. \A i \in DOMAIN taken[d] : taken[d][i] \in Nat
  BY <1>1 DEF Seqs
<1>5. \A i \in DOMAIN queue'[d] :
          \/ i \in DOMAIN queue[d] /\ queue'[d][i] = queue[d][i]
          \/ i = Len(queue[d]) + 1 /\ queue'[d][i] = item
  BY <1>1
<1>6. DOMAIN queue[d] = 1..Len(queue[d]) /\ Len(queue[d]) \in Nat
  BY <1>1
<1>7. \A i, j \in DOMAIN queue'[d] : i < j => queue'[d][i].seq < queue'[d][j].seq
  BY <1>1, <1>3, <1>5, <1>6 DEF Ordered
<1>8. \A i \in DOMAIN taken[d], j \in DOMAIN queue'[d] : taken[d][i] < queue'[d][j].seq
  BY <1>1, <1>4, <1>5 DEF Ordered
<1>9. \A i \in DOMAIN queue'[d] : queue'[d][i].seq <= item.seq
  BY <1>1, <1>3, <1>5 DEF Ordered
<1>10. \A i \in DOMAIN taken[d] : taken[d][i] <= item.seq
  BY <1>1, <1>4 DEF Ordered
<1> QED  BY <1>7, <1>8, <1>9, <1>10 DEF Ordered

LEMMA NoElements ==
    ASSUME NEW S, NEW s \in Seq(S), DOMAIN s = {}
    PROVE  s = <<>>
<1>1. Len(s) \in Nat /\ DOMAIN s = 1..Len(s)
  OBVIOUS
<1>2. Len(s) = 0
  BY <1>1
<1> QED  BY <1>2

LEMMA OrderedRemove ==
    ASSUME LoopTyped, NEW d \in Procs, Ordered(d), NEW ms, Remove(d, ms),
           taken' = taken, lastSeen' = lastSeen
    PROVE  Ordered(d)' /\ (queue[d] = <<>> => queue'[d] = <<>>)
<1>1. PICK size \in 0..Len(queue[d]) : \E at \in [1..size -> DOMAIN queue[d]] :
          /\ \A i, j \in 1..size : i < j => at[i] < at[j]
          /\ queue' = [queue EXCEPT ![d] = [i \in 1..size |-> queue[d][at[i]]]]
  BY RemoveIsSubsequence DEF LoopTyped
<1>2. PICK at \in [1..size -> DOMAIN queue[d]] :
          /\ \A i, j \in 1..size : i < j => at[i] < at[j]
          /\ queue' = [queue EXCEPT ![d] = [i \in 1..size |-> queue[d][at[i]]]]
  BY <1>1
<1>3. queue'[d] = [i \in 1..size |-> queue[d][at[i]]]
  BY <1>2 DEF LoopTyped
<1>4. DOMAIN queue'[d] = 1..size /\ \A i \in 1..size :
          at[i] \in DOMAIN queue[d] /\ queue'[d][i] = queue[d][at[i]]
  BY <1>3, <1>2
<1>5. \A i, j \in DOMAIN queue'[d] : i < j => queue'[d][i].seq < queue'[d][j].seq
  BY <1>2, <1>4 DEF Ordered
<1>6. Ordered(d)'
  BY <1>4, <1>5 DEF Ordered
<1>7. ASSUME queue[d] = <<>> PROVE queue'[d] = <<>>
  <2>1. size = 0
    BY <1>7
  <2>2. queue' \in [Procs -> Seq(Items)]
    BY RemoveType DEF LoopTyped
  <2>3. queue'[d] \in Seq(Items) /\ DOMAIN queue'[d] = {}
    BY <2>1, <2>2, <1>4
  <2> QED  BY <2>3, NoElements
<1> QED  BY <1>6, <1>7

LEMMA ConcatElements ==
    ASSUME NEW S, NEW s \in Seq(S), NEW t \in Seq(S)
    PROVE  /\ DOMAIN (s \o t) = 1..(Len(s) + Len(t))
           /\ \A i \in DOMAIN (s \o t) :
                  \/ i \in 1..Len(s) /\ (s \o t)[i] = s[i]
                  \/ /\ i - Len(s) \in 1..Len(t) /\ i > Len(s)
                     /\ (s \o t)[i] = t[i - Len(s)]
<1>1. Len(s) \in Nat /\ Len(t) \in Nat
  OBVIOUS
<1>2. DOMAIN (s \o t) = 1..(Len(s) + Len(t))
  BY <1>1
<1>3. ASSUME NEW i \in 1..(Len(s) + Len(t))
      PROVE  \/ i \in 1..Len(s) /\ (s \o t)[i] = s[i]
             \/ /\ i - Len(s) \in 1..Len(t) /\ i > Len(s)
                /\ (s \o t)[i] = t[i - Len(s)]
  <2>1. CASE i <= Len(s)
    BY <1>1, <2>1
  <2>2. CASE i > Len(s)
    BY <1>1, <2>2
  <2> QED  BY <1>1, <2>1, <2>2
<1> QED  BY <1>2, <1>3

LEMMA OrderedTurn ==
    ASSUME LoopTyped, NEW d \in Procs, Ordered(d), StartTurn(d), lastSeen' = lastSeen
    PROVE  Ordered(d)'
<1> DEFINE q == queue[d]
<1>1. PICK n \in 1..Len(q) :
          /\ queue' = [queue EXCEPT ![d] = SubSeq(q, n + 1, Len(q))]
          /\ taken' = [taken EXCEPT ![d] = @ \o [i \in 1..n |-> q[i].seq]]
  BY DEF StartTurn
<1> DEFINE rest == SubSeq(q, n + 1, Len(q))
           ran == [i \in 1..n |-> q[i].seq]
<1>2. q \in Seq(Items) /\ taken[d] \in Seq(Seqs) /\ n \in Nat /\ Len(q) \in Nat
        /\ lastSeen[d] \in Nat
  BY DEF LoopTyped
<1>3. queue'[d] = rest /\ taken'[d] = taken[d] \o ran
  BY <1>1 DEF LoopTyped
<1>4. /\ rest \in Seq(Items) /\ Len(rest) = Len(q) - n
      /\ \A i \in 1..(Len(q) - n) : rest[i] = q[n + i]
      /\ ran \in Seq(Seqs) /\ Len(ran) = n
  BY <1>2, BatchSplit
<1>5. \A i \in 1..n : ran[i] = q[i].seq
  OBVIOUS
<1>6. \A i \in 1..Len(q) : q[i].seq \in Nat
  <2>1. \A i \in 1..Len(q) : q[i] \in Items
    BY <1>2
  <2> QED  BY <2>1 DEF Items, Seqs
<1>7. \A i, j \in 1..Len(q) : i < j => q[i].seq < q[j].seq
  BY <1>2 DEF Ordered
<1>8. \A i \in 1..Len(taken[d]) : taken[d][i] \in Nat
  BY <1>2 DEF Seqs
<1>9. /\ \A i, j \in 1..Len(taken[d]) : i < j => taken[d][i] < taken[d][j]
      /\ \A i \in 1..Len(taken[d]), j \in 1..Len(q) : taken[d][i] < q[j].seq
      /\ \A j \in 1..Len(q) : q[j].seq <= lastSeen[d]
      /\ \A i \in 1..Len(taken[d]) : taken[d][i] <= lastSeen[d]
  BY <1>2 DEF Ordered
<1> DEFINE old == taken[d]
           now == old \o ran
<1> HIDE DEF q, rest, ran
<1>10. /\ DOMAIN now = 1..(Len(old) + n) /\ Len(old) \in Nat
       /\ \A i \in DOMAIN now : \/ i \in 1..Len(old) /\ now[i] = old[i]
                                \/ i - Len(old) \in 1..n /\ i > Len(old)
                                     /\ now[i] = q[i - Len(old)].seq
  <2>1. old \in Seq(Seqs) /\ ran \in Seq(Seqs) /\ Len(ran) = n
    BY <1>2, <1>4
  <2> HIDE DEF old
  <2>2. /\ DOMAIN now = 1..(Len(old) + Len(ran))
        /\ \A i \in DOMAIN now :
               \/ i \in 1..Len(old) /\ now[i] = old[i]
               \/ /\ i - Len(old) \in 1..Len(ran) /\ i > Len(old)
                  /\ now[i] = ran[i - Len(old)]
    BY <2>1, ConcatElements
  <2> HIDE DEF now
  <2> QED  BY <2>1, <2>2, <1>5
<1>11. DOMAIN rest = 1..(Len(q) - n) /\ \A j \in DOMAIN rest :
           n + j \in 1..Len(q) /\ rest[j] = q[n + j]
  <2>1. DOMAIN rest = 1..(Len(q) - n)
    BY <1>4
  <2>2. \A j \in 1..(Len(q) - n) : n + j \in 1..Len(q)
    BY <1>2
  <2> QED  BY <1>4, <2>1, <2>2
<1> HIDE DEF now, old
<1>12. \A i \in 1..n : i \in 1..Len(q)
  BY <1>2
<1>13. \A i, j \in DOMAIN now : i < j => now[i] < now[j]
  <2> SUFFICES ASSUME NEW i \in DOMAIN now, NEW j \in DOMAIN now, i < j
               PROVE  now[i] < now[j]
    OBVIOUS
  <2>1. CASE j \in 1..Len(old) /\ now[j] = old[j]
    BY <2>1, <1>9, <1>10 DEF old
  <2>2. CASE /\ i \in 1..Len(old) /\ now[i] = old[i]
             /\ j - Len(old) \in 1..n /\ now[j] = q[j - Len(old)].seq
    BY <2>2, <1>9, <1>12 DEF old
  <2>3. CASE /\ i - Len(old) \in 1..n /\ now[i] = q[i - Len(old)].seq
             /\ j - Len(old) \in 1..n /\ now[j] = q[j - Len(old)].seq
    <3>1. i - Len(old) < j - Len(old)
      BY <1>10
    <3> QED  BY <2>3, <3>1, <1>7, <1>12
  <2> QED  BY <1>10, <2>1, <2>2, <2>3
<1>14. \A i, j \in DOMAIN rest : i < j => rest[i].seq < rest[j].seq
  BY <1>2, <1>7, <1>11
<1>15. \A i \in DOMAIN now, j \in DOMAIN rest : now[i] < rest[j].seq
  <2> SUFFICES ASSUME NEW i \in DOMAIN now, NEW j \in DOMAIN rest
               PROVE  now[i] < rest[j].seq
    OBVIOUS
  <2>1. n + j \in 1..Len(q) /\ rest[j] = q[n + j] /\ j >= 1 /\ j \in Nat
    BY <1>2, <1>11
  <2>2. CASE i \in 1..Len(old) /\ now[i] = old[i]
    BY <2>1, <2>2, <1>9 DEF old
  <2>3. CASE i - Len(old) \in 1..n /\ now[i] = q[i - Len(old)].seq
    <3>1. i - Len(old) < n + j
      BY <1>2, <2>1, <2>3
    <3> QED  BY <2>1, <2>3, <3>1, <1>7, <1>12
  <2> QED  BY <1>10, <2>2, <2>3
<1>16. \A j \in DOMAIN rest : rest[j].seq <= lastSeen[d]
  BY <1>9, <1>11
<1>17. \A i \in DOMAIN now : now[i] <= lastSeen[d]
  BY <1>9, <1>10, <1>12 DEF old
<1>18. taken'[d] = now /\ queue'[d] = rest /\ lastSeen'[d] = lastSeen[d]
  BY <1>3 DEF now, old
<1> QED  BY <1>13, <1>14, <1>15, <1>16, <1>17, <1>18 DEF Ordered

LEMMA InitLocal == Init => \A d \in Procs : Local(d)
<1> SUFFICES ASSUME Init, NEW d \in Procs PROVE Local(d)
  OBVIOUS
<1>1. queue[d] = <<>> /\ taken[d] = <<>> /\ pc[d] = "unborn" /\ ~waiter[d] /\ ~armed[d]
        /\ ~stopInFlight[d]
  BY DEF Init
<1>2. DOMAIN queue[d] = {} /\ DOMAIN taken[d] = {}
  BY <1>1
<1> QED  BY <1>1, <1>2 DEF Local, Wakes, Stopping, Timed, Ordered

\* A turn begins with a batch from the head of the queue.
LEMMA LocalTurn ==
    ASSUME LoopTyped, NEW d \in Procs, Local(d), StartTurn(d), pc[d] \in {"top", "woken"},
           lastSeen' = lastSeen, waiter' = waiter, aborts' = aborts,
           shouldExit' = shouldExit, stopInFlight' = stopInFlight
    PROVE  Local(d)'
<1>1. pc'[d] = "turn"
  BY DEF StartTurn, LoopTyped
<1>2. Ordered(d)'
  BY OrderedTurn DEF Local
<1>3. ~waiter[d]
  BY DEF Local, Wakes
<1> QED  BY <1>1, <1>2, <1>3 DEF Local, Wakes, Stopping, Timed

\* What the loop itself does.
LEMMA LocalLoop ==
    ASSUME LoopTyped, NEW d \in Procs, Local(d),
           \/ LoopTop(d) \/ Collect(d) \/ EndTurn(d) \/ AbortEnd(d) \/ SendDeath(d)
    PROVE  Local(d)'
<1>1. CASE LoopTop(d)
  <2>1. CASE StartTurn(d) /\ UNCHANGED waiter
    BY <1>1, <2>1, LocalTurn DEF LoopTop
  <2>2. CASE /\ pc' = [pc EXCEPT ![d] = IF shouldExit[d] THEN "left" ELSE "waiting"]
             /\ waiter' = [waiter EXCEPT ![d] = ~shouldExit[d]]
             /\ UNCHANGED <<queue, taken, outPipe, busy, armed, timer>>
             /\ shouldExit[d] \/ queue[d] = <<>>
    <3>1. /\ pc'[d] = IF shouldExit[d] THEN "left" ELSE "waiting"
          /\ waiter'[d] = ~shouldExit[d] /\ pc[d] = "top" /\ shouldExit[d] \in BOOLEAN
      BY <1>1, <2>2 DEF LoopTop, LoopTyped
    <3>2. UNCHANGED <<queue, taken, busy, armed, timer, lastSeen, aborts, shouldExit,
                      stopInFlight>>
      BY <1>1, <2>2 DEF LoopTop
    <3>3. Wakes(d)'
      <4>1. CASE shouldExit[d]
        <5>1. pc'[d] = "left" /\ waiter'[d] = FALSE
          BY <3>1, <4>1
        <5> QED  BY <5>1 DEF Wakes
      <4>2. CASE ~shouldExit[d]
        <5>1. pc'[d] = "waiting" /\ waiter'[d] = TRUE /\ queue'[d] = <<>>
          BY <2>2, <3>1, <3>2, <4>2
        <5> QED  BY <5>1 DEF Wakes
      <4> QED  BY <4>1, <4>2
    <3>4. Stopping(d)' /\ Timed(d)'
      BY <3>1, <3>2 DEF Local, Stopping, Timed
    <3>5. Ordered(d)'
      BY <3>2 DEF Local, Ordered
    <3> QED  BY <3>3, <3>4, <3>5 DEF Local
  <2> QED  BY <1>1, <2>1, <2>2 DEF LoopTop
<1>2. CASE Collect(d)
  <2>1. CASE StartTurn(d)
    BY <1>2, <2>1, LocalTurn DEF Collect
  <2>2. CASE /\ pc' = [pc EXCEPT ![d] =
                          IF aborted[d] /\ ~shouldExit[d] THEN "top" ELSE "left"]
             /\ UNCHANGED <<queue, taken, outPipe, busy, armed, timer>>
    <3>1. pc'[d] \in {"top", "left"} /\ pc[d] = "woken"
      BY <1>2, <2>2 DEF Collect, LoopTyped
    <3>2. UNCHANGED <<queue, taken, busy, armed, timer, lastSeen, aborts, waiter, shouldExit,
                      stopInFlight>>
      BY <1>2, <2>2 DEF Collect
    <3>3. Wakes(d)'
      BY <3>1, <3>2 DEF Local, Wakes
    <3>4. Stopping(d)' /\ Timed(d)'
      BY <3>1, <3>2 DEF Local, Stopping, Timed
    <3>5. Ordered(d)'
      BY <3>2 DEF Local, Ordered
    <3> QED  BY <3>3, <3>4, <3>5 DEF Local
  <2> QED  BY <1>2, <2>1, <2>2 DEF Collect
<1>3. CASE EndTurn(d)
  <2>1. pc'[d] = "top" /\ pc[d] = "turn" /\ timer'[d] = ~stopInFlight[d]
    BY <1>3 DEF EndTurn, LoopTyped
  <2>2. UNCHANGED <<queue, taken, lastSeen, aborts, waiter, shouldExit, stopInFlight>>
    BY <1>3 DEF EndTurn
  <2>3. Ordered(d)'
    BY <2>2 DEF Local, Ordered
  <2> QED  BY <2>1, <2>2, <2>3 DEF Local, Wakes, Stopping, Timed
<1>4. CASE AbortEnd(d)
  <2>1. /\ pc'[d] = IF pc[d] # "waiting" THEN pc[d]
                    ELSE IF shouldExit[d] THEN "left" ELSE "top"
        /\ waiter'[d] = FALSE /\ (stopInFlight'[d] => stopInFlight[d])
    BY <1>4 DEF AbortEnd, StopMayEnd, LoopTyped
  <2>2. UNCHANGED <<queue, taken, busy, armed, timer, lastSeen, shouldExit>>
    BY <1>4 DEF AbortEnd
  <2>3. Wakes(d)'
    BY <2>1, <2>2 DEF Wakes
  <2>4. Stopping(d)' /\ Timed(d)'
    BY <2>1, <2>2 DEF Local, Stopping, Timed
  <2>5. Ordered(d)'
    BY <2>2 DEF Local, Ordered
  <2> QED  BY <2>3, <2>4, <2>5 DEF Local
<1>5. CASE SendDeath(d)
  <2>1. pc'[d] = "ended" /\ pc[d] = "left"
    BY <1>5 DEF SendDeath, LoopTyped
  <2>2. UNCHANGED <<queue, taken, busy, armed, waiter, lastSeen, aborts, shouldExit,
                    stopInFlight>>
    BY <1>5 DEF SendDeath
  <2>3. Ordered(d)'
    BY <2>2 DEF Local, Ordered
  <2> QED  BY <2>1, <2>2, <2>3 DEF Local, Wakes, Stopping, Timed
<1> QED  BY <1>1, <1>2, <1>3, <1>4, <1>5

\* What it reads.
LEMMA LocalRead ==
    ASSUME LoopTyped, PipesTyped, NEW d \in Procs, Local(d), Read(d)
    PROVE  Local(d)'
<1> DEFINE line == Head(inPipe[d])
<1>1. inPipe[d] # <<>> /\ UNCHANGED <<taken, aborts, armed, busy, shouldExit, stopInFlight>>
  BY DEF Read
<1>2. line \in InLines
  BY <1>1 DEF PipesTyped
<1>3. \/ line.type = "message" /\ Enqueue(d, line.item)
      \/ line.type = "cancel" /\ Remove(d, line.ms)
  BY DEF Read
<1> HIDE DEF line
<1>4. CASE line.type = "message" /\ Enqueue(d, line.item)
  <2> DEFINE item == line.item
  <2>1. item \in Items /\ Enqueue(d, item)
    BY <1>2, <1>4 DEF InLines
  <2>2. item.seq \in Nat /\ lastSeen[d] \in Nat
    BY <2>1 DEF Items, Seqs, LoopTyped
  <2> HIDE DEF item
  <2>3. CASE item.seq <= lastSeen[d]
    <3>1. UNCHANGED <<pc, queue, waiter, lastSeen, timer>>
      BY <2>1, <2>3 DEF Enqueue
    <3> QED  BY <1>1, <3>1, LocalSame
  <2>4. CASE item.seq > lastSeen[d]
    <3>1. /\ lastSeen'[d] = item.seq
          /\ queue'[d] = Append(queue[d], item)
          /\ waiter'[d] = FALSE
          /\ pc'[d] = IF waiter[d] THEN "woken" ELSE pc[d]
      BY <2>1, <2>2, <2>4 DEF Enqueue, LoopTyped
    <3>2. Ordered(d)'
      BY <1>1, <2>1, <2>4, <3>1, OrderedAppend DEF Local
    <3>3. queue'[d] # <<>>
      <4>1. queue[d] \in Seq(Items)
        BY DEF LoopTyped
      <4> QED  BY <3>1, <4>1
    <3>4. Stopping(d)' /\ Timed(d)'
      BY <1>1, <3>1, <3>3 DEF Local, Stopping, Timed
    <3>5. Wakes(d)'
      BY <1>1, <3>1 DEF Local, Wakes
    <3> QED  BY <3>2, <3>4, <3>5 DEF Local
  <2> QED  BY <2>2, <2>3, <2>4
<1>5. CASE line.type = "cancel" /\ Remove(d, line.ms)
  <2> DEFINE ms == line.ms
  <2>1. Remove(d, ms)
    BY <1>5
  <2> HIDE DEF ms
  <2>2. /\ timer'[d] = (armed[d] /\ ~busy[d] /\ ~stopInFlight[d] /\ pc[d] # "ended")
        /\ UNCHANGED <<pc, waiter, lastSeen>>
    BY <2>1 DEF Remove, LoopTyped
  <2>3. Ordered(d)' /\ (queue[d] = <<>> => queue'[d] = <<>>)
    BY <1>1, <2>1, <2>2, OrderedRemove DEF Local
  <2>4. Wakes(d)'
    BY <1>1, <2>2, <2>3 DEF Local, Wakes
  <2>5. Stopping(d)' /\ Timed(d)'
    BY <1>1, <2>2 DEF Local, Stopping, Timed
  <2> QED  BY <2>3, <2>4, <2>5 DEF Local
<1> QED  BY <1>3, <1>4, <1>5

\* An abort, a stop, and the end.
LEMMA LocalStop ==
    ASSUME LoopTyped, NEW d \in Procs, Local(d),
           Abort(d) \/ IdleStop(d) \/ Kill(d) \/ Exit(d) \/ Crash(d)
    PROVE  Local(d)'
<1>1. CASE Abort(d) \/ IdleStop(d) \/ Kill(d)
  <2>1. Reset(d, <<>>) \/ Reset(d, <<Line("stopping")>>)
    BY <1>1 DEF Abort, IdleStop, Kill, RequestStop
  <2>2. /\ queue'[d] = <<>> /\ waiter'[d] = FALSE
        /\ timer'[d] = (armed[d] /\ ~stopInFlight[d])
        /\ aborts'[d] = aborts[d] + 1 /\ UNCHANGED <<pc, lastSeen, armed, taken>>
    BY <2>1 DEF Reset, LoopTyped
  <2>3. Ordered(d)'
    BY <2>2, OrderedEmpty DEF Local
  <2>4. aborts[d] \in Nat
    BY DEF LoopTyped
  <2>5. Wakes(d)'
    BY <2>2, <2>4 DEF Wakes
  <2>6. \/ shouldExit'[d] = shouldExit[d] /\ stopInFlight'[d] = stopInFlight[d]
        \/ shouldExit'[d] = TRUE /\ stopInFlight'[d] = TRUE
    BY <1>1 DEF Abort, IdleStop, Kill, RequestStop, LoopTyped
  <2>7. Stopping(d)' /\ Timed(d)'
    BY <2>2, <2>6 DEF Local, Stopping, Timed
  <2> QED  BY <2>3, <2>5, <2>7 DEF Local
<1>2. CASE Exit(d) \/ Crash(d)
  <2>1. Gone(d)
    BY <1>2 DEF Exit, Crash
  <2>2. /\ queue'[d] = <<>> /\ taken'[d] = <<>> /\ pc'[d] = "gone"
        /\ waiter'[d] = FALSE /\ armed'[d] = FALSE /\ stopInFlight'[d] = FALSE
    BY <2>1 DEF Gone, LoopTyped
  <2>3. Ordered(d)'
    BY <2>2, OrderedEmpty DEF Local
  <2> QED  BY <2>2, <2>3 DEF Local, Wakes, Stopping, Timed
<1> QED  BY <1>1, <1>2

\* A step of one process leaves the loops of the others alone.
LEMMA OthersKeep ==
    ASSUME LoopTyped, NEW p \in Procs, NEW d \in Procs \ {p}, Local(d),
           \/ LoopTop(p) \/ Collect(p) \/ EndTurn(p) \/ AbortEnd(p) \/ SendDeath(p)
           \/ Read(p) \/ Abort(p) \/ IdleStop(p) \/ Kill(p) \/ Exit(p) \/ Crash(p)
    PROVE  Local(d)'
<1>1. CASE LoopTop(p) \/ Collect(p) \/ EndTurn(p)
  <2>1. UNCHANGED <<lastSeen, aborts, shouldExit, stopInFlight>>
    BY <1>1 DEF LoopTop, Collect, EndTurn
  <2>2. CASE StartTurn(p)
    <3>1. /\ queue'[d] = queue[d] /\ taken'[d] = taken[d] /\ pc'[d] = pc[d]
          /\ busy'[d] = busy[d] /\ armed'[d] = armed[d] /\ timer'[d] = timer[d]
      BY <2>2 DEF StartTurn, LoopTyped
    <3>2. waiter'[d] = waiter[d]
      BY <1>1 DEF LoopTop, Collect, EndTurn, LoopTyped
    <3> QED  BY <2>1, <3>1, <3>2, LocalSame
  <2>3. CASE ~StartTurn(p)
    <3>1. /\ queue' = queue /\ taken' = taken /\ armed' = armed
          /\ pc'[d] = pc[d] /\ waiter'[d] = waiter[d]
          /\ busy'[d] = busy[d] /\ timer'[d] = timer[d]
      BY <1>1, <2>3 DEF LoopTop, Collect, EndTurn, LoopTyped
    <3> QED  BY <2>1, <3>1, LocalSame
  <2> QED  BY <2>2, <2>3
<1>2. CASE AbortEnd(p) \/ SendDeath(p)
  <2>1. /\ UNCHANGED <<queue, taken, busy, armed, lastSeen, shouldExit>>
        /\ pc'[d] = pc[d] /\ waiter'[d] = waiter[d] /\ aborts'[d] = aborts[d]
        /\ timer'[d] = timer[d] /\ stopInFlight'[d] = stopInFlight[d]
    BY <1>2 DEF AbortEnd, StopMayEnd, SendDeath, LoopTyped
  <2> QED  BY <2>1, LocalSame
<1>3. CASE Read(p)
  <2>1. UNCHANGED <<taken, aborts, armed, busy, shouldExit, stopInFlight>>
    BY <1>3 DEF Read
  <2>2. PICK line : \/ line.type = "message" /\ Enqueue(p, line.item)
                    \/ line.type = "cancel" /\ Remove(p, line.ms)
    BY <1>3 DEF Read
  <2>3. CASE Enqueue(p, line.item)
    <3>1. /\ queue'[d] = queue[d] /\ pc'[d] = pc[d] /\ waiter'[d] = waiter[d]
          /\ lastSeen'[d] = lastSeen[d] /\ timer'[d] = timer[d]
      BY <2>3 DEF Enqueue, LoopTyped
    <3> QED  BY <2>1, <3>1, LocalSame
  <2>4. CASE Remove(p, line.ms)
    <3>1. queue'[d] = queue[d] /\ timer'[d] = timer[d] /\ UNCHANGED <<pc, waiter, lastSeen>>
      BY <2>4 DEF Remove, LoopTyped
    <3> QED  BY <2>1, <3>1, LocalSame
  <2> QED  BY <2>2, <2>3, <2>4
<1>4. CASE Abort(p) \/ IdleStop(p) \/ Kill(p)
  <2>1. Reset(p, <<>>) \/ Reset(p, <<Line("stopping")>>)
    BY <1>4 DEF Abort, IdleStop, Kill, RequestStop
  <2>2. /\ queue'[d] = queue[d] /\ waiter'[d] = waiter[d] /\ timer'[d] = timer[d]
        /\ aborts'[d] = aborts[d] /\ busy'[d] = busy[d]
        /\ UNCHANGED <<pc, lastSeen, armed, taken>>
    BY <2>1 DEF Reset, LoopTyped
  <2>3. shouldExit'[d] = shouldExit[d] /\ stopInFlight'[d] = stopInFlight[d]
    BY <1>4 DEF Abort, IdleStop, Kill, RequestStop, LoopTyped
  <2> QED  BY <2>2, <2>3, LocalSame
<1>5. CASE Exit(p) \/ Crash(p)
  <2>1. Gone(p)
    BY <1>5 DEF Exit, Crash
  <2>2. /\ queue'[d] = queue[d] /\ taken'[d] = taken[d] /\ pc'[d] = pc[d]
        /\ waiter'[d] = waiter[d] /\ armed'[d] = armed[d] /\ lastSeen'[d] = lastSeen[d]
        /\ aborts'[d] = aborts[d] /\ busy'[d] = busy[d] /\ timer'[d] = timer[d]
        /\ shouldExit'[d] = shouldExit[d] /\ stopInFlight'[d] = stopInFlight[d]
    BY <2>1 DEF Gone, LoopTyped
  <2> QED  BY <2>2, LocalSame
<1> QED  BY <1>1, <1>2, <1>3, <1>4, <1>5

LEMMA LocalStep == Typed /\ (\A d \in Procs : Local(d)) /\ [Next]_vars
                       => (\A d \in Procs : Local(d))'
<1> SUFFICES ASSUME HubTyped, PipesTyped, LoopTyped, \A e \in Procs : Local(e),
                    [Next]_vars, NEW d \in Procs
             PROVE  Local(d)'
  BY TypedParts
<1>1. CASE UNCHANGED loopVars
  BY <1>1, LocalSame
<1>2. CASE \E p \in Procs : Spawn(p)
  <2>1. PICK p \in Procs : Spawn(p)
    BY <1>2
  <2>2. UNCHANGED <<queue, waiter, aborts, armed, busy, timer, taken, lastSeen, shouldExit,
                    stopInFlight>>
    BY <2>1 DEF Spawn
  <2>3. CASE d = p
    <3>1. pc'[d] = "top" /\ pc[d] = "unborn"
      BY <2>1, <2>3 DEF Spawn, LoopTyped
    <3>2. Ordered(d)'
      BY <2>2 DEF Local, Ordered
    <3> QED  BY <2>2, <3>1, <3>2 DEF Local, Wakes, Stopping, Timed
  <2>4. CASE d # p
    <3>1. pc'[d] = pc[d]
      BY <2>1, <2>4 DEF Spawn, LoopTyped
    <3> QED  BY <2>2, <3>1, LocalSame
  <2> QED  BY <2>3, <2>4
<1>3. ASSUME NEW p \in Procs,
             \/ LoopTop(p) \/ Collect(p) \/ EndTurn(p) \/ AbortEnd(p) \/ SendDeath(p)
             \/ Read(p) \/ Abort(p) \/ IdleStop(p) \/ Kill(p) \/ Exit(p) \/ Crash(p)
      PROVE  Local(d)'
  <2>1. CASE d = p
    <3>1. CASE Read(p)
      BY <2>1, <3>1, LocalRead
    <3>2. CASE LoopTop(p) \/ Collect(p) \/ EndTurn(p) \/ AbortEnd(p) \/ SendDeath(p)
      BY <2>1, <3>2, LocalLoop
    <3>3. CASE Abort(p) \/ IdleStop(p) \/ Kill(p) \/ Exit(p) \/ Crash(p)
      BY <2>1, <3>3, LocalStop
    <3> QED  BY <1>3, <3>1, <3>2, <3>3
  <2>2. CASE d # p
    BY <1>3, <2>2, OthersKeep
  <2> QED  BY <2>1, <2>2
<1>4. \/ UNCHANGED loopVars
      \/ \E p \in Procs : Spawn(p)
      \/ \E p \in Procs :
             \/ LoopTop(p) \/ Collect(p) \/ EndTurn(p) \/ AbortEnd(p) \/ SendDeath(p)
             \/ Read(p) \/ Abort(p) \/ IdleStop(p) \/ Kill(p) \/ Exit(p) \/ Crash(p)
  <2>1. CASE UNCHANGED vars
    BY <2>1 DEF vars
  <2>2. CASE \E o \in Ops : Send(o) \/ Released(o) \/ GivesUp(o) \/ Resumed(o)
    BY <2>2 DEF Send, Released, GivesUp, Resumed
  <2>3. CASE (\E m \in Messages : Cancel(m)) \/ Sweep
    BY <2>3 DEF Cancel, Sweep
  <2>4. CASE \E p \in Procs : Ingest(p)
    BY <2>4 DEF Ingest
  <2>5. CASE \E p \in Procs : KeepAlive(p)
    BY <2>5 DEF KeepAlive
  <2> HIDE DEF loopVars
  <2> QED  BY Steps, <2>1, <2>2, <2>3, <2>4, <2>5
<1> QED  BY <1>1, <1>2, <1>3, <1>4

LEMMA LocalAlways == Spec => [](\A d \in Procs : Local(d))
<1>1. Spec => []Typed
  BY InitTyped, TypedStep, PTL DEF Spec
<1> QED  BY <1>1, InitLocal, LocalStep, PTL DEF Spec

\* However often a message is delivered, a runtime runs the messages in the
\* order of the log, and none twice.
THEOREM RunsInOrder == Spec => []RunsFollowTheLog
<1>1. (\A d \in Procs : Local(d)) => RunsFollowTheLog
  BY DEF Local, Ordered, RunsFollowTheLog
<1> QED  BY <1>1, LocalAlways, PTL

\* A loop that waits while messages are queued is about to be woken.
THEOREM LoopWakes == Spec => []NothingSleeps
<1>1. (\A d \in Procs : Local(d)) => NothingSleeps
  BY DEF Local, Wakes, NothingSleeps
<1> QED  BY <1>1, LocalAlways, PTL

\* A runtime that had a turn and has nothing to do has its idle timer set,
\* unless the abort of a stop is about to end it.
THEOREM IdleRuntimesStop == Spec => []IdleIsTimed
<1>1. (\A d \in Procs : Local(d)) => IdleIsTimed
  BY DEF Local, Stopping, Timed, IdleIsTimed
<1> QED  BY <1>1, LocalAlways, PTL

-----------------------------------------------------------------------------
(* One runtime after the other *)

\* A runtime is spawned when the supervisor knows all that live, so that only
\* one that was spawned later can still be unknown; and only the first that is
\* known is ever sent anything.
Succession ==
    /\ \A p \in tracked : Live(p)
    /\ \A p, q \in Procs : q < p =>
          /\ pc[q] = "unborn" => pc[p] = "unborn"
          /\ Live(p) /\ Live(q) => q \in tracked
    /\ \A p \in Procs : inPipe[p] # << >> \/ queue[p] # << >> => p \in Target

-----------------------------------------------------------------------------
(* Messages on their way to a turn, and the log *)

\* The log has what a line or an item of a queue stands for.
Current(item) == row[item.m] # "absent" /\ rowSeq[item.m] = item.seq

IsMessage(line) == line.type = "message"
Cancels(line, m) == line.type = "cancel" /\ m \in line.ms

\* No line of a pipe that is read after the first i cancels m.
Stays(pipe, i, m) == \A j \in DOMAIN pipe : i < j => ~Cancels(pipe[j], m)

\* An item is in the log exactly if its cancellation does not follow.
Follows(p) ==
    /\ \A i \in DOMAIN queue[p] :
          Current(queue[p][i]) <=> Stays(inPipe[p], 0, queue[p][i].m)
    /\ \A i \in DOMAIN inPipe[p] : IsMessage(inPipe[p][i]) =>
          (Current(inPipe[p][i].item) <=> Stays(inPipe[p], i, inPipe[p][i].item.m))

\* Nothing is newer than the log.
Dated ==
    /\ \A m \in Messages : rowSeq[m] <= lastSeq
    /\ \A p \in Procs :
          /\ lastSeen[p] <= lastSeq
          /\ \A i \in DOMAIN inPipe[p] :
                IsMessage(inPipe[p][i]) => inPipe[p][i].item.seq <= lastSeq

\* The lines of a pipe that grows, and of one that is read.
LEMMA AppendLines ==
    ASSUME NEW S, NEW pipe \in Seq(S), NEW line \in S
    PROVE  /\ DOMAIN Append(pipe, line) = DOMAIN pipe \cup {Len(pipe) + 1}
           /\ \A i \in DOMAIN pipe : /\ Append(pipe, line)[i] = pipe[i]
                                     /\ i \in Nat /\ i < Len(pipe) + 1
           /\ Append(pipe, line)[Len(pipe) + 1] = line
           /\ Len(pipe) + 1 \in Nat
OBVIOUS

LEMMA TailLines ==
    ASSUME NEW S, NEW pipe \in Seq(S), pipe # << >>
    PROVE  /\ \A i \in DOMAIN Tail(pipe) :
                  /\ i + 1 \in DOMAIN pipe /\ Tail(pipe)[i] = pipe[i + 1]
                  /\ i \in Nat /\ i > 0
           /\ \A i \in DOMAIN pipe :
                  /\ i \in Nat /\ i > 0
                  /\ i > 1 => i - 1 \in DOMAIN Tail(pipe) /\ Tail(pipe)[i - 1] = pipe[i]
           /\ Head(pipe) = pipe[1] /\ 1 \in DOMAIN pipe
<1>1. Len(pipe) \in Nat /\ Len(pipe) > 0 /\ DOMAIN pipe = 1..Len(pipe)
  OBVIOUS
<1>2. DOMAIN Tail(pipe) = 1..(Len(pipe) - 1)
        /\ \A i \in 1..(Len(pipe) - 1) : Tail(pipe)[i] = pipe[i + 1]
  OBVIOUS
<1>3. \A i \in DOMAIN Tail(pipe) :
          /\ i + 1 \in DOMAIN pipe /\ Tail(pipe)[i] = pipe[i + 1]
          /\ i \in Nat /\ i > 0
  BY <1>1, <1>2
<1>4. ASSUME NEW i \in DOMAIN pipe
      PROVE  /\ i \in Nat /\ i > 0
             /\ i > 1 => i - 1 \in DOMAIN Tail(pipe) /\ Tail(pipe)[i - 1] = pipe[i]
  <2>1. i \in Nat /\ i > 0 /\ i <= Len(pipe)
    BY <1>1
  <2>2. ASSUME i > 1 PROVE i - 1 \in DOMAIN Tail(pipe) /\ Tail(pipe)[i - 1] = pipe[i]
    <3>1. PICK k \in Nat : k = i - 1 /\ k \in 1..(Len(pipe) - 1) /\ k + 1 = i
      BY <1>1, <2>1, <2>2
    <3> QED  BY <1>2, <3>1
  <2> QED  BY <2>1, <2>2
<1>5. Head(pipe) = pipe[1] /\ 1 \in DOMAIN pipe
  BY <1>1
<1> QED  BY <1>3, <1>4, <1>5

LEMMA StaysAppend ==
    ASSUME NEW pipe \in Seq(InLines), NEW line \in InLines, NEW m
    PROVE  /\ \A i \in Nat : i <= Len(pipe) =>
                  (Stays(Append(pipe, line), i, m) <=>
                       Stays(pipe, i, m) /\ ~Cancels(line, m))
           /\ Stays(Append(pipe, line), Len(pipe) + 1, m)
<1>1. /\ DOMAIN Append(pipe, line) = DOMAIN pipe \cup {Len(pipe) + 1}
      /\ \A i \in DOMAIN pipe : Append(pipe, line)[i] = pipe[i]
                                  /\ i \in Nat /\ i < Len(pipe) + 1
      /\ Append(pipe, line)[Len(pipe) + 1] = line /\ Len(pipe) + 1 \in Nat
  BY AppendLines
<1>2. Len(pipe) \in Nat
  OBVIOUS
<1>3. ASSUME NEW i \in Nat, i <= Len(pipe)
      PROVE  Stays(Append(pipe, line), i, m) <=>
                 Stays(pipe, i, m) /\ ~Cancels(line, m)
  BY <1>1, <1>2, <1>3 DEF Stays
<1>4. Stays(Append(pipe, line), Len(pipe) + 1, m)
  BY <1>1, <1>2 DEF Stays
<1> QED  BY <1>3, <1>4

LEMMA StaysTail ==
    ASSUME NEW pipe \in Seq(InLines), pipe # << >>, NEW m
    PROVE  /\ \A i \in Nat : Stays(pipe, i + 1, m) <=> Stays(Tail(pipe), i, m)
           /\ Stays(pipe, 0, m) <=> Stays(Tail(pipe), 0, m) /\ ~Cancels(Head(pipe), m)
<1>1. /\ \A i \in DOMAIN Tail(pipe) :
             /\ i + 1 \in DOMAIN pipe /\ Tail(pipe)[i] = pipe[i + 1]
             /\ i \in Nat /\ i > 0
      /\ \A i \in DOMAIN pipe :
             /\ i \in Nat /\ i > 0
             /\ i > 1 => i - 1 \in DOMAIN Tail(pipe) /\ Tail(pipe)[i - 1] = pipe[i]
      /\ Head(pipe) = pipe[1] /\ 1 \in DOMAIN pipe
  BY TailLines
<1>2. ASSUME NEW i \in Nat, Stays(pipe, i + 1, m) PROVE Stays(Tail(pipe), i, m)
  <2> SUFFICES ASSUME NEW j \in DOMAIN Tail(pipe), i < j
               PROVE  ~Cancels(Tail(pipe)[j], m)
    BY DEF Stays
  <2>1. j + 1 \in DOMAIN pipe /\ Tail(pipe)[j] = pipe[j + 1] /\ i + 1 < j + 1
    BY <1>1
  <2> QED  BY <1>2, <2>1 DEF Stays
<1>3. ASSUME NEW i \in Nat, Stays(Tail(pipe), i, m) PROVE Stays(pipe, i + 1, m)
  <2> SUFFICES ASSUME NEW j \in DOMAIN pipe, i + 1 < j
               PROVE  ~Cancels(pipe[j], m)
    BY DEF Stays
  <2>1. PICK k : k = j - 1
    OBVIOUS
  <2>2. k \in DOMAIN Tail(pipe) /\ Tail(pipe)[k] = pipe[j] /\ i < k
    BY <1>1, <2>1
  <2> QED  BY <1>3, <2>2 DEF Stays
<1>4. Stays(pipe, 0, m) <=> Stays(pipe, 1, m) /\ ~Cancels(Head(pipe), m)
  BY <1>1 DEF Stays
<1>5. Stays(pipe, 1, m) <=> Stays(Tail(pipe), 0, m)
  <2>1. 0 \in Nat /\ 0 + 1 = 1
    OBVIOUS
  <2> QED  BY <1>2, <1>3, <2>1
<1> QED  BY <1>2, <1>3, <1>4, <1>5

\* A cancellation leaves every other item in the queue.
LEMMA RemoveKeeps ==
    ASSUME queue \in [Procs -> Seq(Items)], NEW p \in Procs, NEW ms, Remove(p, ms)
    PROVE  /\ \A i \in DOMAIN queue'[p] :
                  \E k \in DOMAIN queue[p] : queue'[p][i] = queue[p][k]
                                               /\ queue[p][k].m \notin ms
           /\ \A k \in DOMAIN queue[p] : queue[p][k].m \notin ms =>
                  \E i \in DOMAIN queue'[p] : queue'[p][i] = queue[p][k]
<1> DEFINE kept == {i \in DOMAIN queue[p] : queue[p][i].m \notin ms}
           size == Cardinality(kept)
<1>1. queue[p] \in Seq(Items) /\ DOMAIN queue[p] = 1..Len(queue[p]) /\ Len(queue[p]) \in Nat
  OBVIOUS
<1>2. IsFiniteSet(kept) /\ size \in Nat /\ kept \subseteq Nat
  <2>1. IsFiniteSet(1..Len(queue[p]))
    BY <1>1, UpTo
  <2>2. kept \subseteq 1..Len(queue[p])
    BY <1>1
  <2> HIDE DEF kept
  <2>3. IsFiniteSet(kept)
    BY <2>1, <2>2, FS_Subset
  <2> QED  BY <2>2, <2>3, FS_CardinalityType
<1>3. PICK at \in [1..size -> kept] :
          /\ \A i, j \in 1..size : i < j => at[i] < at[j]
          /\ queue' = [queue EXCEPT ![p] = [i \in 1..size |-> queue[p][at[i]]]]
  BY DEF Remove
<1>4. \A k \in kept : k \in DOMAIN queue[p] /\ queue[p][k].m \notin ms
  OBVIOUS
<1>5. \A k \in DOMAIN queue[p] : queue[p][k].m \notin ms => k \in kept
  OBVIOUS
<1> HIDE DEF kept, size
<1>6. \A i \in 1..size : at[i] \in kept /\ at[i] \in Nat
  BY <1>2, <1>3
<1>7. at \in Injection(1..size, kept)
  <2>1. \A i, j \in 1..size : at[i] = at[j] => i = j
    <3> SUFFICES ASSUME NEW i \in 1..size, NEW j \in 1..size, i # j
                 PROVE  at[i] # at[j]
      OBVIOUS
    <3>1. i < j \/ j < i
      BY <1>2
    <3>2. at[i] \in Nat /\ at[j] \in Nat
      BY <1>6
    <3> QED  BY <1>3, <3>1, <3>2
  <2> QED  BY <1>3, <2>1 DEF Injection, IsInjective
<1>8. Cardinality(1..size) = Cardinality(kept)
  <2>1. Cardinality(1..size) = size
    BY <1>2, UpTo
  <2> QED  BY <2>1 DEF size
<1>9. at \in Surjection(1..size, kept)
  BY <1>2, <1>7, <1>8, FS_Injection
<1>10. \A k \in kept : \E i \in 1..size : at[i] = k
  BY <1>9 DEF Surjection
<1>11. queue'[p] = [i \in 1..size |-> queue[p][at[i]]]
  BY <1>3
<1>12. DOMAIN queue'[p] = 1..size /\ \A i \in 1..size : queue'[p][i] = queue[p][at[i]]
  BY <1>11
<1>13. ASSUME NEW k \in DOMAIN queue[p], queue[p][k].m \notin ms
       PROVE  \E i \in DOMAIN queue'[p] : queue'[p][i] = queue[p][k]
  <2>1. k \in kept
    BY <1>5, <1>13
  <2>2. PICK i \in 1..size : at[i] = k
    BY <1>10, <2>1
  <2> QED  BY <1>12, <2>2
<1>14. ASSUME NEW i \in DOMAIN queue'[p]
       PROVE  \E k \in DOMAIN queue[p] : queue'[p][i] = queue[p][k]
                                            /\ queue[p][k].m \notin ms
  <2>1. i \in 1..size /\ queue'[p][i] = queue[p][at[i]]
    BY <1>12
  <2> QED  BY <1>4, <1>6, <2>1
<1> QED  BY <1>13, <1>14

-----------------------------------------------------------------------------
(* What a step does to the way of a message *)

\* What the runtimes have said and nobody has read stays to be read.
Speaks ==
    \A p \in Procs : \A i \in DOMAIN outPipe[p] :
        i \in DOMAIN outPipe'[p] /\ outPipe'[p][i] = outPipe[p][i]

\* Nothing moves that has to do with messages.
Rests ==
    /\ UNCHANGED <<logVars, tracked, inPipe, queue, lastSeen, lost>>
    /\ Speaks
    /\ \A p \in Procs : pc'[p] = pc[p] \/ (Live(p) /\ pc'[p] \in LoopStates)

\* A turn begins in a loop that is at its top, or was woken.
Turns(p) ==
    /\ StartTurn(p) /\ pc[p] \in {"top", "woken"}
    /\ UNCHANGED <<logVars, tracked, inPipe, lastSeen, lost>>

Stops(p) == Running(p) /\ \E announced \in Seq(OutLines) : Reset(p, announced)

LEMMA SaysMore ==
    ASSUME PipesTyped, NEW p \in Procs, NEW lines \in Seq(OutLines), Says(p, lines)
    PROVE  /\ Speaks
           /\ \A i \in DOMAIN lines : \E j \in DOMAIN outPipe'[p] :
                  outPipe'[p][j] = lines[i]
<1>1. outPipe[p] \in Seq(OutLines) /\ outPipe \in [Procs -> Seq(OutLines)]
  BY DEF PipesTyped
<1>2. outPipe'[p] = outPipe[p] \o lines /\ \A d \in Procs \ {p} : outPipe'[d] = outPipe[d]
  BY <1>1 DEF Says
<1> DEFINE old == outPipe[p]
           now == outPipe[p] \o lines
<1>3. /\ Len(old) \in Nat /\ Len(lines) \in Nat
      /\ DOMAIN old = 1..Len(old) /\ DOMAIN lines = 1..Len(lines)
      /\ DOMAIN now = 1..(Len(old) + Len(lines))
      /\ \A i \in 1..(Len(old) + Len(lines)) :
             now[i] = IF i <= Len(old) THEN old[i] ELSE lines[i - Len(old)]
  BY <1>1
<1> HIDE DEF old, now
<1>4. \A i \in DOMAIN old : i \in DOMAIN now /\ now[i] = old[i]
  BY <1>3
<1>5. ASSUME NEW i \in DOMAIN lines PROVE \E j \in DOMAIN now : now[j] = lines[i]
  <2>1. PICK j : j = Len(old) + i
    OBVIOUS
  <2>2. j \in DOMAIN now /\ ~(j <= Len(old)) /\ j - Len(old) = i
    BY <1>3, <2>1
  <2> QED  BY <1>3, <2>2
<1>6. Speaks
  BY <1>2, <1>4 DEF Speaks, old, now
<1> QED  BY <1>2, <1>5, <1>6 DEF now

\* Every step of the system is one of these.
LEMMA Kinds ==
    ASSUME HubTyped, PipesTyped, LoopTyped, [Next]_vars
    PROVE  \/ Rests
           \/ \E o \in Ops, queued \in BOOLEAN :
                  /\ AppendMessage(o, queued)
                  /\ UNCHANGED <<active, thinking, tracked, outPipe, loopVars>>
           \/ \E m \in Messages : Cancel(m)
           \/ \E p \in Procs : Ingest(p) \/ Spawn(p) \/ Read(p) \/ Turns(p) \/ Stops(p)
           \/ \E p \in Procs : Live(p) /\ Gone(p)
<1> DEFINE Posted ==
        \E o \in Ops, queued \in BOOLEAN :
            /\ AppendMessage(o, queued)
            /\ UNCHANGED <<active, thinking, tracked, outPipe, loopVars>>
           Alone(p) == Ingest(p) \/ Spawn(p) \/ Read(p) \/ Turns(p) \/ Stops(p)
           Goal ==
             \/ Rests \/ Posted
             \/ \E m \in Messages : Cancel(m)
             \/ \E p \in Procs : Alone(p)
             \/ \E p \in Procs : Live(p) /\ Gone(p)
<1> SUFFICES Goal
  OBVIOUS
<1>a. \A p \in Procs : Alone(p) => Goal
  OBVIOUS
<1>b. \A p \in Procs : Live(p) /\ Gone(p) => Goal
  OBVIOUS
<1>c. Rests => Goal
  OBVIOUS
<1>d. Posted => Goal
  OBVIOUS
<1>e. (\E m \in Messages : Cancel(m)) => Goal
  OBVIOUS
<1> HIDE DEF Goal
<1>1. outPipe' = outPipe => Speaks
  BY DEF Speaks
<1>2. CASE UNCHANGED vars \/ Sweep
  <2>1. Rests
    BY <1>1, <1>2 DEF vars, Sweep, Rests
  <2> QED  BY <2>1, <1>c
<1>3. ASSUME NEW o \in Ops, Send(o) \/ Released(o) \/ GivesUp(o) \/ Resumed(o)
      PROVE  Goal
  <2>1. UNCHANGED <<active, thinking, tracked, outPipe, loopVars>>
    BY <1>3 DEF Send, Released, GivesUp, Resumed
  <2>2. asQueued[o] \in BOOLEAN
    BY DEF HubTyped
  <2>3. \/ \E queued \in BOOLEAN : AppendMessage(o, queued)
        \/ UNCHANGED <<logVars, inPipe, lost>>
    BY <1>3, <2>2 DEF Send, Released, GivesUp, Resumed, Waits
  <2>4. CASE \E queued \in BOOLEAN : AppendMessage(o, queued)
    BY <2>1, <2>4, <1>d
  <2>5. CASE UNCHANGED <<logVars, inPipe, lost>>
    <3>1. Rests
      BY <1>1, <2>1, <2>5 DEF Rests
    <3> QED  BY <3>1, <1>c
  <2> QED  BY <2>3, <2>4, <2>5
<1>4. ASSUME NEW p \in Procs,
             \/ LoopTop(p) \/ Collect(p) \/ EndTurn(p) \/ KeepAlive(p)
             \/ AbortEnd(p) \/ SendDeath(p)
      PROVE  Goal
  <2>1. UNCHANGED <<logVars, tracked, inPipe, lastSeen, lost>>
    BY <1>4 DEF LoopTop, Collect, EndTurn, KeepAlive, AbortEnd, SendDeath
  <2>2. CASE (LoopTop(p) \/ Collect(p)) /\ StartTurn(p)
    <3>1. Turns(p)
      BY <2>1, <2>2 DEF LoopTop, Collect, Turns
    <3> QED  BY <3>1, <1>a
  <2>3. CASE (LoopTop(p) \/ Collect(p)) /\ ~StartTurn(p)
    <3>1. queue' = queue /\ outPipe' = outPipe
      BY <2>3 DEF LoopTop, Collect
    <3>2. /\ Live(p) /\ pc'[p] \in LoopStates
          /\ \A d \in Procs \ {p} : pc'[d] = pc[d]
      BY <2>3 DEF LoopTop, Collect, LoopTyped, Live, LoopStates
    <3>3. Rests
      BY <1>1, <2>1, <3>1, <3>2 DEF Rests
    <3> QED  BY <3>3, <1>c
  <2>4. CASE AbortEnd(p)
    <3>1. queue' = queue /\ outPipe' = outPipe
      BY <2>4 DEF AbortEnd
    <3>2. /\ Live(p) /\ pc'[p] \in LoopStates
          /\ \A d \in Procs \ {p} : pc'[d] = pc[d]
      BY <2>4 DEF AbortEnd, LoopTyped, Live, LoopStates
    <3>3. Rests
      BY <1>1, <2>1, <3>1, <3>2 DEF Rests
    <3> QED  BY <3>3, <1>c
  <2>5. CASE EndTurn(p) \/ KeepAlive(p) \/ SendDeath(p)
    <3>1. queue' = queue
      BY <2>5 DEF EndTurn, KeepAlive, SendDeath
    <3>2. \/ Says(p, <<AliveLine(FALSE)>>) \/ Says(p, <<AliveLine(busy[p])>>)
          \/ Says(p, <<Line("end")>>)
      BY <2>5 DEF EndTurn, KeepAlive, SendDeath
    <3>3. /\ AliveLine(FALSE) \in OutLines /\ AliveLine(busy[p]) \in OutLines
          /\ Line("end") \in OutLines
      BY AliveLineType, LineType DEF LoopTyped
    <3>4. Speaks
      BY <3>2, <3>3, LinesType, SaysMore
    <3>5. /\ Live(p) /\ pc'[p] \in LoopStates
          /\ \A d \in Procs \ {p} : pc'[d] = pc[d]
      BY <2>5 DEF EndTurn, KeepAlive, SendDeath, LoopTyped, Live, Running, LoopStates
    <3>6. Rests
      BY <2>1, <3>1, <3>4, <3>5 DEF Rests
    <3> QED  BY <3>6, <1>c
  <2> QED  BY <1>4, <2>2, <2>3, <2>4, <2>5
<1>5. ASSUME NEW p \in Procs, Abort(p) \/ IdleStop(p) \/ Kill(p) \/ Exit(p) \/ Crash(p)
      PROVE  Goal
  <2>1. << >> \in Seq(OutLines) /\ <<Line("stopping")>> \in Seq(OutLines)
    BY LineType, LinesType
  <2>2. CASE Abort(p) \/ IdleStop(p) \/ Kill(p)
    <3>1. Stops(p)
      BY <2>1, <2>2 DEF Abort, IdleStop, Kill, RequestStop, Stops
    <3> QED  BY <3>1, <1>a
  <2>3. CASE Exit(p) \/ Crash(p)
    <3>1. Live(p) /\ Gone(p)
      BY <2>3 DEF Exit, Crash, Live, Running, LoopStates
    <3> QED  BY <3>1, <1>b
  <2> QED  BY <1>5, <2>2, <2>3
<1>6. ASSUME \/ \E m \in Messages : Cancel(m)
             \/ \E p \in Procs : Ingest(p) \/ Spawn(p) \/ Read(p)
      PROVE  Goal
  BY <1>6, <1>a, <1>e
<1> QED  BY Steps, <1>2, <1>3, <1>4, <1>5, <1>6

\* Tracking and the target stay while nobody is spawned, announced or gone.
LEMMA SuccessionKept ==
    ASSUME PipesTyped, Succession, tracked' = tracked,
           \A d \in Procs : /\ Live(d) <=> pc'[d] \in LoopStates
                            /\ pc[d] = "unborn" <=> pc'[d] = "unborn"
                            /\ inPipe'[d] # << >> \/ queue'[d] # << >> =>
                                   inPipe[d] # << >> \/ queue[d] # << >> \/ d \in Target
    PROVE  Succession'
<1>1. Target' = Target /\ tracked \subseteq Procs
  BY DEF Target, PipesTyped
<1> QED  BY <1>1 DEF Succession, Live

LEMMA SuccessionStep ==
    ASSUME HubTyped, PipesTyped, LoopTyped, Succession, [Next]_vars
    PROVE  Succession'
<1>1. CASE Rests
  <2>1. \A d \in Procs : /\ Live(d) <=> pc'[d] \in LoopStates
                         /\ pc[d] = "unborn" <=> pc'[d] = "unborn"
    BY <1>1 DEF Rests, Live, LoopStates
  <2> QED  BY <1>1, <2>1, SuccessionKept DEF Rests
<1>2. ASSUME UNCHANGED <<tracked, pc, queue>>,
             \/ inPipe' = inPipe
             \/ \E line \in InLines : inPipe' = Sent(inPipe, line)
      PROVE  Succession'
  <2>1. \A d \in Procs : inPipe'[d] # << >> => inPipe[d] # << >> \/ d \in Target
    BY <1>2 DEF Sent
  <2> QED  BY <1>2, <2>1, SuccessionKept DEF Live
<1>3. ASSUME NEW o \in Ops, NEW queued \in BOOLEAN, AppendMessage(o, queued),
             UNCHANGED <<active, thinking, tracked, outPipe, loopVars>>
      PROVE  Succession'
  <2>1. PICK line : inPipe' = Sent(inPipe, line)
    BY <1>3 DEF AppendMessage
  <2>2. \A d \in Procs : inPipe'[d] # << >> => inPipe[d] # << >> \/ d \in Target
    BY <2>1 DEF Sent
  <2> QED  BY <1>3, <2>2, SuccessionKept DEF Live
<1>4. ASSUME NEW ms, CancelRows(ms, inPipe), UNCHANGED <<tracked, pc, queue>>
      PROVE  Succession'
  <2>1. inPipe' = inPipe \/ \E line : inPipe' = Sent(inPipe, line)
    BY <1>4 DEF CancelRows
  <2>2. \A d \in Procs : inPipe'[d] # << >> => inPipe[d] # << >> \/ d \in Target
    BY <2>1 DEF Sent
  <2> QED  BY <1>4, <2>2, SuccessionKept DEF Live
<1>5. ASSUME NEW m \in Messages, Cancel(m) PROVE Succession'
  BY <1>4, <1>5 DEF Cancel
<1>6. ASSUME NEW p \in Procs, Ingest(p) PROVE Succession'
  <2>1. UNCHANGED <<pc, queue>> /\ Live(p)
    BY <1>6 DEF Ingest
  <2>2. \/ Started(p) \/ UNCHANGED <<tracked, inPipe>>
        \/ \E ms : CancelRows(ms, inPipe) /\ UNCHANGED tracked
    BY <1>6 DEF Ingest, Alive, MarkStopping, Consumed, Canceled, SessionEnd
  <2>3. CASE Started(p)
    <3>1. tracked' = tracked \cup {p} /\ inPipe' = inPipe
      BY <2>3 DEF Started
    <3>2. ASSUME NEW d \in Procs, d \in Target PROVE d \in Target'
      <4>1. d <= p
        <5>1. CASE p < d
          <6>1. Live(d)
            BY <3>2 DEF Succession, Target
          <6>2. p \in tracked
            BY <2>1, <5>1, <6>1 DEF Succession
          <6> QED  BY <3>2, <6>2 DEF Target
        <5> QED  BY <5>1 DEF Procs
      <4> QED  BY <3>1, <3>2, <4>1 DEF Target
    <3>3. \A d \in Procs : inPipe'[d] # << >> \/ queue'[d] # << >> => d \in Target'
      BY <2>1, <3>1, <3>2 DEF Succession
    <3> QED  BY <2>1, <3>1, <3>3 DEF Succession, Live
  <2> QED  BY <1>2, <1>4, <2>1, <2>2, <2>3
<1>7. ASSUME NEW p \in Procs, Spawn(p) PROVE Succession'
  <2>1. /\ pc[p] = "unborn" /\ \A q \in Procs : q < p => pc[q] # "unborn"
        /\ \A q \in Procs : Live(q) => q \in tracked
        /\ UNCHANGED <<tracked, inPipe, queue>>
        /\ pc'[p] = "top" /\ \A d \in Procs \ {p} : pc'[d] = pc[d]
    BY <1>7 DEF Spawn, LoopTyped
  <2>2. \A d \in Procs : p < d => pc[d] = "unborn"
    BY <2>1 DEF Succession
  <2>3. \A d \in Procs : d # p => d < p \/ p < d
    BY DEF Procs
  <2>4. \A d \in Procs \ {p} : pc'[d] \in LoopStates <=> Live(d)
    BY <2>1 DEF Live
  <2>5. pc'[p] \in LoopStates /\ ~Live(p) /\ \A d \in Procs : Live(d) => pc[d] # "unborn"
    BY <2>1 DEF Live, LoopStates
  <2>6. \A d, q \in Procs : q < d =>
           /\ pc'[q] = "unborn" => pc'[d] = "unborn"
           /\ pc'[d] \in LoopStates /\ pc'[q] \in LoopStates => q \in tracked
    <3> SUFFICES ASSUME NEW d \in Procs, NEW q \in Procs, q < d
                 PROVE  /\ pc'[q] = "unborn" => pc'[d] = "unborn"
                        /\ pc'[d] \in LoopStates /\ pc'[q] \in LoopStates => q \in tracked
      OBVIOUS
    <3>1. CASE d = p
      BY <2>1, <2>4, <3>1
    <3>2. CASE q = p
      BY <2>1, <2>2, <2>4, <2>5, <3>2
    <3>3. CASE d # p /\ q # p
      BY <2>1, <2>4, <3>3 DEF Succession
    <3> QED  BY <3>1, <3>2, <3>3
  <2>7. \A d \in tracked : pc'[d] \in LoopStates
    BY <2>4, <2>5 DEF Succession, PipesTyped
  <2> QED  BY <2>1, <2>6, <2>7 DEF Succession, Live, Target
<1>8. ASSUME NEW p \in Procs, Read(p) PROVE Succession'
  <2>1. tracked' = tracked /\ inPipe[p] # << >> /\ Live(p)
          /\ \A d \in Procs \ {p} : inPipe'[d] = inPipe[d]
    BY <1>8 DEF Read, PipesTyped
  <2>2. PICK line : \/ Enqueue(p, line.item)
                    \/ Remove(p, line.ms)
    BY <1>8 DEF Read
  <2>3. \A d \in Procs \ {p} : queue'[d] = queue[d] /\ pc'[d] = pc[d]
    BY <2>2 DEF Enqueue, Remove, LoopTyped
  <2>4. pc'[p] \in {pc[p], "woken"}
    BY <2>2 DEF Enqueue, Remove, LoopTyped
  <2>5. \A d \in Procs : /\ Live(d) <=> pc'[d] \in LoopStates
                         /\ pc[d] = "unborn" <=> pc'[d] = "unborn"
    BY <2>1, <2>3, <2>4 DEF Live, LoopStates
  <2> QED  BY <2>1, <2>3, <2>5, SuccessionKept
<1>9. ASSUME NEW p \in Procs, Turns(p) PROVE Succession'
  <2>1. /\ UNCHANGED <<tracked, inPipe>> /\ pc[p] \in {"top", "woken"}
        /\ pc'[p] = "turn" /\ \A d \in Procs \ {p} : pc'[d] = pc[d] /\ queue'[d] = queue[d]
    BY <1>9 DEF Turns, StartTurn, LoopTyped
  <2>2. PICK n \in 1..Len(queue[p]) : TRUE
    BY <1>9 DEF Turns, StartTurn
  <2>3. queue[p] # << >>
    BY <2>2
  <2>4. \A d \in Procs : /\ Live(d) <=> pc'[d] \in LoopStates
                         /\ pc[d] = "unborn" <=> pc'[d] = "unborn"
    BY <2>1 DEF Live, LoopStates
  <2> QED  BY <2>1, <2>3, <2>4, SuccessionKept
<1>10. ASSUME NEW p \in Procs, Stops(p) PROVE Succession'
  <2>1. UNCHANGED <<tracked, inPipe, pc>> /\ queue' = [queue EXCEPT ![p] = << >>]
    BY <1>10 DEF Stops, Reset
  <2>2. \A d \in Procs : queue'[d] # << >> => queue[d] # << >>
    BY <2>1 DEF LoopTyped
  <2> QED  BY <2>1, <2>2, SuccessionKept DEF Live
<1>11. ASSUME NEW p \in Procs, Live(p), Gone(p) PROVE Succession'
  <2>1. /\ pc'[p] = "gone" /\ inPipe'[p] = << >> /\ queue'[p] = << >>
        /\ \A d \in Procs \ {p} : /\ pc'[d] = pc[d] /\ inPipe'[d] = inPipe[d]
                                  /\ queue'[d] = queue[d]
        /\ tracked' = tracked \ {p}
    BY <1>11 DEF Gone, LoopTyped, PipesTyped
  <2>2. pc'[p] \notin LoopStates /\ pc[p] # "unborn" /\ pc'[p] # "unborn"
    BY <1>11, <2>1 DEF Live, LoopStates
  <2>3. \A d \in Procs \ {p} : d \in Target => d \in Target'
    BY <2>1 DEF Target
  <2>4. \A d \in Procs : inPipe'[d] # << >> \/ queue'[d] # << >> => d \in Target'
    BY <2>1, <2>3 DEF Succession
  <2>5. \A d \in tracked' : pc'[d] \in LoopStates
    BY <2>1 DEF Succession, Live, PipesTyped
  <2>6. \A d, q \in Procs : q < d =>
           /\ pc'[q] = "unborn" => pc'[d] = "unborn"
           /\ pc'[d] \in LoopStates /\ pc'[q] \in LoopStates => q \in tracked'
    <3> SUFFICES ASSUME NEW d \in Procs, NEW q \in Procs, q < d
                 PROVE  /\ pc'[q] = "unborn" => pc'[d] = "unborn"
                        /\ pc'[d] \in LoopStates /\ pc'[q] \in LoopStates => q \in tracked'
      OBVIOUS
    <3>1. CASE d = p
      BY <2>1, <2>2, <3>1 DEF Succession
    <3>2. CASE q = p
      BY <2>1, <2>2, <3>2 DEF Succession
    <3>3. CASE d # p /\ q # p
      BY <2>1, <3>3 DEF Succession, Live
    <3> QED  BY <3>1, <3>2, <3>3
  <2> QED  BY <2>4, <2>5, <2>6 DEF Succession, Live
<1> QED
  BY Kinds, <1>1, <1>3, <1>5, <1>6, <1>7, <1>8, <1>9, <1>10, <1>11

-----------------------------------------------------------------------------
(* The steps of the log *)

\* appendMessage stores a message with the next seq, or finds the row it has;
\* the line that is sent names that row.
Posts(m, seq) ==
    /\ row[m] = "absent" => seq = lastSeq + 1 /\ lastSeq' = seq
    /\ row[m] # "absent" => seq = rowSeq[m] /\ lastSeq' = lastSeq /\ row'[m] = row[m]
    /\ row'[m] # "absent"
    /\ \A n \in Messages \ {m} : row'[n] = row[n]
    /\ rowSeq' = [rowSeq EXCEPT ![m] = seq]
    /\ inPipe' = Sent(inPipe, MessageLine(m, seq))
    /\ lost' = IF Target = {} THEN lost \cup {m} ELSE lost

\* The rows ms are taken back, and the target is told.
TakesBack(ms) ==
    /\ \A m \in Messages : row'[m] = IF m \in ms THEN "absent" ELSE row[m]
    /\ \A m \in ms : row[m] = "queued"
    /\ UNCHANGED <<rowSeq, lastSeq, lost>>
    /\ inPipe' = IF ms = {} THEN inPipe ELSE Sent(inPipe, CancelLine(ms))

\* Rows only change from waiting to invoked.
Invokes ==
    /\ \A m \in Messages : row'[m] \in {row[m], "invoked"}
                             /\ (row[m] = "absent" => row'[m] = "absent")
    /\ UNCHANGED <<rowSeq, lastSeq, lost, inPipe>>

LEMMA AppendPosts ==
    ASSUME HubTyped, NEW o \in Ops, NEW queued \in BOOLEAN, AppendMessage(o, queued)
    PROVE  \E m \in Messages, seq \in Seqs : Posts(m, seq)
<1> DEFINE m == o[1]
           seq == IF row[m] = "absent" THEN lastSeq + 1 ELSE rowSeq[m]
<1>1. m \in Messages
  BY DEF Ops
<1>2. seq \in Seqs
  BY <1>1 DEF HubTyped, RowsNumbered, Seqs
<1>3. /\ row' = [row EXCEPT ![m] = IF row[m] # "absent" THEN @
                                   ELSE IF queued THEN "queued" ELSE "invoked"]
      /\ rowSeq' = [rowSeq EXCEPT ![m] = seq]
      /\ lastSeq' = IF row[m] = "absent" THEN seq ELSE lastSeq
      /\ inPipe' = Sent(inPipe, MessageLine(m, seq))
      /\ lost' = IF Target = {} THEN lost \cup {m} ELSE lost
  BY DEF AppendMessage
<1>4. /\ row[m] = "absent" => seq = lastSeq + 1
      /\ row[m] # "absent" => seq = rowSeq[m]
  OBVIOUS
<1> HIDE DEF m, seq
<1>5. /\ row'[m] # "absent" /\ (row[m] # "absent" => row'[m] = row[m])
      /\ \A n \in Messages \ {m} : row'[n] = row[n]
  BY <1>1, <1>3 DEF HubTyped
<1>6. Posts(m, seq)
  BY <1>3, <1>4, <1>5 DEF Posts
<1> QED  BY <1>1, <1>2, <1>6

LEMMA CancelTakesBack ==
    ASSUME NEW ms \in SUBSET Messages, CancelRows(ms, inPipe),
           UNCHANGED <<rowSeq, lastSeq, lost>>
    PROVE  \E gone \in SUBSET Messages :
               /\ TakesBack(gone)
               /\ \A m \in ms : row[m] = "queued" => m \in gone
<1> DEFINE gone == {m \in ms : row[m] = "queued"}
<1>1. /\ row' = [m \in Messages |-> IF m \in gone THEN "absent" ELSE row[m]]
      /\ inPipe' = IF gone = {} THEN inPipe ELSE Sent(inPipe, CancelLine(gone))
  BY DEF CancelRows
<1>2. gone \in SUBSET Messages /\ \A m \in gone : row[m] = "queued"
  OBVIOUS
<1>3. \A m \in ms : row[m] = "queued" => m \in gone
  OBVIOUS
<1> HIDE DEF gone
<1>4. TakesBack(gone)
  BY <1>1, <1>2 DEF TakesBack
<1> QED  BY <1>2, <1>3, <1>4

\* What the Hub does on a line of a runtime.  What a runtime said it took or
\* dropped no longer waits then.
LEMMA IngestKinds ==
    ASSUME HubTyped, PipesTyped, LoopTyped, NEW p \in Procs, Ingest(p)
    PROVE  /\ Live(p) /\ UNCHANGED <<pc, queue, lastSeen, rowSeq, lastSeq, lost>>
           /\ Invokes \/ \E ms \in SUBSET Messages : TakesBack(ms)
           /\ outPipe[p] # << >> /\ outPipe' = [outPipe EXCEPT ![p] = Tail(@)]
           /\ Head(outPipe[p]).type \in {"consumed", "canceled"} =>
                  \A m \in Head(outPipe[p]).ms : row'[m] # "queued"
<1> DEFINE line == Head(outPipe[p])
<1>1. /\ Live(p) /\ UNCHANGED <<pc, queue, lastSeen, rowSeq, lastSeq, lost>>
      /\ outPipe[p] # << >> /\ outPipe' = [outPipe EXCEPT ![p] = Tail(@)]
  BY DEF Ingest
<1>2. line \in OutLines
  BY <1>1 DEF PipesTyped
<1>3. \/ line.type = "started" /\ Started(p)
      \/ line.type = "alive" /\ Alive(line.thinking)
      \/ line.type = "stopping" /\ MarkStopping
      \/ line.type = "consumed" /\ Consumed(line.ms)
      \/ line.type = "canceled" /\ Canceled(line.ms)
      \/ line.type = "end" /\ SessionEnd
  BY DEF Ingest
<1> HIDE DEF line
<1> DEFINE Settles == line.type \in {"consumed", "canceled"} =>
                          \A m \in line.ms : row'[m] # "queued"
<1>4. CASE row' = row /\ inPipe' = inPipe /\ line.type \notin {"consumed", "canceled"}
  <2>1. Invokes
    BY <1>1, <1>4 DEF Invokes
  <2> QED  BY <1>1, <1>4, <2>1 DEF line
<1>5. ASSUME NEW ms \in SUBSET Messages, Invoke(ms), inPipe' = inPipe,
             line.type = "consumed" => ms = line.ms, line.type # "canceled"
      PROVE  Invokes /\ Settles
  <2>1. \A m \in Messages :
            row'[m] = IF m \in ms /\ row[m] = "queued" THEN "invoked" ELSE row[m]
    BY <1>5 DEF Invoke
  <2>2. Invokes
    BY <1>1, <1>5, <2>1 DEF Invokes
  <2>3. \A m \in ms : row'[m] # "queued"
    BY <2>1
  <2> QED  BY <1>5, <2>2, <2>3
<1>6. CASE line.type = "consumed" /\ Consumed(line.ms)
  <2>1. line.ms \in SUBSET Messages
    BY <1>2, <1>6 DEF OutLines
  <2>2. Invoke(line.ms) /\ inPipe' = inPipe
    BY <1>6 DEF Consumed
  <2>3. Invokes /\ Settles
    BY <1>5, <1>6, <2>1, <2>2
  <2> QED  BY <1>1, <2>3 DEF line
<1>7. CASE line.type = "end" /\ SessionEnd
  <2>1. Invoke(Messages) /\ inPipe' = inPipe /\ Messages \in SUBSET Messages
    BY <1>7 DEF SessionEnd
  <2>2. line.type # "consumed" /\ line.type # "canceled"
    BY <1>7
  <2>3. Invokes /\ Settles
    BY <1>5, <2>1, <2>2
  <2> QED  BY <1>1, <2>3 DEF line
<1>8. CASE line.type = "canceled" /\ Canceled(line.ms)
  <2>1. line.ms \in SUBSET Messages
    BY <1>2, <1>8 DEF OutLines
  <2>2. CancelRows(line.ms, inPipe)
    BY <1>8 DEF Canceled
  <2>3. PICK gone \in SUBSET Messages :
            /\ TakesBack(gone)
            /\ \A m \in line.ms : row[m] = "queued" => m \in gone
    BY <1>1, <2>1, <2>2, CancelTakesBack
  <2>4. \A m \in line.ms : row'[m] # "queued"
    BY <2>1, <2>3 DEF TakesBack
  <2> QED  BY <1>1, <2>3, <2>4 DEF line
<1>9. CASE line.type \in {"started", "alive", "stopping"}
  BY <1>3, <1>4, <1>9 DEF Started, Alive, MarkStopping
<1> QED  BY <1>3, <1>6, <1>7, <1>8, <1>9

LEMMA CancelKind ==
    ASSUME NEW m \in Messages, Cancel(m)
    PROVE  /\ \E ms \in SUBSET Messages : TakesBack(ms)
           /\ UNCHANGED <<tracked, outPipe, loopVars>>
<1>1. CancelRows({m}, inPipe) /\ UNCHANGED <<rowSeq, lastSeq, lost>>
        /\ {m} \in SUBSET Messages
  BY DEF Cancel
<1> QED  BY <1>1, CancelTakesBack DEF Cancel

\* What is sent down arrives at the target only.
LEMMA SentLines ==
    ASSUME PipesTyped, NEW line \in InLines, inPipe' = Sent(inPipe, line), NEW d \in Procs
    PROVE  /\ d \in Target => inPipe'[d] = Append(inPipe[d], line)
           /\ d \notin Target => inPipe'[d] = inPipe[d]
BY DEF Sent

LEMMA DatedStep ==
    ASSUME HubTyped, PipesTyped, LoopTyped, Dated, [Next]_vars
    PROVE  Dated'
<1>1. ASSUME UNCHANGED <<rowSeq, lastSeq, lastSeen, inPipe>> PROVE Dated'
  BY <1>1 DEF Dated
<1>2. ASSUME UNCHANGED <<rowSeq, lastSeq, lastSeen>>, NEW line \in InLines,
             ~IsMessage(line), inPipe' = Sent(inPipe, line)
      PROVE  Dated'
  <2> SUFFICES ASSUME NEW d \in Procs, NEW i \in DOMAIN inPipe'[d],
                      IsMessage(inPipe'[d][i])
               PROVE  inPipe'[d][i].item.seq <= lastSeq
    BY <1>2 DEF Dated, IsMessage
  <2>1. inPipe[d] \in Seq(InLines)
    BY DEF PipesTyped
  <2>2. i \in DOMAIN inPipe[d] /\ inPipe'[d][i] = inPipe[d][i]
    <3>1. CASE d \in Target
      <4>1. inPipe'[d] = Append(inPipe[d], line)
        BY <1>2, <3>1, SentLines
      <4> QED  BY <1>2, <2>1, <4>1, AppendLines
    <3>2. CASE d \notin Target
      BY <1>2, <3>2, SentLines
    <3> QED  BY <3>1, <3>2
  <2> QED  BY <2>2 DEF Dated
<1>3. ASSUME NEW ms \in SUBSET Messages, TakesBack(ms), UNCHANGED lastSeen
      PROVE  Dated'
  <2>1. CancelLine(ms) \in InLines /\ ~IsMessage(CancelLine(ms))
    BY CancelLineType DEF CancelLine, IsMessage
  <2> QED  BY <1>1, <1>2, <1>3, <2>1 DEF TakesBack
<1>4. ASSUME NEW m \in Messages, NEW seq \in Seqs, Posts(m, seq), UNCHANGED lastSeen
      PROVE  Dated'
  <2>1. /\ lastSeq \in Nat /\ lastSeq' \in Nat /\ seq \in Nat /\ lastSeq <= lastSeq'
        /\ seq <= lastSeq' /\ \A n \in Messages : rowSeq'[n] \in {rowSeq[n], seq}
        /\ \A n \in Messages : rowSeq[n] \in Nat /\ rowSeq[n] <= lastSeq
    <3>1. lastSeq \in Nat /\ seq \in Nat /\ rowSeq \in [Messages -> Nat]
      BY DEF HubTyped, Seqs
    <3>2. \A n \in Messages : rowSeq[n] \in Nat /\ rowSeq[n] <= lastSeq
      BY <3>1 DEF Dated
    <3>3. \A n \in Messages : rowSeq'[n] \in {rowSeq[n], seq}
      BY <1>4, <3>1 DEF Posts
    <3>4. lastSeq' \in Nat /\ lastSeq <= lastSeq' /\ seq <= lastSeq'
      BY <1>4, <3>1, <3>2 DEF Posts
    <3> QED  BY <3>1, <3>2, <3>3, <3>4
  <2>2. \A n \in Messages : rowSeq'[n] <= lastSeq'
    BY <2>1
  <2>3. \A d \in Procs : lastSeen'[d] <= lastSeq'
    BY <1>4, <2>1 DEF Dated, LoopTyped
  <2>4. ASSUME NEW d \in Procs, NEW i \in DOMAIN inPipe'[d], IsMessage(inPipe'[d][i])
        PROVE  inPipe'[d][i].item.seq <= lastSeq'
    <3>1. inPipe[d] \in Seq(InLines) /\ MessageLine(m, seq) \in InLines
      BY MessageLineType DEF PipesTyped
    <3>2. \/ i \in DOMAIN inPipe[d] /\ inPipe'[d][i] = inPipe[d][i]
          \/ inPipe'[d][i] = MessageLine(m, seq)
      <4>1. CASE d \in Target
        <5>1. inPipe'[d] = Append(inPipe[d], MessageLine(m, seq))
          BY <1>4, <3>1, <4>1, SentLines DEF Posts
        <5> QED  BY <3>1, <5>1, AppendLines
      <4>2. CASE d \notin Target
        BY <1>4, <3>1, <4>2, SentLines DEF Posts
      <4> QED  BY <4>1, <4>2
    <3>3. CASE i \in DOMAIN inPipe[d] /\ inPipe'[d][i] = inPipe[d][i]
      <4>1. inPipe[d][i] \in InLines /\ IsMessage(inPipe[d][i])
        BY <2>4, <3>1, <3>3
      <4>2. inPipe[d][i].item.seq \in Nat
        BY <4>1 DEF InLines, Items, Seqs, IsMessage
      <4> QED  BY <2>1, <3>3, <4>1, <4>2 DEF Dated
    <3>4. CASE inPipe'[d][i] = MessageLine(m, seq)
      BY <2>1, <3>4 DEF MessageLine
    <3> QED  BY <3>2, <3>3, <3>4
  <2> QED  BY <2>2, <2>3, <2>4 DEF Dated, IsMessage
<1>5. ASSUME NEW o \in Ops, NEW queued \in BOOLEAN, AppendMessage(o, queued),
             UNCHANGED <<active, thinking, tracked, outPipe, loopVars>>
      PROVE  Dated'
  BY <1>4, <1>5, AppendPosts
<1>6. ASSUME NEW m \in Messages, Cancel(m) PROVE Dated'
  BY <1>3, <1>6, CancelKind
<1>7. ASSUME NEW p \in Procs, Ingest(p) PROVE Dated'
  BY <1>1, <1>3, <1>7, IngestKinds DEF Invokes
<1>8. ASSUME NEW p \in Procs, Read(p) PROVE Dated'
  <2> DEFINE line == Head(inPipe[p])
  <2>1. /\ UNCHANGED <<rowSeq, lastSeq>> /\ inPipe[p] # << >>
        /\ inPipe' = [inPipe EXCEPT ![p] = Tail(@)]
        /\ inPipe[p] \in Seq(InLines)
    BY <1>8 DEF Read, PipesTyped
  <2>2. line \in InLines /\ 1 \in DOMAIN inPipe[p] /\ line = inPipe[p][1]
    BY <2>1
  <2>3. \/ IsMessage(line) /\ Enqueue(p, line.item)
        \/ line.type = "cancel" /\ Remove(p, line.ms)
    BY <1>8 DEF Read, IsMessage
  <2>4. IsMessage(line) => line.item.seq <= lastSeq
    BY <2>2 DEF Dated
  <2> HIDE DEF line
  <2>5. \/ lastSeen' = lastSeen
        \/ IsMessage(line) /\ lastSeen' = [lastSeen EXCEPT ![p] = line.item.seq]
    BY <2>3 DEF Enqueue, Remove
  <2>6. \A d \in Procs : lastSeen'[d] <= lastSeq
    BY <2>4, <2>5 DEF Dated, LoopTyped
  <2>7. \A d \in Procs : \A i \in DOMAIN inPipe'[d] :
            \E k \in DOMAIN inPipe[d] : inPipe'[d][i] = inPipe[d][k]
    <3>1. \A i \in DOMAIN Tail(inPipe[p]) : \E k \in DOMAIN inPipe[p] :
              Tail(inPipe[p])[i] = inPipe[p][k]
      BY <2>1, TailLines
    <3>2. /\ inPipe'[p] = Tail(inPipe[p])
          /\ \A d \in Procs \ {p} : inPipe'[d] = inPipe[d]
      BY <2>1 DEF PipesTyped
    <3> QED  BY <3>1, <3>2
  <2>8. \A d \in Procs : \A i \in DOMAIN inPipe'[d] :
            IsMessage(inPipe'[d][i]) => inPipe'[d][i].item.seq <= lastSeq
    BY <2>7 DEF Dated
  <2> QED  BY <2>1, <2>6, <2>8 DEF Dated, IsMessage
<1>9. ASSUME NEW p \in Procs, Live(p), Gone(p) PROVE Dated'
  <2>1. /\ UNCHANGED <<rowSeq, lastSeq>>
        /\ lastSeen'[p] = 0 /\ inPipe'[p] = << >>
        /\ \A d \in Procs \ {p} : inPipe'[d] = inPipe[d] /\ lastSeen'[d] = lastSeen[d]
    BY <1>9 DEF Gone, LoopTyped, PipesTyped
  <2>2. DOMAIN inPipe'[p] = {} /\ 0 <= lastSeq
    BY <2>1 DEF HubTyped
  <2> QED  BY <2>1, <2>2 DEF Dated
<1>10. ASSUME NEW p \in Procs, Spawn(p) \/ Turns(p) \/ Stops(p) PROVE Dated'
  <2>1. UNCHANGED <<rowSeq, lastSeq, lastSeen, inPipe>>
    BY <1>10 DEF Spawn, Turns, Stops, Reset
  <2> QED  BY <1>1, <2>1
<1>11. CASE Rests
  BY <1>1, <1>11 DEF Rests
<1> QED
  BY Kinds, <1>5, <1>6, <1>7, <1>8, <1>9, <1>10, <1>11

-----------------------------------------------------------------------------
(* A message runs only if it is in the log *)

\* What is in a queue or on its way there.
Carries(p, item) ==
    \/ \E i \in DOMAIN queue[p] : queue[p][i] = item
    \/ \E i \in DOMAIN inPipe[p] : IsMessage(inPipe[p][i]) /\ inPipe[p][i].item = item

CurrentNow(item) == row'[item.m] # "absent" /\ rowSeq'[item.m] = item.seq

LEMMA CarriedItems ==
    ASSUME HubTyped, PipesTyped, LoopTyped, Dated, NEW p \in Procs, Ordered(p),
           NEW item, Carries(p, item)
    PROVE  item \in Items /\ item.m \in Messages /\ item.seq \in Nat /\ item.seq <= lastSeq
<1>1. CASE \E i \in DOMAIN queue[p] : queue[p][i] = item
  <2>1. PICK i \in DOMAIN queue[p] : queue[p][i] = item
    BY <1>1
  <2>2. queue[p] \in Seq(Items) /\ lastSeen[p] \in Nat
    BY DEF LoopTyped
  <2>3. item \in Items
    BY <2>1, <2>2
  <2>4. item.m \in Messages /\ item.seq \in Nat
    BY <2>3 DEF Items, Seqs
  <2>5. item.seq <= lastSeen[p] /\ lastSeen[p] <= lastSeq
    BY <2>1 DEF Ordered, Dated
  <2>6. lastSeq \in Nat
    BY DEF HubTyped
  <2> QED  BY <2>2, <2>3, <2>4, <2>5, <2>6
<1>2. CASE \E i \in DOMAIN inPipe[p] : IsMessage(inPipe[p][i]) /\ inPipe[p][i].item = item
  <2>1. PICK i \in DOMAIN inPipe[p] : IsMessage(inPipe[p][i]) /\ inPipe[p][i].item = item
    BY <1>2
  <2>2. inPipe[p][i] \in InLines
    BY DEF PipesTyped
  <2>3. item \in Items
    BY <2>1, <2>2 DEF InLines, IsMessage
  <2>4. item.m \in Messages /\ item.seq \in Nat
    BY <2>3 DEF Items, Seqs
  <2> QED  BY <2>1, <2>3, <2>4 DEF Dated
<1> QED  BY <1>1, <1>2 DEF Carries

\* While nothing is sent down or read, and the log has the same messages.
LEMMA FollowsSame ==
    ASSUME NEW d \in Procs, Follows(d), inPipe'[d] = inPipe[d],
           \A i \in DOMAIN queue'[d] : \E k \in DOMAIN queue[d] : queue'[d][i] = queue[d][k],
           \A item : Carries(d, item) => (CurrentNow(item) <=> Current(item))
    PROVE  Follows(d)'
<1>1. ASSUME NEW i \in DOMAIN queue'[d]
      PROVE  CurrentNow(queue'[d][i]) <=> Stays(inPipe'[d], 0, queue'[d][i].m)
  <2>1. PICK k \in DOMAIN queue[d] : queue'[d][i] = queue[d][k]
    OBVIOUS
  <2>2. CurrentNow(queue[d][k]) <=> Current(queue[d][k])
    BY DEF Carries
  <2>3. Current(queue[d][k]) <=> Stays(inPipe[d], 0, queue[d][k].m)
    BY DEF Follows
  <2> QED  BY <2>1, <2>2, <2>3
<1>2. ASSUME NEW i \in DOMAIN inPipe'[d], IsMessage(inPipe'[d][i])
      PROVE  CurrentNow(inPipe'[d][i].item) <=>
                 Stays(inPipe'[d], i, inPipe'[d][i].item.m)
  <2>1. CurrentNow(inPipe[d][i].item) <=> Current(inPipe[d][i].item)
    BY <1>2 DEF Carries
  <2> QED  BY <1>2, <2>1 DEF Follows
<1> QED  BY <1>1, <1>2 DEF Follows, Current, CurrentNow, Stays, IsMessage

LEMMA FollowsAppend ==
    ASSUME PipesTyped, NEW d \in Procs, Follows(d), NEW line \in InLines,
           inPipe'[d] = Append(inPipe[d], line), queue'[d] = queue[d],
           \A item : Carries(d, item) =>
               (CurrentNow(item) <=> Current(item) /\ ~Cancels(line, item.m)),
           IsMessage(line) => CurrentNow(line.item)
    PROVE  Follows(d)'
<1> DEFINE pipe == inPipe[d]
           now == Append(inPipe[d], line)
<1>1. pipe \in Seq(InLines)
  BY DEF PipesTyped
<1>2. /\ DOMAIN now = DOMAIN pipe \cup {Len(pipe) + 1}
      /\ \A i \in DOMAIN pipe : now[i] = pipe[i] /\ i \in Nat /\ i < Len(pipe) + 1
      /\ now[Len(pipe) + 1] = line /\ Len(pipe) + 1 \in Nat
  BY <1>1, AppendLines
<1>3. \A m : /\ \A i \in Nat : i <= Len(pipe) =>
                    (Stays(now, i, m) <=> Stays(pipe, i, m) /\ ~Cancels(line, m))
             /\ Stays(now, Len(pipe) + 1, m)
  BY <1>1, StaysAppend
<1>4. Len(pipe) \in Nat
  BY <1>1
<1>5. inPipe'[d] = now /\ inPipe[d] = pipe
  OBVIOUS
<1> HIDE DEF pipe, now
<1>6. ASSUME NEW i \in DOMAIN queue[d]
      PROVE  CurrentNow(queue[d][i]) <=> Stays(now, 0, queue[d][i].m)
  <2>1. CurrentNow(queue[d][i]) <=> Current(queue[d][i]) /\ ~Cancels(line, queue[d][i].m)
    BY DEF Carries
  <2>2. Current(queue[d][i]) <=> Stays(pipe, 0, queue[d][i].m)
    BY <1>5 DEF Follows
  <2>3. Stays(now, 0, queue[d][i].m) <=>
            Stays(pipe, 0, queue[d][i].m) /\ ~Cancels(line, queue[d][i].m)
    BY <1>3, <1>4
  <2> QED  BY <2>1, <2>2, <2>3
<1>7. ASSUME NEW i \in DOMAIN now, IsMessage(now[i])
      PROVE  CurrentNow(now[i].item) <=> Stays(now, i, now[i].item.m)
  <2>1. CASE i = Len(pipe) + 1
    BY <1>2, <1>3, <1>7, <2>1
  <2>2. CASE i \in DOMAIN pipe
    <3>1. now[i] = pipe[i] /\ i \in Nat /\ i <= Len(pipe)
      BY <1>2, <1>4, <2>2
    <3>2. PICK item : item = pipe[i].item
      OBVIOUS
    <3>3. Carries(d, item)
      BY <1>5, <1>7, <2>2, <3>1, <3>2 DEF Carries
    <3>4. CurrentNow(item) <=> Current(item) /\ ~Cancels(line, item.m)
      BY <3>3
    <3>5. Current(item) <=> Stays(pipe, i, item.m)
      BY <1>5, <1>7, <2>2, <3>1, <3>2 DEF Follows
    <3>6. Stays(now, i, item.m) <=> Stays(pipe, i, item.m) /\ ~Cancels(line, item.m)
      BY <1>3, <3>1
    <3> QED  BY <3>1, <3>2, <3>4, <3>5, <3>6
  <2> QED  BY <1>2, <2>1, <2>2
<1> QED  BY <1>5, <1>6, <1>7 DEF Follows, Current, CurrentNow, Stays, IsMessage

\* The target gets the line, and no other has anything that it could be about.
LEMMA FollowsSent ==
    ASSUME PipesTyped, LoopTyped, Succession, NEW d \in Procs, Follows(d),
           NEW line \in InLines, inPipe' = Sent(inPipe, line), queue' = queue,
           \A item : Carries(d, item) =>
               (CurrentNow(item) <=> Current(item) /\ ~Cancels(line, item.m)),
           IsMessage(line) => CurrentNow(line.item)
    PROVE  Follows(d)'
<1>1. CASE d \in Target
  BY <1>1, FollowsAppend, SentLines
<1>2. CASE d \notin Target
  <2>1. queue[d] = << >> /\ inPipe[d] = << >>
    BY <1>2 DEF Succession
  <2>2. queue'[d] = << >> /\ inPipe'[d] = << >>
    BY <1>2, <2>1, SentLines
  <2>3. DOMAIN queue'[d] = {} /\ DOMAIN inPipe'[d] = {}
    BY <2>2
  <2> QED  BY <2>3 DEF Follows
<1> QED  BY <1>1, <1>2

LEMMA FollowsRead ==
    ASSUME PipesTyped, LoopTyped, NEW d \in Procs, Follows(d), Read(d)
    PROVE  Follows(d)'
<1> DEFINE pipe == inPipe[d]
           line == Head(pipe)
<1>1. /\ pipe # << >> /\ inPipe'[d] = Tail(pipe) /\ UNCHANGED <<row, rowSeq>>
      /\ pipe \in Seq(InLines)
  BY DEF Read, PipesTyped
<1>2. line \in InLines /\ 1 \in DOMAIN pipe /\ line = pipe[1]
  BY <1>1
<1>3. \/ IsMessage(line) /\ Enqueue(d, line.item)
      \/ line.type = "cancel" /\ Remove(d, line.ms)
  BY DEF Read, IsMessage
<1>4. \A i \in DOMAIN Tail(pipe) :
          i + 1 \in DOMAIN pipe /\ Tail(pipe)[i] = pipe[i + 1] /\ i \in Nat
  BY <1>1, TailLines
<1>5. \A m : /\ \A i \in Nat : Stays(pipe, i + 1, m) <=> Stays(Tail(pipe), i, m)
             /\ Stays(pipe, 0, m) <=> Stays(Tail(pipe), 0, m) /\ ~Cancels(line, m)
  BY <1>1, StaysTail
<1>6. \A item : CurrentNow(item) <=> Current(item)
  BY <1>1 DEF CurrentNow, Current
<1>7. inPipe[d] = pipe
  OBVIOUS
<1> HIDE DEF pipe, line
<1>8. ASSUME NEW i \in DOMAIN Tail(pipe), IsMessage(Tail(pipe)[i])
      PROVE  CurrentNow(Tail(pipe)[i].item) <=> Stays(Tail(pipe), i, Tail(pipe)[i].item.m)
  <2>1. PICK k : k = i + 1
    OBVIOUS
  <2>2. k \in DOMAIN pipe /\ Tail(pipe)[i] = pipe[k] /\ i \in Nat
    BY <1>4, <2>1
  <2>3. Current(pipe[k].item) <=> Stays(pipe, k, pipe[k].item.m)
    BY <1>7, <1>8, <2>2 DEF Follows
  <2>4. Stays(pipe, k, pipe[k].item.m) <=> Stays(Tail(pipe), i, pipe[k].item.m)
    BY <1>5, <2>1, <2>2
  <2> QED  BY <1>6, <2>2, <2>3, <2>4
<1>9. ASSUME NEW item, \E k \in DOMAIN queue[d] : queue[d][k] = item, ~Cancels(line, item.m)
      PROVE  CurrentNow(item) <=> Stays(Tail(pipe), 0, item.m)
  <2>1. Current(item) <=> Stays(pipe, 0, item.m)
    BY <1>7, <1>9 DEF Follows
  <2> QED  BY <1>5, <1>6, <1>9, <2>1
<1>10. ASSUME NEW i \in DOMAIN queue'[d]
       PROVE  CurrentNow(queue'[d][i]) <=> Stays(Tail(pipe), 0, queue'[d][i].m)
  <2>1. CASE IsMessage(line) /\ Enqueue(d, line.item)
    <3>1. PICK item : item = line.item
      OBVIOUS
    <3>2. item \in Items
      BY <1>2, <2>1, <3>1 DEF InLines, IsMessage
    <3>3. queue'[d] = queue[d] \/ queue'[d] = Append(queue[d], item)
      BY <2>1, <3>1 DEF Enqueue, LoopTyped
    <3>4. \/ \E k \in DOMAIN queue[d] : queue[d][k] = queue'[d][i]
          \/ queue'[d][i] = item
      <4>1. queue[d] \in Seq(Items)
        BY DEF LoopTyped
      <4> QED  BY <3>2, <3>3, <4>1
    <3>5. \A m : ~Cancels(line, m)
      BY <2>1 DEF Cancels, IsMessage
    <3>6. CurrentNow(item) <=> Stays(Tail(pipe), 0, item.m)
      <4>1. Current(item) <=> Stays(pipe, 1, item.m)
        BY <1>2, <1>7, <2>1, <3>1 DEF Follows
      <4>2. Stays(pipe, 1, item.m) <=> Stays(Tail(pipe), 0, item.m)
        <5>1. 0 \in Nat /\ 0 + 1 = 1
          OBVIOUS
        <5> QED  BY <1>5, <5>1
      <4> QED  BY <1>6, <4>1, <4>2
    <3> QED  BY <1>9, <3>4, <3>5, <3>6
  <2>2. CASE line.type = "cancel" /\ Remove(d, line.ms)
    <3>1. PICK ms : ms = line.ms
      OBVIOUS
    <3>2. Remove(d, ms) /\ queue \in [Procs -> Seq(Items)]
      BY <2>2, <3>1 DEF LoopTyped
    <3>3. PICK k \in DOMAIN queue[d] : queue'[d][i] = queue[d][k] /\ queue[d][k].m \notin ms
      BY <3>2, RemoveKeeps
    <3>4. ~Cancels(line, queue[d][k].m)
      BY <3>1, <3>3 DEF Cancels
    <3> QED  BY <1>9, <3>3, <3>4
  <2> QED  BY <1>3, <2>1, <2>2
<1>11. inPipe'[d] = Tail(pipe)
  BY <1>1, <1>7
<1> QED  BY <1>8, <1>10, <1>11 DEF Follows, Current, CurrentNow, Stays, IsMessage

LEMMA FollowsStep ==
    ASSUME HubTyped, PipesTyped, LoopTyped, Succession, Dated, [Next]_vars,
           NEW d \in Procs, Ordered(d), Follows(d)
    PROVE  Follows(d)'
<1> DEFINE Same == \A item : Carries(d, item) => (CurrentNow(item) <=> Current(item))
           Fewer == \A i \in DOMAIN queue'[d] : \E k \in DOMAIN queue[d] :
                        queue'[d][i] = queue[d][k]
<1>1. UNCHANGED <<row, rowSeq>> => Same
  BY DEF CurrentNow, Current
<1>2. queue'[d] = queue[d] => Fewer
  OBVIOUS
<1>3. inPipe'[d] = inPipe[d] /\ Fewer /\ Same => Follows(d)'
  BY FollowsSame
<1>4. \A item : Carries(d, item) =>
          item.m \in Messages /\ item.seq \in Nat /\ item.seq <= lastSeq
  BY CarriedItems
<1> HIDE DEF Same, Fewer
<1>5. CASE Rests
  BY <1>1, <1>2, <1>3, <1>5 DEF Rests
<1>6. ASSUME NEW ms \in SUBSET Messages, TakesBack(ms), UNCHANGED queue
      PROVE  Follows(d)'
  <2>1. \A item : Carries(d, item) =>
            (CurrentNow(item) <=> Current(item) /\ ~Cancels(CancelLine(ms), item.m))
    <3> SUFFICES ASSUME NEW item, Carries(d, item)
                 PROVE  CurrentNow(item) <=>
                            Current(item) /\ ~Cancels(CancelLine(ms), item.m)
      OBVIOUS
    <3>1. item.m \in Messages
      BY <1>4
    <3>2. Cancels(CancelLine(ms), item.m) <=> item.m \in ms
      BY DEF Cancels, CancelLine
    <3>3. row'[item.m] = IF item.m \in ms THEN "absent" ELSE row[item.m]
      BY <1>6, <3>1 DEF TakesBack
    <3>4. rowSeq' = rowSeq
      BY <1>6 DEF TakesBack
    <3> QED  BY <3>2, <3>3, <3>4 DEF CurrentNow, Current
  <2>2. CASE ms = {}
    <3>1. Same
      BY <2>1, <2>2 DEF Same, Cancels, CancelLine
    <3> QED  BY <1>2, <1>3, <1>6, <2>2, <3>1 DEF TakesBack
  <2>3. CASE ms # {}
    <3>1. inPipe' = Sent(inPipe, CancelLine(ms))
      BY <1>6, <2>3 DEF TakesBack
    <3>2. CancelLine(ms) \in InLines /\ ~IsMessage(CancelLine(ms))
      BY CancelLineType DEF CancelLine, IsMessage
    <3> QED  BY <1>6, <2>1, <3>1, <3>2, FollowsSent
  <2> QED  BY <2>2, <2>3
<1>7. ASSUME NEW m \in Messages, NEW seq \in Seqs, Posts(m, seq), UNCHANGED queue
      PROVE  Follows(d)'
  <2> DEFINE line == MessageLine(m, seq)
  <2>1. line \in InLines /\ IsMessage(line) /\ line.item = [m |-> m, seq |-> seq]
    BY MessageLineType DEF MessageLine, IsMessage
  <2>2. inPipe' = Sent(inPipe, line)
    BY <1>7 DEF Posts
  <2>3. CurrentNow(line.item)
    BY <1>7, <2>1 DEF CurrentNow, Posts, HubTyped
  <2>4. \A n : ~Cancels(line, n)
    BY <2>1 DEF Cancels, IsMessage
  <2> HIDE DEF line
  <2>5. ASSUME NEW item, Carries(d, item) PROVE CurrentNow(item) <=> Current(item)
    <3>1. item.m \in Messages /\ item.seq \in Nat /\ item.seq <= lastSeq
      BY <1>4, <2>5
    <3>2. lastSeq \in Nat /\ rowSeq \in [Messages -> Nat]
      BY DEF HubTyped
    <3>3. CASE item.m # m
      <4>1. row'[item.m] = row[item.m] /\ rowSeq'[item.m] = rowSeq[item.m]
        BY <1>7, <3>1, <3>2, <3>3 DEF Posts
      <4> QED  BY <4>1 DEF CurrentNow, Current
    <3>4. CASE item.m = m /\ row[m] # "absent"
      <4>1. row'[m] = row[m] /\ rowSeq'[m] = rowSeq[m]
        BY <1>7, <3>2, <3>4 DEF Posts
      <4> QED  BY <3>4, <4>1 DEF CurrentNow, Current
    <3>5. CASE item.m = m /\ row[m] = "absent"
      <4>1. rowSeq'[m] = lastSeq + 1
        BY <1>7, <3>2, <3>5 DEF Posts
      <4>2. item.seq # lastSeq + 1
        BY <3>1, <3>2
      <4> QED  BY <3>5, <4>1, <4>2 DEF CurrentNow, Current
    <3> QED  BY <3>3, <3>4, <3>5
  <2> QED  BY <1>7, <2>1, <2>2, <2>3, <2>4, <2>5, FollowsSent
<1>8. ASSUME NEW o \in Ops, NEW queued \in BOOLEAN, AppendMessage(o, queued),
             UNCHANGED <<active, thinking, tracked, outPipe, loopVars>>
      PROVE  Follows(d)'
  BY <1>7, <1>8, AppendPosts
<1>9. ASSUME NEW m \in Messages, Cancel(m) PROVE Follows(d)'
  BY <1>6, <1>9, CancelKind
<1>10. ASSUME NEW p \in Procs, Ingest(p) PROVE Follows(d)'
  <2>1. CASE Invokes
    <3>1. queue' = queue /\ inPipe' = inPipe /\ rowSeq' = rowSeq
      BY <1>10, <2>1, IngestKinds DEF Invokes
    <3>2. \A item : Carries(d, item) => (CurrentNow(item) <=> Current(item))
      <4>1. \A m \in Messages : row'[m] = "absent" <=> row[m] = "absent"
        BY <2>1 DEF Invokes
      <4> QED  BY <1>4, <3>1, <4>1 DEF CurrentNow, Current
    <3>3. Same
      BY <3>2 DEF Same
    <3> QED  BY <1>2, <1>3, <3>1, <3>3
  <2>2. CASE \E ms \in SUBSET Messages : TakesBack(ms)
    BY <1>6, <1>10, <2>2, IngestKinds
  <2> QED  BY <1>10, <2>1, <2>2, IngestKinds
<1>11. ASSUME NEW p \in Procs, Read(p) PROVE Follows(d)'
  <2>1. CASE p = d
    BY <1>11, <2>1, FollowsRead
  <2>2. CASE p # d
    <3>1. inPipe'[d] = inPipe[d] /\ UNCHANGED <<row, rowSeq>>
      BY <1>11, <2>2 DEF Read, PipesTyped
    <3>2. PICK line : \/ Enqueue(p, line.item)
                      \/ Remove(p, line.ms)
      BY <1>11 DEF Read
    <3>3. queue'[d] = queue[d]
      BY <2>2, <3>2 DEF Enqueue, Remove, LoopTyped
    <3> QED  BY <1>1, <1>2, <1>3, <3>1, <3>3
  <2> QED  BY <2>1, <2>2
<1>12. ASSUME NEW p \in Procs, Turns(p) PROVE Follows(d)'
  <2>1. UNCHANGED <<row, rowSeq, inPipe>>
    BY <1>12 DEF Turns
  <2>2. PICK n \in 1..Len(queue[p]) :
            queue' = [queue EXCEPT ![p] = SubSeq(queue[p], n + 1, Len(queue[p]))]
    BY <1>12 DEF Turns, StartTurn
  <2>3. CASE p = d
    <3> DEFINE q == queue[d]
               rest == SubSeq(q, n + 1, Len(q))
    <3>1. q \in Seq(Items) /\ n \in 1..Len(q) /\ queue'[d] = rest
      BY <2>2, <2>3 DEF LoopTyped
    <3>2. /\ rest \in Seq(Items) /\ Len(rest) = Len(q) - n
          /\ \A i \in 1..(Len(q) - n) : rest[i] = q[n + i]
      BY <3>1, BatchSplit
    <3>3. ASSUME NEW i \in DOMAIN rest
          PROVE  \E k \in DOMAIN q : rest[i] = q[k]
      <4>1. Len(q) \in Nat /\ n \in Nat /\ DOMAIN q = 1..Len(q) /\ DOMAIN rest = 1..(Len(q) - n)
        BY <3>1, <3>2
      <4>2. n + i \in DOMAIN q /\ rest[i] = q[n + i]
        BY <3>2, <4>1
      <4> QED  BY <4>2
    <3>4. Fewer
      BY <3>1, <3>3 DEF Fewer
    <3> QED  BY <1>1, <1>3, <2>1, <3>4
  <2>4. CASE p # d
    <3>1. queue'[d] = queue[d]
      BY <2>2, <2>4 DEF LoopTyped
    <3> QED  BY <1>1, <1>2, <1>3, <2>1, <3>1
  <2> QED  BY <2>3, <2>4
<1>13. ASSUME NEW p \in Procs, Stops(p) PROVE Follows(d)'
  <2>1. UNCHANGED <<row, rowSeq, inPipe>> /\ queue' = [queue EXCEPT ![p] = << >>]
    BY <1>13 DEF Stops, Reset
  <2>2. queue'[d] = queue[d] \/ queue'[d] = << >>
    BY <2>1 DEF LoopTyped
  <2>3. queue'[d] = << >> => DOMAIN queue'[d] = {}
    OBVIOUS
  <2>4. Fewer
    BY <2>2, <2>3 DEF Fewer
  <2> QED  BY <1>1, <1>3, <2>1, <2>4
<1>14. ASSUME NEW p \in Procs, Live(p), Gone(p) PROVE Follows(d)'
  <2>1. CASE p = d
    <3>1. queue'[d] = << >> /\ inPipe'[d] = << >>
      BY <1>14, <2>1 DEF Gone, LoopTyped, PipesTyped
    <3>2. DOMAIN queue'[d] = {} /\ DOMAIN inPipe'[d] = {}
      BY <3>1
    <3> QED  BY <3>2 DEF Follows
  <2>2. CASE p # d
    <3>1. queue'[d] = queue[d] /\ inPipe'[d] = inPipe[d] /\ UNCHANGED <<row, rowSeq>>
      BY <1>14, <2>2 DEF Gone, LoopTyped, PipesTyped
    <3> QED  BY <1>1, <1>2, <1>3, <3>1
  <2> QED  BY <2>1, <2>2
<1>15. ASSUME NEW p \in Procs, Spawn(p) PROVE Follows(d)'
  BY <1>1, <1>2, <1>3, <1>15 DEF Spawn
<1> QED
  BY Kinds, <1>5, <1>8, <1>9, <1>10, <1>11, <1>12, <1>13, <1>14, <1>15

LEMMA InitLog == Init => Succession /\ Dated /\ \A d \in Procs : Follows(d)
<1> SUFFICES ASSUME Init PROVE Succession /\ Dated /\ \A d \in Procs : Follows(d)
  OBVIOUS
<1>1. \A d \in Procs : /\ inPipe[d] = << >> /\ queue[d] = << >> /\ lastSeen[d] = 0
                       /\ pc[d] = "unborn"
  BY DEF Init
<1>2. \A d \in Procs : DOMAIN inPipe[d] = {} /\ DOMAIN queue[d] = {}
  BY <1>1
<1>3. tracked = {} /\ lastSeq = 0 /\ \A m \in Messages : rowSeq[m] = 0
  BY DEF Init
<1>4. Succession
  BY <1>1, <1>3 DEF Succession, Live, LoopStates
<1>5. Dated
  BY <1>1, <1>2, <1>3 DEF Dated
<1>6. \A d \in Procs : Follows(d)
  BY <1>2 DEF Follows
<1> QED  BY <1>4, <1>5, <1>6

\* What the next proofs start from.
Mirrors == Succession /\ Dated /\ \A d \in Procs : Ordered(d) /\ Follows(d)

LEMMA MirrorsAlways == Spec => [](HubTyped /\ PipesTyped /\ LoopTyped /\ Mirrors)
<1> DEFINE Inv == Typed /\ (\A d \in Procs : Local(d))
                  /\ Succession /\ Dated /\ (\A d \in Procs : Follows(d))
<1>1. Init => Inv
  BY InitTyped, InitLocal, InitLog
<1>2. Inv /\ [Next]_vars => Inv'
  <2> SUFFICES ASSUME Inv, [Next]_vars PROVE Inv'
    OBVIOUS
  <2>1. HubTyped /\ PipesTyped /\ LoopTyped
    BY TypedParts
  <2>2. Typed'
    BY TypedStep
  <2>3. (\A d \in Procs : Local(d))'
    BY LocalStep
  <2>4. Succession' /\ Dated'
    BY <2>1, SuccessionStep, DatedStep
  <2>5. ASSUME NEW d \in Procs PROVE Follows(d)'
    <3>1. Ordered(d) /\ Follows(d)
      BY DEF Local
    <3> QED  BY <2>1, <3>1, FollowsStep
  <2> QED  BY <2>2, <2>3, <2>4, <2>5
<1>3. Inv => HubTyped /\ PipesTyped /\ LoopTyped /\ Mirrors
  BY TypedParts DEF Mirrors, Local
<1> HIDE DEF Inv
<1> QED  BY <1>1, <1>2, <1>3, PTL DEF Spec

\* What waits in a queue is in the log, or its cancellation is behind it on
\* the pipe.
THEOREM QueueIsLogged == Spec => []QueueFollowsLog
<1>1. ASSUME Mirrors PROVE QueueFollowsLog
  <2> SUFFICES ASSUME NEW p \in Procs, NEW i \in DOMAIN queue[p],
                      ~Current(queue[p][i])
               PROVE  \E j \in DOMAIN inPipe[p] : Cancels(inPipe[p][j], queue[p][i].m)
    BY DEF QueueFollowsLog, Current, Cancels
  <2>1. ~Stays(inPipe[p], 0, queue[p][i].m)
    BY <1>1 DEF Mirrors, Follows
  <2> QED  BY <2>1 DEF Stays
<1> QED  BY <1>1, MirrorsAlways, PTL

-----------------------------------------------------------------------------
(* A message that waits is held by a runtime *)

\* It is queued, or on its way and newer than all that is read before it, or
\* the runtime has said that it took or dropped it.
Queues(p, m) == \E i \in DOMAIN queue[p] : queue[p][i] = [m |-> m, seq |-> rowSeq[m]]

Brings(p, m) ==
    \E i \in DOMAIN inPipe[p] :
        /\ inPipe[p][i] = MessageLine(m, rowSeq[m]) /\ lastSeen[p] < rowSeq[m]
        /\ \A j \in DOMAIN inPipe[p] :
              j < i /\ IsMessage(inPipe[p][j]) => inPipe[p][j].item.seq < rowSeq[m]

Reports(p, m) ==
    \E i \in DOMAIN outPipe[p] :
        outPipe[p][i].type \in {"consumed", "canceled"} /\ m \in outPipe[p][i].ms

Keeps(p, m) == Queues(p, m) \/ Brings(p, m) \/ Reports(p, m)

Held == \A m \in Messages : row[m] = "queued" =>
            m \in lost \/ \E p \in Procs : Live(p) /\ Keeps(p, m)

LEMMA KeptIsHeld ==
    ASSUME NEW p \in Procs, NEW m \in Messages, Keeps(p, m)
    PROVE  m \in HeldBy(p)
<1>1. CASE Queues(p, m)
  <2>1. PICK i \in DOMAIN queue[p] : queue[p][i] = [m |-> m, seq |-> rowSeq[m]]
    BY <1>1 DEF Queues
  <2>2. queue[p][i].m = m
    BY <2>1
  <2>3. m \in QueuedIds(p)
    BY <2>2 DEF QueuedIds
  <2> QED  BY <2>3 DEF HeldBy
<1>2. CASE Brings(p, m)
  <2>1. PICK i \in DOMAIN inPipe[p] : inPipe[p][i] = MessageLine(m, rowSeq[m])
    BY <1>2 DEF Brings
  <2>2. inPipe[p][i].type = "message" /\ inPipe[p][i].item.m = m
    BY <2>1 DEF MessageLine
  <2> QED  BY <2>2 DEF HeldBy
<1>3. CASE Reports(p, m)
  BY <1>3 DEF Reports, HeldBy
<1> QED  BY <1>1, <1>2, <1>3 DEF Keeps

\* A pipe that grows still brings what it brought.
LEMMA BringsMore ==
    ASSUME PipesTyped, NEW d \in Procs, NEW m \in Messages, Brings(d, m),
           rowSeq'[m] = rowSeq[m], lastSeen'[d] = lastSeen[d],
           \/ inPipe'[d] = inPipe[d]
           \/ \E line \in InLines : inPipe'[d] = Append(inPipe[d], line)
    PROVE  Brings(d, m)'
<1>1. PICK i \in DOMAIN inPipe[d] :
          /\ inPipe[d][i] = MessageLine(m, rowSeq[m]) /\ lastSeen[d] < rowSeq[m]
          /\ \A j \in DOMAIN inPipe[d] :
                j < i /\ IsMessage(inPipe[d][j]) => inPipe[d][j].item.seq < rowSeq[m]
  BY DEF Brings
<1>2. CASE inPipe'[d] = inPipe[d]
  BY <1>1, <1>2 DEF Brings, MessageLine, IsMessage
<1>3. ASSUME NEW line \in InLines, inPipe'[d] = Append(inPipe[d], line)
      PROVE  Brings(d, m)'
  <2> DEFINE pipe == inPipe[d]
             now == Append(pipe, line)
  <2>1. pipe \in Seq(InLines) /\ Len(pipe) \in Nat
    BY DEF PipesTyped
  <2>2. /\ DOMAIN now = DOMAIN pipe \cup {Len(pipe) + 1}
        /\ \A k \in DOMAIN pipe : now[k] = pipe[k] /\ k \in Nat /\ k < Len(pipe) + 1
    BY <2>1, AppendLines
  <2>3. inPipe'[d] = now /\ pipe = inPipe[d]
    BY <1>3
  <2> HIDE DEF pipe, now
  <2>4. \A j \in DOMAIN now : j < i => j \in DOMAIN pipe
    BY <1>1, <2>1, <2>2, <2>3
  <2>5. i \in DOMAIN now /\ now[i] = MessageLine(m, rowSeq[m])
    BY <1>1, <2>2, <2>3
  <2>6. \A j \in DOMAIN now :
            j < i /\ IsMessage(now[j]) => now[j].item.seq < rowSeq[m]
    BY <1>1, <2>2, <2>3, <2>4
  <2> QED  BY <1>1, <2>3, <2>5, <2>6 DEF Brings, MessageLine, IsMessage
<1> QED  BY <1>2, <1>3

LEMMA QueuesSame ==
    ASSUME NEW d \in Procs, NEW m \in Messages, Queues(d, m), rowSeq'[m] = rowSeq[m],
           \A i \in DOMAIN queue[d] : \E k \in DOMAIN queue'[d] : queue'[d][k] = queue[d][i]
    PROVE  Queues(d, m)'
BY DEF Queues

LEMMA ReportsMore ==
    ASSUME NEW d \in Procs, NEW m \in Messages, Reports(d, m), Speaks
    PROVE  Reports(d, m)'
BY DEF Reports, Speaks

LEMMA KeepsMore ==
    ASSUME PipesTyped, NEW d \in Procs, NEW m \in Messages, Keeps(d, m),
           rowSeq'[m] = rowSeq[m], lastSeen'[d] = lastSeen[d], queue'[d] = queue[d],
           \/ inPipe'[d] = inPipe[d]
           \/ \E line \in InLines : inPipe'[d] = Append(inPipe[d], line),
           Reports(d, m) => Reports(d, m)'
    PROVE  Keeps(d, m)'
<1>1. CASE Queues(d, m)
  <2>1. \A i \in DOMAIN queue[d] : \E k \in DOMAIN queue'[d] : queue'[d][k] = queue[d][i]
    OBVIOUS
  <2> QED  BY <1>1, <2>1, QueuesSame DEF Keeps
<1>2. CASE Brings(d, m)
  BY <1>2, BringsMore DEF Keeps
<1> QED  BY <1>1, <1>2 DEF Keeps

\* A message that is next to be read is new to the queue; one that is queued
\* stays, because a cancellation that is read is of another.
LEMMA KeepsRead ==
    ASSUME HubTyped, PipesTyped, LoopTyped, NEW d \in Procs, NEW m \in Messages,
           Follows(d), row[m] = "queued", Keeps(d, m), Read(d)
    PROVE  Keeps(d, m)'
<1> DEFINE pipe == inPipe[d]
           line == Head(pipe)
<1>1. /\ pipe # << >> /\ inPipe'[d] = Tail(pipe) /\ rowSeq' = rowSeq /\ outPipe' = outPipe
      /\ pipe \in Seq(InLines) /\ queue[d] \in Seq(Items) /\ lastSeen[d] \in Nat
      /\ rowSeq[m] \in Nat
  BY DEF Read, PipesTyped, LoopTyped, HubTyped
<1>2. line \in InLines /\ 1 \in DOMAIN pipe /\ line = pipe[1]
  BY <1>1
<1>3. \/ IsMessage(line) /\ Enqueue(d, line.item)
      \/ line.type = "cancel" /\ Remove(d, line.ms)
  BY DEF Read, IsMessage
<1>4. /\ \A i \in DOMAIN Tail(pipe) :
             /\ i + 1 \in DOMAIN pipe /\ Tail(pipe)[i] = pipe[i + 1]
             /\ i \in Nat /\ i > 0
      /\ \A i \in DOMAIN pipe :
             /\ i \in Nat /\ i > 0
             /\ i > 1 => i - 1 \in DOMAIN Tail(pipe) /\ Tail(pipe)[i - 1] = pipe[i]
  BY <1>1, TailLines
<1>5. inPipe[d] = pipe
  OBVIOUS
<1> HIDE DEF pipe, line
<1>6. IsMessage(line) => line.item \in Items /\ line.item.seq \in Nat
  BY <1>2 DEF InLines, IsMessage, Items, Seqs
<1>7. CASE Reports(d, m)
  BY <1>1, <1>7 DEF Reports, Keeps
<1>8. CASE Queues(d, m)
  <2>1. PICK k \in DOMAIN queue[d] : queue[d][k] = [m |-> m, seq |-> rowSeq[m]]
    BY <1>8 DEF Queues
  <2>2. \E i \in DOMAIN queue'[d] : queue'[d][i] = queue[d][k]
    <3>1. CASE IsMessage(line) /\ Enqueue(d, line.item)
      <4>1. queue'[d] = queue[d] \/ queue'[d] = Append(queue[d], line.item)
        BY <3>1 DEF Enqueue, LoopTyped
      <4>2. \A i \in DOMAIN queue[d] : /\ i \in DOMAIN Append(queue[d], line.item)
                                       /\ Append(queue[d], line.item)[i] = queue[d][i]
        BY <1>1, <1>6, <3>1
      <4> QED  BY <4>1, <4>2
    <3>2. CASE line.type = "cancel" /\ Remove(d, line.ms)
      <4>1. PICK ms : ms = line.ms
        OBVIOUS
      <4>2. Current(queue[d][k])
        BY <2>1 DEF Current
      <4>3. Stays(pipe, 0, queue[d][k].m)
        BY <1>5, <4>2 DEF Follows
      <4>4. queue[d][k].m \notin ms
        BY <1>2, <3>2, <4>1, <4>3 DEF Stays, Cancels
      <4>5. Remove(d, ms) /\ queue \in [Procs -> Seq(Items)]
        BY <3>2, <4>1 DEF LoopTyped
      <4> QED  BY <4>4, <4>5, RemoveKeeps
    <3> QED  BY <1>3, <3>1, <3>2
  <2>3. Queues(d, m)'
    BY <1>1, <2>1, <2>2 DEF Queues
  <2> QED  BY <2>3 DEF Keeps
<1>9. CASE Brings(d, m)
  <2>1. PICK i \in DOMAIN pipe :
            /\ pipe[i] = MessageLine(m, rowSeq[m]) /\ lastSeen[d] < rowSeq[m]
            /\ \A j \in DOMAIN pipe :
                  j < i /\ IsMessage(pipe[j]) => pipe[j].item.seq < rowSeq[m]
    BY <1>5, <1>9 DEF Brings
  <2>2. CASE i = 1
    <3>1. line = MessageLine(m, rowSeq[m])
      BY <1>2, <2>1, <2>2
    <3>2. IsMessage(line) /\ line.item = [m |-> m, seq |-> rowSeq[m]]
      BY <3>1 DEF MessageLine, IsMessage
    <3>3. PICK item : item = line.item
      OBVIOUS
    <3>4. Enqueue(d, item) /\ item.seq = rowSeq[m] /\ item \in Items
      BY <1>3, <1>6, <3>2, <3>3 DEF IsMessage
    <3>5. ~(item.seq <= lastSeen[d])
      BY <1>1, <2>1, <3>4
    <3>6. queue'[d] = Append(queue[d], item)
      BY <3>4, <3>5 DEF Enqueue, LoopTyped
    <3>7. Len(queue[d]) + 1 \in DOMAIN queue'[d] /\ queue'[d][Len(queue[d]) + 1] = item
      BY <1>1, <3>4, <3>6
    <3>8. Queues(d, m)'
      BY <1>1, <3>2, <3>3, <3>7 DEF Queues
    <3> QED  BY <3>8 DEF Keeps
  <2>3. CASE i # 1
    <3>1. i \in Nat /\ i > 1
      BY <1>4, <2>3
    <3>2. PICK k : k = i - 1
      OBVIOUS
    <3>3. k \in DOMAIN Tail(pipe) /\ Tail(pipe)[k] = MessageLine(m, rowSeq[m])
      BY <1>4, <2>1, <3>1, <3>2
    <3>4. \A j \in DOMAIN Tail(pipe) :
              j < k /\ IsMessage(Tail(pipe)[j]) => Tail(pipe)[j].item.seq < rowSeq[m]
      BY <1>4, <2>1, <3>1, <3>2
    <3>5. lastSeen'[d] < rowSeq[m]
      <4>1. CASE IsMessage(line) /\ Enqueue(d, line.item)
        <5>1. line.item.seq < rowSeq[m]
          BY <1>2, <2>1, <3>1, <4>1
        <5>2. lastSeen'[d] \in {lastSeen[d], line.item.seq}
          BY <4>1 DEF Enqueue, LoopTyped
        <5> QED  BY <2>1, <5>1, <5>2
      <4>2. CASE line.type = "cancel" /\ Remove(d, line.ms)
        BY <2>1, <4>2 DEF Remove
      <4> QED  BY <1>3, <4>1, <4>2
    <3>6. Brings(d, m)'
      BY <1>1, <3>3, <3>4, <3>5 DEF Brings, MessageLine, IsMessage
    <3> QED  BY <3>6 DEF Keeps
  <2> QED  BY <2>2, <2>3
<1> QED  BY <1>7, <1>8, <1>9 DEF Keeps

\* The batch of a turn is reported as taken, and the rest stays queued.
LEMMA KeepsTurn ==
    ASSUME PipesTyped, LoopTyped, NEW d \in Procs, NEW m \in Messages,
           Keeps(d, m), Turns(d)
    PROVE  Keeps(d, m)'
<1> DEFINE q == queue[d]
<1>1. PICK n \in 1..Len(q) :
          /\ queue' = [queue EXCEPT ![d] = SubSeq(q, n + 1, Len(q))]
          /\ Says(d, <<IdsLine("consumed", {q[i].m : i \in 1..n}), AliveLine(TRUE)>>)
  BY DEF Turns, StartTurn
<1>2. UNCHANGED <<rowSeq, inPipe, lastSeen>>
  BY DEF Turns
<1>3. q \in Seq(Items) /\ Len(q) \in Nat /\ DOMAIN q = 1..Len(q) /\ n \in Nat
  BY DEF LoopTyped
<1> DEFINE rest == SubSeq(q, n + 1, Len(q))
           batch == {q[i].m : i \in 1..n}
<1>4. /\ queue'[d] = rest /\ DOMAIN rest = 1..(Len(q) - n)
      /\ \A i \in 1..(Len(q) - n) : rest[i] = q[n + i]
  <2>1. /\ rest \in Seq(Items) /\ Len(rest) = Len(q) - n
        /\ \A i \in 1..(Len(q) - n) : rest[i] = q[n + i]
    BY <1>3, BatchSplit
  <2>2. DOMAIN rest = 1..(Len(q) - n)
    BY <2>1
  <2>3. queue'[d] = rest
    BY <1>1 DEF LoopTyped
  <2> QED  BY <2>1, <2>2, <2>3
<1> DEFINE lines == <<IdsLine("consumed", batch), AliveLine(TRUE)>>
<1>5. lines \in Seq(OutLines) /\ 1 \in DOMAIN lines /\ lines[1] = IdsLine("consumed", batch)
  <2>1. batch \in SUBSET Messages
    <3>1. \A i \in 1..n : q[i] \in Items
      BY <1>3
    <3> QED  BY <3>1 DEF Items
  <2> HIDE DEF batch
  <2>2. IdsLine("consumed", batch) \in OutLines /\ AliveLine(TRUE) \in OutLines
    BY <2>1, IdsLineType, AliveLineType
  <2>3. PICK a : a = IdsLine("consumed", batch)
    OBVIOUS
  <2>4. PICK b : b = AliveLine(TRUE)
    OBVIOUS
  <2>5. a \in OutLines /\ b \in OutLines /\ lines = <<a, b>>
    BY <2>2, <2>3, <2>4
  <2>6. <<a, b>> \in Seq(OutLines)
    BY <2>5, LinesType
  <2>7. 1 \in DOMAIN <<a, b>> /\ <<a, b>>[1] = a
    OBVIOUS
  <2> QED  BY <2>3, <2>5, <2>6, <2>7
<1>6. Says(d, lines)
  BY <1>1
<1>7. q = queue[d] /\ \A i \in 1..n : q[i].m \in batch
  OBVIOUS
<1> HIDE DEF q, rest, batch, lines
<1>8. Speaks /\ \E j \in DOMAIN outPipe'[d] : outPipe'[d][j] = lines[1]
  BY <1>5, <1>6, SaysMore
<1>9. CASE Queues(d, m)
  <2>1. PICK k \in DOMAIN q : q[k] = [m |-> m, seq |-> rowSeq[m]]
    BY <1>7, <1>9 DEF Queues
  <2>2. CASE k \in 1..n
    <3>1. m \in batch
      BY <1>7, <2>1, <2>2
    <3>2. Reports(d, m)'
      BY <1>5, <1>8, <3>1 DEF Reports, IdsLine
    <3> QED  BY <3>2 DEF Keeps
  <2>3. CASE k \notin 1..n
    <3>1. PICK i : i = k - n
      OBVIOUS
    <3>2. i \in 1..(Len(q) - n) /\ n + i = k
      BY <1>3, <2>3, <3>1
    <3>3. Queues(d, m)'
      BY <1>2, <1>4, <2>1, <3>2 DEF Queues
    <3> QED  BY <3>3 DEF Keeps
  <2> QED  BY <2>2, <2>3
<1>10. CASE Brings(d, m)
  BY <1>2, <1>10, BringsMore DEF Keeps
<1>11. CASE Reports(d, m)
  BY <1>8, <1>11, ReportsMore DEF Keeps
<1> QED  BY <1>9, <1>10, <1>11 DEF Keeps

\* What a reset drops is reported as dropped.
LEMMA KeepsStop ==
    ASSUME PipesTyped, LoopTyped, NEW d \in Procs, NEW m \in Messages,
           Keeps(d, m), Stops(d)
    PROVE  Keeps(d, m)'
<1>1. PICK announced \in Seq(OutLines) : Reset(d, announced)
  BY DEF Stops
<1>2. UNCHANGED <<rowSeq, inPipe, lastSeen>>
  BY <1>1 DEF Reset
<1> DEFINE dropped == IF queue[d] = << >> THEN << >> ELSE <<IdsLine("canceled", QueuedIds(d))>>
           lines == announced \o dropped \o <<AliveLine(FALSE)>>
<1>3. Says(d, lines)
  BY <1>1 DEF Reset
<1>4. IdsLine("canceled", QueuedIds(d)) \in OutLines /\ AliveLine(FALSE) \in OutLines
  <2>1. QueuedIds(d) \in SUBSET Messages
    <3>1. \A i \in DOMAIN queue[d] : queue[d][i] \in Items
      BY DEF LoopTyped
    <3> QED  BY <3>1 DEF Items, QueuedIds
  <2> QED  BY <2>1, IdsLineType, AliveLineType
<1>5. PICK told : told = IdsLine("canceled", QueuedIds(d))
  OBVIOUS
<1>6. PICK alive : alive = AliveLine(FALSE)
  OBVIOUS
<1>7. /\ lines \in Seq(OutLines)
      /\ queue[d] # << >> => \E i \in DOMAIN lines : lines[i] = told
  <2>1. told \in OutLines /\ alive \in OutLines
    BY <1>4, <1>5, <1>6
  <2>2. CASE queue[d] = << >>
    <3>1. lines = announced \o << >> \o <<alive>>
      BY <1>6, <2>2
    <3> QED  BY <2>1, <2>2, <3>1, AllLinesType
  <2>3. CASE queue[d] # << >>
    <3>1. lines = announced \o <<told>> \o <<alive>>
      BY <1>5, <1>6, <2>3
    <3>2. announced \o <<told>> \o <<alive>> \in Seq(OutLines)
      BY <2>1, AllLinesType
    <3>3. /\ Len(announced) + 1 \in DOMAIN (announced \o <<told>> \o <<alive>>)
          /\ (announced \o <<told>> \o <<alive>>)[Len(announced) + 1] = told
      BY <2>1
    <3> QED  BY <3>1, <3>2, <3>3
  <2> QED  BY <2>2, <2>3
<1> HIDE DEF lines, dropped
<1>8. Speaks /\ \A i \in DOMAIN lines : \E j \in DOMAIN outPipe'[d] : outPipe'[d][j] = lines[i]
  BY <1>3, <1>7, SaysMore
<1>9. CASE Queues(d, m)
  <2>1. PICK k \in DOMAIN queue[d] : queue[d][k] = [m |-> m, seq |-> rowSeq[m]]
    BY <1>9 DEF Queues
  <2>2. queue[d][k].m = m
    BY <2>1
  <2>3. m \in QueuedIds(d)
    BY <2>2 DEF QueuedIds
  <2>4. queue[d] # << >>
    BY <2>1
  <2>5. \E j \in DOMAIN outPipe'[d] : outPipe'[d][j] = told
    BY <1>7, <1>8, <2>4
  <2>6. Reports(d, m)'
    BY <1>5, <2>3, <2>5 DEF Reports, IdsLine
  <2> QED  BY <2>6 DEF Keeps
<1>10. CASE Brings(d, m)
  BY <1>2, <1>10, BringsMore DEF Keeps
<1>11. CASE Reports(d, m)
  BY <1>8, <1>11, ReportsMore DEF Keeps
<1> QED  BY <1>9, <1>10, <1>11 DEF Keeps

\* When the Hub hears that a message was taken or dropped, its row no longer
\* waits; it still has heard nothing of the others.
LEMMA KeepsIngest ==
    ASSUME HubTyped, PipesTyped, LoopTyped, NEW p \in Procs, Ingest(p),
           NEW d \in Procs, NEW m \in Messages, Keeps(d, m), row'[m] = "queued"
    PROVE  Keeps(d, m)'
<1>1. /\ UNCHANGED <<queue, lastSeen, rowSeq>>
      /\ Invokes \/ \E ms \in SUBSET Messages : TakesBack(ms)
      /\ outPipe[p] # << >> /\ outPipe' = [outPipe EXCEPT ![p] = Tail(@)]
      /\ Head(outPipe[p]).type \in {"consumed", "canceled"} => m \notin Head(outPipe[p]).ms
  BY IngestKinds
<1>2. \/ inPipe'[d] = inPipe[d]
      \/ \E line \in InLines : inPipe'[d] = Append(inPipe[d], line)
  <2>1. CASE Invokes
    BY <2>1 DEF Invokes
  <2>2. ASSUME NEW ms \in SUBSET Messages, TakesBack(ms)
        PROVE  \/ inPipe'[d] = inPipe[d]
               \/ \E line \in InLines : inPipe'[d] = Append(inPipe[d], line)
    <3>1. CancelLine(ms) \in InLines
      BY CancelLineType
    <3> QED  BY <2>2, <3>1, SentLines DEF TakesBack
  <2> QED  BY <1>1, <2>1, <2>2
<1>3. ASSUME Reports(d, m) PROVE Reports(d, m)'
  <2>1. PICK i \in DOMAIN outPipe[d] :
            outPipe[d][i].type \in {"consumed", "canceled"} /\ m \in outPipe[d][i].ms
    BY <1>3 DEF Reports
  <2>2. CASE d # p
    <3>1. outPipe'[d] = outPipe[d]
      BY <1>1, <2>2 DEF PipesTyped
    <3> QED  BY <1>3, <3>1 DEF Reports
  <2>3. CASE d = p
    <3> DEFINE pipe == outPipe[d]
    <3>1. pipe \in Seq(OutLines) /\ pipe # << >> /\ outPipe'[d] = Tail(pipe)
      BY <1>1, <2>3 DEF PipesTyped
    <3>2. /\ i \in Nat /\ i > 0
          /\ i > 1 => i - 1 \in DOMAIN Tail(pipe) /\ Tail(pipe)[i - 1] = pipe[i]
          /\ Head(pipe) = pipe[1]
      BY <3>1, TailLines
    <3>3. i # 1
      BY <1>1, <2>1, <2>3, <3>2
    <3>4. PICK k : k = i - 1
      OBVIOUS
    <3>5. k \in DOMAIN Tail(pipe) /\ Tail(pipe)[k] = outPipe[d][i]
      BY <3>2, <3>3, <3>4
    <3> QED  BY <2>1, <3>1, <3>5 DEF Reports
  <2> QED  BY <2>2, <2>3
<1> QED  BY <1>1, <1>2, <1>3, KeepsMore

\* A message that is new in the log is newer than all the target has seen.
LEMMA KeepsPosted ==
    ASSUME HubTyped, PipesTyped, LoopTyped, Dated, NEW m \in Messages, NEW seq \in Seqs,
           Posts(m, seq), row[m] = "absent", UNCHANGED <<outPipe, loopVars>>,
           NEW d \in Target
    PROVE  Keeps(d, m)'
<1> DEFINE pipe == inPipe[d]
           line == MessageLine(m, seq)
           now == Append(pipe, line)
<1>1. d \in Procs
  BY DEF Target, PipesTyped
<1>2. pipe \in Seq(InLines) /\ Len(pipe) \in Nat /\ line \in InLines
  BY <1>1, MessageLineType DEF PipesTyped
<1>3. inPipe'[d] = now
  BY <1>1, <1>2, SentLines DEF Posts
<1>4. /\ seq = lastSeq + 1 /\ lastSeq \in Nat /\ rowSeq'[m] = seq
      /\ lastSeen'[d] = lastSeen[d] /\ lastSeen[d] \in Nat /\ lastSeen[d] <= lastSeq
  BY <1>1 DEF Posts, HubTyped, LoopTyped, Dated
<1>5. lastSeen'[d] < rowSeq'[m]
  BY <1>4
<1>6. /\ DOMAIN now = DOMAIN pipe \cup {Len(pipe) + 1}
      /\ \A k \in DOMAIN pipe : now[k] = pipe[k] /\ k \in Nat /\ k < Len(pipe) + 1
      /\ now[Len(pipe) + 1] = line /\ Len(pipe) + 1 \in Nat
  BY <1>2, AppendLines
<1>7. ASSUME NEW j \in DOMAIN now, j < Len(pipe) + 1, IsMessage(now[j])
      PROVE  now[j].item.seq < seq
  <2>1. j \in DOMAIN pipe /\ now[j] = pipe[j]
    BY <1>2, <1>6, <1>7
  <2>2. pipe[j] \in InLines /\ pipe[j].item.seq <= lastSeq
    BY <1>1, <1>2, <1>7, <2>1 DEF Dated
  <2>3. pipe[j].item.seq \in Nat
    BY <1>7, <2>1, <2>2 DEF InLines, IsMessage, Items, Seqs
  <2> QED  BY <1>4, <2>1, <2>2, <2>3
<1>8. line = MessageLine(m, seq)
  OBVIOUS
<1> HIDE DEF pipe, line, now
<1>9. Brings(d, m)'
  BY <1>3, <1>4, <1>5, <1>6, <1>7, <1>8 DEF Brings, MessageLine, IsMessage
<1> QED  BY <1>9 DEF Keeps

LEMMA KeepsOther ==
    ASSUME PipesTyped, NEW d \in Procs, NEW m \in Messages, Keeps(d, m),
           rowSeq'[m] = rowSeq[m], lastSeen'[d] = lastSeen[d], queue'[d] = queue[d],
           inPipe'[d] = inPipe[d], outPipe'[d] = outPipe[d]
    PROVE  Keeps(d, m)'
<1>1. Reports(d, m) => Reports(d, m)'
  BY DEF Reports
<1> QED  BY <1>1, KeepsMore

\* What a step of one runtime does to a message that it, or another, keeps.
LEMMA KeepsAlone ==
    ASSUME HubTyped, PipesTyped, LoopTyped, NEW p \in Procs,
           Spawn(p) \/ Read(p) \/ Turns(p) \/ Stops(p),
           NEW d \in Procs, NEW m \in Messages, Live(d), Follows(d),
           row[m] = "queued", Keeps(d, m)
    PROVE  pc'[d] \in LoopStates /\ Keeps(d, m)'
<1>1. CASE Spawn(p)
  <2>1. /\ pc[p] = "unborn" /\ pc' = [pc EXCEPT ![p] = "top"]
        /\ UNCHANGED <<rowSeq, lastSeen, queue, inPipe>>
        /\ Says(p, <<Line("started"), AliveLine(FALSE)>>)
    BY <1>1 DEF Spawn
  <2>2. d # p /\ pc'[d] = pc[d]
    BY <2>1 DEF Live, LoopStates, LoopTyped
  <2>3. outPipe'[d] = outPipe[d]
    BY <2>1, <2>2 DEF Says, PipesTyped
  <2> QED  BY <2>1, <2>2, <2>3, KeepsOther DEF Live
<1>2. CASE Read(p)
  <2>1. inPipe' = [inPipe EXCEPT ![p] = Tail(@)] /\ UNCHANGED <<rowSeq, outPipe>>
    BY <1>2 DEF Read
  <2>2. PICK line : \/ Enqueue(p, line.item)
                    \/ Remove(p, line.ms)
    BY <1>2 DEF Read
  <2>3. pc'[d] \in {pc[d], "woken"}
    BY <2>2 DEF Enqueue, Remove, LoopTyped
  <2>4. pc'[d] \in LoopStates
    BY <2>3 DEF Live, LoopStates
  <2>5. CASE d # p
    <3>1. inPipe'[d] = inPipe[d]
      BY <2>1, <2>5 DEF PipesTyped
    <3>2. ASSUME NEW item, Enqueue(p, item)
          PROVE  queue'[d] = queue[d] /\ lastSeen'[d] = lastSeen[d]
      BY <2>5, <3>2 DEF Enqueue, LoopTyped
    <3>3. ASSUME NEW ms, Remove(p, ms)
          PROVE  queue'[d] = queue[d] /\ lastSeen'[d] = lastSeen[d]
      BY <2>5, <3>3 DEF Remove, LoopTyped
    <3>4. queue'[d] = queue[d] /\ lastSeen'[d] = lastSeen[d]
      BY <2>2, <3>2, <3>3
    <3> QED  BY <2>1, <2>4, <3>1, <3>4, KeepsOther
  <2>6. CASE d = p
    BY <1>2, <2>4, <2>6, KeepsRead
  <2> QED  BY <2>5, <2>6
<1>3. CASE Turns(p)
  <2>1. UNCHANGED <<rowSeq, inPipe, lastSeen>> /\ StartTurn(p)
    BY <1>3 DEF Turns
  <2>2. PICK lines : pc' = [pc EXCEPT ![p] = "turn"] /\ Says(p, lines)
    BY <2>1 DEF StartTurn
  <2>3. pc'[d] \in LoopStates
    BY <2>2 DEF Live, LoopStates, LoopTyped
  <2>4. CASE d # p
    <3>1. queue'[d] = queue[d]
      BY <2>1, <2>4 DEF StartTurn, LoopTyped
    <3>2. outPipe'[d] = outPipe[d]
      BY <2>2, <2>4 DEF Says, PipesTyped
    <3> QED  BY <2>1, <2>3, <3>1, <3>2, KeepsOther
  <2>5. CASE d = p
    BY <1>3, <2>3, <2>5, KeepsTurn
  <2> QED  BY <2>4, <2>5
<1>4. CASE Stops(p)
  <2>1. /\ UNCHANGED <<rowSeq, inPipe, lastSeen, pc>>
        /\ queue' = [queue EXCEPT ![p] = << >>]
        /\ \E lines : Says(p, lines)
    BY <1>4 DEF Stops, Reset
  <2>2. CASE d # p
    <3>1. queue'[d] = queue[d] /\ outPipe'[d] = outPipe[d]
      BY <2>1, <2>2 DEF Says, PipesTyped, LoopTyped
    <3> QED  BY <2>1, <3>1, KeepsOther DEF Live
  <2>3. CASE d = p
    BY <1>4, <2>1, <2>3, KeepsStop DEF Live
  <2> QED  BY <2>2, <2>3
<1> QED  BY <1>1, <1>2, <1>3, <1>4

LEMMA LostStays == ASSUME HubTyped, PipesTyped, LoopTyped, [Next]_vars PROVE lost \subseteq lost'
<1>1. \A o \in Ops, queued \in BOOLEAN : AppendMessage(o, queued) => lost \subseteq lost'
  BY DEF AppendMessage
<1>2. \A p \in Procs : Gone(p) => lost \subseteq lost'
  BY DEF Gone
<1>3. \A c \in Messages : Cancel(c) => lost' = lost
  BY DEF Cancel
<1>4. \A p \in Procs : Ingest(p) \/ Spawn(p) \/ Read(p) \/ Turns(p) => lost' = lost
  BY DEF Ingest, Spawn, Read, Turns
<1>5. \A p \in Procs : Stops(p) => lost' = lost
  BY DEF Stops, Reset
<1>6. Rests => lost' = lost
  BY DEF Rests
<1> QED  BY Kinds, <1>1, <1>2, <1>3, <1>4, <1>5, <1>6

LEMMA HeldStep ==
    ASSUME HubTyped, PipesTyped, LoopTyped, Mirrors, Held, [Next]_vars
    PROVE  Held'
<1> DEFINE HeldNow(m) ==
        m \in lost' \/ \E d \in Procs : pc'[d] \in LoopStates /\ Keeps(d, m)'
<1> SUFFICES ASSUME NEW m \in Messages, row'[m] = "queued" PROVE HeldNow(m)
  BY DEF Held, Live
<1>1. CASE row[m] = "queued" /\ m \in lost
  BY <1>1, LostStays
<1>2. ASSUME row[m] = "queued", NEW d \in Procs, Live(d), Keeps(d, m)
      PROVE  HeldNow(m)
  <2> DEFINE Goal == HeldNow(m)
  <2>a. pc'[d] \in LoopStates /\ Keeps(d, m)' => Goal
    OBVIOUS
  <2>b. m \in lost' => Goal
    OBVIOUS
  <2> HIDE DEF Goal
  <2>1. ASSUME NEW line \in InLines, inPipe' = Sent(inPipe, line)
        PROVE  \/ inPipe'[d] = inPipe[d]
               \/ \E l \in InLines : inPipe'[d] = Append(inPipe[d], l)
    BY <2>1, SentLines
  <2>2. ASSUME Rests PROVE Goal
    <3>1. Keeps(d, m)'
      BY <1>2, <2>2, ReportsMore, KeepsMore DEF Rests
    <3>2. pc'[d] \in LoopStates
      BY <1>2, <2>2 DEF Rests, Live
    <3> QED  BY <2>a, <3>1, <3>2
  <2>3. ASSUME NEW o \in Ops, NEW queued \in BOOLEAN, AppendMessage(o, queued),
               UNCHANGED <<active, thinking, tracked, outPipe, loopVars>>
        PROVE  Goal
    <3>1. PICK n \in Messages, seq \in Seqs : Posts(n, seq)
      BY <2>3, AppendPosts
    <3>2. rowSeq'[m] = rowSeq[m]
      BY <1>2, <3>1 DEF Posts, HubTyped
    <3>3. \/ inPipe'[d] = inPipe[d]
          \/ \E l \in InLines : inPipe'[d] = Append(inPipe[d], l)
      BY <2>1, <3>1, MessageLineType DEF Posts
    <3>4. Reports(d, m) => Reports(d, m)'
      BY <2>3 DEF Reports
    <3>5. Keeps(d, m)'
      BY <1>2, <2>3, <3>2, <3>3, <3>4, KeepsMore
    <3> QED  BY <1>2, <2>3, <2>a, <3>5 DEF Live
  <2>4. ASSUME NEW n \in Messages, Cancel(n) PROVE Goal
    <3>1. UNCHANGED <<outPipe, pc, queue, lastSeen>> /\ \E ms \in SUBSET Messages : TakesBack(ms)
      BY <2>4, CancelKind
    <3>2. PICK ms \in SUBSET Messages : TakesBack(ms)
      BY <3>1
    <3>3. \/ inPipe'[d] = inPipe[d]
          \/ \E l \in InLines : inPipe'[d] = Append(inPipe[d], l)
      BY <2>1, <3>2, CancelLineType DEF TakesBack
    <3>4. Reports(d, m) => Reports(d, m)'
      BY <3>1 DEF Reports
    <3>5. rowSeq' = rowSeq
      BY <3>2 DEF TakesBack
    <3>6. Keeps(d, m)'
      BY <1>2, <3>1, <3>3, <3>4, <3>5, KeepsMore
    <3> QED  BY <1>2, <2>a, <3>1, <3>6 DEF Live
  <2>5. ASSUME NEW p \in Procs, Ingest(p) PROVE Goal
    <3>1. Keeps(d, m)'
      BY <1>2, <2>5, KeepsIngest
    <3>2. pc' = pc
      BY <2>5, IngestKinds
    <3> QED  BY <1>2, <2>a, <3>1, <3>2 DEF Live
  <2>6. ASSUME NEW p \in Procs, Spawn(p) \/ Read(p) \/ Turns(p) \/ Stops(p)
        PROVE  Goal
    <3>1. Follows(d)
      BY DEF Mirrors
    <3>2. pc'[d] \in LoopStates /\ Keeps(d, m)'
      BY <1>2, <2>6, <3>1, KeepsAlone
    <3> QED  BY <2>a, <3>2
  <2>7. ASSUME NEW p \in Procs, Gone(p) PROVE Goal
    <3>1. CASE d = p
      <4>1. m \in HeldBy(d)
        BY <1>2, KeptIsHeld
      <4>2. m \in lost'
        BY <2>7, <3>1, <4>1 DEF Gone
      <4> QED  BY <2>b, <4>2
    <3>2. CASE d # p
      <4>1. /\ pc'[d] = pc[d] /\ rowSeq' = rowSeq /\ lastSeen'[d] = lastSeen[d]
            /\ queue'[d] = queue[d] /\ inPipe'[d] = inPipe[d] /\ outPipe'[d] = outPipe[d]
        BY <2>7, <3>2 DEF Gone, LoopTyped, PipesTyped
      <4>2. Keeps(d, m)'
        BY <1>2, <4>1, KeepsOther
      <4> QED  BY <1>2, <2>a, <4>1, <4>2 DEF Live
    <3> QED  BY <3>1, <3>2
  <2>8. Goal
    BY Kinds, <2>2, <2>3, <2>4, <2>5, <2>6, <2>7
  <2> QED  BY <2>8 DEF Goal
<1>3. CASE row[m] # "queued"
  <2>1. PICK n \in Messages, seq \in Seqs :
            Posts(n, seq) /\ n = m /\ UNCHANGED <<tracked, outPipe, loopVars>>
    <3>1. ASSUME Invokes \/ \E ms \in SUBSET Messages : TakesBack(ms) PROVE FALSE
      BY <1>3, <3>1 DEF Invokes, TakesBack
    <3>2. ~Rests /\ ~(\E c \in Messages : Cancel(c)) /\ ~(\E p \in Procs : Ingest(p))
      BY <1>3, <3>1, CancelKind, IngestKinds DEF Rests
    <3>3. ~(\E p \in Procs : Spawn(p) \/ Read(p) \/ Turns(p) \/ Stops(p) \/ Gone(p))
      BY <1>3 DEF Spawn, Read, Turns, Stops, Reset, Gone
    <3>4. PICK o \in Ops, queued \in BOOLEAN :
              /\ AppendMessage(o, queued)
              /\ UNCHANGED <<active, thinking, tracked, outPipe, loopVars>>
      BY Kinds, <3>2, <3>3
    <3>5. PICK n \in Messages, seq \in Seqs : Posts(n, seq)
      BY <3>4, AppendPosts
    <3>6. n = m
      BY <1>3, <3>5 DEF Posts
    <3> QED  BY <3>4, <3>5, <3>6
  <2>2. row[m] = "absent"
    BY <1>3, <2>1 DEF Posts
  <2>3. CASE Target = {}
    BY <2>1, <2>3 DEF Posts
  <2>4. CASE Target # {}
    <3>1. PICK d \in Target : TRUE
      BY <2>4
    <3>2. d \in Procs /\ Live(d)
      BY DEF Target, PipesTyped, Mirrors, Succession
    <3>3. Keeps(d, m)'
      BY <2>1, <2>2, KeepsPosted DEF Mirrors
    <3> QED  BY <2>1, <3>2, <3>3 DEF Live
  <2> QED  BY <2>3, <2>4
<1> QED  BY <1>1, <1>2, <1>3 DEF Held

\* A message the log shows as waiting is with a runtime that takes it or
\* reports what became of it, unless it was lost with a process.
THEOREM WaitingIsKept == Spec => []WaitingIsHeld
<1> DEFINE Base == HubTyped /\ PipesTyped /\ LoopTyped /\ Mirrors
<1>1. Init => Held
  BY DEF Init, Held
<1>2. Base /\ Held /\ [Next]_vars => Held'
  BY HeldStep
<1>3. Spec => []Base
  BY MirrorsAlways
<1>4. Held => WaitingIsHeld
  BY KeptIsHeld DEF Held, WaitingIsHeld
<1> HIDE DEF Base
<1> QED  BY <1>1, <1>2, <1>3, <1>4, PTL DEF Spec
=============================================================================
