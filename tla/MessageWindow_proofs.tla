------------------------ MODULE MessageWindow_proofs ------------------------
(***************************************************************************)
(* Proofs about MessageWindow, for any messages, rows, page sizes and      *)
(* broken sockets: its types; the banner tells the state of the            *)
(* connection; a message is shown as under way only while its request is,  *)
(* as waiting only while the Hub has it so, and once; and a settled window *)
(* has every row the Hub keeps.                                            *)
(***************************************************************************)
EXTENDS MessageWindow, FiniteSetTheorems, SetInduction, TLAPS

USE DEF hubVars, windowVars, historyVars

-----------------------------------------------------------------------------
(* The banner *)

\* What a view request can be, whatever rows it was answered with.
View(v) ==
    \/ v \in {None, Asked, Applied}
    \/ v = [phase |-> "answered", rows |-> v.rows, more |-> v.more,
            fresh |-> v.fresh]

Banner ==
    /\ view = [r \in Requests |-> view[r]]
    /\ \A r \in Requests : View(view[r])
    /\ sock \in {"never", "down", "up"}
    /\ status \in {"idle", "reconnecting", "syncing", "failed"}
    /\ BannerFollowsSocket

LEMMA Phases ==
    /\ None.phase = "none" /\ Asked.phase = "asked" /\ None # Asked
    /\ Applied.phase = "applied" /\ Applied \notin {None, Asked}
    /\ "load" \in Requests /\ "sync" \in Requests /\ "load" # "sync"
    /\ View(None) /\ View(Asked) /\ View(Applied)
    /\ \A v : View(v) /\ v \notin {None, Applied} =>
                  v.phase \in {"asked", "answered"}
    /\ \A rows, more, fresh :
           LET v == [phase |-> "answered", rows |-> rows, more |-> more,
                     fresh |-> fresh]
           IN  View(v) /\ v \notin {None, Asked, Applied}
<1>1. /\ None.phase = "none" /\ Asked.phase = "asked" /\ None # Asked
      /\ Applied.phase = "applied" /\ Applied \notin {None, Asked}
  BY DEF None, Asked, Applied
<1>2. \A rows, more, fresh :
           LET v == [phase |-> "answered", rows |-> rows, more |-> more,
                     fresh |-> fresh]
           IN  View(v) /\ v \notin {None, Asked, Applied}
  BY DEF None, Asked, Applied, View
<1>3. \A v : View(v) /\ v \notin {None, Applied} =>
                 v.phase \in {"asked", "answered"}
  BY DEF None, Asked, Applied, View
<1> QED  BY <1>1, <1>2, <1>3 DEF View, Requests

\* A view that was answered before its socket came keeps its answer.
LEMMA NoLongerFresh ==
    ASSUME NEW v, View(v), v.phase = "answered"
    PROVE  View([v EXCEPT !.fresh = FALSE]) /\ [v EXCEPT !.fresh = FALSE] # None
<1>1. PICK a, b, c : v = [phase |-> "answered", rows |-> a, more |-> b, fresh |-> c]
  BY Phases DEF View
<1>2. PICK no : no = FALSE
  OBVIOUS
<1>3. [v EXCEPT !.fresh = no] =
          [phase |-> "answered", rows |-> a, more |-> b, fresh |-> no]
  <2>1. [[phase |-> "answered", rows |-> a, more |-> b, fresh |-> c]
            EXCEPT !.fresh = no] =
                [phase |-> "answered", rows |-> a, more |-> b, fresh |-> no]
    BY ONLY TRUE
  <2> QED  BY ONLY <1>1, <2>1, Zenon
<1>4. View([v EXCEPT !.fresh = no]) /\ [v EXCEPT !.fresh = no] # None
  BY ONLY <1>3, Phases
<1> QED  BY ONLY <1>2, <1>4, Zenon

LEMMA InitBanner == Init => Banner
<1> SUFFICES ASSUME Init PROVE Banner
  OBVIOUS
<1>1. view = [r \in Requests |-> IF r = "load" THEN Asked ELSE None]
      /\ sock = "never" /\ status = "idle"
  BY DEF Init
<1>2. view["sync"] = None /\ \A r \in Requests : View(view[r])
  BY <1>1, Phases
<1>3. view = [r \in Requests |-> view[r]]
  BY <1>1
<1> QED  BY <1>1, <1>2, <1>3 DEF Banner, BannerFollowsSocket

LEMMA ConnectBanner ==
    ASSUME Banner, NEW recovered \in BOOLEAN, Connect(recovered)
    PROVE  Banner'
<1> DEFINE views == [r \in Requests |->
                        IF ~recovered /\ view[r].phase = "answered"
                        THEN [view[r] EXCEPT !.fresh = FALSE] ELSE view[r]]
<1>1. views = [r \in Requests |-> views[r]]
  OBVIOUS
<1>2. \A r \in Requests : View(views[r]) /\ (views[r] = None <=> view[r] = None)
  <2> SUFFICES ASSUME NEW r \in Requests
               PROVE  View(views[r]) /\ (views[r] = None <=> view[r] = None)
    OBVIOUS
  <2>1. View(view[r]) /\ "answered" # "none"
    BY DEF Banner
  <2>2. CASE ~recovered /\ view[r].phase = "answered"
    BY <2>1, <2>2, NoLongerFresh, Phases
  <2>3. CASE ~(~recovered /\ view[r].phase = "answered")
    BY <2>1, <2>3
  <2> QED  BY <2>2, <2>3
<1>3. sock' = "up" /\ sock # "up"
  BY DEF Connect
<1>4. IF sock = "down" THEN Reconnected(views)
      ELSE view' = views /\ status' = IF view["sync"] = None THEN "idle" ELSE status
  BY DEF Connect
<1> HIDE DEF views
<1>5. "sync" \in Requests /\ Asked # None /\ View(Asked)
  BY Phases
<1>6. status = "syncing" <=> view["sync"] # None
  BY DEF Banner, BannerFollowsSocket
<1>7. status \in {"idle", "reconnecting", "syncing", "failed"}
  BY DEF Banner
<1>8. CASE view' = views /\ status' = status /\ view["sync"] # None
  BY <1>1, <1>2, <1>3, <1>5, <1>6, <1>7, <1>8 DEF Banner, BannerFollowsSocket
<1>9. CASE view' = views /\ status' = "idle" /\ view["sync"] = None
  BY <1>1, <1>2, <1>3, <1>5, <1>9 DEF Banner, BannerFollowsSocket
<1>10. CASE view' = [views EXCEPT !["sync"] = Asked] /\ status' = "syncing"
  <2>1. /\ view' = [r \in Requests |-> view'[r]] /\ view'["sync"] = Asked
        /\ \A r \in Requests : r # "sync" => view'[r] = views[r]
    BY <1>1, <1>5, <1>10
  <2>2. \A r \in Requests : View(view'[r])
    BY <1>2, <1>5, <2>1
  <2> QED  BY <1>3, <1>5, <1>10, <2>1, <2>2 DEF Banner, BannerFollowsSocket
<1> QED  BY <1>4, <1>8, <1>9, <1>10 DEF Reconnected

\* One request's state moves: it stays a request, and the sync request decides
\* what the banner says.
LEMMA ViewMoves ==
    ASSUME Banner, NEW r \in Requests, NEW v, View(v),
           view' = [view EXCEPT ![r] = v]
    PROVE  /\ view' = [q \in Requests |-> view'[q]]
           /\ \A q \in Requests : View(view'[q])
           /\ view'[r] = v
           /\ r # "sync" => view'["sync"] = view["sync"]
<1>1. view = [q \in Requests |-> view[q]] /\ \A q \in Requests : View(view[q])
  BY DEF Banner
<1>2. /\ view' = [q \in Requests |-> view'[q]] /\ view'[r] = v
      /\ \A q \in Requests : q # r => view'[q] = view[q]
  BY <1>1
<1> QED  BY <1>1, <1>2, Phases

LEMMA AnswerBanner ==
    ASSUME Banner, NEW r \in Requests, Answer(r)
    PROVE  Banner'
<1> DEFINE v == [phase |-> "answered", rows |-> Rows(Page(Latest)),
                 more |-> HasMore(Latest), fresh |-> joined]
<1>1. view' = [view EXCEPT ![r] = v] /\ view[r] # None
      /\ sock' = sock /\ status' = status
  BY Phases DEF Answer
<1>2. View(v) /\ v # None
  BY Phases
<1> HIDE DEF v
<1>3. /\ view' = [q \in Requests |-> view'[q]]
      /\ \A q \in Requests : View(view'[q])
      /\ view'["sync"] # None <=> view["sync"] # None
  BY <1>1, <1>2, ViewMoves
<1> QED  BY <1>1, <1>3 DEF Banner, BannerFollowsSocket

LEMMA HydrateBanner ==
    ASSUME Banner, NEW r \in Requests, Hydrate(r)
    PROVE  Banner'
<1>1. view' = [view EXCEPT ![r] = IF r = "sync" THEN Applied ELSE None]
      /\ sock' = sock /\ status' = status /\ view[r].phase = "answered"
  BY DEF Hydrate
<1>2. View(IF r = "sync" THEN Applied ELSE None)
  BY Phases
<1>3. view[r] # None
  BY <1>1, Phases
<1>4. /\ view' = [q \in Requests |-> view'[q]]
      /\ \A q \in Requests : View(view'[q])
      /\ r = "sync" => view'["sync"] = Applied
      /\ r # "sync" => view'["sync"] = view["sync"]
  BY <1>1, <1>2, ViewMoves
<1>5. view'["sync"] # None <=> view["sync"] # None
  BY <1>3, <1>4, Phases
<1> QED  BY <1>1, <1>4, <1>5 DEF Banner, BannerFollowsSocket

LEMMA PageFailsBanner == ASSUME Banner, PageFails PROVE Banner'
<1>1. view' = [view EXCEPT !["load"] = None] /\ sock' = sock /\ status' = status
  BY DEF PageFails
<1>2. /\ view' = [q \in Requests |-> view'[q]]
      /\ \A q \in Requests : View(view'[q])
      /\ view'["sync"] = view["sync"]
  BY <1>1, ViewMoves, Phases
<1> QED  BY <1>1, <1>2 DEF Banner, BannerFollowsSocket

LEMMA RecoveryBanner ==
    ASSUME Banner,
           RecoveryEnds \/ RecoveryFails \/ Refresh \/ Disconnect \/ ConnectFails
    PROVE  Banner'
<1>1. CASE RecoveryFails
  <2>1. view' = [view EXCEPT !["sync"] = None] /\ sock' = sock /\ status' = "failed"
    BY <1>1 DEF RecoveryFails
  <2>2. /\ view' = [q \in Requests |-> view'[q]]
        /\ \A q \in Requests : View(view'[q])
        /\ view'["sync"] = None
    BY <2>1, ViewMoves, Phases
  <2> QED  BY <2>1, <2>2 DEF Banner, BannerFollowsSocket
<1>2. CASE Refresh
  <2>1. view' = [view EXCEPT !["sync"] = Asked] /\ sock' = sock /\ status' = "syncing"
    BY <1>2 DEF Refresh
  <2>2. /\ view' = [q \in Requests |-> view'[q]]
        /\ \A q \in Requests : View(view'[q])
        /\ view'["sync"] # None
    BY <2>1, ViewMoves, Phases
  <2> QED  BY <2>1, <2>2 DEF Banner, BannerFollowsSocket
<1>3. CASE Disconnect
  BY <1>3 DEF Disconnect, Banner, BannerFollowsSocket
<1>4. CASE ConnectFails
  BY <1>4 DEF ConnectFails, Banner, BannerFollowsSocket
<1>5. CASE RecoveryEnds
  <2>1. view' = [view EXCEPT !["sync"] = None] /\ sock' = sock /\ status' = Synced
    BY <1>5 DEF RecoveryEnds
  <2>2. /\ view' = [q \in Requests |-> view'[q]]
        /\ \A q \in Requests : View(view'[q])
        /\ view'["sync"] = None
    BY <2>1, ViewMoves, Phases
  <2> QED  BY <2>1, <2>2 DEF Banner, BannerFollowsSocket, Synced
<1> QED  BY <1>1, <1>2, <1>3, <1>4, <1>5

LEMMA BannerStep == ASSUME Banner, [Next]_vars PROVE Banner'
<1>1. ASSUME UNCHANGED <<view, sock, status>> PROVE Banner'
  BY <1>1 DEF Banner, BannerFollowsSocket
<1>2. CASE UNCHANGED vars
  BY <1>1, <1>2 DEF vars
<1>3. CASE Hub
  <2>1. CASE AgentWrites \/ HandlePost \/ Join
    BY <1>1, <2>1 DEF AgentWrites, HandlePost, Join
  <2>2. ASSUME NEW m \in Messages, HandleLate(m) \/ Consume(m) \/ Cancel(m)
        PROVE  Banner'
    BY <1>1, <2>2 DEF HandleLate, Consume, Cancel, Change
  <2>3. ASSUME NEW r \in Requests, Answer(r) PROVE Banner'
    BY <2>3, AnswerBanner
  <2> QED  BY <1>3, <2>1, <2>2, <2>3 DEF Hub
<1>4. CASE User
  <2>1. CASE Flush \/ Scroll \/ LoadOlder
    BY <1>1, <2>1 DEF Flush, Scroll, LoadOlder
  <2>2. CASE Refresh
    BY <2>2, RecoveryBanner
  <2>3. ASSUME NEW m \in Messages, Send(m) \/ Retry(m) PROVE Banner'
    BY <1>1, <2>3 DEF Send, Retry, Attempt
  <2> QED  BY <1>4, <2>1, <2>2, <2>3 DEF User
<1>5. CASE Network
  <2>1. CASE Receive \/ Accepted \/ Rejected \/ OlderPage \/ ShowOlder \/ OlderFails
    BY <1>1, <2>1 DEF Receive, Accepted, Rejected, OlderPage, ShowOlder, OlderFails
  <2>2. ASSUME NEW r \in Requests, Hydrate(r) PROVE Banner'
    BY <2>2, HydrateBanner
  <2>3. CASE RecoveryEnds \/ RecoveryFails \/ Disconnect \/ ConnectFails
    BY <2>3, RecoveryBanner
  <2>4. ASSUME NEW recovered \in BOOLEAN, Connect(recovered) PROVE Banner'
    BY <2>4, ConnectBanner
  <2>5. CASE LoadFails
    BY <1>1, <2>5 DEF LoadFails
  <2>6. CASE PageFails
    BY <2>6, PageFailsBanner
  <2> QED  BY <1>5, <2>1, <2>2, <2>3, <2>4, <2>5, <2>6 DEF Network
<1> QED  BY <1>2, <1>3, <1>4, <1>5 DEF Next

-----------------------------------------------------------------------------
(* Messages under way *)

Statuses == {"none", "sending", "queued", "failed", "sent"}
Bubbles == [status : Statuses, queued : BOOLEAN]
UnderWay(b) == b.status \in {"sending", "queued"}
LogRows == [who : Messages \cup {"agent"}, state : {"queued", "sent", "gone"}]

\* The send mutation and, once it is answered, the row it was answered with.
Request ==
    \/ post = None
    \/ /\ post.phase \in {"asked", "answered"} /\ post.who \in Messages
       /\ post.phase = "answered" =>
              post.seq \in DOMAIN log /\ log[post.seq].who = post.who

Sending ==
    /\ log \in Seq(LogRows)
    /\ bubble \in [Messages -> Bubbles]
    /\ Request
    /\ SendsEnd

\* The log only grows, and a row stays its writer's.
Grows ==
    /\ log' \in Seq(LogRows)
    /\ DOMAIN log \subseteq DOMAIN log'
    /\ \A s \in DOMAIN log : log'[s].who = log[s].who

\* Messages that are not, or are no longer, under way.
Calms ==
    /\ bubble' \in [Messages -> Bubbles]
    /\ \A m \in Messages : bubble'[m] = bubble[m] \/ ~UnderWay(bubble'[m])

LEMMA NoBubbleRests == NoBubble \in Bubbles /\ ~UnderWay(NoBubble)
BY DEF NoBubble, Bubbles, Statuses, UnderWay

LEMMA InitSending == Init => Sending
<1> SUFFICES ASSUME Init PROVE Sending
  OBVIOUS
<1>1. log = << >> /\ post = None /\ bubble = [m \in Messages |-> NoBubble]
  BY DEF Init
<1>2. log \in Seq(LogRows)
  BY <1>1
<1>3. SendsEnd
  BY <1>1, NoBubbleRests DEF SendsEnd, UnderWay
<1> QED  BY <1>1, <1>2, <1>3, NoBubbleRests DEF Sending, Request

\* Nothing is sent anew, and the request stays or moves on.
LEMMA SendingStays ==
    ASSUME Sending, Grows, Calms, post' = post
    PROVE  Sending'
<1>1. Request'
  BY DEF Sending, Request, Grows
<1>2. SendsEnd'
  BY DEF Sending, SendsEnd, Calms, UnderWay
<1> QED  BY <1>1, <1>2 DEF Sending, Grows, Calms

LEMMA GrowsOrStays ==
    ASSUME Sending
    PROVE  /\ log' = log => Grows
           /\ bubble' = bubble => Calms
BY DEF Sending, Grows, Calms

LEMMA AppendGrows ==
    ASSUME Sending, NEW row \in LogRows, log' = Append(log, row)
    PROVE  /\ Grows
           /\ Len(log) + 1 \in DOMAIN log' /\ log'[Len(log) + 1] = row
<1>1. log \in Seq(LogRows)
  BY DEF Sending
<1>2. log' \in Seq(LogRows) /\ DOMAIN log \subseteq DOMAIN log'
      /\ \A s \in DOMAIN log : log'[s] = log[s]
  BY <1>1
<1>3. Len(log) + 1 \in DOMAIN log' /\ log'[Len(log) + 1] = row
  BY <1>1
<1> QED  BY <1>2, <1>3 DEF Grows

\* A message is stored in a row of its own.
LEMMA StoreGrows ==
    ASSUME Sending, NEW m \in Messages, NEW seq \in Seqs, Store(m, seq)
    PROVE  Grows /\ seq \in DOMAIN log' /\ log'[seq].who = m
<1>1. CASE seq \in Known(m) /\ log' = log
  <2>1. seq \in DOMAIN log /\ log[seq].who = m
    BY <1>1 DEF Known, RowsOf, Kept
  <2> QED  BY <1>1, <2>1, GrowsOrStays
<1>2. ASSUME NEW state \in {"queued", "sent"}, seq = Len(log) + 1,
             log' = Append(log, [who |-> m, state |-> state])
      PROVE  Grows /\ seq \in DOMAIN log' /\ log'[seq].who = m
  <2> DEFINE row == [who |-> m, state |-> state]
  <2>1. row \in LogRows /\ row.who = m
    BY DEF LogRows
  <2> HIDE DEF row
  <2>2. log' = Append(log, row)
    BY <1>2 DEF row
  <2> QED  BY <1>2, <2>1, <2>2, AppendGrows
<1> QED  BY <1>1, <1>2 DEF Store

LEMMA DropCalms ==
    ASSUME Sending, NEW incoming, NEW merged, DropBubbles(incoming, merged)
    PROVE  /\ Calms
           /\ \A m \in Messages \cap Written(incoming) : ~UnderWay(bubble'[m])
<1>1. PICK near : bubble' = [m \in Messages |-> IF m \in near \cup Written(incoming)
                                                THEN NoBubble ELSE bubble[m]]
  BY DEF DropBubbles
<1>2. bubble \in [Messages -> Bubbles]
  BY DEF Sending
<1>3. \A m \in Messages : bubble'[m] = NoBubble \/ bubble'[m] = bubble[m]
  BY <1>1
<1>4. bubble' \in [Messages -> Bubbles]
  BY <1>1, <1>2, NoBubbleRests
<1>5. \A m \in Messages \cap Written(incoming) : bubble'[m] = NoBubble
  BY <1>1
<1> QED  BY <1>3, <1>4, <1>5, NoBubbleRests DEF Calms

LEMMA MergeCalms ==
    ASSUME Sending, NEW incoming, Merge(incoming)
    PROVE  Calms
BY DropCalms, GrowsOrStays DEF Merge

\* An accepted message's row takes the place of its bubble.
LEMMA IngestCalms ==
    ASSUME Sending, NEW seq \in DOMAIN log, NEW state,
           Ingest([s \in {seq} |-> state])
    PROVE  Calms /\ \A m \in Messages : log[seq].who = m => ~UnderWay(bubble'[m])
<1> DEFINE row == [s \in {seq} |-> state]
<1>1. DOMAIN row = {seq} /\ seq \in DOMAIN row
  OBVIOUS
<1>2. row # << >>
  <2>1. CASE row = << >>
    <3>1. DOMAIN << >> = {}
      OBVIOUS
    <3> QED  BY <1>1, <2>1, <3>1
  <2> QED  BY <2>1
<1>3. Merge(row)
  BY DEF Ingest
<1> HIDE DEF row
<1>4. DropBubbles(row, shown')
  BY <1>2, <1>3 DEF Merge
<1>5. log[seq].who \in Written(row)
  BY <1>1 DEF Written
<1> QED  BY <1>4, <1>5, DropCalms

LEMMA HubSending ==
    ASSUME Sending, Hub
    PROVE  Sending'
<1>1. CASE AgentWrites
  <2> DEFINE row == [who |-> "agent", state |-> "sent"]
  <2>1. log' = Append(log, row) /\ post' = post /\ bubble' = bubble
    BY <1>1 DEF AgentWrites
  <2>2. row \in LogRows
    BY DEF LogRows
  <2> HIDE DEF row
  <2> QED  BY <2>1, <2>2, AppendGrows, GrowsOrStays, SendingStays
<1>2. CASE HandlePost
  <2>1. PICK seq \in Seqs :
            /\ Store(post.who, seq)
            /\ post' = [phase |-> "answered", who |-> post.who, seq |-> seq,
                        state |-> log'[seq].state]
    BY <1>2 DEF HandlePost
  <2>2. post # None /\ post.who \in Messages /\ bubble' = bubble
    BY <1>2, Phases DEF HandlePost, Sending, Request
  <2>3. Grows /\ seq \in DOMAIN log' /\ log'[seq].who = post.who
    BY <2>1, <2>2, StoreGrows
  <2>4. /\ post'.phase = "answered" /\ post'.who = post.who /\ post'.seq = seq
        /\ post' # None
    BY <2>1 DEF None
  <2>5. Request'
    BY <2>2, <2>3, <2>4 DEF Request
  <2>6. SendsEnd'
    BY <2>2, <2>4 DEF Sending, SendsEnd
  <2> QED  BY <2>2, <2>3, <2>5, <2>6 DEF Sending, Grows
<1>3. ASSUME NEW m \in Messages, HandleLate(m) PROVE Sending'
  <2>1. PICK seq \in Seqs : Store(m, seq)
    BY <1>3 DEF HandleLate
  <2>2. post' = post /\ bubble' = bubble
    BY <1>3 DEF HandleLate
  <2> QED  BY <2>1, <2>2, StoreGrows, GrowsOrStays, SendingStays
<1>4. ASSUME NEW m \in Messages, Consume(m) \/ Cancel(m) PROVE Sending'
  <2>1. PICK state \in {"sent", "gone"}, s \in RowsOf(m) :
            log' = [log EXCEPT ![s].state = state]
    BY <1>4 DEF Consume, Cancel, Change
  <2>2. post' = post /\ bubble' = bubble
    BY <1>4 DEF Consume, Cancel, Change
  <2>3. log \in Seq(LogRows) /\ s \in DOMAIN log
    BY DEF Sending, RowsOf, Kept
  <2>4. log[s] \in LogRows
    BY <2>3
  <2> DEFINE row == [log[s] EXCEPT !.state = state]
  <2>5. row \in LogRows /\ row.who = log[s].who
    BY <2>4 DEF LogRows
  <2>6. log' = [log EXCEPT ![s] = row]
    BY <2>1
  <2> HIDE DEF row
  <2>7. /\ log' \in Seq(LogRows) /\ DOMAIN log' = DOMAIN log
        /\ \A t \in DOMAIN log : log'[t] = IF t = s THEN row ELSE log[t]
    BY <2>3, <2>5, <2>6
  <2>8. Grows
    BY <2>5, <2>7 DEF Grows
  <2> QED  BY <2>2, <2>8, GrowsOrStays, SendingStays
<1>5. ASSUME NEW r \in Requests, Answer(r) \/ Join PROVE Sending'
  <2>1. log' = log /\ post' = post /\ bubble' = bubble
    BY <1>5 DEF Answer, Join
  <2> QED  BY <2>1, GrowsOrStays, SendingStays
<1>6. CASE Join
  BY <1>5, <1>6, Phases
<1> QED  BY <1>1, <1>2, <1>3, <1>4, <1>5, <1>6 DEF Hub

\* A request that begins finds none under way.
LEMMA AttemptSending ==
    ASSUME Sending, NEW m \in Messages, Attempt(m), NEW b \in Bubbles,
           bubble' = [bubble EXCEPT ![m] = b]
    PROVE  Sending'
<1>1. post = None /\ post' = [phase |-> "asked", who |-> m] /\ log' = log
  BY DEF Attempt
<1>2. post' # None /\ post'.phase = "asked" /\ post'.who = m
  BY <1>1 DEF None
<1>3. /\ bubble' \in [Messages -> Bubbles]
      /\ \A n \in Messages : n # m => bubble'[n] = bubble[n]
  BY DEF Sending
<1>4. \A n \in Messages : n # m => ~UnderWay(bubble'[n])
  BY <1>1, <1>3 DEF Sending, SendsEnd, UnderWay
<1>5. SendsEnd'
  BY <1>2, <1>4 DEF SendsEnd, UnderWay
<1>6. Request'
  BY <1>2 DEF Request
<1> QED  BY <1>1, <1>3, <1>5, <1>6 DEF Sending

LEMMA UserSending ==
    ASSUME Sending, User
    PROVE  Sending'
<1>1. CASE Flush
  <2>1. log' = log /\ post' = post /\ Merge(AllSent(pending))
    BY <1>1 DEF Flush
  <2> QED  BY <2>1, MergeCalms, GrowsOrStays, SendingStays
<1>2. CASE Scroll \/ LoadOlder \/ Refresh
  <2>1. log' = log /\ post' = post /\ bubble' = bubble
    BY <1>2 DEF Scroll, LoadOlder, Refresh
  <2> QED  BY <2>1, GrowsOrStays, SendingStays
<1>3. ASSUME NEW m \in Messages, Send(m) PROVE Sending'
  <2>1. PICK queued \in BOOLEAN :
            bubble' = [bubble EXCEPT ![m] =
                          [status |-> IF queued THEN "queued" ELSE "sending",
                           queued |-> queued]]
    BY <1>3 DEF Send
  <2> DEFINE b == [status |-> IF queued THEN "queued" ELSE "sending",
                   queued |-> queued]
  <2>2. b \in Bubbles
    BY DEF Bubbles, Statuses
  <2>3. bubble' = [bubble EXCEPT ![m] = b] /\ Attempt(m)
    BY <1>3, <2>1 DEF Send
  <2> HIDE DEF b
  <2> QED  BY <2>2, <2>3, AttemptSending
<1>4. ASSUME NEW m \in Messages, Retry(m) PROVE Sending'
  <2>1. PICK asked \in {"queued", "sending"} :
            bubble' = [bubble EXCEPT ![m].status = asked]
    BY <1>4 DEF Retry
  <2> DEFINE b == [bubble[m] EXCEPT !.status = asked]
  <2>2. bubble[m] \in Bubbles
    BY DEF Sending
  <2>3. b \in Bubbles
    BY <2>2 DEF Bubbles, Statuses
  <2>4. bubble' = [bubble EXCEPT ![m] = b] /\ Attempt(m)
    BY <1>4, <2>1 DEF Retry
  <2> HIDE DEF b
  <2> QED  BY <2>3, <2>4, AttemptSending
<1> QED  BY <1>1, <1>2, <1>3, <1>4 DEF User

\* The request ends with the message's bubble gone or marked failed.
LEMMA RequestEnds ==
    ASSUME Sending, post # None, post' = None, log' = log, Calms,
           ~UnderWay(bubble'[post.who])
    PROVE  Sending'
<1>1. \A m \in Messages : ~UnderWay(bubble'[m])
  BY DEF Sending, SendsEnd, Calms, UnderWay
<1>2. SendsEnd' /\ Request'
  BY <1>1 DEF SendsEnd, UnderWay, Request
<1> QED  BY <1>2 DEF Sending, Calms

LEMMA AcceptedSending == ASSUME Sending, Accepted PROVE Sending'
<1>1. /\ post # None /\ post.who \in Messages
      /\ post.seq \in DOMAIN log /\ log[post.seq].who = post.who
  BY Phases DEF Accepted, Sending, Request
<1>2. Ingest([s \in {post.seq} |-> post.state]) /\ post' = None /\ log' = log
  BY DEF Accepted
<1>3. Calms /\ ~UnderWay(bubble'[post.who])
  BY <1>1, <1>2, IngestCalms
<1> QED  BY <1>1, <1>2, <1>3, RequestEnds

LEMMA RejectedSending == ASSUME Sending, Rejected PROVE Sending'
<1> DEFINE b == [bubble[post.who] EXCEPT !.status = "failed"]
<1>1. post # None /\ post' = None /\ log' = log /\ post.who \in Messages
  BY DEF Rejected, Sending, Request
<1>2. bubble \in [Messages -> Bubbles] /\ bubble[post.who] \in Bubbles
  BY <1>1 DEF Sending
<1>3. b \in Bubbles /\ ~UnderWay(b)
  BY <1>2 DEF Bubbles, Statuses, UnderWay
<1>4. \/ bubble[post.who] = NoBubble /\ bubble' = bubble
      \/ bubble' = [bubble EXCEPT ![post.who] = b]
  BY DEF Rejected
<1> HIDE DEF b
<1>5. Calms /\ ~UnderWay(bubble'[post.who])
  <2>1. CASE bubble[post.who] = NoBubble /\ bubble' = bubble
    BY <2>1, NoBubbleRests, GrowsOrStays
  <2>2. CASE bubble' = [bubble EXCEPT ![post.who] = b]
    BY <1>1, <1>2, <1>3, <2>2 DEF Calms
  <2> QED  BY <1>4, <2>1, <2>2
<1> QED  BY <1>1, <1>5, RequestEnds

LEMMA ReceiveSending ==
    ASSUME Sending, Receive
    PROVE  Sending'
<1> DEFINE event == Head(wire)
<1>1. log' = log /\ post' = post
  BY DEF Receive
<1>2. \/ Ingest([s \in {event.seq} |-> event.state])
      \/ MarkConsumed(event.who)
      \/ RemoveQueued(event.who)
  BY DEF Receive
<1> HIDE DEF event
<1>3. CASE Ingest([s \in {event.seq} |-> event.state])
  <2>1. Merge([s \in {event.seq} |-> event.state])
    BY <1>3 DEF Ingest
  <2> QED  BY <1>1, <2>1, MergeCalms, GrowsOrStays, SendingStays
<1>4. CASE MarkConsumed(event.who)
  <2> DEFINE b == [status |-> "sent", queued |-> FALSE]
  <2>1. bubble' = bubble \/ bubble' = [bubble EXCEPT ![event.who] = b]
    BY <1>4 DEF MarkConsumed
  <2>2. b \in Bubbles /\ ~UnderWay(b)
    BY DEF Bubbles, Statuses, UnderWay
  <2> HIDE DEF b
  <2>3. Calms
    BY <2>1, <2>2 DEF Sending, Calms
  <2> QED  BY <1>1, <2>3, GrowsOrStays, SendingStays
<1>5. CASE RemoveQueued(event.who)
  <2>1. bubble' = bubble \/ bubble' = [bubble EXCEPT ![event.who] = NoBubble]
    BY <1>5 DEF RemoveQueued
  <2>2. Calms
    BY <2>1, NoBubbleRests DEF Sending, Calms
  <2> QED  BY <1>1, <2>2, GrowsOrStays, SendingStays
<1> QED  BY <1>2, <1>3, <1>4, <1>5

LEMMA NetworkSending ==
    ASSUME Sending, Network
    PROVE  Sending'
<1>1. CASE Receive \/ Accepted \/ Rejected
  BY <1>1, ReceiveSending, AcceptedSending, RejectedSending
<1>2. CASE ShowOlder
  <2>1. log' = log /\ post' = post
        /\ (bubble' = bubble \/ DropBubbles(shown, shown'))
    BY <1>2 DEF ShowOlder
  <2> QED  BY <2>1, DropCalms, GrowsOrStays, SendingStays
<1>3. ASSUME NEW r \in Requests, Hydrate(r) PROVE Sending'
  <2> DEFINE rows == view[r].rows
  <2>1. log' = log /\ post' = post /\ ShowPage(rows)
    BY <1>3 DEF Hydrate
  <2> HIDE DEF rows
  <2>2. \E incoming : Merge(incoming)
    BY <2>1 DEF ShowPage
  <2> QED  BY <2>1, <2>2, MergeCalms, GrowsOrStays, SendingStays
<1>4. ASSUME NEW recovered \in BOOLEAN, Connect(recovered) PROVE Sending'
  <2>1. log' = log /\ post' = post /\ bubble' = bubble
    BY <1>4 DEF Connect
  <2> QED  BY <2>1, GrowsOrStays, SendingStays
<1>5. CASE OlderPage \/ OlderFails \/ LoadFails \/ PageFails \/ RecoveryEnds
            \/ RecoveryFails \/ Disconnect \/ ConnectFails
  <2>1. log' = log /\ post' = post /\ bubble' = bubble
    BY <1>5 DEF OlderPage, OlderFails, LoadFails, PageFails, RecoveryEnds,
                RecoveryFails, Disconnect, ConnectFails
  <2> QED  BY <2>1, GrowsOrStays, SendingStays
<1> QED  BY <1>1, <1>2, <1>3, <1>4, <1>5 DEF Network

LEMMA SendingStep == ASSUME Sending, [Next]_vars PROVE Sending'
<1>1. CASE UNCHANGED vars
  <2>1. log' = log /\ post' = post /\ bubble' = bubble
    BY <1>1 DEF vars
  <2> QED  BY <2>1, GrowsOrStays, SendingStays
<1> QED  BY <1>1, HubSending, UserSending, NetworkSending DEF Next

-----------------------------------------------------------------------------
(* Maps of rows *)

\* A map of rows is a function from sequence numbers to what is shown of them.
LEMMA RowMapIs ==
    ASSUME NEW f
    PROVE  f \in RowMaps <=>
               /\ f = [s \in DOMAIN f |-> f[s]]
               /\ DOMAIN f \subseteq Seqs
               /\ \A s \in DOMAIN f : f[s] \in {"queued", "sent"}
<1>1. ASSUME f \in RowMaps
      PROVE  /\ f = [s \in DOMAIN f |-> f[s]] /\ DOMAIN f \subseteq Seqs
             /\ \A s \in DOMAIN f : f[s] \in {"queued", "sent"}
  <2>1. PICK S \in SUBSET Seqs : f \in [S -> {"queued", "sent"}]
    BY <1>1 DEF RowMaps
  <2> QED  BY <2>1
<1>2. ASSUME /\ f = [s \in DOMAIN f |-> f[s]] /\ DOMAIN f \subseteq Seqs
             /\ \A s \in DOMAIN f : f[s] \in {"queued", "sent"}
      PROVE  f \in RowMaps
  <2>1. f \in [DOMAIN f -> {"queued", "sent"}]
    BY <1>2
  <2> QED  BY <1>2, <2>1 DEF RowMaps
<1> QED  BY <1>1, <1>2

LEMMA NoRows == << >> \in RowMaps /\ DOMAIN << >> = {}
<1>1. DOMAIN << >> = {}
  OBVIOUS
<1>2. << >> = [s \in {} |-> << >>[s]]
  OBVIOUS
<1> QED  BY <1>1, <1>2, RowMapIs

\* One map over another has the rows of both (mergeMessages).
LEMMA OverIs ==
    ASSUME NEW f \in RowMaps, NEW g \in RowMaps
    PROVE  /\ Over(f, g) \in RowMaps
           /\ DOMAIN Over(f, g) = DOMAIN f \cup DOMAIN g
           /\ \A s \in DOMAIN f : Over(f, g)[s] = f[s]
           /\ \A s \in DOMAIN g \ DOMAIN f : Over(f, g)[s] = g[s]
<1> DEFINE h == Over(f, g)
<1>1. h = [s \in DOMAIN f \cup DOMAIN g |-> IF s \in DOMAIN f THEN f[s] ELSE g[s]]
  BY DEF Over
<1> HIDE DEF h
<1>2. /\ DOMAIN h = DOMAIN f \cup DOMAIN g
      /\ \A s \in DOMAIN f : h[s] = f[s]
      /\ \A s \in DOMAIN g \ DOMAIN f : h[s] = g[s]
      /\ h = [s \in DOMAIN h |-> h[s]]
  BY <1>1
<1>3. h \in RowMaps
  BY <1>2, RowMapIs
<1> QED  BY <1>2, <1>3 DEF h

\* Nothing over a map leaves it as it is.
LEMMA OverNothing ==
    ASSUME NEW g \in RowMaps
    PROVE  Over(<< >>, g) = g
<1>1. DOMAIN << >> = {}
  OBVIOUS
<1>2. Over(<< >>, g) = [s \in DOMAIN g |-> g[s]]
  BY <1>1 DEF Over
<1> QED  BY <1>2, RowMapIs

LEMMA OneRow ==
    ASSUME NEW seq \in Seqs, NEW state \in {"queued", "sent"}
    PROVE  /\ [s \in {seq} |-> state] \in RowMaps
           /\ DOMAIN [s \in {seq} |-> state] = {seq}
           /\ [s \in {seq} |-> state][seq] = state
BY RowMapIs

-----------------------------------------------------------------------------
(* Pages of the log *)

\* A set of rows has a lowest one (getMessagesPage).
LEMMA LowestIs ==
    ASSUME NEW S \in SUBSET Nat, S # {}
    PROVE  Lowest(S) \in S /\ \A t \in S : Lowest(S) <= t
<1>1. \E s \in S : \A t \in S : s <= t
  BY LeastElement
<1> DEFINE Least(s) == s \in S /\ \A t \in S : s <= t
<1>2. Lowest(S) = CHOOSE s : Least(s)
  BY Zenon DEF Lowest
<1>3. \E s : Least(s)
  BY <1>1
<1> HIDE DEF Least
<1>4. Least(Lowest(S))
  BY <1>2, <1>3
<1> QED  BY <1>4 DEF Least

\* A page has the newest rows below a row: it is empty only if there are none,
\* and the rows it leaves out lie below all it has.
LEMMA PageIs ==
    ASSUME log \in Seq(LogRows), NEW before
    PROVE  /\ Page(before) \subseteq Below(before)
           /\ Below(before) \subseteq DOMAIN log
           /\ Below(before) # {} => Page(before) # {}
           /\ \A s \in Below(before) \ Page(before), t \in Page(before) : s < t
<1> DEFINE B == Below(before)
           P == Page(before)
           Newer(s) == {t \in B : t > s}
<1>1. DOMAIN log = 1..Len(log) /\ Len(log) \in Nat
  OBVIOUS
<1>2. B \subseteq 1..Len(log) /\ B \subseteq DOMAIN log
  BY <1>1 DEF Below, Kept
<1>3. IsFiniteSet(B)
  <2>1. 1 \in Int /\ Len(log) \in Int
    BY <1>1
  <2>2. IsFiniteSet(1..Len(log))
    BY <2>1, FS_Interval
  <2> QED  BY <1>2, <2>2, FS_Subset
<1>4. P = {s \in B : Cardinality(Newer(s)) < PageSize}
  BY DEF Page
<1>5. \A s, t \in B : t <= s => Newer(s) \subseteq Newer(t)
  BY <1>2
<1>6. \A s \in B : IsFiniteSet(Newer(s)) /\ Cardinality(Newer(s)) \in Nat
  BY <1>3, FS_Subset, FS_CardinalityType
<1>7. PageSize \in Nat \ {0}
  BY SizesAssumption
<1>8. ASSUME B # {} PROVE P # {}
  <2> DEFINE Gaps == {Len(log) - s : s \in B}
  <2>1. Gaps \in SUBSET Nat /\ Gaps # {}
    BY <1>1, <1>2, <1>8
  <2>2. PICK x \in Gaps : \A y \in Gaps : x <= y
    BY <2>1, LeastElement
  <2>3. PICK s \in B : x = Len(log) - s
    BY <2>2
  <2>4. \A t \in B : Len(log) - s <= Len(log) - t
    BY <2>2, <2>3
  <2>5. \A t \in B : t <= s
    BY <1>1, <1>2, <2>4
  <2>6. Newer(s) = {}
    BY <1>2, <2>5
  <2>7. Cardinality(Newer(s)) = 0
    BY <2>6, FS_EmptySet
  <2>8. Cardinality(Newer(s)) < PageSize
    BY <1>7, <2>7
  <2> QED  BY <1>4, <2>8
<1>9. ASSUME NEW s \in B \ P, NEW t \in P PROVE s < t
  <2> SUFFICES ASSUME ~(s < t) PROVE FALSE
    OBVIOUS
  <2>1. s \in Nat /\ t \in Nat /\ t \in B
    BY <1>2, <1>4
  <2>2. Newer(s) \subseteq Newer(t)
    BY <1>5, <2>1
  <2>3. Cardinality(Newer(s)) <= Cardinality(Newer(t))
    BY <1>6, <2>1, <2>2, FS_Subset
  <2>4. Cardinality(Newer(t)) < PageSize
    BY <1>4
  <2>5. Cardinality(Newer(s)) < PageSize
    <3>1. PICK a : a = Cardinality(Newer(s))
      OBVIOUS
    <3>2. PICK b : b = Cardinality(Newer(t))
      OBVIOUS
    <3>3. a \in Nat /\ b \in Nat
      BY <1>6, <2>1, <3>1, <3>2
    <3>4. a < PageSize
      BY <1>7, <2>3, <2>4, <3>1, <3>2, <3>3
    <3> QED  BY <3>1, <3>4
  <2> QED  BY <1>4, <2>5
<1>10. P \subseteq B
  BY DEF Page
<1> QED  BY <1>2, <1>8, <1>9, <1>10

-----------------------------------------------------------------------------
(* What a step does to the log and to the events on their way *)

\* A row the log gets: the agent's is sent, a message has no other it keeps.
NewRows ==
    {row \in LogRows :
        /\ row.state # "gone"
        /\ row.who = "agent" => row.state = "sent"
        /\ row.who \in Messages => RowsOf(row.who) = {}}

Appends(row) ==
    /\ Len(log) < MaxRows
    /\ log' = Append(log, row) /\ Publish(Stored(Len(log) + 1, row))
    /\ joined' = joined
Repeats(s) ==
    Publish(Stored(s, log[s])) /\ UNCHANGED <<log, joined>>
Changes(s, state, type) ==
    /\ log[s].state = "queued" /\ log[s].who \in Messages
    /\ log' = [log EXCEPT ![s].state = state]
    /\ PublishChange(log[s].who, type)
    /\ joined' = joined
Delivers ==
    wire # << >> /\ wire' = Tail(wire) /\ UNCHANGED <<log, joined>>
Loses ==
    /\ wire' = << >> /\ joined' = FALSE /\ UNCHANGED log
    /\ stale' = (stale \/ \E m \in Messages : Changed(m))
Subscribes ==
    joined' = TRUE /\ UNCHANGED <<log, wire>>

HubMoves ==
    \/ UNCHANGED <<log, wire, joined>>
    \/ \E row \in NewRows : Appends(row)
    \/ \E s \in Kept : Repeats(s)
    \/ \E s \in Kept : \/ Changes(s, "sent", "consumed")
                       \/ Changes(s, "gone", "canceled")
    \/ Loses \/ Subscribes
HubStep == HubMoves \/ Delivers

LEMMA StoreSteps ==
    ASSUME NEW m \in Messages, NEW seq \in Seqs, Store(m, seq), joined' = joined,
           log \in Seq(LogRows)
    PROVE  HubMoves
<1>1. CASE seq \in Known(m) /\ Publish(Stored(seq, log[seq])) /\ UNCHANGED log
  BY <1>1 DEF Known, RowsOf, Repeats, HubMoves
<1>2. ASSUME Known(m) = {}, seq = Len(log) + 1, seq <= MaxRows,
             NEW state \in {"queued", "sent"},
             log' = Append(log, [who |-> m, state |-> state]),
             Publish(Stored(seq, [who |-> m, state |-> state]))
      PROVE  HubMoves
  <2> DEFINE row == [who |-> m, state |-> state]
  <2>1. row \in LogRows /\ row.who = m /\ row.state = state
    BY DEF LogRows
  <2>2. log' = Append(log, row) /\ Publish(Stored(Len(log) + 1, row))
    BY <1>2
  <2> HIDE DEF row
  <2>3. m # "agent" /\ MaxRows \in Nat
    BY SizesAssumption
  <2>4. row \in NewRows
    BY <1>2, <2>1, <2>3 DEF NewRows, Known
  <2>5. Len(log) < MaxRows
    BY <1>2, <2>3
  <2> QED  BY <2>2, <2>4, <2>5 DEF Appends, HubMoves
<1> QED  BY <1>1, <1>2 DEF Store

LEMMA ReceiveDelivers == ASSUME Receive PROVE Delivers
BY DEF Receive, Delivers

\* Every step does one of these to the Hub's variables.
LEMMA HubSteps ==
    ASSUME Sending, [Next]_vars
    PROVE  HubMoves \/ (Receive /\ Delivers)
<1>1. ASSUME UNCHANGED <<log, wire, joined>> PROVE HubMoves
  BY <1>1 DEF HubMoves
<1>l. log \in Seq(LogRows)
  BY DEF Sending
<1>2. CASE UNCHANGED vars
  BY <1>1, <1>2 DEF vars
<1>3. CASE AgentWrites
  <2> DEFINE row == [who |-> "agent", state |-> "sent"]
  <2>1. row \in LogRows /\ row.who = "agent" /\ row.state = "sent"
    BY DEF LogRows
  <2>2. /\ log' = Append(log, row) /\ Publish(Stored(Len(log) + 1, row))
        /\ Len(log) < MaxRows /\ joined' = joined
    BY <1>3 DEF AgentWrites
  <2> HIDE DEF row
  <2>3. row \in NewRows
    BY <2>1, SizesAssumption DEF NewRows
  <2> QED  BY <2>2, <2>3 DEF Appends, HubMoves
<1>4. CASE HandlePost
  <2>1. PICK seq \in Seqs : Store(post.who, seq)
    BY <1>4 DEF HandlePost
  <2>2. post.who \in Messages /\ joined' = joined
    BY <1>4, Phases DEF HandlePost, Sending, Request
  <2> QED  BY <1>l, <2>1, <2>2, StoreSteps
<1>5. ASSUME NEW m \in Messages, HandleLate(m) PROVE HubMoves
  <2>1. PICK seq \in Seqs : Store(m, seq)
    BY <1>5 DEF HandleLate
  <2> QED  BY <1>5, <1>l, <2>1, StoreSteps DEF HandleLate
<1>6. ASSUME NEW m \in Messages, NEW state, NEW type, Change(m, state, type)
      PROVE  \E s \in Kept : Changes(s, state, type)
  BY <1>6 DEF Change, RowsOf, Changes
<1>7. ASSUME NEW m \in Messages, Consume(m) \/ Cancel(m) PROVE HubMoves
  BY <1>6, <1>7 DEF Consume, Cancel, HubMoves
<1>8. CASE Receive
  BY <1>8, ReceiveDelivers
<1>9. ASSUME NEW recovered \in BOOLEAN, Connect(recovered) PROVE HubMoves
  <2>1. CASE recovered
    BY <1>9, <2>1 DEF Connect, Subscribes, HubMoves
  <2>2. CASE ~recovered
    <3>1. recovered = FALSE
      BY <2>2
    <3>2. wire' = << >> /\ joined' = FALSE /\ log' = log
          /\ stale' = (stale \/ \E m \in Messages : Changed(m))
      BY <1>9, <3>1 DEF Connect
    <3> QED  BY <3>2 DEF Loses, HubMoves
  <2> QED  BY <2>1, <2>2
<1>10. CASE Join
  BY <1>10 DEF Join, Subscribes, HubMoves
<1>11. ASSUME NEW r \in Requests, Answer(r) \/ Hydrate(r) PROVE HubMoves
  BY <1>1, <1>11 DEF Answer, Hydrate
<1>12. CASE Flush \/ Scroll \/ LoadOlder \/ Refresh
  BY <1>1, <1>12 DEF Flush, Scroll, LoadOlder, Refresh
<1>13. ASSUME NEW m \in Messages, Send(m) \/ Retry(m) PROVE HubMoves
  BY <1>1, <1>13 DEF Send, Retry, Attempt
<1>14. CASE Accepted \/ Rejected \/ OlderPage \/ ShowOlder \/ OlderFails
            \/ LoadFails \/ PageFails \/ RecoveryEnds \/ RecoveryFails
            \/ Disconnect \/ ConnectFails
  BY <1>1, <1>14 DEF Accepted, Rejected, OlderPage, ShowOlder, OlderFails,
                     LoadFails, PageFails, RecoveryEnds,
                     RecoveryFails, Disconnect, ConnectFails
<1> QED
  BY <1>2, <1>3, <1>4, <1>5, <1>7, <1>8, <1>9, <1>10, <1>11, <1>12, <1>13, <1>14
     DEF Next, Hub, User, Network

LEMMA AppendsIs ==
    ASSUME log \in Seq(LogRows), NEW row \in NewRows, Appends(row)
    PROVE  /\ log' \in Seq(LogRows) /\ Len(log') = Len(log) + 1
           /\ DOMAIN log' = DOMAIN log \cup {Len(log) + 1}
           /\ \A s \in DOMAIN log : log'[s] = log[s] /\ s < Len(log) + 1
           /\ log'[Len(log) + 1] = row
BY DEF Appends, NewRows

LEMMA ChangesIs ==
    ASSUME log \in Seq(LogRows), NEW s \in Kept, NEW type,
           NEW state \in {"sent", "gone"}, Changes(s, state, type)
    PROVE  /\ log' \in Seq(LogRows) /\ Len(log') = Len(log)
           /\ DOMAIN log' = DOMAIN log /\ s \in DOMAIN log
           /\ \A t \in DOMAIN log : t # s => log'[t] = log[t]
           /\ log'[s].who = log[s].who /\ log'[s].state = state
<1> DEFINE row == [log[s] EXCEPT !.state = state]
<1>1. s \in DOMAIN log /\ log[s] \in LogRows
  BY DEF Kept
<1>2. row \in LogRows /\ row.who = log[s].who /\ row.state = state
  BY <1>1 DEF LogRows
<1>3. log' = [log EXCEPT ![s] = row]
  BY DEF Changes
<1> HIDE DEF row
<1> QED  BY <1>1, <1>2, <1>3

\* Rows stay, keep their writer and, once consumed or canceled, their state.
LogGrows ==
    /\ log' \in Seq(LogRows) /\ DOMAIN log \subseteq DOMAIN log'
    /\ \A s \in DOMAIN log :
           /\ log'[s].who = log[s].who
           /\ log[s].state # "queued" => log'[s].state = log[s].state

LEMMA LogStep ==
    ASSUME log \in Seq(LogRows), HubStep
    PROVE  LogGrows
<1>1. CASE log' = log
  BY <1>1 DEF LogGrows
<1>2. ASSUME NEW row \in NewRows, Appends(row) PROVE LogGrows
  BY <1>2, AppendsIs DEF LogGrows
<1>3. ASSUME NEW s \in Kept, NEW state \in {"sent", "gone"}, NEW type,
             Changes(s, state, type)
      PROVE  LogGrows
  <2>1. log[s].state = "queued"
    BY <1>3 DEF Changes
  <2> QED  BY <1>3, <2>1, ChangesIs DEF LogGrows
<1> QED  BY <1>1, <1>2, <1>3 DEF HubStep, HubMoves, Repeats, Delivers, Loses, Subscribes

\* The parts of events, and the events of the Hub.
LEMMA EventKinds ==
    /\ \A e \in Events :
           /\ e.type \in {"received", "consumed", "canceled"}
           /\ e.type = "received" => e.seq \in Seqs /\ e.state \in {"queued", "sent"}
           /\ e.type # "received" => e.who \in Messages
    /\ \A seq \in Seqs, row \in LogRows : row.state # "gone" =>
           /\ Stored(seq, row) \in Events
           /\ Stored(seq, row).type = "received"
           /\ Stored(seq, row).seq = seq /\ Stored(seq, row).state = row.state
    /\ \A type \in {"consumed", "canceled"}, m \in Messages :
           /\ [type |-> type, who |-> m] \in Events
           /\ [type |-> type, who |-> m].type = type
           /\ [type |-> type, who |-> m].who = m
<1>1. \A e \in Events :
           /\ e.type \in {"received", "consumed", "canceled"}
           /\ e.type = "received" => e.seq \in Seqs /\ e.state \in {"queued", "sent"}
           /\ e.type # "received" => e.who \in Messages
  BY DEF Events
<1>2. ASSUME NEW seq \in Seqs, NEW row \in LogRows, row.state # "gone"
      PROVE  /\ Stored(seq, row) \in Events
             /\ Stored(seq, row).type = "received"
             /\ Stored(seq, row).seq = seq /\ Stored(seq, row).state = row.state
  <2>1. row.state \in {"queued", "sent"}
    BY <1>2 DEF LogRows
  <2> QED  BY <2>1 DEF Stored, Events
<1>3. \A type \in {"consumed", "canceled"}, m \in Messages :
           /\ [type |-> type, who |-> m] \in Events
           /\ [type |-> type, who |-> m].type = type
           /\ [type |-> type, who |-> m].who = m
  BY DEF Events
<1> QED  BY <1>1, <1>2, <1>3

\* An event that is published joins the others at the end, if anybody listens.
LEMMA PublishIs ==
    ASSUME wire \in Seq(Events), NEW e \in Events, Publish(e)
    PROVE  /\ wire' \in Seq(Events) /\ DOMAIN wire \subseteq DOMAIN wire'
           /\ \A i \in DOMAIN wire : wire'[i] = wire[i] /\ i < Len(wire) + 1
           /\ \A i \in DOMAIN wire' :
                  i \in DOMAIN wire \/ (i = Len(wire) + 1 /\ wire'[i] = e)
           /\ joined => Len(wire) + 1 \in DOMAIN wire' /\ wire'[Len(wire) + 1] = e
           /\ ~joined => wire' = wire
<1>1. CASE joined
  <2>1. wire' = Append(wire, e)
    BY <1>1 DEF Publish
  <2> QED  BY <1>1, <2>1
<1>2. CASE ~joined
  <2>1. wire' = wire
    BY <1>2 DEF Publish
  <2> QED  BY <1>2, <2>1
<1> QED  BY <1>1, <1>2

LEMMA DeliversIs ==
    ASSUME wire \in Seq(Events), Delivers
    PROVE  /\ wire' \in Seq(Events) /\ 1 \in DOMAIN wire /\ Head(wire) = wire[1]
           /\ \A i \in DOMAIN wire' : i + 1 \in DOMAIN wire /\ wire'[i] = wire[i + 1]
           /\ \A i \in DOMAIN wire : i = 1 \/ (i - 1 \in DOMAIN wire' /\ wire'[i - 1] = wire[i])
BY DEF Delivers

\* What the Hub has and has told is typed, and what it told of a row's being
\* sent is so.
AgentsSent == \A s \in DOMAIN log : log[s].who = "agent" => log[s].state = "sent"
Reports(s, state) ==
    s \in DOMAIN log /\ (state = "sent" => log[s].state = "sent")
HubTyped ==
    /\ log \in Seq(LogRows) /\ Len(log) <= MaxRows /\ AgentsSent
    /\ wire \in Seq(Events) /\ joined \in BOOLEAN
    /\ \A i \in DOMAIN wire :
           wire[i].type = "received" => Reports(wire[i].seq, wire[i].state)

LEMMA ReportsStay ==
    ASSUME LogGrows, NEW s, NEW state, Reports(s, state)
    PROVE  s \in DOMAIN log' /\ (state = "sent" => log'[s].state = "sent")
BY DEF LogGrows, Reports

LEMMA HubTypedStep ==
    ASSUME HubTyped, HubStep
    PROVE  HubTyped'
<1> USE DEF HubTyped
<1>1. LogGrows
  BY LogStep
<1>2. DOMAIN log \subseteq Seqs /\ DOMAIN log' = 1..Len(log')
  <2>1. DOMAIN log = 1..Len(log) /\ Len(log) \in Nat /\ MaxRows \in Nat
    BY SizesAssumption
  <2>2. log' \in Seq(LogRows)
    BY <1>1 DEF LogGrows
  <2> QED  BY <2>1, <2>2 DEF Seqs
<1>3. Len(log') <= MaxRows /\ AgentsSent'
  <2>1. CASE log' = log
    BY <2>1 DEF AgentsSent
  <2>2. ASSUME NEW row \in NewRows, Appends(row) PROVE Len(log') <= MaxRows /\ AgentsSent'
    <3>1. Len(log) < MaxRows /\ Len(log) \in Nat /\ MaxRows \in Nat
      BY <2>2, SizesAssumption DEF Appends
    <3>2. Len(log') <= MaxRows
      BY <2>2, <3>1, AppendsIs
    <3> QED  BY <2>2, <3>2, AppendsIs DEF AgentsSent, NewRows
  <2>3. ASSUME NEW s \in Kept, NEW state \in {"sent", "gone"}, NEW type,
               Changes(s, state, type)
        PROVE  Len(log') <= MaxRows /\ AgentsSent'
    <3>1. log[s].who # "agent"
      BY <2>3, SizesAssumption DEF Changes
    <3> QED  BY <2>3, <3>1, ChangesIs DEF AgentsSent
  <2> QED  BY <2>1, <2>2, <2>3 DEF HubStep, HubMoves, Repeats, Delivers, Loses, Subscribes
<1> DEFINE Told == \A i \in DOMAIN wire :
                       wire[i].type = "received" => Reports(wire[i].seq, wire[i].state)
<1>4. ASSUME NEW e \in Events, Publish(e),
             e.type = "received" => Reports(e.seq, e.state)'
      PROVE  wire' \in Seq(Events) /\ Told'
  <2>1. ASSUME NEW i \in DOMAIN wire', wire'[i].type = "received"
        PROVE  Reports(wire[i].seq, wire[i].state)'
    <3>1. CASE i \in DOMAIN wire
      <4>1. wire'[i] = wire[i]
        BY <1>4, <3>1, PublishIs
      <4>2. Reports(wire[i].seq, wire[i].state)
        BY <2>1, <3>1, <4>1
      <4> QED  BY <1>1, <4>1, <4>2, ReportsStay DEF Reports
    <3>2. CASE wire'[i] = e
      BY <1>4, <2>1, <3>2 DEF Reports
    <3> QED  BY <1>4, <3>1, <3>2, PublishIs
  <2> QED  BY <1>4, <2>1, PublishIs
<1>5. joined' \in BOOLEAN
  BY DEF HubStep, HubMoves, Appends, Repeats, Changes, Delivers, Loses, Subscribes
<1>6. wire' \in Seq(Events) /\ Told'
  <2>1. CASE wire' = wire
    <3>1. ASSUME NEW i \in DOMAIN wire', wire'[i].type = "received"
          PROVE  Reports(wire[i].seq, wire[i].state)'
      <4>1. Reports(wire[i].seq, wire[i].state)
        BY <2>1, <3>1
      <4> QED  BY <1>1, <2>1, <4>1, ReportsStay DEF Reports
    <3> QED  BY <2>1, <3>1
  <2>2. ASSUME NEW row \in NewRows, Appends(row) PROVE wire' \in Seq(Events) /\ Told'
    <3>1. PICK seq : seq = Len(log) + 1
      OBVIOUS
    <3>2. seq \in Seqs
      <4>1. Len(log) \in Nat /\ Len(log) < MaxRows /\ MaxRows \in Nat
        BY <2>2, SizesAssumption DEF Appends
      <4> QED  BY <3>1, <4>1 DEF Seqs
    <3>3. row \in LogRows /\ row.state # "gone"
      BY DEF NewRows
    <3>4. seq \in DOMAIN log' /\ log'[seq] = row
      BY <2>2, <3>1, AppendsIs
    <3>5. Publish(Stored(seq, row))
      BY <2>2, <3>1 DEF Appends
    <3>6. PICK e : e = Stored(seq, row)
      OBVIOUS
    <3>7. e \in Events /\ e.seq = seq /\ e.state = row.state /\ Publish(e)
      BY <3>2, <3>3, <3>5, <3>6, EventKinds
    <3>8. Reports(e.seq, e.state)'
      BY <3>4, <3>7 DEF Reports
    <3> QED  BY <1>4, <3>7, <3>8
  <2>3. ASSUME NEW s \in Kept, Repeats(s) PROVE wire' \in Seq(Events) /\ Told'
    <3>1. /\ s \in Seqs /\ s \in DOMAIN log /\ log[s] \in LogRows
          /\ log[s].state # "gone" /\ log' = log
      BY <1>2, <2>3 DEF Kept, Repeats
    <3>2. PICK e : e = Stored(s, log[s])
      OBVIOUS
    <3>3. e \in Events /\ e.seq = s /\ e.state = log[s].state /\ Publish(e)
      BY <2>3, <3>1, <3>2, EventKinds DEF Repeats
    <3>4. Reports(e.seq, e.state)'
      BY <3>1, <3>3 DEF Reports
    <3> QED  BY <1>4, <3>3, <3>4
  <2>4. ASSUME NEW s \in Kept, NEW state, NEW type \in {"consumed", "canceled"},
               Changes(s, state, type)
        PROVE  wire' \in Seq(Events) /\ Told'
    <3>1. PICK e : e = [type |-> type, who |-> log[s].who]
      OBVIOUS
    <3>2. e \in Events /\ e.type # "received" /\ Publish(e)
      BY <2>4, <3>1, EventKinds DEF Changes, PublishChange
    <3> QED  BY <1>4, <3>2
  <2>5. CASE Delivers
    <3>1. ASSUME NEW i \in DOMAIN wire', wire'[i].type = "received"
          PROVE  Reports(wire[i].seq, wire[i].state)'
      <4>1. i + 1 \in DOMAIN wire /\ wire'[i] = wire[i + 1]
        BY <2>5, DeliversIs
      <4>2. Reports(wire[i + 1].seq, wire[i + 1].state)
        BY <3>1, <4>1
      <4> QED  BY <1>1, <4>1, <4>2, ReportsStay DEF Reports
    <3> QED  BY <2>5, <3>1, DeliversIs
  <2>6. CASE wire' = << >>
    BY <2>6
  <2> QED  BY <2>1, <2>2, <2>3, <2>4, <2>5, <2>6 DEF HubStep, HubMoves, Loses, Subscribes
<1> QED  BY <1>1, <1>3, <1>5, <1>6 DEF LogGrows

-----------------------------------------------------------------------------
(* Types *)

Reported(rows) == \A s \in DOMAIN rows : Reports(s, rows[s])

Answers == [phase : {"answered"}, rows : RowMaps, more : BOOLEAN, fresh : BOOLEAN]
ViewStates == {None, Asked, Applied} \cup Answers
Views ==
    /\ view \in [Requests -> ViewStates]
    /\ \A r \in Requests :
           view[r].phase = "answered" => Reported(view[r].rows)

Posts ==
    /\ post \in {None} \cup [phase : {"asked"}, who : Messages]
                  \cup [phase : {"answered"}, who : Messages, seq : Seqs,
                        state : {"queued", "sent"}]
    /\ post.phase = "answered" => Reports(post.seq, post.state)

Histories == [phase : {"asked", "answered"}, rows : RowMaps,
              from : Seqs, before : Seqs, more : BOOLEAN]
History ==
    /\ older \in {None} \cup Histories
    /\ older # None => Reported(older.rows)

AgentRows == {s \in DOMAIN log : log[s].who = "agent"}
Screen ==
    /\ shown \in RowMaps /\ DOMAIN shown \subseteq DOMAIN log
    /\ pending \subseteq AgentRows

Rest ==
    /\ late \subseteq Messages
    /\ atBottom \in BOOLEAN /\ hasMore \in BOOLEAN /\ unread \in BOOLEAN
    /\ blind \in BOOLEAN /\ wide \in BOOLEAN /\ stale \in BOOLEAN
    /\ doubled \in BOOLEAN
    /\ sock \in {"never", "down", "up"}
    /\ status \in {"idle", "reconnecting", "syncing", "failed"}
    /\ events \in 0..MaxEvents

Typed ==
    HubTyped /\ Sending /\ Views /\ Posts /\ History /\ Screen /\ Rest

LEMMA LogSeqs == ASSUME HubTyped PROVE DOMAIN log \subseteq Seqs
<1>1. DOMAIN log = 1..Len(log) /\ Len(log) \in Nat /\ MaxRows \in Nat
  BY SizesAssumption DEF HubTyped
<1> QED  BY <1>1 DEF HubTyped, Seqs

LEMMA LogRowIs ==
    ASSUME HubTyped, NEW s \in DOMAIN log
    PROVE  /\ log[s] \in LogRows /\ log[s].who \in Messages \cup {"agent"}
           /\ log[s].state \in {"queued", "sent", "gone"}
<1>1. log[s] \in LogRows
  BY DEF HubTyped
<1> QED  BY <1>1 DEF LogRows

\* What a page tells of rows is what the log has of them.
LEMMA RowsIs ==
    ASSUME HubTyped, NEW S \in SUBSET Kept
    PROVE  Rows(S) \in RowMaps /\ DOMAIN Rows(S) = S /\ Reported(Rows(S))
<1>1. \A s \in S : s \in DOMAIN log /\ log[s].state \in {"queued", "sent"}
  <2> SUFFICES ASSUME NEW s \in S
               PROVE  s \in DOMAIN log /\ log[s].state \in {"queued", "sent"}
    OBVIOUS
  <2>1. s \in DOMAIN log /\ log[s].state # "gone"
    BY DEF Kept
  <2>2. log[s] \in LogRows
    BY <2>1 DEF HubTyped
  <2> QED  BY <2>1, <2>2 DEF LogRows
<1>2. S \subseteq Seqs
  BY <1>1, LogSeqs
<1> DEFINE f == [s \in S |-> log[s].state]
<1>3. DOMAIN f = S /\ f = [s \in DOMAIN f |-> f[s]] /\ \A s \in S : f[s] = log[s].state
  OBVIOUS
<1>4. f \in RowMaps
  BY <1>1, <1>2, <1>3, RowMapIs
<1>5. Reported(f)
  BY <1>1, <1>3 DEF Reported, Reports
<1> QED  BY <1>3, <1>4, <1>5 DEF Rows

LEMMA ReportedStays ==
    ASSUME LogGrows, NEW rows, Reported(rows)
    PROVE  \A s \in DOMAIN rows :
               s \in DOMAIN log' /\ (rows[s] = "sent" => log'[s].state = "sent")
BY ReportsStay DEF Reported

LEMMA OverReported ==
    ASSUME NEW f \in RowMaps, NEW g \in RowMaps, Reported(f), Reported(g)
    PROVE  Reported(Over(f, g))
<1>1. PICK h : h = Over(f, g)
  OBVIOUS
<1>2. /\ DOMAIN h = DOMAIN f \cup DOMAIN g
      /\ \A s \in DOMAIN f : h[s] = f[s]
      /\ \A s \in DOMAIN g \ DOMAIN f : h[s] = g[s]
  BY <1>1, OverIs
<1>3. ASSUME NEW s \in DOMAIN h PROVE Reports(s, h[s])
  <2>1. CASE s \in DOMAIN f
    <3>1. Reports(s, f[s]) /\ h[s] = f[s]
      BY <1>2, <2>1 DEF Reported
    <3> QED  BY <3>1
  <2>2. CASE s \notin DOMAIN f
    <3>1. Reports(s, g[s]) /\ h[s] = g[s]
      BY <1>2, <2>2 DEF Reported
    <3> QED  BY <3>1
  <2> QED  BY <2>1, <2>2
<1> QED  BY <1>1, <1>3 DEF Reported

LEMMA AnswerIs ==
    /\ \A v \in ViewStates : v.phase = "answered" => v \in Answers
    /\ \A v \in Answers : /\ v \in ViewStates /\ v.phase = "answered"
                          /\ v \notin {None, Asked, Applied}
                          /\ v.rows \in RowMaps
                          /\ v.more \in BOOLEAN /\ v.fresh \in BOOLEAN
    /\ {None, Asked, Applied} \subseteq ViewStates
    /\ None.phase # "answered" /\ Asked.phase # "answered"
    /\ Applied.phase # "answered"
BY DEF ViewStates, Answers, None, Asked, Applied

\* An answer that is no longer fresh is the same answer.
LEMMA StaleAnswerIs ==
    ASSUME NEW v \in Answers
    PROVE  LET w == [v EXCEPT !.fresh = FALSE]
           IN  w \in Answers /\ w.rows = v.rows /\ w.more = v.more
BY DEF Answers

LEMMA ViewSteps ==
    ASSUME [Next]_vars
    PROVE  \/ view' = view
           \/ \E r \in Requests : Answer(r)
           \/ \E r \in Requests : view' = [view EXCEPT ![r] = None]
           \/ view' = [view EXCEPT !["sync"] = Asked]
           \/ view' = [view EXCEPT !["sync"] = Applied]
           \/ \E recovered \in BOOLEAN : Connect(recovered)
<1> DEFINE Goal ==
           \/ view' = view
           \/ \E r \in Requests : Answer(r)
           \/ \E r \in Requests : view' = [view EXCEPT ![r] = None]
           \/ view' = [view EXCEPT !["sync"] = Asked]
           \/ view' = [view EXCEPT !["sync"] = Applied]
           \/ \E recovered \in BOOLEAN : Connect(recovered)
<1> SUFFICES Goal
  OBVIOUS
<1>1. CASE UNCHANGED vars
  BY <1>1 DEF vars
<1>2. CASE AgentWrites \/ HandlePost \/ Join
  BY <1>2 DEF AgentWrites, HandlePost, Join
<1>3. ASSUME NEW m \in Messages, HandleLate(m) \/ Consume(m) \/ Cancel(m) PROVE Goal
  BY <1>3 DEF HandleLate, Consume, Cancel, Change
<1>4. CASE Flush \/ Scroll \/ LoadOlder \/ Refresh
  BY <1>4 DEF Flush, Scroll, LoadOlder, Refresh
<1>5. ASSUME NEW m \in Messages, Send(m) \/ Retry(m) PROVE Goal
  BY <1>5 DEF Send, Retry, Attempt
<1>6. CASE Receive \/ Accepted \/ Rejected \/ OlderPage \/ ShowOlder \/ OlderFails
  BY <1>6 DEF Receive, Accepted, Rejected, OlderPage, ShowOlder, OlderFails
<1>7. ASSUME NEW r \in Requests, Hydrate(r) PROVE Goal
  BY <1>7 DEF Hydrate
<1>8. CASE LoadFails \/ PageFails \/ RecoveryEnds \/ RecoveryFails
  BY <1>8, Phases DEF LoadFails, PageFails, RecoveryEnds, RecoveryFails
<1>9. CASE Disconnect \/ ConnectFails
  BY <1>9 DEF Disconnect, ConnectFails
<1> QED
  BY <1>1, <1>2, <1>3, <1>4, <1>5, <1>6, <1>7, <1>8, <1>9
     DEF Next, Hub, User, Network

\* What Connect makes of the requests: answers stay answers.
LEMMA ConnectViews ==
    ASSUME Views, NEW recovered \in BOOLEAN, Connect(recovered)
    PROVE  /\ view' \in [Requests -> ViewStates]
           /\ \A r \in Requests :
                  \/ view'[r] = view[r]
                  \/ r = "sync" /\ sock = "down" /\ view[r] = None /\ view'[r] = Asked
                  \/ /\ ~recovered
                     /\ view[r] \in Answers /\ view'[r] \in Answers
                     /\ view'[r].rows = view[r].rows /\ view'[r].more = view[r].more
<1> DEFINE views == [r \in Requests |->
                        IF ~recovered /\ view[r].phase = "answered"
                        THEN [view[r] EXCEPT !.fresh = FALSE] ELSE view[r]]
<1>1. \A r \in Requests :
          \/ views[r] = view[r]
          \/ /\ ~recovered
             /\ view[r] \in Answers /\ views[r] \in Answers
             /\ views[r].rows = view[r].rows /\ views[r].more = view[r].more
  <2> SUFFICES ASSUME NEW r \in Requests, views[r] # view[r]
               PROVE  /\ ~recovered
                      /\ view[r] \in Answers /\ views[r] \in Answers
                      /\ views[r].rows = view[r].rows /\ views[r].more = view[r].more
    OBVIOUS
  <2>1. /\ ~recovered /\ view[r].phase = "answered"
        /\ views[r] = [view[r] EXCEPT !.fresh = FALSE]
    OBVIOUS
  <2>2. view[r] \in Answers
    BY <2>1, AnswerIs DEF Views
  <2> QED  BY <2>1, <2>2, StaleAnswerIs
<1>2. views = [r \in Requests |-> views[r]]
  OBVIOUS
<1>3. \/ sock = "down" /\ Reconnected(views)
      \/ view' = views
  BY DEF Connect
<1> HIDE DEF views
<1>4. views \in [Requests -> ViewStates]
  BY <1>1, <1>2, AnswerIs DEF Views
<1>5. CASE view' = views
  BY <1>1, <1>4, <1>5
<1>6. CASE sock = "down" /\ view["sync"] = None /\ view' = [views EXCEPT !["sync"] = Asked]
  <2>1. /\ view' \in [Requests -> ViewStates] /\ view'["sync"] = Asked
        /\ \A r \in Requests : r # "sync" => view'[r] = views[r]
    BY <1>4, <1>6, AnswerIs, Phases
  <2> QED  BY <1>1, <1>6, <2>1
<1> QED  BY <1>3, <1>5, <1>6 DEF Reconnected

LEMMA ViewsStep ==
    ASSUME HubTyped, Views, LogGrows, [Next]_vars
    PROVE  Views'
<1>1. \A r \in Requests : view[r].phase = "answered" =>
          \A s \in DOMAIN view[r].rows :
              s \in DOMAIN log' /\ (view[r].rows[s] = "sent" => log'[s].state = "sent")
  BY ReportedStays DEF Views
<1>2. view \in [Requests -> ViewStates]
  BY DEF Views
<1>3. CASE view' = view
  BY <1>1, <1>2, <1>3 DEF Views, Reported, Reports
<1>4. ASSUME NEW r \in Requests, NEW v \in {None, Asked, Applied},
             view' = [view EXCEPT ![r] = v]
      PROVE  Views'
  <2>1. v \in ViewStates /\ v.phase # "answered"
    BY AnswerIs
  <2>2. /\ view' \in [Requests -> ViewStates] /\ view'[r] = v
        /\ \A q \in Requests : q # r => view'[q] = view[q]
    BY <1>2, <1>4, <2>1
  <2> QED  BY <1>1, <2>1, <2>2 DEF Views, Reported, Reports
<1>5. ASSUME NEW r \in Requests, Answer(r) PROVE Views'
  <2>1. PICK rows : rows = Rows(Page(Latest))
    OBVIOUS
  <2>2. PICK v : v = [phase |-> "answered", rows |-> rows,
                      more |-> HasMore(Latest), fresh |-> joined]
    OBVIOUS
  <2>3. view' = [view EXCEPT ![r] = v] /\ log' = log
    BY <1>5, <2>1, <2>2 DEF Answer
  <2>4. Page(Latest) \subseteq Kept
    BY PageIs DEF HubTyped, Below
  <2>5. rows \in RowMaps /\ Reported(rows)
    BY <2>1, <2>4, RowsIs
  <2>6. HasMore(Latest) \in BOOLEAN /\ joined \in BOOLEAN
    BY DEF HasMore, HubTyped
  <2>7. v \in Answers /\ v.rows = rows
    BY <2>2, <2>5, <2>6 DEF Answers
  <2>8. /\ view' \in [Requests -> ViewStates] /\ view'[r] = v
        /\ \A q \in Requests : q # r => view'[q] = view[q]
    BY <1>2, <2>3, <2>7, AnswerIs
  <2> QED  BY <1>1, <2>3, <2>5, <2>7, <2>8 DEF Views, Reported, Reports
<1>6. ASSUME NEW recovered \in BOOLEAN, Connect(recovered) PROVE Views'
  <2>1. view' \in [Requests -> ViewStates]
    BY <1>6, ConnectViews
  <2>2. \A r \in Requests : view'[r].phase = "answered" =>
            view[r].phase = "answered" /\ view'[r].rows = view[r].rows
    BY <1>6, ConnectViews, AnswerIs
  <2> QED  BY <1>1, <2>1, <2>2 DEF Views, Reported, Reports
<1> QED  BY <1>3, <1>4, <1>5, <1>6, ViewSteps, Phases

\* What a request of the user's became stays true of its row.
LEMMA PostsStep ==
    ASSUME HubTyped, Sending, Posts, LogGrows, [Next]_vars
    PROVE  Posts'
<1> DEFINE S == {None} \cup [phase : {"asked"}, who : Messages]
                  \cup [phase : {"answered"}, who : Messages, seq : Seqs,
                        state : {"queued", "sent"}]
<1>1. CASE post' = post
  BY <1>1, ReportsStay DEF Posts, Reports
<1>2. CASE post' = None
  BY <1>2, Phases DEF Posts
<1>3. ASSUME NEW m \in Messages, post' = [phase |-> "asked", who |-> m] PROVE Posts'
  <2>1. post' \in S /\ post'.phase # "answered"
    BY <1>3
  <2> QED  BY <2>1 DEF Posts
<1>4. CASE HandlePost
  <2>1. PICK seq \in Seqs :
            /\ Store(post.who, seq)
            /\ post' = [phase |-> "answered", who |-> post.who, seq |-> seq,
                        state |-> log'[seq].state]
    BY <1>4 DEF HandlePost
  <2>2. post.who \in Messages
    BY <1>4, Phases DEF HandlePost, Sending, Request
  <2>3. seq \in DOMAIN log'
    BY <2>1, <2>2, StoreGrows
  <2>4. log'[seq].state \in {"queued", "sent"}
    <3>1. CASE seq \in Known(post.who) /\ log' = log
      <4>1. log[seq] \in LogRows /\ log[seq].state # "gone"
        BY <3>1 DEF HubTyped, Known, RowsOf, Kept
      <4> QED  BY <3>1, <4>1 DEF LogRows
    <3>2. ASSUME NEW state \in {"queued", "sent"}, seq = Len(log) + 1,
                 log' = Append(log, [who |-> post.who, state |-> state])
          PROVE  log'[seq].state \in {"queued", "sent"}
      <4>1. log'[seq] = [who |-> post.who, state |-> state]
        BY <3>2 DEF HubTyped
      <4> QED  BY <4>1
    <3> QED  BY <2>1, <3>1, <3>2 DEF Store
  <2>5. post' \in S /\ post'.seq = seq /\ post'.state = log'[seq].state
    BY <2>1, <2>2, <2>4
  <2> QED  BY <2>3, <2>5 DEF Posts, Reports
<1>5. ASSUME NEW m \in Messages, Send(m) \/ Retry(m) PROVE Posts'
  BY <1>3, <1>5 DEF Send, Retry, Attempt
<1>6. CASE UNCHANGED vars
  BY <1>1, <1>6 DEF vars
<1>7. CASE AgentWrites \/ Join
  BY <1>1, <1>7 DEF AgentWrites, Join
<1>8. ASSUME NEW m \in Messages, HandleLate(m) \/ Consume(m) \/ Cancel(m) PROVE Posts'
  BY <1>1, <1>8 DEF HandleLate, Consume, Cancel, Change
<1>9. CASE Flush \/ Scroll \/ LoadOlder \/ Refresh
  BY <1>1, <1>9 DEF Flush, Scroll, LoadOlder, Refresh
<1>10. CASE Receive \/ OlderPage \/ ShowOlder \/ OlderFails
  BY <1>1, <1>10 DEF Receive, OlderPage, ShowOlder, OlderFails
<1>11. CASE Accepted \/ Rejected
  BY <1>2, <1>11 DEF Accepted, Rejected
<1>12. ASSUME NEW r \in Requests, Answer(r) \/ Hydrate(r) PROVE Posts'
  BY <1>1, <1>12 DEF Answer, Hydrate
<1>13. CASE LoadFails \/ PageFails \/ RecoveryEnds \/ RecoveryFails
            \/ Disconnect \/ ConnectFails
  BY <1>1, <1>13 DEF LoadFails, PageFails, RecoveryEnds,
                     RecoveryFails, Disconnect, ConnectFails
<1>14. ASSUME NEW recovered \in BOOLEAN, Connect(recovered) PROVE Posts'
  BY <1>1, <1>14 DEF Connect
<1> QED
  BY <1>4, <1>5, <1>6, <1>7, <1>8, <1>9, <1>10, <1>11, <1>12, <1>13, <1>14
     DEF Next, Hub, User, Network

\* Which steps move the history request.
LEMMA HistorySteps ==
    ASSUME [Next]_vars
    PROVE  older' = older \/ older' = None \/ LoadOlder \/ OlderPage
<1> DEFINE Goal == older' = older \/ older' = None \/ LoadOlder \/ OlderPage
<1> SUFFICES Goal
  OBVIOUS
<1>1. CASE UNCHANGED vars
  BY <1>1 DEF vars
<1>2. CASE AgentWrites \/ HandlePost \/ Join
  BY <1>2 DEF AgentWrites, HandlePost, Join
<1>3. ASSUME NEW m \in Messages, HandleLate(m) \/ Consume(m) \/ Cancel(m) PROVE Goal
  BY <1>3 DEF HandleLate, Consume, Cancel, Change
<1>4. CASE Flush \/ Scroll \/ Refresh
  BY <1>4 DEF Flush, Scroll, Refresh
<1>5. ASSUME NEW m \in Messages, Send(m) \/ Retry(m) PROVE Goal
  BY <1>5 DEF Send, Retry, Attempt
<1>6. CASE Receive \/ Accepted \/ Rejected \/ ShowOlder \/ OlderFails
  BY <1>6 DEF Receive, Accepted, Rejected, ShowOlder, OlderFails
<1>7. ASSUME NEW r \in Requests, Answer(r) \/ Hydrate(r) PROVE Goal
  BY <1>7 DEF Answer, Hydrate
<1>8. CASE LoadFails \/ PageFails \/ RecoveryEnds \/ RecoveryFails
            \/ Disconnect \/ ConnectFails
  BY <1>8 DEF LoadFails, PageFails, RecoveryEnds,
              RecoveryFails, Disconnect, ConnectFails
<1>9. ASSUME NEW recovered \in BOOLEAN, Connect(recovered) PROVE Goal
  BY <1>9 DEF Connect
<1> QED
  BY <1>1, <1>2, <1>3, <1>4, <1>5, <1>6, <1>7, <1>8, <1>9
     DEF Next, Hub, User, Network

LEMMA HistoryIs ==
    /\ \A h \in Histories :
           /\ h # None /\ h.phase \in {"asked", "answered"} /\ h.rows \in RowMaps
           /\ h.from \in Seqs /\ h.before \in Seqs /\ h.more \in BOOLEAN
    /\ History => (older # None => older \in Histories)
    /\ History => (older.phase \in {"asked", "answered"} => older \in Histories)
BY DEF Histories, None, History

\* One more page of history: what it adds and where the next begins.
LEMMA OlderPageIs ==
    ASSUME HubTyped, History, OlderPage
    PROVE  /\ older \in Histories /\ older' \in Histories
           /\ log' = log /\ older.phase = "asked" /\ older'.from = older.from
           /\ older'.rows = Over(older.rows, Rows(Page(older.before)))
           /\ older'.more = HasMore(older.before)
           /\ older'.before = IF Page(older.before) = {} THEN older.before
                              ELSE Lowest(Page(older.before))
           /\ older'.phase = "asked" =>
                  Page(older.before) # {} /\ HasMore(older.before)
<1> DEFINE page == Page(older.before)
           last == page = {} \/ ~HasMore(older.before)
                     \/ \E s \in page : log[s].who \in Messages
<1>1. older \in Histories /\ older.phase = "asked"
  BY HistoryIs DEF OlderPage
<1>2. page \subseteq Below(older.before) /\ Below(older.before) \subseteq Kept
  BY PageIs DEF HubTyped, Below
<1>3. page \in SUBSET Kept /\ page \subseteq Seqs
  BY <1>2, LogSeqs DEF Kept
<1>4. PICK rows : rows = Over(older.rows, Rows(page))
  OBVIOUS
<1>5. rows \in RowMaps
  BY <1>1, <1>3, <1>4, RowsIs, OverIs, HistoryIs
<1>6. PICK before : before = IF page = {} THEN older.before ELSE Lowest(page)
  OBVIOUS
<1>7. before \in Seqs
  <2>1. page \in SUBSET Nat
    BY <1>3 DEF Seqs
  <2> QED  BY <1>1, <1>3, <1>6, <2>1, LowestIs, HistoryIs
<1>8. PICK more \in BOOLEAN : more = HasMore(older.before)
  BY DEF HasMore
<1>9. PICK phase \in {"asked", "answered"} :
          /\ phase = IF last THEN "answered" ELSE "asked"
          /\ phase = "asked" => ~last
  OBVIOUS
<1>10. older' = [phase |-> phase, rows |-> rows, from |-> older.from,
                 before |-> before, more |-> more]
  BY <1>4, <1>6, <1>8, <1>9 DEF OlderPage
<1>11. older' \in Histories
  BY <1>1, <1>5, <1>7, <1>10, HistoryIs DEF Histories
<1>12. /\ older'.phase = phase /\ older'.rows = rows /\ older'.from = older.from
       /\ older'.before = before /\ older'.more = more
  BY <1>10
<1>13. phase = "asked" => page # {} /\ HasMore(older.before)
  BY <1>9
<1>14. log' = log
  BY DEF OlderPage
<1> QED  BY <1>1, <1>4, <1>6, <1>8, <1>11, <1>12, <1>13, <1>14

LEMMA LoadOlderIs ==
    ASSUME Screen, HubTyped, LoadOlder
    PROVE  /\ older' \in Histories /\ log' = log
           /\ older'.phase = "asked" /\ older'.rows = << >>
           /\ older'.from = Lowest(DOMAIN shown) /\ older'.from \in DOMAIN shown
           /\ older'.before = older'.from
<1>1. PICK lowest : lowest = Lowest(DOMAIN shown)
  OBVIOUS
<1>2. lowest \in DOMAIN shown /\ lowest \in Seqs
  <2>1. DOMAIN shown \subseteq Seqs /\ DOMAIN shown # {}
    BY RowMapIs DEF Screen, LoadOlder
  <2>2. DOMAIN shown \in SUBSET Nat
    BY <2>1 DEF Seqs
  <2> QED  BY <1>1, <2>1, <2>2, LowestIs
<1>3. older' = [phase |-> "asked", rows |-> << >>, from |-> lowest,
                before |-> lowest, more |-> TRUE]
  BY <1>1 DEF LoadOlder
<1>4. PICK rows : rows = << >>
  OBVIOUS
<1>5. rows \in RowMaps
  BY <1>4, NoRows
<1>6. PICK more \in BOOLEAN : more = TRUE
  OBVIOUS
<1>7. older' = [phase |-> "asked", rows |-> rows, from |-> lowest,
                before |-> lowest, more |-> more]
  BY <1>3, <1>4, <1>6
<1>8. older' \in Histories
  BY <1>2, <1>5, <1>7 DEF Histories
<1>9. /\ older'.phase = "asked" /\ older'.rows = rows
      /\ older'.from = lowest /\ older'.before = lowest
  BY <1>7
<1>10. log' = log
  BY DEF LoadOlder
<1> QED  BY <1>1, <1>2, <1>4, <1>8, <1>9, <1>10

LEMMA HistoryStep ==
    ASSUME HubTyped, Screen, History, LogGrows, [Next]_vars
    PROVE  History'
<1>1. CASE older' = older
  BY <1>1, ReportedStays DEF History, Reported, Reports
<1>2. CASE older' = None
  BY <1>2 DEF History
<1>3. CASE LoadOlder
  <2>1. older' \in Histories /\ older'.rows = << >>
    BY <1>3, LoadOlderIs
  <2>2. DOMAIN older'.rows = {}
    BY <2>1, NoRows
  <2> QED  BY <2>1, <2>2 DEF History, Reported
<1>4. CASE OlderPage
  <2>1. /\ older \in Histories /\ older' \in Histories /\ log' = log
        /\ older'.rows = Over(older.rows, Rows(Page(older.before)))
    BY <1>4, OlderPageIs
  <2>2. Page(older.before) \in SUBSET Kept
    BY PageIs DEF HubTyped, Below
  <2>3. PICK page : page = Rows(Page(older.before))
    OBVIOUS
  <2>4. page \in RowMaps /\ Reported(page)
    BY <2>2, <2>3, RowsIs
  <2>5. older.rows \in RowMaps /\ Reported(older.rows)
    BY <2>1, HistoryIs DEF History
  <2>6. Reported(Over(older.rows, page))
    BY <2>4, <2>5, OverReported
  <2>7. \A s \in DOMAIN older'.rows : Reports(s, older'.rows[s])
    BY <2>1, <2>3, <2>6 DEF Reported
  <2> QED  BY <2>1, <2>7 DEF History, Reported, Reports
<1> QED  BY <1>1, <1>2, <1>3, <1>4, HistorySteps

\* What merging rows into the window does: the rows win over those shown, and
\* an optimistic message goes or stays, and goes if its row came in.
Merges(incoming) ==
    /\ incoming \in RowMaps
    /\ shown' = Over(incoming, shown)
    /\ \A m \in Messages : bubble'[m] = bubble[m] \/ bubble'[m] = NoBubble
    /\ \A s \in DOMAIN incoming :
           log[s].who \in Messages => bubble'[log[s].who] = NoBubble

LEMMA DropsIs ==
    ASSUME NEW incoming, NEW merged, DropBubbles(incoming, merged)
    PROVE  /\ \A m \in Messages : bubble'[m] = bubble[m] \/ bubble'[m] = NoBubble
           /\ \A s \in DOMAIN incoming :
                  log[s].who \in Messages => bubble'[log[s].who] = NoBubble
<1>1. PICK near : bubble' = [m \in Messages |-> IF m \in near \cup Written(incoming)
                                                THEN NoBubble ELSE bubble[m]]
  BY DEF DropBubbles
<1>2. \A m \in Messages : bubble'[m] = bubble[m] \/ bubble'[m] = NoBubble
  BY <1>1
<1>3. \A m \in Messages \cap Written(incoming) : bubble'[m] = NoBubble
  BY <1>1
<1>4. \A s \in DOMAIN incoming : log[s].who \in Written(incoming)
  BY DEF Written
<1> QED  BY <1>2, <1>3, <1>4

LEMMA MergeIs ==
    ASSUME Screen, NEW incoming \in RowMaps, Merge(incoming)
    PROVE  Merges(incoming)
<1>1. CASE incoming = << >> /\ shown' = shown /\ bubble' = bubble
  <2>1. shown' = Over(incoming, shown)
    BY <1>1, OverNothing DEF Screen
  <2>2. DOMAIN incoming = {}
    BY <1>1, NoRows
  <2> QED  BY <1>1, <2>1, <2>2 DEF Merges
<1>2. CASE shown' = Over(incoming, shown) /\ DropBubbles(incoming, shown')
  BY <1>2, DropsIs DEF Merges
<1> QED  BY <1>1, <1>2 DEF Merge

\* After a merge the window has the rows it had and those that came in.
LEMMA MergesIs ==
    ASSUME Screen, NEW incoming, Merges(incoming)
    PROVE  /\ shown' \in RowMaps
           /\ DOMAIN shown' = DOMAIN incoming \cup DOMAIN shown
           /\ \A s \in DOMAIN incoming : shown'[s] = incoming[s]
           /\ \A s \in DOMAIN shown \ DOMAIN incoming : shown'[s] = shown[s]
BY OverIs DEF Merges, Screen

LEMMA AllSentIs ==
    ASSUME HubTyped, Screen
    PROVE  /\ AllSent(pending) \in RowMaps /\ DOMAIN AllSent(pending) = pending
           /\ \A s \in pending : AllSent(pending)[s] = "sent"
           /\ Reported(AllSent(pending))
<1> DEFINE f == [s \in pending |-> "sent"]
<1>1. /\ DOMAIN f = pending /\ f = [s \in DOMAIN f |-> f[s]]
      /\ \A s \in pending : f[s] = "sent"
  OBVIOUS
<1>2. \A s \in pending : s \in DOMAIN log /\ log[s].state = "sent"
  BY DEF HubTyped, AgentsSent, Screen, AgentRows
<1>3. pending \subseteq Seqs
  BY <1>2, LogSeqs
<1> HIDE DEF f
<1>4. f \in RowMaps
  BY <1>1, <1>3, RowMapIs
<1>5. Reported(f)
  BY <1>1, <1>2 DEF Reported, Reports
<1> QED  BY <1>1, <1>4, <1>5 DEF f, AllSent

LEMMA ByIs ==
    ASSUME NEW rows \in RowMaps, NEW who
    PROVE  /\ By(rows, who) \in RowMaps
           /\ DOMAIN By(rows, who) = {t \in DOMAIN rows : log[t].who \in who}
           /\ \A s \in DOMAIN By(rows, who) : By(rows, who)[s] = rows[s]
<1> DEFINE f == [s \in {t \in DOMAIN rows : log[t].who \in who} |-> rows[s]]
<1>1. /\ DOMAIN f = {t \in DOMAIN rows : log[t].who \in who}
      /\ f = [s \in DOMAIN f |-> f[s]] /\ \A s \in DOMAIN f : f[s] = rows[s]
  OBVIOUS
<1> HIDE DEF f
<1>2. f \in RowMaps
  BY <1>1, RowMapIs
<1> QED  BY <1>1, <1>2 DEF f, By

\* A page that is shown, in whole or in part: the window has its rows, on the
\* screen or pending.
LEMMA ShowPageIs ==
    ASSUME HubTyped, Screen, NEW rows \in RowMaps, Reported(rows), ShowPage(rows)
    PROVE  /\ \E incoming :
                  /\ Merges(incoming) /\ Reported(incoming)
                  /\ DOMAIN incoming \subseteq DOMAIN rows \cup pending
                  /\ \A s \in DOMAIN incoming :
                         incoming[s] = IF s \in DOMAIN rows THEN rows[s] ELSE "sent"
           /\ pending' \subseteq AgentRows
           /\ DOMAIN shown' \cup pending' = DOMAIN shown \cup pending \cup DOMAIN rows
<1>1. CASE atBottom
  <2>1. PICK all : all = AllSent(pending)
    OBVIOUS
  <2>2. all \in RowMaps /\ DOMAIN all = pending /\ Reported(all)
        /\ \A s \in pending : all[s] = "sent"
    BY <2>1, AllSentIs
  <2>3. PICK incoming : incoming = Over(rows, all)
    OBVIOUS
  <2>4. /\ incoming \in RowMaps /\ DOMAIN incoming = DOMAIN rows \cup pending
        /\ \A s \in DOMAIN rows : incoming[s] = rows[s]
        /\ \A s \in pending \ DOMAIN rows : incoming[s] = "sent"
    BY <2>2, <2>3, OverIs
  <2>5. Reported(incoming)
    BY <2>2, <2>3, OverReported
  <2>6. Merge(incoming) /\ pending' = {}
    BY <1>1, <2>1, <2>3 DEF ShowPage
  <2>7. Merges(incoming)
    BY <2>4, <2>6, MergeIs
  <2>8. DOMAIN shown' = DOMAIN incoming \cup DOMAIN shown
    BY <2>7, MergesIs
  <2>9. \A s \in DOMAIN incoming :
            incoming[s] = IF s \in DOMAIN rows THEN rows[s] ELSE "sent"
    BY <2>4
  <2> QED  BY <2>4, <2>5, <2>6, <2>7, <2>8, <2>9
<1>2. CASE ~atBottom
  <2>1. PICK incoming : incoming = By(rows, Messages)
    OBVIOUS
  <2>2. PICK agents : agents = DOMAIN By(rows, {"agent"})
    OBVIOUS
  <2>3. /\ incoming \in RowMaps
        /\ DOMAIN incoming = {t \in DOMAIN rows : log[t].who \in Messages}
        /\ \A s \in DOMAIN incoming : incoming[s] = rows[s]
    BY <2>1, ByIs
  <2>4. agents = {t \in DOMAIN rows : log[t].who \in {"agent"}}
    BY <2>2, ByIs
  <2>5. \A t \in DOMAIN rows : t \in DOMAIN log
    BY DEF Reported, Reports
  <2>6. \A t \in DOMAIN rows : log[t].who \in Messages \cup {"agent"}
    BY <2>5, LogRowIs
  <2>7. agents \subseteq AgentRows /\ DOMAIN rows = DOMAIN incoming \cup agents
    BY <2>3, <2>4, <2>5, <2>6 DEF AgentRows
  <2>8. /\ Merge(incoming)
        /\ pending' = IF agents = {} THEN pending
                      ELSE (pending \cup agents) \ DOMAIN shown'
    BY <1>2, <2>1, <2>2 DEF ShowPage
  <2>9. Merges(incoming)
    BY <2>3, <2>8, MergeIs
  <2>10. DOMAIN shown' = DOMAIN incoming \cup DOMAIN shown
    BY <2>9, MergesIs
  <2>11. pending' \subseteq AgentRows
    BY <2>7, <2>8 DEF Screen
  <2>12. DOMAIN shown' \cup pending' = DOMAIN shown \cup pending \cup DOMAIN rows
    BY <2>7, <2>8, <2>10
  <2>13. Reported(incoming)
    BY <2>3 DEF Reported
  <2>14. \A s \in DOMAIN incoming :
             incoming[s] = IF s \in DOMAIN rows THEN rows[s] ELSE "sent"
    BY <2>3
  <2> QED  BY <2>3, <2>9, <2>11, <2>12, <2>13, <2>14
<1> QED  BY <1>1, <1>2

\* Which steps change what the window shows.
LEMMA ScreenSteps ==
    ASSUME [Next]_vars
    PROVE  \/ UNCHANGED <<shown, pending, hasMore>>
           \/ Receive \/ Accepted \/ Flush \/ ShowOlder
           \/ \E r \in Requests : Hydrate(r)
<1> DEFINE Goal ==
           \/ UNCHANGED <<shown, pending, hasMore>>
           \/ Receive \/ Accepted \/ Flush \/ ShowOlder
           \/ \E r \in Requests : Hydrate(r)
<1> SUFFICES Goal
  OBVIOUS
<1>1. CASE UNCHANGED vars
  BY <1>1 DEF vars
<1>2. CASE AgentWrites \/ HandlePost \/ Join
  BY <1>2 DEF AgentWrites, HandlePost, Join
<1>3. ASSUME NEW m \in Messages, HandleLate(m) \/ Consume(m) \/ Cancel(m) PROVE Goal
  BY <1>3 DEF HandleLate, Consume, Cancel, Change
<1>4. CASE Scroll \/ LoadOlder \/ Refresh
  BY <1>4 DEF Scroll, LoadOlder, Refresh
<1>5. ASSUME NEW m \in Messages, Send(m) \/ Retry(m) PROVE Goal
  BY <1>5 DEF Send, Retry, Attempt
<1>6. CASE Rejected \/ OlderPage \/ OlderFails
  BY <1>6 DEF Rejected, OlderPage, OlderFails
<1>7. ASSUME NEW r \in Requests, Answer(r) PROVE Goal
  BY <1>7 DEF Answer
<1>8. CASE LoadFails \/ PageFails \/ RecoveryEnds \/ RecoveryFails
            \/ Disconnect \/ ConnectFails
  BY <1>8 DEF LoadFails, PageFails, RecoveryEnds,
              RecoveryFails, Disconnect, ConnectFails
<1>9. ASSUME NEW recovered \in BOOLEAN, Connect(recovered) PROVE Goal
  BY <1>9 DEF Connect
<1> QED
  BY <1>1, <1>2, <1>3, <1>4, <1>5, <1>6, <1>7, <1>8, <1>9
     DEF Next, Hub, User, Network

\* A row that comes in by an event or as the answer of a POST.
LEMMA IngestIs ==
    ASSUME HubTyped, Screen, NEW seq \in Seqs, NEW state \in {"queued", "sent"},
           Ingest([s \in {seq} |-> state])
    PROVE  /\ \E incoming : /\ Merges(incoming) /\ DOMAIN incoming = {seq}
                            /\ incoming[seq] = state
           /\ pending' \subseteq pending
           /\ DOMAIN shown' \cup pending' = DOMAIN shown \cup pending \cup {seq}
<1>1. PICK incoming : incoming = [s \in {seq} |-> state]
  OBVIOUS
<1>2. incoming \in RowMaps /\ DOMAIN incoming = {seq} /\ incoming[seq] = state
  BY <1>1, OneRow
<1>3. Merge(incoming) /\ pending' = pending \ DOMAIN shown'
  BY <1>1 DEF Ingest
<1>4. Merges(incoming)
  BY <1>2, <1>3, MergeIs
<1>5. DOMAIN shown' = {seq} \cup DOMAIN shown
  BY <1>2, <1>4, MergesIs
<1> QED  BY <1>2, <1>3, <1>4, <1>5

\* What an event that is handled is about.
LEMMA ReceiveIs ==
    ASSUME HubTyped, Receive
    PROVE  /\ Delivers /\ wire[1] \in Events
           /\ \/ /\ wire[1].type = "received"
                 /\ wire[1].seq \in Seqs /\ wire[1].state \in {"queued", "sent"}
                 /\ Reports(wire[1].seq, wire[1].state)
                 /\ Ingest([s \in {wire[1].seq} |-> wire[1].state])
              \/ /\ wire[1].type = "consumed" /\ wire[1].who \in Messages
                 /\ MarkConsumed(wire[1].who)
              \/ /\ wire[1].type = "canceled" /\ wire[1].who \in Messages
                 /\ RemoveQueued(wire[1].who)
<1>1. Delivers
  BY DEF Receive, Delivers
<1>2. 1 \in DOMAIN wire /\ Head(wire) = wire[1] /\ wire[1] \in Events
  BY <1>1, DeliversIs DEF HubTyped
<1>3. PICK e : e = wire[1]
  OBVIOUS
<1>4. \/ e.type = "received" /\ Ingest([s \in {e.seq} |-> e.state])
      \/ e.type = "consumed" /\ MarkConsumed(e.who)
      \/ e.type = "canceled" /\ RemoveQueued(e.who)
  BY <1>2, <1>3 DEF Receive
<1>5. e.type = "received" => Reports(e.seq, e.state)
  BY <1>2, <1>3 DEF HubTyped
<1>6. /\ e.type = "received" => e.seq \in Seqs /\ e.state \in {"queued", "sent"}
      /\ e.type # "received" => e.who \in Messages
  BY <1>2, <1>3, EventKinds
<1>7. "consumed" # "received" /\ "canceled" # "received"
  OBVIOUS
<1> QED  BY <1>1, <1>2, <1>3, <1>4, <1>5, <1>6, <1>7

\* A consumed message's rows are shown as sent.
LEMMA MarkConsumedIs ==
    ASSUME Screen, NEW m, MarkConsumed(m)
    PROVE  /\ shown' \in RowMaps /\ DOMAIN shown' = DOMAIN shown
           /\ pending' = pending
           /\ \A s \in DOMAIN shown :
                  shown'[s] = IF log[s].who = m THEN "sent" ELSE shown[s]
<1> DEFINE f == [s \in DOMAIN shown |->
                    IF log[s].who = m THEN "sent" ELSE shown[s]]
<1>1. /\ DOMAIN f = DOMAIN shown /\ f = [s \in DOMAIN f |-> f[s]]
      /\ \A s \in DOMAIN shown :
             f[s] = IF log[s].who = m THEN "sent" ELSE shown[s]
  OBVIOUS
<1>2. shown' = f /\ pending' = pending
  BY DEF MarkConsumed
<1> HIDE DEF f
<1>3. f \in RowMaps
  BY <1>1, RowMapIs DEF Screen
<1> QED  BY <1>1, <1>2, <1>3

\* A canceled message's rows that wait are no longer shown.
LEMMA RemoveQueuedIs ==
    ASSUME Screen, NEW m, RemoveQueued(m)
    PROVE  /\ shown' \in RowMaps /\ pending' = pending
           /\ DOMAIN shown' = {s \in DOMAIN shown :
                                  log[s].who # m \/ shown[s] # "queued"}
           /\ \A s \in DOMAIN shown' : shown'[s] = shown[s]
<1> DEFINE f == [s \in {t \in DOMAIN shown :
                           log[t].who # m \/ shown[t] # "queued"} |-> shown[s]]
<1>1. /\ DOMAIN f = {t \in DOMAIN shown : log[t].who # m \/ shown[t] # "queued"}
      /\ f = [s \in DOMAIN f |-> f[s]] /\ \A s \in DOMAIN f : f[s] = shown[s]
  OBVIOUS
<1>2. shown' = f /\ pending' = pending
  BY DEF RemoveQueued
<1> HIDE DEF f
<1>3. f \in RowMaps
  BY <1>1, RowMapIs DEF Screen
<1> QED  BY <1>1, <1>2, <1>3

\* The rows on the screen and those that wait are rows of the log.
LEMMA ScreenStep ==
    ASSUME HubTyped, Views, Posts, History, Screen, LogGrows, [Next]_vars
    PROVE  Screen'
<1>1. AgentRows \subseteq AgentRows' /\ DOMAIN log \subseteq DOMAIN log'
  BY DEF LogGrows, AgentRows
<1>2. ASSUME shown' \in RowMaps, DOMAIN shown' \subseteq DOMAIN log,
             pending' \subseteq AgentRows
      PROVE  Screen'
  BY <1>1, <1>2 DEF Screen
<1>3. CASE shown' = shown /\ pending' = pending
  BY <1>2, <1>3 DEF Screen
<1>4. ASSUME NEW incoming, Merges(incoming),
             DOMAIN incoming \subseteq DOMAIN log, pending' \subseteq AgentRows
      PROVE  Screen'
  BY <1>2, <1>4, MergesIs DEF Screen
<1>5. ASSUME NEW seq \in Seqs, NEW state \in {"queued", "sent"}, Reports(seq, state),
             Ingest([s \in {seq} |-> state])
      PROVE  Screen'
  <2>1. PICK incoming : Merges(incoming) /\ DOMAIN incoming = {seq}
    BY <1>5, IngestIs
  <2>2. pending' \subseteq pending
    BY <1>5, IngestIs
  <2>3. seq \in DOMAIN log
    BY <1>5 DEF Reports
  <2>4. DOMAIN incoming \subseteq DOMAIN log /\ pending' \subseteq AgentRows
    BY <2>1, <2>2, <2>3 DEF Screen
  <2> QED  BY <1>4, <2>1, <2>4
<1>6. CASE Receive
  <2>1. ASSUME NEW m, MarkConsumed(m) \/ RemoveQueued(m) PROVE Screen'
    BY <1>2, <2>1, MarkConsumedIs, RemoveQueuedIs DEF Screen
  <2> QED  BY <1>5, <1>6, <2>1, ReceiveIs
<1>7. CASE Accepted
  <2>1. /\ post.phase = "answered" /\ Ingest([s \in {post.seq} |-> post.state])
    BY <1>7 DEF Accepted
  <2>2. post.seq \in Seqs /\ post.state \in {"queued", "sent"}
        /\ Reports(post.seq, post.state)
    BY <2>1, Phases DEF Posts
  <2> QED  BY <1>5, <2>1, <2>2
<1>8. CASE Flush
  <2>1. Merge(AllSent(pending)) /\ pending' = {}
    BY <1>8 DEF Flush
  <2>2. /\ Merges(AllSent(pending)) /\ DOMAIN AllSent(pending) = pending
    BY <2>1, AllSentIs, MergeIs
  <2>3. pending \subseteq DOMAIN log
    BY DEF Screen, AgentRows
  <2> QED  BY <1>4, <2>1, <2>2, <2>3
<1>9. CASE ShowOlder
  <2>1. shown' = Over(shown, older.rows) /\ pending' = pending
    BY <1>9 DEF ShowOlder
  <2>2. older \in Histories
    BY <1>9, HistoryIs DEF ShowOlder
  <2>3. older.rows \in RowMaps /\ DOMAIN older.rows \subseteq DOMAIN log
    BY <2>2, HistoryIs DEF History, Reported, Reports
  <2>4. shown' \in RowMaps /\ DOMAIN shown' = DOMAIN shown \cup DOMAIN older.rows
    BY <2>1, <2>3, OverIs DEF Screen
  <2> QED  BY <1>2, <2>1, <2>3, <2>4 DEF Screen
<1>10. ASSUME NEW r \in Requests, Hydrate(r) PROVE Screen'
  <2>1. view[r].phase = "answered" /\ ShowPage(view[r].rows)
    BY <1>10 DEF Hydrate
  <2>2. view[r].rows \in RowMaps /\ Reported(view[r].rows)
    BY <2>1, AnswerIs DEF Views
  <2>3. PICK incoming : Merges(incoming) /\ Reported(incoming)
    BY <2>1, <2>2, ShowPageIs
  <2>4. pending' \subseteq AgentRows
    BY <2>1, <2>2, ShowPageIs
  <2>5. DOMAIN incoming \subseteq DOMAIN log
    BY <2>3 DEF Reported, Reports
  <2> QED  BY <1>4, <2>3, <2>4, <2>5
<1> QED  BY <1>3, <1>6, <1>7, <1>8, <1>9, <1>10, ScreenSteps

LEMMA FlagsStep ==
    ASSUME HubTyped, Views, Posts, History, Rest, Sending, Banner, [Next]_vars
    PROVE  Rest'
<1> USE DEF Rest
<1>1. CASE UNCHANGED vars
  BY <1>1 DEF vars
<1>2. CASE AgentWrites \/ HandlePost \/ Join
  BY <1>2 DEF AgentWrites, HandlePost, Join
<1>3. ASSUME NEW m \in Messages, HandleLate(m) PROVE Rest'
  BY <1>3 DEF HandleLate
<1>4. ASSUME NEW m \in Messages, Consume(m) \/ Cancel(m) PROVE Rest'
  BY <1>4 DEF Consume, Cancel, Change, PublishChange
<1>5. CASE Flush \/ Scroll \/ LoadOlder
  BY <1>5 DEF Flush, Scroll, LoadOlder
<1>6. ASSUME events' = events - 1, events > 0 PROVE events' \in 0..MaxEvents
  BY <1>6, SizesAssumption
<1>7. CASE Refresh \/ Disconnect
  BY <1>6, <1>7 DEF Refresh, Disconnect
<1>8. ASSUME NEW m \in Messages, Send(m) \/ Retry(m) PROVE Rest'
  BY <1>8 DEF Send, Retry, Attempt
<1>9. CASE Receive
  <2>1. wide' \in BOOLEAN
    BY <1>9 DEF Receive, Ingest
  <2> QED  BY <1>9, <2>1 DEF Receive
<1>10. CASE Accepted
  <2>1. wide' \in BOOLEAN /\ stale' \in BOOLEAN
    BY <1>10 DEF Accepted, Ingest
  <2> QED  BY <1>10, <2>1 DEF Accepted
<1>11. CASE Rejected
  <2>1. post.who \in Messages
    BY <1>11 DEF Rejected, Sending, Request
  <2>2. late' \subseteq Messages
    BY <1>11, <2>1 DEF Rejected
  <2> QED  BY <1>6, <1>11, <2>2 DEF Rejected
<1>12. CASE OlderPage \/ OlderFails \/ RecoveryEnds \/ ConnectFails
  BY <1>12 DEF OlderPage, OlderFails, RecoveryEnds, Synced, ConnectFails
<1>13. CASE ShowOlder
  <2>1. older.more \in BOOLEAN
    BY <1>13, HistoryIs DEF ShowOlder
  <2>2. wide' \in BOOLEAN /\ stale' \in BOOLEAN /\ doubled' \in BOOLEAN
    BY <1>13 DEF ShowOlder
  <2> QED  BY <1>13, <2>1, <2>2 DEF ShowOlder
<1>14. ASSUME NEW r \in Requests, Answer(r) PROVE Rest'
  <2>1. blind' \in BOOLEAN
    BY <1>14 DEF Answer
  <2> QED  BY <1>14, <2>1 DEF Answer
<1>15. ASSUME NEW r \in Requests, Hydrate(r) PROVE Rest'
  <2>1. view[r].more \in BOOLEAN
    BY <1>15, AnswerIs DEF Views, Hydrate
  <2>2. /\ wide' \in BOOLEAN /\ stale' \in BOOLEAN /\ blind' \in BOOLEAN
        /\ unread' \in BOOLEAN
    BY <1>15 DEF Hydrate
  <2> QED  BY <1>15, <2>1, <2>2 DEF Hydrate
<1>16. ASSUME NEW recovered \in BOOLEAN, Connect(recovered) PROVE Rest'
  <2>1. stale' \in BOOLEAN /\ blind' \in BOOLEAN /\ sock' = "up"
    BY <1>16 DEF Connect
  <2>2. status' \in {"idle", "reconnecting", "syncing", "failed"}
    BY <1>16, ConnectBanner DEF Banner
  <2> QED  BY <1>16, <2>1, <2>2 DEF Connect
<1>17. CASE LoadFails \/ RecoveryFails
  <2>1. unread' \in BOOLEAN
    BY <1>17 DEF LoadFails, RecoveryFails
  <2> QED  BY <1>6, <1>17, <2>1 DEF LoadFails, RecoveryFails
<1>18. CASE PageFails
  <2>1. blind' \in BOOLEAN
    BY <1>18 DEF PageFails
  <2> QED  BY <1>18, <2>1 DEF PageFails
<1> QED
  BY <1>1, <1>2, <1>3, <1>4, <1>5, <1>7, <1>8, <1>9, <1>10, <1>11, <1>12, <1>13,
     <1>14, <1>15, <1>16, <1>17, <1>18 DEF Next, Hub, User, Network

LEMMA InitTyped == Init => Typed
<1> SUFFICES ASSUME Init PROVE Typed
  OBVIOUS
<1> USE DEF Init
<1>1. Sending
  BY InitSending
<1>2. DOMAIN log = {} /\ DOMAIN wire = {} /\ Len(log) = 0 /\ Len(log) <= MaxRows
  BY SizesAssumption
<1>3. HubTyped
  <2>1. << >> \in Seq(Events)
    OBVIOUS
  <2>2. wire \in Seq(Events) /\ joined \in BOOLEAN
    BY <2>1
  <2>3. log \in Seq(LogRows)
    BY <1>1 DEF Sending
  <2> QED  BY ONLY <1>2, <2>2, <2>3 DEF HubTyped, AgentsSent
<1>4. Views
  BY AnswerIs DEF Views
<1>5. Posts /\ History
  BY Phases DEF Posts, History
<1>6. shown \in RowMaps /\ DOMAIN shown = {}
  BY NoRows
<1>7. Screen
  BY <1>6 DEF Screen
<1>8. MaxEvents \in 0..MaxEvents
  BY SizesAssumption
<1>9. Rest
  BY <1>8 DEF Rest
<1> QED  BY <1>1, <1>3, <1>4, <1>5, <1>7, <1>9 DEF Typed

LEMMA TypedStep == ASSUME Typed, Banner, [Next]_vars PROVE Typed'
<1> USE DEF Typed
<1>1. HubStep /\ LogGrows
  BY HubSteps, LogStep DEF HubTyped, HubStep
<1>2. HubTyped' /\ Sending'
  BY <1>1, HubTypedStep, SendingStep
<1>3. Views' /\ Posts' /\ History' /\ Screen' /\ Rest'
  BY <1>1, ViewsStep, PostsStep, HistoryStep, ScreenStep, FlagsStep
<1> QED  BY <1>2, <1>3

LEMMA TypedIsTypeOK == Typed => TypeOK
<1> SUFFICES ASSUME Typed PROVE TypeOK
  OBVIOUS
<1>1. log \in Seq([who : Messages \cup {"agent"}, state : {"queued", "sent", "gone"}])
      /\ Len(log) <= MaxRows
  BY DEF Typed, HubTyped, LogRows
<1>2. wire \in Seq(Events) /\ joined \in BOOLEAN
  BY DEF Typed, HubTyped
<1>3. view \in [Requests ->
                  {None, Asked, Applied}
                      \cup [phase : {"answered"}, rows : RowMaps,
                            more : BOOLEAN, fresh : BOOLEAN]]
  BY DEF Typed, Views, ViewStates, Answers
<1>4. post \in {None} \cup [phase : {"asked"}, who : Messages]
                  \cup [phase : {"answered"}, who : Messages, seq : Seqs,
                        state : {"queued", "sent"}]
  BY DEF Typed, Posts
<1>5. older \in {None} \cup [phase : {"asked", "answered"}, rows : RowMaps,
                              from : Seqs, before : Seqs, more : BOOLEAN]
  BY DEF Typed, History, Histories
<1>6. shown \in RowMaps /\ pending \subseteq {s \in DOMAIN log : log[s].who = "agent"}
  BY DEF Typed, Screen, AgentRows
<1>7. bubble \in [Messages ->
                    [status : {"none", "sending", "queued", "failed", "sent"},
                     queued : BOOLEAN]]
  BY DEF Typed, Sending, Bubbles, Statuses
<1>8. Rest
  BY DEF Typed
<1>9. {joined, atBottom, hasMore, unread, blind, wide, stale, doubled} \subseteq BOOLEAN
  BY <1>2, <1>8 DEF Rest
<1> QED
  BY <1>1, <1>2, <1>3, <1>4, <1>5, <1>6, <1>7, <1>8, <1>9 DEF TypeOK, Rest

-----------------------------------------------------------------------------
(* What the window has been told *)

\* A message has one row that the Hub keeps.
UniqueKept ==
    \A s, t \in Kept :
        log[s].who = log[t].who /\ log[s].who \in Messages => s = t

\* The event that tells what became of a queued row.
Fate(s) == IF log[s].state = "gone" THEN "canceled" ELSE "consumed"
Tells(e, s) == e.type = Fate(s) /\ e.who = log[s].who

\* Events are on their way only to a socket in the room; a message that was
\* consumed is sent for good; what is told of a message is told in order.
WireOrder ==
    /\ wire # << >> => joined
    /\ \A i \in DOMAIN wire : wire[i].type = "consumed" =>
           \E s \in DOMAIN log : log[s].who = wire[i].who /\ log[s].state = "sent"
    /\ \A i, j \in DOMAIN wire :
           i < j /\ wire[i].type = "consumed" /\ wire[j].type = "canceled" =>
               wire[i].who # wire[j].who

\* A row told as waiting that no longer does is told of again, later.
WireCurrent ==
    \A i \in DOMAIN wire :
        /\ wire[i].type = "received" /\ wire[i].state = "queued"
        /\ log[wire[i].seq].state # "queued"
        => \E j \in DOMAIN wire : i < j /\ Tells(wire[j], wire[i].seq)

\* A row is shown as it is, or as waiting while the news are on their way.
Shows(s, state) ==
    \/ state = log[s].state
    \/ /\ state = "queued" /\ log[s].state # "queued"
       /\ \E i \in DOMAIN wire : Tells(wire[i], s)

Told ==
    /\ UniqueKept /\ WireOrder
    /\ ~stale => WireCurrent /\ \A s \in DOMAIN shown : Shows(s, shown[s])

LEMMA UniqueStep ==
    ASSUME HubTyped, UniqueKept, HubStep
    PROVE  UniqueKept'
<1>1. CASE log' = log
  BY <1>1 DEF UniqueKept, Kept
<1>2. ASSUME NEW row \in NewRows, Appends(row) PROVE UniqueKept'
  <2>1. PICK new : new = Len(log) + 1
    OBVIOUS
  <2>2. /\ DOMAIN log' = DOMAIN log \cup {new} /\ log'[new] = row
        /\ \A s \in DOMAIN log : log'[s] = log[s]
    BY <1>2, <2>1, AppendsIs DEF HubTyped
  <2>3. ASSUME NEW s \in Kept', s # new
        PROVE  /\ s \in Kept /\ log'[s] = log[s]
               /\ row.who \in Messages => log[s].who # row.who
    <3>1. s \in DOMAIN log /\ log'[s] = log[s] /\ s \in Kept
      BY <2>2, <2>3 DEF Kept
    <3> QED  BY <3>1 DEF NewRows, RowsOf
  <2>4. ASSUME NEW s \in Kept', NEW t \in Kept', log'[s].who = log'[t].who,
               log'[s].who \in Messages
        PROVE  s = t
    BY <2>2, <2>3, <2>4 DEF UniqueKept
  <2> QED  BY <2>4 DEF UniqueKept
<1>3. ASSUME NEW s \in Kept, NEW state \in {"sent", "gone"}, NEW type,
             Changes(s, state, type)
      PROVE  UniqueKept'
  <2>1. /\ DOMAIN log' = DOMAIN log /\ s \in DOMAIN log
        /\ \A t \in DOMAIN log : t # s => log'[t] = log[t]
        /\ log'[s].who = log[s].who
    BY <1>3, ChangesIs DEF HubTyped
  <2>2. \A t \in Kept' : t \in Kept /\ log'[t].who = log[t].who
    BY <2>1 DEF Kept
  <2> QED  BY <2>2 DEF UniqueKept
<1> QED
  BY <1>1, <1>2, <1>3 DEF HubStep, HubMoves, Repeats, Delivers, Loses, Subscribes

\* A row's fate is decided once.
LEMMA FateStays ==
    ASSUME LogGrows, NEW s \in DOMAIN log, log[s].state # "queued", NEW e
    PROVE  Tells(e, s) => e.type = Fate(s)' /\ e.who = log'[s].who
BY DEF LogGrows, Tells, Fate

LEMMA TellsKind ==
    ASSUME HubTyped, NEW i \in DOMAIN wire, NEW s, Tells(wire[i], s)
    PROVE  /\ wire[i].type \in {"consumed", "canceled"}
           /\ wire[i].who \in Messages /\ wire[i].who = log[s].who
<1>1. wire[i] \in Events /\ wire[i].type \in {"consumed", "canceled"}
  BY DEF HubTyped, Tells, Fate
<1>2. wire[i].type # "received"
  BY <1>1
<1>3. wire[i].who \in Messages
  BY <1>1, <1>2, EventKinds
<1> QED  BY <1>1, <1>3 DEF Tells

\* What a step of the Hub tells of: a row as it is now, or what became of a
\* row that waited.
Arrives(e) ==
    /\ e \in Events /\ e.type = "received" /\ Publish(e)
    /\ e.seq \in DOMAIN log' /\ log'[e.seq].state = e.state
    /\ DOMAIN log \subseteq DOMAIN log' /\ \A s \in DOMAIN log : log'[s] = log[s]
    /\ \A s \in DOMAIN log' : s \in DOMAIN log \/ s = e.seq
    /\ joined' = joined
Settles(s, e) ==
    /\ e \in Events /\ e.type \in {"consumed", "canceled"} /\ Publish(e)
    /\ s \in Kept /\ log[s].state = "queued"
    /\ log[s].who \in Messages /\ e.who = log[s].who
    /\ log'[s].state = IF e.type = "consumed" THEN "sent" ELSE "gone"
    /\ log'[s].who = log[s].who
    /\ DOMAIN log' = DOMAIN log
    /\ \A t \in DOMAIN log : t # s => log'[t] = log[t]
    /\ joined' = joined /\ (stale' = (stale \/ ~joined))

LEMMA NewsIs ==
    ASSUME HubTyped, HubMoves
    PROVE  \/ log' = log /\ wire' = wire /\ (joined' = joined \/ joined' = TRUE)
           \/ Loses
           \/ \E e : Arrives(e)
           \/ \E s, e : Settles(s, e)
<1>1. ASSUME NEW row \in NewRows, Appends(row) PROVE \E e : Arrives(e)
  <2>1. PICK seq : seq = Len(log) + 1
    OBVIOUS
  <2>2. /\ DOMAIN log' = DOMAIN log \cup {seq} /\ log'[seq] = row
        /\ \A s \in DOMAIN log : log'[s] = log[s]
    BY <1>1, <2>1, AppendsIs DEF HubTyped
  <2>3. seq \in Seqs
    <3>1. Len(log) \in Nat /\ Len(log) < MaxRows /\ MaxRows \in Nat
      BY <1>1, SizesAssumption DEF Appends, HubTyped
    <3> QED  BY <2>1, <3>1 DEF Seqs
  <2>4. PICK e : e = Stored(seq, row)
    OBVIOUS
  <2>5. e \in Events /\ e.type = "received" /\ e.seq = seq /\ e.state = row.state
    BY <2>3, <2>4, EventKinds DEF NewRows
  <2>6. Publish(e) /\ joined' = joined
    BY <1>1, <2>1, <2>4 DEF Appends
  <2> QED  BY <2>2, <2>5, <2>6 DEF Arrives
<1>2. ASSUME NEW s \in Kept, Repeats(s) PROVE \E e : Arrives(e)
  <2>1. s \in DOMAIN log /\ log[s] \in LogRows /\ log[s].state # "gone"
    BY LogRowIs DEF Kept
  <2>2. s \in Seqs
    BY <2>1, LogSeqs
  <2>3. PICK e : e = Stored(s, log[s])
    OBVIOUS
  <2>4. e \in Events /\ e.type = "received" /\ e.seq = s /\ e.state = log[s].state
    BY <2>1, <2>2, <2>3, EventKinds
  <2>5. Publish(e) /\ joined' = joined /\ log' = log
    BY <1>2, <2>3 DEF Repeats
  <2> QED  BY <2>1, <2>4, <2>5 DEF Arrives
<1>3. ASSUME NEW s \in Kept, NEW type \in {"consumed", "canceled"},
             NEW state \in {"sent", "gone"},
             state = IF type = "consumed" THEN "sent" ELSE "gone",
             Changes(s, state, type)
      PROVE  \E e : Settles(s, e)
  <2>1. /\ DOMAIN log' = DOMAIN log /\ s \in DOMAIN log
        /\ \A t \in DOMAIN log : t # s => log'[t] = log[t]
        /\ log'[s].who = log[s].who /\ log'[s].state = state
    BY <1>3, ChangesIs DEF HubTyped
  <2>2. /\ log[s].state = "queued" /\ log[s].who \in Messages
        /\ PublishChange(log[s].who, type) /\ joined' = joined
    BY <1>3 DEF Changes
  <2>3. PICK e : e = [type |-> type, who |-> log[s].who]
    OBVIOUS
  <2>4. e \in Events /\ e.type = type /\ e.who = log[s].who
    BY <2>2, <2>3, EventKinds
  <2>5. Publish(e) /\ (stale' = (stale \/ ~joined))
    BY <2>2, <2>3 DEF PublishChange
  <2> QED  BY <1>3, <2>1, <2>2, <2>4, <2>5 DEF Settles
<1>4. ASSUME NEW s \in Kept, Changes(s, "sent", "consumed") PROVE \E e : Settles(s, e)
  BY <1>3, <1>4
<1>5. ASSUME NEW s \in Kept, Changes(s, "gone", "canceled") PROVE \E e : Settles(s, e)
  BY <1>3, <1>5
<1> QED  BY <1>1, <1>2, <1>4, <1>5 DEF HubMoves, Subscribes

\* The same of the rows, for what is told of them.
LEMMA MovesGrow ==
    ASSUME HubTyped, HubStep
    PROVE  LogGrows
BY LogStep DEF HubTyped

LEMMA WireOrderStep ==
    ASSUME HubTyped, UniqueKept, WireOrder, HubStep
    PROVE  WireOrder'
<1> DEFINE Held(m) == \E s \in DOMAIN log : log[s].who = m /\ log[s].state = "sent"
<1>1. LogGrows
  BY MovesGrow
<1>2. ASSUME NEW m, \E s \in DOMAIN log : log[s].who = m /\ log[s].state = "sent"
      PROVE  \E s \in DOMAIN log' : log'[s].who = m /\ log'[s].state = "sent"
  BY <1>1, <1>2 DEF LogGrows
<1>3. ASSUME log' = log, wire' = wire, joined' = joined \/ joined' = TRUE
      PROVE  WireOrder'
  BY <1>3 DEF WireOrder
<1>4. CASE wire' = << >>
  <2>1. DOMAIN wire' = {}
    BY <1>4
  <2> QED  BY <1>4, <2>1 DEF WireOrder
<1>5. ASSUME NEW e \in Events, Publish(e), joined' = joined,
             e.type = "consumed" =>
                 \E s \in DOMAIN log' : log'[s].who = e.who /\ log'[s].state = "sent",
             e.type = "canceled" =>
                 ~(\E s \in DOMAIN log : log[s].who = e.who /\ log[s].state = "sent")
      PROVE  WireOrder'
  <2>1. /\ wire' \in Seq(Events)
        /\ \A i \in DOMAIN wire : wire'[i] = wire[i] /\ i < Len(wire) + 1
        /\ \A i \in DOMAIN wire' :
               i \in DOMAIN wire \/ (i = Len(wire) + 1 /\ wire'[i] = e)
        /\ ~joined => wire' = wire
    BY <1>5, PublishIs DEF HubTyped
  <2>2. wire' # << >> => joined'
    BY <1>5, <2>1 DEF WireOrder
  <2>3. ASSUME NEW i \in DOMAIN wire', wire'[i].type = "consumed"
        PROVE  \E s \in DOMAIN log' : log'[s].who = wire'[i].who /\ log'[s].state = "sent"
    <3>1. CASE i \in DOMAIN wire
      <4>1. \E s \in DOMAIN log : log[s].who = wire[i].who /\ log[s].state = "sent"
        BY <2>1, <2>3, <3>1 DEF WireOrder
      <4> QED  BY <1>2, <2>1, <3>1, <4>1
    <3> QED  BY <1>5, <2>1, <2>3, <3>1
  <2>4. ASSUME NEW i \in DOMAIN wire', NEW j \in DOMAIN wire', i < j,
               wire'[i].type = "consumed", wire'[j].type = "canceled"
        PROVE  wire'[i].who # wire'[j].who
    <3>1. Len(wire) \in Nat /\ i \in Nat /\ j \in Nat
      BY <2>1 DEF HubTyped
    <3>2. i \in DOMAIN wire
      <4>1. CASE i = Len(wire) + 1 /\ wire'[i] = e
        <5>1. CASE j \in DOMAIN wire
          BY <2>1, <2>4, <3>1, <4>1, <5>1
        <5>2. CASE j = Len(wire) + 1
          BY <2>4, <3>1, <4>1, <5>2
        <5> QED  BY <2>1, <5>1, <5>2
      <4> QED  BY <2>1, <4>1
    <3>3. \E s \in DOMAIN log : log[s].who = wire[i].who /\ log[s].state = "sent"
      BY <2>1, <2>4, <3>2 DEF WireOrder
    <3>4. CASE j \in DOMAIN wire
      BY <2>1, <2>4, <3>2, <3>4 DEF WireOrder
    <3>5. CASE wire'[j] = e
      BY <1>5, <2>1, <2>4, <3>2, <3>3, <3>5
    <3> QED  BY <2>1, <3>4, <3>5
  <2> QED  BY <2>2, <2>3, <2>4 DEF WireOrder
<1>6. ASSUME NEW e, Arrives(e) PROVE WireOrder'
  <2>1. e.type # "consumed" /\ e.type # "canceled"
    BY <1>6 DEF Arrives
  <2> QED  BY <1>5, <1>6, <2>1 DEF Arrives
<1>7. ASSUME NEW s, NEW e, Settles(s, e) PROVE WireOrder'
  <2>1. s \in DOMAIN log /\ s \in DOMAIN log' /\ e.who = log[s].who
        /\ log'[s].who = log[s].who
    BY <1>7 DEF Settles, Kept
  <2>2. e.type = "consumed" => log'[s].state = "sent"
    BY <1>7 DEF Settles
  <2>3. ASSUME NEW t \in DOMAIN log, log[t].who = e.who, log[t].state = "sent"
        PROVE  FALSE
    <3>1. t \in Kept /\ s \in Kept /\ log[s].state = "queued" /\ log[s].who \in Messages
      BY <1>7, <2>3 DEF Settles, Kept
    <3>2. t = s
      BY <2>1, <2>3, <3>1 DEF UniqueKept
    <3> QED  BY <2>3, <3>1, <3>2
  <2> QED  BY <1>5, <1>7, <2>1, <2>2, <2>3 DEF Settles
<1>8. CASE Delivers
  <2>1. /\ log' = log /\ joined' = joined /\ wire # << >>
        /\ wire \in Seq(Events)
        /\ \A i \in DOMAIN wire' :
               i + 1 \in DOMAIN wire /\ wire'[i] = wire[i + 1] /\ i \in Nat
    BY <1>8, DeliversIs DEF Delivers, HubTyped
  <2>2. \A i, j \in DOMAIN wire' : i < j => i + 1 < j + 1
    BY <2>1
  <2>3. joined
    BY <2>1 DEF WireOrder
  <2>4. ASSUME NEW i \in DOMAIN wire', wire'[i].type = "consumed"
        PROVE  \E s \in DOMAIN log' : log'[s].who = wire'[i].who /\ log'[s].state = "sent"
    BY <2>1, <2>4 DEF WireOrder
  <2>5. ASSUME NEW i \in DOMAIN wire', NEW j \in DOMAIN wire', i < j,
               wire'[i].type = "consumed", wire'[j].type = "canceled"
        PROVE  wire'[i].who # wire'[j].who
    BY <2>1, <2>2, <2>5 DEF WireOrder
  <2> QED  BY <2>1, <2>3, <2>4, <2>5 DEF WireOrder
<1> QED  BY <1>3, <1>4, <1>6, <1>7, <1>8, NewsIs DEF HubStep, Loses

\* What is told of a row, and how it may be shown, after a step.
TellsNow(e, s) ==
    /\ e.type = (IF log'[s].state = "gone" THEN "canceled" ELSE "consumed")
    /\ e.who = log'[s].who
ShowsNow(s, state) ==
    \/ state = log'[s].state
    \/ /\ state = "queued" /\ log'[s].state # "queued"
       /\ \E i \in DOMAIN wire' : TellsNow(wire'[i], s)

\* What the window missed stays missed.
LEMMA HistoryKept ==
    ASSUME Rest, [Next]_vars
    PROVE  (stale => stale') /\ (doubled => doubled') /\ (wide => wide')
<1> DEFINE Goal == (stale => stale') /\ (doubled => doubled') /\ (wide => wide')
<1> SUFFICES Goal
  OBVIOUS
<1> USE DEF Rest
<1>1. CASE UNCHANGED vars
  BY <1>1 DEF vars, historyVars
<1>2. CASE AgentWrites \/ HandlePost \/ Join
  BY <1>2 DEF AgentWrites, HandlePost, Join, historyVars
<1>3. ASSUME NEW m \in Messages, HandleLate(m) \/ Consume(m) \/ Cancel(m) PROVE Goal
  BY <1>3 DEF HandleLate, Consume, Cancel, Change, PublishChange, historyVars
<1>4. CASE Scroll \/ LoadOlder \/ Refresh \/ Flush
  BY <1>4 DEF Scroll, LoadOlder, Refresh, Flush, historyVars
<1>5. ASSUME NEW m \in Messages, Send(m) \/ Retry(m) PROVE Goal
  BY <1>5 DEF Send, Retry, Attempt, historyVars
<1>6. CASE Rejected \/ OlderPage \/ OlderFails
  BY <1>6 DEF Rejected, OlderPage, OlderFails, historyVars
<1>7. ASSUME NEW r \in Requests, Answer(r) \/ Hydrate(r) PROVE Goal
  BY <1>7 DEF Answer, Hydrate
<1>8. CASE LoadFails \/ PageFails \/ RecoveryEnds \/ RecoveryFails
            \/ Disconnect \/ ConnectFails
  BY <1>8 DEF LoadFails, PageFails, RecoveryEnds,
              RecoveryFails, Disconnect, ConnectFails, historyVars
<1>9. ASSUME NEW recovered \in BOOLEAN, Connect(recovered) PROVE Goal
  BY <1>9 DEF Connect
<1>10. CASE Receive
  BY <1>10 DEF Receive, Ingest
<1>11. CASE Accepted \/ ShowOlder
  BY <1>11 DEF Accepted, ShowOlder, Ingest
<1> QED
  BY <1>1, <1>2, <1>3, <1>4, <1>5, <1>6, <1>7, <1>8, <1>9, <1>10, <1>11
     DEF Next, Hub, User, Network

\* An event that tells a row's fate still does when it has moved on the wire.
LEMMA TellsStays ==
    ASSUME LogGrows, NEW s \in DOMAIN log, log[s].state # "queued", NEW e, Tells(e, s)
    PROVE  TellsNow(e, s)
BY DEF LogGrows, Tells, Fate, TellsNow

\* Only a step that loses a change, or that is made while the Hub does not have
\* the socket, leaves a row shown otherwise than it is, with nothing to come.
LEMMA ShowsStays ==
    ASSUME HubTyped, HubMoves, ~stale', NEW s \in DOMAIN log, NEW state, Shows(s, state)
    PROVE  ShowsNow(s, state)
<1>1. LogGrows
  BY MovesGrow DEF HubStep
<1>2. ASSUME NEW i \in DOMAIN wire, Tells(wire[i], s), log[s].state # "queued",
             i \in DOMAIN wire', wire'[i] = wire[i], state = "queued"
      PROVE  ShowsNow(s, state)
  <2>1. TellsNow(wire'[i], s)
    BY <1>1, <1>2, TellsStays
  <2>2. log'[s].state # "queued"
    BY <1>1, <1>2 DEF LogGrows
  <2> QED  BY <1>2, <2>1, <2>2 DEF ShowsNow
<1>3. ASSUME log'[s] = log[s],
             \A i \in DOMAIN wire : i \in DOMAIN wire' /\ wire'[i] = wire[i]
      PROVE  ShowsNow(s, state)
  <2>1. CASE state = log[s].state
    BY <1>3, <2>1 DEF ShowsNow
  <2> QED  BY <1>2, <1>3, <2>1 DEF Shows
<1>4. CASE log' = log /\ wire' = wire
  BY <1>3, <1>4
<1>5. CASE Loses
  <2>1. \A m \in Messages : ~Changed(m)
    BY <1>5 DEF Loses
  <2>2. ASSUME NEW i \in DOMAIN wire, Tells(wire[i], s) PROVE FALSE
    BY <2>1, <2>2, TellsKind DEF Changed, ToldOf
  <2> QED  BY <1>5, <2>2 DEF Loses, Shows, ShowsNow
<1>6. ASSUME NEW e, Arrives(e) PROVE ShowsNow(s, state)
  <2>1. \A i \in DOMAIN wire : i \in DOMAIN wire' /\ wire'[i] = wire[i]
    BY <1>6, PublishIs DEF Arrives, HubTyped
  <2> QED  BY <1>3, <1>6, <2>1 DEF Arrives
<1>7. ASSUME NEW t, NEW e, Settles(t, e) PROVE ShowsNow(s, state)
  <2>1. joined
    BY <1>7 DEF Settles
  <2>2. PICK j : j = Len(wire) + 1
    OBVIOUS
  <2>3. /\ \A i \in DOMAIN wire : i \in DOMAIN wire' /\ wire'[i] = wire[i]
        /\ j \in DOMAIN wire' /\ wire'[j] = e
    BY <1>7, <2>1, <2>2, PublishIs DEF Settles, HubTyped
  <2>4. CASE t # s
    BY <1>3, <1>7, <2>3, <2>4 DEF Settles
  <2>5. CASE t = s
    <3>1. log[s].state = "queued" /\ state = "queued"
      BY <1>7, <2>5 DEF Settles, Shows
    <3>2. /\ log'[s].state = IF e.type = "consumed" THEN "sent" ELSE "gone"
          /\ e.type \in {"consumed", "canceled"}
          /\ e.who = log[s].who /\ log'[s].who = log[s].who
      BY <1>7, <2>5 DEF Settles
    <3>3. TellsNow(e, s) /\ log'[s].state # "queued"
      BY <3>2 DEF TellsNow
    <3> QED  BY <2>3, <3>1, <3>3 DEF ShowsNow
  <2> QED  BY <2>4, <2>5
<1> QED  BY <1>4, <1>5, <1>6, <1>7, NewsIs

LEMMA WireCurrentStep ==
    ASSUME HubTyped, WireCurrent, HubStep, ~stale'
    PROVE  WireCurrent'
<1>1. LogGrows
  BY MovesGrow
<1> DEFINE Waits(e) == e.type = "received" /\ e.state = "queued"
<1>2. SUFFICES ASSUME NEW i \in DOMAIN wire', Waits(wire'[i]),
                      log'[wire'[i].seq].state # "queued"
               PROVE  \E j \in DOMAIN wire' : i < j /\ TellsNow(wire'[j], wire'[i].seq)
  BY DEF WireCurrent, Tells, Fate, TellsNow
<1>3. PICK s : s = wire'[i].seq
  OBVIOUS
<1>4. ASSUME NEW k \in DOMAIN wire, wire'[i] = wire[k]
      PROVE  s \in DOMAIN log /\ wire[k].seq = s
  BY <1>2, <1>3, <1>4 DEF HubTyped, Reports
<1>5. ASSUME NEW k \in DOMAIN wire, wire'[i] = wire[k], log[s].state # "queued"
      PROVE  \E j \in DOMAIN wire : k < j /\ TellsNow(wire[j], s)
  <2>1. PICK j \in DOMAIN wire : k < j /\ Tells(wire[j], wire[k].seq)
    BY <1>2, <1>3, <1>5 DEF WireCurrent
  <2>2. s \in DOMAIN log /\ wire[k].seq = s
    BY <1>4, <1>5
  <2> QED  BY <1>1, <1>5, <2>1, <2>2, TellsStays
<1>6. ASSUME i \in DOMAIN wire, wire'[i] = wire[i], log[s].state # "queued",
             \A j \in DOMAIN wire : j \in DOMAIN wire' /\ wire'[j] = wire[j]
      PROVE  \E j \in DOMAIN wire' : i < j /\ TellsNow(wire'[j], s)
  BY <1>5, <1>6
<1>7. CASE log' = log /\ wire' = wire
  BY <1>2, <1>3, <1>6, <1>7
<1>8. CASE Loses
  BY <1>8 DEF Loses
<1>9. ASSUME NEW e, Arrives(e)
      PROVE  \E j \in DOMAIN wire' : i < j /\ TellsNow(wire'[j], s)
  <2>1. /\ \A j \in DOMAIN wire : j \in DOMAIN wire' /\ wire'[j] = wire[j]
        /\ i \in DOMAIN wire \/ wire'[i] = e
    BY <1>9, PublishIs DEF Arrives, HubTyped
  <2>2. log'[e.seq].state = e.state /\ \A t \in DOMAIN log : log'[t] = log[t]
    BY <1>9 DEF Arrives
  <2>3. i \in DOMAIN wire
    BY <1>2, <1>3, <2>1, <2>2
  <2> QED  BY <1>2, <1>3, <1>4, <1>6, <2>1, <2>2, <2>3
<1>10. ASSUME NEW t, NEW e, Settles(t, e)
       PROVE  \E j \in DOMAIN wire' : i < j /\ TellsNow(wire'[j], s)
  <2>1. joined
    BY <1>10 DEF Settles
  <2>2. PICK last : last = Len(wire) + 1
    OBVIOUS
  <2>3. /\ \A j \in DOMAIN wire : j \in DOMAIN wire' /\ wire'[j] = wire[j] /\ j < last
        /\ i \in DOMAIN wire \/ wire'[i] = e
        /\ last \in DOMAIN wire' /\ wire'[last] = e
    BY <1>10, <2>1, <2>2, PublishIs DEF Settles, HubTyped
  <2>4. i \in DOMAIN wire
    BY <1>2, <1>10, <2>3 DEF Settles
  <2>5. s \in DOMAIN log
    BY <1>4, <2>3, <2>4
  <2>6. CASE t # s
    <3>1. log'[s] = log[s]
      BY <1>10, <2>5, <2>6 DEF Settles
    <3> QED  BY <1>2, <1>3, <1>6, <2>3, <2>4, <3>1
  <2>7. CASE t = s
    <3>1. /\ log'[s].state = IF e.type = "consumed" THEN "sent" ELSE "gone"
          /\ e.type \in {"consumed", "canceled"}
          /\ e.who = log[s].who /\ log'[s].who = log[s].who
      BY <1>10, <2>7 DEF Settles
    <3>2. TellsNow(e, s)
      BY <3>1 DEF TellsNow
    <3> QED  BY <2>3, <2>4, <3>2
  <2> QED  BY <2>6, <2>7
<1>11. CASE Delivers
  <2>1. /\ log' = log /\ wire \in Seq(Events)
        /\ i + 1 \in DOMAIN wire /\ wire'[i] = wire[i + 1] /\ i \in Nat
        /\ \A j \in DOMAIN wire : j = 1 \/ (j - 1 \in DOMAIN wire' /\ wire'[j - 1] = wire[j])
    BY <1>11, DeliversIs DEF Delivers, HubTyped
  <2>2. PICK j \in DOMAIN wire : i + 1 < j /\ TellsNow(wire[j], s)
    BY <1>2, <1>3, <1>5, <2>1
  <2>3. j \in Nat
    BY <2>1
  <2>4. PICK k : k = j - 1
    OBVIOUS
  <2>5. j # 1 /\ i < k
    BY <2>1, <2>2, <2>3, <2>4
  <2>6. k \in DOMAIN wire' /\ wire'[k] = wire[j]
    BY <2>1, <2>4, <2>5
  <2> QED  BY <1>3, <2>2, <2>5, <2>6
<1> QED  BY <1>3, <1>7, <1>8, <1>9, <1>10, <1>11, NewsIs DEF HubStep

\* An answer that is not stale tells rows as they are, or as waiting while the
\* news are on their way.
LEMMA AnswerShows ==
    ASSUME HubTyped, NEW rows \in RowMaps, Reported(rows), ~IsStale(rows)
    PROVE  \A s \in DOMAIN rows : Shows(s, rows[s])
<1> SUFFICES ASSUME NEW s \in DOMAIN rows PROVE Shows(s, rows[s])
  OBVIOUS
<1>1. s \in DOMAIN log /\ (rows[s] = "sent" => log[s].state = "sent")
  BY DEF Reported, Reports
<1>2. rows[s] \in {"queued", "sent"}
  BY RowMapIs
<1>3. CASE rows[s] = log[s].state
  BY <1>3 DEF Shows
<1>4. CASE rows[s] # log[s].state
  <2>1. rows[s] = "queued" /\ log[s].state # "queued"
    BY <1>1, <1>2, <1>4
  <2>2. ToldOf(log[s].who, IF log[s].state = "gone" THEN "canceled" ELSE "consumed")
    BY <2>1 DEF IsStale
  <2>3. \E i \in DOMAIN wire : Tells(wire[i], s)
    BY <2>2 DEF ToldOf, Tells, Fate
  <2> QED  BY <2>1, <2>3 DEF Shows
<1> QED  BY <1>3, <1>4

\* When an event is handled, a row shown as waiting while its news were on
\* their way is shown so still, unless they are this event.
LEMMA ShowsOn ==
    ASSUME HubTyped, Delivers, NEW s \in DOMAIN log, NEW state, Shows(s, state),
           state = log[s].state \/ ~Tells(wire[1], s)
    PROVE  ShowsNow(s, state)
<1>1. /\ log' = log
      /\ \A i \in DOMAIN wire :
             i = 1 \/ (i - 1 \in DOMAIN wire' /\ wire'[i - 1] = wire[i])
  BY DeliversIs DEF Delivers, HubTyped
<1>2. CASE state = log[s].state
  BY <1>1, <1>2 DEF ShowsNow
<1>3. CASE state # log[s].state
  <2>1. PICK i \in DOMAIN wire : Tells(wire[i], s)
    BY <1>3 DEF Shows
  <2>2. state = "queued" /\ log[s].state # "queued" /\ i # 1
    BY <1>3, <2>1 DEF Shows
  <2>3. TellsNow(wire[i], s)
    BY <1>1, <2>1 DEF Tells, Fate, TellsNow
  <2>4. PICK k : k = i - 1
    OBVIOUS
  <2>5. k \in DOMAIN wire' /\ wire'[k] = wire[i]
    BY <1>1, <2>2, <2>4
  <2> QED  BY <1>1, <2>2, <2>3, <2>5 DEF ShowsNow
<1> QED  BY <1>2, <1>3

\* A row that is shown when its message's consumption is heard of is sent: it
\* was not canceled, since that would be told after it was consumed.
LEMMA ConsumedIsSent ==
    ASSUME HubTyped, UniqueKept, WireOrder, 1 \in DOMAIN wire,
           wire[1].type = "consumed", wire[1].who \in Messages,
           NEW s \in DOMAIN log, log[s].who = wire[1].who,
           NEW state \in {"queued", "sent"}, Shows(s, state)
    PROVE  log[s].state = "sent"
<1>1. PICK t \in DOMAIN log : log[t].who = wire[1].who /\ log[t].state = "sent"
  BY DEF WireOrder
<1>2. CASE log[s].state # "gone"
  <2>1. s \in Kept /\ t \in Kept
    BY <1>1, <1>2 DEF Kept
  <2> QED  BY <1>1, <2>1 DEF UniqueKept
<1>3. CASE log[s].state = "gone"
  <2>1. PICK i \in DOMAIN wire : Tells(wire[i], s)
    BY <1>3 DEF Shows
  <2>2. wire[i].type = "canceled" /\ wire[i].who = wire[1].who
    BY <1>3, <2>1 DEF Tells, Fate
  <2>3. i \in Nat \ {0} /\ i # 1
    BY <2>2 DEF HubTyped
  <2>4. 1 < i
    BY <2>3
  <2> QED  BY <2>2, <2>4 DEF WireOrder
<1> QED  BY <1>2, <1>3

Shown == \A s \in DOMAIN shown : Shows(s, shown[s])

\* What an event does to the rows shown.
LEMMA ReceiveShows ==
    ASSUME HubTyped, Screen, UniqueKept, WireOrder, WireCurrent, Shown, Receive
    PROVE  \A s \in DOMAIN shown' : ShowsNow(s, shown'[s])
<1>1. Delivers /\ 1 \in DOMAIN wire /\ wire \in Seq(Events)
  BY ReceiveIs, DeliversIs DEF HubTyped
<1>2. \A s \in DOMAIN shown : /\ s \in DOMAIN log /\ Shows(s, shown[s])
                              /\ shown[s] \in {"queued", "sent"}
  BY RowMapIs DEF Screen, Shown
<1>3. ASSUME NEW seq \in Seqs, NEW state \in {"queued", "sent"},
             wire[1].type = "received", wire[1].seq = seq, wire[1].state = state,
             Reports(seq, state), Ingest([s \in {seq} |-> state]),
             NEW s \in DOMAIN shown'
      PROVE  ShowsNow(s, shown'[s])
  <2>1. PICK incoming : /\ Merges(incoming) /\ DOMAIN incoming = {seq}
                        /\ incoming[seq] = state
    BY <1>3, IngestIs
  <2>2. ~Tells(wire[1], s)
    BY <1>3 DEF Tells, Fate
  <2>3. CASE s = seq
    <3>1. shown'[s] = state
      BY <2>1, <2>3, MergesIs
    <3>2. seq \in DOMAIN log /\ (state = "sent" => log[seq].state = "sent")
      BY <1>3 DEF Reports
    <3>3. Shows(seq, state)
      <4>1. CASE state = log[seq].state
        BY <4>1 DEF Shows
      <4>2. CASE state # log[seq].state
        <5>1. state = "queued" /\ log[seq].state # "queued"
          BY <3>2, <4>2
        <5>2. \E j \in DOMAIN wire : Tells(wire[j], seq)
          BY <1>1, <1>3, <5>1 DEF WireCurrent
        <5> QED  BY <5>1, <5>2 DEF Shows
      <4> QED  BY <4>1, <4>2
    <3> QED  BY <1>1, <2>2, <2>3, <3>1, <3>2, <3>3, ShowsOn
  <2>4. CASE s # seq
    <3>1. s \in DOMAIN shown /\ shown'[s] = shown[s]
      BY <2>1, <2>4, MergesIs
    <3> QED  BY <1>1, <1>2, <2>2, <3>1, ShowsOn
  <2> QED  BY <2>3, <2>4
<1>4. ASSUME wire[1].type = "consumed", wire[1].who \in Messages,
             MarkConsumed(wire[1].who), NEW s \in DOMAIN shown'
      PROVE  ShowsNow(s, shown'[s])
  <2>1. /\ s \in DOMAIN shown
        /\ shown'[s] = IF log[s].who = wire[1].who THEN "sent" ELSE shown[s]
    BY <1>4, MarkConsumedIs
  <2>2. CASE log[s].who = wire[1].who
    <3>1. log[s].state = "sent"
      BY <1>1, <1>2, <1>4, <2>1, <2>2, ConsumedIsSent
    <3> QED  BY <1>1, <2>1, <2>2, <3>1 DEF Delivers, ShowsNow
  <2>3. CASE log[s].who # wire[1].who
    <3>1. ~Tells(wire[1], s)
      BY <2>3 DEF Tells
    <3> QED  BY <1>1, <1>2, <2>1, <2>3, <3>1, ShowsOn
  <2> QED  BY <2>2, <2>3
<1>5. ASSUME wire[1].type = "canceled", RemoveQueued(wire[1].who),
             NEW s \in DOMAIN shown'
      PROVE  ShowsNow(s, shown'[s])
  <2>1. /\ s \in DOMAIN shown /\ shown'[s] = shown[s]
        /\ log[s].who # wire[1].who \/ shown[s] # "queued"
    BY <1>5, RemoveQueuedIs
  <2>2. shown[s] = log[s].state \/ ~Tells(wire[1], s)
    BY <1>2, <2>1 DEF Shows, Tells
  <2> QED  BY <1>1, <1>2, <2>1, <2>2, ShowsOn
<1> QED  BY <1>3, <1>4, <1>5, ReceiveIs

\* Rows that are shown as they are told, in a step that tells the Hub nothing
\* and hears nothing of it.
LEMMA QuietShows ==
    ASSUME UNCHANGED <<log, wire>>, NEW s, NEW state, Shows(s, state)
    PROVE  ShowsNow(s, state)
BY DEF Shows, ShowsNow, Tells, Fate, TellsNow

LEMMA MergedShows ==
    ASSUME Screen, Shown, UNCHANGED <<log, wire>>, NEW incoming, Merges(incoming),
           \A s \in DOMAIN incoming : Shows(s, incoming[s])
    PROVE  \A s \in DOMAIN shown' : ShowsNow(s, shown'[s])
<1> SUFFICES ASSUME NEW s \in DOMAIN shown' PROVE ShowsNow(s, shown'[s])
  OBVIOUS
<1>1. CASE s \in DOMAIN incoming
  BY <1>1, MergesIs, QuietShows
<1>2. CASE s \notin DOMAIN incoming
  <2>1. s \in DOMAIN shown /\ shown'[s] = shown[s]
    BY <1>2, MergesIs
  <2> QED  BY <2>1, QuietShows DEF Shown
<1> QED  BY <1>1, <1>2

\* The rows that wait behind the button are sent.
LEMMA PendingShows ==
    ASSUME HubTyped, Screen, NEW s \in pending
    PROVE  Shows(s, "sent")
BY DEF HubTyped, AgentsSent, Screen, AgentRows, Shows

\* As long as nothing is lost and no answer is stale, every row is shown as it
\* is, or as waiting while the news are on their way.
LEMMA ShownStep ==
    ASSUME Typed, UniqueKept, WireOrder, WireCurrent, Shown, [Next]_vars, ~stale'
    PROVE  \A s \in DOMAIN shown' : ShowsNow(s, shown'[s])
<1> DEFINE Goal == \A s \in DOMAIN shown' : ShowsNow(s, shown'[s])
<1> USE DEF Typed
<1>1. CASE Receive
  BY <1>1, ReceiveShows
<1>2. CASE Accepted
  <2>1. PICK row : row = [s \in {post.seq} |-> post.state]
    OBVIOUS
  <2>2. /\ post.phase = "answered" /\ Ingest(row) /\ UNCHANGED <<log, wire>>
        /\ stale' = (stale \/ IsStale(row))
    BY <1>2, <2>1 DEF Accepted, hubVars
  <2>3. post.seq \in Seqs /\ post.state \in {"queued", "sent"}
        /\ Reports(post.seq, post.state)
    BY <2>2, Phases DEF Posts
  <2>4. row \in RowMaps /\ DOMAIN row = {post.seq} /\ row[post.seq] = post.state
    BY <2>1, <2>3, OneRow
  <2>5. Reported(row) /\ ~IsStale(row)
    BY <2>2, <2>3, <2>4 DEF Reported
  <2>6. Merges(row)
    BY <2>2, <2>4, MergeIs DEF Ingest
  <2> QED  BY <2>2, <2>4, <2>5, <2>6, AnswerShows, MergedShows
<1>3. CASE Flush
  <2>1. Merge(AllSent(pending)) /\ UNCHANGED <<log, wire>>
    BY <1>3 DEF Flush, hubVars
  <2>2. PICK all : all = AllSent(pending)
    OBVIOUS
  <2>3. /\ all \in RowMaps /\ DOMAIN all = pending
        /\ \A s \in pending : all[s] = "sent"
    BY <2>2, AllSentIs
  <2>4. Merges(all) /\ \A s \in DOMAIN all : Shows(s, all[s])
    BY <2>1, <2>2, <2>3, MergeIs, PendingShows
  <2> QED  BY <2>1, <2>4, MergedShows
<1>4. CASE ShowOlder
  <2>1. /\ older.phase = "answered" /\ shown' = Over(shown, older.rows)
        /\ stale' = (stale \/ IsStale(older.rows)) /\ UNCHANGED <<log, wire>>
    BY <1>4 DEF ShowOlder, hubVars
  <2>2. PICK rows : rows = older.rows
    OBVIOUS
  <2>3. rows \in RowMaps /\ Reported(rows) /\ ~IsStale(rows)
    BY <2>1, <2>2, HistoryIs DEF History
  <2>4. /\ DOMAIN shown' = DOMAIN shown \cup DOMAIN rows
        /\ \A s \in DOMAIN shown : shown'[s] = shown[s]
        /\ \A s \in DOMAIN rows \ DOMAIN shown : shown'[s] = rows[s]
    BY <2>1, <2>2, <2>3, OverIs DEF Screen
  <2>5. \A s \in DOMAIN rows : Shows(s, rows[s])
    BY <2>3, AnswerShows
  <2>6. \A s \in DOMAIN shown' : Shows(s, shown'[s])
    BY <2>4, <2>5 DEF Shown
  <2>7. ASSUME NEW s \in DOMAIN shown' PROVE ShowsNow(s, shown'[s])
    <3>1. PICK state : state = shown'[s]
      OBVIOUS
    <3> QED  BY <2>1, <2>6, <3>1, QuietShows
  <2> QED  BY <2>7
<1>5. ASSUME NEW r \in Requests, Hydrate(r) PROVE Goal
  <2>1. PICK rows : rows = view[r].rows
    OBVIOUS
  <2>2. /\ view[r].phase = "answered" /\ ShowPage(rows) /\ UNCHANGED <<log, wire>>
        /\ stale' = (stale \/ IsStale(rows))
    BY <1>5, <2>1 DEF Hydrate, hubVars
  <2>3. rows \in RowMaps /\ Reported(rows) /\ ~IsStale(rows)
    BY <2>1, <2>2, AnswerIs DEF Views
  <2>4. PICK incoming :
            /\ Merges(incoming)
            /\ DOMAIN incoming \subseteq DOMAIN rows \cup pending
            /\ \A s \in DOMAIN incoming :
                   incoming[s] = IF s \in DOMAIN rows THEN rows[s] ELSE "sent"
    BY <2>2, <2>3, ShowPageIs
  <2>5. \A s \in DOMAIN incoming : Shows(s, incoming[s])
    BY <2>3, <2>4, AnswerShows, PendingShows
  <2> QED  BY <2>2, <2>4, <2>5, MergedShows
<1>6. CASE shown' = shown /\ HubMoves
  BY <1>6, ShowsStays DEF Screen, Shown
<1> QED  BY <1>1, <1>2, <1>3, <1>4, <1>5, <1>6, ScreenSteps, HubSteps

LEMMA InitTold == Init => Told
<1> SUFFICES ASSUME Init PROVE Told
  OBVIOUS
<1>1. log = << >> /\ wire = << >> /\ shown = << >>
  BY DEF Init
<1>2. DOMAIN log = {} /\ DOMAIN wire = {} /\ DOMAIN shown = {}
  BY <1>1
<1> QED  BY <1>1, <1>2 DEF Told, UniqueKept, Kept, WireOrder, WireCurrent

LEMMA ToldStep ==
    ASSUME Typed, Told, [Next]_vars
    PROVE  Told'
<1>1. HubStep
  BY HubSteps DEF HubStep, Typed
<1>2. UniqueKept' /\ WireOrder'
  BY <1>1, UniqueStep, WireOrderStep DEF Told, Typed
<1>3. ASSUME ~stale'
      PROVE  WireCurrent' /\ \A s \in DOMAIN shown' : ShowsNow(s, shown'[s])
  <2>1. ~stale
    BY <1>3, HistoryKept DEF Typed
  <2> QED  BY <1>1, <1>3, <2>1, WireCurrentStep, ShownStep DEF Told, Typed, Shown
<1>4. (\A s \in DOMAIN shown' : ShowsNow(s, shown'[s])) =>
          (\A s \in DOMAIN shown : Shows(s, shown[s]))'
  BY DEF ShowsNow, Shows, Tells, Fate, TellsNow
<1> QED  BY <1>2, <1>3, <1>4 DEF Told

-----------------------------------------------------------------------------
(* No row beside its optimistic message *)

NoTwin ==
    \A s \in DOMAIN shown :
        log[s].who \in Messages => bubble[log[s].who] = NoBubble

\* A message without a bubble gets one only when it is first sent, and then no
\* row is its yet.
LEMMA BubblesGo ==
    ASSUME Typed, [Next]_vars, NEW m \in Messages, bubble[m] = NoBubble
    PROVE  \/ bubble'[m] = NoBubble
           \/ /\ \A s \in DOMAIN log : log[s].who # m
              /\ shown' = shown
<1> DEFINE Goal == \/ bubble'[m] = NoBubble
                   \/ /\ \A s \in DOMAIN log : log[s].who # m
                      /\ shown' = shown
<1> SUFFICES Goal
  OBVIOUS
<1>b. bubble \in [Messages -> Bubbles] /\ NoBubble.status = "none"
  BY DEF Typed, Sending, NoBubble
<1>i. ASSUME bubble' = bubble PROVE Goal
  BY <1>i
<1>m. ASSUME NEW incoming, Merge(incoming) PROVE Goal
  BY <1>m, <1>i, DropsIs DEF Merge
<1>1. CASE UNCHANGED vars
  BY <1>1, <1>i DEF vars, windowVars
<1>2. CASE AgentWrites \/ HandlePost \/ Join
  BY <1>2, <1>i DEF AgentWrites, HandlePost, Join, windowVars
<1>3. ASSUME NEW n \in Messages, HandleLate(n) \/ Consume(n) \/ Cancel(n) PROVE Goal
  BY <1>3, <1>i DEF HandleLate, Consume, Cancel, Change, windowVars
<1>4. CASE Scroll \/ LoadOlder \/ Refresh
  BY <1>4, <1>i DEF Scroll, LoadOlder, Refresh, windowVars
<1>5. ASSUME NEW n \in Messages, Send(n) PROVE Goal
  <2>1. \A s \in DOMAIN log : log[s].who # n
    BY <1>5 DEF Send
  <2>2. shown' = shown
    BY <1>5 DEF Send, Attempt
  <2>3. PICK b : bubble' = [bubble EXCEPT ![n] = b]
    BY <1>5 DEF Send
  <2>4. CASE n # m
    BY <1>b, <2>3, <2>4
  <2> QED  BY <2>1, <2>2, <2>4
<1>6. ASSUME NEW n \in Messages, Retry(n) PROVE Goal
  <2>1. PICK b : bubble' = [bubble EXCEPT ![n] = b]
    BY <1>6 DEF Retry
  <2>2. n # m
    BY <1>6, <1>b DEF Retry
  <2> QED  BY <1>b, <2>1, <2>2
<1>7. CASE Rejected
  <2>1. \/ bubble' = bubble
        \/ bubble[post.who] # NoBubble
           /\ \E b : bubble' = [bubble EXCEPT ![post.who] = b]
    BY <1>7 DEF Rejected
  <2> QED  BY <1>b, <2>1
<1>8. CASE OlderPage \/ OlderFails
  BY <1>8, <1>i DEF OlderPage, OlderFails, windowVars
<1>9. ASSUME NEW r \in Requests, Answer(r) PROVE Goal
  BY <1>9, <1>i DEF Answer, windowVars
<1>10. ASSUME NEW r \in Requests, Hydrate(r) PROVE Goal
  <2>1. PICK rows : ShowPage(rows)
    BY <1>10 DEF Hydrate
  <2> QED  BY <1>m, <2>1 DEF ShowPage
<1>11. CASE LoadFails \/ PageFails \/ RecoveryEnds \/ RecoveryFails
            \/ Disconnect \/ ConnectFails
  BY <1>11, <1>i DEF LoadFails, PageFails, RecoveryEnds,
                     RecoveryFails, Disconnect, ConnectFails, windowVars
<1>12. ASSUME NEW recovered \in BOOLEAN, Connect(recovered) PROVE Goal
  BY <1>12, <1>i DEF Connect, windowVars
<1>13. CASE Receive
  <2>1. ASSUME NEW n, MarkConsumed(n) PROVE Goal
    <3>1. \/ bubble' = bubble
          \/ bubble[n] # NoBubble /\ \E b : bubble' = [bubble EXCEPT ![n] = b]
      BY <2>1 DEF MarkConsumed
    <3> QED  BY <1>b, <3>1
  <2>2. ASSUME NEW n, RemoveQueued(n) PROVE Goal
    <3>1. bubble' = bubble \/ bubble' = [bubble EXCEPT ![n] = NoBubble]
      BY <2>2 DEF RemoveQueued
    <3> QED  BY <1>b, <3>1
  <2> QED  BY <1>13, <1>m, <2>1, <2>2 DEF Receive, Ingest
<1>14. CASE Accepted \/ Flush
  BY <1>14, <1>m DEF Accepted, Flush, Ingest
<1>15. CASE ShowOlder
  <2>1. bubble' = bubble \/ DropBubbles(shown, shown')
    BY <1>15 DEF ShowOlder
  <2> QED  BY <1>i, <2>1, DropsIs
<1> QED
  BY <1>1, <1>2, <1>3, <1>4, <1>5, <1>6, <1>7, <1>8, <1>9, <1>10, <1>11, <1>12,
     <1>13, <1>14, <1>15
     DEF Next, Hub, User, Network

\* Rows come to be shown by a merge, or as older history.
LEMMA RowsComeBy ==
    ASSUME Typed, [Next]_vars
    PROVE  \/ DOMAIN shown' \subseteq DOMAIN shown
           \/ ShowOlder
           \/ \E incoming : Merges(incoming)
<1> USE DEF Typed
<1> DEFINE Goal == \/ DOMAIN shown' \subseteq DOMAIN shown
                   \/ ShowOlder
                   \/ \E incoming : Merges(incoming)
<1>1. CASE Receive
  <2>1. ASSUME NEW m, MarkConsumed(m) \/ RemoveQueued(m) PROVE Goal
    BY <2>1, MarkConsumedIs, RemoveQueuedIs
  <2> QED  BY <1>1, <2>1, ReceiveIs, IngestIs
<1>2. CASE Accepted
  <2>1. post.phase = "answered" /\ Ingest([s \in {post.seq} |-> post.state])
    BY <1>2 DEF Accepted
  <2>2. post.seq \in Seqs /\ post.state \in {"queued", "sent"}
    BY <2>1, Phases DEF Posts
  <2> QED  BY <2>1, <2>2, IngestIs
<1>3. CASE Flush
  BY <1>3, AllSentIs, MergeIs DEF Flush
<1>4. ASSUME NEW r \in Requests, Hydrate(r) PROVE Goal
  <2>1. view[r].phase = "answered" /\ ShowPage(view[r].rows)
    BY <1>4 DEF Hydrate
  <2>2. view[r].rows \in RowMaps /\ Reported(view[r].rows)
    BY <2>1, AnswerIs DEF Views
  <2> QED  BY <2>1, <2>2, ShowPageIs
<1> QED  BY <1>1, <1>2, <1>3, <1>4, ScreenSteps

\* As long as history holds no row still shown as a bubble, a row that is
\* shown takes the place of its optimistic message.
LEMMA NoTwinStep ==
    ASSUME Typed, ~doubled => NoTwin, [Next]_vars
    PROVE  (~doubled => NoTwin)'
<1>1. SUFFICES ASSUME ~doubled', NEW s \in DOMAIN shown', log'[s].who \in Messages
               PROVE  bubble'[log'[s].who] = NoBubble
  BY DEF NoTwin
<1>2. ~doubled /\ NoTwin
  BY <1>1, HistoryKept DEF Typed
<1>3. LogGrows
  BY HubSteps, MovesGrow DEF Typed, HubStep
<1>4. ASSUME s \in DOMAIN log, bubble[log[s].who] = NoBubble
      PROVE  bubble'[log'[s].who] = NoBubble
  <2>1. log'[s].who = log[s].who
    BY <1>3, <1>4 DEF LogGrows
  <2> QED  BY <1>1, <1>4, <2>1, BubblesGo
<1>5. CASE s \in DOMAIN shown
  <2>1. s \in DOMAIN log /\ log'[s].who = log[s].who
    BY <1>3, <1>5 DEF Typed, Screen, LogGrows
  <2> QED  BY <1>1, <1>2, <1>4, <1>5, <2>1 DEF NoTwin
<1>6. ASSUME NEW incoming, Merges(incoming), s \in DOMAIN incoming, log' = log
      PROVE  bubble'[log'[s].who] = NoBubble
  BY <1>1, <1>6 DEF Merges
<1>7. CASE ShowOlder /\ s \notin DOMAIN shown
  <2>1. PICK rows : rows = older.rows
    OBVIOUS
  <2>2. /\ older.phase = "answered" /\ shown' = Over(shown, rows) /\ log' = log
        /\ doubled' = (doubled \/ \E m \in Messages \cap Written(rows) :
                                      bubble[m] # NoBubble)
    BY <1>7, <2>1 DEF ShowOlder, hubVars
  <2>3. rows \in RowMaps /\ Reported(rows)
    BY <2>1, <2>2, HistoryIs DEF Typed, History
  <2>4. s \in DOMAIN rows
    BY <1>7, <2>2, <2>3, OverIs DEF Typed, Screen
  <2>5. s \in DOMAIN log /\ log[s].who \in Written(rows)
    BY <2>3, <2>4 DEF Reported, Reports, Written
  <2>6. bubble[log[s].who] = NoBubble
    BY <1>1, <2>2, <2>5
  <2> QED  BY <1>4, <2>5, <2>6
<1>8. ASSUME NEW incoming, Merges(incoming), s \notin DOMAIN shown
      PROVE  s \in DOMAIN incoming
  BY <1>8, MergesIs DEF Typed
<1>9. shown' # shown => log' = log
  <2>1. CASE Receive
    BY <2>1 DEF Receive
  <2>2. CASE Accepted \/ Flush \/ ShowOlder
    BY <2>2 DEF Accepted, Flush, ShowOlder, hubVars
  <2>3. ASSUME NEW r \in Requests, Hydrate(r) PROVE log' = log
    BY <2>3 DEF Hydrate, hubVars
  <2> QED  BY <2>1, <2>2, <2>3, ScreenSteps
<1> QED  BY <1>5, <1>6, <1>7, <1>8, <1>9, RowsComeBy

LEMMA QueueIsCurrentHolds ==
    ASSUME Told
    PROVE  QueueIsCurrent
<1> SUFFICES ASSUME Settled, ~stale, NEW s \in DOMAIN shown
             PROVE  shown[s] = log[s].state
  BY DEF QueueIsCurrent
<1>1. wire = << >>
  BY DEF Settled
<1>2. DOMAIN wire = {}
  BY <1>1
<1> QED  BY <1>2 DEF Told, Shows

LEMMA ShownOnceHolds ==
    ASSUME Typed, Told, ~doubled => NoTwin
    PROVE  ShownOnce
<1> SUFFICES ASSUME ~stale, ~doubled, NEW m \in Messages, ~Changed(m)
             PROVE  Cardinality({s \in DOMAIN shown : log[s].who = m})
                        <= (IF bubble[m] = NoBubble THEN 1 ELSE 0)
  BY DEF ShownOnce
<1> DEFINE rows == {s \in DOMAIN shown : log[s].who = m}
<1>1. ASSUME NEW s \in rows PROVE s \in Kept /\ bubble[m] = NoBubble
  <2>1. /\ s \in DOMAIN log /\ shown[s] \in {"queued", "sent"}
        /\ Shows(s, shown[s])
    BY RowMapIs DEF Typed, Screen, Told
  <2>2. ASSUME NEW i \in DOMAIN wire, Tells(wire[i], s) PROVE FALSE
    BY <2>2, TellsKind DEF Typed, Changed, ToldOf
  <2>3. shown[s] = log[s].state
    BY <2>1, <2>2 DEF Shows
  <2>4. s \in Kept
    BY <2>1, <2>3 DEF Kept
  <2> QED  BY <2>4 DEF NoTwin
<1>2. \A s, t \in rows : s = t
  BY <1>1 DEF Told, UniqueKept
<1>3. CASE rows = {}
  <2>1. Cardinality(rows) = 0
    BY <1>3, FS_EmptySet
  <2> QED  BY <2>1
<1>4. CASE rows # {}
  <2>1. PICK s : s \in rows
    BY <1>4
  <2>2. rows = {s} /\ bubble[m] = NoBubble
    BY <1>1, <1>2, <2>1
  <2>3. Cardinality(rows) = 1
    BY <2>2, FS_Singleton
  <2> QED  BY <2>2, <2>3
<1> QED  BY <1>3, <1>4

-----------------------------------------------------------------------------
(* Every row is in the window, in history that can be loaded, or on its way *)

\* The row's own event is on its way.
InWire(s) == \E i \in DOMAIN wire : wire[i].type = "received" /\ wire[i].seq = s

\* A message stored anew after it was canceled is told of after that.
CancelFollowed ==
    \A i \in DOMAIN wire : wire[i].type = "canceled" =>
        \A s \in RowsOf(wire[i].who) :
            \E j \in DOMAIN wire :
                i < j /\ wire[j].type = "received" /\ wire[j].seq = s

\* A view brings a row, or will let it be loaded.
Brings(v, s) ==
    s \in DOMAIN v.rows \/ (v.more /\ \A t \in DOMAIN v.rows : s < t)

\* A view has no holes, and is empty only when there is nothing to load.
Shaped(v) ==
    /\ \A s \in Kept, t \in DOMAIN v.rows : s <= t => Brings(v, s)
    /\ DOMAIN v.rows = {} => ~v.more
Shapes == \A r \in Requests : view[r].phase = "answered" => Shaped(view[r])

\* A view that brings all the window needs.
Good(v) == \A s \in Kept : Brings(v, s) \/ Has(s) \/ InWire(s)
Fresh ==
    \A r \in Requests : view[r].phase = "answered" /\ view[r].fresh =>
        joined /\ Good(view[r])

\* History that is being read has all rows from where it is up to the row it
\* began below.
OlderShaped ==
    older # None =>
        /\ older.from \in DOMAIN log /\ older.before <= older.from
        /\ \A t \in DOMAIN older.rows : older.before <= t
        /\ \A s \in Kept : s < older.from =>
               \/ s \in DOMAIN older.rows
               \/ s < older.before /\ (older.phase = "answered" => older.more)

\* The window need not have every row: it knows that the connection is down,
\* or that a recovery failed, or a view is still to be read.
Excused ==
    \/ sock # "up" /\ ~joined
    \/ status \in {"failed", "reconnecting"}
    \/ \E r \in Requests : view[r] = Asked

Covered ==
    ~blind /\ ~wide /\ ~Excused =>
        /\ joined
        /\ (\A r \in Requests : view[r] \in {None, Applied}) =>
               \A s \in Kept : Accounted(s) \/ InWire(s)
        /\ \A r \in Requests : view[r].phase = "answered" =>
               \/ Good(view[r])
               \/ \E o \in Requests : /\ o # r /\ view[o].phase = "answered"
                                      /\ Good(view[o]) /\ Passes(o)

\* The rows the Hub keeps after a step are old ones, or new ones above all
\* others, whose event is on its way if the Hub has the socket.
LEMMA KeptMoves ==
    ASSUME HubTyped, HubMoves, ~Loses, NEW s \in Kept'
    PROVE  \/ s \in Kept
           \/ /\ s \notin DOMAIN log /\ \A t \in DOMAIN log : t < s
              /\ joined => InWire(s)'
<1>1. CASE log' = log
  BY <1>1 DEF Kept
<1>2. ASSUME NEW e, Arrives(e), s \notin DOMAIN log
      PROVE  (\A t \in DOMAIN log : t < s) /\ (joined => InWire(s)')
  <2>1. s = e.seq /\ s \in DOMAIN log'
    BY <1>2 DEF Arrives, Kept
  <2>2. log \in Seq(LogRows) /\ log' \in Seq(LogRows)
    BY MovesGrow DEF HubTyped, HubStep, LogGrows
  <2>3. /\ DOMAIN log = 1..Len(log) /\ Len(log) \in Nat
        /\ DOMAIN log' = 1..Len(log') /\ Len(log') \in Nat
    BY <2>2
  <2>4. \A t \in DOMAIN log : t < s
    BY <1>2, <2>1, <2>3
  <2>5. ASSUME joined PROVE InWire(s)'
    <3>1. Len(wire) + 1 \in DOMAIN wire' /\ wire'[Len(wire) + 1] = e
      BY <1>2, <2>5, PublishIs DEF Arrives, HubTyped
    <3> QED  BY <1>2, <2>1, <3>1 DEF Arrives, InWire
  <2> QED  BY <2>4, <2>5
<1>3. ASSUME NEW e, Arrives(e), s \in DOMAIN log PROVE s \in Kept
  BY <1>3 DEF Arrives, Kept
<1>4. ASSUME NEW t, NEW e, Settles(t, e) PROVE s \in Kept
  <2>1. s \in DOMAIN log /\ (s # t => log'[s] = log[s]) /\ t \in Kept
    BY <1>4 DEF Settles, Kept
  <2> QED  BY <2>1 DEF Kept
<1> QED  BY <1>1, <1>2, <1>3, <1>4, NewsIs

\* Events that are on their way stay so until they are handled.
LEMMA WireKept ==
    ASSUME HubTyped, HubMoves, ~Loses
    PROVE  \A i \in DOMAIN wire : i \in DOMAIN wire' /\ wire'[i] = wire[i]
<1>1. CASE wire' = wire
  BY <1>1
<1>2. ASSUME NEW e, Arrives(e) PROVE \A i \in DOMAIN wire : i \in DOMAIN wire' /\ wire'[i] = wire[i]
  BY <1>2, PublishIs DEF Arrives, HubTyped
<1>3. ASSUME NEW s, NEW e, Settles(s, e)
      PROVE  \A i \in DOMAIN wire : i \in DOMAIN wire' /\ wire'[i] = wire[i]
  BY <1>3, PublishIs DEF Settles, HubTyped
<1> QED  BY <1>1, <1>2, <1>3, NewsIs

LEMMA CancelFollowedStep ==
    ASSUME HubTyped, UniqueKept, WireOrder, CancelFollowed, HubStep
    PROVE  CancelFollowed'
<1>1. LogGrows
  BY MovesGrow
<1>2. CASE Loses
  <2>1. DOMAIN wire' = {}
    BY <1>2 DEF Loses
  <2> QED  BY <2>1 DEF CancelFollowed
<1>3. CASE HubMoves /\ ~Loses
  <2>1. \A i \in DOMAIN wire : i \in DOMAIN wire' /\ wire'[i] = wire[i]
    BY <1>3, WireKept
  <2>2. SUFFICES ASSUME NEW i \in DOMAIN wire', wire'[i].type = "canceled",
                        NEW s \in Kept', log'[s].who = wire'[i].who
                 PROVE  \E j \in DOMAIN wire' : /\ i < j /\ wire'[j].type = "received"
                                                /\ wire'[j].seq = s
    BY DEF CancelFollowed, RowsOf, Kept
  <2>3. ASSUME i \in DOMAIN wire
        PROVE  \E j \in DOMAIN wire' : /\ i < j /\ wire'[j].type = "received"
                                       /\ wire'[j].seq = s
    <3>1. CASE s \in Kept
      <4>1. log[s].who = wire[i].who
        BY <1>1, <2>1, <2>2, <2>3, <3>1 DEF Kept, LogGrows
      <4> QED  BY <2>1, <2>2, <2>3, <3>1, <4>1 DEF CancelFollowed, RowsOf
    <3>2. CASE s \notin Kept
      <4>1. joined
        <5>1. wire # << >>
          BY <2>3
        <5> QED  BY <5>1 DEF WireOrder
      <4>2. PICK e : Arrives(e)
        <5>1. ASSUME NEW t, NEW e, Settles(t, e) PROVE FALSE
          BY <2>2, <3>2, <5>1 DEF Settles, Kept
        <5>2. log' # log
          BY <2>2, <3>2 DEF Kept
        <5> QED  BY <1>3, <5>1, <5>2, NewsIs
      <4>3. /\ Len(wire) + 1 \in DOMAIN wire' /\ wire'[Len(wire) + 1] = e
            /\ i < Len(wire) + 1
        BY <2>3, <4>1, <4>2, PublishIs DEF Arrives, HubTyped
      <4>4. s = e.seq /\ e.type = "received"
        BY <2>2, <3>2, <4>2 DEF Arrives, Kept
      <4> QED  BY <4>3, <4>4
    <3> QED  BY <3>1, <3>2
  <2>4. ASSUME i \notin DOMAIN wire PROVE FALSE
    <3>1. wire' # wire
      BY <2>4
    <3>2. ASSUME NEW e, Arrives(e) PROVE FALSE
      <4>1. wire'[i] = e
        BY <2>4, <3>2, PublishIs DEF Arrives, HubTyped
      <4> QED  BY <2>2, <3>2, <4>1 DEF Arrives
    <3>3. ASSUME NEW t, NEW e, Settles(t, e) PROVE FALSE
      <4>1. wire'[i] = e
        BY <2>4, <3>3, PublishIs DEF Settles, HubTyped
      <4>2. log'[t].state = "gone" /\ e.who = log[t].who /\ t \in Kept
        BY <2>2, <3>3, <4>1 DEF Settles
      <4>3. s # t /\ s \in DOMAIN log /\ log'[s] = log[s]
        BY <2>2, <3>3, <4>2 DEF Kept, Settles
      <4>4. s \in Kept /\ log[s].who = log[t].who /\ log[s].who \in Messages
        BY <2>2, <3>3, <4>1, <4>2, <4>3 DEF Kept, Settles
      <4> QED  BY <4>2, <4>3, <4>4 DEF UniqueKept
    <3> QED  BY <1>3, <3>1, <3>2, <3>3, NewsIs
  <2> QED  BY <2>3, <2>4
<1>4. CASE Delivers
  <2>1. /\ log' = log /\ wire \in Seq(Events)
        /\ \A i \in DOMAIN wire' : i + 1 \in DOMAIN wire /\ wire'[i] = wire[i + 1] /\ i \in Nat
        /\ \A j \in DOMAIN wire : j = 1 \/ (j - 1 \in DOMAIN wire' /\ wire'[j - 1] = wire[j])
    BY <1>4, DeliversIs DEF Delivers, HubTyped
  <2>2. SUFFICES ASSUME NEW i \in DOMAIN wire', wire'[i].type = "canceled",
                        NEW s \in Kept', log'[s].who = wire'[i].who
                 PROVE  \E j \in DOMAIN wire' : /\ i < j /\ wire'[j].type = "received"
                                                /\ wire'[j].seq = s
    BY DEF CancelFollowed, RowsOf, Kept
  <2>n. PICK n : n = i + 1
    OBVIOUS
  <2>3. /\ n \in DOMAIN wire /\ wire[n].type = "canceled"
        /\ s \in RowsOf(wire[n].who)
    BY <2>1, <2>2, <2>n DEF RowsOf, Kept
  <2>4. PICK j \in DOMAIN wire : /\ n < j /\ wire[j].type = "received"
                                 /\ wire[j].seq = s
    BY <2>3 DEF CancelFollowed
  <2>5. PICK k : k = j - 1
    OBVIOUS
  <2>6. j # 1 /\ i < k
    BY <2>1, <2>4, <2>5, <2>n
  <2>7. k \in DOMAIN wire' /\ wire'[k] = wire[j]
    BY <2>1, <2>5, <2>6
  <2> QED  BY <2>4, <2>6, <2>7
<1> QED  BY <1>2, <1>3, <1>4 DEF HubStep

\* The window only loses a row when it hears that its message was canceled.
LEMMA HasGrows ==
    ASSUME Typed, [Next]_vars
    PROVE  \/ DOMAIN shown \cup pending \subseteq DOMAIN shown' \cup pending'
           \/ /\ Receive /\ wire[1].type = "canceled" /\ RemoveQueued(wire[1].who)
<1> USE DEF Typed
<1> DEFINE Goal == DOMAIN shown \cup pending \subseteq DOMAIN shown' \cup pending'
<1>1. CASE Receive /\ wire[1].type = "received"
  BY <1>1, ReceiveIs, IngestIs
<1>2. CASE Receive /\ wire[1].type = "consumed"
  <2>1. ASSUME NEW m, MarkConsumed(m) PROVE Goal
    BY <2>1, MarkConsumedIs
  <2> QED  BY <1>2, <2>1, ReceiveIs
<1>3. CASE Accepted
  <2>1. post.phase = "answered" /\ Ingest([s \in {post.seq} |-> post.state])
    BY <1>3 DEF Accepted
  <2>2. post.seq \in Seqs /\ post.state \in {"queued", "sent"}
    BY <2>1, Phases DEF Posts
  <2> QED  BY <2>1, <2>2, IngestIs
<1>4. CASE Flush
  <2>1. PICK all : all = AllSent(pending)
    OBVIOUS
  <2>2. Merges(all) /\ DOMAIN all = pending
    BY <1>4, <2>1, AllSentIs, MergeIs DEF Flush
  <2> QED  BY <2>2, MergesIs
<1>5. CASE ShowOlder
  <2>1. /\ older.phase = "answered" /\ shown' = Over(shown, older.rows)
        /\ pending' = pending
    BY <1>5 DEF ShowOlder
  <2>2. older.rows \in RowMaps
    BY <2>1, HistoryIs
  <2>3. DOMAIN shown' = DOMAIN shown \cup DOMAIN older.rows
    BY <2>1, <2>2, OverIs DEF Screen
  <2> QED  BY <2>1, <2>3
<1>6. ASSUME NEW r \in Requests, Hydrate(r) PROVE Goal
  <2>1. view[r].phase = "answered" /\ ShowPage(view[r].rows)
    BY <1>6 DEF Hydrate
  <2>2. view[r].rows \in RowMaps /\ Reported(view[r].rows)
    BY <2>1, AnswerIs DEF Views
  <2> QED  BY <2>1, <2>2, ShowPageIs
<1> QED  BY <1>1, <1>2, <1>3, <1>4, <1>5, <1>6, ScreenSteps, ReceiveIs

\* Nothing that the window has, or that is on its way to it, goes while the Hub
\* has the socket; what is new is on its way.
Keeps ==
    \A s \in Kept' :
        \/ InWire(s)'
        \/ s \in Kept /\ (Has(s) \/ InWire(s) => Has(s)')
LEMMA KeepsStep ==
    ASSUME Typed, UniqueKept, CancelFollowed, [Next]_vars, joined, joined'
    PROVE  Keeps
<1> USE DEF Typed
<1> SUFFICES ASSUME NEW s \in Kept', ~InWire(s)'
             PROVE  s \in Kept /\ (Has(s) \/ InWire(s) => Has(s)')
  BY DEF Keeps
<1>1. CASE Receive
  <2>1. /\ log' = log /\ 1 \in DOMAIN wire /\ wire \in Seq(Events)
        /\ \A i \in DOMAIN wire : i = 1 \/ (i - 1 \in DOMAIN wire' /\ wire'[i - 1] = wire[i])
    BY <1>1, ReceiveIs, DeliversIs DEF Delivers, HubTyped
  <2>2. s \in Kept /\ s \in DOMAIN log
    BY <2>1 DEF Kept
  <2>3. ASSUME NEW i \in DOMAIN wire, wire[i].type = "received", wire[i].seq = s
        PROVE  i = 1
    <3>1. CASE i # 1
      <4>1. PICK k : k = i - 1
        OBVIOUS
      <4>2. k \in DOMAIN wire' /\ wire'[k] = wire[i]
        BY <2>1, <3>1, <4>1
      <4> QED  BY <2>3, <4>2 DEF InWire
    <3> QED  BY <3>1
  <2>4. ASSUME InWire(s) PROVE Has(s)'
    <3>1. wire[1].type = "received" /\ wire[1].seq = s
      BY <2>3, <2>4 DEF InWire
    <3> QED  BY <1>1, <3>1, ReceiveIs, IngestIs DEF Has
  <2>5. ASSUME Has(s) PROVE Has(s)'
    <3>1. CASE wire[1].type = "canceled" /\ RemoveQueued(wire[1].who) /\ ~Has(s)'
      <4>m. PICK m : m = wire[1].who
        OBVIOUS
      <4>n. /\ pending' = pending
            /\ DOMAIN shown' = {t \in DOMAIN shown :
                                  log[t].who # m \/ shown[t] # "queued"}
        BY <3>1, <4>m, RemoveQueuedIs
      <4>1. s \in DOMAIN shown /\ log[s].who = wire[1].who
        BY <2>5, <3>1, <4>m, <4>n DEF Has
      <4>2. s \in RowsOf(wire[1].who)
        BY <2>2, <4>1 DEF RowsOf
      <4>3. PICK j \in DOMAIN wire : 1 < j /\ wire[j].type = "received" /\ wire[j].seq = s
        BY <2>1, <3>1, <4>2 DEF CancelFollowed
      <4> QED  BY <2>3, <4>3
    <3>2. CASE DOMAIN shown \cup pending \subseteq DOMAIN shown' \cup pending'
      BY <2>5, <3>2 DEF Has
    <3> QED  BY <3>1, <3>2, HasGrows
  <2> QED  BY <2>2, <2>4, <2>5
<1>2. CASE ~Receive
  <2>1. HubMoves /\ ~Loses
    BY <1>2, HubSteps DEF Loses
  <2>2. s \in Kept
    BY <2>1, KeptMoves
  <2>3. ~InWire(s)
    <3>1. ASSUME NEW i \in DOMAIN wire, wire[i].type = "received", wire[i].seq = s
          PROVE  FALSE
      <4>1. i \in DOMAIN wire' /\ wire'[i] = wire[i]
        BY <2>1, WireKept
      <4> QED  BY <3>1, <4>1 DEF InWire
    <3> QED  BY <3>1 DEF InWire
  <2>4. DOMAIN shown \cup pending \subseteq DOMAIN shown' \cup pending'
    BY <1>2, HasGrows
  <2> QED  BY <2>2, <2>3, <2>4 DEF Has
<1> QED  BY <1>1, <1>2

\* A view stays good.
LEMMA GoodStays ==
    ASSUME Keeps, NEW v, Good(v)
    PROVE  \A s \in Kept' : Brings(v, s) \/ Has(s)' \/ InWire(s)'
BY DEF Keeps, Good

\* The newest page has every row, or has the way to it.
LEMMA PageBrings ==
    ASSUME HubTyped, NEW v, v.rows = Rows(Page(Latest)), v.more = HasMore(Latest)
    PROVE  /\ DOMAIN v.rows = Page(Latest)
           /\ \A s \in Kept : Brings(v, s)
           /\ Shaped(v) /\ Good(v)
           /\ \A s \in Kept : \E t \in DOMAIN v.rows : s <= t
<1> DEFINE P == Page(Latest)
<1>1. /\ P \subseteq Below(Latest) /\ Below(Latest) \subseteq DOMAIN log
      /\ Below(Latest) # {} => P # {}
      /\ \A s \in Below(Latest) \ P, t \in P : s < t
  BY PageIs DEF HubTyped
<1>2. Below(Latest) = Kept
  <2>1. DOMAIN log = 1..Len(log) /\ Len(log) \in Nat
    BY DEF HubTyped
  <2> QED  BY <2>1 DEF Below, Kept, Latest
<1>3. P \in SUBSET Kept
  BY <1>1, <1>2
<1>4. DOMAIN v.rows = P
  BY <1>3, RowsIs
<1>5. v.more <=> Kept # P
  BY <1>2 DEF HasMore
<1>6. \A s \in Kept : s \in P \/ (v.more /\ \A t \in P : s < t)
  BY <1>1, <1>2, <1>5
<1>7. \A s \in Kept : Brings(v, s)
  BY <1>4, <1>6 DEF Brings
<1>8. P = {} => ~v.more
  BY <1>1, <1>2, <1>5
<1>9. ASSUME NEW s \in Kept PROVE \E t \in P : s <= t
  <2>1. Kept \subseteq Nat
    BY DEF Kept, HubTyped
  <2>2. CASE s \in P
    BY <2>1, <2>2
  <2>3. CASE s \notin P
    <3>1. PICK t \in P : TRUE
      BY <1>1, <1>2
    <3>2. s < t /\ t \in Kept
      BY <1>1, <1>2, <1>3, <2>3
    <3>3. s <= t
      BY <2>1, <3>2
    <3> QED  BY <3>3
  <2> QED  BY <2>2, <2>3
<1> QED  BY <1>4, <1>7, <1>8, <1>9 DEF Shaped, Good

\* A view that a newer one does not pass has, or can load, all it has.
LEMMA NotPassed ==
    ASSUME HubTyped, NEW v, NEW w, Shaped(w), Kept \subseteq Nat,
           DOMAIN v.rows \subseteq Nat, DOMAIN w.rows \subseteq Nat,
           ~(\E s \in DOMAIN v.rows : \A t \in DOMAIN w.rows : t < s),
           NEW s \in Kept, NEW u \in DOMAIN v.rows, s <= u
    PROVE  Brings(w, s)
<1>1. PICK t \in DOMAIN w.rows : ~(t < u)
  OBVIOUS
<1>2. s <= t
  BY <1>1
<1> QED  BY <1>2 DEF Shaped

LEMMA KeptNew ==
    ASSUME Typed, [Next]_vars, NEW s \in Kept'
    PROVE  s \in Kept \/ (s \notin DOMAIN log /\ \A t \in DOMAIN log : t < s)
<1>1. CASE log' = log
  BY <1>1 DEF Kept
<1>2. CASE HubMoves /\ ~Loses
  BY <1>2, KeptMoves DEF Typed
<1> QED  BY <1>1, <1>2, HubSteps DEF Typed, Loses, Delivers

\* The Hub lets go of the socket only when it has to be subscribed anew.
LEMMA JoinedStays ==
    ASSUME HubTyped, [Next]_vars, joined
    PROVE  joined' \/ Connect(FALSE)
<1> DEFINE Goal == joined' \/ Connect(FALSE)
<1> SUFFICES Goal
  OBVIOUS
<1> USE DEF HubTyped
<1>1. CASE UNCHANGED vars
  BY <1>1 DEF vars, hubVars
<1>2. CASE AgentWrites \/ HandlePost \/ Join
  BY <1>2 DEF AgentWrites, HandlePost, Join
<1>3. ASSUME NEW m \in Messages, HandleLate(m) \/ Consume(m) \/ Cancel(m) PROVE Goal
  BY <1>3 DEF HandleLate, Consume, Cancel, Change
<1>4. CASE Flush \/ Scroll \/ LoadOlder \/ Refresh
  BY <1>4 DEF Flush, Scroll, LoadOlder, Refresh, hubVars
<1>5. ASSUME NEW m \in Messages, Send(m) \/ Retry(m) PROVE Goal
  BY <1>5 DEF Send, Retry, Attempt, hubVars
<1>6. CASE Receive \/ Accepted \/ Rejected \/ OlderPage \/ ShowOlder \/ OlderFails
  BY <1>6 DEF Receive, Accepted, Rejected, OlderPage, ShowOlder, OlderFails, hubVars
<1>7. ASSUME NEW r \in Requests, Answer(r) \/ Hydrate(r) PROVE Goal
  BY <1>7 DEF Answer, Hydrate, hubVars
<1>8. CASE LoadFails \/ PageFails \/ RecoveryEnds \/ RecoveryFails
            \/ Disconnect \/ ConnectFails
  BY <1>8 DEF LoadFails, PageFails, RecoveryEnds,
              RecoveryFails, Disconnect, ConnectFails, hubVars
<1>9. ASSUME NEW recovered \in BOOLEAN, Connect(recovered) PROVE Goal
  <2>1. CASE recovered = TRUE
    BY <1>9, <2>1 DEF Connect
  <2>2. CASE recovered = FALSE
    BY <1>9, <2>2
  <2> QED  BY <2>1, <2>2
<1> QED
  BY <1>1, <1>2, <1>3, <1>4, <1>5, <1>6, <1>7, <1>8, <1>9
     DEF Next, Hub, User, Network

\* An answer that is there when the socket is new is no longer fresh.
LEMMA LostViews ==
    ASSUME Views, Connect(FALSE), NEW r \in Requests, view'[r].phase = "answered"
    PROVE  view'[r].fresh = FALSE
<1> DEFINE views == [q \in Requests |->
                        IF view[q].phase = "answered"
                        THEN [view[q] EXCEPT !.fresh = FALSE] ELSE view[q]]
<1>1. view' = views \/ view' = [views EXCEPT !["sync"] = Asked]
  BY DEF Connect, Reconnected
<1>2. view'[r] = views[r] \/ view'[r] = Asked
  BY <1>1
<1>3. view'[r] = views[r]
  BY <1>2, AnswerIs
<1>4. CASE view[r].phase = "answered"
  <2>1. view[r] \in Answers
    BY <1>4, AnswerIs DEF Views
  <2>2. [view[r] EXCEPT !.fresh = FALSE].fresh = FALSE
    BY <2>1 DEF Answers
  <2> QED  BY <1>3, <1>4, <2>2
<1>5. CASE view[r].phase # "answered"
  BY <1>3, <1>5
<1> QED  BY <1>4, <1>5

\* An answer was there before, or has just been read.
LEMMA AnswersCome ==
    ASSUME Typed, [Next]_vars, NEW r \in Requests, view'[r].phase = "answered"
    PROVE  \/ /\ view[r].phase = "answered"
              /\ view'[r].rows = view[r].rows /\ view'[r].more = view[r].more
              /\ view'[r].fresh => view[r].fresh /\ (joined => joined')
           \/ /\ Answer(r) /\ log' = log /\ view'[r] \in Answers
              /\ view'[r].rows = Rows(Page(Latest))
              /\ view'[r].more = HasMore(Latest) /\ view'[r].fresh = joined
<1> USE DEF Typed
<1> DEFINE Was == /\ view[r].phase = "answered"
                  /\ view'[r].rows = view[r].rows /\ view'[r].more = view[r].more
                  /\ view'[r].fresh => view[r].fresh /\ (joined => joined')
           Is == /\ Answer(r) /\ log' = log /\ view'[r] \in Answers
                 /\ view'[r].rows = Rows(Page(Latest))
                 /\ view'[r].more = HasMore(Latest) /\ view'[r].fresh = joined
<1> SUFFICES Was \/ Is
  OBVIOUS
<1>v. view \in [Requests -> ViewStates]
  BY DEF Views
<1>0. CASE Connect(FALSE)
  <2>1. view'[r].fresh = FALSE
    BY <1>0, LostViews
  <2>2. /\ view[r].phase = "answered"
        /\ view'[r].rows = view[r].rows /\ view'[r].more = view[r].more
    BY <1>0, ConnectViews, AnswerIs
  <2> QED  BY <2>1, <2>2
<1>1. CASE view'[r] = view[r] /\ ~Connect(FALSE)
  BY <1>1, JoinedStays
<1>2. ASSUME NEW q \in Requests, Answer(q) PROVE Was \/ Is
  <2>1. PICK rows : rows = Rows(Page(Latest))
    OBVIOUS
  <2>2. PICK v : v = [phase |-> "answered", rows |-> rows,
                      more |-> HasMore(Latest), fresh |-> joined]
    OBVIOUS
  <2>3. /\ view' = [view EXCEPT ![q] = v] /\ log' = log /\ joined' = joined
    BY <1>2, <2>1, <2>2 DEF Answer, hubVars
  <2>4. CASE r = q
    <3>1. Page(Latest) \subseteq Kept
      BY PageIs DEF HubTyped, Below
    <3>2. rows \in RowMaps
      BY <2>1, <3>1, RowsIs
    <3>3. HasMore(Latest) \in BOOLEAN /\ joined \in BOOLEAN
      BY DEF HasMore, HubTyped
    <3>4. v \in Answers
      BY <2>2, <3>2, <3>3 DEF Answers
    <3>5. view'[r] = v
      BY <1>v, <2>3, <2>4
    <3>6. v.rows = rows /\ v.more = HasMore(Latest) /\ v.fresh = joined
      BY <2>2
    <3> QED  BY <1>2, <2>1, <2>3, <2>4, <3>4, <3>5, <3>6
  <2>5. CASE r # q
    BY <1>v, <2>3, <2>5
  <2> QED  BY <2>4, <2>5
<1>3. ASSUME NEW q \in Requests, view' = [view EXCEPT ![q] = None], ~Connect(FALSE)
      PROVE  Was \/ Is
  <2>1. r # q
    BY <1>3, <1>v, AnswerIs
  <2> QED  BY <1>1, <1>3, <1>v, <2>1
<1>4. ASSUME NEW v \in {Asked, Applied}, view' = [view EXCEPT !["sync"] = v],
             ~Connect(FALSE)
      PROVE  Was \/ Is
  <2>1. r # "sync"
    BY <1>4, <1>v, AnswerIs
  <2> QED  BY <1>1, <1>4, <1>v, <2>1
<1>5. ASSUME NEW recovered \in BOOLEAN, Connect(recovered), recovered = TRUE
      PROVE  Was \/ Is
  <2>1. view'[r] = view[r] \/ (view[r] = None /\ view'[r] = Asked)
    BY <1>5, ConnectViews
  <2>2. view'[r] = view[r]
    BY <2>1, AnswerIs
  <2>3. joined' = joined
    BY <1>5 DEF Connect
  <2> QED  BY <2>2, <2>3
<1>6. ASSUME NEW recovered \in BOOLEAN, Connect(recovered) PROVE Was \/ Is
  BY <1>0, <1>5, <1>6
<1> QED  BY <1>0, <1>1, <1>2, <1>3, <1>4, <1>6, ViewSteps

\* A view without holes gets none: what the log gets is above all it has.
LEMMA ShapedStays ==
    ASSUME Typed, [Next]_vars, NEW v, DOMAIN v.rows \subseteq DOMAIN log, Shaped(v)
    PROVE  Shaped(v)'
<1>1. ASSUME NEW s \in Kept', NEW t \in DOMAIN v.rows, s <= t PROVE s \in Kept
  <2>1. t \in DOMAIN log /\ t \in Nat
    BY DEF Typed, HubTyped
  <2>2. s \in Nat
    <3>1. log' \in Seq(LogRows)
      BY HubSteps, MovesGrow DEF Typed, HubStep, LogGrows
    <3> QED  BY <3>1 DEF Kept
  <2> QED  BY <1>1, <2>1, <2>2, KeptNew
<1> QED  BY <1>1 DEF Shaped, Brings

LEMMA ShapesStep ==
    ASSUME Typed, Shapes, [Next]_vars
    PROVE  Shapes'
<1> SUFFICES ASSUME NEW r \in Requests, NEW v, v = view'[r], v.phase = "answered"
             PROVE  Shaped(v)'
  BY DEF Shapes
<1>1. CASE Answer(r) /\ log' = log /\ v.rows = Rows(Page(Latest)) /\ v.more = HasMore(Latest)
  <2>1. Shaped(v)
    BY <1>1, PageBrings DEF Typed
  <2> QED  BY <1>1, <2>1 DEF Shaped, Kept, Brings
<1>2. CASE view[r].phase = "answered" /\ v.rows = view[r].rows /\ v.more = view[r].more
  <2>1. Shaped(v)
    BY <1>2 DEF Shapes, Shaped, Brings
  <2>2. DOMAIN v.rows \subseteq DOMAIN log
    BY <1>2 DEF Typed, Views, Reported, Reports
  <2> QED  BY <2>1, <2>2, ShapedStays
<1> QED  BY <1>1, <1>2, AnswersCome

LEMMA FreshStep ==
    ASSUME Typed, UniqueKept, CancelFollowed, Fresh, [Next]_vars
    PROVE  Fresh'
<1> SUFFICES ASSUME NEW r \in Requests, NEW v, v = view'[r], v.phase = "answered", v.fresh
             PROVE  joined' /\ Good(v)'
  BY DEF Fresh
<1>1. CASE /\ Answer(r) /\ log' = log /\ v.rows = Rows(Page(Latest))
           /\ v.more = HasMore(Latest) /\ v.fresh = joined
  <2>1. joined' = joined
    BY <1>1 DEF Answer, hubVars
  <2>2. \A s \in Kept : Brings(v, s)
    BY <1>1, PageBrings DEF Typed
  <2> QED  BY <1>1, <2>1, <2>2 DEF Good, Kept, Brings
<1>2. CASE /\ view[r].phase = "answered" /\ v.rows = view[r].rows
           /\ v.more = view[r].more /\ view[r].fresh /\ (joined => joined')
  <2>1. joined /\ joined' /\ Good(view[r])
    BY <1>2 DEF Fresh
  <2>2. Good(v)
    BY <1>2, <2>1 DEF Good, Brings
  <2>3. Keeps
    BY <2>1, KeepsStep
  <2> QED  BY <2>1, <2>2, <2>3, GoodStays DEF Good, Brings
<1> QED  BY <1>1, <1>2, AnswersCome

\* History is read downwards without a hole.
LEMMA OlderPageShaped ==
    ASSUME Typed, OlderShaped, OlderPage
    PROVE  OlderShaped'
<1> USE DEF Typed
<1>1. /\ older \in Histories /\ older' \in Histories
      /\ log' = log /\ older.phase = "asked" /\ older'.from = older.from
      /\ older'.rows = Over(older.rows, Rows(Page(older.before)))
      /\ older'.more = HasMore(older.before)
      /\ older'.before = IF Page(older.before) = {} THEN older.before
                         ELSE Lowest(Page(older.before))
  BY OlderPageIs
<1>2. PICK b : b = older.before
  OBVIOUS
<1>3. PICK P : P = Page(b)
  OBVIOUS
<1>4. /\ P \subseteq Below(b) /\ Below(b) \subseteq DOMAIN log
      /\ Below(b) # {} => P # {}
      /\ \A s \in Below(b) \ P, t \in P : s < t
  BY <1>3, PageIs DEF HubTyped
<1>5. DOMAIN log \subseteq Nat /\ Kept \subseteq DOMAIN log
  BY DEF HubTyped, Kept
<1>6. /\ b \in Nat /\ older.from \in Nat /\ b <= older.from
      /\ older.from \in DOMAIN log
      /\ \A t \in DOMAIN older.rows : b <= t
      /\ \A s \in Kept : s < older.from => s \in DOMAIN older.rows \/ s < b
  BY <1>1, <1>2, HistoryIs DEF OlderShaped, Seqs
<1>7. \A s \in P : s < b /\ s \in Kept
  BY <1>4 DEF Below
<1>8. PICK new : new = older'.before
  OBVIOUS
<1>9. /\ new \in Nat /\ new <= b
      /\ \A t \in P : new <= t
      /\ P # {} => new \in P
  <2>1. CASE P = {}
    BY <1>1, <1>2, <1>3, <1>6, <1>8, <2>1
  <2>2. CASE P # {}
    <3>1. new = Lowest(P)
      BY <1>1, <1>2, <1>3, <1>8, <2>2
    <3>2. P \in SUBSET Nat
      BY <1>5, <1>7
    <3>3. new \in P /\ \A t \in P : new <= t
      BY <2>2, <3>1, <3>2, LowestIs
    <3>4. new < b /\ new \in Nat
      BY <1>7, <3>2, <3>3
    <3> QED  BY <1>6, <3>3, <3>4
  <2> QED  BY <2>1, <2>2
<1>10. DOMAIN older'.rows = DOMAIN older.rows \cup P
  <2>1. P \in SUBSET Kept
    BY <1>7
  <2>2. PICK page : page = Rows(P)
    OBVIOUS
  <2>3. page \in RowMaps /\ DOMAIN page = P
    BY <2>1, <2>2, RowsIs
  <2>4. older.rows \in RowMaps
    BY <1>1, HistoryIs
  <2>5. older'.rows = Over(older.rows, page)
    BY <1>1, <1>2, <1>3, <2>2
  <2> QED  BY <2>3, <2>4, <2>5, OverIs
<1>11. DOMAIN older.rows \subseteq Nat
  BY <1>1, <1>5, HistoryIs DEF History, Reported, Reports
<1>12. \A t \in DOMAIN older'.rows : new <= t
  BY <1>5, <1>6, <1>7, <1>9, <1>10, <1>11
<1>13. ASSUME NEW s \in Kept, s < older.from
       PROVE  s \in DOMAIN older'.rows \/ (s < new /\ older'.more)
  <2>1. CASE s \in DOMAIN older.rows \/ s \in P
    BY <1>10, <2>1
  <2>2. CASE s \notin DOMAIN older.rows /\ s \notin P
    <3>1. s < b
      BY <1>6, <1>13, <2>2
    <3>2. s \in Below(b)
      BY <3>1 DEF Below
    <3>3. P # {} /\ \A t \in P : s < t
      BY <1>4, <2>2, <3>2
    <3>4. s < new
      BY <1>9, <3>3
    <3>5. older'.more
      BY <1>1, <1>2, <1>3, <2>2, <3>2 DEF HasMore
    <3> QED  BY <3>4, <3>5
  <2> QED  BY <2>1, <2>2
<1>14. new <= older'.from /\ older'.from \in DOMAIN log'
  BY <1>1, <1>6, <1>9
<1>15. Kept' = Kept
  BY <1>1 DEF Kept
<1> QED  BY <1>1, <1>8, <1>12, <1>13, <1>14, <1>15 DEF OlderShaped

LEMMA OlderShapedStep ==
    ASSUME Typed, OlderShaped, [Next]_vars
    PROVE  OlderShaped'
<1> USE DEF Typed
<1>1. CASE older' = older
  <2>1. CASE older = None
    BY <1>1, <2>1 DEF OlderShaped
  <2>2. CASE older # None
    <3>1. older.from \in DOMAIN log /\ older.from \in DOMAIN log'
      BY <2>2, HubSteps, MovesGrow DEF OlderShaped, HubStep, LogGrows
    <3>2. ASSUME NEW s \in Kept', s < older.from PROVE s \in Kept
      <4>1. s \in Nat /\ older.from \in Nat
        <5>1. log' \in Seq(LogRows) /\ log \in Seq(LogRows)
          BY HubSteps, MovesGrow DEF HubStep, LogGrows, HubTyped
        <5> QED  BY <3>1, <5>1 DEF Kept
      <4> QED  BY <3>1, <3>2, <4>1, KeptNew
    <3> QED  BY <1>1, <2>2, <3>1, <3>2 DEF OlderShaped
  <2> QED  BY <2>1, <2>2
<1>2. CASE older' = None
  BY <1>2 DEF OlderShaped
<1>3. CASE LoadOlder
  <2>1. /\ older' \in Histories /\ log' = log
        /\ older'.phase = "asked" /\ older'.rows = << >>
        /\ older'.from \in DOMAIN shown /\ older'.before = older'.from
    BY <1>3, LoadOlderIs
  <2>2. DOMAIN older'.rows = {}
    BY <2>1, NoRows
  <2>3. older'.from \in DOMAIN log' /\ older'.from \in Nat
    BY <2>1 DEF Screen, HubTyped
  <2>4. older'.before <= older'.from
    BY <2>1, <2>3
  <2> QED  BY <2>1, <2>2, <2>3, <2>4 DEF OlderShaped
<1>4. CASE OlderPage
  BY <1>4, OlderPageShaped
<1> QED  BY <1>1, <1>2, <1>3, <1>4, HistorySteps

\* With no page to come, a row that the history above will load stays above
\* what the window gets: otherwise the row that came in buries it (wide).
LEMMA LoadsOn ==
    ASSUME Typed, Banner, OlderShaped, [Next]_vars, ~Excused, ~wide',
           \A r \in Requests : view[r] \in {None, Applied},
           NEW s \in Kept, ~Has(s), ~InWire(s), Accounted(s)
    PROVE  Accounted(s)'
<1> USE DEF Typed
<1>1. hasMore /\ \A t \in DOMAIN shown \cup pending : s < t
  BY DEF Accounted
<1>2. s \in Nat /\ s \in DOMAIN log
  BY DEF Kept, HubTyped
<1>3. ASSUME hasMore' = hasMore, NEW S \in SUBSET Nat, \A u \in S : s < u,
             DOMAIN shown' \cup pending' \subseteq DOMAIN shown \cup pending \cup S
      PROVE  Accounted(s)'
  BY <1>1, <1>3 DEF Accounted
<1>4. ASSUME hasMore' = hasMore,
             DOMAIN shown' \cup pending' \subseteq DOMAIN shown \cup pending
      PROVE  Accounted(s)'
  BY <1>1, <1>4 DEF Accounted
<1>5. NoPageToCome /\ s \in Missed
  <2>1. status = "idle" \/ view["sync"] = Applied
    <3>1. CASE view["sync"] = None
      <4>1. status \notin {"failed", "reconnecting", "syncing"}
        BY <3>1 DEF Excused, Banner, BannerFollowsSocket
      <4> QED  BY <4>1 DEF Rest
    <3> QED  BY <3>1, Phases
  <2>2. s \in Missed
    BY DEF Missed, InWire
  <2> QED  BY <2>1, <2>2 DEF NoPageToCome
<1>6. ASSUME NEW seq \in Seqs, NEW state \in {"queued", "sent"}, hasMore' = hasMore,
             Ingest([u \in {seq} |-> state])
      PROVE  Accounted(s)'
  <2>1. DOMAIN shown' \cup pending' = DOMAIN shown \cup pending \cup {seq}
    BY <1>6, IngestIs
  <2>2. CASE s = seq
    BY <2>1, <2>2 DEF Accounted, Has
  <2>3. CASE s # seq
    <3>1. PICK row : row = [u \in {seq} |-> state]
      OBVIOUS
    <3>2. DOMAIN row = {seq}
      BY <3>1
    <3>3. ~Buries(row)
      BY <1>5, <1>6, <3>1 DEF Ingest
    <3>4. ~(seq < s)
      BY <1>5, <2>3, <3>2, <3>3 DEF Buries
    <3>5. s < seq /\ {seq} \in SUBSET Nat
      BY <1>2, <2>3, <3>4 DEF Seqs
    <3> QED  BY <1>3, <1>6, <2>1, <3>5
  <2> QED  BY <2>2, <2>3
<1>7. CASE Receive
  <2>1. hasMore' = hasMore
    BY <1>7 DEF Receive
  <2>2. ASSUME NEW m, MarkConsumed(m) PROVE Accounted(s)'
    BY <1>4, <2>1, <2>2, MarkConsumedIs
  <2>3. ASSUME NEW m, RemoveQueued(m) PROVE Accounted(s)'
    <3>1. /\ pending' = pending
          /\ DOMAIN shown' = {t \in DOMAIN shown :
                                log[t].who # m \/ shown[t] # "queued"}
      BY <2>3, RemoveQueuedIs
    <3> QED  BY <1>4, <2>1, <3>1
  <2> QED  BY <1>6, <1>7, <2>1, <2>2, <2>3, ReceiveIs
<1>8. CASE Accepted
  <2>1. /\ post.phase = "answered" /\ Ingest([u \in {post.seq} |-> post.state])
        /\ hasMore' = hasMore
    BY <1>8 DEF Accepted
  <2>2. post.seq \in Seqs /\ post.state \in {"queued", "sent"}
    BY <2>1, Phases DEF Posts
  <2> QED  BY <1>6, <2>1, <2>2
<1>9. CASE Flush
  <2>1. PICK all : all = AllSent(pending)
    OBVIOUS
  <2>2. Merges(all) /\ DOMAIN all = pending /\ pending' = {} /\ hasMore' = hasMore
    BY <1>9, <2>1, AllSentIs, MergeIs DEF Flush
  <2>3. DOMAIN shown' = DOMAIN all \cup DOMAIN shown
    BY <2>2, MergesIs
  <2> QED  BY <1>4, <2>2, <2>3
<1>10. CASE ShowOlder
  <2>1. /\ older.phase = "answered" /\ shown' = Over(shown, older.rows)
        /\ pending' = pending /\ hasMore' = older.more
        /\ wide' = (wide \/ older.from \notin DOMAIN shown)
    BY <1>10 DEF ShowOlder
  <2>h. older \in Histories
    BY <2>1, HistoryIs
  <2>w. older.from \in DOMAIN shown
    BY <2>1
  <2>2. /\ older # None /\ older.rows \in RowMaps /\ older.from \in DOMAIN shown
        /\ older.from \in Nat /\ older.before \in Nat
    BY <2>h, <2>w, HistoryIs DEF Seqs
  <2>3. DOMAIN shown' = DOMAIN shown \cup DOMAIN older.rows
    BY <2>1, <2>2, OverIs DEF Screen
  <2>4. s < older.from
    BY <1>1, <2>2
  <2>5. \/ s \in DOMAIN older.rows
        \/ s < older.before /\ older.more
    BY <2>1, <2>2, <2>4 DEF OlderShaped
  <2>6. CASE s \in DOMAIN older.rows
    BY <2>3, <2>6 DEF Accounted, Has
  <2>7. CASE s < older.before /\ older.more
    <3>1. \A t \in DOMAIN older.rows : t \in Nat /\ older.before <= t
      BY <2>2, RowMapIs DEF OlderShaped, Seqs
    <3>2. \A t \in DOMAIN older.rows : s < t
      BY <1>2, <2>2, <2>7, <3>1
    <3> QED  BY <1>1, <2>1, <2>3, <2>7, <3>2 DEF Accounted
  <2> QED  BY <2>5, <2>6, <2>7
<1>11. ASSUME NEW r \in Requests, Hydrate(r) PROVE FALSE
  BY <1>11, AnswerIs DEF Hydrate
<1>12. CASE UNCHANGED <<shown, pending, hasMore>>
  BY <1>4, <1>12
<1> QED  BY <1>7, <1>8, <1>9, <1>10, <1>11, <1>12, ScreenSteps

\* What covers the window after a step.
GoodNow(v) == \A s \in Kept' : Brings(v, s) \/ Has(s)' \/ InWire(s)'
CoverNow ==
    /\ joined'
    /\ (\A r \in Requests : view'[r] \in {None, Applied}) =>
           \A s \in Kept' : Accounted(s)' \/ InWire(s)'
    /\ \A r \in Requests : view'[r].phase = "answered" =>
           \/ GoodNow(view'[r])
           \/ \E o \in Requests : /\ o # r /\ view'[o].phase = "answered"
                                  /\ GoodNow(view'[o]) /\ Passes(o)'

LEMMA CoverNowIs ==
    ASSUME ~blind' /\ ~wide' /\ ~Excused' => CoverNow
    PROVE  Covered'
BY DEF Covered, CoverNow, GoodNow, Good, Brings

\* It does so after any step that leaves the pages that are to come and the
\* Hub's hold of the socket alone.
LEMMA CoveredStays ==
    ASSUME Typed, Banner, UniqueKept, CancelFollowed, OlderShaped, Covered,
           [Next]_vars, UNCHANGED <<joined, blind>>, Excused => Excused',
           \A r \in Requests : \/ view'[r] = view[r]
                              \/ {view[r], view'[r]} \subseteq {None, Applied}
    PROVE  Covered'
<1> SUFFICES ASSUME ~blind', ~wide', ~Excused'
             PROVE  CoverNow
  BY CoverNowIs
<1>1. ~blind /\ ~wide /\ ~Excused
  BY HistoryKept DEF Typed
<1>2. joined /\ joined'
  BY <1>1 DEF Covered
<1>3. Keeps
  BY <1>2, KeepsStep
<1>4. \A r \in Requests :
          view'[r].phase = "answered" \/ view[r].phase = "answered" =>
              view'[r] = view[r]
  BY Phases
<1>5. ASSUME \A r \in Requests : view'[r] \in {None, Applied}, NEW s \in Kept'
      PROVE  Accounted(s)' \/ InWire(s)'
  <2>1. \A r \in Requests : view[r] \in {None, Applied}
    BY <1>5
  <2>2. CASE ~InWire(s)'
    <3>1. s \in Kept /\ (Has(s) \/ InWire(s) => Has(s)')
      BY <1>3, <2>2 DEF Keeps
    <3>2. Accounted(s) \/ InWire(s)
      BY <1>1, <2>1, <3>1 DEF Covered
    <3>3. CASE Has(s) \/ InWire(s)
      BY <3>1, <3>3 DEF Accounted
    <3>4. CASE ~Has(s) /\ ~InWire(s)
      BY <1>1, <2>1, <3>1, <3>2, <3>4, LoadsOn
    <3> QED  BY <3>3, <3>4
  <2> QED  BY <2>2
<1>6. ASSUME NEW o \in Requests, view[o].phase = "answered", Passes(o)
      PROVE  Passes(o)'
  BY <1>4, <1>6 DEF Passes
<1>7. ASSUME NEW r \in Requests, view'[r].phase = "answered"
      PROVE  \/ GoodNow(view'[r])
             \/ \E o \in Requests : /\ o # r /\ view'[o].phase = "answered"
                                    /\ GoodNow(view'[o]) /\ Passes(o)'
  <2>1. \/ Good(view[r])
        \/ \E o \in Requests : /\ o # r /\ view[o].phase = "answered"
                               /\ Good(view[o]) /\ Passes(o)
    BY <1>1, <1>4, <1>7 DEF Covered
  <2>2. ASSUME NEW q \in Requests, view[q].phase = "answered", Good(view[q])
        PROVE  GoodNow(view'[q])
    BY <1>3, <1>4, <2>2, GoodStays DEF GoodNow
  <2> QED  BY <1>4, <1>6, <1>7, <2>1, <2>2
<1> QED  BY <1>2, <1>5, <1>7 DEF CoverNow

\* A view that has been read is good, and what it does not pass is so with it.
LEMMA AnswerCovered ==
    ASSUME Typed, Shapes, [Next]_vars, NEW r \in Requests, Answer(r)
    PROVE  Covered'
<1> USE DEF Typed
<1> SUFFICES ASSUME ~blind', ~wide', ~Excused'
             PROVE  CoverNow
  BY CoverNowIs
<1>1. /\ UNCHANGED <<log, wire, joined, sock, shown, pending>>
      /\ blind' = (blind \/ (sock = "up" /\ ~joined))
  BY DEF Answer
<1>2. joined'
  BY <1>1 DEF Excused
<1>3. view'[r].phase = "answered" /\ \A q \in Requests : q # r => view'[q] = view[q]
  BY DEF Answer, Views
<1>4. view[r].phase # "answered"
  BY Phases DEF Answer
<1>5. view'[r].rows = Rows(Page(Latest)) /\ view'[r].more = HasMore(Latest)
  BY <1>3, <1>4, AnswersCome
<1>6. PICK v : v = view'[r]
  OBVIOUS
<1>7. /\ DOMAIN v.rows = Page(Latest)
      /\ \A s \in Kept : Brings(v, s)
      /\ \A s \in Kept : \E t \in DOMAIN v.rows : s <= t
  BY <1>5, <1>6, PageBrings
<1>8. Kept' = Kept
  BY <1>1 DEF Kept
<1>9. GoodNow(v)
  BY <1>7, <1>8 DEF GoodNow
<1>10. ASSUME NEW q \in Requests, q # r, view'[q].phase = "answered", ~Passes(r)'
       PROVE  GoodNow(view'[q])
  <2>1. PICK w : w = view[q]
    OBVIOUS
  <2>2. w = view'[q] /\ Shaped(w) /\ w.rows \in RowMaps
    BY <1>3, <1>10, <2>1, AnswerIs DEF Shapes, Views
  <2>3. ~(\E s \in DOMAIN v.rows : \A t \in DOMAIN w.rows : t < s)
    BY <1>6, <1>10, <2>2 DEF Passes
  <2>4. Kept \subseteq Nat /\ DOMAIN v.rows \subseteq Nat /\ DOMAIN w.rows \subseteq Nat
    <3>1. Page(Latest) \subseteq DOMAIN log
      BY PageIs DEF HubTyped
    <3> QED  BY <1>7, <2>2, <3>1, RowMapIs DEF Kept, HubTyped, Seqs
  <2>5. \A s \in Kept : Brings(w, s)
    BY <1>7, <2>2, <2>3, <2>4, NotPassed
  <2> QED  BY <1>8, <2>2, <2>5 DEF GoodNow
<1> QED  BY <1>2, <1>3, <1>6, <1>9, <1>10, Phases DEF CoverNow

\* A view that is shown leaves the window with all it brings, and the other
\* request, if its answer is to come, with a good one.
LEMMA HydrateCovered ==
    ASSUME Typed, Banner, UniqueKept, CancelFollowed, Shapes, Fresh, Covered,
           [Next]_vars, NEW r \in Requests, Hydrate(r)
    PROVE  Covered'
<1> USE DEF Typed
<1> SUFFICES ASSUME ~blind', ~wide', ~Excused'
             PROVE  CoverNow
  BY CoverNowIs
<1>1. PICK v : v = view[r]
  OBVIOUS
<1>2. /\ v.phase = "answered" /\ ShowPage(v.rows) /\ hasMore' = v.more
      /\ blind' = (blind /\ ~v.fresh)
      /\ wide' = (wide \/ LeavesHole(v.rows) \/ Passes(r))
      /\ UNCHANGED <<log, wire, joined, sock>>
  BY <1>1 DEF Hydrate
<1>3. view'[r] \in {None, Applied} /\ \A q \in Requests : q # r => view'[q] = view[q]
  BY DEF Hydrate, Views
<1>4. v \in Answers /\ v.rows \in RowMaps /\ Reported(v.rows) /\ Shaped(v)
      /\ v.fresh \in BOOLEAN
  BY <1>1, <1>2, AnswerIs DEF Views, Shapes
<1>5. ~wide /\ ~LeavesHole(v.rows) /\ ~Passes(r)
  BY <1>2
<1>6. ~Excused
  <2>1. \A q \in Requests : view[q] # Asked
    BY <1>1, <1>2, <1>3, AnswerIs DEF Excused
  <2>2. ~(sock # "up" /\ ~joined)
    BY <1>2 DEF Excused
  <2>3. status \notin {"failed", "reconnecting"}
    BY DEF Hydrate, Excused
  <2> QED  BY <2>1, <2>2, <2>3 DEF Excused
<1>7. /\ joined
      /\ \/ Good(v)
         \/ \E o \in Requests : /\ o # r /\ view[o].phase = "answered"
                                /\ Good(view[o]) /\ Passes(o)
  <2>1. CASE v.fresh
    BY <1>1, <1>2, <2>1 DEF Fresh
  <2>2. CASE ~v.fresh
    <3>1. ~blind
      BY <1>2, <2>2
    <3> QED  BY <1>1, <1>2, <1>5, <1>6, <3>1 DEF Covered
  <2> QED  BY <2>1, <2>2
<1>8. joined' /\ Keeps /\ Kept' = Kept
  BY <1>2, <1>7, KeepsStep DEF Kept
<1>9. DOMAIN shown' \cup pending' = DOMAIN shown \cup pending \cup DOMAIN v.rows
  BY <1>2, <1>4, ShowPageIs
<1>10. Kept \subseteq Nat /\ DOMAIN v.rows \subseteq Nat
  BY <1>4, RowMapIs DEF Kept, HubTyped, Seqs
<1>11. DOMAIN shown \cup pending \subseteq Nat
  BY DEF Screen, AgentRows, HubTyped
<1>12. ASSUME \A q \in Requests : view'[q] \in {None, Applied}, NEW s \in Kept'
       PROVE  Accounted(s)' \/ InWire(s)'
  <2>1. Good(v)
    BY <1>3, <1>7, <1>12, Phases
  <2>2. s \in Kept /\ (Has(s) \/ InWire(s) => Has(s)' \/ InWire(s)')
    BY <1>8 DEF Keeps
  <2>3. CASE Has(s) \/ InWire(s)
    BY <2>2, <2>3 DEF Accounted
  <2>4. CASE s \in DOMAIN v.rows
    BY <1>9, <2>4 DEF Accounted, Has
  <2>5. CASE ~Has(s) /\ ~InWire(s) /\ s \notin DOMAIN v.rows
    <3>1. v.more /\ \A t \in DOMAIN v.rows : s < t
      BY <2>1, <2>2, <2>5 DEF Good, Brings
    <3>2. PICK u \in DOMAIN v.rows : s < u
      BY <1>4, <3>1 DEF Shaped
    <3>3. s \in Missed \ DOMAIN v.rows
      BY <2>2, <2>5 DEF Missed, InWire
    <3>4. ASSUME NEW t \in DOMAIN shown \cup pending PROVE s < t
      <4>1. ~(t < s)
        BY <1>5, <3>2, <3>3 DEF LeavesHole
      <4>2. s # t
        BY <2>5 DEF Has
      <4> QED  BY <1>10, <1>11, <2>2, <4>1, <4>2
    <3> QED  BY <1>2, <1>9, <3>1, <3>4 DEF Accounted
  <2> QED  BY <2>3, <2>4, <2>5
<1>13. ASSUME NEW q \in Requests, view'[q].phase = "answered" PROVE GoodNow(view'[q])
  <2>1. q # r /\ view'[q] = view[q]
    BY <1>3, <1>13, Phases
  <2>2. CASE Good(v)
    <3>1. PICK w : w = view[q]
      OBVIOUS
    <3>2. w.phase = "answered" /\ Shaped(w) /\ w.rows \in RowMaps
      BY <1>13, <2>1, <3>1, AnswerIs DEF Shapes, Views
    <3>3. ~(\E s \in DOMAIN v.rows : \A t \in DOMAIN w.rows : t < s)
      BY <1>1, <1>5, <3>1, <3>2 DEF Passes
    <3>4. DOMAIN w.rows \subseteq Nat
      BY <3>2, RowMapIs DEF Seqs
    <3>5. ASSUME NEW s \in Kept, NEW u \in DOMAIN v.rows, s < u PROVE Brings(w, s)
      <4>1. s <= u
        BY <1>10, <3>5
      <4> QED  BY <1>10, <3>2, <3>3, <3>4, <4>1, NotPassed
    <3>6. ASSUME NEW s \in Kept' PROVE Brings(w, s) \/ Has(s)' \/ InWire(s)'
      <4>1. s \in Kept /\ (Has(s) \/ InWire(s) => Has(s)' \/ InWire(s)')
        BY <1>8 DEF Keeps
      <4>2. CASE Has(s) \/ InWire(s)
        BY <4>1, <4>2
      <4>3. CASE s \in DOMAIN v.rows
        BY <1>9, <4>3 DEF Has
      <4>4. CASE v.more /\ \A t \in DOMAIN v.rows : s < t
        <5>1. PICK u \in DOMAIN v.rows : s < u
          BY <1>4, <4>4 DEF Shaped
        <5> QED  BY <3>5, <4>1, <5>1
      <4> QED  BY <2>2, <4>1, <4>2, <4>3, <4>4 DEF Good, Brings
    <3> QED  BY <2>1, <3>1, <3>6 DEF GoodNow
  <2>3. ASSUME NEW o \in Requests, o # r, Good(view[o]) PROVE GoodNow(view'[q])
    <3>1. o = q
      BY <2>1, <2>3 DEF Requests
    <3> QED  BY <1>8, <2>1, <2>3, <3>1, GoodStays DEF GoodNow
  <2> QED  BY <1>7, <2>2, <2>3
<1> QED  BY <1>8, <1>12, <1>13 DEF CoverNow

\* A connection the Hub could not recover asks for a view, or is known to have
\* missed something.
LEMMA ConnectCovered ==
    ASSUME Typed, Banner, UniqueKept, CancelFollowed, OlderShaped, Covered,
           [Next]_vars, NEW recovered \in BOOLEAN, Connect(recovered)
    PROVE  Covered'
<1> USE DEF Typed
<1> DEFINE views == [q \in Requests |->
                        IF ~recovered /\ view[q].phase = "answered"
                        THEN [view[q] EXCEPT !.fresh = FALSE] ELSE view[q]]
<1>s. sock \in {"never", "down"} /\ sock' = "up"
  BY DEF Connect, Rest
<1>v. view \in [Requests -> ViewStates] /\ "sync" \in Requests
  BY Phases DEF Views
<1>1. \A q \in Requests : view[q] = Asked => views[q] = Asked
  BY Phases
<1>2. ASSUME NEW q \in Requests, view'[q] = Asked PROVE Covered'
  BY <1>2 DEF Covered, Excused
<1>3. CASE sock = "down" /\ view["sync"] = None
  <2>1. view' = [views EXCEPT !["sync"] = Asked]
    BY <1>3, Phases DEF Connect, Reconnected
  <2>2. view'["sync"] = Asked
    BY <1>v, <2>1
  <2> QED  BY <1>2, <1>v, <2>2
<1>4. CASE ~(sock = "down" /\ view["sync"] = None)
  <2>1. view' = views
    BY <1>4 DEF Connect, Reconnected
  <2>2. CASE recovered = TRUE
    <3>1. sock = "down" /\ joined /\ joined' = TRUE /\ wire' = wire
      BY <2>2 DEF Connect
    <3>2. view' = view
      <4>1. \A q \in Requests : views[q] = view[q]
        BY <2>2
      <4>2. view = [q \in Requests |-> view[q]]
        BY <1>v
      <4> QED  BY <2>1, <4>1, <4>2
    <3>3. status' = status
      BY <1>4, <3>1 DEF Connect, Reconnected
    <3>4. blind' = blind
      BY <2>2 DEF Connect, Rest
    <3>5. joined' = joined
      BY <3>1 DEF HubTyped
    <3>6. Excused => Excused'
      BY <3>1, <3>2, <3>3 DEF Excused
    <3> QED  BY <3>2, <3>4, <3>5, <3>6, CoveredStays
  <2>3. CASE recovered = FALSE
    <3>1. blind' = (blind \/ IF sock = "down" THEN view["sync"] \notin {None, Asked}
                             ELSE \A q \in Requests : view[q] # Asked)
      BY <2>3 DEF Connect
    <3>2. CASE sock = "down"
      <4>1. view["sync"] # None
        BY <1>4, <3>2
      <4>2. CASE view["sync"] = Asked
        BY <1>1, <1>2, <1>v, <2>1, <4>2
      <4>3. CASE view["sync"] # Asked
        <5>1. blind'
          BY <3>1, <3>2, <4>1, <4>3
        <5> QED  BY <5>1 DEF Covered
      <4> QED  BY <4>2, <4>3
    <3>3. CASE sock # "down"
      <4>1. CASE \E q \in Requests : view[q] = Asked
        BY <1>1, <1>2, <2>1, <4>1
      <4>2. CASE \A q \in Requests : view[q] # Asked
        <5>1. blind'
          BY <3>1, <3>3, <4>2
        <5> QED  BY <5>1 DEF Covered
      <4> QED  BY <4>1, <4>2
    <3> QED  BY <3>2, <3>3
  <2> QED  BY <2>2, <2>3
<1> QED  BY <1>3, <1>4

\* A page that cannot be read leaves the window with all it needs, or is known
\* not to.
LEMMA PageFailsCovered ==
    ASSUME Typed, Fresh, PageFails
    PROVE  Covered'
<1> USE DEF Typed
<1> SUFFICES ASSUME ~blind', ~wide', ~Excused'
             PROVE  CoverNow
  BY CoverNowIs
<1>1. /\ UNCHANGED <<log, wire, joined, sock, shown, pending, hasMore>>
      /\ ~Uncovered
  BY DEF PageFails
<1>2. /\ view["load"] = Asked /\ view'["load"] = None
      /\ \A r \in Requests : r # "load" => view'[r] = view[r]
  BY Phases DEF PageFails, Views
<1>3. joined' /\ Kept' = Kept
  BY <1>1 DEF Uncovered, Excused, Kept
<1>4. ASSUME NEW s \in Kept' PROVE Accounted(s)' \/ InWire(s)'
  <2>1. Accounted(s) \/ InWire(s)
    BY <1>1, <1>3, <1>4 DEF Uncovered, Missed, Accounted, InWire
  <2> QED  BY <1>1, <2>1 DEF Accounted, Has, InWire
<1>5. ASSUME NEW r \in Requests, view'[r].phase = "answered" PROVE GoodNow(view'[r])
  <2>1. view'[r] = view[r]
    BY <1>2, <1>5, Phases
  <2>2. Good(view[r])
    BY <1>1, <1>5, <2>1 DEF Uncovered, Fresh
  <2> QED  BY <1>1, <1>3, <2>1, <2>2 DEF GoodNow, Good, Has, InWire
<1> QED  BY <1>3, <1>4, <1>5 DEF CoverNow

\* Which steps are about the connection and its views.
LEMMA QuietSteps ==
    ASSUME [Next]_vars
    PROVE  \/ UNCHANGED <<joined, sock, view, status, blind>>
           \/ \E r \in Requests : Answer(r) \/ Hydrate(r)
           \/ \E recovered \in BOOLEAN : Connect(recovered)
           \/ Join \/ PageFails \/ RecoveryEnds \/ RecoveryFails
           \/ Refresh \/ Disconnect \/ ConnectFails
<1> DEFINE Quiet == UNCHANGED <<joined, sock, view, status, blind>>
<1>1. CASE UNCHANGED vars
  BY <1>1 DEF vars
<1>2. CASE AgentWrites \/ HandlePost
  BY <1>2 DEF AgentWrites, HandlePost
<1>3. ASSUME NEW m \in Messages, HandleLate(m) \/ Consume(m) \/ Cancel(m) PROVE Quiet
  BY <1>3 DEF HandleLate, Consume, Cancel, Change
<1>4. CASE Flush \/ Scroll \/ LoadOlder
  BY <1>4 DEF Flush, Scroll, LoadOlder
<1>5. ASSUME NEW m \in Messages, Send(m) \/ Retry(m) PROVE Quiet
  BY <1>5 DEF Send, Retry, Attempt
<1>6. CASE Receive \/ Accepted \/ Rejected \/ OlderPage \/ ShowOlder \/ OlderFails
            \/ LoadFails
  BY <1>6 DEF Receive, Accepted, Rejected, OlderPage, ShowOlder, OlderFails,
              LoadFails
<1> QED  BY <1>1, <1>2, <1>3, <1>4, <1>5, <1>6 DEF Next, Hub, User, Network

Caught ==
    CancelFollowed /\ Shapes /\ Fresh /\ OlderShaped /\ Covered

LEMMA CoveredStep ==
    ASSUME Typed, Banner, UniqueKept, Caught, [Next]_vars
    PROVE  Covered'
<1> USE DEF Caught
<1>1. CASE UNCHANGED <<joined, sock, view, status, blind>>
  <2>1. Excused => Excused'
    BY <1>1 DEF Excused
  <2> QED  BY <1>1, <2>1, CoveredStays
<1>2. ASSUME NEW r \in Requests, Answer(r) \/ Hydrate(r) PROVE Covered'
  BY <1>2, AnswerCovered, HydrateCovered
<1>3. ASSUME NEW recovered \in BOOLEAN, Connect(recovered) PROVE Covered'
  BY <1>3, ConnectCovered
<1>4. CASE Join
  <2>1. Covered' \/ (~blind /\ ~wide /\ ~Excused')
    BY <1>4 DEF Join, Covered
  <2>2. sock = "up" /\ ~joined /\ UNCHANGED <<sock, view, status>>
    BY <1>4 DEF Join
  <2>3. ~Excused' => ~Excused
    BY <2>2 DEF Excused
  <2>4. ~(~blind /\ ~wide /\ ~Excused)
    BY <2>2 DEF Covered
  <2> QED  BY <2>1, <2>3, <2>4
<1>5. CASE RecoveryFails \/ ConnectFails
  <2>1. Excused'
    BY <1>5 DEF RecoveryFails, ConnectFails, Excused
  <2> QED  BY <2>1 DEF Covered
<1>6. CASE Refresh
  <2>1. view'["sync"] = Asked
    BY <1>6, Phases DEF Refresh, Typed, Views
  <2>2. Excused'
    BY <2>1, Phases DEF Excused
  <2> QED  BY <2>2 DEF Covered
<1>7. CASE Disconnect
  <2>1. /\ sock = "up" /\ UNCHANGED <<view, joined, blind>>
        /\ status' = IF status = "idle" THEN "reconnecting" ELSE status
    BY <1>7 DEF Disconnect
  <2>2. Excused => Excused'
    BY <2>1 DEF Excused
  <2> QED  BY <2>1, <2>2, CoveredStays
<1>8. CASE PageFails
  BY <1>8, PageFailsCovered
<1>9. CASE RecoveryEnds
  <2>1. /\ view["sync"] = Applied /\ view'["sync"] = None
        /\ \A r \in Requests : r # "sync" => view'[r] = view[r]
        /\ UNCHANGED <<sock, joined, blind>>
    BY <1>9, Phases DEF RecoveryEnds, Typed, Views
  <2>2. status = "syncing"
    BY <2>1, Phases DEF Banner, BannerFollowsSocket
  <2>3. Excused => Excused'
    BY <2>1, <2>2, Phases DEF Excused
  <2> QED  BY <2>1, <2>3, CoveredStays
<1> QED
  BY <1>1, <1>2, <1>3, <1>4, <1>5, <1>6, <1>7, <1>8, <1>9, QuietSteps

LEMMA CaughtStep ==
    ASSUME Typed, Banner, Told, Caught, [Next]_vars
    PROVE  Caught'
<1>1. HubStep
  BY HubSteps DEF HubStep, Typed
<1>2. CancelFollowed'
  BY <1>1, CancelFollowedStep DEF Typed, Told, Caught
<1>3. Shapes' /\ Fresh' /\ OlderShaped' /\ Covered'
  BY ShapesStep, FreshStep, OlderShapedStep, CoveredStep DEF Told, Caught
<1> QED  BY <1>2, <1>3 DEF Caught

LEMMA InitCaught == Init => Caught
<1> SUFFICES ASSUME Init PROVE Caught
  OBVIOUS
<1>1. /\ wire = << >> /\ older = None
      /\ view = [r \in Requests |-> IF r = "load" THEN Asked ELSE None]
  BY DEF Init
<1>2. DOMAIN wire = {}
  BY <1>1
<1>3. view["load"] = Asked /\ \A r \in Requests : view[r].phase # "answered"
  BY <1>1, Phases
<1>4. Excused
  BY <1>3, Phases DEF Excused
<1> QED
  BY <1>1, <1>2, <1>3, <1>4
     DEF Caught, CancelFollowed, Shapes, Fresh, OlderShaped, Covered

LEMMA CaughtUpHolds ==
    ASSUME Covered
    PROVE  CaughtUp
<1> SUFFICES ASSUME Settled, ~blind, ~wide, NEW s \in Kept
             PROVE  Accounted(s)
  BY DEF CaughtUp, Complete
<1>1. ~Excused
  BY Phases DEF Settled, Excused
<1>2. DOMAIN wire = {} /\ \A r \in Requests : view[r] = None
  BY DEF Settled
<1> QED  BY <1>1, <1>2 DEF Covered, InWire

-----------------------------------------------------------------------------
(* The theorems *)

\* Every variable keeps its type, whatever rows, events, pages and retries come
\* in whichever order; in particular only the agent's rows ever wait behind the
\* new-messages button, and only rows the Hub has stored are shown.
THEOREM TypeCorrect == Spec => []TypeOK
<1> DEFINE Inv == Typed /\ Banner
<1>1. Init => Inv
  BY InitTyped, InitBanner
<1>2. Inv /\ [Next]_vars => Inv'
  BY TypedStep, BannerStep
<1>3. Inv => TypeOK
  BY TypedIsTypeOK
<1> HIDE DEF Inv
<1> QED  BY <1>1, <1>2, <1>3, PTL DEF Spec

\* Whichever recoveries, views and reconnects overlap, the banner is quiet only
\* while the connection is up or was never there, says reconnecting only while
\* it is down, and says syncing exactly while a recovery runs
\* (RealtimeRecoveryRuntime).
THEOREM BannerIsTrue == Spec => []BannerFollowsSocket
<1>1. Banner => BannerFollowsSocket
  BY DEF Banner
<1> QED  BY <1>1, InitBanner, BannerStep, PTL DEF Spec

\* No message is left shown as being sent when its request is over, whatever
\* events, pages, retries and late rows came in between: the accepted row takes
\* the place of the optimistic message, a rejected one is marked failed
\* (useSendMessage).
THEOREM SendsAreOver == Spec => []SendsEnd
<1>1. Sending => SendsEnd
  BY DEF Sending
<1> QED  BY <1>1, InitSending, SendingStep, PTL DEF Spec

\* A settled window shows a message as waiting exactly while the Hub has it in
\* the queue, for any log, any page size and any number of broken sockets,
\* unless a change was lost with a socket or an answer told an older state:
\* what is told of a message comes in order, so that no row told as waiting is
\* applied after the news of its consumption (applyMessagesConsumed,
\* applyQueuedMessagesCanceled).
THEOREM QueueIsShown == Spec => []QueueIsCurrent
<1> DEFINE Inv == Typed /\ Banner /\ Told
<1>1. Init => Inv
  BY InitTyped, InitBanner, InitTold
<1>2. Inv /\ [Next]_vars => Inv'
  BY TypedStep, BannerStep, ToldStep
<1>3. Inv => QueueIsCurrent
  BY QueueIsCurrentHolds
<1> HIDE DEF Inv
<1> QED  BY <1>1, <1>2, <1>3, PTL DEF Spec

\* However often a message is retried, and whatever the Hub did with a request
\* the client had given up, it is not on the screen twice: a row takes the
\* place of its optimistic message, and the Hub keeps one row of a localId
\* (insertMessage, mergeMessages).
THEOREM ShownAtMostOnce == Spec => []ShownOnce
<1> DEFINE Inv == Typed /\ Banner /\ Told /\ (~doubled => NoTwin)
<1>1. Init => Inv
  <2>1. Init => NoTwin
    BY DEF Init, NoTwin
  <2> QED  BY <2>1, InitTyped, InitBanner, InitTold
<1>2. Inv /\ [Next]_vars => Inv'
  BY TypedStep, BannerStep, ToldStep, NoTwinStep
<1>3. Inv => ShownOnce
  BY ShownOnceHolds
<1> HIDE DEF Inv
<1> QED  BY <1>1, <1>2, <1>3, PTL DEF Spec

\* A settled window has every row the Hub keeps, on the screen, behind the
\* new-messages button or in the history that can still be loaded, whatever
\* sockets broke, views overlapped and messages were canceled and sent again,
\* unless a page left a hole, or the page that was to cover the socket's
\* absence was read before the socket was subscribed or could not be read:
\* also when the first load fails, when a socket returns while a recovery
\* runs, and when that recovery outlives its view (startRecovery,
\* hydrateLatestMessagesFromSessionView, applyIncomingMessages).
THEOREM WindowCatchesUp == Spec => []CaughtUp
<1> DEFINE Inv == Typed /\ Banner /\ Told /\ Caught
<1>1. Init => Inv
  BY InitTyped, InitBanner, InitTold, InitCaught
<1>2. Inv /\ [Next]_vars => Inv'
  BY TypedStep, BannerStep, ToldStep, CaughtStep
<1>3. Inv => CaughtUp
  BY CaughtUpHolds DEF Caught
<1> HIDE DEF Inv
<1> QED  BY <1>1, <1>2, <1>3, PTL DEF Spec
=============================================================================
