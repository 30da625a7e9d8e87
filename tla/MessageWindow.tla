---------------------------- MODULE MessageWindow ----------------------------
(***************************************************************************)
(* One session's message window in the web client: what the client shows   *)
(* of the rows the Hub stores, from the three sources it has for them --   *)
(* realtime events, pages read over HTTP, and the answers to its own POSTs *)
(* -- while the socket breaks, recoveries run and messages are retried.    *)
(* A row's seq is its index in log; its body is left out, what remains is  *)
(* who wrote it and whether it still waits in the runtime's queue.         *)
(*                                                                         *)
(* Left out: the stream and the pending reply, warm snapshots, refreshes   *)
(* that read the view outside a recovery, the second try of a failed load  *)
(* (it reads what its page reads), and the trimming of the window at 400   *)
(* shown and 200 pending rows.                                             *)
(***************************************************************************)
EXTENDS Naturals, Sequences, FiniteSets

CONSTANTS
    Messages,   \* what the user writes, each with a localId of its own
    MaxRows,    \* how many rows the session gets
    PageSize,   \* SESSION_TIMELINE_PAGE_SIZE
    MaxEvents   \* how many broken sockets, rejected sends, refreshes, failed
                \* loads and failed recoveries there are in all

ASSUME SizesAssumption ==
    /\ MaxRows \in Nat \ {0} /\ PageSize \in Nat \ {0} /\ MaxEvents \in Nat
    /\ "agent" \notin Messages

VARIABLES
    log,        \* the Hub's rows: [who, state]
    late,       \* messages whose abandoned POST the Hub may still handle
    wire,       \* sync events for the client's socket, kept while it is down
    joined,     \* the Hub has the socket in the session's room
    sock,       \* the client's socket: "never", "down", "up"
    view,       \* the session-view requests, by who deduplicates them
    post,       \* the send mutation
    older,      \* fetchOlderMessagesUntilPreviousUser
    shown,      \* state.messages: the rows, each as "queued" or "sent"
    pending,    \* state.pending
    bubble,     \* state.messages: the optimistic message of each localId
    atBottom, hasMore,
    unread,     \* no page was shown yet, nor asked for in the load's place
    status,     \* RealtimeRecoveryRuntime's state
    events,
    blind,      \* history: the page meant to cover the socket's absence was
                \* read before the socket was subscribed, or not at all
    wide,       \* history: rows came in with a hole to those before, an
                \* older view is to be applied after a newer one, or
                \* history was read below a row no longer shown
    stale,      \* history: an answer or a lost event told an old state
    doubled     \* history: older history held a row still shown as a bubble

hubVars == <<log, late, wire, joined>>
windowVars == <<shown, pending, bubble, hasMore, unread>>
historyVars == <<blind, wide, stale, doubled>>
vars == <<hubVars, sock, view, post, older, windowVars, atBottom, status,
          events, historyVars>>

None == [phase |-> "none"]
Asked == [phase |-> "asked"]
Applied == [phase |-> "applied"]
Seqs == 1..MaxRows

\* The first load, with the page that stands in for it, and the recovery.
Requests == {"load", "sync"}
RowMaps == UNION {[S -> {"queued", "sent"}] : S \in SUBSET Seqs}
NoBubble == [status |-> "none", queued |-> FALSE]

Events == [type : {"received"}, seq : Seqs, state : {"queued", "sent"}]
            \cup [type : {"consumed", "canceled"}, who : Messages]

TypeOK ==
    /\ log \in Seq([who : Messages \cup {"agent"},
                    state : {"queued", "sent", "gone"}])
    /\ Len(log) <= MaxRows
    /\ late \subseteq Messages
    /\ wire \in Seq(Events)
    /\ {joined, atBottom, hasMore, unread} \subseteq BOOLEAN
    /\ {blind, wide, stale, doubled} \subseteq BOOLEAN
    /\ sock \in {"never", "down", "up"}
    /\ view \in [Requests ->
                  {None, Asked, Applied}
                      \cup [phase : {"answered"}, rows : RowMaps,
                            more : BOOLEAN, fresh : BOOLEAN]]
    /\ post \in {None} \cup [phase : {"asked"}, who : Messages]
                  \cup [phase : {"answered"}, who : Messages, seq : Seqs,
                        state : {"queued", "sent"}]
    /\ older \in {None} \cup [phase : {"asked", "answered"}, rows : RowMaps,
                              from : Seqs, before : Seqs, more : BOOLEAN]
    /\ shown \in RowMaps
    /\ pending \subseteq {s \in DOMAIN log : log[s].who = "agent"}
    /\ bubble \in [Messages ->
                    [status : {"none", "sending", "queued", "failed", "sent"},
                     queued : BOOLEAN]]
    /\ status \in {"idle", "reconnecting", "syncing", "failed"}
    /\ events \in 0..MaxEvents

\* The session is opened: its view is asked for, its socket connects.
Init ==
    /\ log = <<>> /\ late = {} /\ wire = <<>> /\ joined = FALSE
    /\ sock = "never"
    /\ view = [r \in Requests |-> IF r = "load" THEN Asked ELSE None]
    /\ post = None /\ older = None
    /\ shown = <<>> /\ pending = {}
    /\ bubble = [m \in Messages |-> NoBubble]
    /\ atBottom = TRUE /\ hasMore = FALSE /\ unread = TRUE
    /\ status = "idle"
    /\ events = MaxEvents
    /\ blind = FALSE /\ wide = FALSE /\ stale = FALSE /\ doubled = FALSE

----------------------------------------------------------------------------
\* The Hub.

Kept == {s \in DOMAIN log : log[s].state # "gone"}
RowsOf(m) == {s \in Kept : log[s].who = m}
ToldOf(m, type) == \E i \in DOMAIN wire :
                      wire[i].type = type /\ wire[i].who = m
Changed(m) == \E type \in {"consumed", "canceled"} : ToldOf(m, type)

\* broadcast: to the sockets in the room, and to those the server may still
\* recover; nobody else hears of it.
Publish(event) == wire' = IF joined THEN Append(wire, event) ELSE wire

PublishChange(m, type) ==
    /\ Publish([type |-> type, who |-> m])
    /\ stale' = (stale \/ ~joined)

Stored(seq, row) == [type |-> "received", seq |-> seq, state |-> row.state]

AgentWrites ==
    /\ Len(log) < MaxRows
    /\ LET row == [who |-> "agent", state |-> "sent"]
       IN  /\ log' = Append(log, row)
           /\ Publish(Stored(Len(log) + 1, row))
    /\ UNCHANGED <<late, joined, sock, view, post, older, windowVars, atBottom,
                   status, events, historyVars>>

\* Mutant of Known: every POST is a new row.
KnownNever(m) == {}

\* insertMessage: a localId the session has is not stored again.
Known(m) == RowsOf(m)

\* appendMessage: stores the row unless it is there, and publishes it.
Store(m, seq) ==
    \/ /\ seq \in Known(m)
       /\ Publish(Stored(seq, log[seq]))
       /\ UNCHANGED log
    \/ /\ Known(m) = {} /\ seq = Len(log) + 1 /\ seq <= MaxRows
       /\ \E state \in {"queued", "sent"} :
            LET row == [who |-> m, state |-> state]
            IN  log' = Append(log, row) /\ Publish(Stored(seq, row))

HandlePost ==
    /\ post.phase = "asked"
    /\ \E seq \in Seqs :
         /\ Store(post.who, seq)
         /\ post' = [phase |-> "answered", who |-> post.who,
                     seq |-> seq, state |-> log'[seq].state]
    /\ UNCHANGED <<late, joined, sock, view, older, windowVars, atBottom, status,
                   events, historyVars>>

\* The Hub works on a POST whose client has given up.
HandleLate(m) ==
    /\ m \in late
    /\ late' = late \ {m}
    /\ \E seq \in Seqs : Store(m, seq)
    /\ UNCHANGED <<joined, sock, view, post, older, windowVars, atBottom, status,
                   events, historyVars>>

\* markMessagesInvoked, cancelQueuedMessages.
Change(m, state, type) ==
    /\ \E s \in RowsOf(m) :
         /\ log[s].state = "queued"
         /\ log' = [log EXCEPT ![s].state = state]
    /\ PublishChange(m, type)
    /\ UNCHANGED <<late, joined, sock, view, post, older, windowVars, atBottom,
                   status, events, blind, wide, doubled>>

Consume(m) == Change(m, "sent", "consumed")
Cancel(m) == Change(m, "gone", "canceled")

\* getMessagesPage: the newest rows before a seq.
Below(before) == {s \in Kept : s < before}
Page(before) ==
    {s \in Below(before) :
        Cardinality({t \in Below(before) : t > s}) < PageSize}
Rows(S) == [s \in S |-> log[s].state]
HasMore(before) == Below(before) # Page(before)

Lowest(S) == CHOOSE s \in S : \A t \in S : s <= t

Latest == Len(log) + 1

Answer(r) ==
    /\ view[r] = Asked
    /\ view' = [view EXCEPT ![r] =
                  [phase |-> "answered", rows |-> Rows(Page(Latest)),
                   more |-> HasMore(Latest), fresh |-> joined]]
    /\ blind' = (blind \/ (sock = "up" /\ ~joined))
    /\ UNCHANGED <<hubVars, sock, post, older, windowVars, atBottom, status,
                   events, wide, stale, doubled>>

----------------------------------------------------------------------------
\* The window's reducers.

Written(rows) == {log[s].who : s \in DOMAIN rows}

\* One map of rows laid over another: where both have a row, the first wins.
Over(f, g) == [s \in DOMAIN f \cup DOMAIN g |->
                  IF s \in DOMAIN f THEN f[s] ELSE g[s]]

\* mergeMessages: rows that come in take the place of their optimistic
\* messages; one marked sent also goes when a user's row is close in time.
DropBubbles(incoming, merged) ==
    \E near \in SUBSET {m \in Messages : bubble[m].status = "sent"} :
        /\ near # {} => Written(merged) \cap Messages # {}
        /\ bubble' = [m \in Messages |->
                        IF m \in near \cup Written(incoming)
                        THEN NoBubble ELSE bubble[m]]

\* Mutant of Merge: the stored row is put beside its optimistic message.
MergeBeside(incoming) == shown' = Over(incoming, shown) /\ UNCHANGED bubble

\* mergeMessages into state.messages: what comes in wins.
Merge(incoming) ==
    IF incoming = <<>> THEN UNCHANGED <<shown, bubble>>
    ELSE /\ shown' = Over(incoming, shown)
         /\ DropBubbles(incoming, shown')

\* The answer of a request is older than an event the client has had.
IsStale(rows) ==
    \E s \in DOMAIN rows :
        /\ rows[s] = "queued" /\ log[s].state # "queued"
        /\ ~ToldOf(log[s].who,
                   IF log[s].state = "gone" THEN "canceled" ELSE "consumed")

By(rows, who) == [s \in {t \in DOMAIN rows : log[t].who \in who} |-> rows[s]]
AllSent(S) == [s \in S |-> "sent"]

\* Mutant of ShowPage: away from the bottom the user's rows wait, too.
ShowPageBelow(rows) ==
    IF atBottom
    THEN Merge(Over(rows, AllSent(pending))) /\ pending' = {}
    ELSE /\ UNCHANGED <<shown, bubble>>
         /\ pending' = (pending \cup DOMAIN rows) \ DOMAIN shown

\* applyLatestMessagesPage: away from the bottom the agent's rows wait.
ShowPage(rows) ==
    IF atBottom
    THEN Merge(Over(rows, AllSent(pending))) /\ pending' = {}
    ELSE LET others == DOMAIN By(rows, {"agent"})
         IN  /\ Merge(By(rows, Messages))
             /\ pending' = IF others = {} THEN pending
                           ELSE (pending \cup others) \ DOMAIN shown'

Has(s) == s \in DOMAIN shown \cup pending

Accounted(s) ==
    Has(s) \/ (hasMore /\ \A t \in DOMAIN shown \cup pending : s < t)

\* A row the window missed, and that no event will bring, lies between the
\* rows it has and ones that come in, or above ones that come in.
Missed == {s \in Kept : ~Has(s) /\ \A i \in DOMAIN wire :
                            wire[i].type # "received" \/ wire[i].seq # s}
LeavesHole(rows) ==
    \E s \in Missed \ DOMAIN rows, t \in DOMAIN shown \cup pending :
        t < s /\ \E u \in DOMAIN rows : s < u
Buries(rows) == \E s \in Missed \ DOMAIN rows, u \in DOMAIN rows : u < s
NoPageToCome ==
    /\ status = "idle" \/ view["sync"] = Applied
    /\ \A r \in Requests : view[r] \in {None, Applied}

\* applyIncomingMessages
Ingest(rows) ==
    /\ Merge(rows)
    /\ pending' = pending \ DOMAIN shown'
    /\ wide' = (wide \/ (NoPageToCome /\ (LeavesHole(rows) \/ Buries(rows))))

\* A newer view is applied before an older one.
Passes(r) ==
    \E other \in Requests : view[other].phase = "answered" /\
        \E s \in DOMAIN view[r].rows : \A t \in DOMAIN view[other].rows : t < s

\* applyMessagesConsumed
MarkConsumed(m) ==
    /\ shown' = [s \in DOMAIN shown |->
                    IF log[s].who = m THEN "sent" ELSE shown[s]]
    /\ bubble' = IF bubble[m] = NoBubble THEN bubble
                 ELSE [bubble EXCEPT ![m] = [status |-> "sent", queued |-> FALSE]]
    /\ UNCHANGED pending

\* Mutant of RemoveQueued: a canceled message stays in the list.
KeepQueued(m) == UNCHANGED <<shown, bubble, pending>>

\* applyQueuedMessagesCanceled
RemoveQueued(m) ==
    /\ shown' = [s \in {t \in DOMAIN shown :
                           log[t].who # m \/ shown[t] # "queued"} |-> shown[s]]
    /\ bubble' = IF bubble[m].queued /\ bubble[m].status # "failed"
                 THEN [bubble EXCEPT ![m] = NoBubble] ELSE bubble
    /\ UNCHANGED pending

\* handleEvent
Receive ==
    /\ sock = "up" /\ wire # <<>>
    /\ LET event == Head(wire)
       IN  \/ event.type = "received" /\ Ingest([s \in {event.seq} |-> event.state])
           \/ event.type = "consumed" /\ MarkConsumed(event.who) /\ UNCHANGED wide
           \/ event.type = "canceled" /\ RemoveQueued(event.who) /\ UNCHANGED wide
    /\ wire' = Tail(wire)
    /\ UNCHANGED <<log, late, joined, sock, view, post, older, atBottom, hasMore,
                   status, events, unread, blind, stale, doubled>>

\* Mutant of Flush: the rows are taken from the list and not shown.
FlushAway ==
    /\ pending # {}
    /\ pending' = {}
    /\ UNCHANGED <<hubVars, sock, view, post, older, shown, bubble, atBottom,
                   hasMore, unread, status, events, historyVars>>

\* flushPendingMessages
Flush ==
    /\ pending # {}
    /\ Merge(AllSent(pending))
    /\ pending' = {}
    /\ UNCHANGED <<hubVars, sock, view, post, older, atBottom, hasMore, unread,
                   status, events, historyVars>>

\* setAtBottom
Scroll ==
    /\ atBottom' = ~atBottom
    /\ UNCHANGED <<hubVars, sock, view, post, older, windowVars, status, events,
                   historyVars>>

----------------------------------------------------------------------------
\* useSendMessage: one send at a time.

Attempt(m) ==
    /\ post = None
    /\ post' = [phase |-> "asked", who |-> m]
    /\ UNCHANGED <<hubVars, sock, view, older, shown, pending, hasMore, unread,
                   atBottom, status, events, historyVars>>

Send(m) ==
    /\ bubble[m] = NoBubble /\ m \notin late
    /\ \A s \in DOMAIN log : log[s].who # m
    /\ Attempt(m)
    /\ \E queued \in BOOLEAN :
         bubble' = [bubble EXCEPT ![m] =
                      [status |-> IF queued THEN "queued" ELSE "sending",
                       queued |-> queued]]

Retry(m) ==
    /\ bubble[m].status = "failed"
    /\ Attempt(m)
    /\ \E asked \in {"queued", "sending"} :
         bubble' = [bubble EXCEPT ![m].status = asked]

\* onSuccess, applyAcceptedUserMessage: the row is put in the window, over
\* what markMessagesConsumed makes of its bubble.
Accepted ==
    /\ post.phase = "answered"
    /\ LET row == [s \in {post.seq} |-> post.state]
       IN  Ingest(row) /\ stale' = (stale \/ IsStale(row))
    /\ post' = None
    /\ UNCHANGED <<hubVars, sock, view, older, atBottom, hasMore, status, events,
                   unread, blind, doubled>>

\* onError: the request never arrived, its answer was lost, or the Hub is
\* still at it.
Rejected ==
    /\ post # None /\ events > 0
    /\ bubble' = IF bubble[post.who] = NoBubble THEN bubble
                 ELSE [bubble EXCEPT ![post.who].status = "failed"]
    /\ late' \in IF post.phase = "asked" THEN {late, late \cup {post.who}} ELSE {late}
    /\ post' = None
    /\ events' = events - 1
    /\ UNCHANGED <<log, wire, joined, sock, view, older, shown, pending, hasMore,
                   unread, atBottom, status, historyVars>>

----------------------------------------------------------------------------
\* Pages: history, and the views of the first load and of recoveries.

LoadOlder ==
    /\ older = None /\ hasMore /\ DOMAIN shown # {}
    /\ LET lowest == Lowest(DOMAIN shown)
       IN  older' = [phase |-> "asked", rows |-> <<>>, from |-> lowest,
                     before |-> lowest, more |-> TRUE]
    /\ UNCHANGED <<hubVars, sock, view, post, windowVars, atBottom, status, events,
                   historyVars>>

\* loadOlderMessagesUntilPreviousUser: page by page to a user's message.
OlderPage ==
    /\ older.phase = "asked"
    /\ LET page == Page(older.before)
           last == page = {} \/ ~HasMore(older.before)
                     \/ \E s \in page : log[s].who \in Messages
       IN  older' = [phase |-> IF last THEN "answered" ELSE "asked",
                     rows |-> Over(older.rows, Rows(page)), from |-> older.from,
                     before |-> IF page = {} THEN older.before ELSE Lowest(page),
                     more |-> HasMore(older.before)]
    /\ UNCHANGED <<hubVars, sock, view, post, windowVars, atBottom, status, events,
                   historyVars>>

\* applyOlderMessagesUntilPreviousUserPage: the window's own rows win.
ShowOlder ==
    /\ older.phase = "answered"
    /\ shown' = Over(shown, older.rows)
    /\ IF older.rows = <<>> THEN UNCHANGED bubble ELSE DropBubbles(shown, shown')
    /\ hasMore' = older.more
    /\ stale' = (stale \/ IsStale(older.rows))
    /\ doubled' = (doubled \/ \E m \in Messages \cap Written(older.rows) :
                                bubble[m] # NoBubble)
    /\ wide' = (wide \/ older.from \notin DOMAIN shown)
    /\ older' = None
    /\ UNCHANGED <<hubVars, sock, view, post, pending, atBottom, status, events,
                   unread, blind>>

OlderFails ==
    /\ older # None
    /\ older' = None
    /\ UNCHANGED <<hubVars, sock, view, post, windowVars, atBottom, status, events,
                   historyVars>>

\* hydrateLatestMessagesFromSessionView, for the load and the recovery;
\* fetchLatestMessages for the page.
Hydrate(r) ==
    /\ view[r].phase = "answered"
    /\ ShowPage(view[r].rows)
    /\ hasMore' = view[r].more
    /\ view' = [view EXCEPT ![r] = IF r = "sync" THEN Applied ELSE None]
    /\ unread' = FALSE
    /\ blind' = (blind /\ ~view[r].fresh)
    /\ wide' = (wide \/ LeavesHole(view[r].rows) \/ Passes(r))
    /\ stale' = (stale \/ IsStale(view[r].rows))
    /\ UNCHANGED <<hubVars, sock, post, older, atBottom, status, events, doubled>>

\* The window's rows end before those the Hub keeps, and no page that was
\* read since the socket is in the room will bring the rest.
Uncovered ==
    \/ sock = "up" /\ ~joined
    \/ \E s \in Missed : ~Accounted(s)
    \/ \E r \in Requests : view[r].phase = "answered" /\ ~view[r].fresh

\* loadSessionViewRuntime rejects, and the window that waited for it asks
\* for the latest page itself, unless a recovery's view came first.
LoadFails ==
    /\ view["load"] = Asked /\ unread /\ events > 0
    /\ unread' = FALSE
    /\ events' = events - 1
    /\ UNCHANGED <<hubVars, sock, view, post, older, shown, pending, bubble,
                   hasMore, atBottom, status, historyVars>>

\* Nothing is asked for in the place of that page, or of a load that fails
\* once a recovery's view is shown: applyLatestMessagesError.
PageFails ==
    /\ view["load"] = Asked /\ ~unread
    /\ view' = [view EXCEPT !["load"] = None]
    /\ blind' = (blind \/ Uncovered)
    /\ UNCHANGED <<hubVars, sock, post, older, windowVars, atBottom, status,
                   events, wide, stale, doubled>>

\* Mutant of Synced: a finished recovery is always idle.
SyncedIdle == "idle"

\* The recovery's end, with the socket as it is then.
Synced == IF sock = "down" THEN "reconnecting" ELSE "idle"

\* Its view was applied, and the other queries it invalidated have settled.
RecoveryEnds ==
    /\ view["sync"] = Applied
    /\ view' = [view EXCEPT !["sync"] = None]
    /\ status' = Synced
    /\ UNCHANGED <<hubVars, sock, post, older, windowVars, atBottom, events,
                   historyVars>>

\* Its view cannot be read; the other queries never reject.
RecoveryFails ==
    /\ view["sync"] \notin {None, Applied} /\ events > 0
    /\ view' = [view EXCEPT !["sync"] = None]
    /\ status' = "failed"
    /\ events' = events - 1
    /\ UNCHANGED <<hubVars, sock, post, older, windowVars, atBottom, historyVars>>

\* A foreground pulse, a restored page or the banner's retry.
Refresh ==
    /\ view["sync"] = None /\ events > 0
    /\ view' = [view EXCEPT !["sync"] = Asked]
    /\ status' = "syncing"
    /\ events' = events - 1
    /\ UNCHANGED <<hubVars, sock, post, older, windowVars, atBottom, historyVars>>

----------------------------------------------------------------------------
\* The socket.

\* Mutant of Reconnected: the second connection is taken as the first.
ReconnectedQuietly(views) == view' = views /\ status' = "idle"

\* handleSocketConnect after the first, startRecovery: ask for the view,
\* whatever the server kept; a recovery that runs is joined.
Reconnected(views) ==
    IF view["sync"] # None THEN view' = views /\ UNCHANGED status
    ELSE view' = [views EXCEPT !["sync"] = Asked] /\ status' = "syncing"

Connect(recovered) ==
    /\ sock # "up"
    /\ recovered => sock = "down" /\ joined
    /\ sock' = "up"
    /\ joined' = recovered
    /\ wire' = IF recovered THEN wire ELSE <<>>
    /\ stale' = (stale \/ (~recovered /\ \E m \in Messages : Changed(m)))
    /\ LET views == [r \in Requests |->
                        IF ~recovered /\ view[r].phase = "answered"
                        THEN [view[r] EXCEPT !.fresh = FALSE] ELSE view[r]]
       IN  IF sock = "down" THEN Reconnected(views)
           ELSE /\ view' = views
                /\ status' = IF view["sync"] = None THEN "idle" ELSE status
    /\ blind' = (blind \/ (~recovered /\
                    IF sock = "down" THEN view["sync"] \notin {None, Asked}
                    ELSE \A r \in Requests : view[r] # Asked))
    /\ UNCHANGED <<log, late, post, older, windowVars, atBottom, events, wide,
                   doubled>>

\* web:subscribe reaches the Hub.
Join ==
    /\ sock = "up" /\ ~joined
    /\ joined' = TRUE
    /\ UNCHANGED <<log, late, wire, sock, view, post, older, windowVars, atBottom,
                   status, events, historyVars>>

\* handleSocketDisconnect
Disconnect ==
    /\ sock = "up" /\ events > 0
    /\ sock' = "down"
    /\ events' = events - 1
    /\ status' = IF status = "idle" THEN "reconnecting" ELSE status
    /\ UNCHANGED <<hubVars, view, post, older, windowVars, atBottom, historyVars>>

\* handleSocketError: an attempt to connect fails.
ConnectFails ==
    /\ sock # "up" /\ status = "idle"
    /\ status' = "reconnecting"
    /\ UNCHANGED <<hubVars, sock, view, post, older, windowVars, atBottom, events,
                   historyVars>>

----------------------------------------------------------------------------
Hub ==
    \/ AgentWrites \/ HandlePost
    \/ \E m \in Messages : HandleLate(m) \/ Consume(m) \/ Cancel(m)
    \/ \E r \in Requests : Answer(r)
    \/ Join

User ==
    \/ Flush \/ Scroll \/ LoadOlder \/ Refresh
    \/ \E m \in Messages : Send(m) \/ Retry(m)

Network ==
    \/ Receive \/ Accepted \/ Rejected
    \/ OlderPage \/ ShowOlder \/ OlderFails
    \/ \E r \in Requests : Hydrate(r)
    \/ LoadFails \/ PageFails
    \/ RecoveryEnds \/ RecoveryFails
    \/ \E recovered \in BOOLEAN : Connect(recovered)
    \/ Disconnect \/ ConnectFails

Next == Hub \/ User \/ Network

Spec == Init /\ [][Next]_vars

\* The socket is tried again until it connects, events and answers arrive.
Progress ==
    \/ \E recovered \in BOOLEAN : Connect(recovered)
    \/ Join \/ Receive
    \/ \E r \in Requests : Answer(r) \/ Hydrate(r)
    \/ RecoveryEnds

FairSpec == Spec /\ WF_vars(Progress)

----------------------------------------------------------------------------
\* Nothing is on its way to the window and the banner is quiet.
Settled ==
    /\ sock = "up" /\ joined /\ wire = <<>>
    /\ status = "idle"
    /\ \A r \in Requests : view[r] = None

Complete == \A s \in Kept : Accounted(s)

\* A settled window has every row the Hub keeps, on the screen, behind the
\* new-messages button, or in the history that can still be loaded --
\* unless a page left a hole, or the page that was to cover the socket's
\* absence was read before the socket was subscribed, or could not be read.
CaughtUp == Settled /\ ~blind /\ ~wide => Complete

\* A settled window shows a message as waiting in the queue exactly while
\* the Hub has it there, unless a change was lost or a slower answer told
\* the state before it.
QueueIsCurrent ==
    Settled /\ ~stale =>
        \A s \in DOMAIN shown : shown[s] = log[s].state

\* A message is never on the screen twice, as two rows or as a row and its
\* optimistic message, however often it is retried, once the window has
\* heard what became of it -- unless a lost change or a slower answer told
\* the state before it, or a page of history held the row of a message that
\* is still shown as its bubble.
ShownOnce ==
    ~stale /\ ~doubled =>
        \A m \in {n \in Messages : ~Changed(n)} :
            LET rows == {s \in DOMAIN shown : log[s].who = m}
            IN  Cardinality(rows) <= (IF bubble[m] = NoBubble THEN 1 ELSE 0)

\* A message is shown as under way only while its request is.
SendsEnd ==
    \A m \in Messages :
        bubble[m].status \in {"sending", "queued"} =>
            post # None /\ post.who = m

\* The banner is quiet only while the connection is up, and says
\* reconnecting only while it is down.
BannerFollowsSocket ==
    /\ status = "idle" => sock # "down"
    /\ status = "reconnecting" => sock # "up"
    /\ status = "syncing" <=> view["sync"] # None

\* Every row the Hub keeps reaches the window, through whatever recoveries
\* that takes, unless one fails or meets the gaps of CaughtUp.
RowsArrive == ~Complete ~> Complete \/ blind \/ wide \/ status = "failed"

=============================================================================
