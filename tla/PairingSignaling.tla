-------------------------- MODULE PairingSignaling --------------------------
(***************************************************************************)
(* How the desktop (host) and the phone (guest) negotiate their peer to    *)
(* peer connection: createPerfectNegotiation on top of an                  *)
(* RTCPeerConnection at either end, createPairingTransport with its        *)
(* reconnecting socket, and between them the broker's PairingSocketHub,    *)
(* which forwards a signal to the other role's socket or keeps it until    *)
(* that role attaches.                                                     *)
(*                                                                         *)
(* Of the browser's RTCPeerConnection the model has what the code relies   *)
(* on: the chain that runs its operations one by one, the signaling state, *)
(* the implicit rollback, and negotiationneeded.  A description stands for *)
(* its SDP; each has one ICE candidate.  Tokens are valid throughout.      *)
(***************************************************************************)
EXTENDS Naturals, Sequences

CONSTANTS
    MaxEvents       \* how many ICE restarts, broken sockets and restarts of
                    \* the broker there are in all

ASSUME BoundsAssumption == MaxEvents \in Nat

VARIABLES
    sig,            \* peer.signalingState
    local, remote,  \* the descriptions last set, None before the first
    needs,          \* "no", "new" or "offered": a change to negotiate
    made,           \* how many offers each peer created
    ops,            \* the operations chain of each peer
    gathered,       \* the descriptions whose candidate was announced
    added,          \* the candidates each peer has taken
    makingOffer, ignoreOffer, answerPending,
    pendingCandidates,
    sock,           \* the transport's socket: "down", "open", or "fatal"
    pendingSignals, \* signals waiting for a socket
    up, down,       \* signals between each end and the broker
    conn,           \* the broker's side: "none", "opening", "attaching",
                    \* "attached"
    buffer,         \* what the broker keeps for each role
    events,
    lost,           \* history: a socket broke with signals under way
    overtaken       \* history: a signal passed ones the broker had kept

rtcVars == <<sig, local, remote, needs, made, ops, gathered, added>>
engineVars == <<makingOffer, ignoreOffer, answerPending, pendingCandidates>>
netVars == <<sock, pendingSignals, up, down>>
brokerVars == <<conn, buffer>>
historyVars == <<lost, overtaken>>
vars == <<rtcVars, engineVars, netVars, brokerVars, events, historyVars>>

Peers == {"host", "guest"}
Other(p) == IF p = "host" THEN "guest" ELSE "host"
Polite(p) == p = "guest"

Descriptions == [type : {"offer", "answer"}, by : Peers, n : Nat]
Candidates == [type : {"candidate"}, of : Descriptions]
Signals == Descriptions \cup Candidates
None == [type |-> "none"]

Ops ==
    [op : {"createOffer", "createAnswer", "flush"}]
        \cup [op : {"setLocal", "setRemote"}, d : Descriptions]
        \cup [op : {"add"}, c : Candidates]

TypeOK ==
    /\ sig \in [Peers -> {"stable", "have-local-offer", "have-remote-offer"}]
    /\ local \in [Peers -> Descriptions \cup {None}]
    /\ remote \in [Peers -> Descriptions \cup {None}]
    /\ needs \in [Peers -> {"no", "new", "offered"}]
    /\ made \in [Peers -> Nat]
    /\ ops \in [Peers -> Seq(Ops)]
    /\ gathered \in [Peers -> SUBSET Descriptions]
    /\ added \in [Peers -> SUBSET Candidates]
    /\ {makingOffer, ignoreOffer, answerPending} \subseteq [Peers -> BOOLEAN]
    /\ pendingCandidates \in [Peers -> Seq(Candidates)]
    /\ sock \in [Peers -> {"down", "open", "fatal"}]
    /\ {pendingSignals, up, down, buffer} \subseteq [Peers -> Seq(Signals)]
    /\ conn \in [Peers -> {"none", "opening", "attaching", "attached"}]
    /\ events \in 0..MaxEvents
    /\ {lost, overtaken} \subseteq BOOLEAN

\* The host creates its data channel at once, which needs an offer.
Init ==
    /\ sig = [p \in Peers |-> "stable"]
    /\ local = [p \in Peers |-> None] /\ remote = local
    /\ needs = [p \in Peers |-> IF p = "host" THEN "new" ELSE "no"]
    /\ made = [p \in Peers |-> 0]
    /\ ops = [p \in Peers |-> <<>>]
    /\ gathered = [p \in Peers |-> {}] /\ added = gathered
    /\ makingOffer = [p \in Peers |-> FALSE]
    /\ ignoreOffer = makingOffer /\ answerPending = makingOffer
    /\ pendingCandidates = ops
    /\ sock = [p \in Peers |-> "down"]
    /\ pendingSignals = ops /\ up = ops /\ down = ops
    /\ conn = [p \in Peers |-> "none"]
    /\ buffer = ops
    /\ events = MaxEvents
    /\ lost = FALSE /\ overtaken = FALSE

Offer(p, n) == [type |-> "offer", by |-> p, n |-> n]
\* Mutant of AnswerTo: a provisional answer.
ProvisionalAnswerTo(p, offer) == [type |-> "pranswer", by |-> p, n |-> offer.n]

AnswerTo(p, offer) == [type |-> "answer", by |-> p, n |-> offer.n]
CandidateOf(d) == [type |-> "candidate", of |-> d]

Active(p) == sock[p] # "fatal"

\* send: on the open socket, or kept for the next one.
Emit(p, signal) ==
    IF sock[p] = "open"
    THEN /\ up' = [up EXCEPT ![p] = Append(@, signal)]
         /\ UNCHANGED <<sock, pendingSignals, down>>
    ELSE /\ pendingSignals' = [pendingSignals EXCEPT ![p] = Append(@, signal)]
         /\ UNCHANGED <<sock, up, down>>

\* The head of the chain is done; its continuation queues what follows.
Continue(p, next) == ops' = [ops EXCEPT ![p] = Tail(@) \o next]
Done(p) == Continue(p, <<>>)
Queue(p, op) == ops' = [ops EXCEPT ![p] = Append(@, op)]

At(p, kind) == Active(p) /\ ops[p] # <<>> /\ Head(ops[p]).op = kind

-----------------------------------------------------------------------------
(* The engine: createPerfectNegotiation *)

\* An offer that was not completed leaves its change to be negotiated again.
Renewed(p) == [needs EXCEPT ![p] = IF @ = "offered" THEN "new" ELSE @]

\* negotiationneeded fires in the stable state, with nothing on the chain.
NegotiationNeeded(p) ==
    /\ Active(p) /\ needs[p] = "new" /\ sig[p] = "stable" /\ ops[p] = <<>>
    /\ makingOffer' = [makingOffer EXCEPT ![p] = TRUE]
    /\ Queue(p, [op |-> "createOffer"])
    /\ UNCHANGED <<sig, local, remote, needs, made, gathered, added, ignoreOffer,
                   answerPending, pendingCandidates, netVars, brokerVars,
                   events, historyVars>>

\* sendOffer after createOffer: it gives up unless the state is still stable.
CreateOffer(p) ==
    /\ At(p, "createOffer")
    /\ made' = [made EXCEPT ![p] = @ + 1]
    /\ IF sig[p] = "stable"
       THEN /\ needs' = [needs EXCEPT ![p] = "offered"]
            /\ Continue(p, <<[op |-> "setLocal", d |-> Offer(p, made[p] + 1)]>>)
            /\ UNCHANGED makingOffer
       ELSE /\ makingOffer' = [makingOffer EXCEPT ![p] = FALSE]
            /\ Done(p)
            /\ UNCHANGED needs
    /\ UNCHANGED <<sig, local, remote, gathered, added, ignoreOffer,
                   answerPending, pendingCandidates, netVars, brokerVars,
                   events, historyVars>>

\* setLocalDescription, which a state it does not fit rejects, and send.
SetLocal(p) ==
    /\ At(p, "setLocal")
    /\ LET d == Head(ops[p]).d
           fits == IF d.type = "offer" THEN sig[p] = "stable"
                   ELSE sig[p] = "have-remote-offer" /\ AnswerTo(p, remote[p]) = d
       IN  /\ IF fits
              THEN /\ sig' = [sig EXCEPT ![p] = IF d.type = "offer"
                                                THEN "have-local-offer" ELSE "stable"]
                   /\ local' = [local EXCEPT ![p] = d]
                   /\ Emit(p, d)
                   /\ UNCHANGED needs
              ELSE /\ needs' = IF d.type = "offer" THEN Renewed(p) ELSE needs
                   /\ UNCHANGED <<sig, local, netVars>>
           /\ makingOffer' = IF d.type = "offer"
                             THEN [makingOffer EXCEPT ![p] = FALSE]
                             ELSE makingOffer
    /\ Done(p)
    /\ UNCHANGED <<remote, made, gathered, added, ignoreOffer, answerPending,
                   pendingCandidates, brokerVars, events, historyVars>>

\* What follows a description that was set: the candidates kept, the answer.
Follow(p, d) ==
    (IF pendingCandidates[p] # <<>> THEN <<[op |-> "flush"]>> ELSE <<>>)
        \o (IF d.type = "offer" THEN <<[op |-> "createAnswer"]>> ELSE <<>>)

\* setRemoteDescription: an offer rolls an own one back, an answer completes it.
SetRemote(p) ==
    /\ At(p, "setRemote")
    /\ LET d == Head(ops[p]).d
           fits == d.type = "offer" \/ sig[p] = "have-local-offer"
       IN  /\ IF fits
              THEN /\ remote' = [remote EXCEPT ![p] = d]
                   /\ Continue(p, Follow(p, d))
                   /\ IF d.type = "offer"
                      THEN /\ sig' = [sig EXCEPT ![p] = "have-remote-offer"]
                           /\ needs' = IF sig[p] = "have-local-offer"
                                       THEN Renewed(p) ELSE needs
                      ELSE /\ sig' = [sig EXCEPT ![p] = "stable"]
                           /\ needs' = [needs EXCEPT ![p] =
                                            IF @ = "offered" THEN "no" ELSE @]
              ELSE Done(p) /\ UNCHANGED <<sig, remote, needs>>
    /\ answerPending' = [answerPending EXCEPT ![p] = FALSE]
    /\ UNCHANGED <<local, made, gathered, added, makingOffer, ignoreOffer,
                   pendingCandidates, netVars, brokerVars, events,
                   historyVars>>

\* answerOffer
CreateAnswer(p) ==
    /\ At(p, "createAnswer")
    /\ IF sig[p] = "have-remote-offer"
       THEN Continue(p, <<[op |-> "setLocal", d |-> AnswerTo(p, remote[p])]>>)
       ELSE Done(p)
    /\ UNCHANGED <<sig, local, remote, needs, made, gathered, added, engineVars,
                   netVars, brokerVars, events, historyVars>>

\* Mutant of AddCandidate: a candidate that comes early is not kept.
AddCandidateLate(p) ==
    /\ At(p, "add")
    /\ LET c == Head(ops[p]).c
       IN  added' = IF c.of = remote[p] THEN [added EXCEPT ![p] = @ \cup {c}]
                    ELSE added
    /\ Done(p)
    /\ UNCHANGED <<sig, local, remote, needs, made, gathered, engineVars, netVars,
                   brokerVars, events, historyVars>>

\* addIceCandidate: before any remote description the candidate is kept, unless
\* the offer it belongs to was ignored; one of another description is refused.
AddCandidate(p) ==
    /\ At(p, "add")
    /\ LET c == Head(ops[p]).c
       IN  /\ added' = IF c.of = remote[p] THEN [added EXCEPT ![p] = @ \cup {c}]
                       ELSE added
           /\ pendingCandidates' = IF remote[p] = None /\ ~ignoreOffer[p]
                                   THEN [pendingCandidates EXCEPT ![p] = Append(@, c)]
                                   ELSE pendingCandidates
    /\ Done(p)
    /\ UNCHANGED <<sig, local, remote, needs, made, gathered, makingOffer,
                   ignoreOffer, answerPending, netVars, brokerVars, events,
                   historyVars>>

\* flushPendingCandidates: one that is refused ends onDescription, and with it
\* the answer that was to follow.
Flush(p) ==
    /\ At(p, "flush")
    /\ LET kept == {pendingCandidates[p][i] : i \in DOMAIN pendingCandidates[p]}
           mine == {c \in kept : c.of = remote[p]}
       IN  /\ added' = [added EXCEPT ![p] = @ \cup mine]
           /\ ops' = [ops EXCEPT ![p] =
                  IF mine # kept /\ Len(@) > 1 /\ @[2].op = "createAnswer"
                  THEN Tail(Tail(@)) ELSE Tail(@)]
    /\ pendingCandidates' = [pendingCandidates EXCEPT ![p] = <<>>]
    /\ UNCHANGED <<sig, local, remote, needs, made, gathered, makingOffer,
                   ignoreOffer, answerPending, netVars, brokerVars, events,
                   historyVars>>

\* Mutant of Collides: an answer that is being set is not waited for.
CollidesUnset(p, d) ==
    d.type = "offer" /\ (makingOffer[p] \/ sig[p] # "stable")

\* Mutant of Collides: only an offer that is being made collides.
CollidesMaking(p, d) == d.type = "offer" /\ makingOffer[p]

\* readyForOffer and offerCollision
Collides(p, d) ==
    /\ d.type = "offer"
    /\ makingOffer[p] \/ ~(sig[p] = "stable" \/ answerPending[p])

\* Mutant of Ignores: both peers are polite.
IgnoresNothing(p, d) == FALSE

Ignores(p, d) == ~Polite(p) /\ Collides(p, d)

\* onSignal
Receive(p) ==
    /\ sock[p] = "open" /\ down[p] # <<>>
    /\ LET signal == Head(down[p])
       IN  IF signal.type = "candidate"
           THEN /\ Queue(p, [op |-> "add", c |-> signal])
                /\ UNCHANGED <<ignoreOffer, answerPending>>
           ELSE /\ ignoreOffer' = [ignoreOffer EXCEPT ![p] = Ignores(p, signal)]
                /\ IF Ignores(p, signal) THEN UNCHANGED <<ops, answerPending>>
                   ELSE /\ answerPending' =
                               [answerPending EXCEPT ![p] = signal.type = "answer"]
                        /\ Queue(p, [op |-> "setRemote", d |-> signal])
    /\ down' = [down EXCEPT ![p] = Tail(@)]
    /\ UNCHANGED <<sig, local, remote, needs, made, gathered, added, makingOffer,
                   pendingCandidates, sock, pendingSignals, up, brokerVars,
                   events, historyVars>>

\* icecandidate, for the local description in force.
Gather(p) ==
    /\ Active(p) /\ local[p] # None /\ local[p] \notin gathered[p]
    /\ gathered' = [gathered EXCEPT ![p] = @ \cup {local[p]}]
    /\ Emit(p, CandidateOf(local[p]))
    /\ UNCHANGED <<sig, local, remote, needs, made, ops, added, engineVars,
                   brokerVars, events, historyVars>>

\* maybeRestartIce; a guest without descriptions has nothing to restart.
RestartIce(p) ==
    /\ Active(p) /\ events > 0 /\ events' = events - 1
    /\ p = "host" \/ local[p] # None \/ remote[p] # None
    /\ needs' = [needs EXCEPT ![p] = "new"]
    /\ UNCHANGED <<sig, local, remote, made, ops, gathered, added, engineVars,
                   netVars, brokerVars, historyVars>>

-----------------------------------------------------------------------------
(* The transport's socket and the broker's hub *)

\* connectLoop: the socket opens and what was kept is sent.
Connect(p) ==
    /\ sock[p] = "down"
    /\ sock' = [sock EXCEPT ![p] = "open"]
    /\ up' = [up EXCEPT ![p] = pendingSignals[p]]
    /\ pendingSignals' = [pendingSignals EXCEPT ![p] = <<>>]
    /\ conn' = [conn EXCEPT ![p] = "opening"]
    /\ UNCHANGED <<rtcVars, engineVars, down, buffer, events, historyVars>>

\* The broker gives a role's socket what it kept for the role.
FlushKept(p) ==
    /\ conn' = [conn EXCEPT ![p] = "attached"]
    /\ down' = [down EXCEPT ![p] = @ \o buffer[p]]
    /\ buffer' = [buffer EXCEPT ![p] = <<>>]
    /\ UNCHANGED <<rtcVars, engineVars, sock, pendingSignals, up, events,
                   historyVars>>

\* attach after the token lookup: the socket takes the role's place.  A guest's
\* connection is recorded in the store before what was kept is flushed.
Attach(p) ==
    /\ conn[p] = "opening"
    /\ IF p = "host" THEN FlushKept(p)
       ELSE /\ conn' = [conn EXCEPT ![p] = "attaching"]
            /\ UNCHANGED <<rtcVars, engineVars, netVars, buffer, events,
                           historyVars>>

FinishAttach(p) == conn[p] = "attaching" /\ FlushKept(p)

Attached(p) == conn[p] \in {"attaching", "attached"}

\* handleMessage of an attached socket: to the other role, or kept for it.
Forward(p) ==
    /\ up[p] # <<>> /\ Attached(p)
    /\ up' = [up EXCEPT ![p] = Tail(@)]
    /\ LET q == Other(p)
       IN  IF Attached(q)
           THEN /\ down' = [down EXCEPT ![q] = Append(@, Head(up[p]))]
                /\ overtaken' = (overtaken \/ buffer[q] # <<>>)
                /\ UNCHANGED buffer
           ELSE /\ buffer' = [buffer EXCEPT ![q] = Append(@, Head(up[p]))]
                /\ UNCHANGED <<down, overtaken>>
    /\ UNCHANGED <<rtcVars, engineVars, sock, pendingSignals, conn, events,
                   lost>>

\* A socket closes; signals under way on it go with it.
Closed(p, state) ==
    /\ sock' = [sock EXCEPT ![p] = state]
    /\ conn' = [conn EXCEPT ![p] = "none"]
    /\ up' = [up EXCEPT ![p] = <<>>]
    /\ down' = [down EXCEPT ![p] = <<>>]
    /\ lost' = (lost \/ up[p] # <<>> \/ down[p] # <<>>)

\* handleMessage while attach still awaits the lookup: the broker closes the
\* socket with 1008 not-attached, and 1008 is fatal to the transport.
ForwardEarly(p) ==
    /\ up[p] # <<>> /\ conn[p] = "opening"
    /\ Closed(p, "fatal")
    /\ UNCHANGED <<rtcVars, engineVars, pendingSignals, buffer, events,
                   overtaken>>

Drop(p) ==
    /\ events > 0 /\ events' = events - 1
    /\ sock[p] = "open"
    /\ Closed(p, "down")
    /\ UNCHANGED <<rtcVars, engineVars, pendingSignals, buffer, overtaken>>

\* The broker keeps nothing over a restart.
RestartBroker ==
    /\ events > 0 /\ events' = events - 1
    /\ sock' = [p \in Peers |-> IF sock[p] = "open" THEN "down" ELSE sock[p]]
    /\ conn' = [p \in Peers |-> "none"]
    /\ up' = [p \in Peers |-> <<>>] /\ down' = up' /\ buffer' = up'
    /\ lost' = (lost \/ <<up, down, buffer>> # <<up', down', buffer'>>)
    /\ UNCHANGED <<rtcVars, engineVars, pendingSignals, overtaken>>

RunChain(p) ==
    \/ CreateOffer(p) \/ SetLocal(p) \/ SetRemote(p) \/ CreateAnswer(p)
    \/ AddCandidate(p) \/ Flush(p)

Step(p) ==
    \/ NegotiationNeeded(p) \/ RunChain(p) \/ Receive(p) \/ Gather(p)
    \/ Connect(p) \/ Attach(p) \/ FinishAttach(p) \/ Forward(p)

Next ==
    \/ \E p \in Peers :
          Step(p) \/ RestartIce(p) \/ ForwardEarly(p) \/ Drop(p)
    \/ RestartBroker

Spec == Init /\ [][Next]_vars

\* The browsers run their chains and tasks, the transport reconnects for ever,
\* the broker serves its sockets.
FairSpec ==
    /\ Spec
    /\ \A p \in Peers :
          /\ WF_vars(NegotiationNeeded(p)) /\ WF_vars(RunChain(p))
          /\ WF_vars(Receive(p)) /\ WF_vars(Gather(p))
          /\ WF_vars(Connect(p)) /\ WF_vars(Attach(p))
          /\ WF_vars(FinishAttach(p)) /\ WF_vars(Forward(p))

-----------------------------------------------------------------------------
(* Properties *)

\* Nothing is under way and nothing is left to negotiate.
Quiet ==
    /\ \A p \in Peers :
          /\ sig[p] = "stable" /\ needs[p] = "no" /\ ops[p] = <<>>
          /\ pendingSignals[p] = <<>> /\ up[p] = <<>> /\ down[p] = <<>>
          /\ buffer[p] = <<>>
          /\ local[p] # None /\ local[p] \in gathered[p]

\* Two peers that have come to rest hold the two halves of one exchange,
\* whatever offers crossed, were rolled back, ignored or lost
\* (perfectNegotiation.ts), when no signal overtook those the broker had kept.
RestInAgreement ==
    Quiet /\ ~overtaken => /\ local["host"] = remote["guest"]
                           /\ local["guest"] = remote["host"]

\* A candidate is not lost to the order it comes in: at rest each peer has the
\* candidate of the description the other is in force with, when no signal was
\* lost and none overtook those the broker had kept; in the first exchange even
\* when one did, for no remote description is there yet that would refuse it.
CandidatesArrive ==
    Quiet /\ ~lost /\ (~overtaken \/ made["host"] + made["guest"] = 1) =>
        \A p \in Peers : CandidateOf(local[p]) \in added[Other(p)]

\* In a glare it is the polite peer that gives way: the host's offer, once set,
\* is answered and never rolled back.
HostOfferStands ==
    [][sig["host"] = "have-local-offer" =>
           sig'["host"] # "have-remote-offer"]_vars

\* Offers that cross, candidates that come early and sockets that reconnect
\* between signals do not keep the peers from coming to rest.
NegotiationEnds ==
    [](~lost /\ \A p \in Peers : Active(p)) => <>[]Quiet

==============================================================================
