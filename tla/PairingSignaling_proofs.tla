----------------------- MODULE PairingSignaling_proofs -----------------------
(***************************************************************************)
(* Proofs about PairingSignaling, for any number of restarts and broken    *)
(* sockets: its types, why the offer of the host stands in a glare, that   *)
(* two peers that come to rest hold the halves of one exchange, and that   *)
(* no candidate of an exchange is ignored by the other half of it.         *)
(***************************************************************************)
EXTENDS PairingSignaling, TLAPS

-----------------------------------------------------------------------------
(* The operations chain of the host *)

\* The operations of an offer of one's own, and the setting of an offer or an
\* answer of the other side.
Making(op) == op.op = "createOffer" \/ (op.op = "setLocal" /\ op.d.type = "offer")
RemoteOffer(op) == op.op = "setRemote" /\ op.d.type = "offer"
RemoteAnswer(op) == op.op = "setRemote" /\ op.d.type = "answer"

\* At most one offer is in the making, makingOffer says so, and no remote offer
\* is to be set meanwhile.
Single(chain, making) ==
    \A i \in DOMAIN chain : Making(chain[i]) =>
        /\ making
        /\ \A j \in DOMAIN chain :
               /\ Making(chain[j]) => i = j
               /\ ~RemoteOffer(chain[j])

\* A remote offer that waits in the chain waits behind the answer to one's own.
Answered(chain) ==
    \A i \in DOMAIN chain : RemoteOffer(chain[i]) =>
        \E j \in DOMAIN chain : j < i /\ RemoteAnswer(chain[j])

\* isSettingRemoteAnswerPending: an answer waits in the chain.
Pends(chain) == \E i \in DOMAIN chain : RemoteAnswer(chain[i])

HostChain ==
    /\ Single(ops["host"], makingOffer["host"])
    /\ sig["host"] = "have-local-offer" => Answered(ops["host"])
    /\ answerPending["host"] => Pends(ops["host"])

\* An answer is only made to an offer that was set.
Remembered ==
    \A p \in Peers : sig[p] = "have-remote-offer" => remote[p] \in Descriptions

-----------------------------------------------------------------------------
(* Chains *)

\* What is left when the first operation is done (the chain is FIFO).
LEMMA TailOf ==
    ASSUME NEW S, NEW s \in Seq(S), s # <<>>
    PROVE  /\ Tail(s) \in Seq(S) /\ Head(s) = s[1] /\ 1 \in DOMAIN s
           /\ s[1] \in S
           /\ DOMAIN Tail(s) = 1..(Len(s) - 1)
           /\ \A i \in DOMAIN Tail(s) :
                  i + 1 \in DOMAIN s /\ i \in Nat /\ Tail(s)[i] = s[i + 1]
OBVIOUS

LEMMA TailOfTail ==
    ASSUME NEW S, NEW s \in Seq(S), Len(s) > 1
    PROVE  /\ Tail(s) \in Seq(S) /\ Tail(s) # <<>> /\ Tail(s)[1] = s[2]
           /\ Tail(Tail(s)) \in Seq(S)
<1>1. Tail(s) \in Seq(S) /\ Len(Tail(s)) > 0
  OBVIOUS
<1>2. Tail(s) # <<>>
  <2>1. ASSUME Tail(s) = << >> PROVE FALSE
    <3>1. Len(Tail(s)) = Len(<< >>)
      BY <2>1
    <3>2. Len(<< >>) = 0
      OBVIOUS
    <3> QED  BY <1>1, <3>1, <3>2
  <2> QED  BY <2>1
<1>3. Tail(s)[1] = s[2]
  OBVIOUS
<1> QED  BY <1>1, <1>2, <1>3, TailOf

\* An operation that is done leaves the others in their order.
LEMMA PopSingle ==
    ASSUME NEW S, NEW s \in Seq(S), s # <<>>, NEW m, Single(s, m)
    PROVE  Single(Tail(s), m)
<1> SUFFICES ASSUME NEW i \in DOMAIN Tail(s), Making(Tail(s)[i])
             PROVE  /\ m
                    /\ \A j \in DOMAIN Tail(s) :
                           /\ Making(Tail(s)[j]) => i = j
                           /\ ~RemoteOffer(Tail(s)[j])
  BY DEF Single
<1>1. i \in Nat /\ i + 1 \in DOMAIN s /\ Making(s[i + 1])
  BY TailOf
<1>2. m /\ \A j \in DOMAIN s : (Making(s[j]) => i + 1 = j) /\ ~RemoteOffer(s[j])
  BY <1>1 DEF Single
<1>3. ASSUME NEW j \in DOMAIN Tail(s)
      PROVE  (Making(Tail(s)[j]) => i = j) /\ ~RemoteOffer(Tail(s)[j])
  <2>1. j \in Nat /\ j + 1 \in DOMAIN s /\ Tail(s)[j] = s[j + 1]
    BY TailOf
  <2>2. ~RemoteOffer(Tail(s)[j])
    BY <1>2, <2>1
  <2>3. Making(Tail(s)[j]) => i + 1 = j + 1
    BY <1>2, <2>1
  <2> QED  BY <1>1, <2>1, <2>2, <2>3
<1> QED  BY <1>2, <1>3

\* Without the offer in the making nothing is in the making.
LEMMA PopMaking ==
    ASSUME NEW S, NEW s \in Seq(S), s # <<>>, NEW m, Single(s, m), Making(s[1])
    PROVE  \A i \in DOMAIN Tail(s) :
               ~Making(Tail(s)[i]) /\ ~RemoteOffer(Tail(s)[i])
<1> SUFFICES ASSUME NEW i \in DOMAIN Tail(s)
             PROVE  ~Making(Tail(s)[i]) /\ ~RemoteOffer(Tail(s)[i])
  OBVIOUS
<1>1. /\ 1 \in DOMAIN s /\ i \in Nat /\ i + 1 \in DOMAIN s /\ Tail(s)[i] = s[i + 1]
      /\ i \in 1..(Len(s) - 1)
  BY TailOf
<1>2. (Making(s[i + 1]) => 1 = i + 1) /\ ~RemoteOffer(s[i + 1])
  BY <1>1 DEF Single
<1>3. 1 # i + 1
  BY <1>1
<1> QED  BY <1>1, <1>2, <1>3

LEMMA PopAnswered ==
    ASSUME NEW S, NEW s \in Seq(S), s # <<>>, Answered(s), ~RemoteAnswer(s[1])
    PROVE  Answered(Tail(s))
<1> SUFFICES ASSUME NEW i \in DOMAIN Tail(s), RemoteOffer(Tail(s)[i])
             PROVE  \E j \in DOMAIN Tail(s) : j < i /\ RemoteAnswer(Tail(s)[j])
  BY DEF Answered
<1>1. i \in Nat /\ i + 1 \in DOMAIN s /\ RemoteOffer(s[i + 1])
  BY TailOf
<1>2. PICK j \in DOMAIN s : j < i + 1 /\ RemoteAnswer(s[j])
  BY <1>1 DEF Answered
<1>3. j # 1 /\ j \in 1..Len(s)
  BY <1>2
<1>4. /\ j - 1 \in DOMAIN Tail(s) /\ j - 1 < i /\ (j - 1) + 1 = j
  BY <1>1, <1>2, <1>3, TailOf
<1>5. Tail(s)[j - 1] = s[j]
  BY <1>4, TailOf
<1> QED  BY <1>2, <1>4, <1>5

LEMMA PopPends ==
    ASSUME NEW S, NEW s \in Seq(S), s # <<>>, Pends(s), ~RemoteAnswer(s[1])
    PROVE  Pends(Tail(s))
<1>1. PICK j \in DOMAIN s : RemoteAnswer(s[j])
  BY DEF Pends
<1>2. j # 1 /\ j \in 1..Len(s)
  BY <1>1
<1>3. j - 1 \in DOMAIN Tail(s) /\ (j - 1) + 1 = j
  BY <1>2, TailOf
<1>4. Tail(s)[j - 1] = s[j]
  BY <1>3, TailOf
<1> QED  BY <1>1, <1>3, <1>4 DEF Pends

\* What a longer chain has.
LEMMA JoinOf ==
    ASSUME NEW S, NEW s \in Seq(S), NEW t \in Seq(S)
    PROVE  /\ s \o t \in Seq(S)
           /\ DOMAIN s \subseteq DOMAIN (s \o t)
           /\ \A i \in DOMAIN s : i \in Nat /\ (s \o t)[i] = s[i]
           /\ \A i \in DOMAIN (s \o t) : i \notin DOMAIN s =>
                  /\ \E k \in DOMAIN t : (s \o t)[i] = t[k]
                  /\ \A j \in DOMAIN s : j < i
<1>1. /\ s \o t \in Seq(S) /\ Len(s \o t) = Len(s) + Len(t)
      /\ Len(s) \in Nat /\ Len(t) \in Nat
      /\ DOMAIN s = 1..Len(s) /\ DOMAIN t = 1..Len(t)
      /\ DOMAIN (s \o t) = 1..(Len(s) + Len(t))
  OBVIOUS
<1>2. \A i \in DOMAIN s : i \in Nat /\ (s \o t)[i] = s[i]
  OBVIOUS
<1>3. ASSUME NEW i \in DOMAIN (s \o t), i \notin DOMAIN s
      PROVE  (\E k \in DOMAIN t : (s \o t)[i] = t[k]) /\ \A j \in DOMAIN s : j < i
  <2>1. i - Len(s) \in DOMAIN t /\ (s \o t)[i] = t[i - Len(s)]
    BY <1>1, <1>3
  <2>2. \A j \in DOMAIN s : j < i
    BY <1>1, <1>3
  <2> QED  BY <2>1, <2>2
<1> QED  BY <1>1, <1>2, <1>3

LEMMA AppendOf ==
    ASSUME NEW S, NEW s \in Seq(S), NEW x \in S
    PROVE  Append(s, x) = s \o <<x>> /\ <<x>> \in Seq(S)
           /\ DOMAIN <<x>> = {1} /\ <<x>>[1] = x
OBVIOUS

\* An operation joins the chain.
LEMMA JoinSingle ==
    ASSUME NEW S, NEW s \in Seq(S), NEW t \in Seq(S), NEW m, Single(s, m),
           \A k \in DOMAIN t : ~Making(t[k]) /\ (RemoteOffer(t[k]) => ~m)
    PROVE  Single(s \o t, m)
<1> DEFINE u == s \o t
<1> SUFFICES ASSUME NEW i \in DOMAIN u, Making(u[i])
             PROVE  /\ m
                    /\ \A j \in DOMAIN u :
                           (Making(u[j]) => i = j) /\ ~RemoteOffer(u[j])
  BY DEF Single
<1>1. \A j \in DOMAIN u : j \notin DOMAIN s =>
          ~Making(u[j]) /\ (RemoteOffer(u[j]) => ~m)
  BY JoinOf
<1>2. \A j \in DOMAIN s : u[j] = s[j]
  BY JoinOf
<1>3. i \in DOMAIN s /\ Making(s[i])
  BY <1>1, <1>2
<1>4. m /\ \A j \in DOMAIN s : (Making(s[j]) => i = j) /\ ~RemoteOffer(s[j])
  BY <1>3 DEF Single
<1> HIDE DEF u
<1> QED  BY <1>1, <1>2, <1>4

LEMMA JoinMaking ==
    ASSUME NEW S, NEW s \in Seq(S), NEW x \in S, NEW m, m,
           \A i \in DOMAIN s : ~Making(s[i]) /\ ~RemoteOffer(s[i]), Making(x)
    PROVE  Single(s \o <<x>>, m)
<1> DEFINE u == s \o <<x>>
<1>1. <<x>> \in Seq(S) /\ DOMAIN <<x>> = {1} /\ <<x>>[1] = x
  BY AppendOf
<1>2. u \in Seq(S) /\ DOMAIN u = 1..(Len(s) + 1) /\ u[Len(s) + 1] = x
      /\ DOMAIN s = 1..Len(s) /\ Len(s) \in Nat
  OBVIOUS
<1>3. \A j \in DOMAIN u : j \notin DOMAIN s => j = Len(s) + 1
  BY <1>2
<1>4. \A j \in DOMAIN s : u[j] = s[j]
  BY <1>1, JoinOf
<1>5. ~RemoteOffer(x)
  BY DEF Making, RemoteOffer
<1> HIDE DEF u
<1>6. \A j \in DOMAIN u : (Making(u[j]) => j = Len(s) + 1) /\ ~RemoteOffer(u[j])
  BY <1>2, <1>3, <1>4, <1>5
<1>7. Single(u, m)
  BY <1>6 DEF Single
<1> QED  BY <1>7 DEF u

LEMMA JoinAnswered ==
    ASSUME NEW S, NEW s \in Seq(S), NEW t \in Seq(S), Answered(s),
           \A k \in DOMAIN t : RemoteOffer(t[k]) => Pends(s)
    PROVE  Answered(s \o t)
<1> DEFINE u == s \o t
<1> SUFFICES ASSUME NEW i \in DOMAIN u, RemoteOffer(u[i])
             PROVE  \E j \in DOMAIN u : j < i /\ RemoteAnswer(u[j])
  BY DEF Answered
<1>1. DOMAIN s \subseteq DOMAIN u /\ \A j \in DOMAIN s : u[j] = s[j]
  BY JoinOf
<1>2. CASE i \in DOMAIN s
  <2>1. PICK j \in DOMAIN s : j < i /\ RemoteAnswer(s[j])
    BY <1>1, <1>2 DEF Answered
  <2> QED  BY <1>1, <2>1
<1>3. CASE i \notin DOMAIN s
  <2>1. (\E k \in DOMAIN t : u[i] = t[k]) /\ \A j \in DOMAIN s : j < i
    BY <1>3, JoinOf
  <2>2. Pends(s)
    BY <2>1
  <2>3. PICK j \in DOMAIN s : RemoteAnswer(s[j])
    BY <2>2 DEF Pends
  <2> QED  BY <1>1, <2>1, <2>3
<1> QED  BY <1>2, <1>3

LEMMA JoinPends ==
    ASSUME NEW S, NEW s \in Seq(S), NEW t \in Seq(S), Pends(s)
    PROVE  Pends(s \o t)
<1>1. PICK j \in DOMAIN s : RemoteAnswer(s[j])
  BY DEF Pends
<1>2. j \in DOMAIN (s \o t) /\ (s \o t)[j] = s[j]
  BY JoinOf
<1> QED  BY <1>1, <1>2 DEF Pends

LEMMA AppendPends ==
    ASSUME NEW S, NEW s \in Seq(S), NEW x \in S, RemoteAnswer(x)
    PROVE  Pends(Append(s, x))
<1>1. /\ Len(s) + 1 \in DOMAIN Append(s, x)
      /\ Append(s, x)[Len(s) + 1] = x
  OBVIOUS
<1> QED  BY <1>1 DEF Pends

-----------------------------------------------------------------------------
(* Types *)

\* The variables of a group, spelled out.
USE DEF rtcVars, engineVars, netVars, brokerVars, historyVars

\* TypeOK, variable by variable.
Typed ==
    /\ sig \in [Peers -> {"stable", "have-local-offer", "have-remote-offer"}]
    /\ local \in [Peers -> Descriptions \cup {None}]
    /\ remote \in [Peers -> Descriptions \cup {None}]
    /\ needs \in [Peers -> {"no", "new", "offered"}]
    /\ made \in [Peers -> Nat]
    /\ ops \in [Peers -> Seq(Ops)]
    /\ gathered \in [Peers -> SUBSET Descriptions]
    /\ added \in [Peers -> SUBSET Candidates]
    /\ makingOffer \in [Peers -> BOOLEAN]
    /\ ignoreOffer \in [Peers -> BOOLEAN]
    /\ answerPending \in [Peers -> BOOLEAN]
    /\ pendingCandidates \in [Peers -> Seq(Candidates)]
    /\ sock \in [Peers -> {"down", "open", "fatal"}]
    /\ pendingSignals \in [Peers -> Seq(Signals)]
    /\ up \in [Peers -> Seq(Signals)]
    /\ down \in [Peers -> Seq(Signals)]
    /\ buffer \in [Peers -> Seq(Signals)]
    /\ conn \in [Peers -> {"none", "opening", "attaching", "attached"}]
    /\ events \in 0..MaxEvents
    /\ lost \in BOOLEAN
    /\ overtaken \in BOOLEAN

LEMMA TypedIsTypeOK == Typed <=> TypeOK
BY DEF Typed, TypeOK

\* What the chain is made of, and what its first operation carries.
LEMMA OpsAre ==
    ASSUME NEW op \in Ops
    PROVE  /\ op.op \in {"createOffer", "createAnswer", "flush", "setLocal",
                         "setRemote", "add"}
           /\ op.op \in {"setLocal", "setRemote"} => op.d \in Descriptions
           /\ op.op = "add" => op.c \in Candidates
BY DEF Ops

LEMMA Operations ==
    /\ \A o \in {"createOffer", "createAnswer", "flush"} : [op |-> o] \in Ops
    /\ \A o \in {"setLocal", "setRemote"}, d \in Descriptions :
           [op |-> o, d |-> d] \in Ops
    /\ \A c \in Candidates : [op |-> "add", c |-> c] \in Ops
BY DEF Ops

\* A chain loses its first operation and gains what follows it.
LEMMA ContinueType ==
    ASSUME ops \in [Peers -> Seq(Ops)], NEW p \in Peers, ops[p] # <<>>,
           NEW next \in Seq(Ops), Continue(p, next)
    PROVE  /\ ops' \in [Peers -> Seq(Ops)]
           /\ ops'[p] = Tail(ops[p]) \o next
<1>1. Tail(ops[p]) \o next \in Seq(Ops)
  BY TailOf, JoinOf
<1> QED  BY <1>1 DEF Continue

LEMMA QueueType ==
    ASSUME ops \in [Peers -> Seq(Ops)], NEW p \in Peers, NEW op \in Ops,
           Queue(p, op)
    PROVE  /\ ops' \in [Peers -> Seq(Ops)]
           /\ ops'[p] = Append(ops[p], op)
BY DEF Queue

LEMMA DoneType ==
    ASSUME ops \in [Peers -> Seq(Ops)], NEW p \in Peers, ops[p] # <<>>, Done(p)
    PROVE  /\ ops' \in [Peers -> Seq(Ops)]
           /\ ops'[p] = Tail(ops[p])
<1>1. Tail(ops[p]) \in Seq(Ops)
  BY TailOf
<1>2. Tail(ops[p]) \o <<>> = Tail(ops[p])
  BY <1>1
<1> QED  BY <1>1, <1>2 DEF Done, Continue

\* A signal goes out or is kept.
LEMMA EmitType ==
    ASSUME Typed, NEW p \in Peers, NEW signal \in Signals, Emit(p, signal)
    PROVE  /\ sock' \in [Peers -> {"down", "open", "fatal"}]
           /\ pendingSignals' \in [Peers -> Seq(Signals)]
           /\ up' \in [Peers -> Seq(Signals)]
           /\ down' \in [Peers -> Seq(Signals)]
<1>1. \A f \in [Peers -> Seq(Signals)] :
          [f EXCEPT ![p] = Append(@, signal)] \in [Peers -> Seq(Signals)]
  OBVIOUS
<1>2. \/ up' = [up EXCEPT ![p] = Append(@, signal)]
         /\ UNCHANGED <<sock, pendingSignals, down>>
      \/ pendingSignals' = [pendingSignals EXCEPT ![p] = Append(@, signal)]
         /\ UNCHANGED <<sock, up, down>>
  BY DEF Emit
<1>3. /\ sock \in [Peers -> {"down", "open", "fatal"}]
      /\ pendingSignals \in [Peers -> Seq(Signals)]
      /\ up \in [Peers -> Seq(Signals)] /\ down \in [Peers -> Seq(Signals)]
  BY DEF Typed
<1>4. CASE up' = [up EXCEPT ![p] = Append(@, signal)]
           /\ UNCHANGED <<sock, pendingSignals, down>>
  BY <1>1, <1>3, <1>4
<1>5. CASE pendingSignals' = [pendingSignals EXCEPT ![p] = Append(@, signal)]
           /\ UNCHANGED <<sock, up, down>>
  BY <1>1, <1>3, <1>5
<1> QED  BY <1>2, <1>4, <1>5

\* The peers begin with nothing negotiated.
LEMMA InitTyped == Init => Typed /\ Remembered
<1> SUFFICES ASSUME Init PROVE Typed /\ Remembered
  OBVIOUS
<1> USE DEF Init
<1>1. /\ ops \in [Peers -> Seq(Ops)] /\ pendingCandidates \in [Peers -> Seq(Candidates)]
      /\ pendingSignals \in [Peers -> Seq(Signals)] /\ up \in [Peers -> Seq(Signals)]
      /\ down \in [Peers -> Seq(Signals)] /\ buffer \in [Peers -> Seq(Signals)]
  OBVIOUS
<1>2. events \in 0..MaxEvents
  BY BoundsAssumption
<1>3. needs \in [Peers -> {"no", "new", "offered"}]
  OBVIOUS
<1>4. sig \in [Peers -> {"stable"}]
  OBVIOUS
<1>5. Remembered
  BY DEF Remembered
<1> QED  BY <1>1, <1>2, <1>3, <1>5 DEF Typed

\* Steps of the engine.
LEMMA NegotiationNeededType ==
    ASSUME Typed, NEW p \in Peers, NegotiationNeeded(p)
    PROVE  Typed'
<1>1. ops' \in [Peers -> Seq(Ops)]
  BY QueueType, Operations DEF NegotiationNeeded, Typed
<1> QED  BY <1>1 DEF NegotiationNeeded, Typed

LEMMA CreateOfferType ==
    ASSUME Typed, NEW p \in Peers, CreateOffer(p)
    PROVE  Typed'
<1>1. ops \in [Peers -> Seq(Ops)] /\ ops[p] # <<>> /\ made[p] \in Nat
  BY DEF CreateOffer, At, Typed
<1>2. Offer(p, made[p] + 1) \in Descriptions
  BY <1>1 DEF Offer, Descriptions
<1>3. [op |-> "setLocal", d |-> Offer(p, made[p] + 1)] \in Ops
  BY <1>2, Operations
<1>4. ops' \in [Peers -> Seq(Ops)]
  <2>1. CASE sig[p] = "stable"
    <3> DEFINE next == <<[op |-> "setLocal", d |-> Offer(p, made[p] + 1)]>>
    <3>1. next \in Seq(Ops)
      BY <1>3
    <3>2. Continue(p, next)
      BY <2>1 DEF CreateOffer
    <3> HIDE DEF next
    <3> QED  BY <1>1, <3>1, <3>2, ContinueType
  <2>2. CASE sig[p] # "stable"
    BY <2>2, <1>1, DoneType DEF CreateOffer
  <2> QED  BY <2>1, <2>2
<1>5. needs' \in [Peers -> {"no", "new", "offered"}]
  <2>1. needs' = [needs EXCEPT ![p] = "offered"] \/ needs' = needs
    BY DEF CreateOffer
  <2> QED  BY <2>1 DEF Typed
<1>6. makingOffer' \in [Peers -> BOOLEAN]
  <2>1. makingOffer' = [makingOffer EXCEPT ![p] = FALSE] \/ makingOffer' = makingOffer
    BY DEF CreateOffer
  <2> QED  BY <2>1 DEF Typed
<1>7. made' \in [Peers -> Nat]
  BY DEF CreateOffer, Typed
<1>8. UNCHANGED <<sig, local, remote, gathered, added, ignoreOffer, answerPending,
                  pendingCandidates, sock, pendingSignals, up, down, conn,
                  buffer, events, lost, overtaken>>
  BY DEF CreateOffer
<1> QED  BY <1>4, <1>5, <1>6, <1>7, <1>8 DEF Typed

LEMMA RenewedType ==
    ASSUME Typed, NEW p \in Peers
    PROVE  Renewed(p) \in [Peers -> {"no", "new", "offered"}]
<1>1. CASE needs[p] = "offered"
  BY <1>1 DEF Renewed, Typed
<1>2. CASE needs[p] # "offered"
  BY <1>2 DEF Renewed, Typed
<1> QED  BY <1>1, <1>2

LEMMA SetLocalType ==
    ASSUME Typed, NEW p \in Peers, SetLocal(p)
    PROVE  Typed'
<1> DEFINE d == Head(ops[p]).d
<1>1. ops \in [Peers -> Seq(Ops)] /\ ops[p] # <<>> /\ Head(ops[p]).op = "setLocal"
  BY DEF SetLocal, At, Typed
<1>2. d \in Descriptions
  BY <1>1, TailOf, OpsAre
<1>3. ops' \in [Peers -> Seq(Ops)]
  BY <1>1, DoneType DEF SetLocal
<1>4. \/ /\ sig' = [sig EXCEPT ![p] = IF d.type = "offer" THEN "have-local-offer"
                                     ELSE "stable"]
         /\ local' = [local EXCEPT ![p] = d]
         /\ Emit(p, d)
      \/ UNCHANGED <<sig, local, netVars>>
  BY DEF SetLocal
<1>5. needs' = Renewed(p) \/ needs' = needs
  BY DEF SetLocal
<1>6. needs' \in [Peers -> {"no", "new", "offered"}]
  BY <1>5, RenewedType DEF Typed
<1>7. d \in Signals
  BY <1>2 DEF Signals
<1>8. sig' \in [Peers -> {"stable", "have-local-offer", "have-remote-offer"}]
  BY <1>4 DEF Typed
<1>9. local' \in [Peers -> Descriptions \cup {None}]
  BY <1>2, <1>4 DEF Typed
<1>10. /\ sock' \in [Peers -> {"down", "open", "fatal"}]
       /\ pendingSignals' \in [Peers -> Seq(Signals)]
       /\ up' \in [Peers -> Seq(Signals)]
       /\ down' \in [Peers -> Seq(Signals)]
  BY <1>4, <1>7, EmitType DEF Typed
<1>11. makingOffer' \in [Peers -> BOOLEAN]
  <2>1. makingOffer' = [makingOffer EXCEPT ![p] = FALSE] \/ makingOffer' = makingOffer
    BY DEF SetLocal
  <2> QED  BY <2>1 DEF Typed
<1>12. UNCHANGED <<remote, made, gathered, added, ignoreOffer, answerPending,
                   pendingCandidates, conn, buffer, events, lost, overtaken>>
  BY DEF SetLocal
<1> QED  BY <1>3, <1>6, <1>8, <1>9, <1>10, <1>11, <1>12 DEF Typed

\* What follows a description is a flush and an answer, or less.
LEMMA FollowType ==
    ASSUME NEW p, NEW d
    PROVE  /\ Follow(p, d) \in Seq(Ops)
           /\ \A k \in DOMAIN Follow(p, d) :
                  Follow(p, d)[k].op \in {"flush", "createAnswer"}
<1> DEFINE plain == {op \in Ops : op.op \in {"flush", "createAnswer"}}
<1>1. [op |-> "flush"] \in plain /\ [op |-> "createAnswer"] \in plain
  BY Operations
<1> HIDE DEF plain
<1>2. Follow(p, d) \in Seq(plain)
  <2>1. <<[op |-> "flush"]>> \in Seq(plain) /\ <<[op |-> "createAnswer"]>> \in Seq(plain)
        /\ << >> \in Seq(plain)
    BY <1>1
  <2>2. \A s, t \in Seq(plain) : s \o t \in Seq(plain)
    OBVIOUS
  <2> QED  BY <2>1, <2>2 DEF Follow
<1>3. \A op \in plain : op \in Ops /\ op.op \in {"flush", "createAnswer"}
  BY DEF plain
<1> QED  BY <1>2, <1>3

LEMMA SetRemoteType ==
    ASSUME Typed, NEW p \in Peers, SetRemote(p)
    PROVE  Typed'
<1> DEFINE d == Head(ops[p]).d
<1>1. ops \in [Peers -> Seq(Ops)] /\ ops[p] # <<>> /\ Head(ops[p]).op = "setRemote"
  BY DEF SetRemote, At, Typed
<1>2. d \in Descriptions
  BY <1>1, TailOf, OpsAre
<1>3. Continue(p, Follow(p, d)) \/ Done(p)
  BY DEF SetRemote
<1>4. ops' \in [Peers -> Seq(Ops)]
  <2>1. CASE Continue(p, Follow(p, d))
    BY <2>1, <1>1, FollowType, ContinueType
  <2>2. CASE Done(p)
    BY <2>2, <1>1, DoneType
  <2> QED  BY <1>3, <2>1, <2>2
<1>5. remote' = [remote EXCEPT ![p] = d] \/ remote' = remote
  BY DEF SetRemote
<1>6. remote' \in [Peers -> Descriptions \cup {None}]
  BY <1>2, <1>5 DEF Typed
<1>7. \/ sig' = [sig EXCEPT ![p] = "have-remote-offer"]
      \/ sig' = [sig EXCEPT ![p] = "stable"]
      \/ sig' = sig
  BY DEF SetRemote
<1>8. sig' \in [Peers -> {"stable", "have-local-offer", "have-remote-offer"}]
  BY <1>7 DEF Typed
<1>9. \/ needs' = Renewed(p) \/ needs' = needs \/ needs' = [needs EXCEPT ![p] = "no"]
  <2>1. \/ needs' = Renewed(p) \/ needs' = needs
        \/ needs' = [needs EXCEPT ![p] = IF @ = "offered" THEN "no" ELSE @]
    BY DEF SetRemote
  <2>2. CASE needs[p] = "offered"
    BY <2>1, <2>2
  <2>3. CASE needs[p] # "offered"
    BY <2>1, <2>3 DEF Typed
  <2> QED  BY <2>2, <2>3
<1>10. needs' \in [Peers -> {"no", "new", "offered"}]
  BY <1>9, RenewedType DEF Typed
<1>11. answerPending' \in [Peers -> BOOLEAN]
  BY DEF SetRemote, Typed
<1>12. UNCHANGED <<local, made, gathered, added, makingOffer, ignoreOffer,
                   pendingCandidates, sock, pendingSignals, up, down, conn,
                   buffer, events, lost, overtaken>>
  BY DEF SetRemote
<1> QED  BY <1>4, <1>6, <1>8, <1>10, <1>11, <1>12 DEF Typed

LEMMA CreateAnswerType ==
    ASSUME Typed, Remembered, NEW p \in Peers, CreateAnswer(p)
    PROVE  Typed'
<1>1. ops \in [Peers -> Seq(Ops)] /\ ops[p] # <<>>
  BY DEF CreateAnswer, At, Typed
<1>2. ops' \in [Peers -> Seq(Ops)]
  <2>1. CASE sig[p] = "have-remote-offer"
    <3> DEFINE next == <<[op |-> "setLocal", d |-> AnswerTo(p, remote[p])]>>
    <3>1. AnswerTo(p, remote[p]) \in Descriptions
      BY <2>1 DEF Remembered, AnswerTo, Descriptions
    <3>2. [op |-> "setLocal", d |-> AnswerTo(p, remote[p])] \in Ops
      BY <3>1, Operations
    <3>3. next \in Seq(Ops)
      BY <3>2
    <3>4. Continue(p, next)
      BY <2>1 DEF CreateAnswer
    <3> HIDE DEF next
    <3> QED  BY <1>1, <3>3, <3>4, ContinueType
  <2>2. CASE sig[p] # "have-remote-offer"
    BY <2>2, <1>1, DoneType DEF CreateAnswer
  <2> QED  BY <2>1, <2>2
<1> QED  BY <1>2 DEF CreateAnswer, Typed

LEMMA AddCandidateType ==
    ASSUME Typed, NEW p \in Peers, AddCandidate(p)
    PROVE  Typed'
<1> DEFINE c == Head(ops[p]).c
<1>1. ops \in [Peers -> Seq(Ops)] /\ ops[p] # <<>> /\ Head(ops[p]).op = "add"
  BY DEF AddCandidate, At, Typed
<1>2. c \in Candidates
  BY <1>1, TailOf, OpsAre
<1>3. ops' \in [Peers -> Seq(Ops)]
  BY <1>1, DoneType DEF AddCandidate
<1>4. added' = [added EXCEPT ![p] = @ \cup {c}] \/ added' = added
  BY DEF AddCandidate
<1>5. added' \in [Peers -> SUBSET Candidates]
  <2> DEFINE more == added[p] \cup {c}
  <2>1. more \in SUBSET Candidates
    BY <1>2 DEF Typed
  <2>2. added' = [added EXCEPT ![p] = more] \/ added' = added
    BY <1>4
  <2> HIDE DEF more
  <2> QED  BY <2>1, <2>2 DEF Typed
<1>6. \/ pendingCandidates' = [pendingCandidates EXCEPT ![p] = Append(@, c)]
      \/ pendingCandidates' = pendingCandidates
  BY DEF AddCandidate
<1>7. pendingCandidates' \in [Peers -> Seq(Candidates)]
  <2>1. Append(pendingCandidates[p], c) \in Seq(Candidates)
    BY <1>2 DEF Typed
  <2> HIDE DEF c
  <2> QED  BY <1>6, <2>1 DEF Typed
<1>8. UNCHANGED <<sig, local, remote, needs, made, gathered, makingOffer, ignoreOffer,
                  answerPending, sock, pendingSignals, up, down, conn, buffer,
                  events, lost, overtaken>>
  BY DEF AddCandidate
<1> QED  BY <1>3, <1>5, <1>7, <1>8 DEF Typed

\* The flush takes itself off the chain, and at most the answer after it.
LEMMA FlushOps ==
    ASSUME NEW p \in Peers, Flush(p)
    PROVE  \/ ops' = [ops EXCEPT ![p] = Tail(@)]
           \/ /\ ops' = [ops EXCEPT ![p] = Tail(Tail(@))]
              /\ Len(ops[p]) > 1 /\ ops[p][2].op = "createAnswer"
<1> DEFINE kept == {pendingCandidates[p][i] : i \in DOMAIN pendingCandidates[p]}
           mine == {c \in kept : c.of = remote[p]}
<1>1. ops' = [ops EXCEPT ![p] =
                  IF mine # kept /\ Len(@) > 1 /\ @[2].op = "createAnswer"
                  THEN Tail(Tail(@)) ELSE Tail(@)]
  BY DEF Flush
<1> HIDE DEF kept, mine
<1> QED  BY <1>1

LEMMA FlushType ==
    ASSUME Typed, NEW p \in Peers, Flush(p)
    PROVE  Typed'
<1> DEFINE kept == {pendingCandidates[p][i] : i \in DOMAIN pendingCandidates[p]}
           mine == {c \in kept : c.of = remote[p]}
<1>1. ops[p] \in Seq(Ops) /\ ops[p] # <<>>
  BY DEF Flush, At, Typed
<1>2. Tail(ops[p]) \in Seq(Ops)
  BY <1>1, TailOf
<1>3. Len(ops[p]) > 1 => Tail(Tail(ops[p])) \in Seq(Ops)
  <2> SUFFICES ASSUME Len(ops[p]) > 1 PROVE Tail(Tail(ops[p])) \in Seq(Ops)
    OBVIOUS
  <2> QED  BY <1>1, TailOfTail
<1>4. ops' \in [Peers -> Seq(Ops)]
  <2>1. ops \in [Peers -> Seq(Ops)]
    BY DEF Typed
  <2>2. CASE ops' = [ops EXCEPT ![p] = Tail(@)]
    BY <1>2, <2>1, <2>2
  <2>3. CASE ops' = [ops EXCEPT ![p] = Tail(Tail(@))] /\ Len(ops[p]) > 1
    BY <1>3, <2>1, <2>3
  <2> QED  BY <2>2, <2>3, FlushOps
<1>5. mine \subseteq Candidates
  BY DEF Typed
<1>6. added' = [added EXCEPT ![p] = @ \cup mine]
  BY DEF Flush
<1> HIDE DEF mine
<1>7. added' \in [Peers -> SUBSET Candidates]
  BY <1>5, <1>6 DEF Typed
<1>8. pendingCandidates' \in [Peers -> Seq(Candidates)]
  BY DEF Flush, Typed
<1>9. UNCHANGED <<sig, local, remote, needs, made, gathered, makingOffer, ignoreOffer,
                  answerPending, sock, pendingSignals, up, down, conn, buffer,
                  events, lost, overtaken>>
  BY DEF Flush
<1> QED  BY <1>4, <1>7, <1>8, <1>9 DEF Typed

LEMMA ReceiveType ==
    ASSUME Typed, NEW p \in Peers, Receive(p)
    PROVE  Typed'
<1> DEFINE signal == Head(down[p])
<1>1. down[p] \in Seq(Signals) /\ down[p] # <<>>
  BY DEF Receive, Typed
<1>2. signal \in Signals
  BY <1>1, TailOf
<1>3. \A s \in Signals : /\ s.type = "candidate" => s \in Candidates
                         /\ s.type # "candidate" => s \in Descriptions
  BY DEF Signals, Descriptions, Candidates
<1>4. ops' \in [Peers -> Seq(Ops)]
  <2>1. CASE signal.type = "candidate"
    <3>1. [op |-> "add", c |-> signal] \in Ops
      BY <1>2, <1>3, <2>1, Operations
    <3>2. Queue(p, [op |-> "add", c |-> signal])
      BY <2>1 DEF Receive
    <3> HIDE DEF signal
    <3> QED  BY <3>1, <3>2, QueueType DEF Typed
  <2>2. CASE signal.type # "candidate"
    <3>1. [op |-> "setRemote", d |-> signal] \in Ops
      BY <1>2, <1>3, <2>2, Operations
    <3>2. ops' = ops \/ Queue(p, [op |-> "setRemote", d |-> signal])
      BY <2>2 DEF Receive
    <3> HIDE DEF signal
    <3> QED  BY <3>1, <3>2, QueueType DEF Typed
  <2> QED  BY <2>1, <2>2
<1>5. /\ ignoreOffer' = ignoreOffer
            \/ \E b \in BOOLEAN : ignoreOffer' = [ignoreOffer EXCEPT ![p] = b]
      /\ answerPending' = answerPending
            \/ \E b \in BOOLEAN : answerPending' = [answerPending EXCEPT ![p] = b]
  <2>1. Ignores(p, signal) \in BOOLEAN /\ (signal.type = "answer") \in BOOLEAN
    BY DEF Ignores, Polite
  <2>2. CASE signal.type = "candidate"
    BY <2>2 DEF Receive
  <2>3. CASE signal.type # "candidate"
    <3>1. ignoreOffer' = [ignoreOffer EXCEPT ![p] = Ignores(p, signal)]
      BY <2>3 DEF Receive
    <3>2. \/ answerPending' = answerPending
          \/ answerPending' = [answerPending EXCEPT ![p] = signal.type = "answer"]
      BY <2>3 DEF Receive
    <3> QED  BY <2>1, <3>1, <3>2
  <2> QED  BY <2>2, <2>3
<1>6. ignoreOffer' \in [Peers -> BOOLEAN] /\ answerPending' \in [Peers -> BOOLEAN]
  BY <1>5 DEF Typed
<1>7. Tail(down[p]) \in Seq(Signals) /\ down' = [down EXCEPT ![p] = Tail(@)]
  BY <1>1, TailOf DEF Receive
<1>8. down' \in [Peers -> Seq(Signals)]
  BY <1>7 DEF Typed
<1>9. UNCHANGED <<sig, local, remote, needs, made, gathered, added, makingOffer,
                  pendingCandidates, sock, pendingSignals, up, conn, buffer,
                  events, lost, overtaken>>
  BY DEF Receive
<1> QED  BY <1>4, <1>6, <1>8, <1>9 DEF Typed

LEMMA GatherType ==
    ASSUME Typed, NEW p \in Peers, Gather(p)
    PROVE  Typed'
<1>1. local[p] \in Descriptions
  BY DEF Gather, Typed
<1>2. CandidateOf(local[p]) \in Signals
  BY <1>1 DEF CandidateOf, Signals, Candidates
<1>3. /\ sock' \in [Peers -> {"down", "open", "fatal"}]
      /\ pendingSignals' \in [Peers -> Seq(Signals)]
      /\ up' \in [Peers -> Seq(Signals)]
      /\ down' \in [Peers -> Seq(Signals)]
  BY <1>2, EmitType DEF Gather
<1>4. gathered' \in [Peers -> SUBSET Descriptions]
  BY <1>1 DEF Gather, Typed
<1> QED  BY <1>3, <1>4 DEF Gather, Typed

LEMMA RestartIceType ==
    ASSUME Typed, NEW p \in Peers, RestartIce(p)
    PROVE  Typed'
<1>1. events' \in 0..MaxEvents
  BY BoundsAssumption DEF RestartIce, Typed
<1> QED  BY <1>1 DEF RestartIce, Typed

\* Steps of the sockets and of the broker.
LEMMA FlushKeptType ==
    ASSUME Typed, NEW p \in Peers, FlushKept(p)
    PROVE  Typed'
<1>1. down[p] \o buffer[p] \in Seq(Signals)
  BY JoinOf DEF Typed
<1>2. down' \in [Peers -> Seq(Signals)] /\ buffer' \in [Peers -> Seq(Signals)]
  BY <1>1 DEF FlushKept, Typed
<1> QED  BY <1>2 DEF FlushKept, Typed

LEMMA ForwardType ==
    ASSUME Typed, NEW p \in Peers, Forward(p)
    PROVE  Typed'
<1> DEFINE q == Other(p)
<1>1. up[p] \in Seq(Signals) /\ up[p] # <<>> /\ q \in Peers
  BY DEF Forward, Typed, Other, Peers
<1>2. Tail(up[p]) \in Seq(Signals) /\ Head(up[p]) \in Signals
  BY <1>1, TailOf
<1>3. up' \in [Peers -> Seq(Signals)]
  BY <1>2 DEF Forward, Typed
<1>4. \/ down' = [down EXCEPT ![q] = Append(@, Head(up[p]))] /\ buffer' = buffer
      \/ down' = down /\ buffer' = [buffer EXCEPT ![q] = Append(@, Head(up[p]))]
  BY DEF Forward
<1> HIDE DEF q
<1>5. down' \in [Peers -> Seq(Signals)] /\ buffer' \in [Peers -> Seq(Signals)]
  <2>1. \A f \in [Peers -> Seq(Signals)] :
            [f EXCEPT ![q] = Append(@, Head(up[p]))] \in [Peers -> Seq(Signals)]
    BY <1>1, <1>2
  <2>2. down \in [Peers -> Seq(Signals)] /\ buffer \in [Peers -> Seq(Signals)]
    BY DEF Typed
  <2> QED  BY <1>4, <2>1, <2>2
<1>6. overtaken' \in BOOLEAN
  BY DEF Forward, Typed
<1> QED  BY <1>3, <1>5, <1>6 DEF Forward, Typed

LEMMA ClosedType ==
    ASSUME Typed, NEW p \in Peers, NEW state \in {"down", "fatal"}, Closed(p, state)
    PROVE  /\ sock' \in [Peers -> {"down", "open", "fatal"}]
           /\ conn' \in [Peers -> {"none", "opening", "attaching", "attached"}]
           /\ up' \in [Peers -> Seq(Signals)] /\ down' \in [Peers -> Seq(Signals)]
           /\ lost' \in BOOLEAN
BY DEF Closed, Typed

LEMMA SocketType ==
    ASSUME Typed, NEW p \in Peers,
           \/ Connect(p) \/ Attach(p) \/ FinishAttach(p)
           \/ ForwardEarly(p) \/ Drop(p)
    PROVE  Typed'
<1>1. CASE Connect(p)
  BY <1>1 DEF Connect, Typed
<1>2. CASE Attach(p)
  <2>1. CASE p = "host"
    BY <1>2, <2>1, FlushKeptType DEF Attach
  <2>2. CASE p # "host"
    BY <1>2, <2>2 DEF Attach, Typed
  <2> QED  BY <2>1, <2>2
<1>3. CASE FinishAttach(p)
  BY <1>3, FlushKeptType DEF FinishAttach
<1>4. CASE ForwardEarly(p)
  BY <1>4, ClosedType DEF ForwardEarly, Typed
<1>5. CASE Drop(p)
  <2>1. events' \in 0..MaxEvents
    BY <1>5, BoundsAssumption DEF Drop, Typed
  <2> QED  BY <1>5, <2>1, ClosedType DEF Drop, Typed
<1> QED  BY <1>1, <1>2, <1>3, <1>4, <1>5

LEMMA RestartBrokerType == ASSUME Typed, RestartBroker PROVE Typed'
<1>1. events' \in 0..MaxEvents
  BY BoundsAssumption DEF RestartBroker, Typed
<1>2. lost' \in BOOLEAN
  BY DEF RestartBroker, Typed
<1>3. sock' \in [Peers -> {"down", "open", "fatal"}]
  BY DEF RestartBroker, Typed
<1>4. /\ up' \in [Peers -> Seq(Signals)] /\ down' \in [Peers -> Seq(Signals)]
      /\ buffer' \in [Peers -> Seq(Signals)]
  BY DEF RestartBroker
<1> QED  BY <1>1, <1>2, <1>3, <1>4 DEF RestartBroker, Typed

\* What moves the chain, the signaling state or the flags of the engine.
Engine(p) == NegotiationNeeded(p) \/ RunChain(p) \/ Receive(p)
engineRest == <<sig, remote, ops, makingOffer, answerPending>>

LEMMA OtherSteps ==
    ASSUME [Next]_vars
    PROVE  (\E p \in Peers : Engine(p)) \/ UNCHANGED engineRest
<1> USE DEF engineRest
<1>1. CASE UNCHANGED vars
  BY <1>1 DEF vars
<1>2. CASE RestartBroker
  BY <1>2 DEF RestartBroker
<1>3. ASSUME NEW p \in Peers, Gather(p) \/ RestartIce(p)
      PROVE  UNCHANGED engineRest
  BY <1>3 DEF Gather, RestartIce
<1>4. ASSUME NEW p \in Peers,
             \/ Connect(p) \/ Attach(p) \/ FinishAttach(p) \/ Forward(p)
             \/ ForwardEarly(p) \/ Drop(p)
      PROVE  UNCHANGED engineRest
  BY <1>4 DEF Connect, Attach, FinishAttach, FlushKept, Forward, ForwardEarly, Drop
<1>5. ASSUME NEW p \in Peers, Engine(p)
      PROVE  \E q \in Peers : Engine(q)
  BY <1>5
<1> HIDE DEF engineRest
<1> QED  BY <1>1, <1>2, <1>3, <1>4, <1>5 DEF Next, Step, Engine

LEMMA TypedStep == ASSUME Typed, Remembered, [Next]_vars PROVE Typed'
<1>1. CASE UNCHANGED vars
  BY <1>1 DEF vars, Typed
<1>2. CASE RestartBroker
  BY <1>2, RestartBrokerType
<1>3. ASSUME NEW p \in Peers, RunChain(p) PROVE Typed'
  BY <1>3, CreateOfferType, SetLocalType, SetRemoteType, CreateAnswerType,
     AddCandidateType, FlushType DEF RunChain
<1>4. ASSUME NEW p \in Peers, NegotiationNeeded(p) \/ Receive(p) PROVE Typed'
  BY <1>4, NegotiationNeededType, ReceiveType
<1>5. ASSUME NEW p \in Peers,
             \/ Gather(p) \/ RestartIce(p) \/ Forward(p) \/ Connect(p)
             \/ Attach(p) \/ FinishAttach(p) \/ ForwardEarly(p) \/ Drop(p)
      PROVE  Typed'
  BY <1>5, GatherType, RestartIceType, ForwardType, SocketType
<1> QED  BY <1>1, <1>2, <1>3, <1>4, <1>5 DEF Next, Step

LEMMA RememberedStep == ASSUME Typed, Remembered, [Next]_vars PROVE Remembered'
<1>1. CASE UNCHANGED engineRest
  BY <1>1 DEF engineRest, Remembered
<1>2. ASSUME NEW p \in Peers, Engine(p) PROVE Remembered'
  <2>1. CASE SetRemote(p)
    <3> DEFINE d == Head(ops[p]).d
    <3>1. d \in Descriptions
      <4>1. ops[p] \in Seq(Ops) /\ ops[p] # <<>> /\ Head(ops[p]).op = "setRemote"
        BY <2>1 DEF SetRemote, At, Typed
      <4> QED  BY <4>1, TailOf, OpsAre
    <3>2. \/ remote' = [remote EXCEPT ![p] = d]
          \/ remote' = remote /\ sig' = sig
      BY <2>1 DEF SetRemote
    <3>3. \A q \in Peers : q # p => sig'[q] = sig[q]
      <4>1. \/ sig' = [sig EXCEPT ![p] = "have-remote-offer"]
            \/ sig' = [sig EXCEPT ![p] = "stable"]
            \/ sig' = sig
        BY <2>1 DEF SetRemote
      <4> QED  BY <4>1 DEF Typed
    <3> HIDE DEF d
    <3> QED  BY <3>1, <3>2, <3>3 DEF Remembered, Typed
  <2>2. CASE SetLocal(p)
    <3>1. /\ remote' = remote
          /\ \/ sig' = sig
             \/ \E s \in {"stable", "have-local-offer"} : sig' = [sig EXCEPT ![p] = s]
      BY <2>2 DEF SetLocal
    <3>2. "stable" # "have-remote-offer" /\ "have-local-offer" # "have-remote-offer"
      OBVIOUS
    <3> QED  BY <3>1, <3>2 DEF Remembered, Typed
  <2>3. CASE ~SetRemote(p) /\ ~SetLocal(p)
    <3>1. UNCHANGED <<sig, remote>>
      BY <1>2, <2>3 DEF Engine, RunChain, NegotiationNeeded, Receive, CreateOffer,
         CreateAnswer, AddCandidate, Flush
    <3> QED  BY <3>1 DEF Remembered
  <2> QED  BY <2>1, <2>2, <2>3
<1> QED  BY <1>1, <1>2, OtherSteps

-----------------------------------------------------------------------------
(* The host *)

\* The guest's engine is its own.
LEMMA OwnEngine ==
    ASSUME Typed, NEW p \in Peers, Engine(p), p # "host"
    PROVE  /\ ops'["host"] = ops["host"] /\ sig'["host"] = sig["host"]
           /\ makingOffer'["host"] = makingOffer["host"]
           /\ answerPending'["host"] = answerPending["host"]
<1> USE DEF Typed, Peers
<1>1. \E chain : ops' = [ops EXCEPT ![p] = chain] \/ ops' = ops
  <2>1. CASE Flush(p)
    BY <2>1, FlushOps
  <2>2. CASE ~Flush(p)
    BY <2>2 DEF Engine, RunChain, NegotiationNeeded, CreateOffer, SetLocal,
       SetRemote, CreateAnswer, AddCandidate, Receive, Continue, Done, Queue
  <2> QED  BY <2>1, <2>2
<1>2. \E s : sig' = [sig EXCEPT ![p] = s] \/ sig' = sig
  BY DEF Engine, RunChain, NegotiationNeeded, CreateOffer, SetLocal,
     SetRemote, CreateAnswer, AddCandidate, Receive, Flush
<1>3. \E m : makingOffer' = [makingOffer EXCEPT ![p] = m] \/ makingOffer' = makingOffer
  BY DEF Engine, RunChain, NegotiationNeeded, CreateOffer, SetLocal,
     SetRemote, CreateAnswer, AddCandidate, Receive, Flush
<1>4. \E m : answerPending' = [answerPending EXCEPT ![p] = m]
                 \/ answerPending' = answerPending
  BY DEF Engine, RunChain, NegotiationNeeded, CreateOffer, SetLocal,
     SetRemote, CreateAnswer, AddCandidate, Receive, Flush
<1> QED  BY <1>1, <1>2, <1>3, <1>4

LEMMA HostTypes ==
    ASSUME Typed
    PROVE  /\ "host" \in Peers /\ ops["host"] \in Seq(Ops)
           /\ \A p \in Peers, s \in {"stable", "have-local-offer"} :
                  sig' = [sig EXCEPT ![p] = s] => sig'[p] = s
           /\ \A p \in Peers, m \in BOOLEAN :
                  /\ makingOffer' = [makingOffer EXCEPT ![p] = m] => makingOffer'[p] = m
                  /\ answerPending' = [answerPending EXCEPT ![p] = m] =>
                         answerPending'[p] = m
BY DEF Typed, Peers

LEMMA InitHostChain == Init => HostChain
BY DEF Init, HostChain, Single, Answered, Peers

LEMMA HostNeedsNegotiation ==
    ASSUME Typed, HostChain, NegotiationNeeded("host")
    PROVE  HostChain'
<1> DEFINE chain == ops["host"]
           x == [op |-> "createOffer"]
<1>1. x \in Ops /\ Making(x) /\ chain = << >> /\ chain \in Seq(Ops)
  BY Operations, HostTypes DEF Making, NegotiationNeeded
<1>2. ops'["host"] = chain \o <<x>> /\ <<x>> \in Seq(Ops)
  <2>1. Queue("host", x)
    BY DEF NegotiationNeeded
  <2> HIDE DEF x
  <2>2. ops'["host"] = Append(chain, x)
    BY <1>1, <2>1, QueueType, HostTypes DEF Typed
  <2> HIDE DEF chain
  <2> QED  BY <1>1, <2>2, AppendOf
<1>3. /\ sig'["host"] = "stable"
      /\ answerPending'["host"] = answerPending["host"]
  BY DEF NegotiationNeeded
<1>4. \A i \in DOMAIN chain : ~Making(chain[i]) /\ ~RemoteOffer(chain[i])
  BY <1>1
<1>5. answerPending["host"] => Pends(chain)
  BY DEF HostChain
<1> HIDE DEF chain, x
<1>6. makingOffer'["host"]
  BY HostTypes DEF NegotiationNeeded, Typed
<1>7. Single(chain \o <<x>>, makingOffer'["host"])
  BY <1>1, <1>4, <1>6, JoinMaking
<1>8. answerPending["host"] => Pends(chain \o <<x>>)
  BY <1>1, <1>2, <1>5, JoinPends
<1> QED  BY <1>2, <1>3, <1>7, <1>8 DEF HostChain

LEMMA HostCreatesOffer ==
    ASSUME Typed, HostChain, CreateOffer("host")
    PROVE  HostChain'
<1> DEFINE chain == ops["host"]
           rest == Tail(chain)
           x == [op |-> "setLocal", d |-> Offer("host", made["host"] + 1)]
<1>1. chain \in Seq(Ops) /\ chain # << >> /\ Head(chain).op = "createOffer"
  BY HostTypes DEF CreateOffer, At
<1>2. rest \in Seq(Ops) /\ Making(chain[1]) /\ ~RemoteAnswer(chain[1])
  BY <1>1, TailOf DEF Making, RemoteAnswer
<1>3. /\ Single(chain, makingOffer["host"])
      /\ sig["host"] = "have-local-offer" => Answered(chain)
      /\ answerPending["host"] => Pends(chain)
  BY DEF HostChain
<1>4. 1 \in DOMAIN chain
  BY <1>1, TailOf
<1>5. makingOffer["host"]
  BY <1>2, <1>3, <1>4 DEF Single
<1>6. x \in Ops /\ Making(x)
  <2>1. Offer("host", made["host"] + 1) \in Descriptions
    BY HostTypes DEF Offer, Descriptions, Typed
  <2> QED  BY <2>1, Operations DEF Making, Offer
<1>7. sig' = sig /\ answerPending' = answerPending
  BY DEF CreateOffer
<1>8. CASE sig["host"] = "stable"
  <2>1. ops'["host"] = rest \o <<x>> /\ <<x>> \in Seq(Ops)
    <3>1. Continue("host", <<x>>)
      BY <1>8 DEF CreateOffer
    <3>2. <<x>> \in Seq(Ops)
      BY <1>6
    <3> HIDE DEF x
    <3> QED  BY <1>1, <3>1, <3>2, ContinueType, HostTypes DEF Typed
  <2>2. makingOffer' = makingOffer
    BY <1>8 DEF CreateOffer
  <2> HIDE DEF chain, x
  <2>3. \A i \in DOMAIN rest : ~Making(rest[i]) /\ ~RemoteOffer(rest[i])
    BY <1>1, <1>2, <1>3, PopMaking
  <2>4. answerPending["host"] => Pends(rest)
    BY <1>1, <1>2, <1>3, PopPends
  <2> HIDE DEF rest
  <2>5. Single(rest \o <<x>>, makingOffer["host"])
    BY <1>2, <1>5, <1>6, <2>3, JoinMaking
  <2>6. answerPending["host"] => Pends(rest \o <<x>>)
    BY <1>2, <2>1, <2>4, JoinPends
  <2> QED  BY <1>7, <1>8, <2>1, <2>2, <2>5, <2>6 DEF HostChain
<1>9. CASE sig["host"] # "stable"
  <2>1. ops'["host"] = rest
    BY <1>1, <1>9, DoneType, HostTypes DEF CreateOffer, Typed
  <2> HIDE DEF chain
  <2>2. \A i \in DOMAIN rest : ~Making(rest[i])
    BY <1>1, <1>2, <1>3, PopMaking
  <2>3. answerPending["host"] => Pends(rest)
    BY <1>1, <1>2, <1>3, PopPends
  <2>4. sig["host"] = "have-local-offer" => Answered(rest)
    BY <1>1, <1>2, <1>3, PopAnswered
  <2>5. Single(rest, makingOffer'["host"])
    BY <2>2 DEF Single
  <2> QED  BY <1>7, <2>1, <2>3, <2>4, <2>5 DEF HostChain
<1> QED  BY <1>8, <1>9

\* Setting an own description: the offer in the making is made, and nothing
\* else was; an answer leaves the offers alone.
LEMMA HostSetsLocal ==
    ASSUME Typed, HostChain, SetLocal("host")
    PROVE  HostChain'
<1> DEFINE chain == ops["host"]
           rest == Tail(chain)
           d == Head(chain).d
<1>1. chain \in Seq(Ops) /\ chain # << >> /\ Head(chain).op = "setLocal"
  BY HostTypes DEF SetLocal, At
<1>2. chain[1] \in Ops /\ Head(chain) = chain[1] /\ ~RemoteAnswer(chain[1])
  BY <1>1, TailOf DEF RemoteAnswer
<1>3. /\ Single(chain, makingOffer["host"])
      /\ sig["host"] = "have-local-offer" => Answered(chain)
      /\ answerPending["host"] => Pends(chain)
  BY DEF HostChain
<1>4. ops'["host"] = rest
  BY <1>1, DoneType, HostTypes DEF SetLocal, Typed
<1>5. answerPending' = answerPending
  BY DEF SetLocal
<1>6. answerPending["host"] => Pends(rest)
  BY <1>1, <1>2, <1>3, PopPends
<1>7. CASE d.type = "offer"
  <2>1. Making(chain[1])
    BY <1>1, <1>2, <1>7 DEF Making
  <2> HIDE DEF chain
  <2>2. \A i \in DOMAIN rest : ~Making(rest[i]) /\ ~RemoteOffer(rest[i])
    BY <1>1, <1>3, <2>1, PopMaking
  <2> HIDE DEF rest
  <2>3. Single(rest, makingOffer'["host"]) /\ Answered(rest)
    BY <2>2 DEF Single, Answered
  <2> QED  BY <1>4, <1>5, <1>6, <2>3 DEF HostChain
<1>8. CASE d.type # "offer"
  <2>1. makingOffer' = makingOffer
    BY <1>8 DEF SetLocal
  <2>2. sig'["host"] = sig["host"] \/ sig'["host"] = "stable"
    <3>1. sig' = sig \/ sig' = [sig EXCEPT !["host"] = "stable"]
      BY <1>8 DEF SetLocal
    <3> QED  BY <3>1, HostTypes
  <2> HIDE DEF chain
  <2>3. Single(rest, makingOffer["host"])
    BY <1>1, <1>3, PopSingle
  <2>4. sig["host"] = "have-local-offer" => Answered(rest)
    BY <1>1, <1>2, <1>3, PopAnswered
  <2>5. sig'["host"] = "have-local-offer" => Answered(rest)
    BY <2>2, <2>4
  <2> QED  BY <1>4, <1>5, <1>6, <2>1, <2>3, <2>5 DEF HostChain
<1> QED  BY <1>7, <1>8

\* Joining operations that are neither an offer in the making nor an offer to
\* be set, when the first one is done.
LEMMA HostGoesOn ==
    ASSUME Typed, HostChain, ops["host"] # << >>, ~RemoteAnswer(ops["host"][1]),
           NEW next \in Seq(Ops),
           \A k \in DOMAIN next : ~Making(next[k]) /\ ~RemoteOffer(next[k]),
           ops'["host"] = Tail(ops["host"]) \o next,
           UNCHANGED <<sig, makingOffer, answerPending>>
    PROVE  HostChain'
<1> DEFINE chain == ops["host"]
           rest == Tail(chain)
<1>1. chain \in Seq(Ops)
  BY HostTypes
<1>2. rest \in Seq(Ops)
  BY <1>1, TailOf
<1>3. /\ Single(chain, makingOffer["host"])
      /\ sig["host"] = "have-local-offer" => Answered(chain)
      /\ answerPending["host"] => Pends(chain)
  BY DEF HostChain
<1>4. chain # << >> /\ ~RemoteAnswer(chain[1]) /\ ops'["host"] = rest \o next
  OBVIOUS
<1> HIDE DEF chain
<1>5. Single(rest, makingOffer["host"])
  BY <1>1, <1>3, <1>4, PopSingle
<1>6. sig["host"] = "have-local-offer" => Answered(rest)
  BY <1>1, <1>3, <1>4, PopAnswered
<1>7. answerPending["host"] => Pends(rest)
  BY <1>1, <1>3, <1>4, PopPends
<1> HIDE DEF rest
<1>8. Single(rest \o next, makingOffer["host"])
  BY <1>2, <1>5, JoinSingle
<1>9. sig["host"] = "have-local-offer" => Answered(rest \o next)
  BY <1>2, <1>6, JoinAnswered
<1>10. answerPending["host"] => Pends(rest \o next)
  BY <1>2, <1>7, JoinPends
<1> QED  BY <1>4, <1>8, <1>9, <1>10 DEF HostChain

LEMMA HostIsDone ==
    ASSUME Typed, HostChain, ops["host"] # << >>, ~RemoteAnswer(ops["host"][1]),
           Done("host"), UNCHANGED <<sig, makingOffer, answerPending>>
    PROVE  HostChain'
<1> DEFINE next == << >>
<1>1. /\ next \in Seq(Ops)
      /\ \A k \in DOMAIN next : ~Making(next[k]) /\ ~RemoteOffer(next[k])
  OBVIOUS
<1>2. Continue("host", next)
  BY DEF Done
<1> HIDE DEF next
<1>3. ops'["host"] = Tail(ops["host"]) \o next
  BY <1>1, <1>2, ContinueType, HostTypes DEF Typed
<1> QED  BY <1>1, <1>3, HostGoesOn

LEMMA HostCreatesAnswer ==
    ASSUME Typed, Remembered, HostChain, CreateAnswer("host")
    PROVE  HostChain'
<1>1. ops["host"] # << >> /\ ops["host"] \in Seq(Ops)
      /\ Head(ops["host"]).op = "createAnswer"
  BY HostTypes DEF CreateAnswer, At
<1>2. ~RemoteAnswer(ops["host"][1])
  BY <1>1, TailOf DEF RemoteAnswer
<1>3. UNCHANGED <<sig, makingOffer, answerPending>>
  BY DEF CreateAnswer
<1>4. CASE sig["host"] = "have-remote-offer"
  <2> DEFINE x == [op |-> "setLocal", d |-> AnswerTo("host", remote["host"])]
             next == <<x>>
  <2>1. AnswerTo("host", remote["host"]) \in Descriptions
    BY <1>4, HostTypes DEF Remembered, AnswerTo, Descriptions
  <2>2. x \in Ops
    BY <2>1, Operations
  <2>3. ~Making(x) /\ ~RemoteOffer(x)
    BY DEF Making, RemoteOffer, AnswerTo
  <2>4. Continue("host", next)
    BY <1>4 DEF CreateAnswer
  <2> HIDE DEF x
  <2>5. /\ next \in Seq(Ops)
        /\ \A k \in DOMAIN next : ~Making(next[k]) /\ ~RemoteOffer(next[k])
    BY <2>2, <2>3
  <2> HIDE DEF next
  <2>6. ops'["host"] = Tail(ops["host"]) \o next
    BY <1>1, <2>4, <2>5, ContinueType, HostTypes DEF Typed
  <2> QED  BY <1>1, <1>2, <1>3, <2>5, <2>6, HostGoesOn
<1>5. CASE sig["host"] # "have-remote-offer"
  BY <1>1, <1>2, <1>3, <1>5, HostIsDone DEF CreateAnswer
<1> QED  BY <1>4, <1>5

LEMMA HostAddsCandidate ==
    ASSUME Typed, HostChain, AddCandidate("host")
    PROVE  HostChain'
<1>1. ops["host"] # << >> /\ ops["host"] \in Seq(Ops) /\ Head(ops["host"]).op = "add"
  BY HostTypes DEF AddCandidate, At
<1>2. ~RemoteAnswer(ops["host"][1])
  BY <1>1, TailOf DEF RemoteAnswer
<1>3. UNCHANGED <<sig, makingOffer, answerPending>>
  BY DEF AddCandidate
<1> QED  BY <1>1, <1>2, <1>3, HostIsDone DEF AddCandidate

LEMMA HostFlushes ==
    ASSUME Typed, HostChain, Flush("host")
    PROVE  HostChain'
<1> DEFINE chain == ops["host"]
           rest == Tail(chain)
<1>1. chain # << >> /\ chain \in Seq(Ops) /\ Head(chain).op = "flush"
  BY HostTypes DEF Flush, At
<1>2. ~RemoteAnswer(chain[1])
  BY <1>1, TailOf DEF RemoteAnswer
<1>3. /\ Single(chain, makingOffer["host"])
      /\ sig["host"] = "have-local-offer" => Answered(chain)
      /\ answerPending["host"] => Pends(chain)
  BY DEF HostChain
<1>4. UNCHANGED <<sig, makingOffer, answerPending>>
  BY DEF Flush
<1>5. \/ ops'["host"] = rest
      \/ ops'["host"] = Tail(rest) /\ Len(chain) > 1 /\ chain[2].op = "createAnswer"
  <2>1. \/ ops' = [ops EXCEPT !["host"] = rest]
        \/ /\ ops' = [ops EXCEPT !["host"] = Tail(rest)]
           /\ Len(chain) > 1 /\ chain[2].op = "createAnswer"
    BY FlushOps, HostTypes
  <2>2. \A t : ops' = [ops EXCEPT !["host"] = t] => ops'["host"] = t
    BY HostTypes DEF Typed
  <2> HIDE DEF chain, rest
  <2> QED  BY <2>1, <2>2
<1>6. rest \in Seq(Ops)
  BY <1>1, TailOf
<1>7. Len(chain) > 1 => rest # << >> /\ rest[1] = chain[2]
  <2> SUFFICES ASSUME Len(chain) > 1 PROVE rest # << >> /\ rest[1] = chain[2]
    OBVIOUS
  <2> HIDE DEF chain
  <2> QED  BY <1>1, TailOfTail
<1> HIDE DEF chain
<1>8. /\ Single(rest, makingOffer["host"])
      /\ sig["host"] = "have-local-offer" => Answered(rest)
      /\ answerPending["host"] => Pends(rest)
  BY <1>1, <1>2, <1>3, PopSingle, PopAnswered, PopPends
<1> HIDE DEF rest
<1>9. CASE ops'["host"] = rest
  BY <1>4, <1>8, <1>9 DEF HostChain
<1>10. CASE ops'["host"] = Tail(rest) /\ Len(chain) > 1 /\ chain[2].op = "createAnswer"
  <2>1. rest # << >> /\ ~RemoteAnswer(rest[1])
    BY <1>7, <1>10 DEF RemoteAnswer
  <2>2. /\ Single(Tail(rest), makingOffer["host"])
        /\ sig["host"] = "have-local-offer" => Answered(Tail(rest))
        /\ answerPending["host"] => Pends(Tail(rest))
    BY <1>6, <1>8, <2>1, PopSingle, PopAnswered, PopPends
  <2> QED  BY <1>4, <1>10, <2>2 DEF HostChain
<1> QED  BY <1>5, <1>9, <1>10

\* What an own offer waits for comes first: while it is out, the first
\* description to be set is an answer.
LEMMA AnswerComesFirst ==
    ASSUME Typed, HostChain, sig["host"] = "have-local-offer",
           ops["host"] # << >>
    PROVE  ~RemoteOffer(ops["host"][1])
<1>1. ops["host"] \in Seq(Ops) /\ Answered(ops["host"])
  BY HostTypes DEF HostChain
<1>2. 1 \in DOMAIN ops["host"] /\ \A j \in DOMAIN ops["host"] : ~(j < 1)
  BY <1>1, TailOf
<1> QED  BY <1>1, <1>2 DEF Answered

LEMMA HostSetsRemote ==
    ASSUME Typed, HostChain, SetRemote("host")
    PROVE  HostChain' /\ (sig["host"] = "have-local-offer" =>
                              sig'["host"] # "have-remote-offer")
<1> DEFINE chain == ops["host"]
           rest == Tail(chain)
           d == Head(chain).d
           next == Follow("host", d)
<1>1. chain # << >> /\ chain \in Seq(Ops) /\ Head(chain).op = "setRemote"
      /\ Head(chain) = chain[1]
  BY HostTypes, TailOf DEF SetRemote, At
<1>2. Single(chain, makingOffer["host"])
  BY DEF HostChain
<1>3. rest \in Seq(Ops)
  BY <1>1, TailOf
<1>4. Single(rest, makingOffer["host"])
  <2> HIDE DEF chain
  <2> QED  BY <1>1, <1>2, PopSingle
<1>5. /\ next \in Seq(Ops)
      /\ \A k \in DOMAIN next : next[k].op \in {"flush", "createAnswer"}
  BY FollowType
<1>6. ops'["host"] = rest \o next \/ ops'["host"] = rest
  <2>1. Continue("host", next) \/ Done("host")
    BY DEF SetRemote
  <2>2. CASE Done("host")
    BY <1>1, <2>2, DoneType, HostTypes DEF Typed
  <2>3. CASE Continue("host", next)
    <3> HIDE DEF next
    <3> QED  BY <1>1, <1>5, <2>3, ContinueType, HostTypes DEF Typed
  <2> QED  BY <2>1, <2>2, <2>3
<1>7. makingOffer' = makingOffer /\ ~answerPending'["host"]
  BY HostTypes DEF SetRemote, Typed
<1>8. /\ sig'["host"] # "have-local-offer"
      /\ sig["host"] = "have-local-offer" => sig'["host"] # "have-remote-offer"
  <2>1. CASE d.type = "offer"
    <3>1. RemoteOffer(chain[1])
      BY <1>1, <2>1 DEF RemoteOffer
    <3>2. sig["host"] # "have-local-offer"
      BY <1>1, <3>1, AnswerComesFirst
    <3>3. sig' = [sig EXCEPT !["host"] = "have-remote-offer"]
      BY <2>1 DEF SetRemote
    <3> QED  BY <3>2, <3>3, HostTypes DEF Typed
  <2>2. CASE d.type # "offer"
    <3>1. CASE sig["host"] = "have-local-offer"
      <4>1. sig' = [sig EXCEPT !["host"] = "stable"]
        BY <2>2, <3>1 DEF SetRemote
      <4> QED  BY <4>1, HostTypes
    <3>2. CASE sig["host"] # "have-local-offer"
      <4>1. sig' = sig
        BY <2>2, <3>2 DEF SetRemote
      <4> QED  BY <3>2, <4>1
    <3> QED  BY <3>1, <3>2
  <2> QED  BY <2>1, <2>2
<1> HIDE DEF rest, next
<1>9. Single(rest \o next, makingOffer["host"])
  <2>1. \A k \in DOMAIN next : ~Making(next[k]) /\ ~RemoteOffer(next[k])
    BY <1>5 DEF Making, RemoteOffer
  <2> QED  BY <1>3, <1>4, <1>5, <2>1, JoinSingle
<1> QED  BY <1>4, <1>6, <1>7, <1>8, <1>9 DEF HostChain

\* A signal is queued: a candidate, an answer, or an offer that does not
\* collide, so one that finds no own offer out or the answer to it waiting.
LEMMA HostReceives ==
    ASSUME Typed, HostChain, Receive("host")
    PROVE  HostChain'
<1> DEFINE chain == ops["host"]
           signal == Head(down["host"])
           add == [op |-> "add", c |-> signal]
           set == [op |-> "setRemote", d |-> signal]
<1>1. signal \in Signals
  BY HostTypes, TailOf DEF Receive, Typed
<1>2. chain \in Seq(Ops)
  BY HostTypes
<1>3. /\ Single(chain, makingOffer["host"])
      /\ sig["host"] = "have-local-offer" => Answered(chain)
      /\ answerPending["host"] => Pends(chain)
  BY DEF HostChain
<1>4. UNCHANGED <<sig, makingOffer>>
  BY DEF Receive
<1>5. CASE signal.type = "candidate"
  <2>1. signal \in Candidates
    BY <1>1, <1>5 DEF Signals, Descriptions
  <2>2. add \in Ops /\ ~Making(add) /\ ~RemoteOffer(add)
    BY <2>1, Operations DEF Making, RemoteOffer
  <2>3. Queue("host", add) /\ answerPending' = answerPending
    BY <1>5 DEF Receive
  <2> HIDE DEF add
  <2>4. ops'["host"] = Append(chain, add)
    BY <2>2, <2>3, QueueType, HostTypes DEF Typed
  <2> HIDE DEF chain
  <2>5. Append(chain, add) = chain \o <<add>> /\ <<add>> \in Seq(Ops)
        /\ \A k \in DOMAIN <<add>> : ~Making(<<add>>[k]) /\ ~RemoteOffer(<<add>>[k])
    BY <1>2, <2>2, AppendOf
  <2> DEFINE t == <<add>>
  <2>6. ops'["host"] = chain \o t /\ t \in Seq(Ops)
        /\ \A k \in DOMAIN t : ~Making(t[k]) /\ ~RemoteOffer(t[k])
    BY <2>4, <2>5
  <2> HIDE DEF t
  <2>7. Single(chain \o t, makingOffer["host"])
    BY <1>2, <1>3, <2>6, JoinSingle
  <2>8. sig["host"] = "have-local-offer" => Answered(chain \o t)
    BY <1>2, <1>3, <2>6, JoinAnswered
  <2>9. answerPending["host"] => Pends(chain \o t)
    BY <1>2, <1>3, <2>6, JoinPends
  <2> QED  BY <1>4, <2>3, <2>6, <2>7, <2>8, <2>9 DEF HostChain
<1>6. CASE signal.type # "candidate" /\ Ignores("host", signal)
  <2>1. UNCHANGED <<ops, answerPending>>
    BY <1>6 DEF Receive
  <2> QED  BY <1>3, <1>4, <2>1 DEF HostChain
<1>7. CASE signal.type # "candidate" /\ ~Ignores("host", signal)
  <2>1. signal \in Descriptions
    BY <1>1, <1>7 DEF Signals, Candidates
  <2>2. set \in Ops /\ ~Making(set) /\ (RemoteOffer(set) => signal.type = "offer")
    BY <2>1, Operations DEF Making, RemoteOffer
  <2>3. RemoteOffer(set) =>
            ~makingOffer["host"] /\ (sig["host"] = "stable" \/ answerPending["host"])
    BY <1>7, <2>2 DEF Ignores, Collides, Polite
  <2>4. Queue("host", set)
    BY <1>7 DEF Receive
  <2>5. answerPending'["host"] => RemoteAnswer(set)
    <3>1. answerPending' = [answerPending EXCEPT !["host"] = signal.type = "answer"]
      BY <1>7 DEF Receive
    <3>2. answerPending'["host"] = (signal.type = "answer")
      BY <3>1, HostTypes DEF Typed
    <3> QED  BY <3>2 DEF RemoteAnswer
  <2> HIDE DEF set
  <2>6. ops'["host"] = Append(chain, set)
    BY <2>2, <2>4, QueueType, HostTypes DEF Typed
  <2> HIDE DEF chain
  <2>7. Append(chain, set) = chain \o <<set>> /\ <<set>> \in Seq(Ops)
        /\ \A k \in DOMAIN <<set>> : <<set>>[k] = set
    BY <1>2, <2>2, AppendOf
  <2> DEFINE t == <<set>>
  <2>8. ops'["host"] = chain \o t /\ t \in Seq(Ops) /\ \A k \in DOMAIN t : t[k] = set
    BY <2>6, <2>7
  <2> HIDE DEF t
  <2>9. Single(chain \o t, makingOffer["host"])
    BY <1>2, <1>3, <2>2, <2>3, <2>8, JoinSingle
  <2>10. sig["host"] = "have-local-offer" => Answered(chain \o t)
    BY <1>2, <1>3, <2>3, <2>8, JoinAnswered
  <2>11. answerPending'["host"] => Pends(chain \o t)
    BY <1>2, <2>2, <2>5, <2>6, <2>8, AppendPends
  <2> QED  BY <1>4, <2>8, <2>9, <2>10, <2>11 DEF HostChain
<1> QED  BY <1>5, <1>6, <1>7

LEMMA HostChainStep ==
    ASSUME Typed, Remembered, HostChain, [Next]_vars
    PROVE  HostChain' /\ (sig["host"] = "have-local-offer" =>
                              sig'["host"] # "have-remote-offer")
<1> DEFINE stands == sig["host"] = "have-local-offer" =>
                         sig'["host"] # "have-remote-offer"
<1>1. ASSUME ops'["host"] = ops["host"], sig'["host"] = sig["host"],
             makingOffer'["host"] = makingOffer["host"],
             answerPending'["host"] = answerPending["host"]
      PROVE  HostChain' /\ stands
  BY <1>1 DEF HostChain
<1>2. ASSUME NEW p \in Peers, Engine(p), p # "host"
      PROVE  HostChain' /\ stands
  BY <1>1, <1>2, OwnEngine
<1>3. CASE NegotiationNeeded("host") \/ CreateOffer("host") \/ CreateAnswer("host")
           \/ AddCandidate("host") \/ Flush("host") \/ Receive("host")
  <2>1. HostChain'
    BY <1>3, HostNeedsNegotiation, HostCreatesOffer, HostCreatesAnswer,
       HostAddsCandidate, HostFlushes, HostReceives
  <2>2. sig' = sig
    BY <1>3 DEF NegotiationNeeded, CreateOffer, CreateAnswer, AddCandidate, Flush,
       Receive
  <2> QED  BY <2>1, <2>2
<1>4. CASE SetLocal("host")
  <2>1. \/ sig' = sig
        \/ \E s \in {"stable", "have-local-offer"} : sig' = [sig EXCEPT !["host"] = s]
    BY <1>4 DEF SetLocal
  <2>2. stands
    BY <2>1, HostTypes
  <2> QED  BY <1>4, <2>2, HostSetsLocal
<1>5. CASE SetRemote("host")
  BY <1>5, HostSetsRemote
<1>6. Engine("host") => HostChain' /\ stands
  BY <1>3, <1>4, <1>5 DEF Engine, RunChain
<1> HIDE DEF stands
<1>7. HostChain' /\ stands
  <2>1. (\E p \in Peers : Engine(p)) \/ UNCHANGED engineRest
    BY OtherSteps
  <2>2. ASSUME NEW p \in Peers, Engine(p) PROVE HostChain' /\ stands
    <3>1. CASE p = "host"
      BY <1>6, <2>2, <3>1
    <3>2. CASE p # "host"
      BY <1>2, <2>2, <3>2
    <3> QED  BY <3>1, <3>2
  <2>3. CASE UNCHANGED engineRest
    BY <1>1, <2>3 DEF engineRest
  <2> QED  BY <2>1, <2>2, <2>3
<1> QED  BY <1>7 DEF stands

-----------------------------------------------------------------------------
(* The way of a signal from one peer to the other *)

\* A signal leaves by pendingSignals or the socket, waits at the broker if
\* it must, comes down, and is queued to be set or added; the places of this way are
\* numbered from its end.
Stages == 1..5

Stage(p, s) ==
    IF s = 1 THEN ops[Other(p)]
    ELSE IF s = 2 THEN down[Other(p)]
    ELSE IF s = 3 THEN buffer[Other(p)]
    ELSE IF s = 4 THEN up[p] ELSE pendingSignals[p]

Places == Stages \X (Nat \ {0})

\* a is read before b.
Before(a, b) == a[1] < b[1] \/ (a[1] = b[1] /\ a[2] < b[2])

\* How a signal is at a stage: in the chain it is an operation.
Said(s, x) ==
    IF s # 1 THEN x
    ELSE IF x.type = "candidate" THEN [op |-> "add", c |-> x]
    ELSE [op |-> "setRemote", d |-> x]

\* The signal x is at a place of a stage.
Lies(seq, s, i, x) == i \in DOMAIN seq /\ seq[i] = Said(s, x)

\* The signal x that p sent is at the place a.
OnWay(p, a, x) == Lies(Stage(p, a[1]), a[1], a[2], x)

\* What is on the way now was on it before, in the same order.
Thins(p) ==
    \E f \in [Places -> Places] :
        \A a \in Places, d \in Descriptions : OnWay(p, a, d)' =>
            /\ OnWay(p, f[a], d)
            /\ \A b \in Places, e \in Descriptions :
                  OnWay(p, b, e)' /\ Before(a, b) => Before(f[a], f[b])

\* The first description was taken off the way.
Yields(p, x) ==
    \E f \in [Places -> Places], h \in Places :
        /\ OnWay(p, h, x)
        /\ \A a \in Places, d \in Descriptions : OnWay(p, a, d)' =>
              /\ OnWay(p, f[a], d) /\ Before(h, f[a])
              /\ \A b \in Places, e \in Descriptions :
                    OnWay(p, b, e)' /\ Before(a, b) => Before(f[a], f[b])

\* One description was put on the way, behind all others.
Gains(p, x) ==
    \A a \in Places, d \in Descriptions : OnWay(p, a, d)' =>
        \/ OnWay(p, a, d)
        \/ /\ d = x
           /\ \A b \in Places, e \in Descriptions : OnWay(p, b, e)' => ~Before(a, b)

LEMMA SaidIs ==
    ASSUME NEW x
    PROVE  /\ x \in Descriptions => Said(1, x) = [op |-> "setRemote", d |-> x]
           /\ x \in Candidates => Said(1, x) = [op |-> "add", c |-> x]
           /\ Said(2, x) = x /\ Said(3, x) = x /\ Said(4, x) = x /\ Said(5, x) = x
BY DEF Said, Descriptions, Candidates

\* Each peer's way, stage by stage.
LEMMA StagesOf ==
    ASSUME NEW p \in Peers
    PROVE  /\ Other(p) \in Peers /\ Other(Other(p)) = p
           /\ Stage(p, 1) = ops[Other(p)] /\ Stage(p, 2) = down[Other(p)]
           /\ Stage(p, 3) = buffer[Other(p)] /\ Stage(p, 4) = up[p]
           /\ Stage(p, 5) = pendingSignals[p]
           /\ Stage(p, 1)' = ops'[Other(p)] /\ Stage(p, 2)' = down'[Other(p)]
           /\ Stage(p, 3)' = buffer'[Other(p)] /\ Stage(p, 4)' = up'[p]
           /\ Stage(p, 5)' = pendingSignals'[p]
           /\ Stages = {1, 2, 3, 4, 5}
<1>1. Other(p) \in Peers /\ Other(Other(p)) = p
  BY DEF Other, Peers
<1>2. Stages = {1, 2, 3, 4, 5}
  BY DEF Stages
<1> QED  BY <1>1, <1>2 DEF Stage

\* Where no signal is.
Nowhere == <<0, 0>>

\* Whatever is on the way is still there, in its order and ahead of what joined
\* it; only what was at the place h may be gone.
Flows(p, h) ==
    \E g \in [Places -> Places] :
        /\ \A a \in Places, x \in Signals :
               a # h /\ OnWay(p, a, x) => OnWay(p, g[a], x)'
        /\ \A a, b \in Places, x, y \in Signals :
               a # h /\ b # h /\ OnWay(p, a, x) /\ OnWay(p, b, y) /\ Before(a, b) =>
                   Before(g[a], g[b])
        /\ \A a \in Places, d \in Descriptions : OnWay(p, a, d)' =>
               \E b \in Places : b # h /\ OnWay(p, b, d) /\ g[b] = a

\* The stage s loses its first k, no signals but the one at h.
LEMMA ShiftFlows ==
    ASSUME NEW p \in Peers, NEW s \in Stages, NEW k \in Nat, NEW h,
           \A r \in Stages, i \in Nat : r # s => <<r, i>> # h,
           \A i \in Nat \ {0}, x \in Signals : Lies(Stage(p, s), s, i, x) =>
               <<s, i>> = h \/ (k < i /\ Lies(Stage(p, s)', s, i - k, x)),
           \A i \in Nat \ {0}, d \in Descriptions : Lies(Stage(p, s)', s, i, d) =>
               Lies(Stage(p, s), s, i + k, d) /\ <<s, i + k>> # h,
           \A r \in Stages : r # s => Stage(p, r)' = Stage(p, r)
    PROVE  Flows(p, h)
<1> DEFINE g == [a \in Places |-> IF a[1] = s /\ k < a[2] THEN <<s, a[2] - k>> ELSE a]
<1>1. s \in Nat /\ \A a \in Places :
          /\ a[1] \in Stages /\ a[1] \in Nat /\ a[2] \in Nat \ {0} /\ a[2] \in Nat
          /\ a = <<a[1], a[2]>>
  BY DEF Places, Stages
<1>2. \A a \in Places : g[a] = IF a[1] = s /\ k < a[2] THEN <<s, a[2] - k>> ELSE a
  OBVIOUS
<1>3. g \in [Places -> Places]
  <2> SUFFICES ASSUME NEW a \in Places
               PROVE  (IF a[1] = s /\ k < a[2] THEN <<s, a[2] - k>> ELSE a) \in Places
    OBVIOUS
  <2>1. k < a[2] => a[2] - k \in Nat \ {0}
    BY <1>1
  <2> QED  BY <2>1 DEF Places
<1> HIDE DEF g
<1>4. \A a \in Places :
          /\ a[1] = s /\ k < a[2] => /\ g[a][1] = s /\ g[a][2] = a[2] - k
                                     /\ g[a] = <<s, a[2] - k>>
          /\ a[1] # s => g[a] = a
  <2> SUFFICES ASSUME NEW a \in Places
               PROVE  /\ a[1] = s /\ k < a[2] => /\ g[a][1] = s /\ g[a][2] = a[2] - k
                                                 /\ g[a] = <<s, a[2] - k>>
                      /\ a[1] # s => g[a] = a
    OBVIOUS
  <2>1. g[a] = IF a[1] = s /\ k < a[2] THEN <<s, a[2] - k>> ELSE a
    BY <1>2
  <2> QED  BY <2>1
<1>5. ASSUME NEW a \in Places, NEW x \in Signals, a # h, OnWay(p, a, x)
      PROVE  OnWay(p, g[a], x)' /\ (a[1] = s => k < a[2])
  <2>1. CASE a[1] = s
    <3>1. Lies(Stage(p, s), s, a[2], x) /\ <<s, a[2]>> # h
      BY <1>1, <1>5, <2>1 DEF OnWay
    <3>2. k < a[2] /\ Lies(Stage(p, s)', s, a[2] - k, x)
      BY <1>1, <3>1
    <3>3. g[a] = <<s, a[2] - k>>
      BY <1>4, <2>1, <3>2
    <3> QED  BY <3>2, <3>3 DEF OnWay, Lies, Said
  <2>2. CASE a[1] # s
    <3>1. g[a] = a /\ Stage(p, a[1])' = Stage(p, a[1])
      BY <1>1, <1>4, <2>2
    <3> QED  BY <1>5, <2>2, <3>1 DEF OnWay, Lies, Said
  <2> QED  BY <2>1, <2>2
<1>6. ASSUME NEW a \in Places, NEW b \in Places, NEW x \in Signals, NEW y \in Signals,
             a # h, b # h, OnWay(p, a, x), OnWay(p, b, y), Before(a, b)
      PROVE  Before(g[a], g[b])
  <2>1. (a[1] = s => k < a[2]) /\ (b[1] = s => k < b[2])
    BY <1>5, <1>6
  <2>2. a[1] < b[1] \/ (a[1] = b[1] /\ a[2] < b[2])
    BY <1>6 DEF Before
  <2>3. g[a][1] < g[b][1] \/ (g[a][1] = g[b][1] /\ g[a][2] < g[b][2])
    <3>1. CASE a[1] = s /\ b[1] = s
      BY <1>1, <1>4, <2>1, <2>2, <3>1
    <3>2. CASE a[1] = s /\ b[1] # s
      BY <1>1, <1>4, <2>1, <2>2, <3>2
    <3>3. CASE a[1] # s /\ b[1] = s
      BY <1>1, <1>4, <2>1, <2>2, <3>3
    <3>4. CASE a[1] # s /\ b[1] # s
      BY <1>1, <1>4, <2>1, <2>2, <3>4
    <3> QED  BY <3>1, <3>2, <3>3, <3>4
  <2> QED  BY <2>3 DEF Before
<1>7. ASSUME NEW a \in Places, NEW d \in Descriptions, OnWay(p, a, d)'
      PROVE  \E b \in Places : b # h /\ OnWay(p, b, d) /\ g[b] = a
  <2>1. Lies(Stage(p, a[1])', a[1], a[2], d)
    BY <1>7 DEF OnWay, Lies, Said
  <2>2. CASE a[1] = s
    <3> DEFINE b == <<s, a[2] + k>>
    <3>1. Lies(Stage(p, s), s, a[2] + k, d) /\ b # h
      BY <1>1, <2>1, <2>2
    <3>2. b \in Places /\ b[1] = s /\ b[2] = a[2] + k /\ k < a[2] + k /\ (a[2] + k) - k = a[2]
      BY <1>1 DEF Places
    <3>3. OnWay(p, b, d)
      BY <3>1 DEF OnWay
    <3> HIDE DEF b
    <3>4. g[b] = <<s, a[2]>>
      BY <1>4, <3>2
    <3>5. a = <<s, a[2]>>
      BY <1>1, <2>2
    <3> QED  BY <3>1, <3>2, <3>3, <3>4, <3>5
  <2>3. CASE a[1] # s
    <3>1. g[a] = a /\ Stage(p, a[1])' = Stage(p, a[1])
      BY <1>1, <1>4, <2>3
    <3>2. OnWay(p, a, d)
      BY <2>1, <3>1 DEF OnWay
    <3>3. a # h
      BY <1>1, <2>3
    <3> QED  BY <3>1, <3>2, <3>3
  <2> QED  BY <2>2, <2>3
<1> QED  BY <1>3, <1>5, <1>6, <1>7 DEF Flows

LEMMA SameFlows ==
    ASSUME NEW p \in Peers, NEW h, \A r \in Stages : Stage(p, r)' = Stage(p, r),
           \A r \in Stages, i \in Nat : <<r, i>> # h
    PROVE  Flows(p, h)
<1>1. 1 \in Stages /\ 0 \in Nat
  BY DEF Stages
<1>2. \A i \in Nat \ {0}, x \in Signals : Lies(Stage(p, 1), 1, i, x) =>
          0 < i /\ Lies(Stage(p, 1)', 1, i - 0, x)
  BY <1>1
<1>3. \A i \in Nat \ {0}, d \in Descriptions : Lies(Stage(p, 1)', 1, i, d) =>
          Lies(Stage(p, 1), 1, i + 0, d) /\ <<1, i + 0>> # h
  BY <1>1
<1> QED  BY <1>1, <1>2, <1>3, ShiftFlows

\* The first m of the stage s join the stage t, past empty ones.
MovesOn(x, y, xx, yy, t, s) ==
    \E n \in Nat, m \in Nat :
        /\ \A i \in Nat \ {0}, v \in Signals :
              /\ Lies(x, t, i, v) => i <= n /\ Lies(xx, t, i, v)
              /\ Lies(y, s, i, v) => \/ i <= m /\ Lies(xx, t, n + i, v)
                                     \/ m < i /\ Lies(yy, s, i - m, v)
        /\ \A i \in Nat \ {0}, d \in Descriptions :
              /\ Lies(xx, t, i, d) =>
                    \/ i <= n /\ Lies(x, t, i, d)
                    \/ n < i /\ i <= n + m /\ Lies(y, s, i - n, d)
              /\ Lies(yy, s, i, d) => Lies(y, s, i + m, d)

LEMMA MoveFlows ==
    ASSUME NEW p \in Peers, NEW t \in Stages, NEW s \in Stages, t < s,
           MovesOn(Stage(p, t), Stage(p, s), Stage(p, t)', Stage(p, s)', t, s),
           \A r \in Stages : t < r /\ r < s => Stage(p, r) = <<>> /\ Stage(p, r)' = <<>>,
           \A r \in Stages : r < t \/ s < r => Stage(p, r)' = Stage(p, r)
    PROVE  Flows(p, Nowhere)
<1>1. PICK n \in Nat, m \in Nat :
        /\ \A i \in Nat \ {0}, v \in Signals :
              /\ Lies(Stage(p, t), t, i, v) => i <= n /\ Lies(Stage(p, t)', t, i, v)
              /\ Lies(Stage(p, s), s, i, v) =>
                    \/ i <= m /\ Lies(Stage(p, t)', t, n + i, v)
                    \/ m < i /\ Lies(Stage(p, s)', s, i - m, v)
        /\ \A i \in Nat \ {0}, d \in Descriptions :
              /\ Lies(Stage(p, t)', t, i, d) =>
                    \/ i <= n /\ Lies(Stage(p, t), t, i, d)
                    \/ n < i /\ i <= n + m /\ Lies(Stage(p, s), s, i - n, d)
              /\ Lies(Stage(p, s)', s, i, d) => Lies(Stage(p, s), s, i + m, d)
  BY DEF MovesOn
<1> DEFINE g == [a \in Places |-> IF a[1] # s THEN a
                                  ELSE IF a[2] <= m THEN <<t, n + a[2]>>
                                  ELSE <<s, a[2] - m>>]
<1>2. s \in Nat /\ t \in Nat /\ \A a \in Places :
          /\ a[1] \in Stages /\ a[1] \in Nat /\ a[2] \in Nat \ {0} /\ a[2] \in Nat
          /\ a = <<a[1], a[2]>> /\ a # Nowhere
  BY DEF Places, Stages, Nowhere
<1>3. \A a \in Places : g[a] = IF a[1] # s THEN a
                               ELSE IF a[2] <= m THEN <<t, n + a[2]>>
                               ELSE <<s, a[2] - m>>
  OBVIOUS
<1>4. g \in [Places -> Places]
  <2> SUFFICES ASSUME NEW a \in Places
               PROVE  (IF a[1] # s THEN a ELSE IF a[2] <= m THEN <<t, n + a[2]>>
                       ELSE <<s, a[2] - m>>) \in Places
    OBVIOUS
  <2>1. /\ n + a[2] \in Nat \ {0}
        /\ ~(a[2] <= m) => a[2] - m \in Nat \ {0}
    BY <1>2
  <2> QED  BY <2>1 DEF Places
<1> HIDE DEF g
<1>5. \A a \in Places :
          /\ a[1] # s => g[a] = a
          /\ a[1] = s /\ a[2] <= m => /\ g[a] = <<t, n + a[2]>>
                                      /\ g[a][1] = t /\ g[a][2] = n + a[2]
          /\ a[1] = s /\ m < a[2] => /\ g[a] = <<s, a[2] - m>>
                                     /\ g[a][1] = s /\ g[a][2] = a[2] - m
  <2> SUFFICES ASSUME NEW a \in Places
               PROVE  /\ a[1] # s => g[a] = a
                      /\ a[1] = s /\ a[2] <= m => /\ g[a] = <<t, n + a[2]>>
                                                  /\ g[a][1] = t /\ g[a][2] = n + a[2]
                      /\ a[1] = s /\ m < a[2] => /\ g[a] = <<s, a[2] - m>>
                                                 /\ g[a][1] = s /\ g[a][2] = a[2] - m
    OBVIOUS
  <2>1. g[a] = IF a[1] # s THEN a ELSE IF a[2] <= m THEN <<t, n + a[2]>>
               ELSE <<s, a[2] - m>>
    BY <1>3
  <2>2. m < a[2] => ~(a[2] <= m)
    BY <1>2
  <2> QED  BY <2>1, <2>2
<1>6. ASSUME NEW a \in Places, NEW x \in Signals, OnWay(p, a, x)
      PROVE  /\ OnWay(p, g[a], x)'
             /\ ~(t < a[1] /\ a[1] < s) /\ (a[1] = t => a[2] <= n)
  <2>1. Lies(Stage(p, a[1]), a[1], a[2], x)
    BY <1>6 DEF OnWay
  <2>2. CASE a[1] = s
    <3>1. CASE a[2] <= m /\ Lies(Stage(p, t)', t, n + a[2], x)
      <4>1. OnWay(p, g[a], x)'
        BY <1>5, <2>2, <3>1 DEF OnWay, Lies, Said
      <4> QED  BY <1>2, <2>2, <4>1
    <3>2. CASE m < a[2] /\ Lies(Stage(p, s)', s, a[2] - m, x)
      <4>1. OnWay(p, g[a], x)'
        BY <1>5, <2>2, <3>2 DEF OnWay, Lies, Said
      <4> QED  BY <1>2, <2>2, <4>1
    <3> QED  BY <1>1, <1>2, <2>1, <2>2, <3>1, <3>2
  <2>3. CASE a[1] = t
    <3>1. a[2] <= n /\ Lies(Stage(p, t)', t, a[2], x)
      BY <1>1, <1>2, <2>1, <2>3
    <3>2. g[a] = a
      BY <1>2, <1>5, <2>3
    <3>3. OnWay(p, g[a], x)'
      BY <2>3, <3>1, <3>2 DEF OnWay, Lies, Said
    <3> QED  BY <1>2, <2>3, <3>1, <3>3
  <2>4. CASE t < a[1] /\ a[1] < s
    <3>1. Stage(p, a[1]) = <<>> /\ DOMAIN << >> = {}
      BY <1>2, <2>4
    <3> QED  BY <2>1, <3>1 DEF Lies
  <2>5. CASE a[1] < t \/ s < a[1]
    <3>1. Stage(p, a[1])' = Stage(p, a[1]) /\ g[a] = a
      BY <1>2, <1>5, <2>5
    <3>2. OnWay(p, g[a], x)'
      BY <2>1, <3>1 DEF OnWay, Lies, Said
    <3> QED  BY <1>2, <2>5, <3>2
  <2>6. \/ a[1] = s \/ a[1] = t \/ (t < a[1] /\ a[1] < s) \/ a[1] < t \/ s < a[1]
    BY <1>2
  <2> QED  BY <2>2, <2>3, <2>4, <2>5, <2>6
<1>7. ASSUME NEW a \in Places, NEW b \in Places, NEW x \in Signals, NEW y \in Signals,
             OnWay(p, a, x), OnWay(p, b, y), Before(a, b)
      PROVE  Before(g[a], g[b])
  <2>1. /\ ~(t < a[1] /\ a[1] < s) /\ (a[1] = t => a[2] <= n)
        /\ ~(t < b[1] /\ b[1] < s) /\ (b[1] = t => b[2] <= n)
    BY <1>6, <1>7
  <2>2. a[1] < b[1] \/ (a[1] = b[1] /\ a[2] < b[2])
    BY <1>7 DEF Before
  <2>3. g[a][1] < g[b][1] \/ (g[a][1] = g[b][1] /\ g[a][2] < g[b][2])
    <3>1. CASE a[1] # s /\ b[1] # s
      BY <1>5, <2>2, <3>1
    <3>2. CASE a[1] # s /\ b[1] = s
      <4>1. a[1] <= t /\ (a[1] = t => a[2] <= n)
        BY <1>2, <2>1, <2>2, <3>2
      <4>2. CASE b[2] <= m
        <5>1. g[a] = a /\ g[b][1] = t /\ g[b][2] = n + b[2]
          BY <1>5, <3>2, <4>2
        <5> QED  BY <1>2, <4>1, <5>1
      <4>3. CASE m < b[2]
        <5>1. g[a] = a /\ g[b][1] = s
          BY <1>5, <3>2, <4>3
        <5> QED  BY <1>2, <4>1, <5>1
      <4> QED  BY <1>2, <4>2, <4>3
    <3>3. CASE a[1] = s /\ b[1] # s
      <4>1. g[b] = b /\ s < b[1] /\ (g[a][1] = t \/ g[a][1] = s)
        BY <1>2, <1>5, <2>2, <3>3
      <4> QED  BY <1>2, <4>1
    <3>4. CASE a[1] = s /\ b[1] = s
      <4>1. a[2] < b[2]
        BY <1>2, <2>2, <3>4
      <4>2. CASE b[2] <= m
        BY <1>2, <1>5, <3>4, <4>1, <4>2
      <4>3. CASE a[2] <= m /\ m < b[2]
        BY <1>2, <1>5, <3>4, <4>1, <4>3
      <4>4. CASE m < a[2]
        BY <1>2, <1>5, <3>4, <4>1, <4>4
      <4> QED  BY <1>2, <4>1, <4>2, <4>3, <4>4
    <3> QED  BY <3>1, <3>2, <3>3, <3>4
  <2> QED  BY <2>3 DEF Before
<1>8. ASSUME NEW a \in Places, NEW d \in Descriptions, OnWay(p, a, d)'
      PROVE  \E b \in Places : OnWay(p, b, d) /\ g[b] = a
  <2>1. Lies(Stage(p, a[1])', a[1], a[2], d)
    BY <1>8 DEF OnWay, Lies, Said
  <2>2. CASE a[1] = t
    <3>1. CASE a[2] <= n /\ Lies(Stage(p, t), t, a[2], d)
      <4>1. OnWay(p, a, d) /\ g[a] = a
        BY <1>2, <1>5, <2>2, <3>1 DEF OnWay
      <4> QED  BY <4>1
    <3>2. CASE n < a[2] /\ a[2] <= n + m /\ Lies(Stage(p, s), s, a[2] - n, d)
      <4> DEFINE b == <<s, a[2] - n>>
      <4>1. /\ b \in Places /\ b[1] = s /\ b[2] = a[2] - n /\ a[2] - n <= m
            /\ n + (a[2] - n) = a[2]
        BY <1>2, <3>2 DEF Places
      <4>2. OnWay(p, b, d)
        BY <3>2 DEF OnWay
      <4> HIDE DEF b
      <4>3. g[b] = <<t, a[2]>>
        BY <1>5, <4>1
      <4> QED  BY <1>2, <2>2, <4>1, <4>2, <4>3
    <3> QED  BY <1>1, <1>2, <2>1, <2>2, <3>1, <3>2
  <2>3. CASE a[1] = s
    <3> DEFINE b == <<s, a[2] + m>>
    <3>1. /\ b \in Places /\ b[1] = s /\ b[2] = a[2] + m /\ m < a[2] + m
          /\ (a[2] + m) - m = a[2]
      BY <1>2 DEF Places
    <3>2. Lies(Stage(p, s), s, a[2] + m, d)
      BY <1>1, <1>2, <2>1, <2>3
    <3>3. OnWay(p, b, d)
      BY <3>2 DEF OnWay
    <3> HIDE DEF b
    <3>4. g[b] = <<s, a[2]>>
      BY <1>5, <3>1
    <3> QED  BY <1>2, <2>3, <3>1, <3>3, <3>4
  <2>4. CASE t < a[1] /\ a[1] < s
    <3>1. Stage(p, a[1])' = <<>> /\ DOMAIN << >> = {}
      BY <1>2, <2>4
    <3> QED  BY <2>1, <3>1 DEF Lies
  <2>5. CASE a[1] < t \/ s < a[1]
    <3>1. Stage(p, a[1])' = Stage(p, a[1]) /\ g[a] = a
      BY <1>2, <1>5, <2>5
    <3>2. OnWay(p, a, d)
      BY <2>1, <3>1 DEF OnWay
    <3> QED  BY <3>1, <3>2
  <2>6. \/ a[1] = s \/ a[1] = t \/ (t < a[1] /\ a[1] < s) \/ a[1] < t \/ s < a[1]
    BY <1>2
  <2> QED  BY <2>2, <2>3, <2>4, <2>5, <2>6
<1>9. \A a \in Places : a # Nowhere
  BY <1>2
<1> QED  BY <1>4, <1>6, <1>7, <1>8, <1>9 DEF Flows

\* Before orders the places.
LEMMA BeforeOrders ==
    ASSUME NEW a \in Places, NEW b \in Places
    PROVE  /\ Before(a, b) \/ Before(b, a) \/ a = b
           /\ Before(a, b) => ~Before(b, a) /\ a # b
           /\ <<1, 1>> \in Places /\ ~Before(a, <<1, 1>>)
           /\ a # <<1, 1>> => Before(<<1, 1>>, a)
           /\ a # Nowhere
<1>1. /\ a[1] \in Nat \ {0} /\ a[2] \in Nat \ {0} /\ a = <<a[1], a[2]>>
      /\ b[1] \in Nat \ {0} /\ b[2] \in Nat \ {0} /\ b = <<b[1], b[2]>>
      /\ <<1, 1>> \in Places
  BY DEF Places, Stages
<1>2. <<1, 1>>[1] = 1 /\ <<1, 1>>[2] = 1 /\ Nowhere[1] = 0
  BY DEF Nowhere
<1> QED  BY <1>1, <1>2 DEF Before

\* What flows comes from where it was, in its order.
LEMMA FlowsBack ==
    ASSUME NEW p \in Peers, NEW h, Flows(p, h)
    PROVE  \E f \in [Places -> Places] :
               \A a \in Places, d \in Descriptions : OnWay(p, a, d)' =>
                   /\ f[a] # h /\ OnWay(p, f[a], d)
                   /\ \A b \in Places, e \in Descriptions :
                         OnWay(p, b, e)' /\ Before(a, b) => Before(f[a], f[b])
<1>1. PICK g \in [Places -> Places] :
        /\ \A a, b \in Places, x, y \in Signals :
               a # h /\ b # h /\ OnWay(p, a, x) /\ OnWay(p, b, y) /\ Before(a, b) =>
                   Before(g[a], g[b])
        /\ \A a \in Places, d \in Descriptions : OnWay(p, a, d)' =>
               \E b \in Places : b # h /\ OnWay(p, b, d) /\ g[b] = a
  BY DEF Flows
<1> DEFINE From(a, b) == /\ b # h /\ g[b] = a
                         /\ \E d \in Descriptions : OnWay(p, b, d)
           f == [a \in Places |-> IF \E b \in Places : From(a, b)
                                  THEN CHOOSE b \in Places : From(a, b) ELSE a]
<1>2. f \in [Places -> Places]
      /\ \A a \in Places : (\E b \in Places : From(a, b)) => From(a, f[a])
  <2> SUFFICES ASSUME NEW a \in Places
               PROVE  /\ f[a] \in Places
                      /\ (\E b \in Places : From(a, b)) => From(a, f[a])
    OBVIOUS
  <2>1. f[a] = IF \E b \in Places : From(a, b)
               THEN CHOOSE b \in Places : From(a, b) ELSE a
    OBVIOUS
  <2> HIDE DEF f, From
  <2> QED  BY <2>1
<1> HIDE DEF f
<1>3. ASSUME NEW a \in Places, NEW d \in Descriptions, OnWay(p, a, d)'
      PROVE  f[a] # h /\ OnWay(p, f[a], d) /\ g[f[a]] = a
  <2>1. PICK b \in Places : b # h /\ OnWay(p, b, d) /\ g[b] = a
    BY <1>1, <1>3
  <2>2. From(a, f[a]) /\ f[a] \in Places
    BY <1>2, <2>1
  <2>3. f[a] = b
    <3>1. PICK e \in Descriptions : OnWay(p, f[a], e)
      BY <2>2
    <3>2. d \in Signals /\ e \in Signals /\ b # h /\ f[a] # h
      BY <2>1, <2>2 DEF Signals
    <3>3. Before(b, f[a]) \/ Before(f[a], b) => Before(a, a)
      BY <1>1, <2>1, <2>2, <3>1, <3>2
    <3> QED  BY <2>2, <3>3, BeforeOrders
  <2> QED  BY <2>1, <2>3
<1>4. ASSUME NEW a \in Places, NEW d \in Descriptions, OnWay(p, a, d)',
             NEW b \in Places, NEW e \in Descriptions, OnWay(p, b, e)', Before(a, b)
      PROVE  Before(f[a], f[b])
  <2>1. /\ f[a] # h /\ OnWay(p, f[a], d) /\ g[f[a]] = a /\ f[a] \in Places
        /\ f[b] # h /\ OnWay(p, f[b], e) /\ g[f[b]] = b /\ f[b] \in Places
        /\ d \in Signals /\ e \in Signals
    BY <1>2, <1>3, <1>4 DEF Signals
  <2>2. ~Before(b, a) /\ a # b
    BY <1>4, BeforeOrders
  <2>3. ~Before(f[b], f[a]) /\ f[a] # f[b]
    BY <1>1, <2>1, <2>2
  <2> QED  BY <2>1, <2>3, BeforeOrders
<1> QED  BY <1>2, <1>3, <1>4

LEMMA FlowsThin == ASSUME NEW p \in Peers, NEW h, Flows(p, h) PROVE Thins(p)
BY FlowsBack DEF Thins

LEMMA FlowsYield ==
    ASSUME NEW p \in Peers, Flows(p, <<1, 1>>), NEW x, OnWay(p, <<1, 1>>, x)
    PROVE  Yields(p, x)
<1> DEFINE h == <<1, 1>>
<1>1. h \in Places /\ \A a \in Places : a # h => Before(h, a)
  <2>1. h \in Places
    BY DEF Places, Stages
  <2>2. ASSUME NEW a \in Places, a # h PROVE Before(h, a)
    BY <2>2, BeforeOrders
  <2> QED  BY <2>1, <2>2
<1>2. OnWay(p, h, x) /\ Flows(p, h)
  OBVIOUS
<1> HIDE DEF h
<1>3. PICK f \in [Places -> Places] :
          \A a \in Places, d \in Descriptions : OnWay(p, a, d)' =>
              /\ f[a] # h /\ OnWay(p, f[a], d)
              /\ \A b \in Places, e \in Descriptions :
                    OnWay(p, b, e)' /\ Before(a, b) => Before(f[a], f[b])
  BY <1>2, FlowsBack
<1> QED  BY <1>1, <1>2, <1>3 DEF Yields

\* Nothing was where it might have gone.
LEMMA NothingGoes ==
    ASSUME NEW p \in Peers, NEW h \in Places, Flows(p, h),
           \A x \in Signals : ~OnWay(p, h, x)
    PROVE  Flows(p, Nowhere)
<1>1. PICK g \in [Places -> Places] :
        /\ \A a \in Places, x \in Signals :
               a # h /\ OnWay(p, a, x) => OnWay(p, g[a], x)'
        /\ \A a, b \in Places, x, y \in Signals :
               a # h /\ b # h /\ OnWay(p, a, x) /\ OnWay(p, b, y) /\ Before(a, b) =>
                   Before(g[a], g[b])
        /\ \A a \in Places, d \in Descriptions : OnWay(p, a, d)' =>
               \E b \in Places : b # h /\ OnWay(p, b, d) /\ g[b] = a
  BY DEF Flows
<1>2. \A a \in Places : a # Nowhere
  BY BeforeOrders
<1>3. \A a \in Places, x \in Signals : OnWay(p, a, x) => a # h
  OBVIOUS
<1>4. /\ \A a \in Places, x \in Signals :
             a # Nowhere /\ OnWay(p, a, x) => OnWay(p, g[a], x)'
      /\ \A a, b \in Places, x, y \in Signals :
             a # Nowhere /\ b # Nowhere /\ OnWay(p, a, x) /\ OnWay(p, b, y)
                 /\ Before(a, b) => Before(g[a], g[b])
  BY <1>1, <1>3
<1>5. \A a \in Places, d \in Descriptions : OnWay(p, a, d)' =>
          \E b \in Places : b # Nowhere /\ OnWay(p, b, d) /\ g[b] = a
  BY <1>1, <1>2
<1> QED  BY <1>4, <1>5 DEF Flows

-----------------------------------------------------------------------------
(* What is on its way while the peers agree *)

Stable(p) == sig[p] = "stable"
Offering(p) == sig[p] = "have-local-offer"
Answering(p) == sig[p] = "have-remote-offer"

Empty(p) == \A a \in Places, d \in Descriptions : ~OnWay(p, a, d)
OnlyOffers(p) ==
    \A a \in Places, d \in Descriptions : OnWay(p, a, d) => d.type = "offer"
Last(p, a) ==
    \A b \in Places, e \in Descriptions : OnWay(p, b, e) => ~Before(a, b)
OffersBehind(p, a) ==
    \A b \in Places, e \in Descriptions :
        OnWay(p, b, e) /\ Before(a, b) => e.type = "offer"
OffersBefore(p, a) ==
    \A b \in Places, e \in Descriptions :
        OnWay(p, b, e) /\ Before(b, a) => e.type = "offer"

\* An offer of the guest that comes to a host with an offer of its own, and to
\* no answer to that, is to be ignored.
Stale(a) == Offering("host") /\ OffersBefore("guest", a)

\* Peers that are stable hold the two halves of one exchange.
Agreed ==
    Stable("host") /\ Stable("guest") =>
        local["host"] = remote["guest"] /\ local["guest"] = remote["host"]

\* The host's offer is the one in force until it is answered.
HostOffers ==
    \A a \in Places, d \in Descriptions : OnWay("host", a, d) /\ d.type = "offer" =>
        /\ Offering("host") /\ d = local["host"] /\ ~Answering("guest")
        /\ OnlyOffers("guest") /\ Last("host", a)

\* The host's answer meets the offer it was made to.
HostAnswers ==
    \A a \in Places, d \in Descriptions : OnWay("host", a, d) /\ d.type = "answer" =>
        /\ Offering("guest") /\ ~Answering("host") /\ remote["host"] = local["guest"]
        /\ Stable("host") => d = local["host"]
        /\ Empty("guest") /\ OffersBehind("host", a)

\* The guest's offer is the one in force, or it will be ignored.
GuestOffers ==
    \A a \in Places, d \in Descriptions : OnWay("guest", a, d) /\ d.type = "offer" =>
        /\ ~Answering("host")
        /\ (Offering("guest") /\ d = local["guest"]) \/ Stale(a)
        /\ Last("guest", a) \/ Stale(a)

\* The guest's answer meets the offer it was made to.
GuestAnswers ==
    \A a \in Places, d \in Descriptions : OnWay("guest", a, d) /\ d.type = "answer" =>
        /\ Offering("host") /\ ~Answering("guest")
        /\ Stable("guest") => d = local["guest"] /\ remote["guest"] = local["host"]
        /\ OffersBehind("guest", a)

\* A peer makes its answer to the offer the other still holds.
GuestAnswering ==
    Answering("guest") =>
        /\ Offering("host") /\ remote["guest"] = local["host"]
        /\ Empty("host") /\ OnlyOffers("guest")
HostAnswering ==
    Answering("host") =>
        /\ Offering("guest") /\ remote["host"] = local["guest"]
        /\ Empty("host") /\ Empty("guest")

Exchange ==
    /\ Agreed
    /\ HostOffers /\ HostAnswers /\ GuestOffers /\ GuestAnswers
    /\ GuestAnswering /\ HostAnswering

\* A peer is in one state, and a description of one type.
LEMMA Exclusive ==
    /\ \A p : ~(Stable(p) /\ Offering(p)) /\ ~(Stable(p) /\ Answering(p))
              /\ ~(Offering(p) /\ Answering(p))
    /\ \A d \in Descriptions : d.type \in {"offer", "answer"}
BY DEF Stable, Offering, Answering, Descriptions

\* Where a place is kept, what was said of it still holds.
Keeps(p, a, b) ==
    /\ Last(p, a) => Last(p, b)'
    /\ OffersBehind(p, a) => OffersBehind(p, b)'
    /\ OffersBefore(p, a) => OffersBefore(p, b)'

LEMMA ThinsTo ==
    ASSUME NEW p \in Peers, Thins(p)
    PROVE  /\ Empty(p) => Empty(p)'
           /\ OnlyOffers(p) => OnlyOffers(p)'
           /\ \A a \in Places, d \in Descriptions : OnWay(p, a, d)' =>
                  \E b \in Places : OnWay(p, b, d) /\ Keeps(p, b, a)
<1>1. PICK f \in [Places -> Places] :
          \A a \in Places, d \in Descriptions : OnWay(p, a, d)' =>
              /\ OnWay(p, f[a], d)
              /\ \A b \in Places, e \in Descriptions :
                    OnWay(p, b, e)' /\ Before(a, b) => Before(f[a], f[b])
  BY DEF Thins
<1>2. \A a \in Places : f[a] \in Places
  OBVIOUS
<1>3. Empty(p) => Empty(p)'
  BY <1>1, <1>2 DEF Empty
<1>4. OnlyOffers(p) => OnlyOffers(p)'
  BY <1>1, <1>2 DEF OnlyOffers
<1>5. ASSUME NEW a \in Places, NEW d \in Descriptions, OnWay(p, a, d)'
      PROVE  OnWay(p, f[a], d) /\ Keeps(p, f[a], a)
  <2>1. OnWay(p, f[a], d)
    BY <1>1, <1>5
  <2>2. \A b \in Places, e \in Descriptions : OnWay(p, b, e)' =>
            /\ OnWay(p, f[b], e) /\ f[b] \in Places
            /\ Before(a, b) => Before(f[a], f[b])
            /\ Before(b, a) => Before(f[b], f[a])
    BY <1>1, <1>2, <1>5
  <2>3. Last(p, f[a]) => Last(p, a)'
    BY <2>2 DEF Last
  <2>4. OffersBehind(p, f[a]) => OffersBehind(p, a)'
    BY <2>2 DEF OffersBehind
  <2>5. OffersBefore(p, f[a]) => OffersBefore(p, a)'
    BY <2>2 DEF OffersBefore
  <2> QED  BY <2>1, <2>3, <2>4, <2>5 DEF Keeps
<1> QED  BY <1>2, <1>3, <1>4, <1>5

LEMMA YieldsTo ==
    ASSUME NEW p \in Peers, NEW x \in Descriptions, Yields(p, x)
    PROVE  \E h \in Places :
             /\ OnWay(p, h, x)
             /\ \A a \in Places, d \in Descriptions : OnWay(p, a, d)' =>
                    \E b \in Places : /\ OnWay(p, b, d) /\ Keeps(p, b, a)
                                      /\ Before(h, b)
<1>1. PICK f \in [Places -> Places], h \in Places :
          /\ OnWay(p, h, x)
          /\ \A a \in Places, d \in Descriptions : OnWay(p, a, d)' =>
                /\ OnWay(p, f[a], d) /\ Before(h, f[a])
                /\ \A b \in Places, e \in Descriptions :
                      OnWay(p, b, e)' /\ Before(a, b) => Before(f[a], f[b])
  BY DEF Yields
<1>2. \A a \in Places : f[a] \in Places
  OBVIOUS
<1>3. ASSUME NEW a \in Places, NEW d \in Descriptions, OnWay(p, a, d)'
      PROVE  OnWay(p, f[a], d) /\ Keeps(p, f[a], a) /\ Before(h, f[a])
  <2>1. OnWay(p, f[a], d) /\ Before(h, f[a])
    BY <1>1, <1>3
  <2>2. \A b \in Places, e \in Descriptions : OnWay(p, b, e)' =>
            /\ OnWay(p, f[b], e) /\ f[b] \in Places
            /\ Before(a, b) => Before(f[a], f[b])
            /\ Before(b, a) => Before(f[b], f[a])
    BY <1>1, <1>2, <1>3
  <2>3. Last(p, f[a]) => Last(p, a)'
    BY <2>2 DEF Last
  <2>4. OffersBehind(p, f[a]) => OffersBehind(p, a)'
    BY <2>2 DEF OffersBehind
  <2>5. OffersBefore(p, f[a]) => OffersBefore(p, a)'
    BY <2>2 DEF OffersBefore
  <2> QED  BY <2>1, <2>3, <2>4, <2>5 DEF Keeps
<1> QED  BY <1>1, <1>2, <1>3

LEMMA GainsTo ==
    ASSUME NEW p \in Peers, NEW x \in Descriptions, Gains(p, x)
    PROVE  \A a \in Places, d \in Descriptions : OnWay(p, a, d)' =>
               \/ /\ OnWay(p, a, d)
                  /\ OffersBefore(p, a) => OffersBefore(p, a)'
                  /\ OffersBehind(p, a) /\ x.type = "offer" => OffersBehind(p, a)'
               \/ d = x /\ Last(p, a)' /\ OffersBehind(p, a)'
<1> SUFFICES ASSUME NEW a \in Places, NEW d \in Descriptions, OnWay(p, a, d)'
             PROVE  \/ /\ OnWay(p, a, d)
                       /\ OffersBefore(p, a) => OffersBefore(p, a)'
                       /\ OffersBehind(p, a) /\ x.type = "offer" => OffersBehind(p, a)'
                    \/ d = x /\ Last(p, a)' /\ OffersBehind(p, a)'
  OBVIOUS
<1>1. \A b \in Places, e \in Descriptions : OnWay(p, b, e)' =>
          OnWay(p, b, e) \/ (e = x /\ Last(p, b)')
  BY DEF Gains, Last
<1>2. OffersBefore(p, a) => OffersBefore(p, a)'
  <2> SUFFICES ASSUME OffersBefore(p, a), NEW b \in Places, NEW e \in Descriptions,
                      OnWay(p, b, e)', Before(b, a)
               PROVE  e.type = "offer"
    BY DEF OffersBefore, Before
  <2>1. ~Last(p, b)'
    BY DEF Last, Before
  <2>2. OnWay(p, b, e)
    BY <1>1, <2>1
  <2> QED  BY <2>2 DEF OffersBefore
<1>3. OffersBehind(p, a) /\ x.type = "offer" => OffersBehind(p, a)'
  BY <1>1 DEF OffersBehind, Before
<1>4. Last(p, a)' => OffersBehind(p, a)'
  BY DEF Last, OffersBehind, Before
<1> QED  BY <1>1, <1>2, <1>3, <1>4

\* Nothing is set, and signals only go on their way or are lost.
LEMMA DriftsInExchange ==
    ASSUME Exchange, UNCHANGED <<sig, local, remote>>, Thins("host"), Thins("guest")
    PROVE  Exchange'
<1>1. /\ "host" \in Peers /\ "guest" \in Peers
      /\ \A p \in Peers : /\ Stable(p)' <=> Stable(p)
                          /\ Offering(p)' <=> Offering(p)
                          /\ Answering(p)' <=> Answering(p)
      /\ local' = local /\ remote' = remote
  BY DEF Peers, Stable, Offering, Answering
<1>2. \A p \in Peers :
         /\ Empty(p) => Empty(p)'
         /\ OnlyOffers(p) => OnlyOffers(p)'
         /\ \A a \in Places, d \in Descriptions : OnWay(p, a, d)' =>
                \E b \in Places : OnWay(p, b, d) /\ Keeps(p, b, a)
  BY ThinsTo DEF Peers
<1>3. Agreed'
  BY <1>1 DEF Exchange, Agreed
<1>4. HostOffers'
  <2> SUFFICES ASSUME NEW a \in Places, NEW d \in Descriptions, OnWay("host", a, d)',
                      d.type = "offer"
               PROVE  /\ Offering("host")' /\ d = local'["host"] /\ ~Answering("guest")'
                      /\ OnlyOffers("guest")' /\ Last("host", a)'
    BY DEF HostOffers
  <2>1. PICK b \in Places : OnWay("host", b, d) /\ Keeps("host", b, a)
    BY <1>1, <1>2
  <2>2. /\ Offering("host") /\ d = local["host"] /\ ~Answering("guest")
        /\ OnlyOffers("guest") /\ Last("host", b)
    BY <2>1 DEF Exchange, HostOffers
  <2> QED  BY <1>1, <1>2, <2>1, <2>2 DEF Keeps
<1>5. HostAnswers'
  <2> SUFFICES ASSUME NEW a \in Places, NEW d \in Descriptions, OnWay("host", a, d)',
                      d.type = "answer"
               PROVE  /\ Offering("guest")' /\ ~Answering("host")'
                      /\ remote'["host"] = local'["guest"]
                      /\ Stable("host")' => d = local'["host"]
                      /\ Empty("guest")' /\ OffersBehind("host", a)'
    BY DEF HostAnswers
  <2>1. PICK b \in Places : OnWay("host", b, d) /\ Keeps("host", b, a)
    BY <1>1, <1>2
  <2>2. /\ Offering("guest") /\ ~Answering("host") /\ remote["host"] = local["guest"]
        /\ Stable("host") => d = local["host"]
        /\ Empty("guest") /\ OffersBehind("host", b)
    BY <2>1 DEF Exchange, HostAnswers
  <2> QED  BY <1>1, <1>2, <2>1, <2>2 DEF Keeps
<1>6. GuestOffers'
  <2> SUFFICES ASSUME NEW a \in Places, NEW d \in Descriptions, OnWay("guest", a, d)',
                      d.type = "offer"
               PROVE  /\ ~Answering("host")'
                      /\ (Offering("guest")' /\ d = local'["guest"]) \/ Stale(a)'
                      /\ Last("guest", a)' \/ Stale(a)'
    BY DEF GuestOffers
  <2>1. PICK b \in Places : OnWay("guest", b, d) /\ Keeps("guest", b, a)
    BY <1>1, <1>2
  <2>2. /\ ~Answering("host")
        /\ (Offering("guest") /\ d = local["guest"]) \/ Stale(b)
        /\ Last("guest", b) \/ Stale(b)
    BY <2>1 DEF Exchange, GuestOffers
  <2>3. Stale(b) => Stale(a)'
    BY <1>1, <2>1 DEF Keeps, Stale
  <2> QED  BY <1>1, <2>1, <2>2, <2>3 DEF Keeps
<1>7. GuestAnswers'
  <2> SUFFICES ASSUME NEW a \in Places, NEW d \in Descriptions, OnWay("guest", a, d)',
                      d.type = "answer"
               PROVE  /\ Offering("host")' /\ ~Answering("guest")'
                      /\ Stable("guest")' => d = local'["guest"]
                                             /\ remote'["guest"] = local'["host"]
                      /\ OffersBehind("guest", a)'
    BY DEF GuestAnswers
  <2>1. PICK b \in Places : OnWay("guest", b, d) /\ Keeps("guest", b, a)
    BY <1>1, <1>2
  <2>2. /\ Offering("host") /\ ~Answering("guest")
        /\ Stable("guest") => d = local["guest"] /\ remote["guest"] = local["host"]
        /\ OffersBehind("guest", b)
    BY <2>1 DEF Exchange, GuestAnswers
  <2> QED  BY <1>1, <2>1, <2>2 DEF Keeps
<1>8. GuestAnswering'
  BY <1>1, <1>2 DEF Exchange, GuestAnswering
<1>9. HostAnswering'
  BY <1>1, <1>2 DEF Exchange, HostAnswering
<1> QED  BY <1>3, <1>4, <1>5, <1>6, <1>7, <1>8, <1>9 DEF Exchange

\* The host sets its offer: whatever the guest has under way is stale.
LEMMA HostOffersInExchange ==
    ASSUME Exchange, NEW d \in Descriptions, d.type = "offer", Stable("host"),
           Offering("host")', local'["host"] = d, local'["guest"] = local["guest"],
           sig'["guest"] = sig["guest"], remote' = remote,
           Gains("host", d), Thins("guest")
    PROVE  Exchange'
<1>1. /\ "host" \in Peers /\ "guest" \in Peers
      /\ Stable("guest")' <=> Stable("guest")
      /\ Offering("guest")' <=> Offering("guest")
      /\ Answering("guest")' <=> Answering("guest")
      /\ ~Stable("host")' /\ ~Answering("host")'
  BY Exclusive DEF Peers, Stable, Offering, Answering
<1>2. /\ Empty("guest") => Empty("guest")'
      /\ OnlyOffers("guest") => OnlyOffers("guest")'
      /\ \A a \in Places, e \in Descriptions : OnWay("guest", a, e)' =>
             \E b \in Places : OnWay("guest", b, e) /\ Keeps("guest", b, a)
  BY <1>1, ThinsTo
<1>3. \A a \in Places, e \in Descriptions : OnWay("host", a, e)' =>
          \/ /\ OnWay("host", a, e)
             /\ OffersBehind("host", a) => OffersBehind("host", a)'
          \/ e = d /\ Last("host", a)'
  BY <1>1, GainsTo
<1>4. ~Offering("host") /\ ~Answering("guest") /\ OnlyOffers("guest")
      /\ \A a \in Places, e \in Descriptions :
             OnWay("host", a, e) => e.type = "answer"
  <2>1. ~Offering("host") /\ ~Answering("guest")
    BY Exclusive DEF Exchange, GuestAnswering
  <2>2. OnlyOffers("guest")
    BY <2>1, Exclusive DEF Exchange, GuestAnswers, OnlyOffers
  <2>3. \A a \in Places, e \in Descriptions : OnWay("host", a, e) => e.type = "answer"
    BY <2>1, Exclusive DEF Exchange, HostOffers
  <2> QED  BY <2>1, <2>2, <2>3
<1>5. Agreed' /\ GuestAnswering' /\ HostAnswering'
  BY <1>1, <1>4 DEF Agreed, GuestAnswering, HostAnswering
<1>6. HostOffers'
  <2> SUFFICES ASSUME NEW a \in Places, NEW e \in Descriptions, OnWay("host", a, e)',
                      e.type = "offer"
               PROVE  e = d /\ Last("host", a)'
    BY <1>1, <1>2, <1>4 DEF HostOffers
  <2> QED  BY <1>3, <1>4
<1>7. HostAnswers'
  <2> SUFFICES ASSUME NEW a \in Places, NEW e \in Descriptions, OnWay("host", a, e)',
                      e.type = "answer"
               PROVE  /\ Offering("guest") /\ remote["host"] = local["guest"]
                      /\ Empty("guest")' /\ OffersBehind("host", a)'
    BY <1>1 DEF HostAnswers
  <2>1. OnWay("host", a, e) /\ (OffersBehind("host", a) => OffersBehind("host", a)')
    BY <1>3
  <2>2. /\ Offering("guest") /\ remote["host"] = local["guest"]
        /\ Empty("guest") /\ OffersBehind("host", a)
    BY <2>1 DEF Exchange, HostAnswers
  <2> QED  BY <1>2, <2>1, <2>2
<1>8. OnlyOffers("guest")'
  BY <1>2, <1>4
<1>9. GuestOffers'
  <2>1. \A a : Stale(a)'
    BY <1>8 DEF Stale, OffersBefore, OnlyOffers
  <2> QED  BY <1>1, <2>1 DEF GuestOffers
<1>10. GuestAnswers'
  BY <1>8 DEF GuestAnswers, OnlyOffers
<1> QED  BY <1>5, <1>6, <1>7, <1>9, <1>10 DEF Exchange

\* The guest sets its offer, the last on its way.
LEMMA GuestOffersInExchange ==
    ASSUME Exchange, NEW d \in Descriptions, d.type = "offer", Stable("guest"),
           Offering("guest")', local'["guest"] = d, local'["host"] = local["host"],
           sig'["host"] = sig["host"], remote' = remote,
           Gains("guest", d), Thins("host")
    PROVE  Exchange'
<1>1. /\ "host" \in Peers /\ "guest" \in Peers
      /\ Stable("host")' <=> Stable("host")
      /\ Offering("host")' <=> Offering("host")
      /\ Answering("host")' <=> Answering("host")
      /\ ~Stable("guest")' /\ ~Answering("guest")'
  BY Exclusive DEF Peers, Stable, Offering, Answering
<1>2. /\ Empty("host") => Empty("host")'
      /\ \A a \in Places, e \in Descriptions : OnWay("host", a, e)' =>
             \E b \in Places : OnWay("host", b, e) /\ Keeps("host", b, a)
  BY <1>1, ThinsTo
<1>3. \A a \in Places, e \in Descriptions : OnWay("guest", a, e)' =>
          \/ /\ OnWay("guest", a, e)
             /\ OffersBefore("guest", a) => OffersBefore("guest", a)'
             /\ OffersBehind("guest", a) => OffersBehind("guest", a)'
          \/ e = d /\ Last("guest", a)'
  BY <1>1, GainsTo
<1>4. /\ ~Offering("guest") /\ ~Answering("host")
      /\ \A a \in Places, e \in Descriptions :
             OnWay("host", a, e) => e.type = "offer"
  <2>1. ~Offering("guest") /\ ~Answering("host")
    BY Exclusive DEF Exchange, HostAnswering
  <2> QED  BY <2>1, Exclusive DEF Exchange, HostAnswers
<1>5. Agreed' /\ GuestAnswering' /\ HostAnswering'
  BY <1>1, <1>4 DEF Agreed, GuestAnswering, HostAnswering
<1>6. HostOffers'
  <2> SUFFICES ASSUME NEW a \in Places, NEW e \in Descriptions, OnWay("host", a, e)',
                      e.type = "offer"
               PROVE  /\ Offering("host") /\ e = local["host"]
                      /\ OnlyOffers("guest")' /\ Last("host", a)'
    BY <1>1 DEF HostOffers
  <2>1. PICK b \in Places : OnWay("host", b, e) /\ Keeps("host", b, a)
    BY <1>2
  <2>2. /\ Offering("host") /\ e = local["host"]
        /\ OnlyOffers("guest") /\ Last("host", b)
    BY <2>1 DEF Exchange, HostOffers
  <2>3. OnlyOffers("guest")'
    BY <1>3, <2>2 DEF OnlyOffers
  <2> QED  BY <2>1, <2>2, <2>3 DEF Keeps
<1>7. HostAnswers'
  <2>1. \A a \in Places, e \in Descriptions : OnWay("host", a, e)' => e.type = "offer"
    BY <1>2, <1>4
  <2> QED  BY <2>1 DEF HostAnswers
<1>8. GuestOffers'
  <2> SUFFICES ASSUME NEW a \in Places, NEW e \in Descriptions, OnWay("guest", a, e)',
                      e.type = "offer"
               PROVE  \/ e = d /\ Last("guest", a)'
                      \/ Stale(a)'
    BY <1>1, <1>4 DEF GuestOffers
  <2>1. CASE e = d /\ Last("guest", a)'
    BY <2>1
  <2>2. CASE /\ OnWay("guest", a, e)
             /\ OffersBefore("guest", a) => OffersBefore("guest", a)'
    <3>1. Stale(a)
      BY <1>4, <2>2 DEF Exchange, GuestOffers
    <3> QED  BY <1>1, <2>2, <3>1 DEF Stale
  <2> QED  BY <1>3, <2>1, <2>2
<1>9. GuestAnswers'
  <2> SUFFICES ASSUME NEW a \in Places, NEW e \in Descriptions, OnWay("guest", a, e)',
                      e.type = "answer"
               PROVE  Offering("host") /\ OffersBehind("guest", a)'
    BY <1>1 DEF GuestAnswers
  <2>1. /\ OnWay("guest", a, e)
        /\ OffersBehind("guest", a) => OffersBehind("guest", a)'
    BY <1>3
  <2> QED  BY <2>1 DEF Exchange, GuestAnswers
<1> QED  BY <1>5, <1>6, <1>7, <1>8, <1>9 DEF Exchange

\* The host sets its answer, the only description under way.
LEMMA HostAnswersInExchange ==
    ASSUME Exchange, NEW d \in Descriptions, d.type = "answer", Answering("host"),
           Stable("host")', local'["host"] = d, local'["guest"] = local["guest"],
           sig'["guest"] = sig["guest"], remote' = remote,
           Gains("host", d), Thins("guest")
    PROVE  Exchange'
<1>1. /\ "host" \in Peers /\ "guest" \in Peers
      /\ Offering("guest") /\ Offering("guest")' /\ ~Stable("guest")' /\ ~Answering("guest")'
      /\ ~Answering("host")' /\ ~Offering("host")'
      /\ remote["host"] = local["guest"] /\ Empty("host") /\ Empty("guest")
  BY Exclusive DEF Peers, Stable, Offering, Answering, Exchange, HostAnswering
<1>2. Empty("guest")'
  BY <1>1, ThinsTo
<1>3. \A a \in Places, e \in Descriptions : OnWay("host", a, e)' =>
          e = d /\ OffersBehind("host", a)'
  BY <1>1, GainsTo DEF Empty
<1>4. Agreed' /\ GuestAnswering' /\ HostAnswering'
  BY <1>1 DEF Agreed, GuestAnswering, HostAnswering
<1>5. HostOffers'
  BY <1>3 DEF HostOffers
<1>6. HostAnswers'
  BY <1>1, <1>2, <1>3 DEF HostAnswers
<1>7. GuestOffers' /\ GuestAnswers'
  BY <1>2 DEF GuestOffers, GuestAnswers, Empty
<1> QED  BY <1>4, <1>5, <1>6, <1>7 DEF Exchange

\* The guest sets its answer: the offers of its own before it are stale.
LEMMA GuestAnswersInExchange ==
    ASSUME Exchange, NEW d \in Descriptions, d.type = "answer", Answering("guest"),
           Stable("guest")', local'["guest"] = d, local'["host"] = local["host"],
           sig'["host"] = sig["host"], remote' = remote,
           Gains("guest", d), Thins("host")
    PROVE  Exchange'
<1>1. /\ "host" \in Peers /\ "guest" \in Peers
      /\ Offering("host") /\ Offering("host")' /\ ~Stable("host")' /\ ~Answering("host")'
      /\ ~Answering("guest")' /\ ~Offering("guest")'
      /\ remote["guest"] = local["host"] /\ Empty("host") /\ OnlyOffers("guest")
  BY Exclusive DEF Peers, Stable, Offering, Answering, Exchange, GuestAnswering
<1>2. Empty("host")'
  BY <1>1, ThinsTo
<1>3. \A a \in Places, e \in Descriptions : OnWay("guest", a, e)' =>
          \/ e.type = "offer" /\ (OffersBefore("guest", a) => OffersBefore("guest", a)')
          \/ e = d /\ Last("guest", a)' /\ OffersBehind("guest", a)'
  BY <1>1, GainsTo DEF OnlyOffers
<1>4. Agreed' /\ GuestAnswering' /\ HostAnswering'
  BY <1>1 DEF Agreed, GuestAnswering, HostAnswering
<1>5. HostOffers' /\ HostAnswers'
  BY <1>2 DEF HostOffers, HostAnswers, Empty
<1>6. \A a \in Places : OffersBefore("guest", a)
  BY <1>1 DEF OffersBefore, OnlyOffers
<1>7. GuestOffers'
  <2> SUFFICES ASSUME NEW a \in Places, NEW e \in Descriptions, OnWay("guest", a, e)',
                      e.type = "offer"
               PROVE  Stale(a)'
    BY <1>1 DEF GuestOffers
  <2> QED  BY <1>1, <1>3, <1>6 DEF Stale
<1>8. GuestAnswers'
  BY <1>1, <1>3 DEF GuestAnswers
<1> QED  BY <1>4, <1>5, <1>7, <1>8 DEF Exchange

\* The host sets the guest's offer, which stood in no glare and was alone.
LEMMA HostTakesOffer ==
    ASSUME Exchange, NEW d \in Descriptions, d.type = "offer", ~Offering("host"),
           Answering("host")', remote'["host"] = d,
           sig'["guest"] = sig["guest"], local' = local,
           Yields("guest", d), Thins("host")
    PROVE  Exchange'
<1>1. /\ "host" \in Peers /\ "guest" \in Peers
      /\ Offering("guest")' <=> Offering("guest")
      /\ ~Stable("host")' /\ ~Offering("host")'
  BY Exclusive DEF Peers, Stable, Offering, Answering
<1>2. PICK h \in Places :
          /\ OnWay("guest", h, d)
          /\ \A a \in Places, e \in Descriptions : OnWay("guest", a, e)' =>
                 \E b \in Places : /\ OnWay("guest", b, e) /\ Keeps("guest", b, a)
                                   /\ Before(h, b)
  BY <1>1, YieldsTo
<1>3. Offering("guest") /\ d = local["guest"] /\ Last("guest", h)
  BY <1>2 DEF Exchange, GuestOffers, Stale
<1>4. Empty("guest")'
  BY <1>2, <1>3 DEF Empty, Last
<1>5. Empty("host")
  <2> SUFFICES ASSUME NEW a \in Places, NEW e \in Descriptions, OnWay("host", a, e)
               PROVE  FALSE
    BY DEF Empty
  <2>1. CASE e.type = "offer"
    BY <2>1 DEF Exchange, HostOffers
  <2>2. CASE e.type = "answer"
    BY <1>2, <2>2 DEF Exchange, HostAnswers, Empty
  <2> QED  BY <2>1, <2>2, Exclusive
<1>6. Empty("host")'
  BY <1>1, <1>5, ThinsTo
<1>7. ~Answering("guest")' /\ ~Stable("guest")'
  BY <1>1, <1>3 DEF Stable, Offering, Answering
<1>8. Agreed' /\ GuestAnswering' /\ HostAnswering'
  BY <1>1, <1>3, <1>4, <1>6, <1>7 DEF Agreed, GuestAnswering, HostAnswering
<1>9. HostOffers' /\ HostAnswers' /\ GuestOffers' /\ GuestAnswers'
  BY <1>4, <1>6 DEF HostOffers, HostAnswers, GuestOffers, GuestAnswers, Empty
<1> QED  BY <1>8, <1>9 DEF Exchange

\* The host sets the answer to its offer; a new offer of the guest may follow.
LEMMA HostTakesAnswer ==
    ASSUME Exchange, NEW d \in Descriptions, d.type = "answer", Offering("host"),
           Stable("host")', remote'["host"] = d, remote'["guest"] = remote["guest"],
           sig'["guest"] = sig["guest"], local' = local,
           Yields("guest", d), Thins("host")
    PROVE  Exchange'
<1>1. /\ "host" \in Peers /\ "guest" \in Peers
      /\ Offering("guest")' <=> Offering("guest")
      /\ Stable("guest")' <=> Stable("guest")
      /\ Answering("guest")' <=> Answering("guest")
      /\ ~Answering("host")'
  BY Exclusive DEF Peers, Stable, Offering, Answering
<1>2. PICK h \in Places :
          /\ OnWay("guest", h, d)
          /\ \A a \in Places, e \in Descriptions : OnWay("guest", a, e)' =>
                 \E b \in Places : /\ OnWay("guest", b, e) /\ Keeps("guest", b, a)
                                   /\ Before(h, b)
  BY <1>1, YieldsTo
<1>3. /\ ~Answering("guest")
      /\ Stable("guest") => d = local["guest"] /\ remote["guest"] = local["host"]
      /\ OffersBehind("guest", h)
  BY <1>2 DEF Exchange, GuestAnswers
<1>4. Empty("host")
  <2> SUFFICES ASSUME NEW a \in Places, NEW e \in Descriptions, OnWay("host", a, e)
               PROVE  FALSE
    BY DEF Empty
  <2>1. CASE e.type = "offer"
    BY <1>2, <2>1 DEF Exchange, HostOffers, OnlyOffers
  <2>2. CASE e.type = "answer"
    BY <1>2, <2>2 DEF Exchange, HostAnswers, Empty
  <2> QED  BY <2>1, <2>2, Exclusive
<1>5. Empty("host")'
  BY <1>1, <1>4, ThinsTo
<1>6. Agreed'
  BY <1>1, <1>3 DEF Agreed
<1>7. GuestAnswering' /\ HostAnswering'
  BY <1>1, <1>3 DEF GuestAnswering, HostAnswering
<1>8. HostOffers' /\ HostAnswers'
  BY <1>5 DEF HostOffers, HostAnswers, Empty
<1>9. GuestOffers'
  <2> SUFFICES ASSUME NEW a \in Places, NEW e \in Descriptions, OnWay("guest", a, e)',
                      e.type = "offer"
               PROVE  Offering("guest") /\ e = local["guest"] /\ Last("guest", a)'
    BY <1>1 DEF GuestOffers
  <2>1. PICK b \in Places : OnWay("guest", b, e) /\ Keeps("guest", b, a) /\ Before(h, b)
    BY <1>2
  <2>2. ~Stale(b)
    BY <1>2, <2>1 DEF Stale, OffersBefore
  <2>3. Offering("guest") /\ e = local["guest"] /\ Last("guest", b)
    BY <2>1, <2>2 DEF Exchange, GuestOffers
  <2> QED  BY <2>1, <2>3 DEF Keeps
<1>10. GuestAnswers'
  <2> SUFFICES ASSUME NEW a \in Places, NEW e \in Descriptions, OnWay("guest", a, e)',
                      e.type = "answer"
               PROVE  FALSE
    BY DEF GuestAnswers
  <2>1. PICK b \in Places : OnWay("guest", b, e) /\ Before(h, b)
    BY <1>2
  <2> QED  BY <1>3, <2>1 DEF OffersBehind
<1> QED  BY <1>6, <1>7, <1>8, <1>9, <1>10 DEF Exchange

\* The guest sets the host's offer, and rolls back its own if it has one.
LEMMA GuestTakesOffer ==
    ASSUME Exchange, NEW d \in Descriptions, d.type = "offer",
           Answering("guest")', remote'["guest"] = d,
           sig'["host"] = sig["host"], local' = local,
           Yields("host", d), Thins("guest")
    PROVE  Exchange'
<1>1. /\ "host" \in Peers /\ "guest" \in Peers
      /\ Offering("host")' <=> Offering("host")
      /\ ~Stable("guest")'
  BY Exclusive DEF Peers, Stable, Offering, Answering
<1>2. PICK h \in Places :
          /\ OnWay("host", h, d)
          /\ \A a \in Places, e \in Descriptions : OnWay("host", a, e)' =>
                 \E b \in Places : /\ OnWay("host", b, e) /\ Keeps("host", b, a)
                                   /\ Before(h, b)
  BY <1>1, YieldsTo
<1>3. Offering("host") /\ d = local["host"] /\ OnlyOffers("guest") /\ Last("host", h)
  BY <1>2 DEF Exchange, HostOffers
<1>4. Empty("host")'
  BY <1>2, <1>3 DEF Empty, Last
<1>5. OnlyOffers("guest")'
  BY <1>1, <1>3, ThinsTo
<1>6. ~Answering("host")' /\ ~Stable("host")'
  BY <1>1, <1>3 DEF Stable, Offering, Answering
<1>7. Agreed' /\ GuestAnswering' /\ HostAnswering'
  BY <1>1, <1>3, <1>4, <1>5, <1>6 DEF Agreed, GuestAnswering, HostAnswering
<1>8. HostOffers' /\ HostAnswers'
  BY <1>4 DEF HostOffers, HostAnswers, Empty
<1>9. \A a : Stale(a)'
  BY <1>1, <1>3, <1>5 DEF Stale, OffersBefore, OnlyOffers
<1>10. GuestOffers' /\ GuestAnswers'
  BY <1>5, <1>6, <1>9 DEF GuestOffers, GuestAnswers, OnlyOffers
<1> QED  BY <1>7, <1>8, <1>10 DEF Exchange

\* The guest sets the answer to its offer; a new offer of the host may follow.
LEMMA GuestTakesAnswer ==
    ASSUME Exchange, NEW d \in Descriptions, d.type = "answer",
           Stable("guest")', remote'["guest"] = d, remote'["host"] = remote["host"],
           sig'["host"] = sig["host"], local' = local,
           Yields("host", d), Thins("guest")
    PROVE  Exchange'
<1>1. /\ "host" \in Peers /\ "guest" \in Peers
      /\ Offering("host")' <=> Offering("host")
      /\ Stable("host")' <=> Stable("host")
      /\ Answering("host")' <=> Answering("host")
      /\ ~Answering("guest")'
  BY Exclusive DEF Peers, Stable, Offering, Answering
<1>2. PICK h \in Places :
          /\ OnWay("host", h, d)
          /\ \A a \in Places, e \in Descriptions : OnWay("host", a, e)' =>
                 \E b \in Places : /\ OnWay("host", b, e) /\ Keeps("host", b, a)
                                   /\ Before(h, b)
  BY <1>1, YieldsTo
<1>3. /\ ~Answering("host") /\ remote["host"] = local["guest"]
      /\ Stable("host") => d = local["host"]
      /\ Empty("guest") /\ OffersBehind("host", h)
  BY <1>2 DEF Exchange, HostAnswers
<1>4. Empty("guest")'
  BY <1>1, <1>3, ThinsTo
<1>5. Agreed' /\ GuestAnswering' /\ HostAnswering'
  BY <1>1, <1>3 DEF Agreed, GuestAnswering, HostAnswering
<1>6. HostOffers'
  <2> SUFFICES ASSUME NEW a \in Places, NEW e \in Descriptions, OnWay("host", a, e)',
                      e.type = "offer"
               PROVE  /\ Offering("host") /\ e = local["host"]
                      /\ OnlyOffers("guest")' /\ Last("host", a)'
    BY <1>1 DEF HostOffers
  <2>1. PICK b \in Places : OnWay("host", b, e) /\ Keeps("host", b, a)
    BY <1>2
  <2>2. Offering("host") /\ e = local["host"] /\ Last("host", b)
    BY <2>1 DEF Exchange, HostOffers
  <2>3. OnlyOffers("guest")'
    BY <1>4 DEF OnlyOffers, Empty
  <2> QED  BY <2>1, <2>2, <2>3 DEF Keeps
<1>7. HostAnswers'
  <2> SUFFICES ASSUME NEW a \in Places, NEW e \in Descriptions, OnWay("host", a, e)',
                      e.type = "answer"
               PROVE  FALSE
    BY DEF HostAnswers
  <2>1. PICK b \in Places : OnWay("host", b, e) /\ Before(h, b)
    BY <1>2
  <2> QED  BY <1>3, <2>1 DEF OffersBehind
<1>8. GuestOffers' /\ GuestAnswers'
  BY <1>4 DEF GuestOffers, GuestAnswers, Empty
<1> QED  BY <1>5, <1>6, <1>7, <1>8 DEF Exchange

-----------------------------------------------------------------------------
(* How the stages change *)

\* The first operation is done; none of those that follow it sets a description
\* of the other peer.
LEMMA Popped ==
    ASSUME NEW old \in Seq(Ops), old # <<>>, NEW next \in Seq(Ops),
           \A k \in DOMAIN next : next[k].op # "setRemote"
    PROVE  /\ Tail(old) \o next \in Seq(Ops)
           /\ \A i \in Nat \ {0}, x \in Signals : Lies(old, 1, i, x) =>
                  i = 1 \/ (1 < i /\ Lies(Tail(old) \o next, 1, i - 1, x))
           /\ \A i \in Nat \ {0}, d \in Descriptions :
                  Lies(Tail(old) \o next, 1, i, d) => Lies(old, 1, i + 1, d)
<1> DEFINE s == Tail(old)
<1>1. /\ s \in Seq(Ops) /\ DOMAIN s = 1..(Len(old) - 1) /\ DOMAIN old = 1..Len(old)
      /\ Len(old) \in Nat
      /\ \A i \in DOMAIN s : i + 1 \in DOMAIN old /\ i \in Nat /\ s[i] = old[i + 1]
  BY TailOf
<1> HIDE DEF s
<1>2. s \o next \in Seq(Ops)
  BY <1>1, JoinOf
<1>3. ASSUME NEW i \in Nat \ {0}, NEW x \in Signals, Lies(old, 1, i, x), i # 1
      PROVE  1 < i /\ Lies(s \o next, 1, i - 1, x)
  <2>1. i \in DOMAIN old /\ old[i] = Said(1, x)
    BY <1>3 DEF Lies
  <2>2. i - 1 \in DOMAIN s /\ (i - 1) + 1 = i /\ 1 < i
    BY <1>1, <1>3, <2>1
  <2>3. s[i - 1] = old[i]
    BY <1>1, <2>2
  <2>4. i - 1 \in DOMAIN (s \o next) /\ (s \o next)[i - 1] = s[i - 1]
    BY <1>1, <2>2, JoinOf
  <2> QED  BY <2>1, <2>2, <2>3, <2>4 DEF Lies
<1>4. ASSUME NEW i \in Nat \ {0}, NEW d \in Descriptions, Lies(s \o next, 1, i, d)
      PROVE  Lies(old, 1, i + 1, d)
  <2>1. i \in DOMAIN (s \o next) /\ (s \o next)[i] = Said(1, d)
        /\ Said(1, d).op = "setRemote"
    BY <1>4, SaidIs DEF Lies
  <2>2. i \in DOMAIN s
    BY <1>1, <2>1, JoinOf
  <2>3. (s \o next)[i] = s[i]
    BY <1>1, <2>2, JoinOf
  <2> QED  BY <1>1, <2>1, <2>2, <2>3 DEF Lies
<1>5. s = Tail(old)
  BY DEF s
<1> QED  BY <1>2, <1>3, <1>4, <1>5

LEMMA PopFlows ==
    ASSUME Typed, NEW p \in Peers, ops[p] # <<>>, NEW next \in Seq(Ops),
           \A k \in DOMAIN next : next[k].op # "setRemote",
           ops'[p] = Tail(ops[p]) \o next,
           down'[p] = down[p], buffer'[p] = buffer[p], up'[Other(p)] = up[Other(p)],
           pendingSignals'[Other(p)] = pendingSignals[Other(p)]
    PROVE  Flows(Other(p), <<1, 1>>)
<1> DEFINE q == Other(p)
           h == <<1, 1>>
           s == 1
           k == 1
<1>1. q \in Peers /\ Other(q) = p /\ ops[p] \in Seq(Ops)
  BY StagesOf DEF Typed
<1>2. /\ \A i \in Nat \ {0}, x \in Signals : Lies(ops[p], s, i, x) =>
             i = 1 \/ (k < i /\ Lies(ops'[p], s, i - k, x))
      /\ \A i \in Nat \ {0}, d \in Descriptions :
             Lies(ops'[p], s, i, d) => Lies(ops[p], s, i + k, d)
  BY <1>1, Popped
<1>3. Stage(q, s) = ops[p] /\ Stage(q, s)' = ops'[p] /\ s \in Stages /\ k \in Nat
  BY <1>1, StagesOf
<1>4. \A r \in Stages : r # s => Stage(q, r)' = Stage(q, r)
  <2>1. \A r \in {2, 3, 4, 5} : Stage(q, r)' = Stage(q, r)
    BY <1>1, StagesOf
  <2>2. \A r \in Stages : r # 1 => r \in {2, 3, 4, 5}
    BY DEF Stages
  <2> QED  BY <2>1, <2>2
<1>5. /\ \A r \in Stages, i \in Nat : r # s => <<r, i>> # h
      /\ \A i \in Nat \ {0} : <<s, i + k>> # h
      /\ \A i \in Nat : i = 1 => <<s, i>> = h
  OBVIOUS
<1> HIDE DEF q, h, s, k
<1>6. \A i \in Nat \ {0}, x \in Signals : Lies(Stage(q, s), s, i, x) =>
          <<s, i>> = h \/ (k < i /\ Lies(Stage(q, s)', s, i - k, x))
  BY <1>2, <1>3, <1>5
<1>7. \A i \in Nat \ {0}, d \in Descriptions : Lies(Stage(q, s)', s, i, d) =>
          Lies(Stage(q, s), s, i + k, d) /\ <<s, i + k>> # h
  BY <1>2, <1>3, <1>5
<1>8. Flows(q, h)
  BY <1>1, <1>3, <1>4, <1>5, <1>6, <1>7, ShiftFlows
<1> QED  BY <1>8 DEF q, h

\* A way none of whose stages changes.
LEMMA KeptFlows ==
    ASSUME NEW p \in Peers, ops'[Other(p)] = ops[Other(p)],
           down'[Other(p)] = down[Other(p)], buffer'[Other(p)] = buffer[Other(p)],
           up'[p] = up[p], pendingSignals'[p] = pendingSignals[p]
    PROVE  Flows(p, Nowhere)
<1>1. \A r \in {1, 2, 3, 4, 5} : Stage(p, r)' = Stage(p, r)
  BY StagesOf
<1>2. \A r \in Stages, i \in Nat : <<r, i>> # Nowhere
  BY DEF Stages, Nowhere
<1> QED  BY <1>1, <1>2, SameFlows, StagesOf

\* A way some of whose stages are emptied.
LEMMA EmptiedThins ==
    ASSUME NEW p \in Peers,
           \A r \in Peers :
               /\ ops'[r] = ops[r]
               /\ down'[r] = down[r] \/ down'[r] = <<>>
               /\ buffer'[r] = buffer[r] \/ buffer'[r] = <<>>
               /\ up'[r] = up[r] \/ up'[r] = <<>>
               /\ pendingSignals'[r] = pendingSignals[r]
    PROVE  Thins(p)
<1>1. \A s \in {1, 2, 3, 4, 5} : Stage(p, s)' = Stage(p, s) \/ Stage(p, s)' = <<>>
  BY StagesOf
<1>2. DOMAIN << >> = {}
  OBVIOUS
<1>3. ASSUME NEW a \in Places, NEW d \in Descriptions, OnWay(p, a, d)'
      PROVE  OnWay(p, a, d)
  <2>1. a[1] \in Stages
    BY DEF Places
  <2>2. Stage(p, a[1])' = Stage(p, a[1]) \/ Stage(p, a[1])' = <<>>
    BY <1>1, <2>1, StagesOf
  <2> QED  BY <1>2, <1>3, <2>2 DEF OnWay, Lies, Said
<1> DEFINE f == [a \in Places |-> a]
<1>4. f \in [Places -> Places] /\ \A a \in Places : f[a] = a
  OBVIOUS
<1> HIDE DEF f
<1> QED  BY <1>3, <1>4 DEF Thins

\* The first of a stage joins the one before it.
LEMMA OneMovesOn ==
    ASSUME NEW S, NEW x \in Seq(S), NEW v \in S, NEW R, NEW y \in Seq(R), y # <<>>,
           NEW t, NEW s, \A u \in Signals : v = Said(t, u) <=> y[1] = Said(s, u)
    PROVE  MovesOn(x, y, Append(x, v), Tail(y), t, s)
<1> DEFINE n == Len(x)
           xx == Append(x, v)
           yy == Tail(y)
<1>1. /\ n \in Nat /\ DOMAIN x = 1..n /\ DOMAIN xx = 1..(n + 1)
      /\ \A i \in 1..n : xx[i] = x[i]
      /\ xx[n + 1] = v
  OBVIOUS
<1>2. /\ DOMAIN yy = 1..(Len(y) - 1) /\ DOMAIN y = 1..Len(y) /\ Len(y) \in Nat /\ 1 \in DOMAIN y
      /\ \A i \in DOMAIN yy : i + 1 \in DOMAIN y /\ i \in Nat /\ yy[i] = y[i + 1]
  BY TailOf
<1>3. \A d \in Descriptions : d \in Signals
  BY DEF Signals
<1> HIDE DEF n, xx, yy
<1>4. ASSUME NEW i \in Nat \ {0}, NEW u \in Signals
      PROVE  /\ Lies(x, t, i, u) => i <= n /\ Lies(xx, t, i, u)
             /\ Lies(y, s, i, u) => \/ i <= 1 /\ Lies(xx, t, n + i, u)
                                    \/ 1 < i /\ Lies(yy, s, i - 1, u)
  <2>1. ASSUME i \in DOMAIN x, x[i] = Said(t, u)
        PROVE  i <= n /\ i \in DOMAIN xx /\ xx[i] = Said(t, u)
    BY <1>1, <2>1
  <2>2. ASSUME i \in DOMAIN y, y[i] = Said(s, u), i = 1
        PROVE  n + i \in DOMAIN xx /\ xx[n + i] = Said(t, u)
    BY <1>1, <2>2
  <2>3. ASSUME i \in DOMAIN y, y[i] = Said(s, u), i # 1
        PROVE  1 < i /\ i - 1 \in DOMAIN yy /\ yy[i - 1] = Said(s, u)
    <3>1. i - 1 \in DOMAIN yy /\ (i - 1) + 1 = i
      BY <1>2, <2>3
    <3>2. yy[i - 1] = y[(i - 1) + 1]
      BY <1>2, <3>1
    <3> QED  BY <2>3, <3>1, <3>2
  <2> QED  BY <2>1, <2>2, <2>3 DEF Lies
<1>5. ASSUME NEW i \in Nat \ {0}, NEW d \in Descriptions
      PROVE  /\ Lies(xx, t, i, d) =>
                   \/ i <= n /\ Lies(x, t, i, d)
                   \/ n < i /\ i <= n + 1 /\ Lies(y, s, i - n, d)
             /\ Lies(yy, s, i, d) => Lies(y, s, i + 1, d)
  <2>1. ASSUME i \in DOMAIN xx, xx[i] = Said(t, d), i <= n
        PROVE  i \in DOMAIN x /\ x[i] = Said(t, d)
    BY <1>1, <2>1
  <2>2. ASSUME i \in DOMAIN xx, xx[i] = Said(t, d), ~(i <= n)
        PROVE  n < i /\ i <= n + 1 /\ i - n \in DOMAIN y /\ y[i - n] = Said(s, d)
    <3>1. i = n + 1 /\ i - n = 1
      BY <1>1, <2>2
    <3> QED  BY <1>1, <1>2, <1>3, <2>2, <3>1
  <2>3. ASSUME i \in DOMAIN yy, yy[i] = Said(s, d)
        PROVE  i + 1 \in DOMAIN y /\ y[i + 1] = Said(s, d)
    BY <1>2, <2>3
  <2> QED  BY <2>1, <2>2, <2>3 DEF Lies
<1>6. MovesOn(x, y, xx, yy, t, s)
  BY <1>1, <1>4, <1>5 DEF MovesOn
<1> QED  BY <1>6 DEF xx, yy

\* A whole stage joins the one before it.
LEMMA AllMoveOn ==
    ASSUME NEW S, NEW x \in Seq(S), NEW y \in Seq(S), NEW t, NEW s,
           \A u \in Signals : Said(t, u) = Said(s, u)
    PROVE  MovesOn(x, y, x \o y, <<>>, t, s)
<1> DEFINE n == Len(x)
           m == Len(y)
           xx == x \o y
<1>1. /\ n \in Nat /\ DOMAIN x = 1..n /\ m \in Nat /\ DOMAIN y = 1..m
      /\ DOMAIN xx = 1..(n + m)
      /\ \A i \in 1..n : xx[i] = x[i]
      /\ \A i \in 1..m : xx[n + i] = y[i]
  OBVIOUS
<1>2. DOMAIN << >> = {}
  OBVIOUS
<1>3. \A d \in Descriptions : d \in Signals
  BY DEF Signals
<1> HIDE DEF n, m, xx
<1>4. ASSUME NEW i \in Nat \ {0}, NEW u \in Signals
      PROVE  /\ Lies(x, t, i, u) => i <= n /\ Lies(xx, t, i, u)
             /\ Lies(y, s, i, u) => i <= m /\ Lies(xx, t, n + i, u)
  <2>1. ASSUME i \in DOMAIN x, x[i] = Said(t, u)
        PROVE  i <= n /\ i \in DOMAIN xx /\ xx[i] = Said(t, u)
    BY <1>1, <2>1
  <2>2. ASSUME i \in DOMAIN y, y[i] = Said(s, u)
        PROVE  i <= m /\ n + i \in DOMAIN xx /\ xx[n + i] = Said(t, u)
    BY <1>1, <2>2
  <2> QED  BY <2>1, <2>2 DEF Lies
<1>5. ASSUME NEW i \in Nat \ {0}, NEW d \in Descriptions
      PROVE  /\ Lies(xx, t, i, d) =>
                   \/ i <= n /\ Lies(x, t, i, d)
                   \/ n < i /\ i <= n + m /\ Lies(y, s, i - n, d)
             /\ ~Lies(<<>>, s, i, d)
  <2>1. ASSUME i \in DOMAIN xx, xx[i] = Said(t, d), i <= n
        PROVE  i \in DOMAIN x /\ x[i] = Said(t, d)
    BY <1>1, <2>1
  <2>2. ASSUME i \in DOMAIN xx, xx[i] = Said(t, d), ~(i <= n)
        PROVE  n < i /\ i <= n + m /\ i - n \in DOMAIN y /\ y[i - n] = Said(s, d)
    <3>1. n < i /\ i <= n + m /\ i - n \in 1..m /\ n + (i - n) = i
      BY <1>1, <2>2
    <3>2. xx[n + (i - n)] = y[i - n]
      BY <1>1, <3>1
    <3> QED  BY <1>1, <1>3, <2>2, <3>1, <3>2
  <2> QED  BY <1>2, <2>1, <2>2 DEF Lies
<1>6. MovesOn(x, y, xx, <<>>, t, s)
  BY <1>1, <1>4, <1>5 DEF MovesOn
<1> QED  BY <1>6 DEF xx

\* Nothing joins the way of either peer or leaves it.
Sails == Flows("host", Nowhere) /\ Flows("guest", Nowhere)

LEMMA SailsOf ==
    ASSUME NEW p \in Peers, Flows(p, Nowhere), Flows(Other(p), Nowhere)
    PROVE  Sails
BY DEF Sails, Other, Peers

LEMMA SailsThin == Sails => Thins("host") /\ Thins("guest")
BY FlowsThin DEF Sails, Peers

\* The chain of p goes on.
LEMMA ContinueFlows ==
    ASSUME Typed, NEW p \in Peers, ops[p] # <<>>, NEW next \in Seq(Ops),
           \A k \in DOMAIN next : next[k].op # "setRemote", Continue(p, next),
           UNCHANGED <<down, buffer, up, pendingSignals>>
    PROVE  Flows(Other(p), <<1, 1>>) /\ Flows(p, Nowhere)
<1>1. Other(p) \in Peers /\ Other(p) # p
  BY DEF Other, Peers
<1>2. ops'[p] = Tail(ops[p]) \o next /\ ops'[Other(p)] = ops[Other(p)]
  BY <1>1 DEF Continue, Typed
<1> QED  BY <1>1, <1>2, PopFlows, KeptFlows

LEMMA DoneFlows ==
    ASSUME Typed, NEW p \in Peers, ops[p] # <<>>, Done(p),
           UNCHANGED <<down, buffer, up, pendingSignals>>
    PROVE  Flows(Other(p), <<1, 1>>) /\ Flows(p, Nowhere)
<1> DEFINE next == << >>
<1>1. next \in Seq(Ops) /\ DOMAIN next = {} /\ Continue(p, next)
  BY DEF Done
<1> HIDE DEF next
<1> QED  BY <1>1, ContinueFlows

\* An operation on a description or a candidate of one's own is no signal.
LEMMA NoSignalFirst ==
    ASSUME Typed, NEW p \in Peers, ops[p] # <<>>, ops[p][1].op \notin {"setRemote", "add"},
           Flows(Other(p), <<1, 1>>), Flows(p, Nowhere)
    PROVE  Sails
<1> DEFINE h == <<1, 1>>
<1>1. h \in Places /\ h[1] = 1 /\ h[2] = 1
  BY DEF Places, Stages
<1>2. Other(p) \in Peers /\ Stage(Other(p), 1) = ops[p]
  BY StagesOf
<1> HIDE DEF h
<1>3. ASSUME NEW x \in Signals PROVE ~OnWay(Other(p), h, x)
  <2>1. Said(1, x).op \in {"setRemote", "add"}
    BY SaidIs DEF Signals
  <2> QED  BY <1>1, <1>2, <2>1 DEF OnWay, Lies
<1>4. Flows(Other(p), h)
  BY DEF h
<1>5. Flows(Other(p), Nowhere)
  BY <1>1, <1>2, <1>3, <1>4, NothingGoes
<1> QED  BY <1>5, SailsOf

LEMMA NegotiationNeededSails ==
    ASSUME Typed, NEW p \in Peers, NegotiationNeeded(p)
    PROVE  Sails
<1> DEFINE op == [op |-> "createOffer"]
           q == Other(p)
           s == 1
           k == 0
<1>1. op \in Ops /\ \A x \in Signals : op # Said(s, x)
  <2>1. op \in Ops /\ op.op = "createOffer"
    BY Operations
  <2>2. \A x \in Signals : Said(1, x).op \in {"setRemote", "add"}
    BY SaidIs DEF Signals
  <2> HIDE DEF op
  <2> QED  BY <2>1, <2>2
<1>2. /\ ops' = [ops EXCEPT ![p] = Append(ops[p], op)] /\ ops[p] \in Seq(Ops)
      /\ UNCHANGED <<down, buffer, up, pendingSignals>>
  BY DEF NegotiationNeeded, Queue, Typed
<1> HIDE DEF op
<1>3. q \in Peers /\ q # p /\ Other(q) = p
  BY DEF Other, Peers
<1>4. ops'[p] = Append(ops[p], op) /\ ops'[q] = ops[q]
  BY <1>2, <1>3 DEF Typed
<1>5. \A i \in Nat \ {0}, x \in Signals :
          Lies(ops'[p], s, i, x) <=> Lies(ops[p], s, i, x)
  <2> SUFFICES ASSUME NEW i \in Nat \ {0}, NEW x \in Signals
               PROVE  Lies(Append(ops[p], op), s, i, x) <=> Lies(ops[p], s, i, x)
    BY <1>4
  <2>1. /\ i \in DOMAIN ops[p] => /\ i \in DOMAIN Append(ops[p], op)
                                  /\ Append(ops[p], op)[i] = ops[p][i]
        /\ i \in DOMAIN Append(ops[p], op) =>
               i \in DOMAIN ops[p] \/ Append(ops[p], op)[i] = op
    BY <1>1, <1>2
  <2> QED  BY <1>1, <2>1 DEF Lies
<1>6. Stage(q, s) = ops[p] /\ Stage(q, s)' = ops'[p] /\ s \in Stages /\ k \in Nat
  BY <1>3, StagesOf
<1>7. \A r \in Stages : r # s => Stage(q, r)' = Stage(q, r)
  <2> SUFFICES ASSUME NEW r \in {2, 3, 4, 5} PROVE Stage(q, r)' = Stage(q, r)
    BY StagesOf
  <2> QED  BY <1>2, <1>3, StagesOf
<1>8. \A i \in Nat \ {0} : k < i /\ i - k = i /\ i + k = i /\ i \in Nat
  OBVIOUS
<1>9. \A r \in Stages, i \in Nat : <<r, i>> # Nowhere
  BY DEF Stages, Nowhere
<1>10. \A d \in Descriptions : d \in Signals
  BY DEF Signals
<1> HIDE DEF q, s, k
<1>11. \A i \in Nat \ {0}, x \in Signals : Lies(Stage(q, s), s, i, x) =>
           k < i /\ Lies(Stage(q, s)', s, i - k, x)
  BY <1>5, <1>6, <1>8
<1>12. \A i \in Nat \ {0}, d \in Descriptions : Lies(Stage(q, s)', s, i, d) =>
           Lies(Stage(q, s), s, i + k, d) /\ <<s, i + k>> # Nowhere
  BY <1>5, <1>6, <1>8, <1>9, <1>10
<1>13. Flows(q, Nowhere)
  BY <1>3, <1>6, <1>7, <1>9, <1>11, <1>12, ShiftFlows
<1>14. Flows(p, Nowhere)
  BY <1>2, <1>3, <1>4, KeptFlows DEF q
<1> QED  BY <1>13, <1>14, SailsOf DEF q

LEMMA CreateOfferSails ==
    ASSUME Typed, NEW p \in Peers, CreateOffer(p)
    PROVE  Sails
<1>1. ops[p] # <<>> /\ ops[p] \in Seq(Ops) /\ made[p] \in Nat
      /\ Head(ops[p]).op = "createOffer" /\ UNCHANGED <<down, buffer, up, pendingSignals>>
  BY DEF CreateOffer, At, Typed
<1>2. Flows(Other(p), <<1, 1>>) /\ Flows(p, Nowhere)
  <2>1. CASE sig[p] = "stable"
    <3> DEFINE next == <<[op |-> "setLocal", d |-> Offer(p, made[p] + 1)]>>
    <3>1. Offer(p, made[p] + 1) \in Descriptions
      BY <1>1 DEF Offer, Descriptions
    <3>2. next \in Seq(Ops) /\ DOMAIN next = {1} /\ next[1].op = "setLocal"
      BY <3>1, Operations
    <3>3. Continue(p, next)
      BY <2>1 DEF CreateOffer
    <3> HIDE DEF next
    <3> QED  BY <1>1, <3>2, <3>3, ContinueFlows
  <2>2. CASE sig[p] # "stable"
    BY <1>1, <2>2, DoneFlows DEF CreateOffer
  <2> QED  BY <2>1, <2>2
<1>3. ops[p][1].op = "createOffer"
  BY <1>1, TailOf
<1> QED  BY <1>1, <1>2, <1>3, NoSignalFirst

LEMMA CreateAnswerSails ==
    ASSUME Typed, Remembered, NEW p \in Peers, CreateAnswer(p)
    PROVE  Sails
<1>1. ops[p] # <<>> /\ ops[p] \in Seq(Ops) /\ Head(ops[p]).op = "createAnswer"
      /\ UNCHANGED <<down, buffer, up, pendingSignals>>
  BY DEF CreateAnswer, At, Typed
<1>2. Flows(Other(p), <<1, 1>>) /\ Flows(p, Nowhere)
  <2>1. CASE sig[p] = "have-remote-offer"
    <3> DEFINE next == <<[op |-> "setLocal", d |-> AnswerTo(p, remote[p])]>>
    <3>1. AnswerTo(p, remote[p]) \in Descriptions
      BY <2>1 DEF AnswerTo, Descriptions, Remembered
    <3>2. next \in Seq(Ops) /\ DOMAIN next = {1} /\ next[1].op = "setLocal"
      BY <3>1, Operations
    <3>3. Continue(p, next)
      BY <2>1 DEF CreateAnswer
    <3> HIDE DEF next
    <3> QED  BY <1>1, <3>2, <3>3, ContinueFlows
  <2>2. CASE sig[p] # "have-remote-offer"
    BY <1>1, <2>2, DoneFlows DEF CreateAnswer
  <2> QED  BY <2>1, <2>2
<1>3. ops[p][1].op = "createAnswer"
  BY <1>1, TailOf
<1> QED  BY <1>1, <1>2, <1>3, NoSignalFirst

LEMMA FlushSails ==
    ASSUME Typed, NEW p \in Peers, Flush(p)
    PROVE  Sails
<1> DEFINE q == Other(p)
           s == 1
           k == 2
           h == <<1, 1>>
<1>1. ops[p] # <<>> /\ ops[p] \in Seq(Ops) /\ Head(ops[p]).op = "flush"
      /\ UNCHANGED <<down, buffer, up, pendingSignals>>
  BY DEF Flush, At, Typed
<1>2. q \in Peers /\ q # p /\ Other(q) = p
  BY DEF Other, Peers
<1>3. ops[p][1].op = "flush"
  BY <1>1, TailOf
<1>4. ASSUME ops' = [ops EXCEPT ![p] = Tail(@)]
      PROVE  Sails
  <2>1. Tail(ops[p]) \o << >> = Tail(ops[p])
    BY <1>1, TailOf
  <2>2. Done(p)
    BY <1>4, <2>1 DEF Done, Continue
  <2> QED  BY <1>1, <1>3, <2>2, DoneFlows, NoSignalFirst
<1>5. ASSUME ops' = [ops EXCEPT ![p] = Tail(Tail(@))], Len(ops[p]) > 1,
             ops[p][2].op = "createAnswer"
      PROVE  Sails
  <2>1. ops'[p] = Tail(Tail(ops[p])) /\ ops'[q] = ops[q]
    BY <1>2, <1>5 DEF Typed
  <2>2. Flows(p, Nowhere)
    BY <1>1, <2>1, KeptFlows
  <2>3. \A i \in Nat \ {0} :
            /\ i \in DOMAIN ops[p] /\ 2 < i =>
                   /\ i - 2 \in DOMAIN Tail(Tail(ops[p]))
                   /\ Tail(Tail(ops[p]))[i - 2] = ops[p][i]
            /\ i \in DOMAIN Tail(Tail(ops[p])) =>
                   /\ i + 2 \in DOMAIN ops[p]
                   /\ Tail(Tail(ops[p]))[i] = ops[p][i + 2]
    BY <1>1, <1>5
  <2>4. \A x \in Signals : Said(1, x).op \in {"setRemote", "add"}
    BY SaidIs DEF Signals
  <2>5. /\ \A i \in Nat \ {0}, x \in Signals : Lies(ops[p], s, i, x) =>
               i = 1 \/ (k < i /\ Lies(ops'[p], s, i - k, x))
        /\ \A i \in Nat \ {0}, d \in Descriptions :
               Lies(ops'[p], s, i, d) => Lies(ops[p], s, i + k, d)
    <3>1. ASSUME NEW i \in Nat \ {0}, NEW x \in Signals, Lies(ops[p], s, i, x), i # 1
          PROVE  k < i /\ Lies(ops'[p], s, i - k, x)
      <4>1. i # 2
        BY <1>5, <2>4, <3>1 DEF Lies
      <4>2. 2 < i
        BY <3>1, <4>1
      <4> QED  BY <2>1, <2>3, <3>1, <4>2 DEF Lies
    <3>2. ASSUME NEW i \in Nat \ {0}, NEW d \in Descriptions, Lies(ops'[p], s, i, d)
          PROVE  Lies(ops[p], s, i + k, d)
      BY <2>1, <2>3, <3>2 DEF Lies
    <3> QED  BY <3>1, <3>2
  <2>6. Stage(q, s) = ops[p] /\ Stage(q, s)' = ops'[p] /\ s \in Stages /\ k \in Nat
    BY <1>2, StagesOf
  <2>7. \A r \in Stages : r # s => Stage(q, r)' = Stage(q, r)
    <3> SUFFICES ASSUME NEW r \in {2, 3, 4, 5} PROVE Stage(q, r)' = Stage(q, r)
      BY StagesOf
    <3> QED  BY <1>1, <1>2, StagesOf
  <2>8. /\ \A r \in Stages, i \in Nat : r # s => <<r, i>> # h
        /\ \A i \in Nat \ {0} : <<s, i + k>> # h
        /\ \A i \in Nat : i = 1 => <<s, i>> = h
    OBVIOUS
  <2> HIDE DEF q, h, s, k
  <2>9. \A i \in Nat \ {0}, x \in Signals : Lies(Stage(q, s), s, i, x) =>
            <<s, i>> = h \/ (k < i /\ Lies(Stage(q, s)', s, i - k, x))
    BY <2>5, <2>6, <2>8
  <2>10. \A i \in Nat \ {0}, d \in Descriptions : Lies(Stage(q, s)', s, i, d) =>
            Lies(Stage(q, s), s, i + k, d) /\ <<s, i + k>> # h
    BY <2>5, <2>6, <2>8
  <2>11. Flows(q, h)
    BY <1>2, <2>6, <2>7, <2>8, <2>9, <2>10, ShiftFlows
  <2> QED  BY <1>1, <1>3, <2>2, <2>11, NoSignalFirst DEF q, h
<1> QED  BY <1>4, <1>5, FlushOps

\* The candidate that is added leaves the way.
LEMMA AddCandidateFlows ==
    ASSUME Typed, NEW p \in Peers, AddCandidate(p)
    PROVE  /\ Head(ops[p]).c \in Candidates
           /\ OnWay(Other(p), <<1, 1>>, Head(ops[p]).c)
           /\ Flows(Other(p), <<1, 1>>) /\ Flows(p, Nowhere)
<1>1. ops[p] # <<>> /\ ops[p] \in Seq(Ops) /\ Head(ops[p]).op = "add" /\ Done(p)
      /\ UNCHANGED <<down, buffer, up, pendingSignals>>
  BY DEF AddCandidate, At, Typed
<1> DEFINE c == Head(ops[p]).c
           h == <<1, 1>>
<1>2. Head(ops[p]) = [op |-> "add", c |-> c] /\ c \in Candidates
  <2>1. Head(ops[p]) \in Ops
    BY <1>1, TailOf
  <2>2. \A op \in Ops : op.op = "add" => op.c \in Candidates /\ op = [op |-> "add", c |-> op.c]
    BY DEF Ops
  <2> QED  BY <1>1, <2>1, <2>2
<1>3. Head(ops[p]) = ops[p][1] /\ 1 \in DOMAIN ops[p]
  BY <1>1, TailOf
<1>4. Stage(Other(p), 1) = ops[p] /\ h[1] = 1 /\ h[2] = 1
  BY StagesOf
<1> HIDE DEF c, h
<1>5. OnWay(Other(p), h, c)
  BY <1>2, <1>3, <1>4, SaidIs DEF OnWay, Lies
<1>6. Flows(Other(p), <<1, 1>>) /\ Flows(p, Nowhere)
  BY <1>1, DoneFlows
<1> QED  BY <1>2, <1>5, <1>6 DEF c, h

\* A socket that is not open carries nothing, and an open one leaves nothing to
\* wait.
OpenSends ==
    \A p \in Peers : IF sock[p] = "open" THEN pendingSignals[p] = <<>> ELSE up[p] = <<>>

\* What was kept for a socket goes out on it.
LEMMA ConnectSails ==
    ASSUME Typed, OpenSends, NEW p \in Peers, Connect(p)
    PROVE  Sails
<1> DEFINE q == Other(p)
<1>1. /\ UNCHANGED <<ops, down, buffer>> /\ sock[p] = "down"
      /\ up' = [up EXCEPT ![p] = pendingSignals[p]]
      /\ pendingSignals' = [pendingSignals EXCEPT ![p] = <<>>]
  BY DEF Connect
<1>2. q \in Peers /\ Other(q) = p /\ q # p
  BY DEF Other, Peers
<1>3. /\ up'[p] = pendingSignals[p] /\ pendingSignals'[p] = <<>> /\ up[p] = <<>>
      /\ up'[q] = up[q] /\ pendingSignals'[q] = pendingSignals[q]
  BY <1>1, <1>2 DEF Typed, OpenSends
<1>4. Flows(q, Nowhere)
  BY <1>1, <1>2, <1>3, KeptFlows
<1>5. MovesOn(up[p], pendingSignals[p], up'[p], pendingSignals'[p], 4, 5)
  <2>1. << >> \o pendingSignals[p] = pendingSignals[p] /\ << >> \in Seq(Signals)
        /\ pendingSignals[p] \in Seq(Signals)
    BY DEF Typed
  <2>2. \A u \in Signals : Said(4, u) = Said(5, u)
    BY SaidIs
  <2>3. MovesOn(<<>>, pendingSignals[p], << >> \o pendingSignals[p], <<>>, 4, 5)
    BY <2>1, <2>2, AllMoveOn
  <2> QED  BY <1>3, <2>1, <2>3
<1>6. Flows(p, Nowhere)
  <2>1. MovesOn(Stage(p, 4), Stage(p, 5), Stage(p, 4)', Stage(p, 5)', 4, 5)
    BY <1>5, StagesOf
  <2>2. \A r \in Stages : r < 4 \/ 5 < r => Stage(p, r)' = Stage(p, r)
    <3> SUFFICES ASSUME NEW r \in Stages, r < 4 \/ 5 < r
                 PROVE  Stage(p, r)' = Stage(p, r)
      OBVIOUS
    <3>1. r = 1 \/ r = 2 \/ r = 3
      BY StagesOf
    <3> QED  BY <1>1, <3>1 DEF Stage
  <2>3. 4 \in Stages /\ 5 \in Stages /\ 4 < 5
        /\ \A r \in Stages : ~(4 < r /\ r < 5)
    BY DEF Stages
  <2> QED  BY <2>1, <2>2, <2>3, MoveFlows
<1> QED  BY <1>4, <1>6, SailsOf

\* What the broker kept for a role goes down its socket.
LEMMA FlushKeptSails ==
    ASSUME Typed, NEW p \in Peers, FlushKept(p)
    PROVE  Sails
<1> DEFINE q == Other(p)
<1>1. /\ UNCHANGED <<ops, up, pendingSignals>>
      /\ down' = [down EXCEPT ![p] = down[p] \o buffer[p]]
      /\ buffer' = [buffer EXCEPT ![p] = <<>>]
  BY DEF FlushKept
<1>2. q \in Peers /\ Other(q) = p /\ q # p
  BY DEF Other, Peers
<1>3. /\ down'[p] = down[p] \o buffer[p] /\ buffer'[p] = <<>>
      /\ down'[q] = down[q] /\ buffer'[q] = buffer[q]
  BY <1>1, <1>2 DEF Typed
<1>4. Flows(p, Nowhere)
  BY <1>1, <1>3, KeptFlows
<1>5. MovesOn(down[p], buffer[p], down'[p], buffer'[p], 2, 3)
  <2>1. \A u \in Signals : Said(2, u) = Said(3, u)
    BY SaidIs
  <2>2. down[p] \in Seq(Signals) /\ buffer[p] \in Seq(Signals)
    BY DEF Typed
  <2>3. MovesOn(down[p], buffer[p], down[p] \o buffer[p], <<>>, 2, 3)
    BY <2>1, <2>2, AllMoveOn
  <2> QED  BY <1>3, <2>3
<1> HIDE DEF q
<1>6. Flows(q, Nowhere)
  <2>1. MovesOn(Stage(q, 2), Stage(q, 3), Stage(q, 2)', Stage(q, 3)', 2, 3)
    BY <1>2, <1>5, StagesOf
  <2>2. \A r \in Stages : r < 2 \/ 3 < r => Stage(q, r)' = Stage(q, r)
    <3> SUFFICES ASSUME NEW r \in Stages, r < 2 \/ 3 < r
                 PROVE  Stage(q, r)' = Stage(q, r)
      OBVIOUS
    <3>1. r = 1 \/ r = 4 \/ r = 5
      BY <1>2, StagesOf
    <3> QED  BY <1>1, <3>1 DEF Stage
  <2>3. 2 \in Stages /\ 3 \in Stages /\ 2 < 3
        /\ \A r \in Stages : ~(2 < r /\ r < 3)
    BY DEF Stages
  <2> QED  BY <1>2, <2>1, <2>2, <2>3, MoveFlows
<1> QED  BY <1>4, <1>6, SailsOf DEF q

\* A signal is on its way, wherever.
On(p, x) == \E a \in Places : OnWay(p, a, x)

\* Nothing leaves the way of p, whatever the order, and no description joins it.
Holds(p) ==
    /\ \A x \in Signals : On(p, x) => On(p, x)'
    /\ \A d \in Descriptions : On(p, d)' => On(p, d)

LEMMA OnIs ==
    ASSUME NEW p \in Peers, NEW x
    PROVE  /\ On(p, x) <=> \E s \in Stages, i \in Nat \ {0} : Lies(Stage(p, s), s, i, x)
           /\ On(p, x)' <=> \E s \in Stages, i \in Nat \ {0} : Lies(Stage(p, s)', s, i, x)
<1>1. \A a \in Places : a[1] \in Stages /\ a[2] \in Nat \ {0}
  BY DEF Places
<1>2. ASSUME NEW s \in Stages, NEW i \in Nat \ {0}
      PROVE  <<s, i>> \in Places /\ <<s, i>>[1] = s /\ <<s, i>>[2] = i
  BY DEF Places
<1>3. ASSUME NEW s \in Stages, NEW i \in Nat \ {0}, Lies(Stage(p, s), s, i, x)
      PROVE  On(p, x)
  BY <1>2, <1>3 DEF On, OnWay
<1>4. ASSUME NEW s \in Stages, NEW i \in Nat \ {0}, Lies(Stage(p, s)', s, i, x)
      PROVE  On(p, x)'
  <2> DEFINE a == <<s, i>>
  <2>1. a \in Places /\ a[1] = s /\ a[2] = i
    BY <1>2
  <2> HIDE DEF a
  <2>2. OnWay(p, a, x)'
    BY <1>4, <2>1 DEF OnWay, Lies, Said
  <2> QED  BY <2>1, <2>2 DEF On
<1>5. On(p, x) => \E s \in Stages, i \in Nat \ {0} : Lies(Stage(p, s), s, i, x)
  BY <1>1 DEF On, OnWay
<1>6. ASSUME On(p, x)'
      PROVE  \E s \in Stages, i \in Nat \ {0} : Lies(Stage(p, s)', s, i, x)
  <2>1. PICK a \in Places : OnWay(p, a, x)'
    BY <1>6 DEF On
  <2>2. Lies(Stage(p, a[1])', a[1], a[2], x)
    BY <2>1 DEF OnWay, Lies, Said
  <2> QED  BY <1>1, <2>2
<1> QED  BY <1>3, <1>4, <1>5, <1>6

LEMMA FlowsHold == ASSUME NEW p \in Peers, Flows(p, Nowhere) PROVE Holds(p)
<1>1. PICK g \in [Places -> Places] :
        /\ \A a \in Places, x \in Signals :
               a # Nowhere /\ OnWay(p, a, x) => OnWay(p, g[a], x)'
        /\ \A a \in Places, d \in Descriptions : OnWay(p, a, d)' =>
               \E b \in Places : b # Nowhere /\ OnWay(p, b, d) /\ g[b] = a
  BY DEF Flows
<1>2. \A a \in Places : a # Nowhere
  BY BeforeOrders
<1> QED  BY <1>1, <1>2 DEF Holds, On

LEMMA MovesHold ==
    ASSUME NEW p \in Peers, NEW t \in Stages, NEW s \in Stages,
           MovesOn(Stage(p, t), Stage(p, s), Stage(p, t)', Stage(p, s)', t, s),
           \A r \in Stages : r # t /\ r # s => Stage(p, r)' = Stage(p, r)
    PROVE  Holds(p)
<1>1. PICK n \in Nat, m \in Nat :
        /\ \A i \in Nat \ {0}, v \in Signals :
              /\ Lies(Stage(p, t), t, i, v) => i <= n /\ Lies(Stage(p, t)', t, i, v)
              /\ Lies(Stage(p, s), s, i, v) =>
                    \/ i <= m /\ Lies(Stage(p, t)', t, n + i, v)
                    \/ m < i /\ Lies(Stage(p, s)', s, i - m, v)
        /\ \A i \in Nat \ {0}, d \in Descriptions :
              /\ Lies(Stage(p, t)', t, i, d) =>
                    \/ i <= n /\ Lies(Stage(p, t), t, i, d)
                    \/ n < i /\ i <= n + m /\ Lies(Stage(p, s), s, i - n, d)
              /\ Lies(Stage(p, s)', s, i, d) => Lies(Stage(p, s), s, i + m, d)
  BY DEF MovesOn
<1>2. ASSUME NEW x \in Signals, NEW r \in Stages, NEW i \in Nat \ {0},
             Lies(Stage(p, r), r, i, x)
      PROVE  On(p, x)'
  <2>1. /\ n + i \in Nat \ {0}
        /\ m < i => i - m \in Nat \ {0}
    OBVIOUS
  <2>2. \E u \in Stages, j \in Nat \ {0} : Lies(Stage(p, u)', u, j, x)
    BY <1>1, <1>2, <2>1
  <2> QED  BY <2>2, OnIs
<1>3. ASSUME NEW d \in Descriptions, NEW r \in Stages, NEW i \in Nat \ {0},
             Lies(Stage(p, r)', r, i, d)
      PROVE  On(p, d)
  <2>1. /\ i + m \in Nat \ {0}
        /\ n < i => i - n \in Nat \ {0}
    OBVIOUS
  <2>2. \E u \in Stages, j \in Nat \ {0} : Lies(Stage(p, u), u, j, d)
    BY <1>1, <1>3, <2>1
  <2> QED  BY <2>2, OnIs
<1> QED  BY <1>2, <1>3, OnIs DEF Holds

\* The broker takes a signal to the socket of the other role, or keeps it behind
\* the others it keeps: in order, unless it has kept some and the role is there.
LEMMA ForwardFlows ==
    ASSUME Typed, NEW p \in Peers, Forward(p)
    PROVE  Sails \/ (overtaken' /\ Holds("host") /\ Holds("guest"))
<1> DEFINE q == Other(p)
           signal == Head(up[p])
<1>1. UNCHANGED <<ops, pendingSignals>>
      /\ up' = [up EXCEPT ![p] = Tail(up[p])] /\ up[p] # <<>>
  BY DEF Forward
<1>2. \/ /\ down' = [down EXCEPT ![q] = Append(down[q], signal)]
         /\ buffer' = buffer /\ (overtaken' \/ buffer[q] = <<>>)
      \/ down' = down /\ buffer' = [buffer EXCEPT ![q] = Append(buffer[q], signal)]
  BY DEF Forward
<1>3. q \in Peers /\ Other(q) = p /\ q # p
  BY DEF Other, Peers
<1>4. /\ up[p] \in Seq(Signals) /\ signal = up[p][1] /\ signal \in Signals
      /\ down[q] \in Seq(Signals) /\ buffer[q] \in Seq(Signals)
  BY <1>1, <1>3, TailOf DEF Typed
<1> HIDE DEF q, signal
<1>5. /\ up'[p] = Tail(up[p]) /\ up'[q] = up[q] /\ pendingSignals' = pendingSignals
      /\ down'[p] = down[p] /\ buffer'[p] = buffer[p]
      /\ \/ /\ down'[q] = Append(down[q], signal) /\ buffer'[q] = buffer[q]
            /\ overtaken' \/ buffer[q] = <<>>
         \/ down'[q] = down[q] /\ buffer'[q] = Append(buffer[q], signal)
  <2>1. up'[p] = Tail(up[p]) /\ up'[q] = up[q] /\ pendingSignals' = pendingSignals
    BY <1>1, <1>3 DEF Typed
  <2>2. ASSUME down' = [down EXCEPT ![q] = Append(down[q], signal)],
               buffer' = buffer
        PROVE  /\ down'[p] = down[p] /\ buffer'[p] = buffer[p]
               /\ down'[q] = Append(down[q], signal) /\ buffer'[q] = buffer[q]
    BY <1>3, <2>2 DEF Typed
  <2>3. ASSUME down' = down, buffer' = [buffer EXCEPT ![q] = Append(buffer[q], signal)]
        PROVE  /\ down'[p] = down[p] /\ buffer'[p] = buffer[p]
               /\ down'[q] = down[q] /\ buffer'[q] = Append(buffer[q], signal)
    BY <1>3, <2>3 DEF Typed
  <2> QED  BY <1>2, <2>1, <2>2, <2>3
<1>6. Flows(q, Nowhere)
  BY <1>1, <1>3, <1>5, KeptFlows
<1>7. /\ MovesOn(down[q], up[p], Append(down[q], signal), Tail(up[p]), 2, 4)
      /\ MovesOn(buffer[q], up[p], Append(buffer[q], signal), Tail(up[p]), 3, 4)
  <2>1. \A u \in Signals : /\ signal = Said(2, u) <=> up[p][1] = Said(4, u)
                           /\ signal = Said(3, u) <=> up[p][1] = Said(4, u)
    BY <1>4, SaidIs
  <2> QED  BY <1>1, <1>4, <2>1, OneMovesOn
<1>8. /\ Stage(p, 1)' = Stage(p, 1) /\ Stage(p, 5)' = Stage(p, 5)
      /\ Stage(p, 2) = down[q] /\ Stage(p, 2)' = down'[q]
      /\ Stage(p, 3) = buffer[q] /\ Stage(p, 3)' = buffer'[q]
      /\ Stage(p, 4) = up[p] /\ Stage(p, 4)' = up'[p]
  BY <1>1, StagesOf DEF q
<1>9. /\ 2 \in Stages /\ 3 \in Stages /\ 4 \in Stages
      /\ \A r \in Stages : /\ 2 < r /\ r < 4 => r = 3
                           /\ ~(3 < r /\ r < 4)
                           /\ r < 2 \/ 4 < r => r = 1 \/ r = 5
                           /\ r # 2 /\ r # 4 => r = 1 \/ r = 5 \/ r = 3
                           /\ r < 3 \/ 4 < r => r = 1 \/ r = 2 \/ r = 5
  BY DEF Stages
<1>10. ASSUME down'[q] = Append(down[q], signal), buffer'[q] = buffer[q],
              buffer[q] = <<>>
       PROVE  Flows(p, Nowhere)
  <2>1. MovesOn(Stage(p, 2), Stage(p, 4), Stage(p, 2)', Stage(p, 4)', 2, 4)
    BY <1>5, <1>7, <1>8, <1>10
  <2>2. \A r \in Stages : 2 < r /\ r < 4 => Stage(p, r) = <<>> /\ Stage(p, r)' = <<>>
    BY <1>8, <1>9, <1>10
  <2>3. \A r \in Stages : r < 2 \/ 4 < r => Stage(p, r)' = Stage(p, r)
    BY <1>8, <1>9
  <2> QED  BY <1>9, <2>1, <2>2, <2>3, MoveFlows
<1>11. ASSUME down'[q] = down[q], buffer'[q] = Append(buffer[q], signal)
       PROVE  Flows(p, Nowhere)
  <2>1. MovesOn(Stage(p, 3), Stage(p, 4), Stage(p, 3)', Stage(p, 4)', 3, 4)
    BY <1>5, <1>7, <1>8, <1>11
  <2>2. \A r \in Stages : r < 3 \/ 4 < r => Stage(p, r)' = Stage(p, r)
    BY <1>8, <1>9, <1>11
  <2> QED  BY <1>9, <2>1, <2>2, MoveFlows
<1>12. ASSUME down'[q] = Append(down[q], signal), buffer'[q] = buffer[q]
       PROVE  Holds(p)
  <2>1. MovesOn(Stage(p, 2), Stage(p, 4), Stage(p, 2)', Stage(p, 4)', 2, 4)
    BY <1>5, <1>7, <1>8, <1>12
  <2>2. \A r \in Stages : r # 2 /\ r # 4 => Stage(p, r)' = Stage(p, r)
    BY <1>8, <1>9, <1>12
  <2> QED  BY <1>9, <2>1, <2>2, MovesHold
<1>13. Flows(p, Nowhere) \/ (overtaken' /\ Holds(p) /\ Holds(q))
  BY <1>3, <1>5, <1>6, <1>10, <1>11, <1>12, FlowsHold
<1>14. (p = "host" /\ q = "guest") \/ (p = "guest" /\ q = "host")
  BY <1>3 DEF Peers
<1> QED  BY <1>6, <1>13, <1>14, SailsOf DEF q

\* onSignal: a description that is not ignored is to be set.
LEMMA ReceiveFlows ==
    ASSUME Typed, NEW p \in Peers, Receive(p)
    PROVE  /\ Flows(p, Nowhere)
           /\ \/ Flows(Other(p), Nowhere)
              \/ /\ Flows(Other(p), <<2, 1>>)
                 /\ \E d \in Descriptions : OnWay(Other(p), <<2, 1>>, d)
<1> DEFINE q == Other(p)
           signal == Head(down[p])
<1>1. UNCHANGED <<buffer, up, pendingSignals>>
      /\ down' = [down EXCEPT ![p] = Tail(down[p])] /\ down[p] # <<>>
  BY DEF Receive
<1>2. q \in Peers /\ Other(q) = p /\ q # p
  BY DEF Other, Peers
<1>3. /\ down[p] \in Seq(Signals) /\ signal = down[p][1] /\ signal \in Signals
      /\ ops[p] \in Seq(Ops) /\ 1 \in DOMAIN down[p]
  BY <1>1, TailOf DEF Typed
<1>4. \/ ops' = ops /\ signal.type # "candidate"
      \/ /\ signal.type = "candidate"
         /\ ops' = [ops EXCEPT ![p] = Append(ops[p], [op |-> "add", c |-> signal])]
      \/ /\ signal.type # "candidate"
         /\ ops' = [ops EXCEPT ![p] = Append(ops[p], [op |-> "setRemote", d |-> signal])]
  BY DEF Receive, Queue
<1> HIDE DEF q, signal
<1>5. /\ down'[p] = Tail(down[p]) /\ down'[q] = down[q]
  BY <1>1, <1>2 DEF Typed
<1>6. ops'[q] = ops[q]
  <2>1. \A x : ops' = [ops EXCEPT ![p] = x] => ops'[q] = ops[q]
    BY <1>2 DEF Typed
  <2> QED  BY <1>4, <2>1
<1>7. Flows(p, Nowhere)
  BY <1>1, <1>2, <1>5, <1>6, KeptFlows DEF q
<1>8. \A r \in Stages : r # 1 /\ r # 2 => Stage(q, r)' = Stage(q, r)
  <2> SUFFICES ASSUME NEW r \in {3, 4, 5} PROVE Stage(q, r)' = Stage(q, r)
    BY StagesOf
  <2> QED  BY <1>1, <1>2, StagesOf
<1>9. /\ signal.type = "candidate" => signal \in Candidates
      /\ signal.type # "candidate" => signal \in Descriptions
  BY <1>3 DEF Signals, Descriptions, Candidates
<1>10. Said(1, signal) \in Ops
       /\ Said(1, signal) = IF signal.type = "candidate"
                            THEN [op |-> "add", c |-> signal]
                            ELSE [op |-> "setRemote", d |-> signal]
  BY <1>9, Operations, SaidIs
<1>11. ASSUME ops' = [ops EXCEPT ![p] = Append(ops[p], Said(1, signal))]
       PROVE  Flows(q, Nowhere)
  <2>1. \A u \in Signals : Said(1, signal) = Said(1, u) <=> down[p][1] = Said(2, u)
    <3> SUFFICES ASSUME NEW u \in Signals, Said(1, signal) = Said(1, u)
                 PROVE  signal = u
      BY <1>3, SaidIs
    <3>1. u \in Descriptions \/ u \in Candidates
      BY DEF Signals
    <3>2. /\ [op |-> "add", c |-> signal].op = "add" /\ [op |-> "add", c |-> u].op = "add"
          /\ [op |-> "setRemote", d |-> signal].op = "setRemote"
          /\ [op |-> "setRemote", d |-> u].op = "setRemote"
          /\ [op |-> "add", c |-> signal].c = signal /\ [op |-> "add", c |-> u].c = u
          /\ [op |-> "setRemote", d |-> signal].d = signal
          /\ [op |-> "setRemote", d |-> u].d = u
      OBVIOUS
    <3> QED  BY <1>10, <3>1, <3>2, SaidIs
  <2>2. ops'[p] = Append(ops[p], Said(1, signal))
    BY <1>11 DEF Typed
  <2>3. MovesOn(ops[p], down[p], Append(ops[p], Said(1, signal)), Tail(down[p]), 1, 2)
    BY <1>1, <1>3, <1>10, <2>1, OneMovesOn
  <2>4. MovesOn(Stage(q, 1), Stage(q, 2), Stage(q, 1)', Stage(q, 2)', 1, 2)
    BY <1>2, <1>5, <2>2, <2>3, StagesOf
  <2>5. /\ 1 \in Stages /\ 2 \in Stages /\ 1 < 2
        /\ \A r \in Stages : ~(1 < r /\ r < 2) /\ (r < 1 \/ 2 < r => r # 1 /\ r # 2)
    BY DEF Stages
  <2> QED  BY <1>2, <1>8, <2>4, <2>5, MoveFlows
<1>12. ASSUME ops' = ops, signal \in Descriptions
       PROVE  Flows(q, <<2, 1>>) /\ OnWay(q, <<2, 1>>, signal)
  <2> DEFINE s == 2
             k == 1
             h == <<2, 1>>
  <2>1. Stage(q, s) = down[p] /\ Stage(q, s)' = Tail(down[p]) /\ s \in Stages /\ k \in Nat
    BY <1>2, <1>5, StagesOf
  <2>2. \A r \in Stages : r # s => Stage(q, r)' = Stage(q, r)
    BY <1>2, <1>8, <1>12, StagesOf
  <2>3. \A i \in Nat \ {0} :
            /\ i \in DOMAIN down[p] /\ k < i =>
                   /\ i - k \in DOMAIN Tail(down[p])
                   /\ Tail(down[p])[i - k] = down[p][i]
            /\ i \in DOMAIN Tail(down[p]) =>
                   /\ i + k \in DOMAIN down[p]
                   /\ Tail(down[p])[i] = down[p][i + k]
    BY <1>1, <1>3
  <2>4. \A i \in Nat \ {0} : i = 1 \/ k < i
    OBVIOUS
  <2>5. /\ \A r \in Stages, i \in Nat : r # s => <<r, i>> # h
        /\ \A i \in Nat \ {0} : <<s, i + k>> # h
        /\ \A i \in Nat : i = 1 => <<s, i>> = h
        /\ h[1] = s /\ h[2] = 1
    OBVIOUS
  <2>6. OnWay(q, h, signal)
    BY <1>3, <2>1, SaidIs DEF OnWay, Lies
  <2> HIDE DEF s, k, h
  <2>7. \A i \in Nat \ {0}, x \in Signals : Lies(Stage(q, s), s, i, x) =>
            <<s, i>> = h \/ (k < i /\ Lies(Stage(q, s)', s, i - k, x))
    BY <2>1, <2>3, <2>4, <2>5 DEF Lies
  <2>8. \A i \in Nat \ {0}, d \in Descriptions : Lies(Stage(q, s)', s, i, d) =>
            Lies(Stage(q, s), s, i + k, d) /\ <<s, i + k>> # h
    BY <2>1, <2>3, <2>5 DEF Lies
  <2>9. Flows(q, h)
    BY <1>2, <2>1, <2>2, <2>5, <2>7, <2>8, ShiftFlows
  <2> QED  BY <2>6, <2>9 DEF h
<1>13. \/ Flows(q, Nowhere)
       \/ Flows(q, <<2, 1>>) /\ \E d \in Descriptions : OnWay(q, <<2, 1>>, d)
  BY <1>4, <1>9, <1>10, <1>11, <1>12
<1> QED  BY <1>7, <1>13 DEF q

\* A socket that closes takes along what was on it: nothing, if nothing is lost.
LEMMA ClosesFlows ==
    ASSUME Typed, NEW p \in Peers, ForwardEarly(p) \/ Drop(p)
    PROVE  Thins("host") /\ Thins("guest") /\ (lost' \/ Sails)
<1>1. /\ UNCHANGED <<ops, buffer, pendingSignals>>
      /\ up' = [up EXCEPT ![p] = <<>>] /\ down' = [down EXCEPT ![p] = <<>>]
      /\ lost' = (lost \/ up[p] # <<>> \/ down[p] # <<>>)
  BY DEF ForwardEarly, Drop, Closed
<1>2. \A r \in Peers : /\ down'[r] = down[r] \/ (r = p /\ down'[r] = <<>>)
                       /\ up'[r] = up[r] \/ (r = p /\ up'[r] = <<>>)
  BY <1>1 DEF Typed
<1>3. \A q \in Peers : Thins(q)
  BY <1>1, <1>2, EmptiedThins
<1>4. ASSUME ~lost' PROVE \A q \in Peers : Flows(q, Nowhere)
  <2>1. \A r \in Peers : down'[r] = down[r] /\ up'[r] = up[r]
    BY <1>1, <1>2, <1>4
  <2> QED  BY <1>1, <2>1, StagesOf, KeptFlows
<1> QED  BY <1>3, <1>4 DEF Sails, Peers

LEMMA RestartFlows ==
    ASSUME Typed, RestartBroker
    PROVE  Thins("host") /\ Thins("guest") /\ (lost' \/ Sails)
<1>1. /\ UNCHANGED <<ops, pendingSignals>>
      /\ \A r \in Peers : up'[r] = <<>> /\ down'[r] = <<>> /\ buffer'[r] = <<>>
      /\ lost' = (lost \/ <<up, down, buffer>> # <<up', down', buffer'>>)
  BY DEF RestartBroker
<1>2. \A q \in Peers : Thins(q)
  BY <1>1, EmptiedThins
<1>3. ASSUME ~lost' PROVE \A q \in Peers : Flows(q, Nowhere)
  <2>1. UNCHANGED <<up, down, buffer>>
    BY <1>1, <1>3
  <2> QED  BY <1>1, <2>1, KeptFlows
<1> QED  BY <1>2, <1>3 DEF Sails, Peers

LEMMA NothingSails ==
    ASSUME UNCHANGED <<ops, down, buffer, up, pendingSignals>>
    PROVE  Sails
BY KeptFlows DEF Sails, Peers

-----------------------------------------------------------------------------
(* Setting a description *)

\* What a peer sends is the last on its way.
LEMMA EmitsLast ==
    ASSUME Typed, OpenSends, NEW p \in Peers, NEW x \in Signals, Emit(p, x),
           ops'[Other(p)] = ops[Other(p)], buffer' = buffer
    PROVE  \E z \in Places :
              /\ OnWay(p, z, x)'
              /\ \A a \in Places, y \in Signals :
                    /\ OnWay(p, a, y) => OnWay(p, a, y)' /\ Before(a, z)
                    /\ OnWay(p, a, y)' => \/ OnWay(p, a, y) /\ Before(a, z)
                                          \/ a = z /\ y = x
<1>1. up[p] \in Seq(Signals) /\ pendingSignals[p] \in Seq(Signals) /\ down' = down
  BY DEF Typed, Emit
<1>2. \/ /\ up'[p] = Append(up[p], x) /\ pendingSignals'[p] = pendingSignals[p]
         /\ pendingSignals[p] = <<>>
      \/ up'[p] = up[p] /\ pendingSignals'[p] = Append(pendingSignals[p], x)
  BY DEF Emit, Typed, OpenSends
<1>3. PICK s \in {4, 5} : /\ Stage(p, s) \in Seq(Signals)
                          /\ Stage(p, s)' = Append(Stage(p, s), x)
                          /\ \A r \in Stages : r # s => Stage(p, r)' = Stage(p, r)
                          /\ \A r \in Stages : s < r => Stage(p, r) = <<>>
  <2>1. \A r \in Stages : r # 4 /\ r # 5 => Stage(p, r)' = Stage(p, r)
    <3> SUFFICES ASSUME NEW r \in {1, 2, 3} PROVE Stage(p, r)' = Stage(p, r)
      BY StagesOf
    <3> QED  BY <1>1 DEF Stage
  <2>2. \A r \in Stages : (4 < r => r = 5) /\ ~(5 < r)
    BY DEF Stages
  <2>3. /\ Stage(p, 4) = up[p] /\ Stage(p, 4)' = up'[p]
        /\ Stage(p, 5) = pendingSignals[p] /\ Stage(p, 5)' = pendingSignals'[p]
    BY StagesOf
  <2>4. CASE up'[p] = Append(up[p], x) /\ pendingSignals'[p] = pendingSignals[p]
             /\ pendingSignals[p] = <<>>
    <3>1. /\ Stage(p, 4) \in Seq(Signals) /\ Stage(p, 4)' = Append(Stage(p, 4), x)
          /\ Stage(p, 5)' = Stage(p, 5) /\ Stage(p, 5) = <<>>
      BY <1>1, <2>3, <2>4
    <3>2. \A r \in Stages : r # 4 => Stage(p, r)' = Stage(p, r)
      BY <2>1, <3>1
    <3>3. \A r \in Stages : 4 < r => Stage(p, r) = <<>>
      BY <2>2, <3>1
    <3> QED  BY <3>1, <3>2, <3>3
  <2>5. CASE up'[p] = up[p] /\ pendingSignals'[p] = Append(pendingSignals[p], x)
    <3>1. /\ Stage(p, 5) \in Seq(Signals) /\ Stage(p, 5)' = Append(Stage(p, 5), x)
          /\ Stage(p, 4)' = Stage(p, 4)
      BY <1>1, <2>3, <2>5
    <3>2. \A r \in Stages : r # 5 => Stage(p, r)' = Stage(p, r)
      BY <2>1, <3>1
    <3> QED  BY <2>2, <3>1, <3>2
  <2> QED  BY <1>2, <2>4, <2>5
<1>n. PICK n \in Nat : n = Len(Stage(p, s))
  BY <1>3
<1> DEFINE new == Append(Stage(p, s), x)
           z == <<s, n + 1>>
<1>4. /\ s \in Stages /\ s \in Nat
      /\ DOMAIN Stage(p, s) = 1..n /\ DOMAIN new = 1..(n + 1)
      /\ \A i \in 1..n : new[i] = Stage(p, s)[i]
      /\ new[n + 1] = x
  BY <1>3, <1>n DEF Stages
<1>5. z \in Places /\ z[1] = s /\ z[2] = n + 1
  BY <1>4 DEF Places
<1>6. Stage(p, s)' = new
  BY <1>3
<1> HIDE DEF new, z
<1>7. \A y : Said(s, y) = y
  BY <1>3 DEF Said
<1>8. OnWay(p, z, x)'
  <2>1. Lies(Stage(p, s)', s, n + 1, x)
    BY <1>4, <1>6, <1>7 DEF Lies
  <2> QED  BY <1>5, <2>1 DEF OnWay, Lies, Said
<1>9. ASSUME NEW a \in Places
      PROVE  /\ a[1] \in Stages /\ a[1] \in Nat /\ a[2] \in Nat \ {0} /\ a[2] \in Nat
             /\ a = <<a[1], a[2]>>
  BY DEF Places, Stages
<1>10. ASSUME NEW a \in Places, NEW y \in Signals, OnWay(p, a, y)
       PROVE  OnWay(p, a, y)' /\ Before(a, z)
  <2>1. Lies(Stage(p, a[1]), a[1], a[2], y)
    BY <1>10 DEF OnWay
  <2>2. CASE a[1] = s
    <3>1. a[2] \in 1..n /\ Stage(p, s)[a[2]] = Said(s, y)
      BY <1>4, <2>1, <2>2 DEF Lies
    <3>2. Lies(new, s, a[2], y)
      BY <1>4, <3>1 DEF Lies
    <3>3. OnWay(p, a, y)'
      BY <1>6, <2>2, <3>2 DEF OnWay, Lies, Said
    <3> QED  BY <1>4, <1>5, <2>2, <3>1, <3>3 DEF Before
  <2>3. CASE a[1] # s
    <3>1. ~(s < a[1])
      <4>1. DOMAIN << >> = {}
        OBVIOUS
      <4> QED  BY <1>3, <1>9, <2>1, <4>1 DEF Lies
    <3>2. Stage(p, a[1])' = Stage(p, a[1])
      BY <1>3, <1>9, <2>3
    <3>3. OnWay(p, a, y)'
      BY <2>1, <3>2 DEF OnWay, Lies, Said
    <3>4. a[1] < z[1]
      BY <1>4, <1>5, <1>9, <2>3, <3>1
    <3> QED  BY <3>3, <3>4 DEF Before
  <2> QED  BY <2>2, <2>3
<1>11. ASSUME NEW a \in Places, NEW y \in Signals, OnWay(p, a, y)'
       PROVE  OnWay(p, a, y) \/ (a = z /\ y = x)
  <2>1. Lies(Stage(p, a[1])', a[1], a[2], y)
    BY <1>11 DEF OnWay, Lies, Said
  <2>2. CASE a[1] = s
    <3>1. a[2] \in 1..(n + 1) /\ new[a[2]] = y
      BY <1>4, <1>6, <1>7, <2>1, <2>2 DEF Lies
    <3>2. CASE a[2] = n + 1
      <4>1. a = <<s, n + 1>> /\ y = x
        BY <1>4, <1>9, <2>2, <3>1, <3>2
      <4> QED  BY <4>1 DEF z
    <3>3. CASE a[2] # n + 1
      <4>1. a[2] \in 1..n
        BY <1>4, <3>1, <3>3
      <4> QED  BY <1>4, <1>7, <2>2, <3>1, <4>1 DEF OnWay, Lies
    <3> QED  BY <3>2, <3>3
  <2>3. CASE a[1] # s
    <3>1. Stage(p, a[1])' = Stage(p, a[1])
      BY <1>3, <1>9, <2>3
    <3> QED  BY <2>1, <3>1 DEF OnWay
  <2> QED  BY <2>2, <2>3
<1>12. \A a \in Places, y \in Signals :
           /\ OnWay(p, a, y) => OnWay(p, a, y)' /\ Before(a, z)
           /\ OnWay(p, a, y)' => (OnWay(p, a, y) /\ Before(a, z)) \/ (a = z /\ y = x)
  BY <1>10, <1>11
<1> QED  BY <1>5, <1>8, <1>12

LEMMA EmitGains ==
    ASSUME Typed, OpenSends, NEW p \in Peers, NEW x \in Descriptions, Emit(p, x),
           ops'[Other(p)] = ops[Other(p)], buffer' = buffer
    PROVE  Gains(p, x) /\ \A y \in Signals : On(p, y) => On(p, y)'
<1>1. x \in Signals /\ \A d \in Descriptions : d \in Signals
  BY DEF Signals
<1>2. PICK z \in Places :
          /\ OnWay(p, z, x)'
          /\ \A a \in Places, y \in Signals :
                /\ OnWay(p, a, y) => OnWay(p, a, y)' /\ Before(a, z)
                /\ OnWay(p, a, y)' => \/ OnWay(p, a, y) /\ Before(a, z)
                                      \/ a = z /\ y = x
  BY <1>1, EmitsLast
<1>3. ASSUME NEW a \in Places, NEW d \in Descriptions, OnWay(p, a, d)', ~OnWay(p, a, d)
      PROVE  /\ d = x
             /\ \A b \in Places, e \in Descriptions : OnWay(p, b, e)' => ~Before(a, b)
  <2>1. a = z /\ d = x
    BY <1>1, <1>2, <1>3
  <2>2. ASSUME NEW b \in Places, NEW e \in Descriptions, OnWay(p, b, e)'
        PROVE  ~Before(a, b)
    <3>1. Before(b, z) \/ b = z
      BY <1>1, <1>2, <2>2
    <3> QED  BY <2>1, <3>1, BeforeOrders
  <2> QED  BY <2>1, <2>2
<1>4. Gains(p, x)
  BY <1>3 DEF Gains
<1> QED  BY <1>2, <1>4 DEF On

\* Nothing is set, and no description starts on its way.
Drifts == UNCHANGED <<sig, local, remote>> /\ Thins("host") /\ Thins("guest")

\* What SetLocal does with a description that fits.
Sets(p, d) ==
    /\ ops[p] # <<>> /\ ops[p][1] = [op |-> "setLocal", d |-> d]
    /\ \/ d.type = "offer" /\ Stable(p) /\ Offering(p)'
       \/ d.type = "answer" /\ Answering(p) /\ Stable(p)' /\ d = AnswerTo(p, remote[p])
    /\ local'[p] = d /\ local'[Other(p)] = local[Other(p)]
    /\ sig'[Other(p)] = sig[Other(p)] /\ remote' = remote
    /\ Gains(p, d) /\ (\A y \in Signals : On(p, y) => On(p, y)')
    /\ Flows(Other(p), Nowhere)

LEMMA SetLocalSends ==
    ASSUME Typed, OpenSends, NEW p \in Peers, SetLocal(p)
    PROVE  \/ UNCHANGED <<sig, local, remote>> /\ Sails
           \/ \E d \in Descriptions : Sets(p, d)
<1> DEFINE d == Head(ops[p]).d
           fits == IF d.type = "offer" THEN sig[p] = "stable"
                   ELSE sig[p] = "have-remote-offer" /\ AnswerTo(p, remote[p]) = d
           q == Other(p)
<1>1. /\ ops[p] \in Seq(Ops) /\ ops[p] # <<>> /\ Head(ops[p]).op = "setLocal"
      /\ Done(p) /\ UNCHANGED <<remote, buffer>>
  BY DEF SetLocal, At, Typed
<1>2. /\ Head(ops[p]) = ops[p][1] /\ ops[p][1] = [op |-> "setLocal", d |-> d]
      /\ d \in Descriptions
  <2>1. Head(ops[p]) \in Ops /\ Head(ops[p]) = ops[p][1]
    BY <1>1, TailOf
  <2>2. \A op \in Ops : op.op = "setLocal" =>
            op.d \in Descriptions /\ op = [op |-> "setLocal", d |-> op.d]
    BY DEF Ops
  <2> QED  BY <1>1, <2>1, <2>2
<1>3. q \in Peers /\ Other(q) = p /\ q # p
  BY DEF Other, Peers
<1>4. fits => /\ sig' = [sig EXCEPT ![p] = IF d.type = "offer"
                                           THEN "have-local-offer" ELSE "stable"]
              /\ local' = [local EXCEPT ![p] = d]
              /\ Emit(p, d)
  BY DEF SetLocal
<1>5. ~fits => UNCHANGED <<sig, local, down, up, pendingSignals>>
  BY DEF SetLocal
<1>6. /\ fits /\ d.type = "offer" => sig[p] = "stable"
      /\ fits /\ d.type = "answer" => /\ sig[p] = "have-remote-offer"
                                      /\ d = AnswerTo(p, remote[p])
      /\ d.type = "offer" \/ d.type = "answer"
  BY <1>2 DEF Descriptions
<1>7. ops[p][1].op \notin {"setRemote", "add"}
  BY <1>1, <1>2
<1> HIDE DEF fits, d, q
<1>8. ops'[p] = Tail(ops[p]) /\ ops'[q] = ops[q]
  <2>1. ops'[p] = Tail(ops[p])
    BY <1>1, DoneType DEF Typed
  <2>2. ops'[q] = ops[q]
    BY <1>1, <1>3 DEF Done, Continue, Typed
  <2> QED  BY <2>1, <2>2
<1>9. CASE ~fits
  <2>1. Flows(Other(p), <<1, 1>>) /\ Flows(p, Nowhere)
    BY <1>1, <1>5, <1>9, DoneFlows
  <2> QED  BY <1>1, <1>5, <1>7, <1>9, <2>1, NoSignalFirst
<1>10. CASE fits
  <2>1. /\ sig'[p] = IF d.type = "offer" THEN "have-local-offer" ELSE "stable"
        /\ sig'[q] = sig[q] /\ local'[p] = d /\ local'[q] = local[q]
    BY <1>3, <1>4, <1>10 DEF Typed
  <2>2. Gains(p, d) /\ \A y \in Signals : On(p, y) => On(p, y)'
    BY <1>1, <1>2, <1>4, <1>8, <1>10, EmitGains DEF q
  <2>3. Flows(q, Nowhere)
    <3> DEFINE h == <<1, 1>>
               next == << >>
    <3>1. up'[q] = up[q] /\ pendingSignals'[q] = pendingSignals[q] /\ down' = down
      BY <1>3, <1>4, <1>10 DEF Emit, Typed
    <3>2. next \in Seq(Ops) /\ DOMAIN next = {} /\ Tail(ops[p]) \o next = Tail(ops[p])
      BY <1>1, TailOf
    <3> HIDE DEF next
    <3>3. Flows(q, <<1, 1>>)
      BY <1>1, <1>8, <3>1, <3>2, PopFlows DEF q
    <3>4. h \in Places /\ h[1] = 1 /\ h[2] = 1
      BY DEF Places, Stages
    <3>5. Flows(q, h) /\ Stage(q, 1) = ops[p]
      BY <1>3, <3>3, StagesOf
    <3> HIDE DEF h
    <3>6. ASSUME NEW x \in Signals PROVE ~OnWay(q, h, x)
      <4>1. Said(1, x).op \in {"setRemote", "add"}
        BY SaidIs DEF Signals
      <4> QED  BY <1>7, <3>4, <3>5, <4>1 DEF OnWay, Lies
    <3> QED  BY <1>3, <3>4, <3>5, <3>6, NothingGoes
  <2>4. \/ d.type = "offer" /\ Stable(p) /\ Offering(p)'
        \/ d.type = "answer" /\ Answering(p) /\ Stable(p)' /\ d = AnswerTo(p, remote[p])
    BY <1>6, <1>10, <2>1 DEF Stable, Offering, Answering
  <2> QED  BY <1>1, <1>2, <2>1, <2>2, <2>3, <2>4 DEF q, Sets
<1> QED  BY <1>9, <1>10

\* What SetRemote does: it takes a description off the way, which may not fit.
Takes(p, d) ==
    /\ ops[p] # <<>> /\ ops[p][1] = Said(1, d) /\ OnWay(Other(p), <<1, 1>>, d)
    /\ Flows(Other(p), <<1, 1>>) /\ Flows(p, Nowhere) /\ local' = local
    /\ \/ UNCHANGED <<sig, remote>> /\ d.type = "answer" /\ ~Offering(p)
       \/ /\ \/ d.type = "offer" /\ Answering(p)'
             \/ d.type = "answer" /\ Offering(p) /\ Stable(p)'
          /\ remote'[p] = d /\ remote'[Other(p)] = remote[Other(p)]
          /\ sig'[Other(p)] = sig[Other(p)]

LEMMA SetRemoteTakes ==
    ASSUME Typed, NEW p \in Peers, SetRemote(p)
    PROVE  \E d \in Descriptions : Takes(p, d)
<1> DEFINE d == Head(ops[p]).d
           fits == d.type = "offer" \/ sig[p] = "have-local-offer"
           q == Other(p)
           h == <<1, 1>>
<1>1. /\ ops[p] \in Seq(Ops) /\ ops[p] # <<>> /\ Head(ops[p]).op = "setRemote"
      /\ UNCHANGED <<local, down, up, buffer, pendingSignals>>
  BY DEF SetRemote, At, Typed
<1>2. d \in Descriptions /\ ops[p][1] = Said(1, d) /\ 1 \in DOMAIN ops[p]
  <2>1. Head(ops[p]) \in Ops /\ Head(ops[p]) = ops[p][1] /\ 1 \in DOMAIN ops[p]
    BY <1>1, TailOf
  <2>2. \A op \in Ops : op.op = "setRemote" =>
            op.d \in Descriptions /\ op = [op |-> "setRemote", d |-> op.d]
    BY DEF Ops
  <2> QED  BY <1>1, <2>1, <2>2, SaidIs
<1>3. q \in Peers /\ Other(q) = p /\ q # p
  BY DEF Other, Peers
<1>4. fits => /\ remote' = [remote EXCEPT ![p] = d]
              /\ Continue(p, Follow(p, d))
              /\ d.type = "offer" => sig' = [sig EXCEPT ![p] = "have-remote-offer"]
              /\ d.type # "offer" => sig' = [sig EXCEPT ![p] = "stable"]
  BY DEF SetRemote
<1>5. ~fits => Done(p) /\ UNCHANGED <<sig, remote>>
  BY DEF SetRemote
<1>6. /\ fits /\ d.type = "answer" => sig[p] = "have-local-offer"
      /\ ~fits => d.type = "answer" /\ sig[p] # "have-local-offer"
      /\ d.type = "offer" \/ d.type = "answer"
  BY <1>2 DEF Descriptions
<1>7. Stage(q, 1) = ops[p] /\ h[1] = 1 /\ h[2] = 1
  BY <1>3, StagesOf
<1> HIDE DEF fits, d, h
<1>8. OnWay(q, h, d)
  BY <1>2, <1>7 DEF OnWay, Lies
<1>9. Flows(q, <<1, 1>>) /\ Flows(p, Nowhere)
  <2>1. CASE fits
    <3> DEFINE next == Follow(p, d)
    <3>1. next \in Seq(Ops) /\ \A k \in DOMAIN next : next[k].op # "setRemote"
      BY FollowType
    <3>2. Continue(p, next)
      BY <1>4, <2>1
    <3> HIDE DEF next
    <3> QED  BY <1>1, <3>1, <3>2, ContinueFlows
  <2>2. CASE ~fits
    BY <1>1, <1>5, <2>2, DoneFlows
  <2> QED  BY <2>1, <2>2
<1> HIDE DEF q
<1>10. CASE ~fits
  BY <1>1, <1>2, <1>5, <1>6, <1>8, <1>9, <1>10 DEF Takes, q, h, Offering
<1>11. CASE fits
  <2>1. /\ remote'[p] = d /\ remote'[q] = remote[q] /\ sig'[q] = sig[q]
        /\ d.type = "offer" => sig'[p] = "have-remote-offer"
        /\ d.type # "offer" => sig'[p] = "stable"
    BY <1>3, <1>4, <1>6, <1>11 DEF Typed
  <2>2. \/ d.type = "offer" /\ Answering(p)'
        \/ d.type = "answer" /\ Offering(p) /\ Stable(p)'
    BY <1>6, <1>11, <2>1 DEF Stable, Offering, Answering
  <2> QED  BY <1>1, <1>2, <1>8, <1>9, <2>1, <2>2 DEF Takes, q, h
<1> QED  BY <1>2, <1>10, <1>11

-----------------------------------------------------------------------------
(* The steps, by what they do to the ways *)

\* What was gathered or added stays, and nothing is set.
Still == /\ UNCHANGED <<sig, local, remote, gathered>>
         /\ \A r \in Peers : added[r] \subseteq added'[r]

\* No signal is lost or passed by others that the histories do not tell of.
Voyages == \/ Sails
           \/ lost' /\ Thins("host") /\ Thins("guest")
           \/ overtaken' /\ Holds("host") /\ Holds("guest")

LEMMA Courses ==
    ASSUME Typed, Remembered, OpenSends, [Next]_vars
    PROVE  \/ Still /\ Voyages
           \/ \E p \in Peers :
                 \/ /\ SetLocal(p) /\ UNCHANGED <<gathered, added>>
                    /\ \E d \in Descriptions : Sets(p, d)
                 \/ /\ SetRemote(p) /\ UNCHANGED <<gathered, added>>
                    /\ \E d \in Descriptions : Takes(p, d)
                 \/ AddCandidate(p)
                 \/ Receive(p) /\ Still
                 \/ Gather(p)
<1>1. CASE RestartBroker
  <2>1. Still
    BY <1>1 DEF RestartBroker, Still
  <2> QED  BY <1>1, <2>1, RestartFlows DEF Voyages
<1>2. CASE UNCHANGED vars
  <2>1. Still
    BY <1>2 DEF vars, Still
  <2>2. UNCHANGED <<ops, down, buffer, up, pendingSignals>>
    BY <1>2 DEF vars
  <2> QED  BY <2>1, <2>2, NothingSails DEF Voyages
<1>3. ASSUME NEW p \in Peers,
             \/ NegotiationNeeded(p) \/ CreateOffer(p) \/ CreateAnswer(p) \/ Flush(p)
      PROVE  Still /\ Voyages
  <2>1. Still
    <3>1. CASE Flush(p)
      <4>1. UNCHANGED <<sig, local, remote, gathered>>
            /\ \E new : added' = [added EXCEPT ![p] = added[p] \cup new]
        BY <3>1 DEF Flush
      <4> QED  BY <4>1 DEF Still, Typed
    <3>2. CASE ~Flush(p)
      <4>1. UNCHANGED <<sig, local, remote, gathered, added>>
        BY <1>3, <3>2 DEF NegotiationNeeded, CreateOffer, CreateAnswer
      <4> QED  BY <4>1 DEF Still
    <3> QED  BY <3>1, <3>2
  <2> QED  BY <1>3, <2>1, NegotiationNeededSails, CreateOfferSails, CreateAnswerSails,
              FlushSails DEF Voyages
<1>4. ASSUME NEW p \in Peers, Receive(p) PROVE Still
  BY <1>4 DEF Receive, Still
<1>5. ASSUME NEW p \in Peers, SetLocal(p)
      PROVE  \/ Still /\ Voyages
             \/ /\ UNCHANGED <<gathered, added>>
                /\ \E d \in Descriptions : Sets(p, d)
  <2>1. UNCHANGED <<gathered, added>>
    BY <1>5 DEF SetLocal
  <2> QED  BY <1>5, <2>1, SetLocalSends DEF Still, Voyages
<1>6. ASSUME NEW p \in Peers, SetRemote(p)
      PROVE  UNCHANGED <<gathered, added>> /\ \E d \in Descriptions : Takes(p, d)
  <2>1. UNCHANGED <<gathered, added>>
    BY <1>6 DEF SetRemote
  <2> QED  BY <1>6, <2>1, SetRemoteTakes
<1>7. ASSUME NEW p \in Peers, Attach(p) \/ FinishAttach(p) \/ RestartIce(p)
      PROVE  Still /\ Voyages
  <2>1. FlushKept(p) \/ UNCHANGED <<ops, down, buffer, up, pendingSignals>>
    BY <1>7 DEF Attach, FinishAttach, RestartIce
  <2>2. Still
    BY <1>7 DEF Attach, FinishAttach, FlushKept, RestartIce, Still
  <2> QED  BY <2>1, <2>2, FlushKeptSails, NothingSails DEF Voyages
<1>8. ASSUME NEW p \in Peers, Connect(p) \/ Forward(p) \/ ForwardEarly(p) \/ Drop(p)
      PROVE  Still /\ Voyages
  <2>1. Still
    BY <1>8 DEF Connect, Forward, ForwardEarly, Drop, Still
  <2> QED  BY <1>8, <2>1, ConnectSails, ForwardFlows, ClosesFlows DEF Voyages
<1>9. ASSUME NEW p \in Peers, Step(p) \/ RestartIce(p) \/ ForwardEarly(p) \/ Drop(p)
      PROVE  \/ Still /\ Voyages
             \/ /\ SetLocal(p) /\ UNCHANGED <<gathered, added>>
                /\ \E d \in Descriptions : Sets(p, d)
             \/ /\ SetRemote(p) /\ UNCHANGED <<gathered, added>>
                /\ \E d \in Descriptions : Takes(p, d)
             \/ AddCandidate(p)
             \/ Receive(p) /\ Still
             \/ Gather(p)
  BY <1>3, <1>4, <1>5, <1>6, <1>7, <1>8, <1>9 DEF Step, RunChain
<1> QED  BY <1>1, <1>2, <1>9 DEF Next

\* A candidate goes out last.
LEMMA GatherSends ==
    ASSUME Typed, OpenSends, NEW p \in Peers, Gather(p)
    PROVE  /\ CandidateOf(local[p]) \in Candidates
           /\ \E z \in Places :
                 /\ OnWay(p, z, CandidateOf(local[p]))'
                 /\ \A a \in Places, y \in Signals :
                       /\ OnWay(p, a, y) => OnWay(p, a, y)' /\ Before(a, z)
                       /\ OnWay(p, a, y)' => \/ OnWay(p, a, y) /\ Before(a, z)
                                             \/ a = z /\ y = CandidateOf(local[p])
           /\ Flows(Other(p), Nowhere)
<1> DEFINE c == CandidateOf(local[p])
           q == Other(p)
<1>1. c \in Candidates /\ c \in Signals
  BY DEF Gather, CandidateOf, Candidates, Typed, Signals
<1>2. Emit(p, c) /\ UNCHANGED <<ops, buffer, local>>
  BY DEF Gather
<1>3. q \in Peers /\ q # p /\ Other(q) = p
  BY DEF Other, Peers
<1>4. c' = c
  BY <1>2
<1> HIDE DEF c
<1>5. PICK x \in Signals : x = c
  BY <1>1
<1>6. \E z \in Places :
          /\ OnWay(p, z, x)'
          /\ \A a \in Places, y \in Signals :
                /\ OnWay(p, a, y) => OnWay(p, a, y)' /\ Before(a, z)
                /\ OnWay(p, a, y)' => \/ OnWay(p, a, y) /\ Before(a, z)
                                      \/ a = z /\ y = x
  BY <1>2, <1>5, EmitsLast
<1>7. down' = down /\ up'[q] = up[q] /\ pendingSignals'[q] = pendingSignals[q]
  BY <1>2, <1>3 DEF Emit, Typed
<1>8. Flows(q, Nowhere)
  BY <1>2, <1>3, <1>7, KeptFlows
<1>9. \A z : OnWay(p, z, x)' <=> OnWay(p, z, c)'
  <2>1. x = c'
    BY <1>4, <1>5
  <2> QED  BY <2>1 DEF OnWay, Lies, Said
<1>10. \E z \in Places :
          /\ OnWay(p, z, c)'
          /\ \A a \in Places, y \in Signals :
                /\ OnWay(p, a, y) => OnWay(p, a, y)' /\ Before(a, z)
                /\ OnWay(p, a, y)' => \/ OnWay(p, a, y) /\ Before(a, z)
                                      \/ a = z /\ y = c
  BY <1>5, <1>6, <1>9
<1> QED  BY <1>1, <1>8, <1>10 DEF c

\* Most steps set nothing and send no description.
LEMMA GatherDrifts == ASSUME Typed, OpenSends, NEW p \in Peers, Gather(p) PROVE Drifts
<1>1. UNCHANGED <<sig, local, remote>>
  BY DEF Gather
<1>2. PICK z \in Places : \A a \in Places, y \in Signals :
          OnWay(p, a, y)' => \/ OnWay(p, a, y) /\ Before(a, z)
                             \/ a = z /\ y = CandidateOf(local[p])
  BY GatherSends
<1>3. \A d \in Descriptions : d \in Signals /\ d # CandidateOf(local[p])
  BY DEF Signals, Descriptions, CandidateOf
<1>4. \A a \in Places, d \in Descriptions : OnWay(p, a, d)' => OnWay(p, a, d)
  BY <1>2, <1>3
<1>5. Thins(p)
  <2> DEFINE f == [a \in Places |-> a]
  <2>1. f \in [Places -> Places] /\ \A a \in Places : f[a] = a
    OBVIOUS
  <2> HIDE DEF f
  <2> QED  BY <1>4, <2>1 DEF Thins
<1>6. Thins(Other(p))
  BY GatherSends, StagesOf, FlowsThin
<1> QED  BY <1>1, <1>5, <1>6 DEF Drifts, Other, Peers

LEMMA Drifting ==
    ASSUME Typed, Remembered, OpenSends, [Next]_vars, ~overtaken'
    PROVE  \/ Drifts
           \/ \E p \in Peers, d \in Descriptions : SetLocal(p) /\ Sets(p, d)
           \/ \E p \in Peers, d \in Descriptions :
                 SetRemote(p) /\ Takes(p, d) /\ ~UNCHANGED <<sig, remote>>
<1>1. CASE Still /\ Voyages
  BY <1>1, SailsThin DEF Still, Voyages, Drifts
<1>2. ASSUME NEW p \in Peers, NEW d \in Descriptions, Takes(p, d),
             UNCHANGED <<sig, remote>>
      PROVE  Drifts
  <2>1. Thins(Other(p)) /\ Thins(p)
    BY <1>2, FlowsThin, StagesOf DEF Takes
  <2> QED  BY <1>2, <2>1 DEF Drifts, Takes, Other, Peers
<1>3. ASSUME NEW p \in Peers, AddCandidate(p) PROVE Drifts
  <2>1. Thins(Other(p)) /\ Thins(p)
    BY <1>3, FlowsThin, StagesOf, AddCandidateFlows
  <2>2. UNCHANGED <<sig, local, remote>>
    BY <1>3 DEF AddCandidate
  <2> QED  BY <2>1, <2>2 DEF Drifts, Other, Peers
<1>4. ASSUME NEW p \in Peers, Receive(p), Still PROVE Drifts
  <2>1. Thins(Other(p)) /\ Thins(p)
    BY <1>4, FlowsThin, StagesOf, ReceiveFlows
  <2> QED  BY <1>4, <2>1 DEF Drifts, Still, Other, Peers
<1> QED  BY <1>1, <1>2, <1>3, <1>4, Courses, GatherDrifts

LEMMA SetLocalInExchange ==
    ASSUME Typed, Exchange, NEW p \in Peers, NEW d \in Descriptions, Sets(p, d)
    PROVE  Exchange'
<1>1. Other("host") = "guest" /\ Other("guest") = "host" /\ p \in {"host", "guest"}
  BY DEF Other, Peers
<1>2. Thins(Other(p))
  BY FlowsThin, StagesOf DEF Sets
<1>3. CASE p = "host" /\ d.type = "offer"
  BY <1>1, <1>2, <1>3, Exclusive, HostOffersInExchange DEF Sets
<1>4. CASE p = "host" /\ d.type = "answer"
  BY <1>1, <1>2, <1>4, Exclusive, HostAnswersInExchange DEF Sets
<1>5. CASE p = "guest" /\ d.type = "offer"
  BY <1>1, <1>2, <1>5, Exclusive, GuestOffersInExchange DEF Sets
<1>6. CASE p = "guest" /\ d.type = "answer"
  BY <1>1, <1>2, <1>6, Exclusive, GuestAnswersInExchange DEF Sets
<1> QED  BY <1>1, <1>3, <1>4, <1>5, <1>6 DEF Sets

LEMMA SetRemoteInExchange ==
    ASSUME Typed, HostChain, Exchange, NEW p \in Peers, NEW d \in Descriptions,
           SetRemote(p), Takes(p, d), ~UNCHANGED <<sig, remote>>
    PROVE  Exchange'
<1>1. Other("host") = "guest" /\ Other("guest") = "host" /\ p \in {"host", "guest"}
  BY DEF Other, Peers
<1>2. Thins(p) /\ Yields(Other(p), d)
  BY FlowsThin, FlowsYield, StagesOf DEF Takes
<1>3. CASE p = "host" /\ d.type = "offer"
  <2>1. RemoteOffer(ops["host"][1])
    BY <1>3, SaidIs DEF RemoteOffer, Takes
  <2>2. ~Offering("host")
    BY <1>3, <2>1, AnswerComesFirst DEF Offering, Takes
  <2> QED  BY <1>1, <1>2, <1>3, <2>2, HostTakesOffer DEF Takes
<1>4. CASE p = "host" /\ d.type = "answer"
  BY <1>1, <1>2, <1>4, HostTakesAnswer DEF Takes
<1>5. CASE p = "guest" /\ d.type = "offer"
  BY <1>1, <1>2, <1>5, GuestTakesOffer DEF Takes
<1>6. CASE p = "guest" /\ d.type = "answer"
  BY <1>1, <1>2, <1>6, GuestTakesAnswer DEF Takes
<1> QED  BY <1>1, <1>3, <1>4, <1>5, <1>6 DEF Takes

LEMMA ExchangeStep ==
    ASSUME Typed, Remembered, HostChain, OpenSends, Exchange, [Next]_vars, ~overtaken'
    PROVE  Exchange'
<1>1. Drifts => Exchange'
  BY DriftsInExchange DEF Drifts
<1> QED  BY <1>1, Drifting, SetLocalInExchange, SetRemoteInExchange

\* What waits goes out as the socket opens, and what is on it goes with it.
LEMMA OpenSendsStep == ASSUME Typed, OpenSends, [Next]_vars PROVE OpenSends'
<1>1. ASSUME UNCHANGED <<sock, pendingSignals, up>> PROVE OpenSends'
  BY <1>1 DEF OpenSends
<1>2. ASSUME NEW p \in Peers, NEW x, Emit(p, x) PROVE OpenSends'
  <2>1. /\ sock' = sock
        /\ \/ /\ sock[p] = "open" /\ pendingSignals' = pendingSignals
              /\ up' = [up EXCEPT ![p] = Append(@, x)]
           \/ /\ sock[p] # "open" /\ up' = up
              /\ pendingSignals' = [pendingSignals EXCEPT ![p] = Append(@, x)]
    BY <1>2 DEF Emit
  <2> QED  BY <2>1 DEF OpenSends, Typed
<1>3. ASSUME NEW p \in Peers, Connect(p) PROVE OpenSends'
  <2> SUFFICES ASSUME NEW r \in Peers
               PROVE  IF sock'[r] = "open" THEN pendingSignals'[r] = <<>> ELSE up'[r] = <<>>
    BY DEF OpenSends
  <2>1. /\ sock' = [sock EXCEPT ![p] = "open"]
        /\ up' = [up EXCEPT ![p] = pendingSignals[p]]
        /\ pendingSignals' = [pendingSignals EXCEPT ![p] = <<>>]
    BY <1>3 DEF Connect
  <2>2. CASE r = p
    BY <2>1, <2>2 DEF Typed
  <2>3. CASE r # p
    BY <2>1, <2>3 DEF OpenSends, Typed
  <2> QED  BY <2>2, <2>3
<1>4. ASSUME NEW p \in Peers, ForwardEarly(p) \/ Drop(p) PROVE OpenSends'
  <2>1. PICK state \in {"down", "fatal"} : sock' = [sock EXCEPT ![p] = state]
    BY <1>4 DEF ForwardEarly, Drop, Closed
  <2>2. pendingSignals' = pendingSignals /\ up' = [up EXCEPT ![p] = <<>>]
    BY <1>4 DEF ForwardEarly, Drop, Closed
  <2> QED  BY <2>1, <2>2 DEF OpenSends, Typed
<1>5. ASSUME RestartBroker PROVE OpenSends'
  BY <1>5 DEF RestartBroker, OpenSends
<1>6. ASSUME NEW p \in Peers, Forward(p) PROVE OpenSends'
  <2>1. /\ UNCHANGED <<sock, pendingSignals>> /\ up[p] # <<>>
        /\ up' = [up EXCEPT ![p] = Tail(@)]
    BY <1>6 DEF Forward
  <2> QED  BY <2>1 DEF OpenSends, Typed
<1>7. ASSUME NEW p \in Peers, NegotiationNeeded(p) \/ RunChain(p) \/ Receive(p)
                              \/ RestartIce(p) \/ Attach(p) \/ FinishAttach(p)
      PROVE  OpenSends'
  <2>1. CASE SetLocal(p)
    <3>1. Emit(p, Head(ops[p]).d) \/ UNCHANGED <<sock, pendingSignals, up>>
      BY <2>1 DEF SetLocal
    <3> QED  BY <1>1, <1>2, <3>1
  <2>2. CASE ~SetLocal(p)
    <3>1. UNCHANGED <<sock, pendingSignals, up>>
      BY <1>7, <2>2 DEF NegotiationNeeded, RunChain, CreateOffer, SetRemote, CreateAnswer,
         AddCandidate, Flush, Receive, RestartIce, Attach, FinishAttach, FlushKept
    <3> QED  BY <1>1, <3>1
  <2> QED  BY <2>1, <2>2
<1>8. ASSUME NEW p \in Peers, Gather(p) PROVE OpenSends'
  BY <1>2, <1>8 DEF Gather
<1>9. CASE UNCHANGED vars
  BY <1>1, <1>9 DEF vars
<1> QED  BY <1>3, <1>4, <1>5, <1>6, <1>7, <1>8, <1>9 DEF Next, Step

-----------------------------------------------------------------------------
(* What joins the chain of a peer *)

Waits(p, op) == \E i \in DOMAIN ops[p] : ops[p][i] = op

\* The operations that a step appends to the chain of p.
Joins(p, op) ==
    \/ NegotiationNeeded(p) /\ op.op = "createOffer"
    \/ CreateOffer(p) /\ Stable(p) /\ op = [op |-> "setLocal", d |-> Offer(p, made[p] + 1)]
    \/ CreateAnswer(p) /\ Answering(p)
       /\ op = [op |-> "setLocal", d |-> AnswerTo(p, remote[p])]
    \/ SetRemote(p) /\ op.op \in {"flush", "createAnswer"} /\ remote'[p] \in Descriptions
    \/ Receive(p) /\ op.op \in {"add", "setRemote"}

\* At most one offer is in the making.
Lone(chain) ==
    \A i, j \in DOMAIN chain : Making(chain[i]) /\ Making(chain[j]) => i = j
OneOffer == \A p \in Peers : Lone(ops[p])

LEMMA PopLone ==
    ASSUME NEW S, NEW s \in Seq(S), s # <<>>, Lone(s)
    PROVE  /\ Lone(Tail(s))
           /\ Making(s[1]) => \A i \in DOMAIN Tail(s) : ~Making(Tail(s)[i])
<1>1. ASSUME NEW i \in DOMAIN Tail(s)
      PROVE  /\ i \in Nat /\ i + 1 \in DOMAIN s /\ Tail(s)[i] = s[i + 1] /\ 1 # i + 1
  <2>1. i \in 1..(Len(s) - 1) /\ i \in Nat /\ i + 1 \in DOMAIN s /\ Tail(s)[i] = s[i + 1]
    BY TailOf
  <2> QED  BY <2>1
<1>2. ASSUME NEW i \in DOMAIN Tail(s), NEW j \in DOMAIN Tail(s),
             Making(Tail(s)[i]), Making(Tail(s)[j])
      PROVE  i = j
  <2>1. i + 1 = j + 1
    BY <1>1, <1>2 DEF Lone
  <2> QED  BY <1>1, <2>1
<1>3. ASSUME Making(s[1]), NEW i \in DOMAIN Tail(s), Making(Tail(s)[i]) PROVE FALSE
  <2>1. 1 \in DOMAIN s
    BY TailOf
  <2> QED  BY <1>1, <1>3, <2>1 DEF Lone
<1> QED  BY <1>2, <1>3 DEF Lone

LEMMA JoinLone ==
    ASSUME NEW S, NEW s \in Seq(S), NEW t \in Seq(S), Lone(s), Lone(t),
           (\A i \in DOMAIN s : ~Making(s[i])) \/ (\A k \in DOMAIN t : ~Making(t[k]))
    PROVE  Lone(s \o t)
<1> DEFINE u == s \o t
<1>1. /\ Len(s) \in Nat /\ Len(t) \in Nat /\ DOMAIN s = 1..Len(s) /\ DOMAIN t = 1..Len(t)
      /\ DOMAIN u = 1..(Len(s) + Len(t))
      /\ \A i \in DOMAIN s : u[i] = s[i]
      /\ \A i \in DOMAIN u : i \notin DOMAIN s =>
             i \in Nat /\ i - Len(s) \in DOMAIN t /\ u[i] = t[i - Len(s)]
  OBVIOUS
<1>2. ASSUME NEW i \in DOMAIN u, NEW j \in DOMAIN u, Making(u[i]), Making(u[j])
      PROVE  i = j
  <2>1. CASE i \in DOMAIN s /\ j \in DOMAIN s
    BY <1>1, <1>2, <2>1 DEF Lone
  <2>2. CASE i \notin DOMAIN s /\ j \notin DOMAIN s
    <3>1. i - Len(s) = j - Len(s)
      BY <1>1, <1>2, <2>2 DEF Lone
    <3> QED  BY <1>1, <2>2, <3>1
  <2>3. i \in DOMAIN s => Making(s[i])
    BY <1>1, <1>2
  <2>4. j \in DOMAIN s => Making(s[j])
    BY <1>1, <1>2
  <2>5. i \notin DOMAIN s => \E k \in DOMAIN t : Making(t[k])
    BY <1>1, <1>2
  <2>6. j \notin DOMAIN s => \E k \in DOMAIN t : Making(t[k])
    BY <1>1, <1>2
  <2> QED  BY <2>1, <2>2, <2>3, <2>4, <2>5, <2>6
<1> QED  BY <1>2 DEF Lone

\* How a step changes the chain of p.
LEMMA Chains ==
    ASSUME Typed, Remembered, [Next]_vars, NEW p \in Peers
    PROVE  \/ ops'[p] = ops[p]
           \/ /\ Flush(p) /\ Len(ops[p]) > 1 /\ ops[p][2].op = "createAnswer"
              /\ ops'[p] = Tail(Tail(ops[p]))
           \/ \E next \in Seq(Ops) :
                 /\ \A k \in DOMAIN next : Joins(p, next[k])
                 /\ \/ /\ ops'[p] = ops[p] \o next
                       /\ \/ \A k \in DOMAIN next : ~Making(next[k])
                          \/ ops[p] = <<>> /\ DOMAIN next = {1}
                    \/ /\ ops[p] # <<>> /\ RunChain(p) /\ ops'[p] = Tail(ops[p]) \o next
                       /\ \/ \A k \in DOMAIN next : ~Making(next[k])
                          \/ Making(ops[p][1]) /\ DOMAIN next = {1}
<1> DEFINE
      Queues == \E next \in Seq(Ops) :
                 /\ \A k \in DOMAIN next : Joins(p, next[k])
                 /\ ops'[p] = ops[p] \o next
                 /\ \/ \A k \in DOMAIN next : ~Making(next[k])
                    \/ ops[p] = <<>> /\ DOMAIN next = {1}
      Goes == \E next \in Seq(Ops) :
                 /\ \A k \in DOMAIN next : Joins(p, next[k])
                 /\ ops[p] # <<>> /\ RunChain(p) /\ ops'[p] = Tail(ops[p]) \o next
                 /\ \/ \A k \in DOMAIN next : ~Making(next[k])
                    \/ Making(ops[p][1]) /\ DOMAIN next = {1}
<1>0. ops \in [Peers -> Seq(Ops)] /\ ops[p] \in Seq(Ops)
  BY DEF Typed
<1>1. ASSUME NEW op \in Ops, Joins(p, op), Queue(p, op), ~Making(op) \/ ops[p] = <<>>
      PROVE  Queues
  <2> DEFINE next == <<op>>
  <2>1. ops'[p] = Append(ops[p], op)
    BY <1>0, <1>1, QueueType
  <2>2. next \in Seq(Ops) /\ DOMAIN next = {1} /\ next[1] = op
        /\ Append(ops[p], op) = ops[p] \o next
    BY <1>0, AppendOf
  <2> HIDE DEF next
  <2> QED  BY <1>1, <2>1, <2>2
<1>2. ASSUME RunChain(p), ops[p] # <<>>, NEW next \in Seq(Ops), Continue(p, next),
             \A k \in DOMAIN next : Joins(p, next[k]),
             \/ \A k \in DOMAIN next : ~Making(next[k])
             \/ Making(ops[p][1]) /\ DOMAIN next = {1}
      PROVE  Goes
  <2>1. ops'[p] = Tail(ops[p]) \o next
    BY <1>0, <1>2, ContinueType
  <2> QED  BY <1>2, <2>1
<1>3. ASSUME RunChain(p), ops[p] # <<>>, Done(p) PROVE Goes
  <2> DEFINE next == << >>
  <2>1. next \in Seq(Ops) /\ DOMAIN next = {} /\ Continue(p, next)
    BY <1>3 DEF Done
  <2> HIDE DEF next
  <2> QED  BY <1>2, <1>3, <2>1
<1> HIDE DEF Queues, Goes
<1>4. CASE NegotiationNeeded(p)
  <2> DEFINE op == [op |-> "createOffer"]
  <2>1. op \in Ops /\ op.op = "createOffer"
    BY Operations
  <2>2. Queue(p, op) /\ ops[p] = <<>>
    BY <1>4 DEF NegotiationNeeded
  <2> HIDE DEF op
  <2>3. Joins(p, op)
    BY <1>4, <2>1 DEF Joins
  <2>4. Queues
    BY <1>1, <2>1, <2>2, <2>3
  <2> QED  BY <2>4 DEF Queues
<1>5. ASSUME RunChain(p) PROVE ops[p] # <<>> /\ Head(ops[p]) = ops[p][1] /\ ops[p][1] \in Ops
  <2>1. ops[p] # <<>>
    BY <1>5 DEF RunChain, CreateOffer, SetLocal, SetRemote, CreateAnswer, AddCandidate,
       Flush, At
  <2> QED  BY <1>0, <2>1, TailOf
<1>6. CASE CreateOffer(p)
  <2>1. RunChain(p) /\ ops[p][1].op = "createOffer"
    BY <1>5, <1>6 DEF RunChain, CreateOffer, At
  <2>2. CASE sig[p] = "stable"
    <3> DEFINE op == [op |-> "setLocal", d |-> Offer(p, made[p] + 1)]
               next == <<op>>
    <3>1. Offer(p, made[p] + 1) \in Descriptions
      BY DEF Offer, Descriptions, Typed
    <3>2. op \in Ops
      BY <3>1, Operations
    <3>3. Continue(p, next)
      BY <1>6, <2>2 DEF CreateOffer
    <3>4. Joins(p, op)
      BY <1>6, <2>2 DEF Joins, Stable
    <3> HIDE DEF op
    <3>5. next \in Seq(Ops) /\ DOMAIN next = {1} /\ next[1] = op
      BY <3>2
    <3> HIDE DEF next
    <3>6. Goes
      BY <1>2, <1>5, <2>1, <3>3, <3>4, <3>5 DEF Making
    <3> QED  BY <3>6 DEF Goes
  <2>3. CASE sig[p] # "stable"
    <3>1. Done(p)
      BY <1>6, <2>3 DEF CreateOffer
    <3>2. Goes
      BY <1>3, <1>5, <2>1, <3>1
    <3> QED  BY <3>2 DEF Goes
  <2> QED  BY <2>2, <2>3
<1>7. CASE SetLocal(p) \/ AddCandidate(p)
  <2>1. RunChain(p) /\ Done(p)
    BY <1>7 DEF RunChain, SetLocal, AddCandidate
  <2>2. Goes
    BY <1>3, <1>5, <2>1
  <2> QED  BY <2>2 DEF Goes
<1>8. CASE SetRemote(p)
  <2> DEFINE d == Head(ops[p]).d
             fits == d.type = "offer" \/ sig[p] = "have-local-offer"
             next == Follow(p, d)
  <2>1. RunChain(p) /\ Head(ops[p]).op = "setRemote"
    BY <1>8 DEF RunChain, SetRemote, At
  <2>2. d \in Descriptions
    BY <1>5, <2>1, OpsAre
  <2>3. fits => remote' = [remote EXCEPT ![p] = d] /\ Continue(p, next)
    BY <1>8 DEF SetRemote
  <2>4. ~fits => Done(p)
    BY <1>8 DEF SetRemote
  <2>5. next \in Seq(Ops) /\ \A k \in DOMAIN next : next[k].op \in {"flush", "createAnswer"}
    BY FollowType
  <2> HIDE DEF fits, next, d
  <2>6. Goes
    <3>1. CASE fits
      <4>1. remote'[p] \in Descriptions
        BY <2>2, <2>3, <3>1 DEF Typed
      <4>2. \A k \in DOMAIN next : Joins(p, next[k]) /\ ~Making(next[k])
        BY <1>8, <2>5, <4>1 DEF Joins, Making
      <4> QED  BY <1>2, <1>5, <2>1, <2>3, <2>5, <3>1, <4>2
    <3> QED  BY <1>3, <1>5, <2>1, <2>4, <3>1
  <2> QED  BY <2>6 DEF Goes
<1>9. CASE CreateAnswer(p)
  <2>1. RunChain(p)
    BY <1>9 DEF RunChain
  <2>2. CASE sig[p] = "have-remote-offer"
    <3> DEFINE a == AnswerTo(p, remote[p])
               op == [op |-> "setLocal", d |-> a]
               next == <<op>>
    <3>1. a \in Descriptions /\ a.type = "answer"
      BY <2>2 DEF AnswerTo, Descriptions, Remembered
    <3>2. op \in Ops /\ ~Making(op)
      BY <3>1, Operations DEF Making
    <3>3. Continue(p, next)
      BY <1>9, <2>2 DEF CreateAnswer
    <3>4. Joins(p, op)
      BY <1>9, <2>2 DEF Joins, Answering
    <3> HIDE DEF op
    <3>5. next \in Seq(Ops) /\ DOMAIN next = {1} /\ next[1] = op
      BY <3>2
    <3> HIDE DEF next
    <3>6. Goes
      BY <1>2, <1>5, <2>1, <3>2, <3>3, <3>4, <3>5
    <3> QED  BY <3>6 DEF Goes
  <2>3. CASE sig[p] # "have-remote-offer"
    <3>1. Done(p)
      BY <1>9, <2>3 DEF CreateAnswer
    <3>2. Goes
      BY <1>3, <1>5, <2>1, <3>1
    <3> QED  BY <3>2 DEF Goes
  <2> QED  BY <2>2, <2>3
<1>10. CASE Flush(p)
  <2>1. RunChain(p)
    BY <1>10 DEF RunChain
  <2>2. CASE ops' = [ops EXCEPT ![p] = Tail(@)]
    <3>1. Tail(ops[p]) \in Seq(Ops)
      BY <1>0, <1>5, <2>1, TailOf
    <3>2. Tail(ops[p]) \o << >> = Tail(ops[p])
      BY <3>1
    <3>3. Done(p)
      BY <2>2, <3>2 DEF Done, Continue
    <3>4. Goes
      BY <1>3, <1>5, <2>1, <3>3
    <3> QED  BY <3>4 DEF Goes
  <2>3. CASE /\ ops' = [ops EXCEPT ![p] = Tail(Tail(@))]
             /\ Len(ops[p]) > 1 /\ ops[p][2].op = "createAnswer"
    BY <1>0, <1>10, <2>3
  <2> QED  BY <1>10, <2>2, <2>3, FlushOps
<1>11. CASE Receive(p)
  <2> DEFINE signal == Head(down[p])
  <2>1. signal \in Signals
    <3>1. down[p] \in Seq(Signals) /\ down[p] # <<>>
      BY <1>11 DEF Receive, Typed
    <3> QED  BY <3>1, TailOf
  <2>2. \A s \in Signals : /\ s.type = "candidate" => s \in Candidates
                           /\ s.type # "candidate" => s \in Descriptions
    BY DEF Signals, Descriptions, Candidates
  <2>3. \/ signal.type = "candidate" /\ Queue(p, [op |-> "add", c |-> signal])
        \/ signal.type # "candidate" /\ Queue(p, [op |-> "setRemote", d |-> signal])
        \/ ops' = ops
    <3>1. signal.type = "candidate" => Queue(p, [op |-> "add", c |-> signal])
      BY <1>11 DEF Receive
    <3>2. signal.type # "candidate" =>
              ops' = ops \/ Queue(p, [op |-> "setRemote", d |-> signal])
      BY <1>11 DEF Receive
    <3> QED  BY <3>1, <3>2
  <2> HIDE DEF signal
  <2>4. ops' = ops \/ \E op \in Ops : op.op \in {"add", "setRemote"} /\ Queue(p, op)
    <3> DEFINE x == [op |-> "add", c |-> signal]
               y == [op |-> "setRemote", d |-> signal]
    <3>1. /\ signal \in Candidates => x \in Ops
          /\ signal \in Descriptions => y \in Ops
          /\ x.op = "add" /\ y.op = "setRemote"
      BY Operations
    <3>2. \/ x \in Ops /\ Queue(p, x)
          \/ y \in Ops /\ Queue(p, y)
          \/ ops' = ops
      BY <2>1, <2>2, <2>3, <3>1
    <3> HIDE DEF x, y
    <3> QED  BY <3>1, <3>2
  <2>5. ASSUME NEW op \in Ops, op.op \in {"add", "setRemote"}, Queue(p, op) PROVE Queues
    <3>1. Joins(p, op) /\ ~Making(op)
      BY <1>11, <2>5 DEF Joins, Making
    <3> QED  BY <1>1, <2>5, <3>1
  <2>6. Queues \/ ops' = ops
    BY <2>4, <2>5
  <2>7. CASE Queues
    BY <2>7 DEF Queues
  <2> QED  BY <2>6, <2>7
<1>12. ASSUME ~NegotiationNeeded(p), ~RunChain(p), ~Receive(p) PROVE ops'[p] = ops[p]
  <2>1. (\E q \in Peers : Engine(q)) \/ ops' = ops
    BY OtherSteps DEF engineRest
  <2>2. ASSUME NEW q \in Peers, Engine(q) PROVE ops'[p] = ops[p]
    <3>1. q # p
      BY <1>12, <2>2 DEF Engine
    <3>2. Flush(q) => ops'[p] = ops[p]
      BY <1>0, <3>1, FlushOps
    <3>3. Receive(q) => ops'[p] = ops[p]
      BY <1>0, <3>1 DEF Receive, Queue
    <3>4. SetRemote(q) => ops'[p] = ops[p]
      BY <1>0, <3>1 DEF SetRemote, Continue, Done
    <3>5. CreateOffer(q) \/ CreateAnswer(q) \/ NegotiationNeeded(q) => ops'[p] = ops[p]
      BY <1>0, <3>1 DEF CreateOffer, CreateAnswer, NegotiationNeeded, Continue, Done, Queue
    <3>6. SetLocal(q) \/ AddCandidate(q) => ops'[p] = ops[p]
      BY <1>0, <3>1 DEF SetLocal, AddCandidate, Continue, Done
    <3> QED  BY <2>2, <3>2, <3>3, <3>4, <3>5, <3>6 DEF Engine, RunChain
  <2> QED  BY <2>1, <2>2
<1> QED  BY <1>4, <1>6, <1>7, <1>8, <1>9, <1>10, <1>11, <1>12 DEF RunChain

LEMMA WaitsFrom ==
    ASSUME Typed, Remembered, [Next]_vars, NEW p \in Peers, NEW op, Waits(p, op)'
    PROVE  Waits(p, op) \/ Joins(p, op)
<1>1. PICK i \in DOMAIN ops'[p] : ops'[p][i] = op
  BY DEF Waits
<1>2. ops[p] \in Seq(Ops)
  BY DEF Typed
<1>3. CASE ops'[p] = ops[p]
  BY <1>1, <1>3 DEF Waits
<1>4. ASSUME ops[p] # <<>>, NEW k \in DOMAIN Tail(ops[p]), Tail(ops[p])[k] = op
      PROVE  Waits(p, op)
  BY <1>2, <1>4, TailOf DEF Waits
<1>5. CASE Len(ops[p]) > 1 /\ ops'[p] = Tail(Tail(ops[p]))
  <2>1. ops[p] # <<>> /\ Tail(ops[p]) \in Seq(Ops) /\ Tail(ops[p]) # <<>>
    BY <1>2, <1>5, TailOfTail
  <2>2. i + 1 \in DOMAIN Tail(ops[p]) /\ Tail(ops[p])[i + 1] = op
    BY <1>1, <1>5, <2>1, TailOf
  <2> QED  BY <1>4, <2>1, <2>2
<1>6. ASSUME NEW s \in Seq(Ops), NEW next \in Seq(Ops), ops'[p] = s \o next,
             \A k \in DOMAIN next : Joins(p, next[k])
      PROVE  (\E k \in DOMAIN s : s[k] = op) \/ Joins(p, op)
  <2>1. CASE i \in DOMAIN s
    <3>1. s[i] = op
      BY <1>1, <1>6, <2>1, JoinOf
    <3> QED  BY <2>1, <3>1
  <2>2. CASE i \notin DOMAIN s
    <3>1. \E k \in DOMAIN next : next[k] = op
      <4>1. i \in DOMAIN (s \o next) /\ (s \o next)[i] = op
        BY <1>1, <1>6
      <4> QED  BY <2>2, <4>1, JoinOf
    <3> QED  BY <1>6, <3>1
  <2> QED  BY <2>1, <2>2
<1>7. ASSUME NEW next \in Seq(Ops), \A k \in DOMAIN next : Joins(p, next[k]),
             ops'[p] = ops[p] \o next
      PROVE  Waits(p, op) \/ Joins(p, op)
  BY <1>2, <1>6, <1>7 DEF Waits
<1>8. ASSUME NEW next \in Seq(Ops), \A k \in DOMAIN next : Joins(p, next[k]),
             ops[p] # <<>>, ops'[p] = Tail(ops[p]) \o next
      PROVE  Waits(p, op) \/ Joins(p, op)
  <2>1. Tail(ops[p]) \in Seq(Ops)
    BY <1>2, <1>8, TailOf
  <2>2. (\E k \in DOMAIN Tail(ops[p]) : Tail(ops[p])[k] = op) \/ Joins(p, op)
    BY <1>6, <1>8, <2>1
  <2> QED  BY <1>4, <1>8, <2>2
<1> QED  BY <1>3, <1>5, <1>7, <1>8, Chains

\* The flush waits until it is its turn.
LEMMA FlushWaits ==
    ASSUME Typed, Remembered, [Next]_vars, NEW p \in Peers, Waits(p, [op |-> "flush"])
    PROVE  Waits(p, [op |-> "flush"])' \/ Flush(p)
<1> DEFINE op == [op |-> "flush"]
<1>0. op.op = "flush"
  OBVIOUS
<1> HIDE DEF op
<1>1. PICK i \in DOMAIN ops[p] : ops[p][i] = op
  BY DEF Waits, op
<1>2. ops[p] \in Seq(Ops)
  BY DEF Typed
<1>3. CASE ops'[p] = ops[p]
  BY <1>1, <1>3 DEF Waits, op
<1>4. ASSUME NEW s \in Seq(Ops), NEW next \in Seq(Ops), ops'[p] = s \o next,
             NEW k \in DOMAIN s, s[k] = op
      PROVE  Waits(p, [op |-> "flush"])'
  <2>1. k \in DOMAIN (s \o next) /\ (s \o next)[k] = op
    BY <1>4, JoinOf
  <2> QED  BY <1>4, <2>1 DEF Waits, op
<1>5. ASSUME NEW next \in Seq(Ops), ops'[p] = ops[p] \o next
      PROVE  Waits(p, [op |-> "flush"])'
  BY <1>1, <1>2, <1>4, <1>5
<1>6. ASSUME NEW next \in Seq(Ops), ops[p] # <<>>, RunChain(p),
             ops'[p] = Tail(ops[p]) \o next
      PROVE  Waits(p, [op |-> "flush"])' \/ Flush(p)
  <2>1. Tail(ops[p]) \in Seq(Ops) /\ Head(ops[p]) = ops[p][1]
        /\ DOMAIN Tail(ops[p]) = 1..(Len(ops[p]) - 1)
    BY <1>2, <1>6, TailOf
  <2>2. CASE i = 1
    BY <1>0, <1>1, <1>6, <2>1, <2>2 DEF RunChain, CreateOffer, SetLocal, SetRemote,
       CreateAnswer, AddCandidate, At
  <2>3. CASE i # 1
    <3>1. i - 1 \in DOMAIN Tail(ops[p]) /\ (i - 1) + 1 = i
      BY <1>1, <1>2, <2>1, <2>3
    <3>2. Tail(ops[p])[i - 1] = op
      BY <1>1, <1>2, <1>6, <3>1, TailOf
    <3> QED  BY <1>4, <1>6, <2>1, <3>1, <3>2
  <2> QED  BY <2>2, <2>3
<1> QED  BY <1>3, <1>5, <1>6, Chains

LEMMA OneOfferStep ==
    ASSUME Typed, Remembered, OneOffer, [Next]_vars
    PROVE  OneOffer'
<1> SUFFICES ASSUME NEW p \in Peers PROVE Lone(ops'[p])
  BY DEF OneOffer, Lone
<1>1. ops[p] \in Seq(Ops) /\ Lone(ops[p])
  BY DEF Typed, OneOffer
<1>2. CASE Len(ops[p]) > 1 /\ ops'[p] = Tail(Tail(ops[p]))
  <2>1. ops[p] # <<>> /\ Tail(ops[p]) \in Seq(Ops) /\ Tail(ops[p]) # <<>>
    BY <1>1, <1>2, TailOfTail
  <2>2. Lone(Tail(ops[p]))
    BY <1>1, <2>1, PopLone
  <2> QED  BY <1>2, <2>1, <2>2, PopLone
<1>3. ASSUME NEW next, DOMAIN next = {1} PROVE Lone(next)
  BY <1>3 DEF Lone
<1>4. ASSUME NEW next, \A k \in DOMAIN next : ~Making(next[k]) PROVE Lone(next)
  BY <1>4 DEF Lone
<1>5. ASSUME NEW next \in Seq(Ops), ops'[p] = ops[p] \o next,
             \/ \A k \in DOMAIN next : ~Making(next[k])
             \/ ops[p] = <<>> /\ DOMAIN next = {1}
      PROVE  Lone(ops'[p])
  <2>1. ops[p] = << >> => \A i \in DOMAIN ops[p] : ~Making(ops[p][i])
    OBVIOUS
  <2> QED  BY <1>1, <1>3, <1>4, <1>5, <2>1, JoinLone
<1>6. ASSUME NEW next \in Seq(Ops), ops[p] # <<>>, ops'[p] = Tail(ops[p]) \o next,
             \/ \A k \in DOMAIN next : ~Making(next[k])
             \/ Making(ops[p][1]) /\ DOMAIN next = {1}
      PROVE  Lone(ops'[p])
  <2>1. Tail(ops[p]) \in Seq(Ops)
    BY <1>1, <1>6, TailOf
  <2>2. /\ Lone(Tail(ops[p]))
        /\ Making(ops[p][1]) => \A i \in DOMAIN Tail(ops[p]) : ~Making(Tail(ops[p])[i])
    BY <1>1, <1>6, PopLone
  <2> QED  BY <1>3, <1>4, <1>6, <2>1, <2>2, JoinLone
<1> QED  BY <1>1, <1>2, <1>5, <1>6, Chains

\* An offer that is set was the only one in the making.
LEMMA SetsAlone ==
    ASSUME Typed, OneOffer, NEW p \in Peers, SetLocal(p), Making(ops[p][1])
    PROVE  \A op : Waits(p, op)' => ~Making(op)
<1>1. ops[p] \in Seq(Ops) /\ Lone(ops[p]) /\ ops[p] # <<>> /\ Done(p)
  BY DEF SetLocal, At, Typed, OneOffer
<1>2. ops'[p] = Tail(ops[p])
  BY <1>1, DoneType DEF Typed
<1>3. \A i \in DOMAIN Tail(ops[p]) : ~Making(Tail(ops[p])[i])
  BY <1>1, PopLone
<1> QED  BY <1>2, <1>3 DEF Waits

-----------------------------------------------------------------------------
(* What a peer has sent *)

\* p has set x and sent it, and something still knows of it.
Sent(p, x) == x = local[p] \/ x \in gathered[p] \/ x = remote[Other(p)] \/ On(p, x)

\* Nothing is sent that was not.
Silent == \A p \in Peers, x \in Descriptions :
              (On(p, x)' => On(p, x)) /\ (Sent(p, x)' => Sent(p, x))

\* Only the description d of r is.
Sends(r, d) == \A p \in Peers, x \in Descriptions :
                   /\ On(p, x)' => On(p, x) \/ (p = r /\ x = d)
                   /\ Sent(p, x)' => Sent(p, x) \/ (p = r /\ x = d)

LEMMA ThinsOn ==
    ASSUME NEW p \in Peers, Thins(p), NEW x \in Descriptions, On(p, x)'
    PROVE  On(p, x)
<1>1. PICK a \in Places : OnWay(p, a, x)'
  BY DEF On
<1>2. PICK f \in [Places -> Places] :
          \A b \in Places, d \in Descriptions : OnWay(p, b, d)' => OnWay(p, f[b], d)
  BY DEF Thins
<1> QED  BY <1>1, <1>2 DEF On

LEMMA Telling ==
    ASSUME Typed, Remembered, OpenSends, [Next]_vars
    PROVE  \/ Silent /\ UNCHANGED <<sig, local, remote>>
           \/ \E r \in Peers, d \in Descriptions : SetLocal(r) /\ Sets(r, d) /\ Sends(r, d)
           \/ \E r \in Peers, d \in Descriptions : SetRemote(r) /\ Takes(r, d) /\ Silent
<1>0. \A p \in Peers : Other(p) \in Peers /\ Other(Other(p)) = p
  BY DEF Other, Peers
<1>1. ASSUME UNCHANGED <<local, remote, gathered>>,
             \A p \in Peers, x \in Descriptions : On(p, x)' => On(p, x)
      PROVE  Silent
  BY <1>1 DEF Silent, Sent
<1>2. CASE Still /\ Voyages
  <2>1. \A p \in Peers, x \in Descriptions : On(p, x)' => On(p, x)
    <3>1. Holds("host") /\ Holds("guest") =>
              \A p \in Peers, x \in Descriptions : On(p, x)' => On(p, x)
      BY DEF Holds, Peers
    <3>2. Thins("host") /\ Thins("guest") =>
              \A p \in Peers, x \in Descriptions : On(p, x)' => On(p, x)
      BY ThinsOn DEF Peers
    <3> QED  BY <1>2, <3>1, <3>2, SailsThin DEF Voyages
  <2>2. Silent
    BY <1>1, <1>2, <2>1 DEF Still
  <2> QED  BY <1>2, <2>2 DEF Still
<1>3. ASSUME NEW r \in Peers, SetLocal(r), UNCHANGED <<gathered, added>>,
             NEW d \in Descriptions, Sets(r, d)
      PROVE  Sends(r, d)
  <2>1. ASSUME NEW x \in Descriptions, On(r, x)' PROVE On(r, x) \/ x = d
    <3>1. PICK a \in Places : OnWay(r, a, x)'
      BY <2>1 DEF On
    <3> QED  BY <1>3, <3>1 DEF Sets, Gains, On
  <2>2. Thins(Other(r))
    BY <1>0, <1>3, FlowsThin DEF Sets
  <2>3. ASSUME NEW x \in Descriptions, On(Other(r), x)' PROVE On(Other(r), x)
    BY <1>0, <2>2, <2>3, ThinsOn
  <2>4. \A p \in Peers : p = r \/ p = Other(r)
    BY DEF Other, Peers
  <2>5. /\ local'[r] = d /\ local'[Other(r)] = local[Other(r)]
        /\ remote' = remote /\ gathered' = gathered
    BY <1>3 DEF Sets
  <2>6. ASSUME NEW p \in Peers, NEW x \in Descriptions
        PROVE  /\ On(p, x)' => On(p, x) \/ (p = r /\ x = d)
               /\ Sent(p, x)' => Sent(p, x) \/ (p = r /\ x = d)
    <3>1. On(p, x)' => On(p, x) \/ (p = r /\ x = d)
      BY <2>1, <2>3, <2>4
    <3>2. local'[p] = local[p] \/ (p = r /\ local'[p] = d)
      BY <2>4, <2>5
    <3> QED  BY <2>5, <3>1, <3>2 DEF Sent
  <2> QED  BY <2>6 DEF Sends
<1>4. ASSUME NEW r \in Peers, SetRemote(r), UNCHANGED <<gathered, added>>,
             NEW d \in Descriptions, Takes(r, d)
      PROVE  Silent
  <2>1. Thins(r) /\ Thins(Other(r)) /\ OnWay(Other(r), <<1, 1>>, d)
    BY <1>0, <1>4, FlowsThin DEF Takes
  <2>2. \A p \in Peers : p = r \/ p = Other(r)
    BY DEF Other, Peers
  <2>3. \A p \in Peers, x \in Descriptions : On(p, x)' => On(p, x)
    BY <1>0, <2>1, <2>2, ThinsOn
  <2>4. On(Other(r), d)
    <3>1. <<1, 1>> \in Places
      BY DEF Places, Stages
    <3> QED  BY <2>1, <3>1 DEF On
  <2>5. /\ local' = local /\ gathered' = gathered
        /\ \/ remote' = remote
           \/ remote'[r] = d /\ remote'[Other(r)] = remote[Other(r)]
    BY <1>4 DEF Takes
  <2>6. ASSUME NEW p \in Peers, NEW x \in Descriptions, Sent(p, x)' PROVE Sent(p, x)
    <3>1. CASE remote' = remote
      BY <2>3, <2>5, <2>6, <3>1 DEF Sent
    <3>2. CASE remote'[r] = d /\ remote'[Other(r)] = remote[Other(r)]
      <4>1. CASE p = r
        BY <2>3, <2>5, <2>6, <3>2, <4>1 DEF Sent
      <4>2. CASE p = Other(r)
        BY <1>0, <2>3, <2>4, <2>5, <2>6, <3>2, <4>2 DEF Sent
      <4> QED  BY <2>2, <4>1, <4>2
    <3> QED  BY <2>5, <3>1, <3>2
  <2> QED  BY <2>3, <2>6 DEF Silent
<1>5. ASSUME NEW r \in Peers, AddCandidate(r)
      PROVE  Silent /\ UNCHANGED <<sig, local, remote>>
  <2>1. Thins(r) /\ Thins(Other(r)) /\ UNCHANGED <<sig, local, remote, gathered>>
    BY <1>0, <1>5, FlowsThin, AddCandidateFlows DEF AddCandidate
  <2>2. \A p \in Peers : p = r \/ p = Other(r)
    BY DEF Other, Peers
  <2> QED  BY <1>0, <1>1, <2>1, <2>2, ThinsOn
<1>6. ASSUME NEW r \in Peers, Receive(r), Still
      PROVE  Silent /\ UNCHANGED <<sig, local, remote>>
  <2>1. Thins(r) /\ Thins(Other(r)) /\ UNCHANGED <<sig, local, remote, gathered>>
    BY <1>0, <1>6, FlowsThin, ReceiveFlows DEF Still
  <2>2. \A p \in Peers : p = r \/ p = Other(r)
    BY DEF Other, Peers
  <2> QED  BY <1>0, <1>1, <2>1, <2>2, ThinsOn
<1>7. ASSUME NEW r \in Peers, Gather(r)
      PROVE  Silent /\ UNCHANGED <<sig, local, remote>>
  <2>1. /\ UNCHANGED <<sig, local, remote>>
        /\ gathered' = [gathered EXCEPT ![r] = @ \cup {local[r]}]
    BY <1>7 DEF Gather
  <2>2. \A p \in Peers, x \in Descriptions : On(p, x)' => On(p, x)
    <3>1. Thins("host") /\ Thins("guest")
      BY <1>7, GatherDrifts DEF Drifts
    <3> QED  BY <3>1, ThinsOn DEF Peers
  <2>3. ASSUME NEW p \in Peers, NEW x \in Descriptions, x \in gathered'[p]
        PROVE  x \in gathered[p] \/ x = local[p]
    BY <2>1, <2>3 DEF Typed
  <2>4. ASSUME NEW p \in Peers, NEW x \in Descriptions, Sent(p, x)' PROVE Sent(p, x)
    BY <2>1, <2>2, <2>3, <2>4 DEF Sent
  <2> QED  BY <2>1, <2>2, <2>4 DEF Silent
<1> QED  BY <1>2, <1>3, <1>4, <1>5, <1>6, <1>7, Courses

\* Only an offer is answered.
OffersAnswered == \A p \in Peers : Answering(p) => remote[p].type = "offer"

LEMMA OffersAnsweredStep ==
    ASSUME Typed, Remembered, OpenSends, OffersAnswered, [Next]_vars
    PROVE  OffersAnswered'
<1>1. CASE UNCHANGED <<sig, local, remote>>
  BY <1>1 DEF OffersAnswered, Answering
<1>2. ASSUME NEW r \in Peers, NEW d \in Descriptions, Sets(r, d) PROVE OffersAnswered'
  <2>1. ~Answering(r)' /\ sig'[Other(r)] = sig[Other(r)] /\ remote' = remote
    BY <1>2 DEF Sets, Stable, Offering, Answering
  <2>2. \A p \in Peers : p = r \/ p = Other(r)
    BY DEF Other, Peers
  <2> QED  BY <2>1, <2>2 DEF OffersAnswered, Answering
<1>3. ASSUME NEW r \in Peers, NEW d \in Descriptions, Takes(r, d) PROVE OffersAnswered'
  <2>1. CASE UNCHANGED <<sig, remote>>
    BY <2>1 DEF OffersAnswered, Answering
  <2>2. CASE ~UNCHANGED <<sig, remote>>
    <3>1. /\ Answering(r)' => remote'[r].type = "offer"
          /\ sig'[Other(r)] = sig[Other(r)] /\ remote'[Other(r)] = remote[Other(r)]
      BY <1>3, <2>2 DEF Takes, Stable, Answering
    <3>2. \A p \in Peers : p = r \/ p = Other(r)
      BY DEF Other, Peers
    <3> QED  BY <3>1, <3>2 DEF OffersAnswered, Answering
  <2> QED  BY <2>1, <2>2
<1> QED  BY <1>1, <1>2, <1>3, Telling

\* While the order of signals is kept, a description that is to be set is new:
\* offers are numbered as they are made, and an offer is answered once.
Numbered ==
    \A p \in Peers, x \in Descriptions : Sent(p, x) =>
        /\ x.by = p
        /\ x.type = "offer" => x.n <= made[p]
        /\ x.type = "answer" => x.n <= made[Other(p)]

NewOffers ==
    \A p \in Peers, d \in Descriptions :
        Waits(p, [op |-> "setLocal", d |-> d]) /\ d.type = "offer" =>
            /\ d = Offer(p, made[p])
            /\ ~Sent(p, d) /\ ~Sent(Other(p), AnswerTo(Other(p), d))

NotAnswered ==
    \A p \in Peers, o \in Descriptions :
        o.type = "offer" =>
            (On(p, o) \/ (Answering(Other(p)) /\ remote[Other(p)] = o) =>
                 ~Sent(Other(p), AnswerTo(Other(p), o)))

Fresh == Numbered /\ NewOffers /\ NotAnswered

LEMMA DescriptionsAre ==
    /\ \A p \in Peers, n \in Nat : Offer(p, n) \in Descriptions
    /\ \A p \in Peers, d \in Descriptions :
           AnswerTo(p, d) \in Descriptions /\ AnswerTo(p, d).type = "answer"
           /\ AnswerTo(p, d).by = p /\ AnswerTo(p, d).n = d.n
    /\ \A p, n : Offer(p, n).type = "offer" /\ Offer(p, n).by = p /\ Offer(p, n).n = n
    /\ \A d \in Descriptions : d.by \in Peers /\ d.n \in Nat /\ d.type \in {"offer", "answer"}
           /\ (d.type = "offer" => d = Offer(d.by, d.n))
BY DEF Offer, AnswerTo, Descriptions

\* The answer p sets is to the offer o: no other would have it.
LEMMA AnswersThis ==
    ASSUME Typed, Remembered, OffersAnswered, Numbered, NEW p \in Peers, Answering(p),
           NEW o \in Descriptions, o.type = "offer", o.by = Other(p),
           AnswerTo(p, o) = AnswerTo(p, remote[p])
    PROVE  remote[p] = o
<1>1. /\ remote[p] \in Descriptions /\ remote[p].type = "offer" /\ Other(p) \in Peers
      /\ Other(Other(p)) = p
  BY DEF Remembered, OffersAnswered, Answering, Other, Peers
<1>2. Sent(Other(p), remote[p])
  BY <1>1 DEF Sent
<1>3. remote[p].by = Other(p)
  BY <1>1, <1>2 DEF Numbered
<1>4. remote[p].n = o.n
  <2>1. AnswerTo(p, o).n = AnswerTo(p, remote[p]).n
    OBVIOUS
  <2> QED  BY <1>1, <2>1, DescriptionsAre
<1> QED  BY <1>1, <1>3, <1>4, DescriptionsAre

LEMMA MadeGrows ==
    ASSUME Typed, [Next]_vars
    PROVE  \A p \in Peers :
               /\ made[p] \in Nat /\ made'[p] \in Nat /\ made[p] <= made'[p]
               /\ CreateOffer(p) => made'[p] = made[p] + 1
               /\ ~CreateOffer(p) => made'[p] = made[p]
<1>1. made' = made \/ \E q \in Peers : CreateOffer(q)
  BY DEF Next, Step, RunChain, NegotiationNeeded, SetLocal, SetRemote, CreateAnswer,
     AddCandidate, Flush, Receive, Gather, RestartIce, Connect, Attach, FinishAttach,
     FlushKept, Forward, ForwardEarly, Drop, RestartBroker, vars
<1>2. \A q \in Peers : CreateOffer(q) => made' = [made EXCEPT ![q] = @ + 1]
  BY DEF CreateOffer
<1>3. ASSUME NEW p \in Peers
      PROVE  /\ made[p] \in Nat /\ made'[p] \in Nat /\ made[p] <= made'[p]
             /\ CreateOffer(p) => made'[p] = made[p] + 1
             /\ ~CreateOffer(p) => made'[p] = made[p]
  <2>1. made \in [Peers -> Nat] /\ made[p] \in Nat
    BY DEF Typed
  <2>2. CASE CreateOffer(p)
    <3>1. made'[p] = made[p] + 1
      BY <1>2, <2>1, <2>2
    <3> QED  BY <2>1, <2>2, <3>1
  <2>3. CASE ~CreateOffer(p)
    <3>1. made'[p] = made[p]
      BY <1>1, <1>2, <2>1, <2>3
    <3> QED  BY <2>1, <2>3, <3>1
  <2> QED  BY <2>2, <2>3
<1> QED  BY <1>3

LEMMA NumberedStep ==
    ASSUME Typed, Remembered, OpenSends, OffersAnswered, Fresh, [Next]_vars
    PROVE  Numbered'
<1> SUFFICES ASSUME NEW p \in Peers, NEW x \in Descriptions, Sent(p, x)'
             PROVE  /\ x.by = p
                    /\ x.type = "offer" => x.n <= made'[p]
                    /\ x.type = "answer" => x.n <= made'[Other(p)]
  BY DEF Numbered
<1>0. Other(p) \in Peers /\ Other(Other(p)) = p
  BY DEF Other, Peers
<1>1. /\ made[p] \in Nat /\ made'[p] \in Nat /\ made[p] <= made'[p]
      /\ made[Other(p)] \in Nat /\ made'[Other(p)] \in Nat
      /\ made[Other(p)] <= made'[Other(p)] /\ x.n \in Nat
  BY <1>0, MadeGrows, DescriptionsAre
<1>2. CASE Sent(p, x)
  <2>1. /\ x.by = p
        /\ x.type = "offer" => x.n <= made[p]
        /\ x.type = "answer" => x.n <= made[Other(p)]
    BY <1>2 DEF Fresh, Numbered
  <2> QED  BY <1>1, <2>1
<1>3. CASE Sets(p, x)
  <2>1. CASE x.type = "offer"
    <3>1. Waits(p, [op |-> "setLocal", d |-> x])
      <4>1. ops[p] # <<>> /\ ops[p][1] = [op |-> "setLocal", d |-> x]
        BY <1>3 DEF Sets
      <4>2. ops[p] \in Seq(Ops)
        BY DEF Typed
      <4> QED  BY <4>1, <4>2, TailOf DEF Waits
    <3>2. x = Offer(p, made[p])
      BY <2>1, <3>1 DEF Fresh, NewOffers
    <3> QED  BY <1>1, <2>1, <3>2, DescriptionsAre
  <2>2. CASE x.type # "offer"
    <3>1. Answering(p) /\ x = AnswerTo(p, remote[p])
      BY <1>3, <2>2 DEF Sets
    <3>2. remote[p] \in Descriptions /\ remote[p].type = "offer"
      BY <3>1 DEF Remembered, OffersAnswered, Answering
    <3>3. Sent(Other(p), remote[p])
      BY <1>0 DEF Sent
    <3>4. remote[p].n <= made[Other(p)]
      BY <1>0, <3>2, <3>3 DEF Fresh, Numbered
    <3>5. x.by = p /\ x.n = remote[p].n
      BY <3>1, <3>2, DescriptionsAre
    <3> QED  BY <1>1, <2>2, <3>4, <3>5
  <2> QED  BY <2>1, <2>2
<1> QED  BY <1>2, <1>3, Telling DEF Silent, Sends

LEMMA NewOffersStep ==
    ASSUME Typed, Remembered, OpenSends, OneOffer, OffersAnswered, Fresh, [Next]_vars
    PROVE  NewOffers'
<1> SUFFICES ASSUME NEW p \in Peers, NEW d \in Descriptions, d.type = "offer",
                    Waits(p, [op |-> "setLocal", d |-> d])'
             PROVE  /\ d = Offer(p, made'[p])
                    /\ ~Sent(p, d)' /\ ~Sent(Other(p), AnswerTo(Other(p), d))'
  BY DEF NewOffers, Offer
<1> DEFINE q == Other(p)
           op == [op |-> "setLocal", d |-> d]
           a == AnswerTo(q, d)
<1>0. /\ q \in Peers /\ q # p /\ Other(q) = p
      /\ op.op = "setLocal" /\ op.d = d /\ Making(op)
      /\ a \in Descriptions /\ a.type = "answer" /\ a.n = d.n
      /\ d.n \in Nat
  <2>1. q \in Peers /\ q # p /\ Other(q) = p
    BY DEF Other, Peers
  <2> QED  BY <2>1, DescriptionsAre DEF Making
<1>1. Waits(p, op)'
  OBVIOUS
<1> HIDE DEF q, op
<1>2. /\ made[p] \in Nat
      /\ CreateOffer(p) => made'[p] = made[p] + 1
      /\ ~CreateOffer(p) => made'[p] = made[p]
  BY MadeGrows
<1>3. CASE Waits(p, op)
  <2>1. d = Offer(p, made[p]) /\ ~Sent(p, d) /\ ~Sent(q, a) /\ d.by = p
    BY <1>3, DescriptionsAre DEF Fresh, NewOffers, op, q
  <2>2. ~CreateOffer(p)
    <3>1. ASSUME CreateOffer(p) PROVE FALSE
      <4>1. ops[p] # <<>> /\ ops[p] \in Seq(Ops) /\ Head(ops[p]).op = "createOffer"
        BY <3>1 DEF CreateOffer, At, Typed
      <4>2. 1 \in DOMAIN ops[p] /\ ops[p][1].op = "createOffer"
        BY <4>1, TailOf
      <4>3. PICK i \in DOMAIN ops[p] : ops[p][i] = op
        BY <1>3 DEF Waits
      <4>4. Making(ops[p][1]) /\ Making(ops[p][i])
        BY <1>0, <4>2, <4>3 DEF Making
      <4>5. i = 1
        BY <4>2, <4>4 DEF OneOffer, Lone
      <4> QED  BY <1>0, <4>2, <4>3, <4>5
    <3> QED  BY <3>1
  <2>3. ASSUME NEW r \in Peers, NEW x \in Descriptions, SetLocal(r), Sets(r, x)
        PROVE  ~(p = r /\ d = x) /\ ~(q = r /\ a = x)
    <3>1. ASSUME p = r, d = x PROVE FALSE
      <4>1. Making(ops[p][1])
        BY <1>0, <2>3, <3>1 DEF Sets, op
      <4>2. ~Making(op)
        BY <1>1, <2>3, <3>1, <4>1, SetsAlone
      <4> QED  BY <1>0, <4>2
    <3>2. ASSUME q = r, a = x PROVE FALSE
      <4>1. Answering(q) /\ a = AnswerTo(q, remote[q])
        BY <1>0, <2>3, <3>2 DEF Sets
      <4>2. remote[q] = d
        BY <1>0, <2>1, <4>1, AnswersThis DEF Fresh
      <4> QED  BY <1>0, <2>1, <4>2 DEF Sent, q
    <3> QED  BY <3>1, <3>2
  <2>4. ~Sent(p, d)' /\ ~Sent(q, a)'
    BY <1>0, <2>1, <2>3, Telling DEF Silent, Sends
  <2> QED  BY <1>2, <2>1, <2>2, <2>4 DEF q
<1>4. CASE CreateOffer(p) /\ op = [op |-> "setLocal", d |-> Offer(p, made[p] + 1)]
  <2>1. d = Offer(p, made[p] + 1)
    BY <1>0, <1>4
  <2>2. d.n = made[p] + 1
    BY <2>1, DescriptionsAre
  <2>3. ~Sent(p, d)
    BY <1>2, <2>2 DEF Fresh, Numbered
  <2>4. ~Sent(q, a)
    BY <1>0, <1>2, <2>2 DEF Fresh, Numbered
  <2>5. \A r \in Peers : ~SetLocal(r)
    <3>1. \A r \in Peers : SetLocal(r) => made' = made
      BY DEF SetLocal
    <3> QED  BY <1>2, <1>4, <3>1
  <2>6. ~Sent(p, d)' /\ ~Sent(q, a)'
    BY <1>0, <2>3, <2>4, <2>5, Telling DEF Silent
  <2> QED  BY <1>2, <1>4, <2>1, <2>6 DEF q
<1>5. CASE Joins(p, op)
  <2>1. ASSUME op = [op |-> "setLocal", d |-> AnswerTo(p, remote[p])], Answering(p)
        PROVE  FALSE
    <3>1. d = AnswerTo(p, remote[p]) /\ remote[p] \in Descriptions
      BY <1>0, <2>1 DEF Remembered, Answering
    <3> QED  BY <3>1, DescriptionsAre
  <2> QED  BY <1>0, <1>4, <1>5, <2>1 DEF Joins
<1> QED  BY <1>1, <1>3, <1>5, WaitsFrom

LEMMA AnsweringEmpty ==
    ASSUME Exchange, NEW p \in Peers, Answering(p)
    PROVE  \A x \in Descriptions : ~On(Other(p), x)
BY DEF Exchange, GuestAnswering, HostAnswering, Empty, On, Other, Peers

LEMMA NotAnsweredStep ==
    ASSUME Typed, Remembered, OpenSends, OffersAnswered, Fresh, Exchange, [Next]_vars
    PROVE  NotAnswered'
<1> SUFFICES ASSUME NEW p \in Peers, NEW o \in Descriptions, o.type = "offer",
                    On(p, o)' \/ (Answering(Other(p))' /\ remote'[Other(p)] = o)
             PROVE  ~Sent(Other(p), AnswerTo(Other(p), o))'
  BY DEF NotAnswered
<1> DEFINE q == Other(p)
           a == AnswerTo(q, o)
<1>0. /\ q \in Peers /\ q # p /\ Other(q) = p
      /\ a \in Descriptions /\ a.type = "answer"
  <2>1. q \in Peers /\ q # p /\ Other(q) = p
    BY DEF Other, Peers
  <2> QED  BY <2>1, DescriptionsAre
<1>1. On(p, o)' \/ (Answering(q)' /\ remote'[q] = o)
  OBVIOUS
<1>2. On(p, o) \/ (Answering(q) /\ remote[q] = o) => ~Sent(q, a)
  BY DEF Fresh, NotAnswered
<1> HIDE DEF q, a
<1>3. CASE Silent /\ UNCHANGED <<sig, local, remote>>
  BY <1>0, <1>1, <1>2, <1>3 DEF Silent, Answering, q, a
<1>4. ASSUME NEW r \in Peers, NEW d \in Descriptions, SetLocal(r), Sets(r, d), Sends(r, d)
      PROVE  ~Sent(q, a)'
  <2>1. CASE r = p
    <3>1. Sent(q, a)' => Sent(q, a)
      BY <1>0, <1>4, <2>1 DEF Sends
    <3>2. On(p, o)' => On(p, o) \/ o = d
      BY <1>4 DEF Sends
    <3>3. sig'[q] = sig[q] /\ remote' = remote
      BY <1>4, <2>1 DEF Sets, q
    <3>4. Answering(q)' => Answering(q)
      BY <3>3 DEF Answering
    <3>5. o = d => ~Sent(q, a)
      <4>1. ASSUME o = d PROVE ~Sent(q, a)
        <5>1. ops[p] # <<>> /\ ops[p][1] = [op |-> "setLocal", d |-> o]
          BY <1>4, <2>1, <4>1 DEF Sets
        <5>2. ops[p] \in Seq(Ops)
          BY DEF Typed
        <5>3. Waits(p, [op |-> "setLocal", d |-> o])
          BY <5>1, <5>2, TailOf DEF Waits
        <5> QED  BY <5>3 DEF Fresh, NewOffers, q, a
      <4> QED  BY <4>1
    <3> QED  BY <1>1, <1>2, <3>1, <3>2, <3>3, <3>4, <3>5
  <2>2. CASE r = q
    <3>1. Sent(q, a)' => Sent(q, a) \/ a = d
      BY <1>0, <1>4 DEF Sends
    <3>2. On(p, o)' => On(p, o)
      BY <1>0, <1>4, <2>2 DEF Sends
    <3>3. ~Answering(q)'
      BY <1>4, <2>2 DEF Sets, Stable, Offering, Answering
    <3>4. a = d => ~On(p, o)
      <4>1. a = d => Answering(q)
        BY <1>0, <1>4, <2>2 DEF Sets
      <4> QED  BY <1>0, <4>1, AnsweringEmpty
    <3> QED  BY <1>1, <1>2, <3>1, <3>2, <3>3, <3>4
  <2> QED  BY <2>1, <2>2 DEF q, Other, Peers
<1>5. ASSUME NEW r \in Peers, NEW d \in Descriptions, Takes(r, d), Silent
      PROVE  ~Sent(q, a)'
  <2>1. (Sent(q, a)' => Sent(q, a)) /\ (On(p, o)' => On(p, o))
    BY <1>0, <1>5 DEF Silent
  <2>2. CASE sig'[q] = sig[q] /\ remote'[q] = remote[q]
    BY <1>1, <1>2, <2>1, <2>2 DEF Answering
  <2>3. CASE r = q /\ remote'[q] = d
    <3>1. OnWay(p, <<1, 1>>, d) /\ <<1, 1>> \in Places
      BY <1>0, <1>5, <2>3 DEF Takes, Places, Stages
    <3>2. On(p, d)
      BY <3>1 DEF On
    <3> QED  BY <1>1, <1>2, <2>1, <2>3, <3>2
  <2>4. r = q \/ q = Other(r)
    BY <1>0 DEF Other, Peers
  <2> QED  BY <1>5, <2>2, <2>3, <2>4 DEF Takes
<1> QED  BY <1>3, <1>4, <1>5, Telling DEF q, a

LEMMA FreshStep ==
    ASSUME Typed, Remembered, OpenSends, OneOffer, OffersAnswered, Fresh, Exchange,
           [Next]_vars
    PROVE  Fresh'
BY NumberedStep, NewOffersStep, NotAnsweredStep DEF Fresh

\* What is set is new.
LEMMA SetsNew ==
    ASSUME Typed, Remembered, OffersAnswered, Fresh, NEW p \in Peers,
           NEW d \in Descriptions, Sets(p, d)
    PROVE  ~Sent(p, d)
<1>1. CASE d.type = "offer"
  <2>1. ops[p] # <<>> /\ ops[p][1] = [op |-> "setLocal", d |-> d] /\ ops[p] \in Seq(Ops)
    BY DEF Sets, Typed
  <2>2. Waits(p, [op |-> "setLocal", d |-> d])
    BY <2>1, TailOf DEF Waits
  <2> QED  BY <1>1, <2>2 DEF Fresh, NewOffers
<1>2. CASE d.type # "offer"
  <2>1. Answering(p) /\ d = AnswerTo(p, remote[p])
    BY <1>2 DEF Sets
  <2>2. /\ remote[p] \in Descriptions /\ remote[p].type = "offer"
        /\ Other(p) \in Peers /\ Other(Other(p)) = p
    BY <2>1 DEF Remembered, OffersAnswered, Answering, Other, Peers
  <2> QED  BY <2>1, <2>2 DEF Fresh, NotAnswered
<1> QED  BY <1>1, <1>2

-----------------------------------------------------------------------------
(* The candidate behind its description *)

\* The candidate of x comes behind x, and is added once x is set.
Follows(p, x) ==
    /\ remote[Other(p)] = x =>
           CandidateOf(x) \in added[Other(p)] \/ On(p, CandidateOf(x))
    /\ \A a \in Places : OnWay(p, a, x) =>
           \E b \in Places : OnWay(p, b, CandidateOf(x)) /\ Before(a, b)

Behind == \A p \in Peers, x \in Descriptions :
              local[p] = x /\ x \in gathered[p] => Follows(p, x)

LEMMA CandidatesAre ==
    /\ \A x \in Descriptions : /\ CandidateOf(x) \in Candidates
                               /\ CandidateOf(x) \in Signals /\ x \in Signals
                               /\ CandidateOf(x) # x
                               /\ CandidateOf(x).of = x
    /\ \A c \in Candidates, x \in Descriptions :
           c \in Signals /\ x \in Signals /\ c # x /\ c.of \in Descriptions
           /\ c = CandidateOf(c.of)
BY DEF CandidateOf, Candidates, Descriptions, Signals

LEMMA OnWayIs ==
    ASSUME NEW p \in Peers, NEW a \in Places, NEW x, OnWay(p, a, x)
    PROVE  On(p, x)
BY DEF On

LEMMA FlowsOn ==
    ASSUME NEW p \in Peers, NEW h, Flows(p, h), NEW a \in Places, a # h,
           NEW x \in Signals, OnWay(p, a, x)
    PROVE  On(p, x)'
<1>1. PICK g \in [Places -> Places] :
          \A b \in Places, y \in Signals : b # h /\ OnWay(p, b, y) => OnWay(p, g[b], y)'
  BY DEF Flows
<1> QED  BY <1>1 DEF On

LEMMA FlowsFollow ==
    ASSUME NEW p \in Peers, NEW x \in Descriptions, Follows(p, x), NEW h, Flows(p, h),
           added[Other(p)] \subseteq added'[Other(p)],
           \A c \in Candidates : h \in Places /\ OnWay(p, h, c) =>
               h = <<1, 1>> /\ (remote'[Other(p)] = c.of => c \in added'[Other(p)]),
           \/ remote'[Other(p)] = remote[Other(p)]
           \/ \E d \in Descriptions : remote'[Other(p)] = d /\ OnWay(p, h, d) /\ h \in Places
    PROVE  Follows(p, x)'
<1> DEFINE c == CandidateOf(x)
           q == Other(p)
<1>0. c \in Candidates /\ c \in Signals /\ x \in Signals /\ c.of = x
  BY CandidatesAre
<1> HIDE DEF c, q
<1>1. PICK g \in [Places -> Places] :
        /\ \A a \in Places, y \in Signals :
               a # h /\ OnWay(p, a, y) => OnWay(p, g[a], y)'
        /\ \A a, b \in Places, y, z \in Signals :
               a # h /\ b # h /\ OnWay(p, a, y) /\ OnWay(p, b, z) /\ Before(a, b) =>
                   Before(g[a], g[b])
        /\ \A a \in Places, d \in Descriptions : OnWay(p, a, d)' =>
               \E b \in Places : b # h /\ OnWay(p, b, d) /\ g[b] = a
  BY DEF Flows
<1>2. \A a \in Places : g[a] \in Places
  OBVIOUS
<1>3. ASSUME NEW a \in Places, NEW b \in Places, OnWay(p, b, c), Before(a, b)
      PROVE  b # h
  <2>1. h \in Places /\ OnWay(p, h, c) => h = <<1, 1>>
    BY <1>0
  <2>2. ~Before(a, <<1, 1>>)
    BY BeforeOrders
  <2> QED  BY <1>3, <2>1, <2>2
<1>4. ASSUME NEW a \in Places, OnWay(p, a, x)'
      PROVE  \E b \in Places : OnWay(p, b, c)' /\ Before(a, b)
  <2>1. PICK k \in Places : k # h /\ OnWay(p, k, x) /\ g[k] = a
    BY <1>1, <1>4
  <2>2. PICK b \in Places : OnWay(p, b, c) /\ Before(k, b)
    BY <2>1 DEF Follows, c
  <2>3. b # h
    BY <1>3, <2>2
  <2>4. OnWay(p, g[b], c)' /\ Before(g[k], g[b])
    BY <1>0, <1>1, <2>1, <2>2, <2>3
  <2> QED  BY <1>2, <2>1, <2>4
<1>5. ASSUME remote'[q] = x PROVE c \in added'[q] \/ On(p, c)'
  <2>1. CASE remote[q] = x
    <3>1. CASE c \in added[q]
      BY <3>1 DEF q
    <3>2. CASE On(p, c)
      <4>1. PICK a \in Places : OnWay(p, a, c)
        BY <3>2 DEF On
      <4>2. CASE a = h
        BY <1>0, <1>5, <4>1, <4>2 DEF q
      <4>3. CASE a # h
        BY <1>0, <4>1, <4>3, FlowsOn
      <4> QED  BY <4>2, <4>3
    <3> QED  BY <2>1, <3>1, <3>2 DEF Follows, q, c
  <2>2. CASE remote[q] # x
    <3>1. OnWay(p, h, x) /\ h \in Places
      BY <1>5, <2>2 DEF q
    <3>2. PICK b \in Places : OnWay(p, b, c) /\ Before(h, b)
      BY <3>1 DEF Follows, c
    <3>3. b # h
      BY <1>3, <3>1, <3>2
    <3> QED  BY <1>0, <3>2, <3>3, FlowsOn
  <2> QED  BY <2>1, <2>2
<1>6. c' = c
  BY DEF c
<1>7. \A b \in Places : OnWay(p, b, CandidateOf(x))' <=> OnWay(p, b, c)'
  BY DEF c
<1>8. On(p, CandidateOf(x))' <=> On(p, c)'
  BY DEF c
<1> QED  BY <1>4, <1>5, <1>7, <1>8 DEF Follows, c, q

LEMMA KeepsFollow ==
    ASSUME NEW p \in Peers, NEW x \in Descriptions, Follows(p, x), Flows(p, Nowhere),
           added[Other(p)] \subseteq added'[Other(p)], remote'[Other(p)] = remote[Other(p)]
    PROVE  Follows(p, x)'
<1>1. Nowhere \notin Places
  BY BeforeOrders
<1> QED  BY <1>1, FlowsFollow

LEMMA BehindStep ==
    ASSUME Typed, Remembered, OpenSends, OffersAnswered, Fresh, Behind, [Next]_vars,
           ~lost', ~overtaken'
    PROVE  Behind'
<1>0. \A p \in Peers : Other(p) \in Peers /\ Other(Other(p)) = p /\ Other(p) # p
  BY DEF Other, Peers
<1>1. ASSUME Sails, Still PROVE Behind'
  <2>1. ASSUME NEW p \in Peers, NEW x \in Descriptions, local'[p] = x, x \in gathered'[p]
        PROVE  Follows(p, x)'
    <3>1. /\ Follows(p, x) /\ added[Other(p)] \subseteq added'[Other(p)]
          /\ remote'[Other(p)] = remote[Other(p)]
      BY <1>0, <1>1, <2>1 DEF Behind, Still
    <3>2. Flows(p, Nowhere)
      BY <1>1 DEF Sails, Peers
    <3> QED  BY <3>1, <3>2, KeepsFollow
  <2> QED  BY <2>1 DEF Behind
<1>2. ASSUME NEW r \in Peers, UNCHANGED <<gathered, added>>, NEW d \in Descriptions,
             Sets(r, d)
      PROVE  Behind'
  <2>1. ASSUME NEW p \in Peers, NEW x \in Descriptions, local'[p] = x, x \in gathered'[p]
        PROVE  Follows(p, x)'
    <3>1. p # r
      <4>1. p = r => x = d
        BY <1>2, <2>1 DEF Sets
      <4>2. ~Sent(r, d)
        BY <1>2, SetsNew
      <4> QED  BY <1>2, <2>1, <4>1, <4>2 DEF Sent
    <3>2. p = Other(r)
      BY <3>1 DEF Other, Peers
    <3>3. /\ local'[p] = local[p] /\ remote' = remote /\ Flows(p, Nowhere)
      BY <1>2, <3>2 DEF Sets
    <3>4. Follows(p, x)
      BY <1>2, <2>1, <3>3 DEF Behind
    <3> QED  BY <1>2, <3>3, <3>4, KeepsFollow
  <2> QED  BY <2>1 DEF Behind
<1>3. ASSUME NEW r \in Peers, UNCHANGED <<gathered, added>>, NEW d \in Descriptions,
             Takes(r, d)
      PROVE  Behind'
  <2>1. ASSUME NEW p \in Peers, NEW x \in Descriptions, local'[p] = x, x \in gathered'[p]
        PROVE  Follows(p, x)'
    <3>1. Follows(p, x)
      BY <1>3, <2>1 DEF Behind, Takes
    <3>2. CASE p = r
      <4>1. remote'[Other(p)] = remote[Other(p)] /\ Flows(p, Nowhere)
        BY <1>3, <3>2 DEF Takes
      <4> QED  BY <1>3, <3>1, <4>1, KeepsFollow
    <3>3. CASE p = Other(r)
      <4> DEFINE h == <<1, 1>>
      <4>1. /\ Other(p) = r /\ OnWay(p, h, d) /\ Flows(p, h)
            /\ remote'[r] = remote[r] \/ remote'[r] = d
        BY <1>0, <1>3, <3>3 DEF Takes
      <4>2. h \in Places /\ h[1] = 1
        BY DEF Places, Stages
      <4> HIDE DEF h
      <4>3. \A c \in Candidates : ~OnWay(p, h, c)
        <5>1. ASSUME NEW c \in Candidates, OnWay(p, h, c) PROVE FALSE
          <6>1. Said(1, c) = Said(1, d)
            BY <4>1, <4>2, <5>1 DEF OnWay, Lies
          <6>2. Said(1, c).op = "add" /\ Said(1, d).op = "setRemote"
            BY SaidIs
          <6> QED  BY <6>1, <6>2
        <5> QED  BY <5>1
      <4> QED  BY <1>3, <3>1, <4>1, <4>2, <4>3, FlowsFollow
    <3> QED  BY <3>2, <3>3 DEF Other, Peers
  <2> QED  BY <2>1 DEF Behind
<1>4. ASSUME NEW r \in Peers, AddCandidate(r) PROVE Behind'
  <2> DEFINE c0 == Head(ops[r]).c
  <2>1. /\ c0 \in Candidates /\ OnWay(Other(r), <<1, 1>>, c0)
        /\ Flows(Other(r), <<1, 1>>) /\ Flows(r, Nowhere)
    BY <1>4, AddCandidateFlows
  <2>2. /\ UNCHANGED <<local, remote, gathered>>
        /\ added' = IF c0.of = remote[r] THEN [added EXCEPT ![r] = @ \cup {c0}] ELSE added
    BY <1>4 DEF AddCandidate
  <2> HIDE DEF c0
  <2>3. /\ \A q \in Peers : added[q] \subseteq added'[q]
        /\ c0.of = remote[r] => c0 \in added'[r]
    BY <2>2 DEF Typed
  <2>4. ASSUME NEW p \in Peers, NEW x \in Descriptions, local'[p] = x, x \in gathered'[p]
        PROVE  Follows(p, x)'
    <3>1. /\ Follows(p, x) /\ added[Other(p)] \subseteq added'[Other(p)]
          /\ remote'[Other(p)] = remote[Other(p)]
      BY <1>0, <2>2, <2>3, <2>4 DEF Behind
    <3>2. CASE p = r
      BY <2>1, <3>1, <3>2, KeepsFollow
    <3>3. CASE p = Other(r)
      <4> DEFINE h == <<1, 1>>
      <4>1. OnWay(p, h, c0) /\ Flows(p, h) /\ Other(p) = r
        BY <1>0, <2>1, <3>3
      <4>2. h[1] = 1 /\ h = <<1, 1>>
        OBVIOUS
      <4> HIDE DEF h
      <4>3. \A c \in Candidates : OnWay(p, h, c) => c = c0
        <5>1. ASSUME NEW c \in Candidates, OnWay(p, h, c) PROVE c = c0
          <6>1. Said(1, c) = Said(1, c0)
            BY <4>1, <4>2, <5>1 DEF OnWay, Lies
          <6>2. Said(1, c).c = c /\ Said(1, c0).c = c0
            BY <2>1, SaidIs
          <6> QED  BY <6>1, <6>2
        <5> QED  BY <5>1
      <4>4. \A c \in Candidates : h \in Places /\ OnWay(p, h, c) =>
                h = <<1, 1>> /\ (remote'[Other(p)] = c.of => c \in added'[Other(p)])
        BY <2>2, <2>3, <4>1, <4>2, <4>3
      <4> QED  BY <3>1, <4>1, <4>4, FlowsFollow
    <3> QED  BY <3>2, <3>3 DEF Other, Peers
  <2> QED  BY <2>4 DEF Behind
<1>5. ASSUME NEW r \in Peers, Receive(r), Still PROVE Behind'
  <2>1. ASSUME NEW p \in Peers, NEW x \in Descriptions, local'[p] = x, x \in gathered'[p]
        PROVE  Follows(p, x)'
    <3>1. /\ Follows(p, x) /\ added[Other(p)] \subseteq added'[Other(p)]
          /\ remote'[Other(p)] = remote[Other(p)]
      BY <1>0, <1>5, <2>1 DEF Behind, Still
    <3>2. CASE Flows(p, Nowhere)
      BY <3>1, <3>2, KeepsFollow
    <3>3. CASE /\ p = Other(r) /\ Flows(p, <<2, 1>>)
               /\ \E d \in Descriptions : OnWay(p, <<2, 1>>, d)
      <4> DEFINE h == <<2, 1>>
      <4>1. Flows(p, h) /\ \E d \in Descriptions : OnWay(p, h, d)
        BY <3>3
      <4>2. h[1] = 2
        OBVIOUS
      <4> HIDE DEF h
      <4>3. \A c \in Candidates : ~OnWay(p, h, c)
        <5>1. ASSUME NEW c \in Candidates, OnWay(p, h, c) PROVE FALSE
          <6>1. PICK d \in Descriptions : Said(2, c) = Said(2, d)
            BY <4>1, <4>2, <5>1 DEF OnWay, Lies
          <6> QED  BY <6>1, SaidIs, CandidatesAre
        <5> QED  BY <5>1
      <4> QED  BY <3>1, <4>1, <4>3, FlowsFollow
    <3>4. p = r \/ p = Other(r)
      BY DEF Other, Peers
    <3> QED  BY <1>5, <3>2, <3>3, <3>4, ReceiveFlows
  <2> QED  BY <2>1 DEF Behind
<1>6. ASSUME NEW r \in Peers, Gather(r) PROVE Behind'
  <2>1. /\ UNCHANGED <<local, remote, added>> /\ local[r] # None
        /\ gathered' = [gathered EXCEPT ![r] = @ \cup {local[r]}]
    BY <1>6 DEF Gather
  <2>2. ASSUME NEW p \in Peers, NEW x \in Descriptions, local'[p] = x, x \in gathered'[p]
        PROVE  Follows(p, x)'
    <3>1. CASE p = r
      <4> DEFINE c == CandidateOf(x)
      <4>1. c \in Candidates /\ c \in Signals /\ x \in Signals /\ c # x /\ local[r] = x
        BY <2>1, <2>2, <3>1, CandidatesAre
      <4>2. PICK z \in Places :
              /\ OnWay(p, z, CandidateOf(local[r]))'
              /\ \A a \in Places, y \in Signals :
                    OnWay(p, a, y)' => \/ OnWay(p, a, y) /\ Before(a, z)
                                       \/ a = z /\ y = CandidateOf(local[r])
        BY <1>6, <3>1, GatherSends
      <4>3. OnWay(p, z, CandidateOf(x))'
        <5>1. CandidateOf(local[r])' = CandidateOf(x)
          BY <2>1, <4>1
        <5> QED  BY <4>2, <5>1 DEF OnWay, Lies, Said
      <4>4. \A a \in Places : OnWay(p, a, x)' => Before(a, z)
        BY <4>1, <4>2
      <4>5. On(p, CandidateOf(x))'
        BY <4>3 DEF On
      <4> QED  BY <4>3, <4>4, <4>5 DEF Follows
    <3>2. CASE p = Other(r)
      <4>1. Follows(p, x)
        BY <1>0, <2>1, <2>2, <3>2 DEF Behind, Typed
      <4>2. Flows(p, Nowhere)
        BY <1>6, <3>2, GatherSends
      <4> QED  BY <2>1, <4>1, <4>2, KeepsFollow
    <3> QED  BY <3>1, <3>2 DEF Other, Peers
  <2> QED  BY <2>2 DEF Behind
<1>7. CASE Still /\ Voyages
  BY <1>1, <1>7 DEF Voyages
<1> QED  BY <1>2, <1>3, <1>4, <1>5, <1>6, <1>7, Courses

-----------------------------------------------------------------------------
(* The first exchange *)

\* While there is but one offer it is the host's, and the two descriptions of its
\* exchange are all there are.
First == made["host"] + made["guest"] <= 1
TheOffer == Offer("host", 1)
TheAnswer == AnswerTo("guest", TheOffer)
TheOf(p) == IF p = "host" THEN TheOffer ELSE TheAnswer

OnlyThese ==
    \A p \in Peers, x \in Descriptions :
        Sent(p, x) \/ Waits(p, [op |-> "setLocal", d |-> x]) => x = TheOf(p)

\* Before that offer there is nothing the guest would restart or answer.
BeforeTheOffer ==
    made["host"] = 0 =>
        /\ \A x \in Descriptions : ~Sent("host", x)
        /\ needs["guest"] = "no"
        /\ \A op : Waits("guest", op) => ~Making(op)
        /\ \A x \in Descriptions : ~Waits("host", [op |-> "setLocal", d |-> x])

NothingIgnored == \A p \in Peers : ~ignoreOffer[p]

\* Either peer sets its local description with the remote one to come or there.
InTurn ==
    /\ local["guest"] # None => remote["guest"] # None
    /\ local["host"] # None /\ remote["host"] = None => Offering("host")
    /\ \A p \in Peers : Waits(p, [op |-> "flush"]) => remote[p] # None

\* The candidate c waits in pendingCandidates.
Pending(p, c) == \E i \in DOMAIN pendingCandidates[p] : pendingCandidates[p][i] = c

\* The candidate of x is added, on its way, or kept for what is yet to be set or
\* flushed.
Kept(p, x) ==
    \/ CandidateOf(x) \in added[Other(p)]
    \/ On(p, CandidateOf(x))
    \/ /\ Pending(Other(p), CandidateOf(x))
       /\ remote[Other(p)] = None \/ Waits(Other(p), [op |-> "flush"])

AllKept == \A p \in Peers, x \in Descriptions : x \in gathered[p] => Kept(p, x)

FirstExchange ==
    /\ made["guest"] = 0
    /\ OnlyThese /\ BeforeTheOffer /\ NothingIgnored /\ InTurn
    /\ ~lost => AllKept

LEMMA These ==
    /\ "host" \in Peers /\ "guest" \in Peers
    /\ Other("host") = "guest" /\ Other("guest") = "host"
    /\ TheOffer \in Descriptions /\ TheOffer.type = "offer"
    /\ TheAnswer \in Descriptions /\ TheAnswer.type = "answer"
    /\ TheOf("host") = TheOffer /\ TheOf("guest") = TheAnswer
    /\ \A p \in Peers : p = "host" \/ p = "guest"
    /\ None \notin Descriptions
<1>1. TheOffer \in Descriptions /\ TheOffer.type = "offer"
  BY DescriptionsAre DEF TheOffer, Peers
<1>2. TheAnswer \in Descriptions /\ TheAnswer.type = "answer"
  BY <1>1, DescriptionsAre DEF TheAnswer, Peers
<1>3. None \notin Descriptions
  BY DEF None, Descriptions
<1> QED  BY <1>1, <1>2, <1>3 DEF Peers, Other, TheOf

LEMMA SetsWaits ==
    ASSUME Typed, NEW p \in Peers, NEW d, Sets(p, d)
    PROVE  Waits(p, [op |-> "setLocal", d |-> d])
<1>1. ops[p] # <<>> /\ ops[p][1] = [op |-> "setLocal", d |-> d] /\ ops[p] \in Seq(Ops)
  BY DEF Sets, Typed
<1> QED  BY <1>1, TailOf DEF Waits

\* It is the host that answers nothing.
LEMMA OnlyGuestAnswers ==
    ASSUME Typed, Remembered, OffersAnswered, OnlyThese, NEW p \in Peers, Answering(p)
    PROVE  p = "guest" /\ remote[p] = TheOffer
<1>1. remote[p] \in Descriptions /\ remote[p].type = "offer"
  BY DEF Remembered, OffersAnswered, Answering
<1>2. Other(p) \in Peers /\ Sent(Other(p), remote[p])
  BY These DEF Sent
<1>3. remote[p] = TheOf(Other(p))
  BY <1>1, <1>2 DEF OnlyThese
<1> QED  BY <1>1, <1>3, These

LEMMA NoGuestOffer ==
    ASSUME Typed, First', FirstExchange, [Next]_vars
    PROVE  /\ ~CreateOffer("guest") /\ First
           /\ CreateOffer("host") => made["host"] = 0
           /\ made'["guest"] = 0
           /\ made'["host"] = 0 => made["host"] = 0 /\ ~CreateOffer("host")
<1>1. /\ made["host"] \in Nat /\ made'["host"] \in Nat /\ made["host"] <= made'["host"]
      /\ made["guest"] = 0 /\ made'["guest"] \in Nat
      /\ CreateOffer("host") => made'["host"] = made["host"] + 1
      /\ CreateOffer("guest") => made'["guest"] = made["guest"] + 1
      /\ ~CreateOffer("guest") => made'["guest"] = made["guest"]
  BY MadeGrows, These DEF FirstExchange
<1>2. made'["host"] + made'["guest"] <= 1
  BY DEF First
<1>3. ASSUME CreateOffer("guest") PROVE FALSE
  <2>1. made["host"] = 0
    BY <1>1, <1>2, <1>3
  <2>2. ops["guest"] # <<>> /\ ops["guest"] \in Seq(Ops) /\ Head(ops["guest"]).op = "createOffer"
    BY <1>3, These DEF CreateOffer, At, Typed
  <2>3. 1 \in DOMAIN ops["guest"] /\ ops["guest"][1].op = "createOffer"
    BY <2>2, TailOf
  <2>4. Waits("guest", ops["guest"][1]) /\ Making(ops["guest"][1])
    BY <2>3 DEF Waits, Making
  <2> QED  BY <2>1, <2>4 DEF FirstExchange, BeforeTheOffer
<1>4. First
  BY <1>1, <1>2 DEF First
<1>5. CreateOffer("host") => made["host"] = 0
  BY <1>1, <1>2
<1>6. made'["host"] = 0 => made["host"] = 0 /\ ~CreateOffer("host")
  BY <1>1
<1> QED  BY <1>1, <1>3, <1>4, <1>5, <1>6

LEMMA OnlyTheseStep ==
    ASSUME Typed, Remembered, OpenSends, OffersAnswered, FirstExchange, [Next]_vars, First'
    PROVE  OnlyThese'
<1>1. ASSUME NEW p \in Peers, NEW x \in Descriptions, Sent(p, x)' PROVE x = TheOf(p)
  <2>1. CASE Sent(p, x)
    BY <2>1 DEF FirstExchange, OnlyThese
  <2>2. CASE Sets(p, x)
    BY <2>2, SetsWaits DEF FirstExchange, OnlyThese
  <2> QED  BY <1>1, <2>1, <2>2, Telling DEF Silent, Sends
<1>2. ASSUME NEW p \in Peers, NEW x \in Descriptions,
             Waits(p, [op |-> "setLocal", d |-> x])'
      PROVE  x = TheOf(p)
  <2> DEFINE op == [op |-> "setLocal", d |-> x]
  <2>0. op.op = "setLocal" /\ op.d = x /\ Waits(p, op)'
    BY <1>2
  <2>1. CASE Waits(p, op)
    BY <2>1 DEF FirstExchange, OnlyThese
  <2> HIDE DEF op
  <2>2. CASE CreateOffer(p) /\ op = [op |-> "setLocal", d |-> Offer(p, made[p] + 1)]
    <3>1. p = "host" /\ made[p] = 0 /\ x = Offer(p, made[p] + 1)
      BY <2>0, <2>2, These, NoGuestOffer
    <3>2. x = Offer("host", 1)
      BY <3>1
    <3> QED  BY <3>1, <3>2, These DEF TheOffer
  <2>3. CASE Answering(p) /\ op = [op |-> "setLocal", d |-> AnswerTo(p, remote[p])]
    <3>1. x = AnswerTo(p, remote[p])
      BY <2>0, <2>3
    <3>2. p = "guest" /\ remote[p] = TheOffer
      BY <2>3, OnlyGuestAnswers DEF FirstExchange
    <3> QED  BY <3>1, <3>2, These DEF TheAnswer
  <2> QED  BY <2>0, <2>1, <2>2, <2>3, WaitsFrom DEF Joins
<1>3. \A p : TheOf(p)' = TheOf(p)
  BY DEF TheOf, TheOffer, TheAnswer, Offer, AnswerTo
<1> QED  BY <1>1, <1>2, <1>3 DEF OnlyThese

\* What makes a peer negotiate again.
LEMMA NeedsFrom ==
    ASSUME Typed, [Next]_vars, NEW p \in Peers, needs[p] = "no", needs'[p] # "no"
    PROVE  RestartIce(p) \/ CreateOffer(p)
<1>1. needs \in [Peers -> {"no", "new", "offered"}]
  BY DEF Typed
<1>2. CASE UNCHANGED needs
  BY <1>2
<1>3. ASSUME NEW q \in Peers, SetLocal(q) PROVE needs'[p] = "no"
  <2>1. needs' = needs \/ needs' = Renewed(q)
    BY <1>3 DEF SetLocal
  <2> QED  BY <1>1, <2>1 DEF Renewed
<1>4. ASSUME NEW q \in Peers, SetRemote(q) PROVE needs'[p] = "no"
  <2>1. \/ needs' = needs \/ needs' = Renewed(q)
        \/ needs' = [needs EXCEPT ![q] = IF @ = "offered" THEN "no" ELSE @]
    <3> DEFINE d == Head(ops[q]).d
               fits == d.type = "offer" \/ sig[q] = "have-local-offer"
    <3>1. fits /\ d.type = "offer" => needs' = needs \/ needs' = Renewed(q)
      BY <1>4 DEF SetRemote
    <3>2. fits /\ d.type # "offer" =>
              needs' = [needs EXCEPT ![q] = IF @ = "offered" THEN "no" ELSE @]
      BY <1>4 DEF SetRemote
    <3>3. ~fits => needs' = needs
      BY <1>4 DEF SetRemote
    <3> QED  BY <3>1, <3>2, <3>3
  <2> QED  BY <1>1, <2>1 DEF Renewed
<1>5. ASSUME NEW q \in Peers, CreateOffer(q) \/ RestartIce(q), q # p
      PROVE  needs'[p] = "no"
  <2>1. needs' = needs \/ \E n : needs' = [needs EXCEPT ![q] = n]
    BY <1>5 DEF CreateOffer, RestartIce
  <2> QED  BY <1>1, <1>5, <2>1
<1>6. \/ UNCHANGED needs
      \/ \E q \in Peers : SetLocal(q) \/ SetRemote(q) \/ CreateOffer(q) \/ RestartIce(q)
  BY DEF Next, Step, RunChain, NegotiationNeeded, CreateAnswer,
     AddCandidate, Flush, Receive, Gather, Connect, Attach, FinishAttach,
     FlushKept, Forward, ForwardEarly, Drop, RestartBroker, vars
<1> QED  BY <1>2, <1>3, <1>4, <1>5, <1>6

LEMMA BeforeTheOfferStep ==
    ASSUME Typed, Remembered, OpenSends, OffersAnswered, FirstExchange, [Next]_vars, First'
    PROVE  BeforeTheOffer'
<1> SUFFICES ASSUME made'["host"] = 0
             PROVE  /\ \A x \in Descriptions : ~Sent("host", x)'
                    /\ needs'["guest"] = "no"
                    /\ \A op : Waits("guest", op)' => ~Making(op)
                    /\ \A x \in Descriptions :
                           ~Waits("host", [op |-> "setLocal", d |-> x])'
  BY DEF BeforeTheOffer, Making
<1>1. /\ \A x \in Descriptions : ~Sent("host", x)
      /\ needs["guest"] = "no"
      /\ \A op : Waits("guest", op) => ~Making(op)
      /\ \A x \in Descriptions : ~Waits("host", [op |-> "setLocal", d |-> x])
  BY NoGuestOffer DEF FirstExchange, BeforeTheOffer
<1>2. ASSUME NEW x \in Descriptions, Sent("host", x)' PROVE FALSE
  BY <1>1, <1>2, Telling, SetsWaits, These DEF Silent, Sends
<1>3. needs'["guest"] = "no"
  <2>1. ASSUME RestartIce("guest") PROVE FALSE
    <3>1. local["guest"] # None \/ remote["guest"] # None
      BY <2>1 DEF RestartIce
    <3>2. remote["guest"] # None
      BY <3>1 DEF FirstExchange, InTurn
    <3>3. remote["guest"] \in Descriptions
      BY <3>2, These DEF Typed
    <3> QED  BY <1>1, <3>3, These DEF Sent
  <2> QED  BY <1>1, <2>1, NeedsFrom, NoGuestOffer, These
<1>4. ASSUME NEW op, Waits("guest", op)' PROVE ~Making(op)
  <2>1. CASE Waits("guest", op)
    BY <1>1, <2>1
  <2>2. ~NegotiationNeeded("guest")
    BY <1>1 DEF NegotiationNeeded
  <2>3. CASE Answering("guest")
             /\ op = [op |-> "setLocal", d |-> AnswerTo("guest", remote["guest"])]
    <3>1. remote["guest"] \in Descriptions
      BY <2>3, These DEF Remembered, Answering
    <3>2. AnswerTo("guest", remote["guest"]).type = "answer"
      BY <3>1, These, DescriptionsAre
    <3> QED  BY <2>3, <3>2 DEF Making
  <2>4. CASE op.op \in {"flush", "createAnswer", "add", "setRemote"}
    BY <2>4 DEF Making
  <2> QED  BY <1>4, <2>1, <2>2, <2>3, <2>4, WaitsFrom, NoGuestOffer, These DEF Joins
<1>5. ASSUME NEW x \in Descriptions, Waits("host", [op |-> "setLocal", d |-> x])'
      PROVE  FALSE
  <2> DEFINE op == [op |-> "setLocal", d |-> x]
  <2>0. op.op = "setLocal" /\ Waits("host", op)' /\ ~Waits("host", op)
    BY <1>1, <1>5
  <2> HIDE DEF op
  <2>1. ~Answering("host")
    BY OnlyGuestAnswers, These DEF FirstExchange
  <2> QED  BY <2>0, <2>1, WaitsFrom, NoGuestOffer, These DEF Joins
<1> QED  BY <1>2, <1>3, <1>4, <1>5

LEMMA NothingIgnoredStep ==
    ASSUME Typed, FirstExchange, [Next]_vars
    PROVE  NothingIgnored'
<1>0. ignoreOffer \in [Peers -> BOOLEAN] /\ \A p \in Peers : ~ignoreOffer[p]
  BY DEF Typed, FirstExchange, NothingIgnored
<1>1. CASE UNCHANGED ignoreOffer
  BY <1>0, <1>1 DEF NothingIgnored
<1>2. ASSUME NEW p \in Peers, Receive(p) PROVE NothingIgnored'
  <2> DEFINE d == Head(down[p])
             a == <<2, 1>>
  <2>1. /\ down[p] \in Seq(Signals) /\ down[p] # <<>>
        /\ \/ d.type = "candidate" /\ UNCHANGED ignoreOffer
           \/ /\ d.type # "candidate"
              /\ ignoreOffer' = [ignoreOffer EXCEPT ![p] = Ignores(p, d)]
    BY <1>2 DEF Receive, Typed
  <2>2. d \in Signals /\ d = down[p][1] /\ 1 \in DOMAIN down[p]
    BY <2>1, TailOf
  <2>3. a \in Places /\ a[1] = 2 /\ a[2] = 1
    BY DEF Places, Stages
  <2>4. Other(p) \in Peers /\ Stage(Other(p), 2) = down[p] /\ Said(2, d) = d
    BY StagesOf, SaidIs
  <2> HIDE DEF d, a
  <2>5. On(Other(p), d)
    BY <2>2, <2>3, <2>4 DEF On, OnWay, Lies
  <2>6. ASSUME d.type # "candidate" PROVE ~Ignores(p, d)
    <3>1. d \in Descriptions
      BY <2>2, <2>6 DEF Signals, Candidates
    <3>2. d = TheOf(Other(p))
      BY <2>4, <2>5, <3>1 DEF Sent, FirstExchange, OnlyThese
    <3>3. p = "host" => d.type = "answer"
      BY <3>2, These
    <3> QED  BY <3>3, These DEF Ignores, Polite, Collides
  <2>7. CASE ignoreOffer' = [ignoreOffer EXCEPT ![p] = Ignores(p, d)] /\ ~Ignores(p, d)
    BY <1>0, <2>7 DEF NothingIgnored
  <2> QED  BY <1>1, <2>1, <2>6, <2>7
<1>3. UNCHANGED ignoreOffer \/ \E p \in Peers : Receive(p)
  BY DEF Next, Step, RunChain, NegotiationNeeded, CreateOffer, SetLocal, SetRemote,
     CreateAnswer, AddCandidate, Flush, Gather, RestartIce, Connect, Attach,
     FinishAttach, FlushKept, Forward, ForwardEarly, Drop, RestartBroker, vars
<1> QED  BY <1>1, <1>2, <1>3

\* What is set stays set.
LEMMA StaysSet ==
    ASSUME Typed, Remembered, OpenSends, [Next]_vars, NEW p \in Peers
    PROVE  /\ remote[p] # None => remote'[p] # None
           /\ remote'[p] # remote[p] => SetRemote(p) /\ remote'[p] \in Descriptions
<1>1. ASSUME NEW r \in Peers, NEW d \in Descriptions, SetRemote(r), Takes(r, d)
      PROVE  remote'[p] = remote[p] \/ (r = p /\ remote'[p] = d)
  BY <1>1, These DEF Takes
<1>2. ASSUME NEW r \in Peers, NEW d \in Descriptions, Sets(r, d)
      PROVE  remote' = remote
  BY <1>2 DEF Sets
<1> QED  BY <1>1, <1>2, Telling, These

LEMMA InTurnStep ==
    ASSUME Typed, Remembered, OpenSends, OffersAnswered, FirstExchange, [Next]_vars
    PROVE  InTurn'
<1>0. \A p \in Peers : remote[p] # None => remote'[p] # None
  BY StaysSet
<1>1. ASSUME NEW r \in Peers, NEW d \in Descriptions, Sets(r, d) PROVE d = TheOf(r)
  BY <1>1, SetsWaits DEF FirstExchange, OnlyThese
<1>2. local'["guest"] # None => remote'["guest"] # None
  <2>1. CASE local' = local
    BY <1>0, <2>1, These DEF FirstExchange, InTurn
  <2>2. ASSUME NEW r \in Peers, NEW d \in Descriptions, Sets(r, d)
        PROVE  local'["guest"] # None => remote'["guest"] # None
    <3>1. CASE r = "host"
      <4>1. local'["guest"] = local["guest"]
        BY <2>2, <3>1, These DEF Sets
      <4> QED  BY <1>0, <4>1, These DEF FirstExchange, InTurn
    <3>2. CASE r = "guest"
      <4>1. Answering("guest")
        BY <1>1, <2>2, <3>2, These DEF Sets
      <4>2. remote["guest"] \in Descriptions
        BY <4>1, These DEF Remembered, Answering
      <4> QED  BY <1>0, <4>2, These
    <3> QED  BY <3>1, <3>2, These
  <2>3. \A r \in Peers, d \in Descriptions : Takes(r, d) => local' = local
    BY DEF Takes
  <2> QED  BY <2>1, <2>2, <2>3, Telling
<1>3. ASSUME local'["host"] # None, remote'["host"] = None PROVE Offering("host")'
  <2>0. remote["host"] = None /\ (local["host"] # None => Offering("host"))
    BY <1>0, <1>3, These DEF FirstExchange, InTurn
  <2>1. CASE UNCHANGED <<sig, local, remote>>
    BY <1>3, <2>0, <2>1 DEF Offering
  <2>2. ASSUME NEW r \in Peers, NEW d \in Descriptions, Sets(r, d) PROVE Offering("host")'
    <3>1. CASE r = "guest"
      <4>1. local'["host"] = local["host"] /\ sig'["host"] = sig["host"]
        BY <2>2, <3>1, These DEF Sets
      <4> QED  BY <1>3, <2>0, <4>1 DEF Offering
    <3>2. CASE r = "host"
      BY <1>1, <2>2, <3>2, These DEF Sets
    <3> QED  BY <3>1, <3>2, These
  <2>3. ASSUME NEW r \in Peers, NEW d \in Descriptions, Takes(r, d) PROVE Offering("host")'
    <3>1. CASE r = "guest"
      <4>1. local'["host"] = local["host"] /\ sig'["host"] = sig["host"]
        BY <2>3, <3>1, These DEF Takes
      <4> QED  BY <1>3, <2>0, <4>1 DEF Offering
    <3>2. CASE r = "host"
      <4>1. local' = local /\ sig' = sig
        BY <1>3, <2>3, <3>2, These DEF Takes
      <4> QED  BY <1>3, <2>0, <4>1 DEF Offering
    <3> QED  BY <3>1, <3>2, These
  <2> QED  BY <2>1, <2>2, <2>3, Telling
<1>4. ASSUME NEW p \in Peers, Waits(p, [op |-> "flush"])' PROVE remote'[p] # None
  <2> DEFINE op == [op |-> "flush"]
  <2>0. op.op = "flush" /\ Waits(p, op)'
    BY <1>4
  <2>1. CASE Waits(p, op)
    BY <1>0, <2>1 DEF FirstExchange, InTurn
  <2> HIDE DEF op
  <2>2. ASSUME NEW x, op = [op |-> "setLocal", d |-> x] PROVE FALSE
    <3>1. op.op = "setLocal"
      BY <2>2
    <3> QED  BY <2>0, <3>1
  <2>3. CASE remote'[p] \in Descriptions
    BY <2>3, These
  <2> QED  BY <2>0, <2>1, <2>2, <2>3, WaitsFrom DEF Joins
<1> QED  BY <1>2, <1>3, <1>4 DEF InTurn

\* A candidate on the way stays on it until it is added.
LEMMA CandidateOn ==
    ASSUME Typed, Remembered, OpenSends, [Next]_vars, ~lost', NEW p \in Peers,
           NEW c \in Candidates, On(p, c)
    PROVE  On(p, c)' \/ (AddCandidate(Other(p)) /\ c = Head(ops[Other(p)]).c)
<1>0. c \in Signals /\ Other(p) \in Peers /\ Other(Other(p)) = p
  BY StagesOf DEF Signals
<1>1. PICK a \in Places : OnWay(p, a, c)
  BY DEF On
<1>2. ASSUME Flows(p, Nowhere) PROVE On(p, c)'
  BY <1>0, <1>1, <1>2, FlowsOn, BeforeOrders
<1>3. ASSUME NEW s \in {1, 2}, Flows(p, <<s, 1>>), ~OnWay(p, <<s, 1>>, c) PROVE On(p, c)'
  <2>1. a # <<s, 1>>
    BY <1>1, <1>3
  <2> QED  BY <1>0, <1>1, <1>3, <2>1, FlowsOn
<1>4. ASSUME NEW s \in {1, 2}, NEW x, OnWay(p, <<s, 1>>, x), OnWay(p, <<s, 1>>, c)
      PROVE  Said(s, x) = Said(s, c)
  <2> DEFINE h == <<s, 1>>
  <2>1. h[1] = s /\ h[2] = 1 /\ OnWay(p, h, x) /\ OnWay(p, h, c)
    BY <1>4
  <2> HIDE DEF h
  <2> QED  BY <2>1 DEF OnWay, Lies
<1>5. CASE Still /\ Voyages
  <2>1. CASE Sails
    BY <1>2, <2>1 DEF Sails, Peers
  <2>2. CASE Holds("host") /\ Holds("guest")
    BY <1>0, <2>2 DEF Holds, Peers
  <2> QED  BY <1>5, <2>1, <2>2 DEF Voyages
<1>6. \A r \in Peers : p = r \/ p = Other(r)
  BY DEF Other, Peers
<1>7. ASSUME NEW r \in Peers, NEW d \in Descriptions, Sets(r, d) PROVE On(p, c)'
  <2>1. CASE p = r
    BY <1>0, <1>7, <2>1 DEF Sets
  <2>2. CASE p = Other(r)
    BY <1>2, <1>7, <2>2 DEF Sets
  <2> QED  BY <1>6, <2>1, <2>2
<1>8. ASSUME NEW r \in Peers, NEW d \in Descriptions, Takes(r, d) PROVE On(p, c)'
  <2>1. CASE p = r
    BY <1>2, <1>8, <2>1 DEF Takes
  <2>2. CASE p = Other(r)
    <3>1. Flows(p, <<1, 1>>) /\ OnWay(p, <<1, 1>>, d)
      BY <1>8, <2>2 DEF Takes
    <3>2. Said(1, d) # Said(1, c)
      <4>1. Said(1, d).op = "setRemote" /\ Said(1, c).op = "add"
        BY SaidIs
      <4> QED  BY <4>1
    <3>3. ~OnWay(p, <<1, 1>>, c)
      BY <1>4, <3>1, <3>2
    <3> QED  BY <1>3, <3>1, <3>3
  <2> QED  BY <1>6, <2>1, <2>2
<1>9. ASSUME NEW r \in Peers, AddCandidate(r)
      PROVE  On(p, c)' \/ (r = Other(p) /\ c = Head(ops[r]).c)
  <2>1. CASE p = r
    BY <1>2, <1>9, <2>1, AddCandidateFlows
  <2>2. CASE p = Other(r)
    <3> DEFINE e == Head(ops[r]).c
    <3>1. /\ Flows(p, <<1, 1>>) /\ OnWay(p, <<1, 1>>, e) /\ e \in Candidates
          /\ Other(p) = r
      BY <1>9, <2>2, AddCandidateFlows, StagesOf
    <3> HIDE DEF e
    <3>2. OnWay(p, <<1, 1>>, c) => e = c
      <4>1. ASSUME OnWay(p, <<1, 1>>, c) PROVE e = c
        <5>1. Said(1, e) = Said(1, c)
          BY <1>4, <3>1, <4>1
        <5>2. Said(1, e).c = e /\ Said(1, c).c = c
          BY <3>1, SaidIs
        <5> QED  BY <5>1, <5>2
      <4> QED  BY <4>1
    <3> QED  BY <1>3, <3>1, <3>2 DEF e
  <2> QED  BY <1>6, <2>1, <2>2
<1>10. ASSUME NEW r \in Peers, Receive(r) PROVE On(p, c)'
  <2>1. CASE Flows(p, Nowhere)
    BY <1>2, <2>1
  <2>2. CASE Flows(p, <<2, 1>>) /\ \E d \in Descriptions : OnWay(p, <<2, 1>>, d)
    <3>1. PICK d \in Descriptions : OnWay(p, <<2, 1>>, d)
      BY <2>2
    <3>2. Said(2, d) # Said(2, c)
      BY SaidIs, CandidatesAre
    <3>3. ~OnWay(p, <<2, 1>>, c)
      BY <1>4, <3>1, <3>2
    <3> QED  BY <1>3, <2>2, <3>3
  <2> QED  BY <1>6, <1>10, <2>1, <2>2, ReceiveFlows
<1>11. ASSUME NEW r \in Peers, Gather(r) PROVE On(p, c)'
  <2>1. CASE p = Other(r)
    BY <1>2, <1>11, <2>1, GatherSends
  <2>2. CASE p = r
    <3>1. OnWay(p, a, c)'
      BY <1>0, <1>1, <1>11, <2>2, GatherSends
    <3> QED  BY <3>1 DEF On
  <2> QED  BY <1>6, <2>1, <2>2
<1> QED  BY <1>0, <1>5, <1>7, <1>8, <1>9, <1>10, <1>11, Courses

LEMMA PendingFrom ==
    ASSUME Typed, [Next]_vars, NEW p \in Peers, NEW c, Pending(p, c)
    PROVE  Pending(p, c)' \/ Flush(p)
<1>0. pendingCandidates \in [Peers -> Seq(Candidates)]
  BY DEF Typed
<1>1. ASSUME UNCHANGED pendingCandidates PROVE Pending(p, c)'
  BY <1>1 DEF Pending
<1>2. ASSUME NEW q \in Peers, AddCandidate(q) PROVE Pending(p, c)'
  <2> DEFINE e == Head(ops[q]).c
  <2>1. \/ pendingCandidates' = pendingCandidates
        \/ pendingCandidates' = [pendingCandidates EXCEPT ![q] = Append(@, e)]
    BY <1>2 DEF AddCandidate
  <2>2. e \in Candidates
    BY <1>2, AddCandidateFlows
  <2> HIDE DEF e
  <2>3. PICK i \in DOMAIN pendingCandidates[p] : pendingCandidates[p][i] = c
    BY DEF Pending
  <2>4. CASE pendingCandidates' = [pendingCandidates EXCEPT ![q] = Append(@, e)]
    <3>1. CASE q = p
      <4>1. pendingCandidates'[p] = Append(pendingCandidates[p], e)
        BY <1>0, <2>4, <3>1
      <4>2. /\ i \in DOMAIN Append(pendingCandidates[p], e)
            /\ Append(pendingCandidates[p], e)[i] = c
        BY <1>0, <2>2, <2>3
      <4> QED  BY <4>1, <4>2 DEF Pending
    <3>2. CASE q # p
      <4>1. pendingCandidates'[p] = pendingCandidates[p]
        BY <1>0, <2>4, <3>2
      <4> QED  BY <2>3, <4>1 DEF Pending
    <3> QED  BY <3>1, <3>2
  <2> QED  BY <1>1, <2>1, <2>4
<1>3. ASSUME NEW q \in Peers, Flush(q), q # p PROVE Pending(p, c)'
  <2>1. pendingCandidates' = [pendingCandidates EXCEPT ![q] = <<>>]
    BY <1>3 DEF Flush
  <2>2. pendingCandidates'[p] = pendingCandidates[p]
    BY <1>0, <1>3, <2>1
  <2> QED  BY <2>2 DEF Pending
<1>4. UNCHANGED pendingCandidates \/ \E q \in Peers : AddCandidate(q) \/ Flush(q)
  BY DEF Next, Step, RunChain, NegotiationNeeded, CreateOffer, SetLocal, SetRemote,
     CreateAnswer, Receive, Gather, RestartIce, Connect, Attach,
     FinishAttach, FlushKept, Forward, ForwardEarly, Drop, RestartBroker, vars
<1> QED  BY <1>1, <1>2, <1>3, <1>4

\* A first remote description has what was kept for it flushed.
LEMMA SetRemoteFlushes ==
    ASSUME Typed, NEW p \in Peers, SetRemote(p), remote'[p] # remote[p],
           pendingCandidates[p] # <<>>
    PROVE  Waits(p, [op |-> "flush"])'
<1> DEFINE d == Head(ops[p]).d
           fits == d.type = "offer" \/ sig[p] = "have-local-offer"
           op == [op |-> "flush"]
           next == Follow(p, d)
<1>1. ~fits => remote' = remote
  BY DEF SetRemote
<1>2. fits => Continue(p, next)
  BY DEF SetRemote
<1>3. ops[p] \in Seq(Ops) /\ ops[p] # <<>> /\ next \in Seq(Ops)
  BY FollowType DEF SetRemote, At, Typed
<1>4. 1 \in DOMAIN next /\ next[1] = op
  <2> DEFINE t == IF d.type = "offer" THEN <<[op |-> "createAnswer"]>> ELSE << >>
             u == <<op>>
  <2>1. next = u \o t
    BY DEF Follow
  <2>2. op \in Ops /\ t \in Seq(Ops)
    BY Operations
  <2> HIDE DEF t, op
  <2>3. u \in Seq(Ops) /\ 1 \in DOMAIN u /\ u[1] = op
    BY <2>2
  <2> HIDE DEF u
  <2> QED  BY <2>1, <2>2, <2>3, JoinOf
<1> DEFINE t == Tail(ops[p])
<1> HIDE DEF fits, next, op, d
<1>5. t \in Seq(Ops)
  BY <1>3, TailOf
<1>6. ops'[p] = t \o next
  <2>1. Continue(p, next)
    BY <1>1, <1>2
  <2> QED  BY <1>3, <2>1, ContinueType DEF Typed
<1> HIDE DEF t
<1>7. PICK n \in Nat : n = Len(t)
  BY <1>5
<1>8. n + 1 \in DOMAIN (t \o next) /\ (t \o next)[n + 1] = op
  BY <1>3, <1>4, <1>5, <1>7
<1> QED  BY <1>6, <1>8 DEF Waits, op

LEMMA AllKeptStep ==
    ASSUME Typed, Remembered, OpenSends, OffersAnswered, FirstExchange, AllKept,
           [Next]_vars, ~lost'
    PROVE  AllKept'
<1> SUFFICES ASSUME NEW p \in Peers, NEW x \in Descriptions, x \in gathered'[p]
             PROVE  Kept(p, x)'
  BY DEF AllKept
<1> DEFINE q == Other(p)
           c == CandidateOf(x)
           flush == [op |-> "flush"]
<1>0. /\ q \in Peers /\ Other(q) = p
      /\ c \in Candidates /\ c.of = x
  BY StagesOf, CandidatesAre
<1>1. ASSUME c \in added'[q] \/ On(p, c)' \/ (Pending(q, c)' /\
                 (remote'[q] = None \/ Waits(q, flush)'))
      PROVE  Kept(p, x)'
  <2>1. CASE On(p, c)'
    BY <2>1 DEF Kept
  <2>2. CASE c \in added'[q]
    BY <2>2 DEF Kept, CandidateOf
  <2>3. CASE Pending(q, c)' /\ (remote'[q] = None \/ Waits(q, flush)')
    BY <2>3 DEF Kept
  <2> QED  BY <1>1, <2>1, <2>2, <2>3
<1> HIDE DEF c, flush, q
<1>2. CASE x \notin gathered[p]
  <2>1. PICK r \in Peers : Gather(r)
    BY <1>2, Courses DEF Still, AddCandidate
  <2>2. gathered' = [gathered EXCEPT ![r] = @ \cup {local[r]}] /\ local' = local
    BY <2>1 DEF Gather
  <2>3. r = p /\ local[p] = x
    BY <1>2, <2>2 DEF Typed
  <2>4. On(p, CandidateOf(local[p]))'
    <3>1. \E z \in Places : OnWay(p, z, CandidateOf(local[p]))'
      BY <2>1, <2>3, GatherSends
    <3> QED  BY <3>1 DEF On
  <2>5. CandidateOf(local[p])' = c
    BY <2>2, <2>3 DEF c
  <2>6. On(p, c)'
    BY <2>4, <2>5 DEF On, OnWay, Lies, Said
  <2> QED  BY <1>1, <2>6
<1>3. CASE x \in gathered[p]
  <2>1. \A y \in Descriptions : Sent(p, y) => y = x
    <3>1. Sent(p, x)
      BY <1>3 DEF Sent
    <3> QED  BY <3>1 DEF FirstExchange, OnlyThese
  <2>2. remote[q] # None => remote[q] = x
    <3>1. remote[q] # None => remote[q] \in Descriptions
      BY <1>0 DEF Typed
    <3> QED  BY <2>1, <3>1 DEF Sent, q
  <2>3. Kept(p, x)
    BY <1>3 DEF AllKept
  <2>4. CASE c \in added[q]
    <3>1. \A r \in Peers : added[r] \subseteq added'[r]
      <4>1. \A r \in Peers : AddCandidate(r) => \A s \in Peers : added[s] \subseteq added'[s]
        <5> SUFFICES ASSUME NEW r \in Peers, AddCandidate(r), NEW s \in Peers
                     PROVE  added[s] \subseteq added'[s]
          OBVIOUS
        <5>1. \/ added' = added
              \/ \E e : added' = [added EXCEPT ![r] = @ \cup {e}]
          BY DEF AddCandidate
        <5> QED  BY <5>1 DEF Typed
      <4>2. \A r \in Peers : Gather(r) => added' = added
        BY DEF Gather
      <4> QED  BY <4>1, <4>2, Courses DEF Still
    <3> QED  BY <1>0, <1>1, <2>4, <3>1
  <2>5. CASE On(p, c)
    <3>1. CASE On(p, c)'
      BY <1>1, <3>1
    <3>2. CASE AddCandidate(q) /\ c = Head(ops[q]).c
      <4>1. /\ added' = IF c.of = remote[q] THEN [added EXCEPT ![q] = @ \cup {c}] ELSE added
            /\ pendingCandidates' = IF remote[q] = None /\ ~ignoreOffer[q]
                                    THEN [pendingCandidates EXCEPT ![q] = Append(@, c)]
                                    ELSE pendingCandidates
            /\ remote' = remote
        BY <3>2 DEF AddCandidate
      <4>2. CASE remote[q] # None
        <5>1. c \in added'[q]
          BY <1>0, <2>2, <4>1, <4>2 DEF Typed
        <5> QED  BY <1>1, <5>1
      <4>3. CASE remote[q] = None
        <5>1. ~ignoreOffer[q]
          BY <1>0 DEF FirstExchange, NothingIgnored
        <5>2. pendingCandidates[q] \in Seq(Candidates)
              /\ pendingCandidates'[q] = Append(pendingCandidates[q], c)
          BY <1>0, <4>1, <4>3, <5>1 DEF Typed
        <5>3. PICK n \in Nat : n = Len(pendingCandidates[q])
          BY <5>2
        <5>4. /\ n + 1 \in DOMAIN Append(pendingCandidates[q], c)
              /\ Append(pendingCandidates[q], c)[n + 1] = c
          BY <1>0, <5>2, <5>3
        <5>5. Pending(q, c)'
          BY <5>2, <5>4 DEF Pending
        <5> QED  BY <1>1, <4>1, <4>3, <5>5
      <4> QED  BY <4>2, <4>3
    <3> QED  BY <1>0, <2>5, <3>1, <3>2, CandidateOn DEF q
  <2>6. CASE Pending(q, c) /\ (remote[q] = None \/ Waits(q, flush))
    <3>1. CASE Flush(q)
      <4> DEFINE kept == {pendingCandidates[q][i] : i \in DOMAIN pendingCandidates[q]}
                 mine == {k \in kept : k.of = remote[q]}
      <4>1. added' = [added EXCEPT ![q] = @ \cup mine]
        BY <3>1 DEF Flush
      <4>2. c \in kept
        BY <2>6 DEF Pending
      <4>3. remote[q] # None
        <5>1. ops[q] # <<>> /\ ops[q] \in Seq(Ops) /\ Head(ops[q]).op = "flush"
          BY <1>0, <3>1 DEF Flush, At, Typed
        <5>2. 1 \in DOMAIN ops[q] /\ ops[q][1] \in Ops /\ ops[q][1].op = "flush"
          BY <5>1, TailOf
        <5>3. \A o \in Ops : o.op = "flush" => o = [op |-> "flush"]
          BY DEF Ops
        <5>4. Waits(q, [op |-> "flush"])
          BY <5>2, <5>3 DEF Waits
        <5> QED  BY <1>0, <5>4 DEF FirstExchange, InTurn
      <4>4. c \in mine
        BY <1>0, <2>2, <4>2, <4>3
      <4> HIDE DEF mine
      <4>5. c \in added'[q]
        BY <1>0, <4>1, <4>4 DEF Typed
      <4> QED  BY <1>1, <4>5
    <3>2. CASE ~Flush(q)
      <4>1. Pending(q, c)'
        BY <1>0, <2>6, <3>2, PendingFrom
      <4>2. CASE Waits(q, flush)
        <5>1. Waits(q, flush)'
          BY <1>0, <3>2, <4>2, FlushWaits DEF flush
        <5> QED  BY <1>1, <4>1, <5>1
      <4>3. CASE remote[q] = None
        <5>1. CASE remote'[q] = None
          BY <1>1, <4>1, <5>1
        <5>2. CASE remote'[q] # None
          <6>1. SetRemote(q) /\ remote'[q] # remote[q]
            BY <1>0, <4>3, <5>2, StaysSet
          <6>2. pendingCandidates[q] # <<>>
            <7>1. DOMAIN << >> = {}
              OBVIOUS
            <7> QED  BY <2>6, <7>1 DEF Pending
          <6>3. Waits(q, flush)'
            BY <1>0, <6>1, <6>2, SetRemoteFlushes DEF flush
          <6> QED  BY <1>1, <4>1, <6>3
        <5> QED  BY <5>1, <5>2
      <4> QED  BY <2>6, <4>2, <4>3
    <3> QED  BY <3>1, <3>2
  <2> QED  BY <2>3, <2>4, <2>5, <2>6 DEF Kept, q, c, flush
<1> QED  BY <1>2, <1>3

LEMMA LostStays == ASSUME Typed, [Next]_vars, lost PROVE lost'
<1>1. \/ UNCHANGED lost
      \/ \E p \in Peers : ForwardEarly(p) \/ Drop(p)
      \/ RestartBroker
  BY DEF Next, Step, RunChain, NegotiationNeeded, CreateOffer, SetLocal, SetRemote,
     CreateAnswer, AddCandidate, Flush, Receive, Gather, RestartIce, Connect, Attach,
     FinishAttach, FlushKept, Forward, vars
<1>2. \A p \in Peers : ForwardEarly(p) \/ Drop(p) => lost'
  BY DEF ForwardEarly, Drop, Closed
<1>3. RestartBroker => lost'
  BY DEF RestartBroker
<1> QED  BY <1>1, <1>2, <1>3

LEMMA FirstExchangeStep ==
    ASSUME Typed, Remembered, OpenSends, OffersAnswered, First => FirstExchange,
           [Next]_vars, First'
    PROVE  FirstExchange'
<1>1. First
  <2>1. \A p \in Peers : made[p] \in Nat /\ made'[p] \in Nat /\ made[p] <= made'[p]
    BY MadeGrows
  <2>2. made'["host"] + made'["guest"] <= 1
    BY DEF First
  <2>3. made["host"] + made["guest"] <= 1
    BY <2>1, <2>2, These
  <2> QED  BY <2>3 DEF First
<1>2. FirstExchange
  BY <1>1
<1>3. ~lost' => AllKept'
  <2>1. ~lost' => ~lost
    BY LostStays
  <2>2. ~lost' => AllKept
    BY <1>2, <2>1 DEF FirstExchange
  <2> QED  BY <1>2, <2>2, AllKeptStep
<1> QED  BY <1>2, <1>3, NoGuestOffer, OnlyTheseStep, BeforeTheOfferStep,
            NothingIgnoredStep, InTurnStep DEF FirstExchange

\* At rest nothing is on its way.
LEMMA QuietEmpty ==
    ASSUME Quiet, NEW p \in Peers, NEW x
    PROVE  ~On(p, x)
<1>1. Other(p) \in Peers
  BY These
<1>2. \A s : Stage(p, s) = << >>
  BY <1>1 DEF Stage, Quiet
<1>3. DOMAIN << >> = {}
  OBVIOUS
<1>4. \A a : ~OnWay(p, a, x)
  BY <1>2, <1>3 DEF OnWay, Lies
<1> QED  BY <1>4 DEF On

LEMMA FirstArrives ==
    ASSUME Typed, FirstExchange, Quiet, ~lost, NEW p \in Peers
    PROVE  CandidateOf(local[p]) \in added[Other(p)]
<1> DEFINE q == Other(p)
<1>0. q \in Peers /\ (p = "host" => q = "guest") /\ (p = "guest" => q = "host")
  BY These
<1> HIDE DEF q
<1>1. local[p] \in Descriptions /\ local[p] \in gathered[p]
  BY DEF Quiet, Typed
<1>2. Kept(p, local[p])
  BY <1>1 DEF FirstExchange, AllKept
<1>3. remote[q] # None
  <2>1. CASE p = "host"
    <3>1. local["guest"] # None
      BY <1>0, <2>1 DEF Quiet
    <3> QED  BY <1>0, <2>1, <3>1 DEF FirstExchange, InTurn
  <2>2. CASE p = "guest"
    <3>1. local["host"] # None /\ ~Offering("host")
      BY <1>0, <2>2 DEF Quiet, Offering
    <3> QED  BY <1>0, <2>2, <3>1 DEF FirstExchange, InTurn
  <2> QED  BY <2>1, <2>2, These
<1>4. ops[q] = <<>> /\ ~Waits(q, [op |-> "flush"])
  <2>1. DOMAIN << >> = {}
    OBVIOUS
  <2>2. ops[q] = << >>
    BY <1>0 DEF Quiet
  <2> QED  BY <2>1, <2>2 DEF Waits
<1> QED  BY <1>2, <1>3, <1>4, QuietEmpty DEF Kept, q

LEMMA OvertakenStays == ASSUME Typed, [Next]_vars, overtaken PROVE overtaken'
<1>1. overtaken' = overtaken \/ \E p \in Peers : Forward(p)
  BY DEF Next, Step, RunChain, NegotiationNeeded, CreateOffer, SetLocal, SetRemote,
     CreateAnswer, AddCandidate, Flush, Receive, Gather, RestartIce, Connect, Attach,
     FinishAttach, FlushKept, ForwardEarly, Drop, RestartBroker, vars
<1>2. \A p \in Peers : Forward(p) => overtaken'
  BY DEF Forward
<1> QED  BY <1>1, <1>2

\* Nothing is on its way at first.
LEMMA InitEmpty ==
    ASSUME Init
    PROVE  \A p \in Peers :
               /\ sig[p] = "stable" /\ local[p] = None /\ remote[p] = None
               /\ sock[p] = "down" /\ up[p] = <<>> /\ gathered[p] = {}
               /\ \A x : ~On(p, x)
               /\ \A op : ~Waits(p, op)
<1>1. \A p \in Peers : /\ ops[p] = <<>> /\ down[p] = <<>> /\ buffer[p] = <<>>
                       /\ up[p] = <<>> /\ pendingSignals[p] = <<>>
  BY DEF Init
<1>2. \A p \in Peers, s \in Stages : Stage(p, s) = <<>>
  BY <1>1, StagesOf DEF Stage
<1>3. DOMAIN << >> = {}
  OBVIOUS
<1>4. \A p \in Peers : \A x : ~On(p, x)
  BY <1>2, <1>3 DEF On, OnWay, Lies, Places
<1>5. \A p \in Peers : \A op : ~Waits(p, op)
  BY <1>1, <1>3 DEF Waits
<1> QED  BY <1>1, <1>4, <1>5 DEF Init

LEMMA InitExchange == Init => OpenSends /\ Exchange
<1> SUFFICES ASSUME Init PROVE OpenSends /\ Exchange
  OBVIOUS
<1>1. \A p \in Peers : Empty(p)
  BY InitEmpty DEF Empty, On
<1>2. "host" \in Peers /\ "guest" \in Peers
  BY DEF Peers
<1>3. OpenSends
  BY InitEmpty DEF OpenSends
<1>4. Agreed /\ GuestAnswering /\ HostAnswering
  BY <1>2, InitEmpty DEF Agreed, GuestAnswering, HostAnswering, Answering
<1>5. HostOffers /\ HostAnswers /\ GuestOffers /\ GuestAnswers
  BY <1>1, <1>2 DEF HostOffers, HostAnswers, GuestOffers, GuestAnswers, Empty
<1> QED  BY <1>3, <1>4, <1>5 DEF Exchange

LEMMA InitFresh ==
    Init => OneOffer /\ OffersAnswered /\ Fresh /\ Behind /\ FirstExchange
<1> SUFFICES ASSUME Init
             PROVE  OneOffer /\ OffersAnswered /\ Fresh /\ Behind /\ FirstExchange
  OBVIOUS
<1>1. /\ \A p \in Peers, x \in Descriptions : ~Sent(p, x)
      /\ \A p \in Peers : Other(p) \in Peers
  BY InitEmpty, These DEF Sent
<1>2. OneOffer
  <2>1. DOMAIN << >> = {} /\ \A p \in Peers : ops[p] = << >>
    BY DEF Init
  <2> QED  BY <2>1 DEF OneOffer, Lone
<1>3. OffersAnswered
  BY InitEmpty DEF OffersAnswered, Answering
<1>4. Fresh
  <2>1. Numbered
    BY <1>1 DEF Numbered
  <2>2. NewOffers
    BY InitEmpty DEF NewOffers
  <2>3. NotAnswered
    BY <1>1, InitEmpty DEF NotAnswered, Answering
  <2> QED  BY <2>1, <2>2, <2>3 DEF Fresh
<1>5. Behind
  BY InitEmpty DEF Behind
<1>6. OnlyThese
  BY <1>1, InitEmpty DEF OnlyThese
<1>7. BeforeTheOffer
  <2>1. needs["guest"] = "no"
    BY These DEF Init
  <2> QED  BY <1>1, <2>1, InitEmpty, These DEF BeforeTheOffer
<1>8. NothingIgnored /\ made["guest"] = 0
  BY These DEF NothingIgnored, Init
<1>9. InTurn /\ AllKept
  BY InitEmpty, These DEF InTurn, AllKept
<1> QED  BY <1>2, <1>3, <1>4, <1>5, <1>6, <1>7, <1>8, <1>9 DEF FirstExchange

-----------------------------------------------------------------------------
(* The theorems *)

\* Whatever the peers, the sockets and the broker do, every variable keeps its
\* type: in particular an answer is only made to an offer that was set.
THEOREM TypeCorrect == Spec => []TypeOK
<1> DEFINE Inv == Typed /\ Remembered
<1>1. Init => Inv
  BY InitTyped
<1>2. Inv /\ [Next]_vars => Inv'
  BY TypedStep, RememberedStep
<1>3. Inv => TypeOK
  BY TypedIsTypeOK
<1> QED  BY <1>1, <1>2, <1>3, PTL DEF Spec

\* The host, which createPerfectNegotiation makes the impolite peer, never
\* rolls back an offer it has set, whichever signals cross, are repeated after a
\* reconnect or are lost.
THEOREM HostKeepsItsOffer == Spec => HostOfferStands
<1> DEFINE Inv == Typed /\ Remembered /\ HostChain
           Stands == sig["host"] = "have-local-offer" =>
                         sig'["host"] # "have-remote-offer"
<1>1. Init => Inv
  BY InitTyped, InitHostChain
<1>2. Inv /\ [Next]_vars => Inv' /\ Stands
  BY TypedStep, RememberedStep, HostChainStep
<1>3. Inv /\ [Next]_vars => Inv'
  BY <1>2
<1>4. Inv /\ [Next]_vars => [Stands]_vars
  BY <1>2
<1> HIDE DEF Inv
<1> QED  BY <1>1, <1>3, <1>4, PTL DEF Spec, HostOfferStands

\* Two peers at rest hold the two halves of one exchange, whatever offers crossed,
\* were rolled back, ignored or lost on the way (perfectNegotiation.ts): what
\* either peer sent last is set by the other, was ignored for an offer that
\* stands, or is still under way behind everything it replaces.
THEOREM PeersRestInAgreement == Spec => []RestInAgreement
<1> DEFINE Inv == /\ Typed /\ Remembered /\ HostChain /\ OpenSends
                  /\ ~overtaken => Exchange
<1>1. Init => Inv
  BY InitTyped, InitHostChain, InitExchange
<1>2. Inv /\ [Next]_vars => Inv'
  <2> SUFFICES ASSUME Inv, [Next]_vars PROVE Inv'
    OBVIOUS
  <2>1. Typed' /\ Remembered' /\ HostChain' /\ OpenSends'
    BY TypedStep, RememberedStep, HostChainStep, OpenSendsStep
  <2>2. ~overtaken' => Exchange'
    BY OvertakenStays, ExchangeStep
  <2> QED  BY <2>1, <2>2
<1>3. Inv => RestInAgreement
  BY DEF RestInAgreement, Quiet, Exchange, Agreed, Stable, Peers
<1> HIDE DEF Inv
<1> QED  BY <1>1, <1>2, <1>3, PTL DEF Spec

\* At rest each peer has the candidate of the description the other is in force
\* with, when no signal was lost: AddCandidate refuses a candidate of another
\* description, so one may not fall behind a later offer, and what came too early
\* is in pendingCandidates until it is flushed.  When signals overtook those the
\* broker had kept this is still so in the first exchange.
THEOREM EarlyCandidatesArrive == Spec => []CandidatesArrive
<1> DEFINE Inv == /\ Typed /\ Remembered /\ HostChain /\ OpenSends
                  /\ OneOffer /\ OffersAnswered
                  /\ ~overtaken => Exchange /\ Fresh
                  /\ ~overtaken /\ ~lost => Behind
                  /\ First => FirstExchange
<1>1. Init => Inv
  BY InitTyped, InitHostChain, InitExchange, InitFresh
<1>2. Inv /\ [Next]_vars => Inv'
  <2> SUFFICES ASSUME Inv, [Next]_vars PROVE Inv'
    OBVIOUS
  <2>1. Typed' /\ Remembered' /\ HostChain' /\ OpenSends'
    BY TypedStep, RememberedStep, HostChainStep, OpenSendsStep
  <2>2. OneOffer' /\ OffersAnswered'
    BY OneOfferStep, OffersAnsweredStep
  <2>3. ~overtaken' => Exchange' /\ Fresh'
    BY OvertakenStays, ExchangeStep, FreshStep
  <2>4. ~overtaken' /\ ~lost' => Behind'
    BY OvertakenStays, LostStays, BehindStep
  <2>5. First' => FirstExchange'
    BY FirstExchangeStep
  <2> QED  BY <2>1, <2>2, <2>3, <2>4, <2>5
<1>3. Inv => CandidatesArrive
  <2> SUFFICES ASSUME Inv, Quiet, ~lost,
                      ~overtaken \/ made["host"] + made["guest"] = 1, NEW p \in Peers
               PROVE  CandidateOf(local[p]) \in added[Other(p)]
    BY DEF CandidatesArrive
  <2>1. CASE ~overtaken
    <3>1. remote[Other(p)] = local[p]
      BY <2>1, These DEF Quiet, Exchange, Agreed, Stable
    <3>2. local[p] \in Descriptions /\ local[p] \in gathered[p]
      BY DEF Quiet, Typed
    <3>3. Follows(p, local[p])
      BY <2>1, <3>2 DEF Behind
    <3> QED  BY <3>1, <3>3, QuietEmpty DEF Follows
  <2>2. CASE made["host"] + made["guest"] = 1
    BY <2>2, FirstArrives DEF First
  <2> QED  BY <2>1, <2>2
<1> HIDE DEF Inv
<1> QED  BY <1>1, <1>2, <1>3, PTL DEF Spec
=============================================================================
