------------------------ MODULE AcpConnection_proofs ------------------------
(***************************************************************************)
(* Proofs about AcpConnection, for any number of connections, requests,    *)
(* questions, loads and troubles: every request gets one response, and a   *)
(* pump that was not stopped is its connection's follow.                   *)
(***************************************************************************)
EXTENDS AcpConnection, TLAPS

-----------------------------------------------------------------------------
(* The inductive invariant.                                                *)

Events == {TurnEnd, StreamEnded, NoEvent} \union {Ask(q) : q \in Questions}
Hows   == {"end", "error", "left"}

Frames == [kind : {"none", "prompt", "answer", "running", "parked"}, n : Nat,
           r : 0..MaxRequests, joined : BOOLEAN]
ConnTypes ==
  [up : BOOLEAN, pc : {"free", "head", "follow", "send"}, frame : Frames, after : Nat,
   follow : Nat, requests : SUBSET Requests, asks : SUBSET Questions]
PumpTypes == [conn : Conns, cursor : Nat, picked : Events, stopped : BOOLEAN]
Spends ==
  [request : 0..MaxRequests, question : 0..MaxQuestions, load : 0..MaxLoads, trouble : 0..MaxTroubles]

\* The session's part; what its mailbox and the wakes it holds carry is not needed.
StateShape ==
  /\ session = [state |-> session.state, question |-> session.question, held |-> session.held]
  /\ session.state \in {"idle", "running", "parked", "closed"}
  /\ session.question \in 0..MaxQuestions /\ (session.question # 0 <=> session.state = "parked")
LogShape == log \in Seq(Events) /\ base \in 0..Len(log)

Shapes ==
  /\ conn \in [Conns -> ConnTypes]
  /\ pumps \in Seq(PumpTypes)
  /\ replies \in [Requests -> Seq(Hows)]
  /\ promised \in [Conns -> 0..MaxQuestions]
  /\ spent \in Spends

\* What a connection keeps at each phase of a frame.
Phase(k) ==
  /\ k.follow \in 0..Len(pumps)
  /\ k.follow = 0 => k.requests = {} /\ k.asks = {}
  /\ k.pc = "free" => k.frame.r = 0
  /\ k.pc \in {"head", "follow"} => k.follow = 0
  /\ k.pc = "send" => k.follow # 0 /\ k.frame.r # 0
  /\ k.frame.kind \in {"running", "parked"} <=> k.pc # "free" /\ k.frame.r = 0
  /\ k.frame.r \notin k.requests

Phases  == \A c \in Conns : Phase(conn[c])
Follows == \A g \in DOMAIN pumps : ~pumps[g].stopped => conn[pumps[g].conn].follow = g

\* The requests a connection has to answer: those of the turn it follows, and
\* its frame's.
PendingOf(c) == conn[c].requests \union ({conn[c].frame.r} \ {0})

\* A request is one connection's, and has no response while it is.
Owned ==
  /\ \A c, d \in Conns : c # d => PendingOf(c) \intersect PendingOf(d) = {}
  /\ \A c \in Conns : \A r \in PendingOf(c) : r <= spent.request /\ replies[r] = <<>>

\* One that no connection has to answer has a response, or was not made.
Answered ==
  \A r \in Requests :
    /\ Len(replies[r]) <= 1
    /\ r > spent.request => replies[r] = <<>>
    /\ r <= spent.request /\ replies[r] = <<>> => \E c \in Conns : r \in PendingOf(c)

IInv == StateShape /\ LogShape /\ Shapes /\ Phases /\ Follows /\ Owned /\ Answered

-----------------------------------------------------------------------------
(* Lemmas.                                                                 *)

LEMMA Bounds == {MaxRequests, MaxQuestions, MaxLoads, MaxTroubles} \subseteq Nat
BY ConnectionAssumption DEF ConnectionAssumption

LEMMA EmptyLen == \A s : s = <<>> => Len(s) = 0
<1>1. Len(<<>>) = 0
  OBVIOUS
<1> QED
  BY <1>1, Zenon

\* A step of the session, or of a pump, that leaves connections and responses.
LEMMA Unanswered ==
  ASSUME Owned, Answered, UNCHANGED <<conn, replies>>, spent'.request = spent.request
  PROVE  Owned' /\ Answered'
BY DEF Owned, Answered, PendingOf

\* A follow has the type of one.
LEMMA PumpType ==
  ASSUME Shapes
  PROVE  /\ DOMAIN pumps = 1..Len(pumps) /\ Len(pumps) \in Nat
         /\ \A g \in DOMAIN pumps : pumps[g] \in PumpTypes
                                 /\ pumps[g].conn \in Conns /\ pumps[g].stopped \in BOOLEAN
<1>1. pumps \in Seq(PumpTypes)
  BY DEF Shapes
<1>2. DOMAIN pumps = 1..Len(pumps) /\ Len(pumps) \in Nat /\ \A g \in DOMAIN pumps : pumps[g] \in PumpTypes
  BY <1>1
<1> QED
  BY <1>2 DEF PumpTypes

\* A response to each request of rs.
LEMMA ReplyAppends ==
  ASSUME Shapes, NEW rs \in SUBSET Requests, NEW how \in Hows, Reply(rs, how)
  PROVE  /\ replies' \in [Requests -> Seq(Hows)]
         /\ \A r \in rs : replies'[r] = Append(replies[r], how) /\ Len(replies'[r]) = Len(replies[r]) + 1
         /\ \A r \in Requests \ rs : replies'[r] = replies[r]
BY DEF Shapes, Reply

\* No response is an answer to no request.
LEMMA NoReply ==
  ASSUME Shapes, UNCHANGED replies
  PROVE  Reply({}, "error")
BY DEF Shapes, Reply

\* What a connection has to answer are requests.
LEMMA PendingRequests ==
  ASSUME Shapes
  PROVE  \A d \in Conns : PendingOf(d) \subseteq Requests
BY Bounds DEF PendingOf, Shapes, ConnTypes, Frames, Requests

\* A connection that answers some of what it has to, and has only the rest
\* left, keeps every request answered once.
LEMMA Settles ==
  ASSUME Shapes, Owned, Answered, NEW c \in Conns, NEW rs \in SUBSET PendingOf(c), NEW how \in Hows,
         Reply(rs, how), NEW k, conn' = [conn EXCEPT ![c] = k],
         PendingOf(c)' = PendingOf(c) \ rs, spent'.request = spent.request
  PROVE  Owned' /\ Answered'
<1>1. \A d \in Conns : PendingOf(d) \subseteq Requests
  BY PendingRequests
<1>2. rs \in SUBSET Requests
  BY <1>1
<1>3. /\ \A r \in rs : Len(replies'[r]) = Len(replies[r]) + 1
      /\ \A r \in Requests \ rs : replies'[r] = replies[r]
  BY <1>2, ReplyAppends
<1>4. \A d \in Conns \ {c} : PendingOf(d)' = PendingOf(d)
  BY DEF PendingOf, Shapes
<1>5. \A r \in rs : replies[r] = <<>> /\ r <= spent.request
  BY DEF Owned
<1>6. ASSUME NEW r \in rs PROVE Len(replies'[r]) = 1
  <2>1. Len(replies[r]) = 0
    BY <1>5, EmptyLen, Zenon
  <2>2. Len(replies'[r]) = Len(replies[r]) + 1
    BY <1>3, Zenon
  <2> QED
    BY <2>1, <2>2
<1>7. Owned'
  <2>1. \A d \in Conns : PendingOf(d)' \subseteq PendingOf(d)
    BY <1>4
  <2>2. \A d \in Conns : \A r \in PendingOf(d)' : r \in Requests \ rs
    BY <1>1, <1>4, <2>1 DEF Owned
  <2> QED
    BY <2>1, <2>2, <1>3 DEF Owned
<1>8. Answered'
  <2>1. ASSUME NEW r \in Requests, r \in rs PROVE Len(replies'[r]) <= 1 /\ replies'[r] # <<>> /\ r <= spent'.request
    <3>1. Len(replies'[r]) = 1
      BY <2>1, <1>6
    <3>2. Len(replies'[r]) <= 1 /\ Len(replies'[r]) # 0
      BY <3>1
    <3>3. replies'[r] # <<>>
      BY <3>2, EmptyLen, Zenon
    <3>4. r <= spent'.request
      BY <2>1, <1>5
    <3> QED
      BY <3>2, <3>3, <3>4
  <2>2. ASSUME NEW r \in Requests, r \notin rs, NEW d \in Conns, r \in PendingOf(d) PROVE r \in PendingOf(d)'
    BY <2>2, <1>4
  <2>3. spent.request \in Nat
    BY Bounds DEF Shapes, Spends
  <2>4. ASSUME NEW r \in Requests, r \in rs PROVE ~(r > spent'.request)
    BY <2>1, <2>3, <2>4 DEF Requests
  <2> QED
    BY <2>1, <2>2, <2>4, <1>3 DEF Answered
<1> QED
  BY <1>7, <1>8

\* A connection that changes and keeps its follow.
LEMMA SamePumps ==
  ASSUME Shapes, Phases, Follows, NEW c \in Conns, NEW k \in ConnTypes, Set(c, k), UNCHANGED pumps,
         Phase(k), k.follow = conn[c].follow
  PROVE  /\ conn' \in [Conns -> ConnTypes] /\ pumps' \in Seq(PumpTypes)
         /\ Phases' /\ Follows'
<1>1. conn' = [conn EXCEPT ![c] = k] /\ conn' \in [Conns -> ConnTypes]
  BY DEF Set, Shapes
<1>2. Phases'
  BY <1>1 DEF Phases, Phase, Shapes
<1>3. Follows'
  <2>1. \A d \in Conns : conn'[d].follow = conn[d].follow
    BY <1>1 DEF Shapes
  <2>2. \A g \in DOMAIN pumps : pumps[g].conn \in Conns
    BY PumpType
  <2> QED
    BY <2>1, <2>2 DEF Follows
<1> QED
  BY <1>1, <1>2, <1>3 DEF Shapes

\* A connection that stops its follow, whose pump is stopped with it.
LEMMA StopsPump ==
  ASSUME Shapes, Phases, Follows, NEW c \in Conns, NEW k \in ConnTypes, conn' = [conn EXCEPT ![c] = k],
         k.follow = 0, k.pc = "free", k.frame.r = 0, k.frame.kind \notin {"running", "parked"},
         k.requests = {}, k.asks = {},
         pumps' \in Seq(PumpTypes), Len(pumps') = Len(pumps),
         \A g \in DOMAIN pumps : pumps'[g].conn = pumps[g].conn,
         \A g \in DOMAIN pumps : ~pumps'[g].stopped => ~pumps[g].stopped /\ g # conn[c].follow
  PROVE  /\ conn' \in [Conns -> ConnTypes] /\ pumps' \in Seq(PumpTypes)
         /\ Phases' /\ Follows'
<1>1. conn' \in [Conns -> ConnTypes]
  BY DEF Shapes
<1>2. Phases'
  BY DEF Phases, Phase, Shapes
<1>3. Follows'
  <2>1. DOMAIN pumps' = DOMAIN pumps
    BY DEF Shapes
  <2>2. \A g \in DOMAIN pumps : pumps[g].conn \in Conns
    BY PumpType
  <2>3. \A d \in Conns \ {c} : conn'[d].follow = conn[d].follow
    BY DEF Shapes
  <2> QED
    BY <2>1, <2>2, <2>3 DEF Follows
<1> QED
  BY <1>1, <1>2, <1>3

\* unfollow is one of them.
LEMMA UnfollowStops ==
  ASSUME Shapes, Phases, Follows, NEW c \in Conns, NEW k \in ConnTypes, Unfollow(c, k),
         k.follow = conn[c].follow, k.pc = "free", k.frame.r = 0,
         k.frame.kind \notin {"running", "parked"}
  PROVE  /\ conn' \in [Conns -> ConnTypes] /\ pumps' \in Seq(PumpTypes)
         /\ Phases' /\ Follows'
         /\ PendingOf(c)' = {}
<1> DEFINE k0 == [k EXCEPT !.follow = 0, !.requests = {}, !.asks = {}]
<1>1. /\ k0 \in ConnTypes /\ k0.follow = 0 /\ k0.pc = "free" /\ k0.frame.r = 0
      /\ k0.frame.kind \notin {"running", "parked"} /\ k0.requests = {} /\ k0.asks = {}
  BY DEF ConnTypes
<1>2. conn' = [conn EXCEPT ![c] = k0]
  BY DEF Unfollow, Set
<1>3. pumps' = [g \in DOMAIN pumps |-> IF g = k.follow THEN [pumps[g] EXCEPT !.stopped = TRUE, !.cursor = 0] ELSE pumps[g]]
  BY DEF Unfollow
<1>4. pumps' \in Seq(PumpTypes) /\ Len(pumps') = Len(pumps)
  <2>1. DOMAIN pumps = 1..Len(pumps) /\ Len(pumps) \in Nat
    BY PumpType
  <2>2. ASSUME NEW g \in 1..Len(pumps) PROVE pumps'[g] \in PumpTypes
    <3>1. PICK p \in PumpTypes : p = pumps[g]
      BY <2>1, PumpType
    <3>2. [p EXCEPT !.stopped = TRUE, !.cursor = 0] \in PumpTypes
      BY DEF PumpTypes
    <3> QED
      BY <1>3, <2>1, <3>1, <3>2
  <2>3. DOMAIN pumps' = 1..Len(pumps)
    BY <1>3, <2>1
  <2>4. pumps' = [g \in 1..Len(pumps) |-> pumps'[g]]
    BY <1>3, <2>1
  <2> QED
    BY <2>1, <2>2, <2>4
<1>5. \A g \in DOMAIN pumps : pumps'[g].conn = pumps[g].conn
  BY <1>3, PumpType DEF PumpTypes
<1>6. \A g \in DOMAIN pumps : ~pumps'[g].stopped => ~pumps[g].stopped /\ g # conn[c].follow
  BY <1>3, PumpType DEF PumpTypes
<1>7. PendingOf(c)' = {}
  BY <1>1, <1>2 DEF PendingOf, Shapes
<1>8. k0 \in ConnTypes
  BY <1>1
<1> HIDE DEF k0
<1> QED
  BY <1>1, <1>2, <1>4, <1>5, <1>6, <1>7, StopsPump

-----------------------------------------------------------------------------
(* Every step keeps the invariant.                                         *)

LEMMA Start == Init => IInv
<1> SUFFICES ASSUME Init PROVE IInv
  OBVIOUS
<1>1. StateShape /\ LogShape
  BY Bounds DEF Init, StateShape, LogShape
<1>2. /\ conn \in [Conns -> ConnTypes] /\ promised \in [Conns -> 0..MaxQuestions] /\ spent \in Spends
  BY Bounds DEF Init, ConnTypes, NoFrame, Frames, Spends
<1>3. pumps = <<>> /\ pumps \in Seq(PumpTypes) /\ Len(pumps) = 0 /\ DOMAIN pumps = {}
  BY DEF Init
<1>4. replies \in [Requests -> Seq(Hows)] /\ \A r \in Requests : replies[r] = <<>> /\ Len(replies[r]) <= 1
  BY DEF Init
<1>5. Phases
  BY <1>3 DEF Init, Phases, Phase, NoFrame
<1>6. Follows
  BY <1>3 DEF Follows
<1>7. Owned
  BY DEF Init, Owned, PendingOf, NoFrame
<1>8. Answered
  BY <1>4 DEF Init, Answered, Requests
<1> QED
  BY <1>1, <1>2, <1>3, <1>4, <1>5, <1>6, <1>7, <1>8 DEF IInv, Shapes

\* A turn that parks asks a question with a number of its own.
LEMMA Asks ==
  ASSUME Shapes, Spend("question", MaxQuestions)
  PROVE  spent' \in Spends /\ spent'.request = spent.request /\ spent'.question \in Questions
<1>1. spent.question \in Nat /\ spent.question < MaxQuestions
  BY Bounds DEF Shapes, Spends, Spend
<1>2. spent' = [spent EXCEPT !.question = spent.question + 1]
  BY DEF Spend
<1>3. spent.question + 1 \in 0..MaxQuestions /\ spent.question + 1 \in Questions
  BY <1>1, Bounds DEF Questions
<1> QED
  BY <1>2, <1>3 DEF Shapes, Spends

\* The session's own steps leave the connections alone.
LEMMA SessionKeeps ==
  ASSUME IInv, SessionStep \/ Park
  PROVE  IInv'
<1> USE DEF IInv
<1>1. /\ UNCHANGED <<conn, pumps, replies, promised>> /\ spent' \in Spends /\ spent'.request = spent.request
  <2>1. CASE SessionStep
    BY <2>1 DEF SessionStep, TakePrompt, TakeAnswer, TakeCancel, TakeClose, EndTurn, TakeWake, told, Shapes
  <2>2. CASE Park
    BY <2>2, Asks DEF Park, told
  <2> QED
    BY <2>1, <2>2
<1>6. Park => spent'.question \in Questions
  BY Asks DEF Park
<1>2. Shapes' /\ Phases' /\ Follows'
  BY <1>1 DEF Shapes, Phases, Phase, Follows
<1>3. Owned' /\ Answered'
  BY <1>1, Unanswered
<1>4. TurnEnd \in Events /\ \A q \in Questions : Ask(q) \in Events
  BY DEF Events
<1>5. LogShape'
  <2>1. log' = log \/ \E ev \in Events : log' = Append(log, ev)
    BY <1>1, <1>4, <1>6 DEF SessionStep, TakePrompt, TakeAnswer, TakeCancel, TakeClose, EndTurn, Park, Emit
  <2>2. log' \in Seq(Events) /\ Len(log) \in Nat /\ Len(log') >= Len(log)
    BY <2>1 DEF LogShape
  <2>3. base' = base \/ base' = Len(log)
    BY DEF SessionStep, TakePrompt, TakeAnswer, TakeCancel, TakeClose, EndTurn, Park
  <2> QED
    BY <2>2, <2>3 DEF LogShape
<1>7. StateShape'
  <2> USE DEF StateShape
  <2>0. 0 \in 0..MaxQuestions
    BY Bounds
  <2>1. CASE TakePrompt
    BY <2>1 DEF TakePrompt
  <2>2. CASE TakeAnswer
    <3>1. CASE session' = [session EXCEPT !.held = Append(@, NextWake)]
      BY <3>1
    <3>2. CASE session' = [session EXCEPT !.state = "running", !.question = 0, !.held = Held]
      BY <3>2, <2>0
    <3>3. CASE session' = [session EXCEPT !.state = "idle", !.question = 0, !.held = Held]
      BY <3>3, <2>0
    <3> QED
      BY <2>2, <3>1, <3>2, <3>3 DEF TakeAnswer
  <2>3. CASE TakeCancel
    BY <2>3, <2>0 DEF TakeCancel
  <2>4. CASE TakeClose
    <3>1. CASE session' = [session EXCEPT !.held = Append(@, NextWake)]
      BY <3>1
    <3>2. CASE session' = [session EXCEPT !.state = "closed", !.question = 0]
      BY <3>2, <2>0
    <3> QED
      BY <2>4, <3>1, <3>2 DEF TakeClose
  <2>5. CASE EndTurn
    BY <2>5 DEF EndTurn
  <2>6. CASE Park
    <3> DEFINE q == spent'.question
    <3>1. q \in 0..MaxQuestions /\ q # 0
      BY <2>6, <1>6, Bounds DEF Questions
    <3>2. session' = [session EXCEPT !.state = "parked", !.question = q]
      BY <2>6 DEF Park
    <3> QED
      BY <3>1, <3>2
  <2> QED
    BY <2>1, <2>2, <2>3, <2>4, <2>5, <2>6 DEF SessionStep
<1> QED
  BY <1>2, <1>3, <1>5, <1>7

\* What no frame changes.
LEMMA WorldKept ==
  ASSUME StateShape, LogShape, UNCHANGED <<session, log, base>>
  PROVE  StateShape' /\ LogShape'
BY DEF StateShape, LogShape

\* Spending leaves the rest of the counts.
LEMMA Spends1 ==
  ASSUME Shapes, Trouble \/ UNCHANGED spent \/ Spend("load", MaxLoads)
  PROVE  spent' \in Spends /\ spent'.request = spent.request
<1> USE DEF Spends
<1>1. CASE Trouble
  <2>1. spent' = [spent EXCEPT !.trouble = spent.trouble + 1] /\ spent.trouble < MaxTroubles
    BY <1>1 DEF Trouble, Spend
  <2>2. spent \in Spends /\ spent.trouble + 1 \in 0..MaxTroubles
    BY <2>1, Bounds DEF Shapes
  <2> QED
    BY <2>1, <2>2
<1>2. CASE UNCHANGED spent
  BY <1>2 DEF Shapes
<1>3. CASE Spend("load", MaxLoads)
  <2>1. spent' = [spent EXCEPT !.load = spent.load + 1] /\ spent.load < MaxLoads
    BY <1>3 DEF Spend
  <2>2. spent \in Spends /\ spent.load + 1 \in 0..MaxLoads
    BY <2>1, Bounds DEF Shapes
  <2> QED
    BY <2>1, <2>2
<1> QED
  BY <1>1, <1>2, <1>3

LEMMA PickKeeps ==
  ASSUME IInv, NEW g \in DOMAIN pumps, Pick(g) \/ Drop(g)
  PROVE  IInv'
<1> USE DEF IInv
<1>1. /\ UNCHANGED <<conn, replies, promised, session, log, base>> /\ (Trouble \/ UNCHANGED spent)
  BY DEF Pick, Drop, world, told
<1>2. spent' \in Spends /\ spent'.request = spent.request
  BY <1>1, Spends1
<1>3. pumps' \in Seq(PumpTypes) /\ Len(pumps') = Len(pumps)
      /\ \A h \in DOMAIN pumps : pumps'[h].conn = pumps[h].conn /\ pumps'[h].stopped = pumps[h].stopped
  <2>1. \E p \in PumpTypes : pumps' = [pumps EXCEPT ![g] = p] /\ p.conn = pumps[g].conn /\ p.stopped = pumps[g].stopped
    <3>1. NoEvent \in Events /\ StreamEnded \in Events
      BY DEF Events
    <3>2. pumps[g] \in PumpTypes
      BY PumpType
    <3>3. CASE Drop(g)
      <4>1. [pumps[g] EXCEPT !.picked = NoEvent] \in PumpTypes
        BY <3>1, <3>2 DEF PumpTypes
      <4>2. pumps' = [pumps EXCEPT ![g] = [pumps[g] EXCEPT !.picked = NoEvent]]
        BY <3>3 DEF Drop
      <4> QED
        BY <4>1, <4>2, <3>2 DEF PumpTypes
    <3>4. CASE Pick(g) /\ pumps' = [pumps EXCEPT ![g].picked = StreamEnded]
      <4>1. [pumps[g] EXCEPT !.picked = StreamEnded] \in PumpTypes
        BY <3>1, <3>2 DEF PumpTypes
      <4>2. pumps' = [pumps EXCEPT ![g] = [pumps[g] EXCEPT !.picked = StreamEnded]]
        BY <3>4
      <4> QED
        BY <4>1, <4>2, <3>2 DEF PumpTypes
    <3>5. CASE Next1(g) \in DOMAIN log /\ pumps' = [pumps EXCEPT ![g].picked = log[Next1(g)], ![g].cursor = Next1(g)]
      <4> DEFINE n == Next1(g)  ev == log[n]  p == [pumps[g] EXCEPT !.picked = ev, !.cursor = n]
      <4>1. ev \in Events /\ n \in Nat
        BY <3>5 DEF LogShape
      <4>2. p \in PumpTypes /\ p.conn = pumps[g].conn /\ p.stopped = pumps[g].stopped
        BY <3>2, <4>1 DEF PumpTypes
      <4>3. pumps' = [pumps EXCEPT ![g] = p]
        BY <3>5
      <4> QED
        BY <4>2, <4>3
    <3> QED
      BY <3>3, <3>4, <3>5 DEF Pick
  <2>2. \A p \in PumpTypes : [pumps EXCEPT ![g] = p] \in Seq(PumpTypes) /\ Len([pumps EXCEPT ![g] = p]) = Len(pumps)
    BY DEF Shapes
  <2> QED
    BY <2>1, <2>2, PumpType
<1>4. Shapes' /\ Phases'
  BY <1>1, <1>2, <1>3 DEF Shapes, Phases, Phase
<1>5. Follows'
  <2>1. DOMAIN pumps' = DOMAIN pumps
    BY <1>3, PumpType
  <2> QED
    BY <1>1, <1>3, <2>1 DEF Follows
<1>6. Owned' /\ Answered'
  BY <1>1, <1>2, Unanswered
<1> QED
  BY <1>1, <1>4, <1>5, <1>6, WorldKept

\* A new request is nobody's, and has no response.
LEMMA Fresh ==
  ASSUME Shapes, Owned, Answered, Spend("request", MaxRequests)
  PROVE  /\ spent' \in Spends /\ spent'.request = spent.request + 1
         /\ spent.request \in Nat /\ spent'.request \in Requests
         /\ replies[spent'.request] = <<>> /\ Len(replies[spent'.request]) = 0
         /\ \A d \in Conns : spent'.request \notin PendingOf(d)
<1>1. spent.request \in Nat /\ spent.request < MaxRequests
  BY Bounds DEF Shapes, Spends, Spend
<1>2. spent' = [spent EXCEPT !.request = spent.request + 1]
  BY DEF Spend
<1>3. spent.request + 1 \in 0..MaxRequests /\ spent.request + 1 \in Requests
  BY <1>1, Bounds DEF Requests
<1>4. spent' \in Spends /\ spent'.request = spent.request + 1
  BY <1>2, <1>3 DEF Shapes, Spends
<1>5. replies[spent'.request] = <<>>
  BY <1>1, <1>3, <1>4 DEF Answered
<1>6. \A d \in Conns : spent'.request \notin PendingOf(d)
  BY <1>1, <1>4 DEF Owned
<1>7. Len(replies[spent'.request]) = 0
  BY <1>5, EmptyLen, Zenon
<1> QED
  BY <1>1, <1>3, <1>4, <1>5, <1>6, <1>7

LEMMA StartTurnKeeps ==
  ASSUME IInv, NEW c \in Conns, StartTurn(c)
  PROVE  IInv'
<1> USE DEF IInv
<1> DEFINE n == spent'.request
<1>1. /\ spent' \in Spends /\ n = spent.request + 1 /\ spent.request \in Nat /\ n \in Requests
      /\ replies[n] = <<>> /\ Len(replies[n]) = 0 /\ \A d \in Conns : n \notin PendingOf(d)
  BY Fresh DEF StartTurn
<1>2. PICK kind \in {"prompt", "answer"}, m \in Nat :
        conn' = [conn EXCEPT ![c] = [conn[c] EXCEPT
                   !.pc = IF conn[c].follow = 0 THEN "head" ELSE "send",
                   !.frame = [kind |-> kind, n |-> m, r |-> n, joined |-> conn[c].follow # 0]]]
  <2>1. PICK frame \in {[kind |-> "prompt", n |-> n]} \union [kind : {"answer"}, n : 1..spent.question] :
          conn' = [conn EXCEPT ![c] = [conn[c] EXCEPT
                   !.pc = IF conn[c].follow = 0 THEN "head" ELSE "send",
                   !.frame = [kind |-> frame.kind, n |-> frame.n, r |-> n, joined |-> conn[c].follow # 0]]]
    BY DEF StartTurn, Set
  <2>2. frame.kind \in {"prompt", "answer"} /\ frame.n \in Nat
    BY <1>1 DEF Requests
  <2> QED
    BY <2>1, <2>2
<1> DEFINE f == [kind |-> kind, n |-> m, r |-> n, joined |-> conn[c].follow # 0]
           k == [conn[c] EXCEPT !.pc = IF conn[c].follow = 0 THEN "head" ELSE "send", !.frame = f]
<1>3. f \in Frames /\ f.r = n /\ f.kind \notin {"running", "parked"}
  BY <1>1, Bounds DEF Frames, Requests
<1>4. /\ k \in ConnTypes /\ k.frame = f /\ k.follow = conn[c].follow /\ k.requests = conn[c].requests
      /\ k.asks = conn[c].asks /\ k.pc = (IF conn[c].follow = 0 THEN "head" ELSE "send")
  BY <1>3 DEF ConnTypes, Shapes
<1>5. conn' = [conn EXCEPT ![c] = k] /\ UNCHANGED <<pumps, replies, promised, session, log, base>>
  BY <1>2 DEF StartTurn, world, told
<1>6. n # 0 /\ n \notin conn[c].requests /\ conn[c].frame.r = 0
  BY <1>1 DEF PendingOf, StartTurn, Free, Phases, Phase
<1>7. Phase(k)
  BY <1>3, <1>4, <1>6 DEF Phases, Phase
<1> HIDE DEF k, f
<1>8. conn' \in [Conns -> ConnTypes] /\ Phases' /\ Follows'
  BY <1>4, <1>5, <1>7, SamePumps DEF Set
<1>9. Shapes'
  BY <1>1, <1>5, <1>8 DEF Shapes
<1>10. /\ \A d \in Conns \ {c} : PendingOf(d)' = PendingOf(d)
       /\ PendingOf(c)' = PendingOf(c) \union {n}
  BY <1>3, <1>4, <1>5, <1>6 DEF PendingOf, Shapes
<1>11. Owned'
  <2>1. ASSUME NEW d \in Conns, NEW e \in Conns, d # e PROVE PendingOf(d)' \intersect PendingOf(e)' = {}
    BY <2>1, <1>1, <1>10 DEF Owned
  <2>2. ASSUME NEW d \in Conns, NEW r \in PendingOf(d)' PROVE r <= spent'.request /\ replies'[r] = <<>>
    <3>1. CASE r = n
      BY <3>1, <1>1, <1>5
    <3>2. CASE r # n
      <4>1. r \in PendingOf(d) /\ r \in Nat
        BY <3>2, <1>10, PendingRequests DEF Requests
      <4> QED
        BY <4>1, <1>1, <1>5 DEF Owned
    <3> QED
      BY <3>1, <3>2
  <2> QED
    BY <2>1, <2>2 DEF Owned
<1>12. Answered'
  <2>1. ASSUME NEW r \in Requests, r <= n, r # n PROVE r <= spent.request
    BY <2>1, <1>1 DEF Requests
  <2>2. ASSUME NEW r \in Requests, r > n PROVE r > spent.request
    BY <2>2, <1>1 DEF Requests
  <2> QED
    BY <2>1, <2>2, <1>1, <1>5, <1>10 DEF Answered
<1> QED
  BY <1>5, <1>8, <1>9, <1>11, <1>12, WorldKept

LEMMA RefuseTurnKeeps ==
  ASSUME IInv, NEW c \in Conns, RefuseTurn(c)
  PROVE  IInv'
<1> USE DEF IInv
<1> DEFINE n == spent'.request
<1>1. /\ spent' \in Spends /\ n = spent.request + 1 /\ spent.request \in Nat /\ n \in Requests
      /\ replies[n] = <<>> /\ Len(replies[n]) = 0 /\ \A d \in Conns : n \notin PendingOf(d)
  BY Fresh DEF RefuseTurn
<1>2. UNCHANGED <<conn, pumps, promised, session, log, base>>
  BY DEF RefuseTurn, world
<1>3. /\ replies' \in [Requests -> Seq(Hows)] /\ Len(replies'[n]) = 1
      /\ \A r \in Requests \ {n} : replies'[r] = replies[r]
  <2>1. Reply({n}, "error") /\ {n} \in SUBSET Requests /\ "error" \in Hows
    BY <1>1 DEF RefuseTurn, Hows
  <2>2. /\ replies' \in [Requests -> Seq(Hows)] /\ Len(replies'[n]) = Len(replies[n]) + 1
        /\ \A r \in Requests \ {n} : replies'[r] = replies[r]
    BY <2>1, ReplyAppends
  <2> QED
    BY <2>2, <1>1
<1>4. Shapes' /\ Phases' /\ Follows'
  BY <1>1, <1>2, <1>3 DEF Shapes, Phases, Phase, Follows
<1>5. Owned'
  <2>1. \A d \in Conns : PendingOf(d) \subseteq Requests \ {n}
    BY <1>1, PendingRequests
  <2>2. \A d \in Conns : \A r \in PendingOf(d) : r <= n
    BY <2>1, <1>1 DEF Owned, Requests
  <2>3. \A d \in Conns : PendingOf(d)' = PendingOf(d)
    BY <1>2 DEF PendingOf
  <2> QED
    BY <2>1, <2>2, <2>3, <1>3 DEF Owned
<1>6. Answered'
  <2>1. ASSUME NEW r \in Requests, r <= n, r # n PROVE r <= spent.request
    BY <2>1, <1>1 DEF Requests
  <2>2. ASSUME NEW r \in Requests, r > n PROVE r > spent.request /\ r # n
    BY <2>2, <1>1 DEF Requests
  <2>3. Len(replies'[n]) <= 1 /\ Len(replies'[n]) # 0 /\ ~(n > n)
    BY <1>1, <1>3
  <2>4. replies'[n] # <<>>
    BY <2>3, EmptyLen, Zenon
  <2>5. \A d \in Conns : PendingOf(d)' = PendingOf(d)
    BY <1>2 DEF PendingOf
  <2> QED
    BY <2>1, <2>2, <2>3, <2>4, <2>5, <1>3 DEF Answered
<1> QED
  BY <1>2, <1>4, <1>5, <1>6, WorldKept

\* A connection that changes neither its follow nor what it has to answer.
LEMMA QuietStep ==
  ASSUME IInv, NEW c \in Conns, NEW k \in ConnTypes, Set(c, k), UNCHANGED <<pumps, replies, session, log, base>>,
         Phase(k), k.follow = conn[c].follow, k.requests = conn[c].requests, k.frame.r = conn[c].frame.r,
         promised' \in [Conns -> 0..MaxQuestions], Trouble \/ UNCHANGED spent \/ Spend("load", MaxLoads)
  PROVE  IInv'
<1> USE DEF IInv
<1>1. spent' \in Spends /\ spent'.request = spent.request
  BY Spends1
<1>2. conn' \in [Conns -> ConnTypes] /\ Phases' /\ Follows'
  BY SamePumps
<1>3. conn' = [conn EXCEPT ![c] = k]
  BY DEF Set
<1>4. Reply({}, "error") /\ "error" \in Hows
  BY NoReply DEF Hows
<1>5. PendingOf(c)' = PendingOf(c) \ {} /\ {} \in SUBSET PendingOf(c)
  BY <1>3 DEF PendingOf, Shapes
<1>6. Owned' /\ Answered'
  BY <1>1, <1>3, <1>4, <1>5, Settles
<1> QED
  BY <1>1, <1>2, <1>6, WorldKept DEF Shapes

LEMMA ReadHeadKeeps ==
  ASSUME IInv, NEW c \in Conns, ReadHead(c)
  PROVE  IInv'
<1> USE DEF IInv
<1>1. PICK after \in Nat : Set(c, [conn[c] EXCEPT !.pc = "follow", !.after = after])
  <2>1. Len(log) \in Nat
    BY DEF LogShape
  <2>2. \A waits : From(Len(log), waits) \in Nat
    BY <2>1 DEF From
  <2> QED
    BY <2>2 DEF ReadHead
<1> DEFINE k == [conn[c] EXCEPT !.pc = "follow", !.after = after]
<1>2. /\ k \in ConnTypes /\ k.pc = "follow" /\ k.frame = conn[c].frame /\ k.follow = conn[c].follow
      /\ k.requests = conn[c].requests /\ k.asks = conn[c].asks
  BY DEF Shapes, ConnTypes
<1>3. Phase(k)
  BY <1>2 DEF Phases, Phase, ReadHead
<1>4. UNCHANGED <<pumps, replies, promised, session, log, base>> /\ (Trouble \/ UNCHANGED spent)
  BY DEF ReadHead, world, told
<1>5. promised' \in [Conns -> 0..MaxQuestions]
  BY <1>4 DEF Shapes
<1>6. Set(c, k)
  BY <1>1
<1> HIDE DEF k
<1> QED
  BY <1>2, <1>3, <1>4, <1>5, <1>6, QuietStep

\* A step that leaves the connections and what they were told.
LEMMA ElsewhereKeeps ==
  ASSUME IInv, UNCHANGED <<conn, pumps, replies, session, log, base>>,
         promised' \in [Conns -> 0..MaxQuestions],
         Trouble \/ UNCHANGED spent \/ Spend("load", MaxLoads)
  PROVE  IInv'
<1> USE DEF IInv
<1>1. spent' \in Spends /\ spent'.request = spent.request
  BY Spends1
<1>2. Shapes' /\ Phases' /\ Follows'
  BY <1>1 DEF Shapes, Phases, Phase, Follows
<1> QED
  BY <1>1, <1>2, Unanswered, WorldKept

LEMMA LoadKeeps ==
  ASSUME IInv, NEW c \in Conns, Load(c)
  PROVE  IInv'
<1> USE DEF IInv
<1>1. UNCHANGED <<pumps, replies, session, log, base>> /\ Spend("load", MaxLoads)
  BY DEF Load, world
<1>2. promised' \in [Conns -> 0..MaxQuestions]
  BY DEF Load, Shapes, StateShape
<1>3. CASE UNCHANGED conn
  BY <1>1, <1>2, <1>3, ElsewhereKeeps
<1>4. CASE /\ Status \in {"running", "parked"} /\ conn[c].follow = 0
           /\ Set(c, [conn[c] EXCEPT !.pc = "head", !.frame.kind = Status])
  <2> DEFINE k == [conn[c] EXCEPT !.pc = "head", !.frame.kind = Status]
  <2>1. conn[c] \in ConnTypes /\ conn[c].frame \in Frames
    BY DEF Shapes, ConnTypes
  <2>2. /\ [conn[c].frame EXCEPT !.kind = Status] \in Frames
        /\ [conn[c].frame EXCEPT !.kind = Status].kind = Status
        /\ [conn[c].frame EXCEPT !.kind = Status].r = conn[c].frame.r
    BY <1>4, <2>1 DEF Frames
  <2>3. /\ k \in ConnTypes /\ k.pc = "head" /\ k.frame.kind = Status /\ k.frame.r = conn[c].frame.r
        /\ k.follow = conn[c].follow /\ k.requests = conn[c].requests /\ k.asks = conn[c].asks
    BY <2>1, <2>2 DEF ConnTypes
  <2>4. conn[c].frame.r = 0
    BY DEF Load, Free, Phases, Phase
  <2>5. Phase(k)
    BY <1>4, <2>3, <2>4 DEF Phases, Phase
  <2>6. Set(c, k)
    BY <1>4
  <2> HIDE DEF k
  <2> QED
    BY <1>1, <1>2, <2>3, <2>5, <2>6, QuietStep
<1> QED
  BY <1>3, <1>4 DEF Load

LEMMA CancelKeeps ==
  ASSUME IInv, NEW c \in Conns, Cancel(c)
  PROVE  IInv'
<1>1. UNCHANGED <<conn, pumps, replies, promised, session, log, base>> /\ Trouble
  BY DEF Cancel, told
<1> QED
  BY <1>1, ElsewhereKeeps DEF IInv, Shapes

\* A frame that is done leaves nothing of it.
LEMMA DoneType ==
  ASSUME NEW k \in ConnTypes
  PROVE  /\ Done(k) \in ConnTypes /\ Done(k).pc = "free" /\ Done(k).frame.r = 0
         /\ Done(k).frame.kind \notin {"running", "parked"}
         /\ Done(k).follow = k.follow /\ Done(k).requests = k.requests /\ Done(k).asks = k.asks
<1>1. NoFrame \in Frames /\ NoFrame.r = 0 /\ NoFrame.kind \notin {"running", "parked"}
  BY Bounds DEF NoFrame, Frames
<1> QED
  BY <1>1 DEF Done, ConnTypes

LEMMA OpenFollowKeeps ==
  ASSUME IInv, NEW c \in Conns, OpenFollow(c)
  PROVE  IInv'
<1> USE DEF IInv
<1> DEFINE k == conn[c]
           loads == k.frame.kind \in {"running", "parked"}
<1>1. /\ k \in ConnTypes /\ Phase(k) /\ k.follow = 0 /\ k.requests = {} /\ k.asks = {} /\ k.pc = "follow"
      /\ k.after \in Nat
  BY DEF OpenFollow, Phases, Phase, Shapes, ConnTypes
<1>2. UNCHANGED <<session, log, base>>
  BY DEF OpenFollow, world
<1>3. Done(k) \in ConnTypes /\ Done(k).pc = "free" /\ Done(k).frame.r = 0
      /\ Done(k).frame.kind \notin {"running", "parked"}
      /\ Done(k).follow = k.follow /\ Done(k).requests = k.requests /\ Done(k).asks = k.asks
  BY <1>1, DoneType
<1>4. CASE /\ pumps' = Append(pumps, [conn |-> c, cursor |-> k.after, picked |-> NoEvent, stopped |-> FALSE])
           /\ Set(c, [(IF loads THEN Done(k) ELSE [k EXCEPT !.pc = "send"]) EXCEPT
                        !.follow = Len(pumps'), !.requests = {}, !.asks = {}, !.after = 0])
           /\ UNCHANGED <<told, spent>>
  <2> DEFINE p  == [conn |-> c, cursor |-> k.after, picked |-> NoEvent, stopped |-> FALSE]
             k0 == IF loads THEN Done(k) ELSE [k EXCEPT !.pc = "send"]
             k1 == [k0 EXCEPT !.follow = Len(pumps'), !.requests = {}, !.asks = {}, !.after = 0]
  <2>1. p \in PumpTypes /\ p.conn = c
    BY <1>1 DEF PumpTypes, Events
  <2>2. /\ pumps' \in Seq(PumpTypes) /\ Len(pumps') = Len(pumps) + 1 /\ Len(pumps) \in Nat
        /\ \A g \in 1..Len(pumps) : pumps'[g] = pumps[g]
        /\ pumps'[Len(pumps')] = p
        /\ DOMAIN pumps = 1..Len(pumps) /\ DOMAIN pumps' = 1..(Len(pumps) + 1)
    BY <1>4, <2>1 DEF Shapes
  <2>3. /\ k0 \in ConnTypes /\ k0.pc = (IF loads THEN "free" ELSE "send")
        /\ k0.frame.r = k.frame.r /\ (k0.frame.kind \in {"running", "parked"} <=> FALSE)
    <3>1. CASE loads
      BY <3>1, <1>1, <1>3 DEF Phase
    <3>2. CASE ~loads
      BY <3>2, <1>1 DEF ConnTypes
    <3> QED
      BY <3>1, <3>2
  <2>4. /\ k1 \in ConnTypes /\ k1.pc = k0.pc /\ k1.frame = k0.frame /\ k1.follow = Len(pumps')
        /\ k1.requests = {} /\ k1.asks = {}
    <3>1. Len(pumps') \in Nat
      BY <2>2
    <3> HIDE DEF k0
    <3> QED
      BY <3>1, <2>3 DEF ConnTypes
  <2>5. k1.follow \in 0..Len(pumps') /\ k1.follow # 0
    BY <2>2, <2>4
  <2>6. k1.pc = "free" => k1.frame.r = 0
    BY <1>1, <2>3, <2>4 DEF Phase
  <2>7. k1.pc = "send" => k1.frame.r # 0
    BY <1>1, <2>3, <2>4 DEF Phase
  <2>8. k1.pc \notin {"head", "follow"} /\ (k1.pc # "free" => k1.frame.r # 0)
    BY <1>1, <2>3, <2>4 DEF Phase
  <2>9. conn' = [conn EXCEPT ![c] = k1]
    BY <1>4 DEF Set
  <2> HIDE DEF k0, k1, p
  <2>10. Phases'
    <3>1. ASSUME NEW d \in Conns, d # c PROVE Phase(conn[d])'
      <4>1. conn'[d] = conn[d] /\ Phase(conn[d])
        BY <3>1, <2>9 DEF Phases, Shapes
      <4>2. conn[d].follow \in 0..Len(pumps')
        BY <4>1, <2>2 DEF Phase
      <4> QED
        BY <4>1, <4>2 DEF Phase
    <3>2. conn'[c] = k1
      BY <2>9 DEF Shapes
    <3>3. Phase(conn[c])'
      BY <3>2, <2>3, <2>4, <2>5, <2>6, <2>7, <2>8 DEF Phase
    <3> QED
      BY <3>1, <3>3 DEF Phases
  <2>11. Follows'
    <3>1. ASSUME NEW g \in 1..Len(pumps), ~pumps'[g].stopped PROVE conn'[pumps'[g].conn].follow = g
      <4>1. conn[pumps[g].conn].follow = g /\ pumps[g].conn \in Conns
        BY <3>1, <2>2, PumpType DEF Follows
      <4>2. g # 0
        BY <2>2
      <4>3. pumps[g].conn # c
        BY <4>1, <4>2, <1>1
      <4> QED
        BY <4>1, <4>3, <2>2, <2>9 DEF Shapes
    <3>2. conn'[pumps'[Len(pumps')].conn].follow = Len(pumps')
      BY <2>1, <2>2, <2>4, <2>9 DEF Shapes
    <3>3. \A g \in DOMAIN pumps' : g \in 1..Len(pumps) \/ g = Len(pumps')
      BY <2>2
    <3> QED
      BY <3>1, <3>2, <3>3 DEF Follows
  <2>12. Shapes'
    BY <1>4, <2>2, <2>4, <2>9 DEF Shapes, told
  <2>13. PendingOf(c)' = PendingOf(c) \ {} /\ {} \in SUBSET PendingOf(c)
    BY <1>1, <2>3, <2>4, <2>9 DEF PendingOf, Shapes
  <2>14. Reply({}, "error") /\ "error" \in Hows /\ spent'.request = spent.request
    BY <1>4, NoReply DEF Hows, told
  <2>15. Owned' /\ Answered'
    BY <2>9, <2>13, <2>14, Settles
  <2> QED
    BY <1>2, <2>10, <2>11, <2>12, <2>15, WorldKept
<1>5. CASE /\ UNCHANGED spent \/ Trouble
           /\ Set(c, [Done(k) EXCEPT !.after = 0])
           /\ Reply(IF loads THEN {} ELSE {k.frame.r}, "error")
           /\ promised' = [promised EXCEPT ![c] = 0]
           /\ UNCHANGED pumps
  <2> DEFINE k1 == [Done(k) EXCEPT !.after = 0]
             rs == IF loads THEN {} ELSE {k.frame.r}
  <2>1. /\ k1 \in ConnTypes /\ k1.pc = "free" /\ k1.frame.r = 0 /\ k1.follow = 0 /\ k1.requests = {}
        /\ k1.frame.kind \notin {"running", "parked"} /\ k1.asks = {}
    BY <1>1, <1>3 DEF ConnTypes
  <2>2. Phase(k1)
    BY <2>1, PumpType DEF Phase
  <2>3. conn' = [conn EXCEPT ![c] = k1] /\ Set(c, k1)
    BY <1>5 DEF Set
  <2>4. PendingOf(c) = rs
    BY <1>1 DEF PendingOf, Phase
  <2>5. Reply(rs, "error") /\ "error" \in Hows
    BY <1>5 DEF Hows
  <2> HIDE DEF k1, rs
  <2>6. conn' \in [Conns -> ConnTypes] /\ Phases' /\ Follows'
    BY <1>1, <1>5, <2>1, <2>2, <2>3, SamePumps
  <2>7. PendingOf(c)' = PendingOf(c) \ rs
    BY <2>1, <2>3, <2>4 DEF PendingOf, Shapes
  <2>8. spent' \in Spends /\ spent'.request = spent.request
    BY <1>5, Spends1
  <2>9. Owned' /\ Answered'
    BY <2>3, <2>4, <2>5, <2>7, <2>8, Settles
  <2>10. replies' \in [Requests -> Seq(Hows)]
    <3>1. rs \in SUBSET Requests
      BY <2>4, PendingRequests
    <3> QED
      BY <3>1, <2>5, ReplyAppends
  <2>11. promised' \in [Conns -> 0..MaxQuestions]
    BY <1>5, Bounds DEF Shapes
  <2> QED
    BY <1>2, <1>5, <2>6, <2>8, <2>9, <2>10, <2>11, WorldKept DEF Shapes
<1> QED
  BY <1>4, <1>5 DEF OpenFollow

LEMMA SendTurnKeeps ==
  ASSUME IInv, NEW c \in Conns, SendTurn(c)
  PROVE  IInv'
<1> USE DEF IInv
<1> DEFINE k == conn[c]
           r == k.frame.r
           d == Done(k)
<1>1. /\ k \in ConnTypes /\ Phase(k) /\ k.follow # 0 /\ r # 0 /\ r \notin k.requests
      /\ r \in Requests /\ 0 \notin k.requests
  <2>1. k \in ConnTypes /\ Phase(k) /\ k.follow # 0 /\ r # 0 /\ r \notin k.requests
    BY DEF SendTurn, Phases, Phase, Shapes
  <2>2. r \in PendingOf(c)
    BY <2>1 DEF PendingOf
  <2>3. k.requests \subseteq Requests /\ 0 \notin Requests
    BY <2>1 DEF ConnTypes, Requests
  <2> QED
    BY <2>1, <2>2, <2>3, PendingRequests
<1>2. UNCHANGED <<session, log, base, promised>>
  BY DEF SendTurn
<1>3. /\ d \in ConnTypes /\ d.pc = "free" /\ d.frame.r = 0 /\ d.frame.kind \notin {"running", "parked"}
      /\ d.follow = k.follow /\ d.requests = k.requests /\ d.asks = k.asks
  BY <1>1, DoneType
<1>4. spent' \in Spends /\ spent'.request = spent.request
  <2>1. Trouble \/ UNCHANGED spent
    BY DEF SendTurn, CallFails
  <2> QED
    BY <2>1, Spends1
<1>5. "error" \in Hows /\ {r} \in SUBSET PendingOf(c) /\ PendingOf(c) = k.requests \union {r}
  BY <1>1 DEF Hows, PendingOf
<1>6. CASE /\ Set(c, [d EXCEPT !.requests = @ \union {r}])
           /\ UNCHANGED <<pumps, replies>>
  <2> DEFINE k1 == [d EXCEPT !.requests = @ \union {r}]
  <2>1. /\ k1 \in ConnTypes /\ k1.pc = "free" /\ k1.frame.r = 0 /\ k1.follow = k.follow
        /\ k1.frame.kind \notin {"running", "parked"} /\ k1.requests = k.requests \union {r} /\ k1.asks = k.asks
    BY <1>1, <1>3 DEF ConnTypes
  <2>2. Phase(k1)
    BY <1>1, <2>1 DEF Phase
  <2>3. conn' = [conn EXCEPT ![c] = k1] /\ Set(c, k1)
    BY <1>6 DEF Set
  <2> HIDE DEF k1
  <2>4. conn' \in [Conns -> ConnTypes] /\ Phases' /\ Follows'
    BY <1>6, <2>1, <2>2, <2>3, SamePumps
  <2>5. PendingOf(c)' = PendingOf(c) \ {} /\ {} \in SUBSET PendingOf(c)
    BY <1>5, <2>1, <2>3 DEF PendingOf, Shapes
  <2>6. Reply({}, "error")
    BY <1>6, NoReply
  <2>7. Owned' /\ Answered'
    BY <1>4, <1>5, <2>3, <2>5, <2>6, Settles
  <2> QED
    BY <1>2, <1>4, <1>6, <2>4, <2>7, WorldKept DEF Shapes
<1>7. CASE Reply({r}, "error") /\ Set(c, d) /\ UNCHANGED pumps
  <2>1. Phase(d)
    BY <1>1, <1>3 DEF Phase
  <2>2. conn' = [conn EXCEPT ![c] = d]
    BY <1>7 DEF Set
  <2> HIDE DEF d
  <2>3. conn' \in [Conns -> ConnTypes] /\ Phases' /\ Follows'
    BY <1>3, <1>7, <2>1, SamePumps
  <2>4. PendingOf(c)' = PendingOf(c) \ {r}
    BY <1>1, <1>3, <1>5, <2>2 DEF PendingOf, Shapes
  <2>5. Owned' /\ Answered'
    BY <1>4, <1>5, <1>7, <2>2, <2>4, Settles
  <2>6. replies' \in [Requests -> Seq(Hows)]
    BY <1>1, <1>5, <1>7, ReplyAppends
  <2> QED
    BY <1>2, <1>4, <1>7, <2>3, <2>5, <2>6, WorldKept DEF Shapes
<1>8. CASE Reply({r}, "error") /\ k.requests = {} /\ Unfollow(c, d)
  <2> HIDE DEF d
  <2>1. /\ conn' \in [Conns -> ConnTypes] /\ pumps' \in Seq(PumpTypes) /\ Phases' /\ Follows'
        /\ PendingOf(c)' = {}
    BY <1>3, <1>8, UnfollowStops
  <2>2. PendingOf(c)' = PendingOf(c) \ {r}
    BY <1>5, <1>8, <2>1
  <2>3. \E k1 : conn' = [conn EXCEPT ![c] = k1]
    BY <1>8 DEF Unfollow, Set
  <2>4. Owned' /\ Answered'
    BY <1>4, <1>5, <1>8, <2>2, <2>3, Settles
  <2>5. replies' \in [Requests -> Seq(Hows)]
    BY <1>1, <1>5, <1>8, ReplyAppends
  <2> QED
    BY <1>2, <1>4, <2>1, <2>4, <2>5, WorldKept DEF Shapes
<1> QED
  BY <1>6, <1>7, <1>8 DEF SendTurn

\* A connection that stops its follow and answers every request of it.
LEMMA LeavesTurn ==
  ASSUME IInv, NEW c \in Conns, Free(c), NEW k \in ConnTypes, Unfollow(c, k),
         k.follow = conn[c].follow, k.pc = "free", k.frame = conn[c].frame,
         NEW how \in Hows, Reply(conn[c].requests, how), Trouble \/ UNCHANGED spent,
         UNCHANGED <<session, log, base>>, promised' \in [Conns -> 0..MaxQuestions]
  PROVE  IInv'
<1> USE DEF IInv
<1>1. spent' \in Spends /\ spent'.request = spent.request
  BY Spends1
<1>2. conn[c].frame.r = 0 /\ conn[c].frame.kind \notin {"running", "parked"}
  BY DEF Free, Phases, Phase
<1>3. /\ conn' \in [Conns -> ConnTypes] /\ pumps' \in Seq(PumpTypes) /\ Phases' /\ Follows'
      /\ PendingOf(c)' = {}
  BY <1>2, UnfollowStops
<1>4. PendingOf(c) = conn[c].requests
  BY <1>2 DEF PendingOf
<1>5. PendingOf(c)' = PendingOf(c) \ conn[c].requests /\ conn[c].requests \in SUBSET PendingOf(c)
  BY <1>3, <1>4
<1>6. \E k1 : conn' = [conn EXCEPT ![c] = k1]
  BY DEF Unfollow, Set
<1>7. Owned' /\ Answered'
  BY <1>1, <1>5, <1>6, Settles
<1>8. replies' \in [Requests -> Seq(Hows)]
  <2>1. conn[c].requests \in SUBSET Requests
    BY <1>4, PendingRequests
  <2> QED
    BY <2>1, ReplyAppends
<1> QED
  BY <1>1, <1>3, <1>7, <1>8, WorldKept DEF Shapes

LEMMA CloseSessionKeeps ==
  ASSUME IInv, NEW c \in Conns, CloseSession(c)
  PROVE  IInv'
<1>1. conn[c] \in ConnTypes /\ conn[c].pc = "free" /\ "left" \in Hows /\ Free(c)
  BY DEF IInv, Shapes, CloseSession, Free, Hows
<1>2. promised' \in [Conns -> 0..MaxQuestions]
  BY Bounds DEF IInv, Shapes, CloseSession
<1>3. /\ Unfollow(c, conn[c]) /\ Reply(conn[c].requests, "left") /\ Trouble
      /\ UNCHANGED <<session, log, base>>
  BY DEF CloseSession
<1> QED
  BY <1>1, <1>2, <1>3, LeavesTurn

LEMMA DisconnectKeeps ==
  ASSUME IInv, NEW c \in Conns, Disconnect(c)
  PROVE  IInv'
<1> DEFINE k == [conn[c] EXCEPT !.up = FALSE]
<1>1. k \in ConnTypes /\ k.pc = "free" /\ k.follow = conn[c].follow /\ k.frame = conn[c].frame
  BY DEF IInv, Shapes, ConnTypes, Disconnect, Free
<1>2. "left" \in Hows /\ promised' \in [Conns -> 0..MaxQuestions]
  BY Bounds DEF IInv, Shapes, Disconnect, Hows
<1>3. /\ Free(c) /\ Unfollow(c, k) /\ Reply(conn[c].requests, "left") /\ Trouble
      /\ UNCHANGED <<session, log, base>>
  BY DEF Disconnect, world
<1> HIDE DEF k
<1> QED
  BY <1>1, <1>2, <1>3, LeavesTurn

LEMMA AnswerKeeps ==
  ASSUME IInv, NEW c \in Conns, NEW q \in Questions, Answer(c, q)
  PROVE  IInv'
<1> USE DEF IInv
<1> DEFINE k == [conn[c] EXCEPT !.asks = @ \ {q}]
<1>1. /\ k \in ConnTypes /\ k.pc = "free" /\ k.follow = conn[c].follow /\ k.frame = conn[c].frame
      /\ k.requests = conn[c].requests /\ k.asks = conn[c].asks \ {q}
  BY DEF Shapes, ConnTypes, Answer, Free
<1>2. UNCHANGED <<session, log, base, promised>> /\ Free(c)
  BY DEF Answer
<1>3. promised' \in [Conns -> 0..MaxQuestions]
  BY <1>2 DEF Shapes
<1>4. Trouble \/ UNCHANGED spent
  BY DEF Answer, CallFails
<1>5. CASE Set(c, k) /\ UNCHANGED <<pumps, replies>>
  <2>1. Phase(k)
    BY <1>1, <1>2 DEF Phases, Phase, Free
  <2> HIDE DEF k
  <2> QED
    BY <1>1, <1>2, <1>3, <1>4, <1>5, <2>1, QuietStep
<1>6. CASE EndWithError(c, k)
  <2>1. Reply(conn[c].requests, "error") /\ Unfollow(c, k) /\ "error" \in Hows
    BY <1>1, <1>6 DEF EndWithError, Hows
  <2> HIDE DEF k
  <2> QED
    BY <1>1, <1>2, <1>3, <1>4, <2>1, LeavesTurn
<1> QED
  BY <1>5, <1>6 DEF Answer

LEMMA DeliverKeeps ==
  ASSUME IInv, NEW g \in DOMAIN pumps, Deliver(g)
  PROVE  IInv'
<1> USE DEF IInv
<1>0. PICK c \in Conns : c = pumps[g].conn
  BY PumpType
<1> DEFINE k == conn[c]
           ev == pumps[g].picked
<1>1. pumps[g].conn = c /\ pumps[g] \in PumpTypes /\ ~pumps[g].stopped
  BY <1>0, PumpType DEF Deliver, Delivers
<1>2. k \in ConnTypes /\ k.follow = g /\ k.pc = "free" /\ k.frame.r = 0
      /\ k.frame.kind \notin {"running", "parked"} /\ Phase(k)
  BY <1>1 DEF Shapes, Follows, Deliver, Free, Phases, Phase
<1>3. UNCHANGED <<session, log, base>> /\ (Trouble \/ UNCHANGED spent)
  BY DEF Deliver, world
<1>4. spent' \in Spends /\ spent'.request = spent.request
  BY <1>3, Spends1
<1>5. promised' \in [Conns -> 0..MaxQuestions]
  BY <1>1, Bounds DEF Deliver, Shapes
<1>6. DOMAIN pumps = 1..Len(pumps) /\ Len(pumps) \in Nat /\ NoEvent \in Events
  BY PumpType DEF Events
<1>7. CASE /\ ev.kind = "ask"
           /\ Set(c, [k EXCEPT !.asks = @ \union {ev.n}])
           /\ pumps' = [pumps EXCEPT ![g].picked = NoEvent]
           /\ UNCHANGED replies
  <2> DEFINE k1 == [k EXCEPT !.asks = @ \union {ev.n}]
             p  == [pumps[g] EXCEPT !.picked = NoEvent]
  <2>1. ev.n \in Questions
    BY <1>1, <1>7 DEF PumpTypes, Events, TurnEnd, StreamEnded, NoEvent, Ask
  <2>2. /\ k1 \in ConnTypes /\ k1.pc = k.pc /\ k1.frame = k.frame /\ k1.follow = k.follow
        /\ k1.requests = k.requests
    BY <1>2, <2>1 DEF ConnTypes
  <2>3. p \in PumpTypes /\ p.conn = pumps[g].conn /\ p.stopped = pumps[g].stopped
    BY <1>1, <1>6 DEF PumpTypes
  <2>4. pumps' = [pumps EXCEPT ![g] = p] /\ conn' = [conn EXCEPT ![c] = k1]
    BY <1>7 DEF Set
  <2> HIDE DEF k1, p
  <2>5. pumps' \in Seq(PumpTypes) /\ Len(pumps') = Len(pumps) /\ DOMAIN pumps' = DOMAIN pumps
    BY <2>3, <2>4 DEF Shapes
  <2>6. \A h \in DOMAIN pumps : pumps'[h].conn = pumps[h].conn /\ pumps'[h].stopped = pumps[h].stopped
    BY <2>3, <2>4, PumpType
  <2>7. \A d \in Conns : conn'[d].follow = conn[d].follow
    BY <1>1, <2>2, <2>4 DEF Shapes
  <2>8. Follows'
    BY <2>5, <2>6, <2>7, PumpType DEF Follows
  <2>9. Phases'
    <3>1. g # 0
      BY <1>6
    <3>2. conn'[c] = k1 /\ \A d \in Conns \ {c} : conn'[d] = conn[d]
      BY <1>1, <2>4 DEF Shapes
    <3>3. Phase(conn[c])'
      BY <1>2, <2>2, <2>5, <3>1, <3>2 DEF Phase
    <3>4. ASSUME NEW d \in Conns, d # c PROVE Phase(conn[d])'
      BY <3>2, <3>4, <2>5 DEF Phases, Phase
    <3> QED
      BY <3>3, <3>4 DEF Phases
  <2>10. PendingOf(c)' = PendingOf(c) \ {} /\ {} \in SUBSET PendingOf(c)
    BY <1>1, <2>2, <2>4 DEF PendingOf, Shapes
  <2>11. Reply({}, "error") /\ "error" \in Hows
    BY <1>7, NoReply DEF Hows
  <2>12. Owned' /\ Answered'
    BY <1>1, <1>4, <2>4, <2>10, <2>11, Settles
  <2>13. conn' \in [Conns -> ConnTypes]
    BY <1>1, <2>2, <2>4 DEF Shapes
  <2> QED
    BY <1>3, <1>4, <1>5, <1>7, <2>5, <2>8, <2>9, <2>12, <2>13, WorldKept DEF Shapes
<1>8. ASSUME NEW how \in {"error", "end"}, Reply(k.requests, how),
             Set(c, [k EXCEPT !.follow = 0, !.requests = {}, !.asks = {}]),
             pumps' = [pumps EXCEPT ![g].picked = NoEvent, ![g].stopped = TRUE, ![g].cursor = 0]
      PROVE  IInv'
  <2> DEFINE k1 == [k EXCEPT !.follow = 0, !.requests = {}, !.asks = {}]
             p  == [pumps[g] EXCEPT !.picked = NoEvent, !.stopped = TRUE, !.cursor = 0]
  <2>1. /\ k1 \in ConnTypes /\ k1.pc = "free" /\ k1.frame = k.frame /\ k1.follow = 0
        /\ k1.requests = {} /\ k1.asks = {}
    BY <1>2 DEF ConnTypes
  <2>2. p \in PumpTypes /\ p.conn = pumps[g].conn /\ p.stopped
    BY <1>1, <1>6 DEF PumpTypes
  <2>3. pumps' = [pumps EXCEPT ![g] = p]
    BY <1>8
  <2>4. conn' = [conn EXCEPT ![c] = k1]
    BY <1>8 DEF Set
  <2> HIDE DEF k1, p
  <2>5. pumps' \in Seq(PumpTypes) /\ Len(pumps') = Len(pumps)
    BY <2>2, <2>3 DEF Shapes
  <2>6. /\ \A h \in DOMAIN pumps : pumps'[h].conn = pumps[h].conn
        /\ \A h \in DOMAIN pumps : ~pumps'[h].stopped => ~pumps[h].stopped /\ h # k.follow
    BY <1>2, <2>2, <2>3, PumpType
  <2>7. conn' \in [Conns -> ConnTypes] /\ Phases' /\ Follows'
    <3>1. k1.frame.r = 0 /\ k1.frame.kind \notin {"running", "parked"}
      BY <1>2, <2>1
    <3> QED
      BY <1>1, <2>1, <2>4, <2>5, <2>6, <3>1, StopsPump
  <2>8. PendingOf(c) = k.requests /\ PendingOf(c)' = {}
    BY <1>1, <1>2, <2>1, <2>4 DEF PendingOf, Shapes
  <2>9. PendingOf(c)' = PendingOf(c) \ k.requests /\ k.requests \in SUBSET PendingOf(c) /\ how \in Hows
    BY <2>8 DEF Hows
  <2>10. Owned' /\ Answered'
    BY <1>1, <1>4, <1>8, <2>4, <2>9, Settles
  <2>11. replies' \in [Requests -> Seq(Hows)]
    <3>1. k.requests \in SUBSET Requests
      BY <1>1, <2>8, PendingRequests
    <3> QED
      BY <1>8, <2>9, <3>1, ReplyAppends
  <2> QED
    BY <1>3, <1>4, <1>5, <2>5, <2>7, <2>10, <2>11, WorldKept DEF Shapes
<1> QED
  BY <1>1, <1>7, <1>8 DEF Deliver

-----------------------------------------------------------------------------
(* The theorem.                                                            *)

\* The named parts give the property: each request has at most one response,
\* none while a connection has to answer it, and one when none has.
LEMMA InvGivesProperty == IInv => RepliedOnce
<1> SUFFICES ASSUME IInv PROVE RepliedOnce
  OBVIOUS
<1> USE DEF IInv
<1>1. TypeOK
  <2>1. \A c \in Conns : /\ conn[c].pc \in {"free", "head", "follow", "send"}
                         /\ conn[c].requests \subseteq Requests /\ conn[c].asks \subseteq Questions
    BY DEF Shapes, ConnTypes
  <2>2. \A c \in Conns : /\ conn[c].follow \in 0..Len(pumps)
                         /\ conn[c].follow = 0 => conn[c].requests = {} /\ conn[c].asks = {}
    BY DEF Phases, Phase
  <2> QED
    BY <2>1, <2>2 DEF TypeOK, StateShape, LogShape, Shapes
<1>2. Pending = UNION {PendingOf(c) : c \in Conns}
  BY DEF Pending, PendingOf
<1>3. \A r \in Pending : replies[r] = <<>>
  BY <1>2 DEF Owned
<1>4. \A r \in 1..spent.request : r \in Requests /\ r <= spent.request
  BY Bounds DEF Shapes, Spends, Requests
<1>5. \A r \in 1..spent.request : replies[r] = <<>> => r \in Pending
  BY <1>2, <1>4 DEF Answered
<1>6. \A r \in Requests : Len(replies[r]) <= 1
  BY DEF Answered
<1> QED
  BY <1>1, <1>3, <1>5, <1>6 DEF RepliedOnce, Follows

\* Each session/prompt and session/resume gets one response, whatever turns'
\* ends, failed calls, unusable answers, broken streams, closes and clients
\* that leave come in whatever order (acp/turn.go respond, acp/deliver.go), and
\* Deliver finds the turns of its own follow (server/connection.go pump).
THEOREM RepliedOnceAlways == Spec => []RepliedOnce
<1>1. IInv /\ [Next]_vars => IInv'
  <2> SUFFICES ASSUME IInv, [Next]_vars PROVE IInv'
    OBVIOUS
  <2>1. CASE SessionStep \/ Park
    BY <2>1, SessionKeeps
  <2>2. ASSUME NEW c \in Conns, Frame(c) PROVE IInv'
    BY <2>2, StartTurnKeeps, RefuseTurnKeeps, LoadKeeps, CancelKeeps, CloseSessionKeeps, DisconnectKeeps DEF Frame
  <2>3. ASSUME NEW c \in Conns, Step(c) PROVE IInv'
    BY <2>3, ReadHeadKeeps, OpenFollowKeeps, SendTurnKeeps DEF Step
  <2>4. ASSUME NEW c \in Conns, NEW q \in Questions, Answer(c, q) PROVE IInv'
    BY <2>4, AnswerKeeps
  <2>5. ASSUME NEW g \in DOMAIN pumps, Pump(g) PROVE IInv'
    BY <2>5, PickKeeps, DeliverKeeps DEF Pump
  <2>6. CASE UNCHANGED vars
    <3>1. /\ UNCHANGED <<conn, pumps, replies, session, log, base, spent>>
          /\ promised' \in [Conns -> 0..MaxQuestions]
      BY <2>6 DEF vars, IInv, Shapes
    <3> QED
      BY <3>1, ElsewhereKeeps
  <2> QED
    BY <2>1, <2>2, <2>3, <2>4, <2>5, <2>6 DEF Next
<1> QED
  BY <1>1, Start, InvGivesProperty, PTL DEF Spec
=============================================================================
