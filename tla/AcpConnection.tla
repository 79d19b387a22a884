---------------------------- MODULE AcpConnection ----------------------------
(***************************************************************************)
(* ACP connections of one session: server/connection.go, which reads a     *)
(* client's frames and runs a subscription for each session it follows,    *)
(* and server/acp, which turns session/prompt, session/load, answers and   *)
(* closes into calls of session.Client and the session's events into       *)
(* responses and questions.                                                *)
(*                                                                         *)
(* A connection's mutex makes each frame and each delivery one call of the *)
(* handler, but the session goes on between the calls a frame makes: a     *)
(* frame is a phase (pc) per call, and what its client is told depends on  *)
(* what Head, Status and Subscribe saw when.                               *)
(*                                                                         *)
(* The session is what any runtime's is to a client: a mailbox of wakes, a *)
(* turn at a time, and a log of which a new prompt's turn drops the events *)
(* before it.  Of the events only a turn's question and its end matter; a  *)
(* request is its number, and an ask its question.  Frames' encodings,     *)
(* credentials, MCP servers and spans are left out, and all connections    *)
(* are of the session's owner.                                             *)
(***************************************************************************)
EXTENDS Naturals, Sequences, FiniteSets, SequencesExt

CONSTANTS
  Conns,         \* the connections clients open
  First,         \* the one whose client acts first: all are alike
  MaxRequests,   \* session/prompt and session/resume requests
  MaxQuestions,  \* questions the session's turns park on
  MaxLoads,      \* session/load requests
  MaxTroubles    \* cancels, closes, clients that leave or have no form for a
                 \* question, failed calls, broken streams

ASSUME ConnectionAssumption ==
  First \in Conns /\ {MaxRequests, MaxQuestions, MaxLoads, MaxTroubles} \subseteq Nat

VARIABLES
  session,  \* [state, question, held]: the session, and what waits for its turn's end
  log, base,   \* its events; those up to base are dropped
  mail,     \* its mailbox
  wired,    \* the wire store has its owner: without, no frame reaches it
  conn,     \* each connection: [up, pc, frame, after, follow, requests, asks]
  pumps,    \* the follows: [conn, cursor, picked, stopped]
  replies,  \* what each request got, in order: a turn's end, an error, or nothing,
            \* for its client left or closed the session
  promised, \* the question a load of each connection has to ask again
  spent     \* how much of each bound is used

vars == <<session, log, base, mail, wired, conn, pumps, replies, promised, spent>>
world == <<session, log, base, mail, wired>>
told  == <<replies, promised>>

Requests  == 1..MaxRequests
Questions == 1..MaxQuestions
\* The frame a connection handles: what it sends the session, for which
\* request, and whether the connection followed the session already.
NoFrame   == [kind |-> "none", n |-> 0, r |-> 0, joined |-> FALSE]

\* A wake: a prompt (its request), the answer to a question, a cancel, a close.
Wake(kind, n) == [kind |-> kind, n |-> n]

\* An event: a turn's question, or its end; "ended" is a stream's own.
Ask(q)      == [kind |-> "ask", n |-> q]
TurnEnd     == [kind |-> "end", n |-> 0]
StreamEnded == [kind |-> "ended", n |-> 0]
NoEvent     == [kind |-> "none", n |-> 0]

Spend(what, bound) == /\ spent[what] < bound
                      /\ spent' = [spent EXCEPT ![what] = @ + 1]

Init ==
  /\ session = [state |-> "idle", question |-> 0, held |-> <<>>]
  /\ log = <<>> /\ base = 0 /\ mail = <<>> /\ wired = TRUE
  /\ conn = [c \in Conns |-> [up |-> TRUE, pc |-> "free", frame |-> NoFrame, after |-> 0,
                              follow |-> 0, requests |-> {}, asks |-> {}]]
  /\ pumps = <<>>
  /\ replies = [r \in Requests |-> <<>>]
  /\ promised = [c \in Conns |-> 0]
  /\ spent = [request |-> 0, question |-> 0, load |-> 0, trouble |-> 0]

-----------------------------------------------------------------------------
(* The session, as its Client shows it.                                    *)

Emit(ev) == log' = Append(log, ev)

\* The next wake: one held for the turn's end comes first.
FromHeld == session.state # "running" /\ session.held # <<>>
NextWake == IF FromHeld THEN Head(session.held) ELSE Head(mail)

TakeWake(kind) ==
  /\ session.state # "closed"
  /\ FromHeld \/ mail # <<>>
  /\ NextWake.kind = kind
  /\ IF FromHeld THEN UNCHANGED mail ELSE mail' = Tail(mail)
  /\ UNCHANGED <<wired, conn, pumps, replies, promised, spent>>

Held == IF FromHeld THEN Tail(session.held) ELSE session.held

\* A prompt starts a turn, which drops the events before it, or steers the
\* turn that runs or is parked.
TakePrompt ==
  /\ TakeWake("prompt")
  /\ IF session.state = "idle"
       THEN /\ session' = [session EXCEPT !.state = "running", !.held = Held]
            /\ base' = Len(log)
       ELSE UNCHANGED <<session, base>>
  /\ UNCHANGED log

Answers == session.state = "parked" /\ NextWake.n = session.question

\* An answer waits while a turn runs.  The parked turn goes on with the one
\* it asked for; another fails it.  With no turn parked, it fails a turn of
\* its own, or goes on with the calls a failed turn left.
TakeAnswer ==
  /\ TakeWake("answer")
  /\ \/ /\ session.state = "running"
        /\ session' = [session EXCEPT !.held = Append(@, NextWake)]
        /\ UNCHANGED log
     \/ /\ Answers \/ session.state = "idle"
        /\ session' = [session EXCEPT !.state = "running", !.question = 0, !.held = Held]
        /\ UNCHANGED log
     \/ /\ session.state \in {"parked", "idle"} /\ ~Answers
        /\ session' = [session EXCEPT !.state = "idle", !.question = 0, !.held = Held]
        /\ Emit(TurnEnd)
  /\ UNCHANGED base

\* A cancel ends the turn that runs or is parked; idle, it shows nothing.
TakeCancel ==
  /\ TakeWake("cancel")
  /\ session' = [session EXCEPT !.state = "idle", !.question = 0, !.held = Held]
  /\ IF session.state = "idle" THEN UNCHANGED log ELSE Emit(TurnEnd)
  /\ UNCHANGED base

TakeClose ==
  /\ TakeWake("close")
  /\ session' = IF session.state = "running" THEN [session EXCEPT !.held = Append(@, NextWake)]
                ELSE [session EXCEPT !.state = "closed", !.question = 0]
  /\ base' = IF session.state = "running" THEN base ELSE Len(log)
  /\ UNCHANGED log

Park ==
  /\ session.state = "running"
  /\ Spend("question", MaxQuestions)
  /\ session' = [session EXCEPT !.state = "parked", !.question = spent'.question]
  /\ Emit(Ask(spent'.question))
  /\ UNCHANGED <<base, mail, wired, conn, pumps, told>>

EndTurn ==
  /\ session.state = "running"
  /\ session' = [session EXCEPT !.state = "idle"]
  /\ Emit(TurnEnd)
  /\ UNCHANGED <<base, mail, wired, conn, pumps, told, spent>>

SessionStep == TakePrompt \/ TakeAnswer \/ TakeCancel \/ TakeClose \/ EndTurn

-----------------------------------------------------------------------------
(* What a connection keeps of the turns it follows.                        *)

Free(c)   == conn[c].up /\ conn[c].pc = "free"
Set(c, k) == conn' = [conn EXCEPT ![c] = k]
Done(k)   == [k EXCEPT !.pc = "free", !.frame = NoFrame]

Reply(rs, how) ==
  replies' = [r \in Requests |-> IF r \in rs THEN Append(replies[r], how) ELSE replies[r]]

\* unfollow: the subscription stops, and the open asks go with it.
Unfollow(c, k) ==
  /\ Set(c, [k EXCEPT !.follow = 0, !.requests = {}, !.asks = {}])
  /\ pumps' = [g \in DOMAIN pumps |-> IF g = k.follow THEN [pumps[g] EXCEPT !.stopped = TRUE, !.cursor = 0] ELSE pumps[g]]

\* endTurn: each request of the turn gets the error; the session's turn goes on.
EndWithError(c, k) == Reply(k.requests, "error") /\ Unfollow(c, k)

Trouble == Spend("trouble", MaxTroubles)
Closed  == session.state = "closed"

\* A call of the session's Client: it fails once the session is closed, and
\* may fail at any time, also after the session got it.
Call(wake) == ~Closed /\ mail' = Append(mail, wake)
CallFails(wake) ==
  \/ Closed /\ UNCHANGED <<mail, spent>>
  \/ Trouble /\ (UNCHANGED mail \/ Call(wake))

-----------------------------------------------------------------------------
(* session/prompt and session/resume: startTurn, one call at a time.       *)

\* A connection that follows the session joins its turn.
StartTurn(c) ==
  /\ Free(c) /\ wired /\ Spend("request", MaxRequests)
  /\ \E frame \in {[kind |-> "prompt", n |-> spent'.request]} \union
                  [kind : {"answer"}, n : 1..spent.question] :
       Set(c, [conn[c] EXCEPT
         !.pc = IF conn[c].follow = 0 THEN "head" ELSE "send",
         !.frame = [kind |-> frame.kind, n |-> frame.n,
                    r |-> spent'.request, joined |-> conn[c].follow # 0]])
  /\ UNCHANGED <<world, pumps, told>>

RefuseTurn(c) ==
  /\ Free(c) /\ ~wired /\ Spend("request", MaxRequests)
  /\ Reply({spent'.request}, "error")
  /\ UNCHANGED <<world, conn, pumps, promised>>

\* follow: from the log's head, or, on a load of a parked session, from the
\* event before it.  A head that cannot be read is taken as none.
FromAfterHead(head, waits) == IF waits /\ head > 0 THEN head - 1 ELSE head + 1
FromHead(head, waits) == head
From(head, waits) == IF waits /\ head > 0 THEN head - 1 ELSE head

ReadHead(c) ==
  /\ conn[c].pc = "head"
  /\ \/ Set(c, [conn[c] EXCEPT !.pc = "follow", !.after = From(Len(log), conn[c].frame.kind = "parked")])
        /\ UNCHANGED spent
     \/ Set(c, [conn[c] EXCEPT !.pc = "follow", !.after = 0]) /\ Trouble
  /\ UNCHANGED <<world, pumps, told>>

OpenFollow(c) ==
  /\ conn[c].pc = "follow"
  /\ LET k == conn[c]
         loads == k.frame.kind \in {"running", "parked"}
     IN  \/ /\ ~Closed
            /\ pumps' = Append(pumps, [conn |-> c, cursor |-> k.after, picked |-> NoEvent, stopped |-> FALSE])
            /\ Set(c, [(IF loads THEN Done(k) ELSE [k EXCEPT !.pc = "send"]) EXCEPT
                         !.follow = Len(pumps'), !.requests = {}, !.asks = {}, !.after = 0])
            /\ UNCHANGED <<told, spent>>
         \/ /\ (Closed /\ UNCHANGED spent) \/ Trouble
            /\ Set(c, [Done(k) EXCEPT !.after = 0])
            /\ Reply(IF loads THEN {} ELSE {k.frame.r}, "error")
            /\ promised' = [promised EXCEPT ![c] = 0]
            /\ UNCHANGED pumps
  /\ UNCHANGED world

\* The request waits for the turn's end, unless the session did not take it:
\* then a follow that only it asked for stops.
SendTurn(c) ==
  /\ conn[c].pc = "send"
  /\ LET k == conn[c]
         wake == Wake(k.frame.kind, k.frame.n)
     IN  \/ /\ Call(wake)
            /\ Set(c, [Done(k) EXCEPT !.requests = @ \union {k.frame.r}])
            /\ UNCHANGED <<pumps, replies, spent>>
         \/ /\ CallFails(wake)
            /\ Reply({k.frame.r}, "error")
            /\ IF ~k.frame.joined /\ k.requests = {}
                 THEN Unfollow(c, Done(k)) ELSE Set(c, Done(k)) /\ UNCHANGED pumps
  /\ UNCHANGED <<session, log, base, wired, promised>>

-----------------------------------------------------------------------------
(* The other frames: session/load, cancel and close, and answers to asks.  *)

\* A session is running to its clients from its creation to its first turn's
\* end, and whenever a turn runs or is parked.
Status == IF session.state = "idle" /\ log = <<>> THEN "running" ELSE session.state

\* A session that runs is followed from now on.
Load(c) ==
  /\ Free(c) /\ wired /\ ~Closed /\ Spend("load", MaxLoads)
  /\ IF Status \in {"running", "parked"} /\ conn[c].follow = 0
       THEN /\ Set(c, [conn[c] EXCEPT !.pc = "head", !.frame.kind = Status])
            /\ promised' = [promised EXCEPT ![c] = session.question]
       ELSE UNCHANGED <<conn, promised>>
  /\ UNCHANGED <<world, pumps, replies>>

\* session/cancel: what its Client says is not told.
Cancel(c) ==
  /\ Free(c) /\ wired /\ Trouble
  /\ Call(Wake("cancel", 0))
  /\ UNCHANGED <<session, log, base, wired, conn, pumps, told>>

\* The answer to an ask goes to the turn, or cancels it.  One the agent
\* cannot use, or that the session does not take, ends the turn's requests.
Answer(c, q) ==
  /\ Free(c) /\ q \in conn[c].asks
  /\ LET k == [conn[c] EXCEPT !.asks = @ \ {q}]
     IN  \/ /\ \/ Call(Wake("answer", q)) /\ UNCHANGED spent
               \/ Call(Wake("cancel", 0)) /\ Trouble
            /\ Set(c, k) /\ UNCHANGED <<pumps, replies>>
         \/ /\ (UNCHANGED <<mail, spent>>) \/ CallFails(Wake("answer", q))
            /\ EndWithError(c, k)
  /\ UNCHANGED <<session, log, base, wired, promised>>

\* closeSession: the connection stops following, then the wire store drops
\* the session, then the session closes.  The last step's failure is not told.
CloseSession(c) ==
  /\ Free(c) /\ wired /\ Trouble
  /\ Unfollow(c, conn[c]) /\ Reply(conn[c].requests, "left")
  /\ promised' = [promised EXCEPT ![c] = 0]
  /\ \/ wired' = FALSE /\ (Call(Wake("close", 0)) \/ UNCHANGED mail)
     \/ UNCHANGED <<wired, mail>>
  /\ UNCHANGED <<session, log, base>>

\* The client leaves; the session's turn goes on.
Disconnect(c) ==
  /\ Free(c) /\ Trouble
  /\ Unfollow(c, [conn[c] EXCEPT !.up = FALSE]) /\ Reply(conn[c].requests, "left")
  /\ promised' = [promised EXCEPT ![c] = 0]
  /\ UNCHANGED world

-----------------------------------------------------------------------------
(* A follow: pump takes an event, waits for the connection, delivers it.   *)

Next1(g) == (IF pumps[g].cursor > base THEN pumps[g].cursor ELSE base) + 1

Pick(g) ==
  /\ ~pumps[g].stopped /\ pumps[g].picked = NoEvent
  /\ \/ /\ Next1(g) \in DOMAIN log
        /\ pumps' = [pumps EXCEPT ![g].picked = log[Next1(g)], ![g].cursor = Next1(g)]
        /\ UNCHANGED spent
     \/ /\ (Closed /\ Next1(g) \notin DOMAIN log /\ UNCHANGED spent) \/ Trouble
        /\ pumps' = [pumps EXCEPT ![g].picked = StreamEnded]
  /\ UNCHANGED <<world, conn, told>>

\* A follow its handler stopped while it waited delivers nothing more.
Drop(g) ==
  /\ pumps[g].stopped /\ pumps[g].picked # NoEvent
  /\ pumps' = [pumps EXCEPT ![g].picked = NoEvent]
  /\ UNCHANGED <<world, conn, told, spent>>

DeliversAnyway(g) == pumps[g].picked # NoEvent
Delivers(g) == ~pumps[g].stopped

\* Handler.Deliver: a question is asked, unless the client has no form for
\* it; a turn's end answers each of its requests; a stream that ended fails
\* them.
Deliver(g) ==
  LET c == pumps[g].conn
      k == conn[c]
      ev == pumps[g].picked
      \* The follow's own pump is done with the event, or with the follow.
      Taken == pumps' = [pumps EXCEPT ![g].picked = NoEvent]
      Over  == /\ Set(c, [k EXCEPT !.follow = 0, !.requests = {}, !.asks = {}])
               /\ pumps' = [pumps EXCEPT ![g].picked = NoEvent, ![g].stopped = TRUE, ![g].cursor = 0]
  IN  /\ ev # NoEvent /\ Delivers(g) /\ Free(c)
      /\ \/ /\ ev.kind = "ask"
            /\ Set(c, [k EXCEPT !.asks = @ \union {ev.n}]) /\ Taken
            /\ UNCHANGED <<replies, spent>>
         \/ /\ (ev.kind = "ask" /\ Trouble) \/ (ev.kind = "ended" /\ UNCHANGED spent)
            /\ Reply(k.requests, "error") /\ Over
         \/ /\ ev.kind = "end"
            /\ Reply(k.requests, "end") /\ Over
            /\ UNCHANGED spent
      /\ promised' = [promised EXCEPT ![c] = IF ev \in {Ask(@), StreamEnded} THEN 0 ELSE @]
      /\ UNCHANGED world

-----------------------------------------------------------------------------
Untouched == spent.request + spent.load + spent.trouble = 0

Frame(c) ==
  /\ Untouched => c = First
  /\ StartTurn(c) \/ RefuseTurn(c) \/ Load(c) \/ Cancel(c) \/ CloseSession(c) \/ Disconnect(c)
Step(c)  == ReadHead(c) \/ OpenFollow(c) \/ SendTurn(c)
Pump(g)  == Pick(g) \/ Drop(g) \/ Deliver(g)

Next ==
  \/ SessionStep \/ Park
  \/ \E c \in Conns : Frame(c) \/ Step(c) \/ \E q \in Questions : Answer(c, q)
  \/ \E g \in DOMAIN pumps : Pump(g)

\* The runtime goes on with what a session can do, the server with its
\* frames and its pumps, and a user answers what is asked.
Fairness ==
  WF_vars(SessionStep \/ \E c \in Conns : Step(c) \/ \E q \in Questions : Answer(c, q)
                  \/ \E g \in DOMAIN pumps : Pump(g))

Spec == Init /\ [][Next]_vars /\ Fairness

-----------------------------------------------------------------------------
(* What must hold.                                                         *)

\* Every variable keeps its type; a follow is of the connection that holds it.
TypeOK ==
  /\ session.state \in {"idle", "running", "parked", "closed"}
  /\ session.question \in 0..MaxQuestions /\ (session.question # 0 <=> session.state = "parked")
  /\ base \in 0..Len(log)
  /\ \A c \in Conns :
       /\ conn[c].pc \in {"free", "head", "follow", "send"}
       /\ conn[c].follow \in 0..Len(pumps)
       /\ conn[c].requests \subseteq Requests /\ conn[c].asks \subseteq Questions
       /\ conn[c].follow = 0 => conn[c].requests = {} /\ conn[c].asks = {}
  /\ promised \in [Conns -> 0..MaxQuestions]

Pending == UNION {conn[c].requests \union ({conn[c].frame.r} \ {0}) : c \in Conns}

\* Each request gets one response, though turns' ends, questions without a
\* form, broken streams, answers and failed calls all answer requests; none is
\* forgotten, unless its own client left or closed the session.  A connection has one follow,
\* the one that delivers to it: Deliver reads c.turns[id] without a check.
RepliedOnce ==
  /\ TypeOK
  /\ \A r \in Requests : Len(replies[r]) <= 1
  /\ \A r \in Pending : replies[r] = <<>>
  /\ \A r \in 1..spent.request : replies[r] = <<>> => r \in Pending
  /\ \A g \in DOMAIN pumps : ~pumps[g].stopped => conn[pumps[g].conn].follow = g

\* The session stays parked on a question whose event came before the
\* connection's follow: Head and Status are read at different times.
Overlooked(c) ==
  /\ conn[c].follow # 0 /\ session.state = "parked"
  /\ session.question \notin conn[c].asks
  /\ pumps[conn[c].follow].picked # Ask(session.question)
  /\ \A i \in DOMAIN log : log[i] = Ask(session.question) => i <= pumps[conn[c].follow].cursor

\* A request is answered (docs/protocol.md: "The request stays open until the
\* turn ends", and the turn's end answers both of two), if its client stays,
\* answers what it is asked and does not close the session; unless the turn
\* stays parked on a question from before the connection's follow.
RequestsAnswered ==
  \A c \in Conns : <>[]Overlooked(c) \/ (conn[c].requests # {} ~> conn[c].requests = {})

\* The same with no exception.
EveryRequestAnswered == \A c \in Conns : conn[c].requests # {} ~> conn[c].requests = {}

\* A client that loads a parked session is asked its question again
\* (docs/protocol.md), unless the turn goes on, the client leaves or closes the
\* session, has no form for it, or its stream breaks.
AskedOnLoad ==
  \A c \in Conns, q \in Questions :
    promised[c] = q ~> promised[c] # q \/ session.question # q

\* No request is answered by the end of a turn its prompt never came to: it
\* would still be in the mailbox.
AnsweredByItsTurn ==
  \A i \in DOMAIN mail : mail[i].kind = "prompt" => "end" \notin Range(replies[mail[i].n])
=============================================================================
