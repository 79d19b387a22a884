----------------------------- MODULE ModelStream -----------------------------
(***************************************************************************)
(* One streaming model request: the provider, the client goroutine that     *)
(* turns its events into chunks (openai/openai.go, anthropic/stream.go and  *)
(* internal/provider), the goroutine that watches the chunks                *)
(* (model_tasks.go, watchModelStream), and the step that reads them: Infer  *)
(* of a turn (durable_steps.go), a summary or a hand-off (model_tasks.go).  *)
(*                                                                         *)
(* A model writes items: text of a message or of reasoning, in pieces, and  *)
(* tool calls.  A piece is the pair of its item and its place in it.  The   *)
(* provider sends what the model writes, in order, and what breaks is the   *)
(* connection or the response as a whole.                                   *)
(*                                                                         *)
(* Left out: what a request holds, usage, telemetry, the classes of errors, *)
(* and text a block carries before its first delta.                         *)
(***************************************************************************)
EXTENDS Naturals, Sequences, SequencesExt

CONSTANTS
    Requests,  \* the requests to check: [api, task]
    Room,      \* the capacity of the client's channel (10)
    WatchRoom, \* the capacity of the watched channel (16)
    MaxItems,  \* bound: items of a reply
    MaxPieces  \* bound: pieces of an item's text

VARIABLES
    api,       \* "openai" or "anthropic"
    task,      \* "turn", "summary" or "handoff"
    cancelled, \* the step's context ended
    wrote,     \* what the model wrote: items of [kind, text]
    sent,      \* pieces of the item being written that were sent as deltas
    wire,      \* the response: "asked", "open", "item", "refused", "completed", "over",
               \* or "cut"
    client,    \* the client goroutine: "reading", "ending", "done"
    chunks,    \* Chunks.C
    pending,   \* what the client waits to send: a sequence
    watch,     \* the watching goroutine: "reading", "forwarding", "done"
    held,      \* the chunk it forwards
    out,       \* its channel
    step,      \* the reading step: "reading", "ok", "error"
    buf,       \* streamAssembler.buf, by item
    reply,     \* Infer's messages and calls; a task's text
    shown      \* history: the events a reader of the turn was sent

vars == <<api, task, cancelled, wrote, sent, wire, client, chunks, pending, watch, held,
          out, step, buf, reply, shown>>
model == <<wrote, sent, wire>>
sides == <<api, task, cancelled>>
reader == <<step, buf, reply, shown>>

-----------------------------------------------------------------------------
\* Chunks.

Kinds == {"message", "reasoning", "call"}
Piece(item, kind, text) == [type |-> kind, item |-> item, text |-> text, complete |-> FALSE]
Done(item, kind, text) == [type |-> kind, item |-> item, text |-> text, complete |-> TRUE]
Error == [type |-> "error", item |-> 0, text |-> <<>>, complete |-> TRUE]
Usage == [type |-> "complete", item |-> 0, text |-> <<>>, complete |-> TRUE]

IsText(c) == c.type \in {"message", "reasoning"}
IsDelta(c) == ~c.complete /\ c.text # <<>> /\ IsText(c)

\* What the model is writing: the last item, while wire is "item".
Item == Len(wrote)
Text(n) == [i \in 1..n |-> <<Item, i>>]

Request == [api : {"openai", "anthropic"}, task : {"turn", "summary", "handoff"}]

\* A turn of each provider, and each task of one: the two streams differ in how
\* items complete, the tasks in what they make of complete items.
SomeRequests ==
    [api : {"openai", "anthropic"}, task : {"turn"}] \union
    {[api |-> "openai", task |-> "summary"], [api |-> "anthropic", task |-> "handoff"]}

ASSUME StreamAssumption == Requests \subseteq Request /\ {Room, WatchRoom} \subseteq Nat \ {0}

TypeOK ==
    /\ [api |-> api, task |-> task] \in Request
    /\ wire \in {"asked", "open", "item", "refused", "completed", "over", "cut"}
    /\ client \in {"reading", "ending", "done"}
    /\ watch \in {"reading", "forwarding", "done"} /\ (watch = "forwarding") = (held # <<>>)
    /\ step \in {"reading", "ok", "error"}
    /\ Len(chunks) <= Room /\ Len(out) <= WatchRoom /\ Len(pending) <= 1
    /\ wire \in {"over", "cut"} => client # "reading"
    /\ \A i \in DOMAIN wrote : wrote[i].kind \in Kinds /\ Len(wrote[i].text) <= MaxPieces

Init ==
    /\ \E q \in Requests : api = q.api /\ task = q.task
    /\ cancelled = FALSE
    /\ wrote = <<>> /\ sent = 0 /\ wire = "asked"
    /\ client = "reading" /\ chunks = <<>> /\ pending = <<>>
    /\ watch = "reading" /\ held = <<>> /\ out = <<>>
    /\ step = "reading" /\ buf = [i \in 1..MaxItems |-> <<>>] /\ reply = <<>> /\ shown = <<>>

\* The runtime ends the step's context: a cancel, a timeout, a shutdown.
Cancel ==
    /\ ~cancelled /\ cancelled' = TRUE
    /\ UNCHANGED <<api, task, model, client, chunks, pending, watch, held, out, reader>>

-----------------------------------------------------------------------------
\* The client goroutine.

\* It reads one event and has s to send.
Reads(s) ==
    /\ pending' = s
    /\ UNCHANGED <<sides, chunks, watch, held, out, reader>>

Reading == client = "reading" /\ pending = <<>>

\* Post: an answer that is a stream.
Opens ==
    /\ Reading /\ wire = "asked" /\ wire' = "open"
    /\ UNCHANGED <<wrote, sent, client>> /\ Reads(<<>>)

\* The model starts its next item: output_item.added, content_block_start.
Starts ==
    /\ Reading /\ wire = "open" /\ Len(wrote) < MaxItems
    /\ \E kind \in Kinds : wrote' = Append(wrote, [kind |-> kind, text |-> <<>>])
    /\ sent' = 0 /\ wire' = "item"
    /\ UNCHANGED client /\ Reads(<<>>)

\* A delta: its text is a chunk at once, except a call's.
Delta ==
    /\ Reading /\ wire = "item" /\ Len(wrote[Item].text) < MaxPieces
    /\ Len(wrote[Item].text) = sent
    /\ LET more == Text(sent + 1) IN
       /\ wrote' = [wrote EXCEPT ![Item].text = more]
       /\ Reads(IF wrote[Item].kind = "call" THEN <<>>
                ELSE <<Piece(Item, wrote[Item].kind, <<more[sent + 1]>>)>>)
    /\ sent' = sent + 1
    /\ UNCHANGED <<wire, client>>

\* An item is complete: emitOutputItemComplete, stream.complete.  OpenAI may
\* send the text of an item that did not stream with it; Anthropic's empty text
\* is not sent.
Completes ==
    /\ Reading /\ wire = "item"
    /\ \E n \in 0..MaxPieces :
         /\ n = sent \/ (sent = 0 /\ api = "openai")
         /\ wrote' = [wrote EXCEPT ![Item].text = Text(n)]
         /\ Reads(IF api = "anthropic" /\ wrote[Item].kind = "message" /\ n = 0 THEN <<>>
                  ELSE <<Done(Item, wrote[Item].kind, Text(n))>>)
    /\ wire' = "open" /\ UNCHANGED <<sent, client>>

\* OpenAI: a message that is only a refusal is an error, and the response goes on.
Refuses ==
    /\ Reading /\ wire = "item" /\ api = "openai" /\ wrote[Item].kind = "message" /\ sent = 0
    /\ wire' = "refused"
    /\ UNCHANGED <<wrote, sent, client>> /\ Reads(<<Error>>)

\* The response is complete: response.completed, after which OpenAI's stream goes
\* on; message_stop, with which Anthropic's is over.
Finishes ==
    /\ Reading /\ wire \in {"open", "refused"}
    /\ wire' = IF api = "openai" THEN "completed" ELSE "over"
    /\ client' = IF api = "openai" THEN client ELSE "ending"
    /\ UNCHANGED <<wrote, sent>>
    /\ \/ Reads(<<Usage>>)
       \/ api = "openai" /\ Reads(<<>>)

EndsAnyhow ==
    /\ Reading /\ wire \in {"open", "completed"} /\ client' = "ending"
    /\ wire' = IF wire = "completed" THEN "over" ELSE "cut"
    /\ UNCHANGED <<wrote, sent>> /\ Reads(<<>>)

\* [DONE], or the end of a stream whose response completed.
Ends ==
    /\ Reading /\ wire = "completed" /\ wire' = "over" /\ client' = "ending"
    /\ UNCHANGED <<wrote, sent>> /\ Reads(<<>>)

\* Anything else ends it with an error: the connection, an HTTP error, an error
\* event, a bad status or stop reason, a malformed event, an early end.
Breaks ==
    /\ Reading /\ wire' = "cut" /\ client' = "ending"
    /\ UNCHANGED <<wrote, sent>>
    /\ Reads(<<Error>>)

SendOrWait ==
    /\ pending # <<>> /\ Len(chunks) < Room
    /\ chunks' = chunks \o pending /\ pending' = <<>>
    /\ UNCHANGED <<sides, model, client, watch, held, out, reader>>

\* Chunks.Send: the reader takes it, or the context ends and it is given up.
Send ==
    /\ pending # <<>>
    /\ \/ Len(chunks) < Room /\ chunks' = chunks \o pending
       \/ cancelled /\ UNCHANGED chunks
    /\ pending' = <<>>
    /\ UNCHANGED <<sides, model, client, watch, held, out, reader>>

\* The goroutine returns, and closes the channel: the response is over, or the
\* context is, which it says nothing of.
Returns ==
    /\ pending = <<>> /\ client # "done"
    /\ client = "ending" \/ cancelled
    /\ client' = "done"
    /\ UNCHANGED <<sides, model, chunks, pending, watch, held, out, reader>>

Read == Opens \/ Starts \/ Delta \/ Completes \/ Refuses \/ Finishes \/ Ends \/ Breaks

-----------------------------------------------------------------------------
\* watchModelStream.

WatchTake ==
    /\ watch = "reading" /\ chunks # <<>>
    /\ held' = <<Head(chunks)>> /\ chunks' = Tail(chunks) /\ watch' = "forwarding"
    /\ UNCHANGED <<sides, model, client, pending, out, reader>>

\* It forwards a chunk; after an error it drains what is there and returns.
Forward ==
    /\ watch = "forwarding" /\ Len(out) < WatchRoom
    /\ out' = out \o held /\ held' = <<>>
    /\ IF held[1] = Error THEN watch' = "done" /\ chunks' = <<>>
       ELSE watch' = "reading" /\ UNCHANGED chunks
    /\ UNCHANGED <<sides, model, client, pending, reader>>

\* It returns, and closes its channel: the context ended, or the client did.
WatchEnds ==
    /\ watch # "done" /\ watch' = "done" /\ held' = <<>>
    /\ \/ cancelled /\ chunks' = <<>>
       \/ watch = "reading" /\ client = "done" /\ chunks = <<>> /\ UNCHANGED chunks
    /\ UNCHANGED <<sides, model, client, pending, out, reader>>

-----------------------------------------------------------------------------
\* The reading step.

\* streamAssembler.CompleteContent
CompleteContent(c) == IF buf[c.item] # <<>> THEN buf[c.item] ELSE c.text

AddDelta(c) == IF IsDelta(c) THEN [buf EXCEPT ![c.item] = @ \o c.text] ELSE buf

OffsetAfter(c) == Len(AddDelta(c)[c.item])

\* streamChunk: where a delta starts in what was streamed before it.
Offset(c) == Len(buf[c.item])

StreamChunk(c) ==
    IF IsDelta(c) THEN Append(shown, [item |-> c.item, delta |-> TRUE, at |-> Offset(c), text |-> c.text])
    ELSE IF IsText(c) THEN Append(shown, [item |-> c.item, delta |-> FALSE, at |-> 0, text |-> CompleteContent(c)])
    ELSE shown

\* Infer: messages and calls in the order of their completions.
Infer(c) ==
    /\ shown' = StreamChunk(c)
    /\ buf' = AddDelta(c)
    /\ reply' = IF c.complete /\ c.type # "complete"
                THEN Append(reply, [kind |-> c.type,
                                    text |-> IF IsText(c) THEN CompleteContent(c) ELSE c.text])
                ELSE reply

\* summarize: every chunk's Content.
Summarize(c) == reply' = reply \o c.text /\ UNCHANGED <<shown, buf>>

\* handoffText: the last complete message that says something.
HandOff(c) ==
    /\ buf' = AddDelta(c) /\ UNCHANGED shown
    /\ reply' = IF c.complete /\ c.type = "message" /\ CompleteContent(c) # <<>>
                THEN CompleteContent(c) ELSE reply

Take ==
    /\ step = "reading" /\ out # <<>> /\ out' = Tail(out)
    /\ LET c == Head(out) IN
       IF c = Error THEN step' = "error" /\ UNCHANGED <<buf, reply, shown>>
       ELSE /\ CASE task = "turn" -> Infer(c)
                 [] task = "summary" -> Summarize(c)
                 [] task = "handoff" -> HandOff(c)
            /\ UNCHANGED step
    /\ UNCHANGED <<sides, model, client, chunks, pending, watch, held>>

\* The channel is closed and read; a hand-off without a text is made from the plan.
Closed ==
    /\ step = "reading" /\ out = <<>> /\ watch = "done"
    /\ step' = IF task = "handoff" /\ reply = <<>> THEN "error" ELSE "ok"
    /\ UNCHANGED <<sides, model, client, chunks, pending, watch, held, out, buf, reply, shown>>

\* Infer leaves when its context ends.
Leave ==
    /\ step = "reading" /\ task = "turn" /\ cancelled /\ step' = "error"
    /\ UNCHANGED <<sides, model, client, chunks, pending, watch, held, out, buf, reply, shown>>

\* The goroutines run, and a response goes on or breaks.
Runs ==
    \/ Read \/ Send \/ Returns
    \/ WatchTake \/ Forward \/ WatchEnds
    \/ Take \/ Closed \/ Leave

Next == Cancel \/ Runs

\* Fairness of all together is enough: a reply ends, and nothing goes in circles.

Spec == Init /\ [][Next]_vars /\ WF_vars(Runs)

-----------------------------------------------------------------------------
Texts(kind) == {wrote[i].text : i \in {j \in DOMAIN wrote : wrote[j].kind = kind}} \ {<<>>}

(* A step whose context goes on and that reports no failure has a response  *)
(* the provider completed: a turn's reply is every item the model wrote, in *)
(* its order and with its whole text, and a hand-off is its last message.    *)
WholeOrError == step = "ok" /\ ~cancelled =>
    /\ wire \in {"completed", "over"}
    /\ task = "turn" =>
         reply = SelectSeq(wrote, LAMBDA i : api = "openai" \/ i.kind # "message" \/ i.text # <<>>)
    /\ task = "handoff" => reply \in Texts("message")

(* What readers saw of an item is a part of the text the reply commits: its  *)
(* deltas join without a gap, and its complete text begins with them.         *)
ShownIsCommitted ==
    \A i \in DOMAIN shown :
        LET before == SelectSeq(SubSeq(shown, 1, i - 1), LAMBDA e : e.item = shown[i].item) IN
        IF shown[i].delta
        THEN shown[i].at = Len(before)
        ELSE \A j \in DOMAIN before : shown[i].text[before[j].at + 1] = before[j].text[1]

(* What the run checks of the channels and of what readers saw.             *)
StreamShown == TypeOK /\ ShownIsCommitted

(* A stream that ends, breaks or is cancelled leaves nobody behind: neither  *)
(* the step that reads it, nor a goroutine blocked on a channel nobody reads. *)
NobodyLeft == <>[](step # "reading" /\ watch = "done" /\ client = "done")

(* docs/context.md: a collapse becomes one summary that the model writes.    *)
(* Broken by summarize, which joins the deltas of a message, its complete    *)
(* text, and the reasoning before it.                                        *)
SummaryIsWritten ==
    task = "summary" /\ step = "ok" /\ ~cancelled =>
        reply = FoldLeft(LAMBDA t, i : IF i.kind = "message" THEN t \o i.text ELSE t, <<>>, wrote)

=============================================================================
