----------------------------- MODULE EventStream -----------------------------
(***************************************************************************)
(* One reader of one session's events: the session's event log, the tail   *)
(* that reads it, the live deltas beside it, Merge, and the follow that    *)
(* shows them to a connection.                                             *)
(*                                                                         *)
(* Three logs implement session.EventLog, and Init picks one: the memory   *)
(* log (session/eventlog.go), the object's log on its storage              *)
(* (durableobject/stores.go) and Postgres (session/postgres/eventlog.go).  *)
(* Each has its own tail; what wakes a tail is a channel that is closed    *)
(* and replaced, or a listening connection that can be lost.               *)
(*                                                                         *)
(* A log event is a message's complete text, a turn's end or the note of a *)
(* retry; the other types pass through as a turn's end does.  A text has   *)
(* Len pieces, and a delta is one piece at its offset.  The log's numbers  *)
(* are the positions of the sequence log, of which those up to base are    *)
(* trimmed.                                                                *)
(***************************************************************************)
EXTENDS Naturals, Sequences, FiniteSets, SequencesExt

CONSTANTS
  Stores,     \* the implementations to check, of AllStores
  Len0,       \* pieces of a message's text
  MaxMsgs,    \* model calls, the failed ones included
  MaxLog,     \* events of each implementation's log
  TailBatch,  \* events one read of a tail returns (tailBatch)
  ChCap,      \* events between the tail and Merge (64 in the code)
  LiveCap,    \* deltas a reader can be behind (liveBuffer)
  Faults,     \* failed reads and lost connections
  Far         \* deltas come on a connection of their own (temporal/live.go)

AllStores == {"memory", "object", "postgres"}

ASSUME StreamAssumption ==
  /\ Stores \subseteq AllStores
  /\ {Len0, MaxMsgs, TailBatch, ChCap, LiveCap} \subseteq Nat \ {0}
  /\ MaxLog \in [AllStores -> Nat] /\ Faults \in Nat
  /\ Far \in BOOLEAN

\* Postgres's tail also has a listener to lose: its log is shorter in a run.
ShortLogs == [s \in AllStores |-> IF s = "postgres" THEN 2 ELSE 3]

VARIABLES
  store,      \* the log's implementation
  log, base,  \* every event appended; those up to base are gone
  closed,     \* CloseSession ran
  listening,  \* Postgres: the listener has its connection
  tail,       \* [pc, next, batch, full, woken, ended]
  ch,         \* the tail's channel, as numbers of the log
  live,       \* the reader's buffer of deltas
  merge,      \* [at, texts]: Merge's select, and what it sent of each message
  reader,     \* "listens", "stopped" (its follow) or "ended" (its stream)
  streamed,   \* the follow's count of each message's deltas
  shown,      \* what the connection got of each message, piece by piece
  seen,       \* the numbers it got, in order
  after,      \* the cursor it subscribed with
  call,       \* the model call: its message and the pieces it streamed
  faults

logVars    == <<store, log, base, closed>>
tailVars   == <<listening, tail, ch>>
readerVars == <<merge, reader, streamed, shown, seen, after>>
vars == <<logVars, tailVars, live, readerVars, call, faults>>

Msgs     == 1..MaxMsgs
Event    == [kind : {"text", "end", "retry"}, msg : Msgs]
Delta    == [msg : Msgs, off : 0..Len0 - 1]
Text     == [i \in 1..Len0 |-> i - 1]
NoTexts  == [m \in Msgs |-> [sent |-> 0, done |-> FALSE]]
\* The bounds of a run: nothing is followed after the reader is gone.
Followed == reader \in {"none", "listens"}
Room     == Len(log) < MaxLog[store] /\ ~closed /\ Followed
Kept(n)  == {s \in 1..Len(log) : s > n /\ s > base}

Init ==
  /\ store \in Stores
  /\ log = <<>> /\ base = 0 /\ closed = FALSE
  /\ listening = FALSE
  /\ tail = [pc |-> "none", next |-> 0, batch |-> <<>>, full |-> FALSE, woken |-> FALSE, ended |-> FALSE]
  /\ ch = <<>> /\ live = <<>>
  /\ merge = [at |-> "poll", texts |-> NoTexts]
  /\ reader = "none"
  /\ streamed = [m \in Msgs |-> 0] /\ shown = [m \in Msgs |-> <<>>]
  /\ seen = <<>> /\ after = 0
  /\ call = [msg |-> 1, off |-> 0]
  /\ faults = Faults

(***************************************************************************)
(* The log                                                                 *)
(***************************************************************************)
\* An append or a close closes changed, which a waiting tail holds; in
\* Postgres it notifies the connections that listen then.  (A notification
\* lost on its way is one of a connection lost before it.)
Signalled ==
  /\ tail' = IF tail.pc \in {"none", "done"} THEN tail
             ELSE IF store # "postgres" THEN [tail EXCEPT !.woken = TRUE]
             ELSE IF ~listening THEN tail
             ELSE IF closed' THEN [tail EXCEPT !.ended = TRUE]
             ELSE [tail EXCEPT !.woken = TRUE]
  /\ UNCHANGED listening

AppendEvent(ev) ==
  /\ Room
  /\ log' = Append(log, ev)
  /\ UNCHANGED <<store, base, closed, ch>>
  /\ Signalled

\* A closed log keeps nothing, and a tail's numbers name no event of it.
CloseSession ==
  /\ ~closed /\ Followed
  /\ closed' = TRUE
  /\ base' = Len(log)
  /\ Signalled
  /\ UNCHANGED <<store, log, ch, live, readerVars, call, faults>>

\* A new turn drops the events before it: Head, then Trim through it.
TrimTurns ==
  /\ ~closed /\ Followed /\ call.off = 0
  /\ log # <<>> /\ Last(log).kind = "end" /\ base < Len(log)
  /\ base' = Len(log)
  /\ UNCHANGED <<store, log, closed, tailVars, live, readerVars, call, faults>>

(***************************************************************************)
(* The model call: its deltas go live, what is durable to the log          *)
(***************************************************************************)
\* Publish never blocks: a reader with no room misses the delta.
Stream ==
  /\ Room /\ call.msg \in Msgs /\ call.off < Len0
  /\ live' = IF reader = "listens" /\ Len(live) < LiveCap
             THEN Append(live, [msg |-> call.msg, off |-> call.off]) ELSE live
  /\ call' = [call EXCEPT !.off = @ + 1]
  /\ UNCHANGED <<logVars, tailVars, readerVars, faults>>

\* The call's step writes the message's event with its full text.
Complete ==
  /\ call.msg \in Msgs /\ call.off = Len0
  /\ AppendEvent([kind |-> "text", msg |-> call.msg])
  /\ call' = [msg |-> call.msg + 1, off |-> 0]
  /\ UNCHANGED <<live, readerVars, faults>>

\* An attempt fails after some of its text; the next one is a new message.
Attempt ==
  /\ Followed /\ call.msg \in Msgs /\ call.off > 0
  /\ call' = [msg |-> call.msg + 1, off |-> 0]
  /\ \/ AppendEvent([kind |-> "retry", msg |-> call.msg])
     \/ UNCHANGED <<logVars, tailVars>>
  /\ UNCHANGED <<live, readerVars, faults>>

EndTurn ==
  /\ call.off = 0 /\ call.msg > 1
  /\ log # <<>> => Last(log).kind # "end"
  /\ AppendEvent([kind |-> "end", msg |-> call.msg - 1])
  /\ UNCHANGED <<live, readerVars, call, faults>>

(***************************************************************************)
(* Tails                                                                   *)
(***************************************************************************)
\* A follow subscribes to the deltas, then to the log after a cursor that
\* is a number of it.
Subscribe ==
  /\ reader = "none" /\ ~closed
  /\ reader' = "listens"
  /\ \E n \in 0..Len(log) :
       /\ after' = n
       /\ tail' = [tail EXCEPT !.pc = "read", !.next = n]
  /\ UNCHANGED <<logVars, listening, ch, live, merge, streamed, shown, seen, call, faults>>

\* What a read of the log after n returns: all that is kept, or a batch.
Batch(n) ==
  LET from == Max({n, base})
      many == IF store = "memory" THEN Len(log) ELSE Min({Len(log), from + TailBatch})
  IN  [i \in 1..Max({many - from, 0}) |-> from + i]

\* Where the tail goes with the rest of what it read; a full batch is
\* followed by another read.
Onward(b, full) == IF b # <<>> THEN "send" ELSE IF full THEN "read" ELSE "wait"

\* The tail takes what it reads and moves past it.
Took(b) ==
  LET full == store # "memory" /\ Len(b) = TailBatch
  IN  [tail EXCEPT !.pc = Onward(b, full), !.batch = b, !.full = full,
                   !.next = IF b = <<>> THEN @ ELSE Last(b)]

\* The position is taken as an index of what is kept.
ReadMemoryUnbased ==
  /\ store = "memory" /\ tail.pc = "read"
  /\ tail' = IF closed THEN [tail EXCEPT !.pc = "done"]
             ELSE [Took(Batch(base + tail.next)) EXCEPT !.next = Len(log), !.woken = FALSE]
  /\ UNCHANGED <<logVars, listening, ch, live, readerVars, call, faults>>

\* Memory: entries, changed and the new position under one lock.
ReadMemory ==
  /\ store = "memory" /\ tail.pc = "read"
  /\ tail' = IF closed THEN [tail EXCEPT !.pc = "done"]
             ELSE [Took(Batch(tail.next)) EXCEPT !.next = Len(log), !.woken = FALSE]
  /\ UNCHANGED <<logVars, listening, ch, live, readerVars, call, faults>>

\* Object: closed and changed under the lock, then storage without it.
LookObject ==
  /\ store = "object" /\ tail.pc = "read"
  /\ tail' = IF closed THEN [tail EXCEPT !.pc = "done"] ELSE [tail EXCEPT !.pc = "scan", !.woken = FALSE]
  /\ UNCHANGED <<logVars, listening, ch, live, readerVars, call, faults>>

ScanObject ==
  /\ store = "object" /\ tail.pc = "scan"
  /\ \/ tail' = Took(Batch(tail.next)) /\ UNCHANGED faults
     \/ faults > 0 /\ faults' = faults - 1 /\ tail' = [tail EXCEPT !.pc = "done"]
  /\ UNCHANGED <<logVars, listening, ch, live, readerVars, call>>

\* Postgres: a failed read is tried again, so it leaves the tail to read.
ReadPostgres ==
  /\ store = "postgres" /\ tail.pc = "read"
  /\ \/ tail' = Took(Batch(tail.next)) /\ UNCHANGED faults
     \/ faults > 0 /\ faults' = faults - 1 /\ tail' = [tail EXCEPT !.pc = "retry"]
  /\ UNCHANGED <<logVars, listening, ch, live, readerVars, call>>

\* Retries are not sent.
Send ==
  /\ tail.pc = "send"
  /\ tail' = [tail EXCEPT !.batch = Tail(@), !.pc = Onward(Tail(tail.batch), tail.full)]
  /\ IF log[Head(tail.batch)].kind = "retry" THEN UNCHANGED ch
     ELSE Len(ch) < ChCap /\ ch' = Append(ch, Head(tail.batch))
  /\ UNCHANGED <<logVars, listening, live, readerVars, call, faults>>

\* The tail's select: a wake reads again, an end of the session ends it.
Wait ==
  /\ tail.pc \in {"wait", "retry"}
  /\ \/ tail.woken /\ tail' = [tail EXCEPT !.pc = "read", !.woken = FALSE]
     \/ tail.pc = "retry" /\ tail' = [tail EXCEPT !.pc = "read"]
     \/ tail.ended /\ tail' = [tail EXCEPT !.pc = "done"]
  /\ UNCHANGED <<logVars, listening, ch, live, readerVars, call, faults>>

ListenQuiet ==
  /\ store = "postgres" /\ reader = "listens" /\ ~listening
  /\ listening' = TRUE
  /\ UNCHANGED <<logVars, tail, ch, live, readerVars, call, faults>>

\* Postgres's listener connects, and wakes every tail; it loses its
\* connection.
Listen ==
  /\ store = "postgres" /\ reader = "listens" /\ ~listening
  /\ listening' = TRUE
  /\ tail' = [tail EXCEPT !.woken = TRUE]
  /\ UNCHANGED <<logVars, ch, live, readerVars, call, faults>>

LoseConn ==
  /\ listening /\ faults > 0
  /\ listening' = FALSE
  /\ faults' = faults - 1
  /\ UNCHANGED <<logVars, tail, ch, live, readerVars, call>>

SendableLate(d) == d.off = merge.texts[d.msg].sent

(***************************************************************************)
(* Merge and the follow                                                    *)
(***************************************************************************)
\* Whether Merge sends a delta: it starts where the text sent so far ends,
\* and the message's complete event did not go out.
Sendable(d) == ~merge.texts[d.msg].done /\ d.off = merge.texts[d.msg].sent

\* The text of the complete event the reader does not have (Streamed).
Rest(m) == SubSeq(Text, streamed[m] + 1, Len0)

\* With no delta here, Merge waits for both channels.  What was sent is here
\* when the model call runs in this process; else it may still be on its way.
Poll ==
  /\ reader = "listens" /\ merge.at = "poll" /\ (live = <<>> \/ Far)
  /\ merge' = [merge EXCEPT !.at = "pick"]
  /\ UNCHANGED <<logVars, tailVars, live, reader, streamed, shown, seen, after, call, faults>>

TakeDelta ==
  /\ reader = "listens" /\ live # <<>>
  /\ live' = Tail(live)
  /\ LET d == Head(live)
     IN  IF Sendable(d)
         THEN /\ merge' = [at |-> "poll", texts |-> [merge.texts EXCEPT ![d.msg].sent = @ + 1]]
              /\ streamed' = [streamed EXCEPT ![d.msg] = @ + 1]
              /\ shown' = [shown EXCEPT ![d.msg] = Append(@, d.off)]
         ELSE merge' = [merge EXCEPT !.at = "poll"] /\ UNCHANGED <<streamed, shown>>
  /\ UNCHANGED <<logVars, tailVars, reader, seen, after, call, faults>>

\* A complete text ends its message's deltas; a turn's end forgets them all.
TakeEvent ==
  /\ reader = "listens" /\ merge.at = "pick" /\ ch # <<>>
  /\ ch' = Tail(ch)
  /\ seen' = Append(seen, Head(ch))
  /\ LET ev == log[Head(ch)]
     IN  IF ev.kind = "text"
         THEN /\ merge' = [at |-> "poll", texts |-> [merge.texts EXCEPT ![ev.msg].done = TRUE]]
              /\ shown' = [shown EXCEPT ![ev.msg] = @ \o Rest(ev.msg)]
              /\ streamed' = [streamed EXCEPT ![ev.msg] = 0]
         ELSE /\ merge' = [at |-> "poll", texts |-> NoTexts]
              /\ UNCHANGED <<streamed, shown>>
  /\ UNCHANGED <<logVars, listening, tail, live, reader, after, call, faults>>

\* The follow and the goroutines under it are gone with what they held, and the
\* listener has nobody to wake.
Gone(how) ==
  /\ reader' = how
  /\ live' = <<>> /\ ch' = <<>>
  /\ tail' = [tail EXCEPT !.pc = "done", !.next = 0, !.batch = <<>>, !.full = FALSE,
                           !.woken = FALSE, !.ended = FALSE]
  /\ merge' = [at |-> "poll", texts |-> NoTexts] /\ streamed' = [m \in Msgs |-> 0]
  /\ listening' = FALSE
  /\ UNCHANGED <<logVars, shown, seen, after, call, faults>>

\* The tail's channel closed and is empty: the stream ends.
StreamEnds ==
  /\ reader = "listens" /\ merge.at = "pick" /\ ch = <<>> /\ tail.pc = "done"
  /\ Gone("ended")

\* The Handler stops the follow: its context ends, and all under it.
Stop == reader = "listens" /\ Gone("stopped")

Producer == Stream \/ Complete \/ Attempt \/ EndTurn \/ TrimTurns \/ CloseSession
TailStep == ReadMemory \/ LookObject \/ ScanObject \/ ReadPostgres \/ Send \/ Wait
Merges   == Poll \/ TakeDelta \/ TakeEvent \/ StreamEnds

Next == Producer \/ Subscribe \/ TailStep \/ Listen \/ LoseConn \/ Merges \/ Stop

\* Goroutines run on; the listener dials again after each lost connection.
Fairness == WF_vars(TailStep) /\ WF_vars(Listen) /\ WF_vars(Merges)

Spec == Init /\ [][Next]_vars /\ Fairness

(***************************************************************************)
(* Properties                                                              *)
(***************************************************************************)
\* Types: what the channels hold is of the log, and no counter is negative.
TypeOK ==
  /\ store \in AllStores /\ log \in Seq(Event) /\ Len(log) <= MaxLog[store]
  /\ base \in 0..Len(log) /\ closed \in BOOLEAN
  /\ listening \in BOOLEAN
  /\ tail.pc \in {"none", "read", "scan", "send", "wait", "retry", "done"}
  /\ tail.next \in 0..Len(log) /\ Range(tail.batch) \subseteq 1..Len(log)
  /\ Range(ch) \subseteq 1..Len(log) /\ Len(ch) <= ChCap
  /\ Range(live) \subseteq Delta /\ Len(live) <= LiveCap
  /\ merge.at \in {"poll", "pick"} /\ reader \in {"none", "listens", "stopped", "ended"}
  /\ faults \in 0..Faults

\* A reader gets the events after its cursor once each, in order, and misses
\* none but the retries and those trimmed before it read them
\* (eventlog.go:59-61, types.go).
InOrder ==
  LET from(i) == IF i = 1 THEN after ELSE seen[i - 1]
  IN  \A i \in DOMAIN seen :
        /\ seen[i] > from(i)
        /\ \A s \in from(i) + 1 .. seen[i] - 1 : log[s].kind = "retry" \/ s <= base

\* Whatever deltas a reader missed, got late or got again, what it shows of
\* a message is the message's text from its start, each piece once, in order
\* (live.go:61-65, server/protocol.go:77-92).
TextOnce == \A m \in Msgs : IsPrefix(shown[m], Text)

\* Both: what is between the log and its reader is of the log, in order, and
\* what the reader shows with the live deltas is each message's text once.
EventsOnce == TypeOK /\ InOrder /\ TextOnce

\* Every event comes: again and again the reader has all the log keeps after
\* its cursor.  An append while the tail reads, before the listener listens
\* or while its connection is lost wakes the tail all the same.
CaughtUp == \A s \in Kept(after) : log[s].kind = "retry" \/ s \in Range(seen)
Arrives == []<>(reader = "listens" => CaughtUp)

\* A closed session's tails end, where the log and its tails share a
\* process (eventlog.go:128-131, stores.go:495-496).
CloseEnds == (closed /\ reader = "listens" /\ store # "postgres") ~> (reader # "listens")

\* Both: a tail never sleeps through an event or through its session's end.
TailsGoOn == Arrives /\ CloseEnds

\* "CloseSession ... ends its tails in every process" (postgres/eventlog.go:
\* 164-165): not when the listener had no connection to be notified on.
TailsEndEverywhere == (closed /\ reader = "listens") ~> (reader # "listens")
=============================================================================
