---------------------------- MODULE ObjectJournal ----------------------------
(***************************************************************************)
(* One durable object (session/durableobject): its mailbox, its journal    *)
(* and its carry in storage, what a live object holds in memory, and the   *)
(* run that replays the journal and then goes on live.  The object may     *)
(* lose its memory between any two steps, and a read or a write of its     *)
(* storage may fail, which stops the run (runtime.go's fail).              *)
(*                                                                         *)
(* orchestrator.Run is the module SessionTurn.  Here it is the order of    *)
(* its Runtime calls, prog, which a call's result moves on: the same       *)
(* function whether the result is live or replayed.  A turn's question,    *)
(* its failures other than a cancel, and background jobs are left out: the *)
(* journal treats a result, an error and a job's end alike.                *)
(*                                                                         *)
(* A wake is its mailbox number; wakes holds the kinds.                    *)
(***************************************************************************)
EXTENDS Picks, Functions

CONSTANTS
  Kinds,       \* the wakes callers send: subset of {"prompt", "cancel", "close", "job"}
  MaxWakes,    \* wakes sent
  MaxReplies,  \* model replies of the session
  Calls,       \* the tool calls of one reply, 1..n
  MaxCrashes,  \* times the object loses its memory
  MaxFaults    \* reads and writes of storage that fail

ASSUME ConstantsOK ==
  /\ Kinds \subseteq {"prompt", "cancel", "close", "job"}
  /\ MaxWakes \in Nat /\ MaxReplies \in Nat
  /\ Calls \subseteq Nat
  /\ MaxCrashes \in Nat /\ MaxFaults \in Nat

VARIABLES
  (* storage *)
  wakes,       \* the kinds of the wakes written to the mailbox, in order
  box,         \* the wakes the mailbox still holds
  journal,     \* the entries of the turn: a call's kind, its result, the wakes it took
  carry,       \* the session's state at its last suspend
  records,     \* the tool calls of the running step that ended, with their outcome
  log,         \* the durable events
  closing,     \* meta.Closing
  ended,       \* meta.Ended
  (* memory *)
  loaded,      \* an object is live
  mail,        \* Object.mail
  kick,        \* Object.kick
  phase,       \* where run() is: "off", "start", "call", "step", "write", "end"
  ok,          \* what runOnce returned
  pos, upto,   \* entries replayed, and entries the run read when it started
  prog,        \* orchestrator.Run
  pend,        \* objectRuntime.pending
  val,         \* the result the running call writes
  fin,         \* the outcomes of the Tools step's calls that ended in this run
  cancelling,  \* wait() saw a cancel
  (* for bounds and properties *)
  dur,         \* the state of Run after the last journal entry
  ran,         \* the ended runs of tool calls: reply, call and why it ran
  crashes, faults

storage == <<wakes, box, journal, carry, records, log, closing, ended>>
run     == <<pos, upto, prog, pend, val, fin, cancelling>>
ghosts  == <<dur, ran, crashes, faults>>
vars    == <<storage, loaded, mail, kick, phase, ok, run, ghosts>>

-----------------------------------------------------------------------------
(* orchestrator.Run between two Runtime calls.                              *)

NoRound == [c \in Calls |-> "none"]

\* at: the call it makes next ("drain" is Next without block after a wait),
\* or how it returned; why: what a Begin or a Commit is for.
Fresh == [at |-> "next", why |-> "none", round |-> NoRound, job |-> "none",
          stop |-> FALSE, susp |-> FALSE, held |-> FALSE, inbox |-> FALSE,
          finished |-> FALSE, reply |-> 0, turn |-> 0,
          handled |-> <<>>, dropped |-> {}, events |-> {}]

CallOf(p) == IF p.at \in {"wait", "poll", "drain"} THEN "next" ELSE p.at

To(p, at)          == [p EXCEPT !.at = at]
Commits(p, why)    == [p EXCEPT !.at = "commit", !.why = why]
Waits(p)           == {c \in Calls : p.round[c] = "wait"}
New(p)             == {c \in Calls : p.round[c] = "new"}

\* The calls of the next Tools step: new ones, else the one whose job ended.
ToRun(p) == IF New(p) # {} THEN New(p) ELSE Waits(p)

\* The top of drive's loop.
Top(p) ==
  CASE New(p) # {}                            -> To(p, "tools")
    [] New(p) = {} /\ Waits(p) # {}           -> To(p, IF p.job = "ended" THEN "tools" ELSE "wait")
    [] New(p) \union Waits(p) = {} /\ p.round # NoRound -> Commits(p, "round")
    [] OTHER                                  -> To(p, "poll")

\* A cancelled turn: its job is asked to stop, then the turn's end event.
FailTurn(p) ==
  [p EXCEPT !.at = IF p.job = "runs" THEN "cancel" ELSE "emit",
            !.inbox = FALSE, !.stop = FALSE, !.job = "none"]

\* drive returned; a close held during the turn ends the session.
TurnOver(p) == [p EXCEPT !.at = IF p.held THEN "ended" ELSE "next", !.susp = FALSE]

\* A wake handled while no turn runs, and while one does.
HandleIdle(p, kind) ==
  CASE kind = "prompt"  -> [p EXCEPT !.at = "begin", !.why = "prompt", !.finished = FALSE, !.turn = @ + 1]
    [] kind = "close"   -> To(p, "ended")
    [] kind = "suspend" -> To(p, "suspended")
    [] OTHER            -> p

HandleRunning(p, kind) ==
  LET q == IF p.at = "wait" THEN To(p, "drain") ELSE p
  IN  CASE kind = "prompt"  -> [q EXCEPT !.inbox = TRUE]
        [] kind = "cancel"  -> [q EXCEPT !.stop = TRUE]
        [] kind = "close"   -> [q EXCEPT !.held = TRUE]
        [] kind = "suspend" -> [q EXCEPT !.susp = TRUE]
        [] kind = "job"     -> [q EXCEPT !.job = IF @ = "runs" THEN "ended" ELSE @]

\* The mailbox is read.
Pumped(p) ==
  CASE p.stop                               -> FailTurn(p)
    [] ~p.stop /\ p.susp                    -> To(p, "suspended")
    [] ~p.stop /\ ~p.susp /\ p.at = "drain" -> Top(p)
    [] ~p.stop /\ ~p.susp /\ p.at = "poll"  ->
         IF p.inbox THEN Commits(p, "inbox") ELSE To(p, IF p.finished THEN "emit" ELSE "infer")

AfterNext(p, kind) ==
  IF kind = "none" THEN Pumped(p)
  ELSE IF p.at = "next" THEN HandleIdle(p, kind) ELSE HandleRunning(p, kind)

AfterBegin(p) ==
  IF p.why = "prompt" THEN [Commits(p, "prompt") EXCEPT !.round = NoRound, !.events = {}]
  ELSE Top([p EXCEPT !.susp = FALSE])

AfterCommit(p) ==
  CASE p.why = "inbox" -> [p EXCEPT !.at = "infer", !.inbox = FALSE, !.finished = FALSE]
    [] p.why = "reply" -> Top([p EXCEPT !.finished = TRUE])
    [] OTHER           -> Top([p EXCEPT !.round = NoRound])

AfterInfer(p, reply) ==
  IF reply = "cancelled" THEN FailTurn(p)
  ELSE LET q == [p EXCEPT !.reply = @ + 1, !.events = @ \union {<<"reply", p.reply + 1, 0>>}]
       IN  IF reply = "done" THEN Commits(q, "reply")
           ELSE Top([q EXCEPT !.round = [c \in Calls |-> "new"]])

Results(p, out) == {<<"result", p.reply, c>> : c \in {d \in DOMAIN out : out[d] = "done"}}

\* State.record of what Tools returned; a job it started starts before a
\* cancel fails the turn.
AfterTools(p, out) ==
  LET stopped == \E c \in DOMAIN out : out[c] = "cancelled"
      q == [p EXCEPT !.round = [c \in Calls |-> IF c \notin DOMAIN out \/ out[c] = "cancelled"
                                                THEN @[c] ELSE out[c]],
                     !.job = "none", !.stop = stopped, !.events = @ \union Results(p, out)]
  IN  IF \E c \in DOMAIN out : out[c] = "wait" THEN To(q, "start")
      ELSE IF stopped THEN FailTurn(q) ELSE Top(q)

AfterStart(p) ==
  LET q == [p EXCEPT !.job = "runs"] IN IF q.stop THEN FailTurn(q) ELSE Top(q)

AfterEmit(p) == TurnOver([p EXCEPT !.events = @ \union {<<"end", p.turn, 0>>}])

\* What Run does with the result of a call: an entry of the journal.
After(p, e) ==
  LET kind == CallOf(p)
      q == [p EXCEPT !.handled = IF kind = "next" THEN @ \o e.taken ELSE @,
                     !.dropped = IF kind = "next" THEN @ ELSE @ \union Range(e.taken)]
  IN  CASE kind = "next"   -> AfterNext(q, e.val)
        [] kind = "begin"  -> AfterBegin(q)
        [] kind = "commit" -> AfterCommit(q)
        [] kind = "infer"  -> AfterInfer(q, e.val)
        [] kind = "tools"  -> AfterTools(q, e.val)
        [] kind = "start"  -> AfterStart(q)
        [] kind = "cancel" -> To(q, "emit")
        [] kind = "emit"   -> AfterEmit(q)

\* NewState: a session that a suspend stopped in a turn goes on with it.
Resumed(c) == IF c.susp THEN [c EXCEPT !.at = "begin", !.why = "continue"] ELSE To(c, "next")

-----------------------------------------------------------------------------
(* The mailbox.                                                            *)

InOrder(S) == Picked([n \in DOMAIN wakes |-> n], S)

Taken(j)   == UNION {Range(j[i].taken) : i \in DOMAIN j}

\* The wakes the session has not taken, as storage knows it.
Waiting    == InOrder(box \ Taken(journal))

Untaken(s, S) == Picked(s, {i \in DOMAIN s : s[i] \notin S})

\* load: what a request finds, or reads when the object is cold.
LoadedMail == IF loaded THEN mail ELSE InOrder(box)

\* start(): a run starts, or the one that ends looks again.
Kicked ==
  /\ kick' = TRUE
  /\ phase' = IF phase = "off" THEN "start" ELSE phase

\* Object.Wake: storage first, then memory.  A session that is closing or
\* over refuses wakes.
Wake(kind) ==
  /\ Len(wakes) < MaxWakes /\ ~ended /\ ~closing
  /\ kind = "job" => dur.job = "runs"
  /\ wakes' = Append(wakes, kind)
  /\ box' = box \union {Len(wakes')}
  /\ closing' = (kind = "close")
  /\ loaded' = TRUE
  /\ mail' = Append(LoadedMail, Len(wakes'))
  /\ Kicked
  /\ UNCHANGED <<journal, carry, records, log, ended, ok, run, ghosts>>

\* The platform's alarm restarts the session; so does any request's retry.
Alarm ==
  /\ ~ended
  /\ loaded' = TRUE /\ mail' = LoadedMail
  /\ Kicked
  /\ UNCHANGED <<storage, ok, run, ghosts>>

-----------------------------------------------------------------------------
(* runOnce: newObjectRuntime, then orchestrator.Run over the journal.       *)

\* A run that has replayed none of n entries.
RunIs(p, n) ==
  /\ pos' = 0 /\ upto' = n /\ prog' = p /\ pend' = <<>>
  /\ val' = "none" /\ fin' = <<>> /\ cancelling' = FALSE

RunStarts ==
  /\ phase = "start" /\ ~ended
  /\ kick' = FALSE /\ phase' = "call"
  /\ RunIs(Resumed(carry), Len(journal))
  /\ mail' = Untaken(mail, Taken(journal))
  /\ UNCHANGED <<storage, loaded, ok, ghosts>>

\* A run of a session that ended meanwhile.
NothingToRun ==
  /\ phase = "start" /\ ended
  /\ kick' = FALSE /\ phase' = "end" /\ ok' = TRUE
  /\ UNCHANGED <<storage, loaded, mail, run, ghosts>>

\* fail: the run stops, and what it took or did since its last write is
\* forgotten.
Stop ==
  /\ phase' = "end" /\ ok' = FALSE /\ RunIs(Fresh, 0)
  /\ UNCHANGED <<storage, loaded, mail, kick, dur, ran, crashes>>

Replaying == phase = "call" /\ pos < upto

\* The journal answers a call.  (An entry of another kind than the call's would
\* stop the run: JournalFits says there is none.)
Replay ==
  /\ Replaying /\ journal[pos + 1].kind = CallOf(prog)
  /\ prog' = After(prog, journal[pos + 1])
  /\ pos' = pos + 1
  /\ UNCHANGED <<storage, loaded, mail, kick, phase, ok, upto, pend, val, fin, cancelling, ghosts>>

-----------------------------------------------------------------------------
(* A live call: what it does, then its one write.                           *)

Live(at) == phase = "call" /\ pos = upto /\ prog.at \in at

Writes(v, taken) ==
  /\ phase' = "write" /\ val' = v /\ pend' = taken
  /\ UNCHANGED <<loaded, mail, kick, ok, pos, upto, prog, fin, cancelling, dur, crashes, faults>>

\* Next: the oldest wake; without one it returns nothing, or suspends.
TakeWake ==
  /\ Live({"next", "wait", "poll", "drain"})
  /\ IF mail # <<>> THEN Writes(wakes[Head(mail)], <<Head(mail)>>)
     ELSE Writes(IF prog.at \in {"next", "wait"} THEN "suspend" ELSE "none", <<>>)
  /\ UNCHANGED <<storage, ran>>

\* Begin: a prompt's turn first drops the events of the turns before it, in
\* a write of its own.
Begin ==
  /\ Live({"begin"})
  /\ log' = IF prog.why = "prompt" THEN <<>> ELSE log
  /\ Writes("ok", <<>>)
  /\ UNCHANGED <<wakes, box, journal, carry, records, closing, ended, ran>>

\* Commit, Start, Cancel and Emit: no cancel stops them.
Act ==
  /\ Live({"commit", "start", "cancel", "emit"})
  /\ Writes("ok", <<>>)
  /\ UNCHANGED <<storage, ran>>

\* Infer and Tools run beside the mailbox (wait).
StepStarts ==
  /\ Live({"infer", "tools"})
  /\ phase' = "step" /\ fin' = [c \in {} |-> "none"] /\ cancelling' = FALSE
  /\ UNCHANGED <<storage, loaded, mail, kick, ok, pos, upto, prog, pend, val, ghosts>>

InStep(at) == phase = "step" /\ prog.at = at

\* takeCancel: the first cancel, with the prompts before it.
CancelQueued == \E n \in Range(mail) : wakes[n] = "cancel"

TakenByCancel ==
  LET first == CHOOSE i \in DOMAIN mail :
                 /\ wakes[mail[i]] = "cancel"
                 /\ \A j \in 1..(i - 1) : wakes[mail[j]] # "cancel"
  IN  Picked(mail, {i \in 1..first : wakes[mail[i]] \in {"prompt", "cancel"}})

InferEnds ==
  /\ InStep("infer")
  /\ \E r \in {"done"} \union IF prog.reply + 1 < MaxReplies THEN {"calls"} ELSE {} :
       Writes(r, <<>>)
  /\ UNCHANGED <<storage, ran>>

InferCancelled ==
  /\ InStep("infer") /\ CancelQueued
  /\ Writes("cancelled", TakenByCancel)
  /\ UNCHANGED <<storage, ran>>

\* ended: the outcome of a call that ended before the run was stopped.
Record(c, out) == [reply |-> prog.reply, call |-> c, out |-> out]
Recorded(c)    == {r \in records : r.reply = prog.reply /\ r.call = c}

Runnable(c) == InStep("tools") /\ c \in ToRun(prog) \ DOMAIN fin

Ends(c, out) == [d \in DOMAIN fin \union {c} |-> IF d = c THEN out ELSE fin[d]]

CallFound(c) ==
  /\ Runnable(c)
  /\ \E r \in Recorded(c) : fin' = Ends(c, r.out)
  /\ UNCHANGED <<storage, loaded, mail, kick, phase, ok, pos, upto, prog, pend, val, cancelling, ghosts>>

\* A call's run: its result event and its record in one write.  A call may
\* wait on a job it starts (the first one, here), and runs again once that
\* ended.  A call that passed its check of the turn's context ends even when
\* a cancel comes before its write.
RunsCall(c, out) ==
  /\ fin' = Ends(c, out)
  /\ records' = records \union {Record(c, out)}
  /\ log' = IF out = "done" THEN Append(log, <<"result", prog.reply, c>>) ELSE log
  /\ ran' = Append(ran, <<prog.reply, c, prog.round[c]>>)
  /\ UNCHANGED <<wakes, box, journal, carry, closing, ended, loaded, mail, kick, phase, ok,
                 pos, upto, prog, pend, val, cancelling, dur, crashes, faults>>

Outcomes(c) == {"done"} \union IF c = 1 /\ prog.round[c] = "new" THEN {"wait"} ELSE {}

CallRuns(c) ==
  /\ Runnable(c) /\ Recorded(c) = {}
  /\ \E out \in Outcomes(c) : RunsCall(c, out)

ToolsCancelled ==
  /\ InStep("tools") /\ ~cancelling /\ CancelQueued
  /\ cancelling' = TRUE /\ pend' = TakenByCancel
  /\ UNCHANGED <<storage, loaded, mail, kick, phase, ok, pos, upto, prog, val, fin, ghosts>>

\* What the step returns: the calls that did not end report the cancel.
Outcome == [c \in ToRun(prog) |-> IF c \in DOMAIN fin THEN fin[c] ELSE "cancelled"]

\* Every call ended, or a cancel stopped those still running.
ToolsEnd ==
  /\ InStep("tools")
  /\ \A c \in ToRun(prog) \ DOMAIN fin : cancelling /\ Recorded(c) = {}
  /\ Writes(Outcome, pend)
  /\ UNCHANGED <<storage, ran>>

\* The cancel comes while the harness is built or read, before any call looks
\* for its record: harness.read fails, and every call reports the cancel.
ToolsUnread ==
  /\ InStep("tools") /\ cancelling /\ DOMAIN fin = {}
  /\ Writes(Outcome, pend)
  /\ UNCHANGED <<storage, ran>>

-----------------------------------------------------------------------------
(* The call's one write, and the end of a run.                             *)

Entry == [kind |-> CallOf(prog), val |-> val, taken |-> pend]

\* The durable events of the step that ends.
Made == CASE Entry.kind = "infer" /\ val # "cancelled" -> <<<<"reply", prog.reply + 1, 0>>>>
          [] Entry.kind = "emit"                       -> <<<<"end", prog.turn, 0>>>>
          [] OTHER                                     -> <<>>

\* A write that keeps the records of the calls its entry holds.
AllRecords == records

\* The entry of a Tools step holds its calls now; their records go.
KeptRecords ==
  IF Entry.kind = "tools" THEN {r \in records : r.reply # prog.reply \/ r.call \notin DOMAIN val}
  ELSE records

\* write: the entry, the events and the records, then memory.
Write ==
  /\ phase = "write"
  /\ journal' = Append(journal, Entry)
  /\ log' = log \o Made
  /\ records' = KeptRecords
  /\ mail' = Untaken(mail, Range(pend))
  /\ prog' = After(prog, Entry)
  /\ dur' = After(dur, Entry)
  /\ phase' = "call" /\ pend' = <<>> /\ val' = "none" /\ fin' = <<>> /\ cancelling' = FALSE
  /\ UNCHANGED <<wakes, box, carry, closing, ended, loaded, kick, ok, pos, upto, ran, crashes, faults>>

Returned(at) == phase = "call" /\ prog.at = at

\* A suspend that deletes every wake of the mailbox, and one that keeps the
\* journal for a later write.
SuspendDropsWakes ==
  /\ Returned("suspended")
  /\ carry' = prog /\ journal' = <<>> /\ box' = {} /\ dur' = Resumed(prog)
  /\ phase' = "end" /\ ok' = TRUE /\ RunIs(Fresh, 0)
  /\ UNCHANGED <<wakes, records, log, closing, ended, loaded, mail, kick, ran, crashes, faults>>

SuspendKeepsJournal ==
  /\ Returned("suspended")
  /\ carry' = prog /\ dur' = Resumed(prog)
  /\ phase' = "end" /\ ok' = TRUE /\ RunIs(Fresh, 0)
  /\ UNCHANGED <<wakes, box, journal, records, log, closing, ended, loaded, mail, kick, ran,
                 crashes, faults>>

\* suspend: the carry replaces the journal and the wakes it took.
Suspend ==
  /\ Returned("suspended")
  /\ carry' = prog
  /\ journal' = <<>>
  /\ box' = box \ Taken(journal)
  /\ dur' = Resumed(prog)
  /\ phase' = "end" /\ ok' = TRUE /\ RunIs(Fresh, 0)
  /\ UNCHANGED <<wakes, records, log, closing, ended, loaded, mail, kick, ran, crashes, faults>>

\* finish and closed: a closed session keeps only that it ended.
Finish ==
  /\ Returned("ended")
  /\ ended' = TRUE /\ closing' = TRUE
  /\ box' = {} /\ journal' = <<>> /\ carry' = Fresh /\ records' = {} /\ log' = <<>>
  /\ mail' = <<>>
  /\ phase' = "end" /\ ok' = TRUE /\ RunIs(Fresh, 0)
  /\ UNCHANGED <<wakes, loaded, kick, ghosts>>

\* run() without the wakes a replayed suspend never looked at.
RunEndsUnlessKicked ==
  /\ phase = "end"
  /\ phase' = IF kick THEN "start" ELSE "off"
  /\ UNCHANGED <<storage, loaded, mail, kick, ok, run, ghosts>>

\* run() looks again: a request came in, or wakes are left.
RunEnds ==
  /\ phase = "end"
  /\ phase' = IF ~kick /\ (~ok \/ mail = <<>> \/ ended) THEN "off" ELSE "start"
  /\ UNCHANGED <<storage, loaded, mail, kick, ok, run, ghosts>>

-----------------------------------------------------------------------------
(* Failures.                                                               *)

\* A read or a write of storage fails: the carry or the journal when a run
\* starts, the events to trim, a call's record, the write of a call, of a
\* suspend or of the end.
Touches ==
  \/ phase \in {"write"} \/ (phase = "start" /\ ~ended)
  \/ InStep("tools") \/ Live({"begin"})
  \/ Returned("suspended") \/ Returned("ended")

StorageFails ==
  /\ faults < MaxFaults /\ Touches
  /\ faults' = faults + 1
  /\ Stop

\* The platform takes the object away; memory is lost.
Crash ==
  /\ loaded /\ crashes < MaxCrashes
  /\ crashes' = crashes + 1
  /\ loaded' = FALSE /\ mail' = <<>> /\ kick' = FALSE /\ phase' = "off" /\ ok' = FALSE
  /\ RunIs(Fresh, 0)
  /\ UNCHANGED <<storage, dur, ran, faults>>

-----------------------------------------------------------------------------
Init ==
  /\ wakes = <<>> /\ box = {} /\ journal = <<>> /\ carry = Fresh /\ records = {}
  /\ log = <<>> /\ closing = FALSE /\ ended = FALSE
  /\ loaded = FALSE /\ mail = <<>> /\ kick = FALSE /\ phase = "off" /\ ok = FALSE
  /\ pos = 0 /\ upto = 0 /\ prog = Fresh /\ pend = <<>>
  /\ val = "none" /\ fin = <<>> /\ cancelling = FALSE
  /\ dur = Fresh /\ ran = <<>> /\ crashes = 0 /\ faults = 0

Next ==
  \/ \E k \in Kinds : Wake(k)
  \/ Alarm \/ RunStarts \/ NothingToRun \/ Replay
  \/ TakeWake \/ Begin \/ Act \/ StepStarts \/ InferEnds \/ InferCancelled
  \/ \E c \in Calls : CallFound(c) \/ CallRuns(c)
  \/ ToolsCancelled \/ ToolsEnd \/ ToolsUnread \/ Write \/ Suspend \/ Finish \/ RunEnds
  \/ StorageFails \/ Crash

Spec == Init /\ [][Next]_vars

-----------------------------------------------------------------------------
(* Properties.                                                             *)

Ats == {"next", "wait", "poll", "drain", "begin", "commit", "infer", "tools", "start",
        "cancel", "emit", "suspended", "ended"}

\* Types: what each variable holds, and that memory and the journal only
\* hold wakes that were written.
TypeOK ==
  /\ wakes \in Seq(Kinds) /\ box \subseteq DOMAIN wakes
  /\ Range(mail) \subseteq DOMAIN wakes /\ Taken(journal) \subseteq DOMAIN wakes
  /\ Range(pend) \subseteq Range(mail)
  /\ phase \in {"off", "start", "call", "step", "write", "end"}
  /\ {closing, ended, loaded, kick, ok, cancelling} \subseteq BOOLEAN
  /\ {prog.at, dur.at, carry.at} \subseteq Ats
  /\ pos \in 0..upto /\ DOMAIN fin \subseteq Calls

Inbox == INSTANCE SessionInbox WITH
  accepted <- wakes, queue <- Waiting, handled <- dur.handled, dropped <- dur.dropped, over <- ended

\* Each accepted wake is handled once and in order, through every crash,
\* storage failure, replay and suspend; only a cancel that stops a step
\* overtakes, with the prompts before it (object.go Wake, runtime.go write
\* and suspend, orchestrator.TakeCancel).
KeepsInbox == Inbox!Spec

\* A replay asks for exactly the calls the journal holds, so a run never
\* stops on an entry of another kind (runtime.go replay).
JournalFits == Replaying => journal[pos + 1].kind = CallOf(prog)

\* Once a run is live, it is where the journal's last entry left the session,
\* whichever runs wrote the entries (runtime.go write, newObjectRuntime).
ReplayAgrees == phase \in {"step", "write"} => prog = dur

\* A tool call whose run ended and was written does not run again after a
\* crash; only one that waited on a job runs a second time, for the job's
\* result (runtime.go Tools, ended, runCall).
RunsOnce == IsInjective(ran)

\* A record a Tools step finds is of a run made for the same reason: not of
\* the run that left the call waiting on its job, whose outcome would put the
\* call back to waiting (runtime.go Tools, ended).
RecordsAreFresh ==
  InStep("tools") =>
    \A r \in records : \E i \in DOMAIN ran : ran[i] = <<r.reply, r.call, prog.round[r.call]>>

\* Results of tool calls that ended and were written.
RanResults == {<<"result", ran[i][1], ran[i][2]>> : i \in DOMAIN ran}

\* The durable events are those of the turn, each once: nothing of a turn is
\* trimmed while it runs, and no event is written twice or without its step
\* (stores.go commit, runtime.go trimTurns, Emit, runCall).
LogIsTurn ==
  \/ ended
  \/ log = <<>> /\ dur.at = "begin"
  \/ /\ IsInjective(log)
     /\ dur.events \subseteq Range(log)
     /\ Range(log) \subseteq dur.events \union RanResults

\* While a run reads its mailbox, memory holds the wakes that storage says
\* no entry took, in order (object.go Object, runtime.go write).
MailIsStorage == phase \in {"call", "step", "write"} => mail = Waiting

\* A live object does not go idle over a wake it could handle: only a run
\* that stopped on its storage leaves one (object.go run).
NoWakeLeft == loaded /\ phase = "off" /\ ok => Waiting = <<>>

\* A run that replays the journal comes to the state, and asks for the calls,
\* that the runs before it left, so it goes on as if nothing had stopped, and
\* the events it finds are those of its turn, each once.
ReplaysAgree == TypeOK /\ JournalFits /\ ReplayAgrees /\ LogIsTurn

\* A tool call runs once for each reason there is to run it, and its step
\* finds that run's record.
CallsRunOnce == RunsOnce /\ RecordsAreFresh

\* The wakes in memory are those in storage, and none is slept over.
MailAgrees == MailIsStorage /\ NoWakeLeft

\* docs/session.md:78, "`Cancel` stops the turn": a cancel that a step took is
\* what the turn fails on.
CancelStops ==
  \A i \in DOMAIN journal :
    (journal[i].kind = "tools" /\ journal[i].taken # <<>>) =>
      \E c \in DOMAIN journal[i].val : journal[i].val[c] = "cancelled"
=============================================================================
