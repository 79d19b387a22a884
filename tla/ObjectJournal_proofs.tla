------------------------- MODULE ObjectJournal_proofs -------------------------
(***************************************************************************)
(* Proofs about ObjectJournal, for any number of wakes, replies, calls,    *)
(* crashes and storage failures: a run finds in the journal the calls it   *)
(* makes and in the log the events of its turn; no tool call runs twice    *)
(* for one reason; and each accepted wake is handled once and in order.    *)
(***************************************************************************)
EXTENDS ObjectJournal, Picks_proofs, WellFoundedInduction

Fields == {"at", "why", "round", "job", "stop", "susp", "held", "inbox", "finished",
           "reply", "turn", "handled", "dropped", "events"}

CallAts   == Ats \ {"suspended", "ended"}
NextAts   == {"next", "wait", "poll", "drain"}
CallKinds == {"next", "begin", "commit", "infer", "tools", "start", "cancel", "emit"}

\* A state of Run: what each of its parts holds, as far as the calls depend on it.
Shaped(p) ==
  /\ DOMAIN p = Fields
  /\ p.at \in Ats
  /\ p.round \in [Calls -> {"none", "new", "wait", "done"}]
  /\ p.reply \in Nat /\ p.turn \in Nat
  /\ p.stop \in BOOLEAN /\ p.susp \in BOOLEAN

\* A cancel fails the turn as soon as the mailbox is read or the job is started,
\* and no session idles in a turn.
Sound(p) ==
  /\ Shaped(p)
  /\ p.stop => p.at \in {"drain", "poll", "start"}
  /\ p.at = "next" => ~p.susp

\* A turn runs, or is suspended.
InTurn(p) == p.at \notin {"next", "ended"} /\ (p.at = "suspended" => p.susp)

\* The calls of the round will not run any more.
Dead(p) ==
  \/ p.stop
  \/ p.at \in {"cancel", "emit", "next", "ended"}
  \/ p.at = "suspended" /\ ~p.susp
  \/ p.at = "begin" /\ p.why = "prompt"

\* A call that is now in the state now does not run for the reason then again.
Past(now, then) == now \notin {"new", "wait"} \/ (now = "wait" /\ then = "new")

\* What ends a call made at p.
Result(p, v) ==
  /\ p.at \in CallAts
  /\ p.at \in NextAts =>
       \/ v \in {"prompt", "cancel", "close", "job", "suspend"}
       \/ v = "none" /\ p.at \in {"poll", "drain"}
  /\ p.at = "infer" => v \in {"done", "calls", "cancelled"}
  /\ p.at = "tools" =>
       /\ DOMAIN v = ToRun(p)
       /\ \A c \in ToRun(p) : v[c] \in {"done", "cancelled"} \/ (v[c] = "wait" /\ p.round[c] = "new")

IsSeq(s) == \E S : s \in Seq(S)

-----------------------------------------------------------------------------
(* The inductive invariant.                                                *)

\* The wakes in memory were written.
Mails ==
  /\ wakes \in Seq(Kinds) /\ mail \in Seq(Nat)
  /\ box \subseteq DOMAIN wakes
  /\ \A n : In(n, mail) => n \in DOMAIN wakes

\* st is the state of Run before each entry of the journal and after the last.
Replayed(st) ==
  /\ DOMAIN st = 0..Len(journal)
  /\ st[0] = Resumed(carry) /\ st[Len(journal)] = dur
  /\ \A i \in 0..Len(journal) : Sound(st[i])
  /\ \A i \in 1..Len(journal) :
       /\ journal[i].kind = CallOf(st[i - 1]) /\ journal[i].kind \in CallKinds
       /\ st[i] = After(st[i - 1], journal[i])

\* A run is where the journal's last entry left the session, or at one before.
Runs(st) ==
  phase \in {"call", "step", "write"} =>
    \/ pos \in Nat /\ pos = upto /\ prog = dur
    \/ pos \in Nat /\ pos < upto /\ upto = Len(journal) /\ phase = "call" /\ prog = st[pos]

Journaled == IsSeq(journal) /\ \E st : Replayed(st) /\ Runs(st)

\* What a live call did so far.
Steps ==
  /\ phase = "step" => prog.at \in {"infer", "tools"}
  /\ InStep("tools") =>
       /\ DOMAIN fin \subseteq ToRun(prog)
       /\ \A c \in DOMAIN fin : fin[c] = "done" \/ (fin[c] = "wait" /\ prog.round[c] = "new")
  /\ phase = "write" => Result(prog, val)

\* The records are of the Tools step that runs, and of runs for the same reason.
RecordsOK ==
  \A r \in records :
    /\ dur.at = "tools" /\ r.reply = dur.reply /\ r.call \in ToRun(dur)
    /\ r.out = "done" \/ (r.out = "wait" /\ dur.round[r.call] = "new")
    /\ \E i \in DOMAIN ran : ran[i] = <<r.reply, r.call, dur.round[r.call]>>

\* A call that ran for a reason has left it behind, or has its record.
RanOK ==
  /\ ran \in Seq(Nat \X Calls \X {"new", "wait"})
  /\ \A i \in DOMAIN ran :
       /\ ran[i][1] <= dur.reply
       /\ ran[i][1] = dur.reply =>
            \/ Dead(dur) \/ Past(dur.round[ran[i][2]], ran[i][3])
            \/ dur.round[ran[i][2]] = ran[i][3] /\ \E r \in records : r.call = ran[i][2]

IInv ==
  /\ Mails
  /\ IF ended THEN phase \notin {"call", "step", "write"} ELSE Journaled
  /\ Sound(dur) /\ Steps
  /\ RecordsOK /\ RanOK /\ RunsOnce

-----------------------------------------------------------------------------
(* The mailbox, and what a run took from it.                               *)

Busy == phase \in {"call", "step", "write"}

\* The wakes the session has not taken.
Open == box \ Taken(journal)

\* What the variables hold; outside a run there is none.
Types ==
  /\ {closing, ended, loaded, kick, ok, cancelling} \subseteq BOOLEAN
  /\ phase \in {"off", "start", "call", "step", "write", "end"}
  /\ Sound(carry) /\ DOMAIN fin \subseteq Calls
  /\ ~Busy => prog.at \in Ats /\ pos = 0 /\ upto = 0

\* Memory has the open wakes in order; only a run that has not started may also
\* have some that were taken.
Memory ==
  /\ Rising(mail) /\ Taken(journal) \subseteq DOMAIN wakes
  /\ ended => box = {}
  /\ ~loaded => phase = "off"
  /\ loaded => \A n : n \notin Taken(journal) => (In(n, mail) <=> n \in box)
  /\ Busy => \A n : In(n, mail) => n \notin Taken(journal)

\* What takeCancel took: the first cancel, and the prompts before it.
CancelTaken ==
  \E i \in DOMAIN mail :
    /\ wakes[mail[i]] = "cancel" /\ \A j \in 1..(i - 1) : wakes[mail[j]] # "cancel"
    /\ \A n : In(n, pend) <=> \E j \in 1..i : mail[j] = n /\ wakes[n] \in {"prompt", "cancel"}

\* A call takes the oldest wake, or a step a cancel.
Pending ==
  /\ phase \notin {"step", "write"} => pend = <<>>
  /\ pend # <<>> =>
       \/ /\ prog.at \in NextAts /\ phase = "write" /\ mail # <<>>
          /\ pend = <<Head(mail)>> /\ val = wakes[Head(mail)]
       \/ prog.at \in {"infer", "tools"} /\ CancelTaken
  /\ phase = "write" /\ prog.at \in NextAts /\ val = "close" => pend # <<>>

\* A session that ends, or will, handled a close.
Closes ==
  /\ dur.handled \in Seq(Nat) /\ \A i \in DOMAIN dur.handled : dur.handled[i] \in DOMAIN wakes
  /\ dur.held \/ dur.at = "ended" => \E i \in DOMAIN dur.handled : wakes[dur.handled[i]] = "close"

Asleep == loaded /\ phase = "off" /\ ok => Open = {}

MInv == Types /\ Memory /\ Pending /\ Closes /\ Asleep

-----------------------------------------------------------------------------
(* The log.                                                                *)

\* An event of a step that was made, and will not be made again.
Known(x) ==
  \/ \E n \in Nat : n <= dur.reply /\ x = <<"reply", n, 0>>
  \/ \E n \in Nat : n <= dur.turn /\ (n = dur.turn => ~InTurn(dur)) /\ x = <<"end", n, 0>>
  \/ \E i \in DOMAIN ran :
       /\ x = <<"result", ran[i][1], ran[i][2]>>
       /\ ran[i][1] = dur.reply =>
            \/ Dead(dur) \/ dur.round[ran[i][2]] \notin {"new", "wait"}
            \/ \E r \in records : r.call = ran[i][2] /\ r.out = "done"

\* The results of the calls that ended are there.
Shown(out) == \A c \in DOMAIN out : out[c] = "done" => In(<<"result", prog.reply, c>>, log)

\* A call whose record says that it is done does not wait.
Agrees(out) == \A r \in records : r.call \in DOMAIN out /\ r.out = "done" => out[r.call] # "wait"

\* The log is the turn's, or trimmed for the turn that begins.
TurnLog ==
  \/ log = <<>> /\ dur.at = "begin" /\ dur.why = "prompt"
  \/ IsInjective(log) /\ dur.events \subseteq Range(log) /\ Range(log) \subseteq dur.events \union RanResults

LInv ==
  /\ IsSeq(log) /\ \A x : In(x, log) => Known(x)
  /\ \A r \in records : r.out = "done" => In(<<"result", r.reply, r.call>>, log)
  /\ \A r, s \in records : r.call = s.call => r = s
  /\ InStep("tools") => Shown(fin) /\ Agrees(fin)
  /\ phase = "write" /\ prog.at = "tools" => Shown(val) /\ Agrees(val)
  /\ phase = "write" /\ prog.at = "begin" /\ prog.why = "prompt" => log = <<>>
  /\ ended \/ TurnLog

-----------------------------------------------------------------------------
(* orchestrator.Run.                                                        *)

\* What drive's loop leaves alone when it decides on a call.
Same(p, q) ==
  /\ q.handled = p.handled /\ q.dropped = p.dropped /\ q.events = p.events
  /\ q.turn = p.turn /\ q.held = p.held

LEMMA ToSound ==
    ASSUME NEW p, Shaped(p), NEW at \in Ats
    PROVE  /\ Shaped(To(p, at)) /\ To(p, at).at = at /\ Same(p, To(p, at))
           /\ To(p, at).round = p.round /\ To(p, at).reply = p.reply
           /\ To(p, at).stop = p.stop /\ To(p, at).susp = p.susp /\ To(p, at).why = p.why
BY DEF To, Shaped, Fields, Same

LEMMA CommitsSound ==
    ASSUME NEW p, Shaped(p), NEW why
    PROVE  /\ Shaped(Commits(p, why)) /\ Commits(p, why).at = "commit" /\ Same(p, Commits(p, why))
           /\ Commits(p, why).round = p.round /\ Commits(p, why).reply = p.reply
           /\ Commits(p, why).stop = p.stop /\ Commits(p, why).susp = p.susp
BY DEF Commits, Shaped, Fields, Ats, Same

LEMMA TopSound ==
    ASSUME NEW p, Shaped(p), ~p.stop
    PROVE  /\ Sound(Top(p)) /\ Top(p).round = p.round /\ Top(p).reply = p.reply
           /\ Same(p, Top(p)) /\ Top(p).at # "ended"
<1>1. Top(p) \in {To(p, "tools"), To(p, "wait"), Commits(p, "round"), To(p, "poll")}
    BY DEF Top
<1>2. \A at \in {"tools", "wait", "poll"} :
        /\ Sound(To(p, at)) /\ To(p, at).round = p.round /\ To(p, at).reply = p.reply
        /\ Same(p, To(p, at)) /\ To(p, at).at # "ended"
    BY ToSound DEF Sound, Ats
<1>3. /\ Sound(Commits(p, "round")) /\ Commits(p, "round").round = p.round /\ Commits(p, "round").reply = p.reply
      /\ Same(p, Commits(p, "round")) /\ Commits(p, "round").at # "ended"
    BY CommitsSound DEF Sound
<1> QED
    BY <1>1, <1>2, <1>3

LEMMA FailSound ==
    ASSUME NEW p, Shaped(p)
    PROVE  /\ Sound(FailTurn(p)) /\ Dead(FailTurn(p)) /\ FailTurn(p).reply = p.reply
           /\ Same(p, FailTurn(p)) /\ FailTurn(p).at # "ended"
<1>1. PICK at : at = IF p.job = "runs" THEN "cancel" ELSE "emit"
    OBVIOUS
<1>2. FailTurn(p) = [p EXCEPT !.at = at, !.inbox = FALSE, !.stop = FALSE, !.job = "none"]
    BY <1>1 DEF FailTurn
<1>3. at \in {"cancel", "emit"}
    BY <1>1
<1> QED
    BY <1>2, <1>3 DEF Sound, Shaped, Dead, Fields, Ats, Same

\* What a call's result does to the round: the model's next reply, or no call of
\* the round runs any more, or the round is gone, or only a Tools step moves its calls.
Moved(p, q, v) ==
  /\ q.reply \in {p.reply, p.reply + 1}
  /\ p.at = "infer" /\ v # "cancelled" => q.reply = p.reply + 1
  /\ q.reply = p.reply =>
       \/ Dead(q)
       \/ \A c \in Calls : q.round[c] = "none"
       \/ ~Dead(p) /\ p.at # "tools" /\ q.round = p.round
       \/ /\ ~Dead(p) /\ p.at = "tools"
          /\ \A c \in Calls : q.round[c] = IF c \in ToRun(p) THEN v[c] ELSE p.round[c]
          /\ \A c \in ToRun(p) : v[c] # "cancelled"

\* The events of the turn once a call ended so.
Tells(p, v) ==
  CASE p.at = "infer" /\ v # "cancelled" -> {<<"reply", p.reply + 1, 0>>}
    [] p.at = "tools"                    -> Results(p, v)
    [] p.at = "emit"                     -> {<<"end", p.turn, 0>>}
    [] OTHER                             -> {}

Events(p, v) == IF p.at = "begin" /\ p.why = "prompt" THEN {} ELSE p.events \union Tells(p, v)

\* What a call's result does to the turn: only a prompt starts one, only its end
\* event ends it, and only a close ends the session.
Told(p, q, v) ==
  /\ q.events = Events(p, v)
  /\ q.turn \in {p.turn, p.turn + 1}
  /\ q.turn = p.turn /\ InTurn(q) => InTurn(p) /\ p.at # "emit"
  /\ q.held \/ q.at = "ended" => p.held \/ (p.at \in NextAts /\ v = "close")

Good(p, q, v) ==
  /\ Sound(q) /\ Moved(p, q, v) /\ Told(p, q, v)
  /\ q.handled = p.handled /\ q.dropped = p.dropped

\* A turn that goes on.
Onward(p, q, v) ==
  /\ q.events = Events(p, v)
  /\ q.handled = p.handled /\ q.dropped = p.dropped /\ q.turn = p.turn /\ q.held = p.held

LEMMA OnwardTold ==
    ASSUME NEW p, NEW q, NEW v, Onward(p, q, v), q.at # "ended", p.at \notin {"next", "emit", "suspended", "ended"}
    PROVE  Told(p, q, v)
BY DEF Told, Onward, InTurn

LEMMA SameOnward ==
    ASSUME NEW p, NEW q, NEW v, Same(p, q), p.at \in {"wait", "poll", "drain", "commit", "start", "cancel"}
    PROVE  Onward(p, q, v)
<1>1. Events(p, v) = p.events
    BY DEF Events, Tells
<1> QED
    BY <1>1 DEF Onward, Same

\* A round that stays.
LEMMA StaysGood ==
    ASSUME NEW p, NEW q, NEW v, Sound(p), Sound(q), q.reply = p.reply, p.at # "infer",
           Dead(q) \/ (~Dead(p) /\ p.at # "tools" /\ q.round = p.round),
           Told(p, q, v), q.handled = p.handled, q.dropped = p.dropped
    PROVE  Good(p, q, v)
BY DEF Good, Moved

\* A round that stays in a turn that goes on.
LEMMA GoesOnGood ==
    ASSUME NEW p, NEW q, NEW v, Sound(p), Sound(q), q.reply = p.reply, q.at # "ended",
           p.at \in {"wait", "poll", "drain", "commit", "start", "cancel"},
           Dead(q) \/ (~Dead(p) /\ q.round = p.round), Same(p, q)
    PROVE  Good(p, q, v)
<1>1. Onward(p, q, v) /\ Told(p, q, v)
    BY SameOnward, OnwardTold
<1> QED
    BY <1>1, StaysGood DEF Onward

LEMMA FailGood ==
    ASSUME NEW p, NEW q, NEW v, Sound(p), Shaped(q), q.reply = p.reply, p.at = "infer" => v = "cancelled",
           Onward(p, q, v), p.at \notin {"next", "emit", "suspended", "ended"}
    PROVE  Good(p, FailTurn(q), v)
<1>1. PICK r : r = FailTurn(q)
    OBVIOUS
<1>2. Sound(r) /\ Dead(r) /\ r.reply = p.reply /\ Same(q, r) /\ r.at # "ended"
    BY <1>1, FailSound
<1>3. Onward(p, r, v)
    BY <1>2 DEF Onward, Same
<1>4. Told(p, r, v)
    BY <1>2, <1>3, OnwardTold
<1> QED
    BY <1>1, <1>2, <1>3, <1>4 DEF Good, Moved, Onward

LEMMA PumpedGood ==
    ASSUME NEW p, NEW v, Sound(p), p.at \in {"poll", "drain"}
    PROVE  Good(p, Pumped(p), v)
<1>0. Shaped(p) /\ p.stop \in BOOLEAN /\ p.susp \in BOOLEAN
    BY DEF Sound, Shaped
<1>1. CASE p.stop
    <2>1. Pumped(p) = FailTurn(p)
        BY <1>1 DEF Pumped
    <2>2. Onward(p, p, v)
        BY SameOnward DEF Same
    <2> QED
        BY <1>0, <2>1, <2>2, FailGood
<1>2. CASE ~p.stop
    <2>1. ~Dead(p)
        BY <1>2 DEF Dead
    <2>2. PICK q : q = Pumped(p)
        OBVIOUS
    <2>3. q \in {To(p, "suspended"), Top(p), Commits(p, "inbox"), To(p, "emit"), To(p, "infer")}
        BY <1>0, <1>2, <2>2 DEF Pumped
    <2>4. CASE q = Top(p)
        BY <1>0, <1>2, <2>1, <2>2, <2>4, TopSound, GoesOnGood
    <2>5. CASE q = Commits(p, "inbox")
        <3>1. /\ Shaped(q) /\ q.at = "commit" /\ q.round = p.round /\ q.reply = p.reply /\ ~q.stop
              /\ Same(p, q)
            BY <1>0, <1>2, <2>5, CommitsSound
        <3> QED
            BY <2>1, <2>2, <3>1, GoesOnGood DEF Sound
    <2>6. ASSUME NEW at \in {"suspended", "emit", "infer"}, q = To(p, at) PROVE Good(p, q, v)
        <3>1. /\ Shaped(q) /\ q.at = at /\ q.round = p.round /\ q.reply = p.reply /\ ~q.stop
              /\ Same(p, q)
            BY <1>0, <1>2, <2>6, ToSound DEF Ats
        <3> QED
            BY <2>1, <3>1, GoesOnGood DEF Sound
    <2> QED
        BY <2>2, <2>3, <2>4, <2>5, <2>6
<1> QED
    BY <1>0, <1>1, <1>2

LEMMA IdleGood ==
    ASSUME NEW p, NEW v, Sound(p), p.at = "next"
    PROVE  Good(p, HandleIdle(p, v), v)
<1>1. Shaped(p) /\ ~p.susp /\ ~p.stop /\ p.turn \in Nat
    BY DEF Sound, Shaped
<1>2. PICK q : q = HandleIdle(p, v)
    OBVIOUS
<1>3. Events(p, v) = p.events
    BY DEF Events, Tells
<1>4. CASE v = "prompt"
    <2>1. PICK n : n = p.turn + 1
        OBVIOUS
    <2>2. q = [p EXCEPT !.at = "begin", !.why = "prompt", !.finished = FALSE, !.turn = n]
        BY <1>2, <1>4, <2>1 DEF HandleIdle
    <2>3. n \in Nat /\ n # p.turn
        BY <1>1, <2>1
    <2>4. /\ Shaped(q) /\ q.at = "begin" /\ q.why = "prompt" /\ q.reply = p.reply /\ ~q.stop /\ q.turn = n
          /\ q.events = p.events /\ q.held = p.held /\ q.handled = p.handled /\ q.dropped = p.dropped
        BY <1>1, <2>2, <2>3 DEF Shaped, Fields, Ats
    <2>5. Sound(q) /\ Dead(q)
        BY <2>4 DEF Sound, Dead
    <2>6. Told(p, q, v)
        BY <1>3, <2>1, <2>3, <2>4 DEF Told
    <2> QED
        BY <1>2, <2>4, <2>5, <2>6, StaysGood
<1>5. ASSUME NEW at \in {"ended", "suspended"}, q = To(p, at), at = "ended" => v = "close" PROVE Good(p, q, v)
    <2>1. Shaped(q) /\ q.at = at /\ q.reply = p.reply /\ ~q.stop /\ ~q.susp /\ Same(p, q)
        BY <1>1, <1>5, ToSound DEF Ats
    <2>2. Sound(q) /\ Dead(q)
        BY <2>1 DEF Sound, Dead
    <2>3. Told(p, q, v)
        BY <1>3, <1>5, <2>1 DEF Told, Same, InTurn, NextAts
    <2> QED
        BY <2>1, <2>2, <2>3, StaysGood DEF Same
<1>6. CASE q = p
    <2>1. Dead(p)
        BY DEF Dead
    <2>2. Told(p, p, v)
        BY <1>3 DEF Told, InTurn
    <2> QED
        BY <1>2, <1>6, <2>1, <2>2, StaysGood
<1>7. CASE v = "close"
    BY <1>2, <1>5, <1>7 DEF HandleIdle
<1>8. v \notin {"prompt", "close"} => q \in {To(p, "suspended"), p}
    BY <1>2 DEF HandleIdle
<1> QED
    BY <1>2, <1>4, <1>5, <1>6, <1>7, <1>8

LEMMA RunningGood ==
    ASSUME NEW p, NEW v, Sound(p), p.at \in {"wait", "poll", "drain"},
           v \in {"prompt", "cancel", "close", "job", "suspend"}
    PROVE  Good(p, HandleRunning(p, v), v)
<1>1. Shaped(p) /\ (p.at = "wait" => ~p.stop)
    BY DEF Sound
<1>2. PICK r : r = IF p.at = "wait" THEN To(p, "drain") ELSE p
    OBVIOUS
<1>3. /\ Shaped(r) /\ r.at \in {"poll", "drain"} /\ r.round = p.round /\ r.reply = p.reply
      /\ r.stop = p.stop /\ r.susp = p.susp /\ Same(p, r)
    <2>1. CASE p.at = "wait"
        BY <1>1, <1>2, <2>1, ToSound DEF Ats
    <2>2. CASE p.at # "wait"
        BY <1>1, <1>2, <2>2 DEF Same
    <2> QED
        BY <2>1, <2>2
<1>4. PICK q : q = HandleRunning(p, v)
    OBVIOUS
<1>5. /\ Shaped(q) /\ q.at = r.at /\ q.round = r.round /\ q.reply = r.reply
      /\ r.stop => q.stop
      /\ q.handled = r.handled /\ q.dropped = r.dropped /\ q.events = r.events /\ q.turn = r.turn
      /\ v # "close" => q.held = r.held
    <2>1. CASE v = "prompt"
        <3>1. q = [r EXCEPT !.inbox = TRUE]
            BY <1>2, <1>4, <2>1 DEF HandleRunning
        <3> QED
            BY <1>3, <3>1 DEF Shaped, Fields
    <2>2. CASE v = "cancel"
        <3>1. q = [r EXCEPT !.stop = TRUE]
            BY <1>2, <1>4, <2>2 DEF HandleRunning
        <3> QED
            BY <1>3, <3>1 DEF Shaped, Fields
    <2>3. CASE v = "close"
        <3>1. q = [r EXCEPT !.held = TRUE]
            BY <1>2, <1>4, <2>3 DEF HandleRunning
        <3> QED
            BY <1>3, <2>3, <3>1 DEF Shaped, Fields
    <2>4. CASE v = "suspend"
        <3>1. q = [r EXCEPT !.susp = TRUE]
            BY <1>2, <1>4, <2>4 DEF HandleRunning
        <3> QED
            BY <1>3, <3>1 DEF Shaped, Fields
    <2>5. CASE v = "job"
        <3>1. PICK job : job = IF r.job = "runs" THEN "ended" ELSE r.job
            OBVIOUS
        <3>2. q = [r EXCEPT !.job = job]
            BY <1>2, <1>4, <2>5, <3>1 DEF HandleRunning
        <3> QED
            BY <1>3, <3>2 DEF Shaped, Fields
    <2> QED
        BY <2>1, <2>2, <2>3, <2>4, <2>5
<1>6. Sound(q)
    BY <1>3, <1>5 DEF Sound
<1>7. Dead(q) \/ (~Dead(p) /\ p.at # "tools" /\ q.round = p.round)
    <2>1. Dead(p) => p.stop
        BY DEF Dead
    <2>2. q.stop => Dead(q)
        BY DEF Dead
    <2> QED
        BY <1>3, <1>5, <2>1, <2>2
<1>8. Told(p, q, v)
    <2>1. Events(p, v) = p.events
        BY DEF Events, Tells
    <2>2. InTurn(p) /\ p.at # "emit" /\ p.at \in NextAts /\ q.at # "ended"
        BY <1>3, <1>5 DEF InTurn, NextAts
    <2> QED
        BY <1>3, <1>5, <2>1, <2>2 DEF Told, Same
<1> QED
    BY <1>3, <1>4, <1>5, <1>6, <1>7, <1>8, StaysGood DEF Same

LEMMA NextGood ==
    ASSUME NEW p, NEW v, Sound(p), Result(p, v), p.at \in NextAts
    PROVE  Good(p, AfterNext(p, v), v)
<1>1. CASE v = "none"
    BY <1>1, PumpedGood DEF AfterNext, Result
<1>2. CASE v # "none" /\ p.at = "next"
    BY <1>2, IdleGood DEF AfterNext
<1>3. CASE v # "none" /\ p.at # "next"
    BY <1>3, RunningGood DEF AfterNext, Result, NextAts
<1> QED
    BY <1>1, <1>2, <1>3

LEMMA BeginGood ==
    ASSUME NEW p, NEW v, Sound(p), p.at = "begin"
    PROVE  Good(p, AfterBegin(p), v)
<1>1. Shaped(p) /\ ~p.stop
    BY DEF Sound, Shaped
<1>2. CASE p.why = "prompt"
    <2>1. PICK q, r : r = Commits(p, "prompt") /\ q = [r EXCEPT !.round = NoRound, !.events = {}]
        OBVIOUS
    <2>2. AfterBegin(p) = q
        BY <1>2, <2>1 DEF AfterBegin
    <2>3. Shaped(r) /\ r.at = "commit" /\ r.reply = p.reply /\ ~r.stop /\ r.susp = p.susp /\ Same(p, r)
        BY <1>1, <2>1, CommitsSound
    <2>4. NoRound \in [Calls -> {"none", "new", "wait", "done"}] /\ \A c \in Calls : NoRound[c] = "none"
        BY DEF NoRound
    <2>5. /\ Shaped(q) /\ q.at = "commit" /\ q.reply = p.reply /\ ~q.stop /\ q.round = NoRound /\ q.events = {}
          /\ q.turn = r.turn /\ q.held = r.held /\ q.handled = r.handled /\ q.dropped = r.dropped
        BY <2>1, <2>3, <2>4 DEF Shaped, Fields
    <2>6. Sound(q)
        BY <2>5 DEF Sound
    <2>7. Onward(p, q, v)
        BY <1>2, <2>3, <2>5 DEF Onward, Events, Same
    <2>8. Told(p, q, v)
        BY <2>5, <2>7, OnwardTold
    <2> QED
        BY <2>2, <2>4, <2>5, <2>6, <2>7, <2>8 DEF Good, Moved, Onward
<1>3. CASE p.why # "prompt"
    <2>1. PICK r : r = [p EXCEPT !.susp = FALSE]
        OBVIOUS
    <2>2. AfterBegin(p) = Top(r)
        BY <1>3, <2>1 DEF AfterBegin
    <2>3. Shaped(r) /\ r.round = p.round /\ r.reply = p.reply /\ ~r.stop /\ Same(p, r)
        BY <1>1, <2>1 DEF Shaped, Fields, Same
    <2>4. ~Dead(p)
        BY <1>1, <1>3 DEF Dead
    <2>5. Sound(Top(r)) /\ Top(r).round = p.round /\ Top(r).reply = p.reply /\ Same(p, Top(r)) /\ Top(r).at # "ended"
        BY <2>3, TopSound DEF Same
    <2>6. Events(p, v) = p.events
        BY <1>3 DEF Events, Tells
    <2>7. Onward(p, Top(r), v)
        BY <2>5, <2>6 DEF Onward, Same
    <2>8. Told(p, Top(r), v)
        BY <2>5, <2>7, OnwardTold
    <2> QED
        BY <2>2, <2>4, <2>5, <2>7, <2>8, StaysGood DEF Onward
<1> QED
    BY <1>2, <1>3

LEMMA CommitGood ==
    ASSUME NEW p, NEW v, Sound(p), p.at = "commit"
    PROVE  Good(p, AfterCommit(p), v)
<1>1. Shaped(p) /\ ~p.stop /\ ~Dead(p)
    BY DEF Sound, Shaped, Dead
<1>2. CASE p.why = "inbox"
    <2>1. PICK q : q = [p EXCEPT !.at = "infer", !.inbox = FALSE, !.finished = FALSE]
        OBVIOUS
    <2>2. AfterCommit(p) = q
        BY <1>2, <2>1 DEF AfterCommit
    <2>3. /\ Shaped(q) /\ q.at = "infer" /\ q.round = p.round /\ q.reply = p.reply /\ ~q.stop
          /\ Same(p, q)
        BY <1>1, <2>1 DEF Shaped, Fields, Ats, Same
    <2> QED
        BY <1>1, <2>2, <2>3, GoesOnGood DEF Sound
<1>3. CASE p.why = "reply"
    <2>1. PICK r : r = [p EXCEPT !.finished = TRUE]
        OBVIOUS
    <2>2. AfterCommit(p) = Top(r)
        BY <1>3, <2>1 DEF AfterCommit
    <2>3. Shaped(r) /\ r.round = p.round /\ r.reply = p.reply /\ ~r.stop /\ Same(p, r)
        BY <1>1, <2>1 DEF Shaped, Fields, Same
    <2>4. Sound(Top(r)) /\ Top(r).round = p.round /\ Top(r).reply = p.reply /\ Same(p, Top(r)) /\ Top(r).at # "ended"
        BY <2>3, TopSound DEF Same
    <2> QED
        BY <1>1, <2>2, <2>4, GoesOnGood
<1>4. CASE p.why \notin {"inbox", "reply"}
    <2>1. PICK r : r = [p EXCEPT !.round = NoRound]
        OBVIOUS
    <2>2. AfterCommit(p) = Top(r)
        BY <1>4, <2>1 DEF AfterCommit
    <2>3. NoRound \in [Calls -> {"none", "new", "wait", "done"}] /\ \A c \in Calls : NoRound[c] = "none"
        BY DEF NoRound
    <2>4. Shaped(r) /\ r.round = NoRound /\ r.reply = p.reply /\ ~r.stop /\ Same(p, r)
        BY <1>1, <2>1, <2>3 DEF Shaped, Fields, Same
    <2>5. Sound(Top(r)) /\ Top(r).round = NoRound /\ Top(r).reply = p.reply /\ Same(p, Top(r)) /\ Top(r).at # "ended"
        BY <2>4, TopSound DEF Same
    <2>6. Onward(p, Top(r), v) /\ Told(p, Top(r), v)
        BY <2>5, SameOnward, OnwardTold
    <2> QED
        BY <2>2, <2>3, <2>5, <2>6 DEF Good, Moved, Onward
<1> QED
    BY <1>2, <1>3, <1>4

LEMMA InferGood ==
    ASSUME NEW p, NEW v, Sound(p), p.at = "infer", v \in {"done", "calls", "cancelled"}
    PROVE  Good(p, AfterInfer(p, v), v)
<1>1. Shaped(p) /\ ~p.stop
    BY DEF Sound, Shaped
<1>2. CASE v = "cancelled"
    <2>1. Onward(p, p, v)
        BY <1>2 DEF Onward, Events, Tells
    <2> QED
        BY <1>1, <1>2, <2>1, FailGood DEF AfterInfer
<1>3. CASE v # "cancelled"
    <2>1. PICK n, q : /\ n = p.reply + 1
                      /\ q = [p EXCEPT !.reply = n, !.events = @ \union {<<"reply", n, 0>>}]
        OBVIOUS
    <2>2. n \in Nat /\ n # p.reply
        BY <1>1, <2>1 DEF Shaped
    <2>3. Shaped(q) /\ q.reply = n /\ ~q.stop
        BY <1>1, <2>1, <2>2 DEF Shaped, Fields
    <2>4. Onward(p, q, v)
        <3>1. q.events = p.events \union {<<"reply", n, 0>>} /\ q.handled = p.handled /\ q.dropped = p.dropped
              /\ q.turn = p.turn /\ q.held = p.held
            BY <1>1, <2>1 DEF Shaped, Fields
        <3> QED
            BY <1>3, <2>1, <3>1 DEF Onward, Events, Tells
    <2>5. ASSUME NEW r, Sound(r), r.reply = n, Same(q, r), r.at # "ended" PROVE Good(p, r, v)
        <3>1. Onward(p, r, v)
            BY <2>4, <2>5 DEF Onward, Same
        <3>2. Told(p, r, v)
            BY <2>5, <3>1, OnwardTold
        <3> QED
            BY <2>1, <2>2, <2>5, <3>1, <3>2 DEF Good, Moved, Onward
    <2>6. CASE v = "done"
        <3>1. AfterInfer(p, v) = Commits(q, "reply")
            BY <1>3, <2>1, <2>6 DEF AfterInfer
        <3>2. Shaped(Commits(q, "reply")) /\ Commits(q, "reply").at = "commit" /\ ~Commits(q, "reply").stop
              /\ Commits(q, "reply").reply = n /\ Same(q, Commits(q, "reply"))
            BY <2>3, CommitsSound
        <3> QED
            BY <2>5, <3>1, <3>2 DEF Sound
    <2>7. CASE v = "calls"
        <3>1. PICK r : r = [q EXCEPT !.round = [c \in Calls |-> "new"]]
            OBVIOUS
        <3>2. AfterInfer(p, v) = Top(r)
            BY <1>3, <2>1, <2>7, <3>1 DEF AfterInfer
        <3>3. Shaped(r) /\ r.reply = n /\ ~r.stop /\ Same(q, r)
            BY <2>3, <3>1 DEF Shaped, Fields, Same
        <3>4. Sound(Top(r)) /\ Top(r).reply = n /\ Same(q, Top(r)) /\ Top(r).at # "ended"
            BY <3>3, TopSound DEF Same
        <3> QED
            BY <2>5, <3>2, <3>4
    <2> QED
        BY <1>3, <2>6, <2>7
<1> QED
    BY <1>2, <1>3

LEMMA ToolsGood ==
    ASSUME NEW p, NEW v, Sound(p), Result(p, v), p.at = "tools"
    PROVE  Good(p, AfterTools(p, v), v)
<1>1. Shaped(p) /\ ~p.stop /\ ~Dead(p)
    BY DEF Sound, Shaped, Dead
<1>2. /\ DOMAIN v = ToRun(p) /\ ToRun(p) \subseteq Calls
      /\ \A c \in ToRun(p) : v[c] \in {"done", "cancelled", "wait"}
    BY DEF Result, ToRun, New, Waits
<1>3. PICK stopped : stopped = (\E c \in DOMAIN v : v[c] = "cancelled")
    OBVIOUS
<1>4. PICK round : round = [c \in Calls |-> IF c \notin DOMAIN v \/ v[c] = "cancelled" THEN p.round[c] ELSE v[c]]
    OBVIOUS
<1>5. PICK q : q = [p EXCEPT !.round = round, !.job = "none", !.stop = stopped, !.events = @ \union Results(p, v)]
    OBVIOUS
<1>6. round \in [Calls -> {"none", "new", "wait", "done"}] /\ stopped \in BOOLEAN
    BY <1>1, <1>2, <1>3, <1>4 DEF Shaped
<1>7. Shaped(q) /\ q.round = round /\ q.reply = p.reply /\ q.stop = stopped
    BY <1>1, <1>5, <1>6 DEF Shaped, Fields
<1>8. AfterTools(p, v) = IF \E c \in DOMAIN v : v[c] = "wait" THEN To(q, "start")
                         ELSE IF stopped THEN FailTurn(q) ELSE Top(q)
    BY <1>3, <1>4, <1>5 DEF AfterTools
<1>9. ~stopped => /\ \A c \in Calls : q.round[c] = IF c \in ToRun(p) THEN v[c] ELSE p.round[c]
                  /\ \A c \in ToRun(p) : v[c] # "cancelled"
    BY <1>2, <1>3, <1>4, <1>7
<1>10. Onward(p, q, v)
    <2>1. /\ q.events = p.events \union Results(p, v) /\ q.handled = p.handled /\ q.dropped = p.dropped
          /\ q.turn = p.turn /\ q.held = p.held
        BY <1>1, <1>5 DEF Shaped, Fields
    <2> QED
        BY <2>1 DEF Onward, Events, Tells
<1>11. ASSUME NEW r, Sound(r), r.reply = p.reply, r.round = q.round, stopped => Dead(r), Same(q, r), r.at # "ended"
       PROVE  Good(p, r, v)
    <2>1. Onward(p, r, v)
        BY <1>10, <1>11 DEF Onward, Same
    <2>2. Told(p, r, v)
        BY <1>11, <2>1, OnwardTold
    <2> QED
        BY <1>1, <1>9, <1>11, <2>1, <2>2 DEF Good, Moved, Onward
<1>12. CASE AfterTools(p, v) = To(q, "start")
    <2>1. PICK r : r = To(q, "start")
        OBVIOUS
    <2>2. /\ Shaped(r) /\ r.at = "start" /\ r.reply = p.reply
          /\ r.round = q.round /\ r.stop = stopped /\ Same(q, r)
        BY <1>7, <2>1, ToSound DEF Ats
    <2>3. Sound(r) /\ (stopped => Dead(r))
        BY <2>2 DEF Sound, Dead
    <2> QED
        BY <1>11, <1>12, <2>1, <2>2, <2>3
<1>13. CASE stopped /\ AfterTools(p, v) = FailTurn(q)
    BY <1>7, <1>10, <1>13, FailGood
<1>14. CASE ~stopped /\ AfterTools(p, v) = Top(q)
    BY <1>7, <1>11, <1>14, TopSound
<1> QED
    BY <1>6, <1>8, <1>12, <1>13, <1>14

LEMMA StartGood ==
    ASSUME NEW p, NEW v, Sound(p), p.at = "start"
    PROVE  Good(p, AfterStart(p), v)
<1>1. PICK q : q = [p EXCEPT !.job = "runs"]
    OBVIOUS
<1>2. AfterStart(p) = IF q.stop THEN FailTurn(q) ELSE Top(q)
    BY <1>1 DEF AfterStart
<1>3. Shaped(q) /\ q.round = p.round /\ q.reply = p.reply /\ q.stop = p.stop /\ q.stop \in BOOLEAN /\ Same(p, q)
    BY <1>1 DEF Sound, Shaped, Fields, Same
<1>4. CASE q.stop
    <2>1. Onward(p, q, v)
        BY <1>3, SameOnward
    <2> QED
        BY <1>2, <1>3, <1>4, <2>1, FailGood
<1>5. CASE ~q.stop
    <2>1. ~Dead(p)
        BY <1>3, <1>5 DEF Dead
    <2>2. Sound(Top(q)) /\ Top(q).round = p.round /\ Top(q).reply = p.reply /\ Same(p, Top(q)) /\ Top(q).at # "ended"
        BY <1>3, <1>5, TopSound DEF Same
    <2> QED
        BY <1>2, <1>5, <2>1, <2>2, GoesOnGood
<1> QED
    BY <1>3, <1>4, <1>5

LEMMA EmitGood ==
    ASSUME NEW p, NEW v, Sound(p), p.at = "emit"
    PROVE  Good(p, AfterEmit(p), v)
<1>1. PICK r : r = [p EXCEPT !.events = @ \union {<<"end", p.turn, 0>>}]
    OBVIOUS
<1>2. /\ Shaped(r) /\ r.reply = p.reply /\ ~r.stop /\ r.events = p.events \union {<<"end", p.turn, 0>>}
      /\ r.handled = p.handled /\ r.dropped = p.dropped /\ r.turn = p.turn /\ r.held = p.held
    BY <1>1 DEF Sound, Shaped, Fields
<1>3. PICK at, q : at = (IF r.held THEN "ended" ELSE "next") /\ q = [r EXCEPT !.at = at, !.susp = FALSE]
    OBVIOUS
<1>4. AfterEmit(p) = q
    BY <1>1, <1>3 DEF AfterEmit, TurnOver
<1>5. at \in {"ended", "next"} /\ (at = "ended" => p.held)
    BY <1>2, <1>3
<1>6. Sound(q) /\ Dead(q) /\ q.reply = p.reply /\ q.at = at
    BY <1>2, <1>3, <1>5 DEF Sound, Shaped, Fields, Ats, Dead
<1>7. q.handled = p.handled /\ q.dropped = p.dropped /\ q.turn = p.turn /\ q.held = p.held /\ q.events = r.events
    BY <1>2, <1>3 DEF Shaped, Fields
<1>8. Events(p, v) = q.events
    BY <1>2, <1>7 DEF Events, Tells
<1>9. Told(p, q, v)
    BY <1>5, <1>6, <1>7, <1>8 DEF Told, InTurn
<1> QED
    BY <1>4, <1>6, <1>7, <1>9, StaysGood

LEMMA AfterGood ==
    ASSUME NEW p, NEW e, Sound(p), Result(p, e.val)
    PROVE  /\ Sound(After(p, e)) /\ Moved(p, After(p, e), e.val) /\ Told(p, After(p, e), e.val)
           /\ CallOf(p) \in CallKinds /\ (CallOf(p) = "next" <=> p.at \in NextAts)
           /\ After(p, e).handled = IF CallOf(p) = "next" THEN p.handled \o e.taken ELSE p.handled
           /\ After(p, e).dropped = IF CallOf(p) = "next" THEN p.dropped ELSE p.dropped \union Range(e.taken)
<1>1. PICK handled, dropped :
         /\ handled = IF CallOf(p) = "next" THEN p.handled \o e.taken ELSE p.handled
         /\ dropped = IF CallOf(p) = "next" THEN p.dropped ELSE p.dropped \union Range(e.taken)
    OBVIOUS
<1>2. PICK q : q = [p EXCEPT !.handled = handled, !.dropped = dropped]
    OBVIOUS
<1>3. /\ Shaped(q) /\ q.at = p.at /\ q.why = p.why /\ q.round = p.round /\ q.reply = p.reply
      /\ q.stop = p.stop /\ q.susp = p.susp /\ q.turn = p.turn /\ q.events = p.events /\ q.held = p.held
      /\ q.handled = handled /\ q.dropped = dropped
    BY <1>2 DEF Sound, Shaped, Fields
<1>4. Sound(q) /\ (Dead(q) <=> Dead(p)) /\ (InTurn(q) <=> InTurn(p)) /\ ToRun(q) = ToRun(p)
    BY <1>3 DEF Sound, Dead, InTurn, ToRun, New, Waits
<1>5. Result(q, e.val) /\ Events(q, e.val) = Events(p, e.val)
    BY <1>3, <1>4 DEF Result, Events, Tells, Results
<1>6. PICK r : r = After(p, e)
    OBVIOUS
<1>7. ASSUME Good(q, r, e.val)
      PROVE  /\ Sound(r) /\ Moved(p, r, e.val) /\ Told(p, r, e.val)
             /\ r.handled = handled /\ r.dropped = dropped
    BY <1>3, <1>4, <1>5, <1>7 DEF Good, Moved, Told
<1>8. CallOf(p) = IF p.at \in {"wait", "poll", "drain"} THEN "next" ELSE p.at
    BY DEF CallOf
<1>9. p.at \in {"next", "wait", "poll", "drain", "begin", "commit", "infer", "tools", "start", "cancel", "emit"}
    BY DEF Result, CallAts, Ats
<1>10. /\ CallOf(p) \in CallKinds /\ (CallOf(p) = "next" <=> p.at \in NextAts)
       /\ p.at \notin NextAts => CallOf(p) = p.at
    BY <1>8, <1>9 DEF CallKinds, NextAts
<1>11. CallOf(p) = "next" => r = AfterNext(q, e.val)
    BY <1>1, <1>2, <1>6 DEF After
<1>12. CallOf(p) = "begin" => r = AfterBegin(q)
    BY <1>1, <1>2, <1>6 DEF After
<1>13. CallOf(p) = "commit" => r = AfterCommit(q)
    BY <1>1, <1>2, <1>6 DEF After
<1>14. CallOf(p) = "infer" => r = AfterInfer(q, e.val)
    BY <1>1, <1>2, <1>6 DEF After
<1>15. CallOf(p) = "tools" => r = AfterTools(q, e.val)
    BY <1>1, <1>2, <1>6 DEF After
<1>16. CallOf(p) = "start" => r = AfterStart(q)
    BY <1>1, <1>2, <1>6 DEF After
<1>17. CallOf(p) = "cancel" => r = To(q, "emit")
    BY <1>1, <1>2, <1>6 DEF After
<1>18. CallOf(p) = "emit" => r = AfterEmit(q)
    BY <1>1, <1>2, <1>6 DEF After
<1>19. Good(q, r, e.val)
    <2>1. CASE p.at \in NextAts
        BY <1>3, <1>4, <1>5, <1>10, <1>11, <2>1, NextGood
    <2>2. CASE p.at = "begin"
        BY <1>3, <1>4, <1>8, <1>12, <2>2, BeginGood
    <2>3. CASE p.at = "commit"
        BY <1>3, <1>4, <1>8, <1>13, <2>3, CommitGood
    <2>4. CASE p.at = "infer"
        BY <1>3, <1>4, <1>5, <1>8, <1>14, <2>4, InferGood DEF Result
    <2>5. CASE p.at = "tools"
        BY <1>3, <1>4, <1>5, <1>8, <1>15, <2>5, ToolsGood
    <2>6. CASE p.at = "start"
        BY <1>3, <1>4, <1>8, <1>16, <2>6, StartGood
    <2>7. CASE p.at = "cancel"
        <3>1. Shaped(r) /\ r.at = "emit" /\ r.reply = q.reply /\ r.stop = q.stop /\ Same(q, r)
            BY <1>3, <1>8, <1>17, <2>7, ToSound DEF Ats
        <3>2. ~q.stop
            BY <1>3, <1>4, <2>7 DEF Sound
        <3>3. Sound(r) /\ Dead(r)
            BY <3>1, <3>2 DEF Sound, Dead
        <3> QED
            BY <1>3, <1>4, <2>7, <3>1, <3>3, GoesOnGood
    <2>8. CASE p.at = "emit"
        BY <1>3, <1>4, <1>8, <1>18, <2>8, EmitGood
    <2> QED
        BY <1>9, <2>1, <2>2, <2>3, <2>4, <2>5, <2>6, <2>7, <2>8 DEF NextAts
<1> QED
    BY <1>1, <1>6, <1>7, <1>10, <1>19

-----------------------------------------------------------------------------
(* The journal.                                                            *)

LEMMA SeqFacts ==
    ASSUME NEW s, IsSeq(s), NEW x
    PROVE  /\ IsSeq(Append(s, x)) /\ IsSeq(<<>>) /\ Len(s) \in Nat /\ Len(Append(s, x)) = Len(s) + 1
           /\ Append(s, x)[Len(s) + 1] = x /\ \A i \in 1..Len(s) : Append(s, x)[i] = s[i]
<1>1. PICK S : s \in Seq(S)
    BY DEF IsSeq
<1>2. PICK T : T = S \cup {x}
    OBVIOUS
<1>3. s \in Seq(T) /\ x \in T
    BY <1>1, <1>2
<1>4. /\ Append(s, x) \in Seq(T) /\ Len(s) \in Nat /\ Len(Append(s, x)) = Len(s) + 1
      /\ Append(s, x)[Len(s) + 1] = x /\ \A i \in 1..Len(s) : Append(s, x)[i] = s[i]
    BY <1>3
<1>5. <<>> \in Seq(T)
    OBVIOUS
<1> QED
    BY <1>4, <1>5 DEF IsSeq

\* A run that is live is where the journal's last entry left the session, and
\* one that is not makes the call of its next entry.
LEMMA LiveIsLast ==
    ASSUME Journaled, phase \in {"call", "step", "write"}
    PROVE  /\ pos = upto => prog = dur
           /\ phase # "call" => pos = upto /\ prog = dur
           /\ prog.at \in {"suspended", "ended"} => prog = dur
           /\ Replaying => journal[pos + 1].kind = CallOf(prog)
<1>1. PICK st : Replayed(st) /\ Runs(st)
    BY DEF Journaled
<1>2. CASE pos \in Nat /\ pos = upto /\ prog = dur
    <2>1. ~(pos < upto)
        BY <1>2
    <2> QED
        BY <1>2, <2>1 DEF Replaying
<1>3. CASE pos \in Nat /\ pos < upto /\ upto = Len(journal) /\ phase = "call" /\ prog = st[pos]
    <2>1. Len(journal) \in Nat
        BY SeqFacts DEF Journaled
    <2>2. pos + 1 \in 1..Len(journal) /\ (pos + 1) - 1 = pos /\ pos # upto
        BY <1>3, <2>1
    <2>3. journal[pos + 1].kind = CallOf(prog) /\ CallOf(prog) \in CallKinds
        BY <1>1, <1>3, <2>2 DEF Replayed
    <2>4. prog.at \notin {"suspended", "ended"}
        BY <2>3 DEF CallOf, CallKinds
    <2> QED
        BY <1>3, <2>2, <2>3, <2>4
<1> QED
    BY <1>1, <1>2, <1>3 DEF Runs

-----------------------------------------------------------------------------
(* What a step that makes no entry keeps.                                  *)

\* The session as the journal left it, and the calls that ran, stay.
LEMMA SessionKept ==
    ASSUME IInv, UNCHANGED <<dur, records, ran>>
    PROVE  Sound(dur)' /\ RecordsOK' /\ RanOK' /\ RunsOnce'
<1>1. Sound(dur) /\ RecordsOK /\ RanOK /\ RunsOnce
    BY DEF IInv
<1>2. dur' = dur /\ records' = records /\ ran' = ran
    OBVIOUS
<1>3. Sound(dur)'
    BY <1>1, <1>2
<1>4. RecordsOK'
    BY <1>1, <1>2 DEF RecordsOK
<1>5. RanOK'
    BY <1>1, <1>2 DEF RanOK
<1>6. RunsOnce'
    BY <1>1, <1>2 DEF RunsOnce
<1> QED
    BY <1>3, <1>4, <1>5, <1>6

LEMMA MailsKept ==
    ASSUME IInv, UNCHANGED <<wakes, box>>, mail' \in Seq(Nat), \A n : In(n, mail') => In(n, mail) \/ n \in box
    PROVE  Mails'
BY DEF IInv, Mails

LEMMA MailStays ==
    ASSUME IInv, UNCHANGED <<wakes, box, mail>>
    PROVE  Mails'
<1>1. mail \in Seq(Nat)
    BY DEF IInv, Mails
<1> QED
    BY <1>1, MailsKept

\* A run goes on, or stops, between two entries.
LEMMA JournalKept ==
    ASSUME IInv, ~ended, UNCHANGED <<journal, carry, dur>>,
           \/ phase' \notin {"call", "step", "write"}
           \/ phase \in {"call", "step", "write"} /\ UNCHANGED <<pos, upto, prog>> /\ (pos = upto \/ phase' = phase)
    PROVE  Journaled'
<1>1. IsSeq(journal)
    BY DEF IInv, Journaled
<1>2. PICK st : Replayed(st) /\ Runs(st)
    BY DEF IInv, Journaled
<1>3. Replayed(st)' /\ IsSeq(journal)'
    BY <1>1, <1>2 DEF Replayed, IsSeq
<1>4. Runs(st)'
    <2>1. CASE phase' \notin {"call", "step", "write"}
        BY <2>1 DEF Runs
    <2>2. CASE phase \in {"call", "step", "write"} /\ UNCHANGED <<pos, upto, prog>> /\ (pos = upto \/ phase' = phase)
        <3>1. \/ pos \in Nat /\ pos = upto /\ prog = dur
              \/ pos \in Nat /\ pos < upto /\ upto = Len(journal) /\ phase = "call" /\ prog = st[pos]
            BY <1>2, <2>2 DEF Runs
        <3>2. pos \in Nat /\ pos = upto => ~(pos < upto)
            OBVIOUS
        <3> QED
            BY <2>2, <3>1, <3>2 DEF Runs
    <2> QED
        BY <2>1, <2>2
<1> QED
    BY <1>3, <1>4 DEF Journaled

LEMMA LoadedMails ==
    ASSUME Mails
    PROVE  LoadedMail \in Seq(Nat) /\ \A n : In(n, LoadedMail) => n \in DOMAIN wakes
<1>1. wakes \in Seq(Kinds) /\ mail \in Seq(Nat) /\ box \subseteq DOMAIN wakes /\ \A n : In(n, mail) => n \in DOMAIN wakes
    BY DEF Mails
<1>2. PICK k, s, K : k = Len(wakes) /\ s = [n \in DOMAIN wakes |-> n] /\ K = box
    OBVIOUS
<1>3. k \in Nat /\ DOMAIN wakes = 1..k
    BY <1>1, <1>2
<1>4. s \in Seq(Nat) /\ DOMAIN s = 1..k /\ \A i \in 1..k : s[i] = i
    BY <1>2, <1>3
<1>5. K \in SUBSET (DOMAIN s)
    BY <1>1, <1>2, <1>3, <1>4
<1>6. Picked(s, K) \in Seq(Nat) /\ \A n : In(n, Picked(s, K)) => \E i \in K : n = s[i]
    BY <1>4, <1>5, SeqPicked
<1>7. \A n : In(n, Picked(s, K)) => n \in DOMAIN wakes
    BY <1>3, <1>4, <1>5, <1>6
<1>8. InOrder(box) = Picked(s, K)
    BY <1>2 DEF InOrder
<1> QED
    BY <1>1, <1>6, <1>7, <1>8 DEF LoadedMail

LEMMA UntakenMails ==
    ASSUME NEW s \in Seq(Nat), NEW S
    PROVE  Untaken(s, S) \in Seq(Nat) /\ \A n : In(n, Untaken(s, S)) => In(n, s)
<1>1. PICK K : K = {i \in DOMAIN s : s[i] \notin S}
    OBVIOUS
<1>2. Untaken(s, S) = Picked(s, K) /\ K \in SUBSET (DOMAIN s)
    BY <1>1 DEF Untaken
<1>3. Picked(s, K) \in Seq(Nat) /\ \A x : In(x, Picked(s, K)) => \E k \in K : x = s[k]
    BY <1>2, SeqPicked
<1> QED
    BY <1>2, <1>3 DEF In

\* A request: a run starts, or goes on.
LEMMA KickKeeps ==
    ASSUME IInv, ~ended, Kicked, UNCHANGED <<journal, carry, ended, dur, records, ran, run>>
    PROVE  /\ IF ended' THEN phase' \notin {"call", "step", "write"} ELSE Journaled'
           /\ Steps' /\ Sound(dur)' /\ RecordsOK' /\ RanOK' /\ RunsOnce'
<1>1. /\ phase' = IF phase = "off" THEN "start" ELSE phase
      /\ UNCHANGED <<pos, upto, prog, val, fin>>
    BY DEF Kicked, run
<1>2. phase' \notin {"call", "step", "write"} \/ phase' = phase
    BY <1>1
<1>3. Journaled'
    BY <1>1, <1>2, JournalKept
<1>4. Steps'
    BY <1>1, <1>2 DEF IInv, Steps, InStep
<1> QED
    BY <1>3, <1>4, SessionKept

LEMMA WakeKeeps ==
    ASSUME IInv, NEW kind \in Kinds, Wake(kind)
    PROVE  IInv'
<1>1. PICK n : n = Len(wakes')
    OBVIOUS
<1>2. /\ wakes' = Append(wakes, kind) /\ box' = box \union {n}
      /\ mail' = Append(LoadedMail, n)
    BY <1>1 DEF Wake
<1>3. Mails /\ wakes \in Seq(Kinds)
    BY DEF IInv, Mails
<1>4. /\ wakes' \in Seq(Kinds) /\ n \in Nat /\ n \in DOMAIN wakes'
      /\ \A m \in DOMAIN wakes : m \in DOMAIN wakes'
    BY <1>1, <1>2, <1>3
<1>5. mail' \in Seq(Nat) /\ \A m : In(m, mail') <=> In(m, LoadedMail) \/ m = n
    BY <1>2, <1>3, <1>4, LoadedMails, AppendElements
<1>6. Mails'
    <2>1. box \subseteq DOMAIN wakes
        BY <1>3 DEF Mails
    <2>2. box' \subseteq DOMAIN wakes'
        BY <1>2, <1>4, <2>1
    <2>3. \A m : In(m, LoadedMail) => m \in DOMAIN wakes
        BY <1>3, LoadedMails
    <2>4. \A m : In(m, mail') => m \in DOMAIN wakes'
        BY <1>4, <1>5, <2>3
    <2> QED
        BY <1>4, <1>5, <2>2, <2>4 DEF Mails
<1>7. ~ended /\ Kicked /\ UNCHANGED <<journal, carry, ended, dur, records, ran, run>>
    BY DEF Wake, ghosts
<1> QED
    BY <1>6, <1>7, KickKeeps DEF IInv

LEMMA AlarmKeeps ==
    ASSUME IInv, Alarm
    PROVE  IInv'
<1>1. ~ended /\ Kicked /\ UNCHANGED <<journal, carry, ended, dur, records, ran, run>>
    BY DEF Alarm, storage, ghosts
<1>2. UNCHANGED <<wakes, box>> /\ mail' = LoadedMail
    BY DEF Alarm, storage
<1>3. Mails'
    <2>1. Mails
        BY DEF IInv
    <2> QED
        BY <1>2, <2>1, LoadedMails DEF Mails
<1> QED
    BY <1>1, <1>3, KickKeeps DEF IInv

LEMMA RunStartsKeeps ==
    ASSUME IInv, RunStarts
    PROVE  IInv'
<1>1. /\ ~ended /\ phase' = "call" /\ pos' = 0 /\ upto' = Len(journal) /\ prog' = Resumed(carry)
      /\ mail' = Untaken(mail, Taken(journal))
      /\ UNCHANGED <<wakes, box, journal, carry, ended, dur, records, ran>>
    BY DEF RunStarts, RunIs, storage, ghosts
<1>2. Mails'
    <2>1. mail \in Seq(Nat)
        BY DEF IInv, Mails
    <2> QED
        BY <1>1, <2>1, UntakenMails, MailsKept
<1>3. IsSeq(journal) /\ Len(journal) \in Nat
    BY <1>1, SeqFacts DEF IInv, Journaled
<1>4. PICK st : Replayed(st) /\ Runs(st)
    BY <1>1 DEF IInv, Journaled
<1>5. st[0] = Resumed(carry) /\ st[Len(journal)] = dur
    BY <1>4 DEF Replayed
<1>6. Runs(st)'
    <2>1. CASE Len(journal) = 0
        BY <1>1, <1>5, <2>1 DEF Runs
    <2>2. CASE Len(journal) # 0
        BY <1>1, <1>3, <1>5, <2>2 DEF Runs
    <2> QED
        BY <2>1, <2>2
<1>7. Replayed(st)' /\ IsSeq(journal)'
    BY <1>1, <1>3, <1>4 DEF Replayed, IsSeq
<1>8. Journaled'
    BY <1>6, <1>7 DEF Journaled
<1>9. Steps'
    BY <1>1 DEF Steps, InStep
<1> QED
    BY <1>1, <1>2, <1>8, <1>9, SessionKept DEF IInv

\* A run that does not go on: none to start, a storage that failed, or the end.
LEMMA OffKeeps ==
    ASSUME IInv, phase' \notin {"call", "step", "write"}, UNCHANGED <<wakes, box, journal, carry, ended, dur, records, ran>>,
           mail' = mail \/ mail' = <<>>
    PROVE  IInv'
<1>1. mail \in Seq(Nat) /\ <<>> \in Seq(Nat)
    BY DEF IInv, Mails
<1>2. Mails'
    <2>1. CASE mail' = mail
        BY <2>1, MailStays
    <2>2. CASE mail' = <<>>
        BY <1>1, <2>2, OneElement, MailsKept
    <2> QED
        BY <2>1, <2>2
<1>3. ~ended => Journaled'
    BY JournalKept
<1>4. Steps'
    BY DEF Steps, InStep
<1> QED
    BY <1>2, <1>3, <1>4, SessionKept DEF IInv

LEMMA StopKeeps ==
    ASSUME IInv, NothingToRun \/ StorageFails \/ Crash \/ RunEnds
    PROVE  IInv'
<1>1. CASE NothingToRun
    BY <1>1, OffKeeps DEF NothingToRun, storage, ghosts
<1>2. CASE StorageFails
    BY <1>2, OffKeeps DEF StorageFails, Stop, storage
<1>3. CASE Crash
    BY <1>3, OffKeeps DEF Crash, storage
<1>4. CASE RunEnds
    BY <1>4, OffKeeps DEF RunEnds, storage, ghosts
<1> QED
    BY <1>1, <1>2, <1>3, <1>4

LEMMA ReplayKeeps ==
    ASSUME IInv, Replay
    PROVE  IInv'
<1>1. /\ phase = "call" /\ pos < upto /\ phase' = phase
      /\ prog' = After(prog, journal[pos + 1]) /\ pos' = pos + 1
      /\ UNCHANGED <<wakes, box, mail, journal, carry, ended, dur, records, ran, upto>>
    BY DEF Replay, Replaying, storage, ghosts
<1>2. ~ended /\ Journaled
    BY <1>1 DEF IInv
<1>3. PICK st : Replayed(st) /\ Runs(st)
    BY <1>2 DEF Journaled
<1>4. IsSeq(journal) /\ Len(journal) \in Nat
    BY <1>2, SeqFacts DEF Journaled
<1>5. pos \in Nat /\ upto = Len(journal) /\ prog = st[pos]
    <2>1. pos \in Nat /\ pos = upto => ~(pos < upto)
        OBVIOUS
    <2> QED
        BY <1>1, <1>3, <2>1 DEF Runs
<1>6. pos + 1 \in 1..Len(journal) /\ (pos + 1) - 1 = pos
    BY <1>1, <1>4, <1>5
<1>7. prog' = st[pos']
    BY <1>1, <1>3, <1>5, <1>6 DEF Replayed
<1>8. Runs(st)'
    <2>1. CASE pos + 1 = Len(journal)
        <3>1. st[Len(journal)] = dur
            BY <1>3 DEF Replayed
        <3> QED
            BY <1>1, <1>5, <1>7, <2>1, <3>1 DEF Runs
    <2>2. CASE pos + 1 # Len(journal)
        BY <1>1, <1>5, <1>6, <1>7, <2>2 DEF Runs
    <2> QED
        BY <2>1, <2>2
<1>9. Replayed(st)' /\ IsSeq(journal)'
    BY <1>1, <1>3, <1>4 DEF Replayed, IsSeq
<1>10. Journaled' /\ ~ended'
    BY <1>1, <1>2, <1>8, <1>9 DEF Journaled
<1>11. Steps'
    BY <1>1 DEF Steps, InStep
<1> QED
    BY <1>1, <1>10, <1>11, SessionKept, MailStays DEF IInv

-----------------------------------------------------------------------------
(* Live calls.                                                             *)

\* A step of the run that leaves the storage and the journal's state alone.
LEMMA StepKeeps ==
    ASSUME IInv, phase \in {"call", "step", "write"}, pos = upto \/ phase' = phase, Steps',
           UNCHANGED <<wakes, box, mail, journal, carry, ended, dur, records, ran, pos, upto, prog>>
    PROVE  IInv'
<1>1. ~ended /\ ~ended'
    BY DEF IInv
<1> QED
    BY <1>1, SessionKept, MailStays, JournalKept DEF IInv

\* A call that has its result.
LEMMA WritesKeeps ==
    ASSUME IInv, phase \in {"call", "step"}, pos = upto, NEW v, NEW taken, Writes(v, taken), Result(prog, v),
           UNCHANGED <<wakes, box, journal, carry, ended, records, ran>>
    PROVE  IInv'
<1>1. phase' = "write" /\ val' = v /\ UNCHANGED <<mail, pos, upto, prog, dur>>
    BY DEF Writes
<1>2. Steps'
    BY <1>1 DEF Steps, InStep, Result
<1> QED
    BY <1>1, <1>2, StepKeeps

LEMMA TakeWakeKeeps ==
    ASSUME IInv, TakeWake
    PROVE  IInv'
<1>1. /\ phase = "call" /\ pos = upto /\ prog.at \in NextAts
      /\ UNCHANGED <<wakes, box, journal, carry, ended, records, ran>>
    BY DEF TakeWake, Live, NextAts, storage
<1>2. ASSUME NEW v, v \in {"prompt", "cancel", "close", "job", "suspend"} \/ (v = "none" /\ prog.at \in {"poll", "drain"})
      PROVE  Result(prog, v)
    <2>1. prog.at \in CallAts /\ prog.at # "infer" /\ prog.at # "tools"
        BY <1>1 DEF NextAts, CallAts, Ats
    <2> QED
        BY <1>2, <2>1 DEF Result
<1>3. CASE mail # <<>>
    <2>1. mail \in Seq(Nat) /\ wakes \in Seq(Kinds) /\ \A n : In(n, mail) => n \in DOMAIN wakes
        BY DEF IInv, Mails
    <2>2. Head(mail) \in DOMAIN wakes
        BY <1>3, <2>1, TailElements
    <2>3. wakes[Head(mail)] \in {"prompt", "cancel", "close", "job"}
        <3>1. wakes[Head(mail)] \in Kinds
            BY <2>1, <2>2
        <3> QED
            BY <3>1, ConstantsOK DEF ConstantsOK
    <2>4. Writes(wakes[Head(mail)], <<Head(mail)>>)
        BY <1>3 DEF TakeWake
    <2> QED
        BY <1>1, <1>2, <2>3, <2>4, WritesKeeps
<1>4. CASE mail = <<>>
    <2>1. PICK v : v = IF prog.at \in {"next", "wait"} THEN "suspend" ELSE "none"
        OBVIOUS
    <2>2. Writes(v, <<>>)
        BY <1>4, <2>1 DEF TakeWake
    <2>3. v = "suspend" \/ (v = "none" /\ prog.at \in {"poll", "drain"})
        BY <1>1, <2>1 DEF NextAts
    <2> QED
        BY <1>1, <1>2, <2>2, <2>3, WritesKeeps
<1> QED
    BY <1>3, <1>4

LEMMA ActKeeps ==
    ASSUME IInv, Begin \/ Act
    PROVE  IInv'
<1>1. /\ phase = "call" /\ pos = upto /\ prog.at \in {"begin", "commit", "start", "cancel", "emit"}
      /\ Writes("ok", <<>>) /\ UNCHANGED <<wakes, box, journal, carry, ended, records, ran>>
    BY DEF Begin, Act, Live, storage
<1>2. Result(prog, "ok")
    BY <1>1 DEF Result, NextAts, CallAts, Ats
<1> QED
    BY <1>1, <1>2, WritesKeeps

LEMMA StepStartsKeeps ==
    ASSUME IInv, StepStarts
    PROVE  IInv'
<1>1. /\ phase = "call" /\ pos = upto /\ prog.at \in {"infer", "tools"} /\ phase' = "step"
      /\ fin' = [c \in {} |-> "none"]
      /\ UNCHANGED <<wakes, box, mail, journal, carry, ended, dur, records, ran, pos, upto, prog>>
    BY DEF StepStarts, Live, storage, ghosts
<1>2. DOMAIN fin' = {}
    BY <1>1
<1>3. Steps'
    BY <1>1, <1>2 DEF Steps, InStep
<1> QED
    BY <1>1, <1>3, StepKeeps

\* A step that runs is at the journal's last state.
LEMMA StepIsLast ==
    ASSUME IInv, phase \in {"step", "write"}
    PROVE  ~ended /\ Journaled /\ pos = upto /\ prog = dur
<1>1. ~ended /\ Journaled
    BY DEF IInv
<1> QED
    BY <1>1, LiveIsLast

LEMMA InferKeeps ==
    ASSUME IInv, InferEnds \/ InferCancelled
    PROVE  IInv'
<1>1. phase = "step" /\ prog.at = "infer" /\ UNCHANGED <<wakes, box, journal, carry, ended, records, ran>>
    BY DEF InferEnds, InferCancelled, InStep, storage
<1>2. PICK v, taken : v \in {"done", "calls", "cancelled"} /\ Writes(v, taken)
    BY DEF InferEnds, InferCancelled
<1>3. Result(prog, v)
    BY <1>1, <1>2 DEF Result, NextAts, CallAts, Ats
<1> QED
    BY <1>1, <1>2, <1>3, StepIsLast, WritesKeeps

-----------------------------------------------------------------------------
(* A Tools step.                                                           *)

LEMMA ToRunFacts ==
    ASSUME NEW p, NEW c \in ToRun(p)
    PROVE  c \in Calls /\ p.round[c] \in {"new", "wait"}
BY DEF ToRun, New, Waits

\* A call of the step ended.
LEMMA CallEnds ==
    ASSUME IInv, NEW c, Runnable(c), NEW out, fin' = Ends(c, out), UNCHANGED <<phase, prog>>,
           out = "done" \/ (out = "wait" /\ prog.round[c] = "new")
    PROVE  Steps'
<1>1. phase = "step" /\ prog.at = "tools" /\ c \in ToRun(prog)
    BY DEF Runnable, InStep
<1>2. /\ DOMAIN fin \subseteq ToRun(prog)
      /\ \A d \in DOMAIN fin : fin[d] = "done" \/ (fin[d] = "wait" /\ prog.round[d] = "new")
    BY <1>1 DEF IInv, Steps, InStep
<1>3. DOMAIN fin' = DOMAIN fin \union {c} /\ \A d \in DOMAIN fin' : fin'[d] = IF d = c THEN out ELSE fin[d]
    BY DEF Ends
<1>4. DOMAIN fin' \subseteq ToRun(prog)
    BY <1>1, <1>2, <1>3
<1>5. \A d \in DOMAIN fin' : fin'[d] = "done" \/ (fin'[d] = "wait" /\ prog.round[d] = "new")
    BY <1>2, <1>3
<1>6. (ToRun(prog))' = ToRun(prog)
    BY DEF ToRun, New, Waits
<1> QED
    BY <1>1, <1>4, <1>5, <1>6 DEF Steps, InStep

LEMMA CallFoundKeeps ==
    ASSUME IInv, NEW c \in Calls, CallFound(c)
    PROVE  IInv'
<1>1. PICK r \in Recorded(c) : fin' = Ends(c, r.out)
    BY DEF CallFound
<1>2. /\ Runnable(c) /\ UNCHANGED <<phase, prog>> /\ phase = "step"
      /\ UNCHANGED <<wakes, box, mail, journal, carry, ended, dur, records, ran, pos, upto, prog>>
    BY DEF CallFound, Runnable, InStep, storage, ghosts
<1>3. prog = dur
    BY <1>2, StepIsLast
<1>4. r \in records /\ r.call = c
    BY <1>1 DEF Recorded
<1>5. r.out = "done" \/ (r.out = "wait" /\ prog.round[c] = "new")
    BY <1>3, <1>4 DEF IInv, RecordsOK
<1>6. Steps'
    BY <1>1, <1>2, <1>5, CallEnds
<1> QED
    BY <1>2, <1>6, StepKeeps

\* A call runs only without a record, and the one reason it has to run is new.
LEMMA CallRunsKeeps ==
    ASSUME IInv, NEW c \in Calls, CallRuns(c)
    PROVE  IInv'
<1>1. PICK out \in Outcomes(c) : RunsCall(c, out)
    BY DEF CallRuns
<1>2. /\ Runnable(c) /\ phase = "step" /\ prog.at = "tools" /\ c \in ToRun(prog) /\ Recorded(c) = {}
    BY DEF CallRuns, Runnable, InStep
<1>3. prog = dur /\ pos = upto /\ ~ended /\ Journaled
    BY <1>2, StepIsLast
<1>4. PICK t, rec, K : /\ t = <<dur.reply, c, dur.round[c]>> /\ rec = Record(c, out) /\ K = {"new", "wait"}
    OBVIOUS
<1>5. /\ fin' = Ends(c, out) /\ records' = records \union {rec} /\ ran' = Append(ran, t)
      /\ UNCHANGED <<wakes, box, mail, journal, carry, ended, dur, phase, pos, upto, prog>>
    BY <1>1, <1>3, <1>4 DEF RunsCall
<1>6. rec.reply = dur.reply /\ rec.call = c /\ rec.out = out
    BY <1>3, <1>4 DEF Record
<1>7. dur.round[c] \in K /\ dur.reply \in Nat /\ ~Dead(dur)
    BY <1>2, <1>3, <1>4, ToRunFacts DEF IInv, Sound, Shaped, Dead
<1>8. out = "done" \/ (out = "wait" /\ dur.round[c] = "new")
    BY <1>1, <1>3 DEF Outcomes
<1>9. /\ RecordsOK /\ RanOK /\ RunsOnce
    BY DEF IInv
<1>10. ran \in Seq(Nat \X Calls \X K) /\ t \in Nat \X Calls \X K /\ t[1] = dur.reply /\ t[2] = c /\ t[3] = dur.round[c]
    BY <1>4, <1>7, <1>9 DEF RanOK
<1>11. PICK n : n = Len(ran)
    OBVIOUS
<1>12. /\ n \in Nat /\ DOMAIN ran = 1..n /\ ran' \in Seq(Nat \X Calls \X K) /\ DOMAIN ran' = 1..(n + 1)
       /\ ran'[n + 1] = t /\ \A i \in 1..n : ran'[i] = ran[i]
    BY <1>5, <1>10, <1>11
<1>13. \A i \in DOMAIN ran : i \in DOMAIN ran' /\ ran'[i] = ran[i]
    BY <1>12
<1>14. n + 1 \in DOMAIN ran' /\ \A i \in DOMAIN ran' : i \in DOMAIN ran \/ i = n + 1
    BY <1>12
<1>15. ASSUME NEW i \in DOMAIN ran, ran[i] = t PROVE FALSE
    <2>1. ~Past(dur.round[c], dur.round[c])
        BY <1>4, <1>7 DEF Past
    <2>2. PICK r \in records : r.call = c
        BY <1>7, <1>9, <1>10, <1>15, <2>1 DEF RanOK
    <2>3. r.reply = dur.reply
        BY <1>9 DEF RecordsOK
    <2> QED
        BY <1>2, <1>3, <2>2, <2>3 DEF Recorded
<1>16. RunsOnce'
    <2>1. \A i, j \in DOMAIN ran : ran[i] = ran[j] => i = j
        BY <1>9 DEF RunsOnce, IsInjective
    <2>2. ASSUME NEW i \in DOMAIN ran', NEW j \in DOMAIN ran', ran'[i] = ran'[j] PROVE i = j
        <3>1. CASE i \in DOMAIN ran /\ j \in DOMAIN ran
            BY <1>13, <2>1, <2>2, <3>1
        <3>2. CASE i \in DOMAIN ran /\ j = n + 1
            BY <1>12, <1>13, <1>15, <2>2, <3>2
        <3>3. CASE j \in DOMAIN ran /\ i = n + 1
            BY <1>12, <1>13, <1>15, <2>2, <3>3
        <3> QED
            BY <1>14, <3>1, <3>2, <3>3
    <2> QED
        BY <2>2 DEF RunsOnce, IsInjective
<1>17. RecordsOK'
    <2>1. \A r \in records :
            /\ dur.at = "tools" /\ r.reply = dur.reply /\ r.call \in ToRun(dur)
            /\ r.out = "done" \/ (r.out = "wait" /\ dur.round[r.call] = "new")
            /\ \E i \in DOMAIN ran' : ran'[i] = <<r.reply, r.call, dur.round[r.call]>>
        BY <1>9, <1>13 DEF RecordsOK
    <2>2. \E i \in DOMAIN ran' : ran'[i] = <<rec.reply, rec.call, dur.round[rec.call]>>
        BY <1>4, <1>6, <1>12, <1>14
    <2>3. /\ dur.at = "tools" /\ rec.reply = dur.reply /\ rec.call \in ToRun(dur)
          /\ rec.out = "done" \/ (rec.out = "wait" /\ dur.round[rec.call] = "new")
        BY <1>2, <1>3, <1>6, <1>8
    <2>4. (ToRun(dur))' = ToRun(dur) /\ dur' = dur
        BY <1>5 DEF ToRun, New, Waits
    <2>5. \A r \in records' : r \in records \/ r = rec
        BY <1>5
    <2>6. \A r \in records' :
            /\ dur.at = "tools" /\ r.reply = dur.reply /\ r.call \in ToRun(dur)
            /\ r.out = "done" \/ (r.out = "wait" /\ dur.round[r.call] = "new")
            /\ \E i \in DOMAIN ran' : ran'[i] = <<r.reply, r.call, dur.round[r.call]>>
        BY <2>1, <2>2, <2>3, <2>5
    <2> QED
        BY <2>4, <2>6 DEF RecordsOK
<1>18. RanOK'
    <2>1. ASSUME NEW i \in DOMAIN ran'
          PROVE  /\ ran'[i][1] <= dur.reply
                 /\ ran'[i][1] = dur.reply =>
                      \/ Dead(dur) \/ Past(dur.round[ran'[i][2]], ran'[i][3])
                      \/ dur.round[ran'[i][2]] = ran'[i][3] /\ \E r \in records' : r.call = ran'[i][2]
        <3>1. CASE i \in DOMAIN ran
            BY <1>5, <1>9, <1>13, <3>1 DEF RanOK
        <3>2. CASE i = n + 1
            BY <1>5, <1>6, <1>7, <1>10, <1>12, <3>2
        <3> QED
            BY <1>14, <3>1, <3>2
    <2>2. dur' = dur
        BY <1>5
    <2> QED
        BY <1>4, <1>12, <2>1, <2>2 DEF RanOK
<1>19. Steps'
    BY <1>2, <1>3, <1>5, <1>8, CallEnds
<1>20. Journaled' /\ ~ended'
    BY <1>2, <1>3, <1>5, JournalKept
<1>21. Sound(dur)'
    BY <1>5 DEF IInv
<1> QED
    BY <1>5, <1>16, <1>17, <1>18, <1>19, <1>20, <1>21, MailStays DEF IInv

LEMMA ToolsCancelledKeeps ==
    ASSUME IInv, ToolsCancelled
    PROVE  IInv'
<1>1. /\ phase = "step" /\ phase' = phase
      /\ UNCHANGED <<wakes, box, mail, journal, carry, ended, dur, records, ran, pos, upto, prog, val, fin>>
    BY DEF ToolsCancelled, InStep, storage, ghosts
<1>2. Steps'
    BY <1>1 DEF IInv, Steps, InStep
<1> QED
    BY <1>1, <1>2, StepKeeps

LEMMA ToolsEndKeeps ==
    ASSUME IInv, ToolsEnd \/ ToolsUnread
    PROVE  IInv'
<1>1. /\ phase = "step" /\ prog.at = "tools" /\ Writes(Outcome, pend)
      /\ UNCHANGED <<wakes, box, journal, carry, ended, records, ran>>
    BY DEF ToolsEnd, ToolsUnread, InStep, storage
<1>2. \A c \in DOMAIN fin : fin[c] = "done" \/ (fin[c] = "wait" /\ prog.round[c] = "new")
    BY <1>1 DEF IInv, Steps, InStep
<1>3. DOMAIN Outcome = ToRun(prog) /\ \A c \in ToRun(prog) : Outcome[c] = IF c \in DOMAIN fin THEN fin[c] ELSE "cancelled"
    BY DEF Outcome
<1>4. Result(prog, Outcome)
    <2>1. \A c \in ToRun(prog) : Outcome[c] \in {"done", "cancelled"} \/ (Outcome[c] = "wait" /\ prog.round[c] = "new")
        BY <1>2, <1>3
    <2> QED
        BY <1>1, <1>3, <2>1 DEF Result, NextAts, CallAts, Ats
<1> QED
    BY <1>1, <1>4, StepIsLast, WritesKeeps

-----------------------------------------------------------------------------
(* Entries, suspends and the end.                                          *)

LEMMA WriteKeeps ==
    ASSUME IInv, Write
    PROVE  IInv'
<1>1. PICK e : e = Entry
    OBVIOUS
<1>2. e.kind = CallOf(prog) /\ e.val = val
    BY <1>1 DEF Entry
<1>3. /\ phase = "write" /\ journal' = Append(journal, e) /\ records' = KeptRecords
      /\ mail' = Untaken(mail, Range(pend)) /\ prog' = After(prog, e) /\ dur' = After(dur, e)
      /\ phase' = "call" /\ UNCHANGED <<wakes, box, carry, ended, pos, upto, ran>>
    BY <1>1 DEF Write
<1>4. prog = dur /\ pos = upto /\ ~ended /\ Journaled
    BY <1>3, StepIsLast
<1>5. Sound(dur) /\ Result(dur, val) /\ RecordsOK /\ RanOK /\ RunsOnce
    BY <1>3, <1>4 DEF IInv, Steps
<1>6. Sound(After(dur, e)) /\ Moved(dur, After(dur, e), e.val) /\ CallOf(dur) \in CallKinds
    BY <1>2, <1>5, AfterGood
<1>7. Sound(dur)' /\ Moved(dur, dur', val)
    BY <1>2, <1>3, <1>6
<1>8. records' = {}
    <2>1. \A r \in records : dur.at = "tools" /\ r.reply = dur.reply /\ r.call \in ToRun(dur)
        BY <1>5 DEF RecordsOK
    <2>2. dur.at = "tools" => e.kind = "tools" /\ DOMAIN val = ToRun(dur)
        BY <1>2, <1>4, <1>5 DEF CallOf, Result
    <2>3. KeptRecords = IF e.kind = "tools" THEN {r \in records : r.reply # prog.reply \/ r.call \notin DOMAIN val}
                        ELSE records
        BY <1>1 DEF KeptRecords
    <2> QED
        BY <1>3, <1>4, <2>1, <2>2, <2>3
<1>9. Mails'
    <2>1. mail \in Seq(Nat)
        BY DEF IInv, Mails
    <2> QED
        BY <1>3, <2>1, UntakenMails, MailsKept
<1>10. Journaled'
    <2>1. PICK st : Replayed(st) /\ Runs(st)
        BY <1>4 DEF Journaled
    <2>2. PICK n : n = Len(journal)
        OBVIOUS
    <2>3. /\ n \in Nat /\ IsSeq(journal') /\ Len(journal') = n + 1 /\ journal'[n + 1] = e
          /\ \A i \in 1..n : journal'[i] = journal[i]
        BY <1>3, <1>4, <2>2, SeqFacts DEF Journaled
    <2>4. PICK nst : nst = [i \in 0..(n + 1) |-> IF i = n + 1 THEN dur' ELSE st[i]]
        OBVIOUS
    <2>5. DOMAIN nst = 0..(n + 1) /\ nst[n + 1] = dur' /\ \A i \in 0..n : nst[i] = st[i]
        BY <2>3, <2>4
    <2>6. st[0] = Resumed(carry) /\ st[n] = dur
        BY <2>1, <2>2 DEF Replayed
    <2>7. ASSUME NEW i \in 1..(n + 1)
          PROVE  /\ journal'[i].kind = CallOf(nst[i - 1]) /\ journal'[i].kind \in CallKinds
                 /\ nst[i] = After(nst[i - 1], journal'[i])
        <3>1. CASE i = n + 1
            <4>1. i - 1 = n /\ n \in 0..n
                BY <2>3, <3>1
            <4>2. nst[i - 1] = dur /\ nst[i] = dur' /\ journal'[i] = e
                BY <2>3, <2>5, <2>6, <3>1, <4>1
            <4> QED
                BY <1>2, <1>3, <1>4, <1>6, <4>2
        <3>2. CASE i # n + 1
            <4>1. i \in 1..n /\ i \in 0..n /\ i - 1 \in 0..n
                BY <2>3, <3>2
            <4>2. nst[i - 1] = st[i - 1] /\ nst[i] = st[i] /\ journal'[i] = journal[i]
                BY <2>3, <2>5, <4>1
            <4> QED
                BY <2>1, <2>2, <4>1, <4>2 DEF Replayed
        <3> QED
            BY <3>1, <3>2
    <2>8. nst[0] = Resumed(carry)
        BY <2>3, <2>5, <2>6
    <2>9. carry' = carry /\ \A i \in 0..(n + 1) : Sound(nst[i])
        <3>1. \A i \in 0..n : Sound(nst[i])
            BY <2>1, <2>2, <2>5 DEF Replayed
        <3>2. Sound(nst[n + 1])
            BY <1>7, <2>5
        <3>3. \A i \in 0..(n + 1) : i \in 0..n \/ i = n + 1
            BY <2>3
        <3> QED
            BY <1>3, <3>1, <3>2, <3>3
    <2>10. Replayed(nst)'
        BY <2>3, <2>5, <2>7, <2>8, <2>9 DEF Replayed
    <2>11. prog' = dur' /\ pos' = upto' /\ pos' \in Nat
        <3>1. pos \in Nat
            BY <1>3, <2>1 DEF Runs
        <3> QED
            BY <1>3, <1>4, <3>1
    <2>12. Runs(nst)'
        BY <2>11 DEF Runs
    <2> QED
        BY <2>3, <2>10, <2>12 DEF Journaled
<1>11. RanOK'
    <2>1. ASSUME NEW i \in DOMAIN ran
          PROVE  /\ ran[i][1] <= dur'.reply
                 /\ ran[i][1] = dur'.reply => Dead(dur') \/ Past(dur'.round[ran[i][2]], ran[i][3])
        <3>1. PICK n, c, then : n = ran[i][1] /\ c = ran[i][2] /\ then = ran[i][3]
            OBVIOUS
        <3>2. n \in Nat /\ c \in Calls /\ then \in {"new", "wait"}
            BY <1>5, <3>1 DEF RanOK
        <3>3. /\ n <= dur.reply
              /\ n = dur.reply =>
                   \/ Dead(dur) \/ Past(dur.round[c], then)
                   \/ dur.round[c] = then /\ \E r \in records : r.call = c
            BY <1>5, <3>1 DEF RanOK
        <3>4. dur.reply \in Nat /\ dur'.reply \in {dur.reply, dur.reply + 1}
            BY <1>5, <1>7 DEF Sound, Shaped, Moved
        <3>5. n <= dur'.reply /\ (n = dur'.reply => n = dur.reply /\ dur'.reply = dur.reply)
            BY <3>2, <3>3, <3>4
        <3>6. ASSUME n = dur'.reply PROVE Dead(dur') \/ Past(dur'.round[c], then)
            <4>1. dur'.reply = dur.reply /\ n = dur.reply
                BY <3>5, <3>6
            <4>2. CASE \A d \in Calls : dur'.round[d] = "none"
                BY <3>2, <4>2 DEF Past
            <4>3. CASE ~Dead(dur) /\ dur.at # "tools" /\ dur'.round = dur.round
                <5>1. records = {}
                    BY <1>5, <4>3 DEF RecordsOK
                <5> QED
                    BY <3>3, <4>1, <4>3, <5>1
            <4>4. CASE /\ ~Dead(dur) /\ dur.at = "tools"
                       /\ \A d \in Calls : dur'.round[d] = IF d \in ToRun(dur) THEN val[d] ELSE dur.round[d]
                       /\ \A d \in ToRun(dur) : val[d] # "cancelled"
                <5>1. \A d \in ToRun(dur) : val[d] = "done" \/ (val[d] = "wait" /\ dur.round[d] = "new")
                    BY <1>5, <4>4 DEF Result
                <5>2. CASE c \in ToRun(dur)
                    <6>1. dur.round[c] \in {"new", "wait"}
                        BY <5>2, ToRunFacts
                    <6>2. dur.round[c] = then \/ (dur.round[c] = "wait" /\ then = "new")
                        BY <3>3, <4>1, <4>4, <6>1 DEF Past
                    <6>3. dur'.round[c] = "done" \/ (dur'.round[c] = "wait" /\ then = "new")
                        BY <3>2, <4>4, <5>1, <5>2, <6>2
                    <6> QED
                        BY <6>3 DEF Past
                <5>3. CASE c \notin ToRun(dur)
                    <6>1. \A r \in records : r.call # c
                        BY <1>5, <5>3 DEF RecordsOK
                    <6> QED
                        BY <3>2, <3>3, <4>1, <4>4, <5>3, <6>1
                <5> QED
                    BY <5>2, <5>3
            <4> QED
                BY <1>7, <4>1, <4>2, <4>3, <4>4 DEF Moved
        <3> QED
            BY <3>1, <3>5, <3>6
    <2>2. ran' = ran /\ ran \in Seq(Nat \X Calls \X {"new", "wait"})
        BY <1>3, <1>5 DEF RanOK
    <2> QED
        BY <2>1, <2>2 DEF RanOK
<1>12. RecordsOK' /\ RunsOnce'
    BY <1>3, <1>5, <1>8 DEF RecordsOK, RunsOnce
<1>13. Steps' /\ ~ended'
    BY <1>3, <1>4 DEF Steps, InStep
<1> QED
    BY <1>7, <1>9, <1>10, <1>11, <1>12, <1>13 DEF IInv

\* A suspended session goes on with its turn, or idles.
LEMMA ResumedSound ==
    ASSUME NEW p, Sound(p), p.at = "suspended"
    PROVE  /\ Sound(Resumed(p)) /\ Resumed(p).round = p.round /\ Resumed(p).reply = p.reply
           /\ Dead(p) => Dead(Resumed(p))
<1>1. Shaped(p) /\ ~p.stop
    BY DEF Sound
<1>2. PICK q : q = Resumed(p)
    OBVIOUS
<1>3. CASE p.susp
    <2>1. q = [p EXCEPT !.at = "begin", !.why = "continue"]
        BY <1>2, <1>3 DEF Resumed
    <2>2. Shaped(q) /\ q.at = "begin" /\ q.round = p.round /\ q.reply = p.reply /\ ~q.stop
        BY <1>1, <2>1 DEF Shaped, Fields, Ats
    <2>3. ~Dead(p)
        BY <1>1, <1>3 DEF Dead
    <2> QED
        BY <1>2, <2>2, <2>3 DEF Sound
<1>4. CASE ~p.susp
    <2>1. q = To(p, "next")
        BY <1>2, <1>4 DEF Resumed
    <2>2. Shaped(q) /\ q.at = "next" /\ q.round = p.round /\ q.reply = p.reply /\ ~q.stop /\ ~q.susp
        BY <1>1, <1>4, <2>1, ToSound DEF Ats
    <2> QED
        BY <1>2, <2>2 DEF Sound, Dead
<1> QED
    BY <1>3, <1>4

LEMMA SuspendKeeps ==
    ASSUME IInv, Suspend
    PROVE  IInv'
<1>1. /\ phase = "call" /\ prog.at = "suspended" /\ carry' = prog /\ journal' = <<>>
      /\ box' = box \ Taken(journal) /\ dur' = Resumed(prog) /\ phase' = "end"
      /\ UNCHANGED <<wakes, records, ended, mail, ran>>
    BY DEF Suspend, Returned
<1>2. ~ended /\ Journaled /\ Sound(dur) /\ RecordsOK /\ RanOK /\ RunsOnce /\ Mails
    BY <1>1 DEF IInv
<1>3. prog = dur
    BY <1>1, <1>2, LiveIsLast
<1>4. /\ Sound(dur)' /\ dur'.round = dur.round /\ dur'.reply = dur.reply
      /\ Dead(dur) => Dead(dur')
    BY <1>1, <1>2, <1>3, ResumedSound
<1>5. records = {}
    BY <1>1, <1>2, <1>3 DEF RecordsOK
<1>6. Journaled'
    <2>1. PICK st : st = [i \in 0..0 |-> dur']
        OBVIOUS
    <2>2. IsSeq(journal') /\ Len(journal') = 0 /\ Resumed(carry') = dur'
        BY <1>1 DEF IsSeq
    <2>3. DOMAIN st = 0..0 /\ st[0] = dur'
        BY <2>1
    <2>4. Replayed(st)' /\ Runs(st)'
        BY <1>1, <1>4, <2>2, <2>3 DEF Replayed, Runs
    <2> QED
        BY <2>2, <2>4 DEF Journaled
<1>7. Mails'
    BY <1>1, <1>2 DEF Mails
<1>8. RecordsOK' /\ RunsOnce'
    BY <1>1, <1>2, <1>5 DEF RecordsOK, RunsOnce
<1>9. RanOK'
    BY <1>1, <1>2, <1>4, <1>5 DEF RanOK
<1>10. Steps' /\ ~ended'
    BY <1>1, <1>2 DEF Steps, InStep
<1> QED
    BY <1>4, <1>6, <1>7, <1>8, <1>9, <1>10 DEF IInv

LEMMA FinishKeeps ==
    ASSUME IInv, Finish
    PROVE  IInv'
<1>1. /\ phase = "call" /\ prog.at = "ended" /\ ended' /\ phase' = "end" /\ box' = {} /\ records' = {}
      /\ mail' = <<>> /\ UNCHANGED <<wakes, dur, ran>>
    BY DEF Finish, Returned, ghosts
<1>2. ~ended /\ Journaled /\ Sound(dur) /\ RanOK /\ RunsOnce /\ Mails
    BY <1>1 DEF IInv
<1>3. Dead(dur)
    BY <1>1, <1>2, LiveIsLast DEF Dead
<1>4. Mails'
    BY <1>1, <1>2, OneElement DEF Mails
<1>5. RanOK'
    BY <1>1, <1>2, <1>3 DEF RanOK
<1>6. Sound(dur)' /\ RecordsOK' /\ RunsOnce'
    BY <1>1, <1>2 DEF RecordsOK, RunsOnce
<1>7. Steps'
    BY <1>1 DEF Steps, InStep
<1> QED
    BY <1>1, <1>4, <1>5, <1>6, <1>7 DEF IInv

-----------------------------------------------------------------------------
(* The mailbox, in storage and in memory.                                  *)

LEMMA UntakenRising ==
    ASSUME NEW s \in Seq(Nat), Rising(s), NEW S
    PROVE  /\ Untaken(s, S) \in Seq(Nat) /\ Rising(Untaken(s, S))
           /\ \A n : In(n, Untaken(s, S)) <=> In(n, s) /\ n \notin S
<1>1. PICK K : K = {i \in DOMAIN s : s[i] \notin S}
    OBVIOUS
<1>2. Untaken(s, S) = Picked(s, K) /\ K \in SUBSET (DOMAIN s)
    BY <1>1 DEF Untaken
<1>3. Holds(Picked(s, K), {s[k] : k \in K})
    BY <1>2, PickedRising
<1>4. \A n : n \in {s[k] : k \in K} <=> In(n, s) /\ n \notin S
    BY <1>1 DEF In
<1>5. PICK t : t = Picked(s, K)
    OBVIOUS
<1>6. t \in Seq(Nat) /\ Rising(t) /\ \A n : In(n, t) <=> n \in {s[k] : k \in K}
    BY <1>3, <1>5 DEF Holds
<1> QED
    BY <1>2, <1>4, <1>5, <1>6

\* In order, numbers stand as they are held.
LEMMA NumbersHold ==
    ASSUME NEW T, NEW w \in Seq(T), NEW S \in SUBSET (DOMAIN w)
    PROVE  Holds(Picked([n \in DOMAIN w |-> n], S), S)
<1>1. PICK k, s : k = Len(w) /\ s = [n \in DOMAIN w |-> n]
    OBVIOUS
<1>2. k \in Nat /\ DOMAIN w = 1..k
    BY <1>1
<1>3. s \in Seq(Nat) /\ DOMAIN s = 1..k /\ \A i \in 1..k : s[i] = i
    BY <1>1, <1>2
<1>4. Rising(s)
    BY <1>3 DEF Rising
<1>5. S \in SUBSET (DOMAIN s)
    BY <1>2, <1>3
<1>6. Holds(Picked(s, S), {s[n] : n \in S})
    BY <1>3, <1>4, <1>5, PickedRising
<1>7. {s[n] : n \in S} = S
    BY <1>2, <1>3
<1> QED
    BY <1>1, <1>6, <1>7

LEMMA InOrderHolds ==
    ASSUME wakes \in Seq(Kinds), NEW S \in SUBSET (DOMAIN wakes)
    PROVE  Holds(InOrder(S), S)
BY NumbersHold DEF InOrder

\* What a request finds in memory, or reads.
LEMMA LoadedRising ==
    ASSUME IInv, MInv
    PROVE  /\ Rising(LoadedMail)
           /\ loaded => LoadedMail = mail
           /\ \A n : n \notin Taken(journal) => (In(n, LoadedMail) <=> n \in box)
<1>1. wakes \in Seq(Kinds) /\ box \subseteq DOMAIN wakes
    BY DEF IInv, Mails
<1>2. Rising(mail) /\ (loaded => \A n : n \notin Taken(journal) => (In(n, mail) <=> n \in box))
    BY DEF MInv, Memory
<1>3. loaded \in BOOLEAN
    BY DEF MInv, Types
<1>4. Holds(InOrder(box), box)
    BY <1>1, InOrderHolds
<1>5. CASE loaded
    BY <1>2, <1>5 DEF LoadedMail
<1>6. CASE ~loaded
    BY <1>4, <1>6 DEF LoadedMail, Holds
<1> QED
    BY <1>3, <1>5, <1>6

LEMMA TakenAppend ==
    ASSUME NEW s, IsSeq(s), NEW e
    PROVE  Taken(Append(s, e)) = Taken(s) \union Range(e.taken)
<1>1. PICK k, a : k = Len(s) /\ a = Append(s, e)
    OBVIOUS
<1>2. PICK S : s \in Seq(S)
    BY DEF IsSeq
<1>3. PICK T : T = S \union {e}
    OBVIOUS
<1>4. s \in Seq(T) /\ a \in Seq(T) /\ Len(a) = Len(s) + 1
    BY <1>1, <1>2, <1>3
<1>5. k \in Nat /\ DOMAIN s = 1..k /\ DOMAIN a = 1..(k + 1) /\ a[k + 1] = e /\ \A i \in 1..k : a[i] = s[i]
    BY <1>1, <1>4, SeqFacts
<1>6. \A i \in 1..(k + 1) : i \in 1..k \/ i = k + 1
    BY <1>5
<1>7. k + 1 \in 1..(k + 1) /\ \A i \in 1..k : i \in 1..(k + 1)
    BY <1>5
<1>8. \A n : n \in Taken(a) <=> \E i \in 1..(k + 1) : n \in Range(a[i].taken)
    BY <1>5 DEF Taken
<1>9. \A n : n \in Taken(s) <=> \E i \in 1..k : n \in Range(s[i].taken)
    BY <1>5 DEF Taken
<1>10. \A n : n \in Taken(a) <=> n \in Taken(s) \/ n \in Range(e.taken)
    BY <1>5, <1>6, <1>7, <1>8, <1>9
<1> QED
    BY <1>1, <1>10

LEMMA NoneTaken == Taken(<<>>) = {}
BY DEF Taken

\* A live object's run, and what it has read.
LEMMA BusyFacts ==
    ASSUME IInv, MInv, Busy
    PROVE  /\ ~ended /\ loaded /\ Journaled /\ IsSeq(journal) /\ prog.at \in Ats
           /\ pos \in 0..upto
           /\ \A n : In(n, mail) <=> n \in Open
<1>1. ~ended /\ Journaled /\ IsSeq(journal) /\ Sound(dur)
    BY DEF IInv, Busy, Journaled
<1>2. loaded
    BY DEF MInv, Memory, Types, Busy
<1>3. \A n : In(n, mail) <=> n \in Open
    BY <1>2 DEF MInv, Memory, Open
<1>4. PICK st : Replayed(st) /\ Runs(st)
    BY <1>1 DEF Journaled
<1>5. Len(journal) \in Nat
    BY <1>1, SeqFacts
<1>6. ASSUME pos \in Nat, pos = upto, prog = dur PROVE prog.at \in Ats /\ pos \in 0..upto
    BY <1>1, <1>6 DEF Sound, Shaped
<1>7. ASSUME pos \in Nat, pos < upto, upto = Len(journal), prog = st[pos] PROVE prog.at \in Ats /\ pos \in 0..upto
    <2>1. pos \in 0..Len(journal)
        BY <1>5, <1>7
    <2>2. Sound(st[pos])
        BY <1>4, <2>1 DEF Replayed
    <2> QED
        BY <1>5, <1>7, <2>1, <2>2 DEF Sound, Shaped
<1>8. prog.at \in Ats /\ pos \in 0..upto
    BY <1>4, <1>6, <1>7 DEF Runs, Busy
<1> QED
    BY <1>1, <1>2, <1>3, <1>8

LEMMA FreshSound == Sound(Fresh) /\ Fresh.at \in Ats /\ Fresh.handled = <<>> /\ ~Fresh.held
<1>1. /\ DOMAIN Fresh = Fields /\ Fresh.at = "next" /\ Fresh.round = NoRound /\ Fresh.reply = 0 /\ Fresh.turn = 0
      /\ ~Fresh.stop /\ ~Fresh.susp /\ Fresh.stop \in BOOLEAN /\ Fresh.susp \in BOOLEAN
      /\ Fresh.handled = <<>> /\ ~Fresh.held
    BY DEF Fresh, Fields
<1> QED
    BY <1>1 DEF Sound, Shaped, NoRound, Ats

-----------------------------------------------------------------------------
(* What a step keeps of the mailbox.                                       *)

\* A step that leaves the mailbox alone.
LEMMA BoxStays ==
    ASSUME MInv, phase # "off", Busy' => Busy,
           UNCHANGED <<wakes, box, journal, ended, loaded, mail, dur>>
    PROVE  Memory' /\ Closes'
<1>1. Memory /\ Closes /\ loaded
    BY DEF MInv, Memory, Types
<1>2. Memory'
    BY <1>1 DEF Memory
<1>3. Closes'
    BY <1>1 DEF Closes
<1> QED
    BY <1>2, <1>3

\* A step of a run.
LEMMA RunTypes ==
    ASSUME MInv, Busy', UNCHANGED <<closing, ended, loaded, kick, ok, carry>>,
           cancelling' \in BOOLEAN, DOMAIN fin' \subseteq Calls
    PROVE  Types' /\ Asleep'
<1>1. Types'
    BY DEF MInv, Types, Busy
<1>2. Asleep'
    BY DEF Asleep, Busy
<1> QED
    BY <1>1, <1>2

\* A run that ends, or does not start.
LEMMA StopTypes ==
    ASSUME MInv, phase' \in {"off", "start", "end"}, Sound(carry'), UNCHANGED <<closing, ended>>,
           {loaded', kick', ok'} \subseteq BOOLEAN,
           RunIs(Fresh, 0) \/ (~Busy /\ UNCHANGED <<pos, upto, prog, pend, fin, cancelling>>)
    PROVE  Types' /\ Pending'
<1>1. ~Busy' /\ phase' \notin {"step", "write"}
    BY DEF Busy
<1>2. CASE RunIs(Fresh, 0)
    <2>1. pos' = 0 /\ upto' = 0 /\ prog' = Fresh /\ pend' = <<>> /\ fin' = <<>> /\ cancelling' = FALSE
        BY <1>2 DEF RunIs
    <2>2. DOMAIN fin' \subseteq Calls
        BY <2>1
    <2>3. Types'
        BY <1>1, <2>1, <2>2, FreshSound DEF MInv, Types
    <2>4. Pending'
        BY <1>1, <2>1 DEF Pending
    <2> QED
        BY <2>3, <2>4
<1>3. CASE ~Busy /\ UNCHANGED <<pos, upto, prog, pend, fin, cancelling>>
    <2>1. Types'
        BY <1>1, <1>3 DEF MInv, Types
    <2>2. Pending'
        BY <1>1, <1>3 DEF MInv, Pending, Busy
    <2> QED
        BY <2>1, <2>2
<1> QED
    BY <1>2, <1>3

\* The wake a call takes stays the oldest, and a cancel the first.
LEMMA CancelStays ==
    ASSUME CancelTaken, mail \in Seq(Nat), mail' \in Seq(Nat),
           \A i \in DOMAIN mail : i \in DOMAIN mail' /\ mail'[i] = mail[i],
           \A n : In(n, mail) => wakes'[n] = wakes[n], pend' = pend
    PROVE  CancelTaken'
<1>1. PICK i \in DOMAIN mail :
         /\ wakes[mail[i]] = "cancel" /\ \A j \in 1..(i - 1) : wakes[mail[j]] # "cancel"
         /\ \A n : In(n, pend) <=> \E j \in 1..i : mail[j] = n /\ wakes[n] \in {"prompt", "cancel"}
    BY DEF CancelTaken
<1>2. i \in DOMAIN mail' /\ \A j \in 1..i : j \in DOMAIN mail /\ mail'[j] = mail[j]
    BY <1>1
<1>3. \A j \in 1..i : wakes'[mail'[j]] = wakes[mail[j]]
    BY <1>2 DEF In
<1>4. i \in 1..i /\ \A j \in 1..(i - 1) : j \in 1..i
    BY <1>1
<1>5. wakes'[mail'[i]] = "cancel" /\ \A j \in 1..(i - 1) : wakes'[mail'[j]] # "cancel"
    BY <1>1, <1>3, <1>4
<1>6. \A n : In(n, pend') <=> \E j \in 1..i : mail'[j] = n /\ wakes'[n] \in {"prompt", "cancel"}
    <2>1. \A j \in 1..i : mail'[j] = mail[j] /\ wakes'[mail[j]] = wakes[mail[j]]
        BY <1>2, <1>3
    <2>2. \A n : (\E j \in 1..i : mail[j] = n /\ wakes[n] \in {"prompt", "cancel"})
                   <=> (\E j \in 1..i : mail'[j] = n /\ wakes'[n] \in {"prompt", "cancel"})
        BY <2>1
    <2> QED
        BY <1>1, <2>2
<1> QED
    BY <1>2, <1>5, <1>6 DEF CancelTaken

\* A step that leaves alone what the run took.
LEMMA PendingStays ==
    ASSUME IInv, MInv, UNCHANGED <<phase, prog, val, pend>>, mail' \in Seq(Nat),
           \A i \in DOMAIN mail : i \in DOMAIN mail' /\ mail'[i] = mail[i],
           \A n : In(n, mail) => wakes'[n] = wakes[n]
    PROVE  Pending'
<1>1. Pending /\ mail \in Seq(Nat)
    BY DEF IInv, MInv, Mails
<1>2. CASE pend = <<>>
    BY <1>1, <1>2 DEF Pending
<1>3. CASE /\ prog.at \in NextAts /\ phase = "write" /\ mail # <<>>
           /\ pend = <<Head(mail)>> /\ val = wakes[Head(mail)]
    <2>1. 1 \in DOMAIN mail /\ Head(mail) = mail[1] /\ In(Head(mail), mail)
        BY <1>1, <1>3, TailElements
    <2>2. mail' # <<>> /\ Head(mail') = mail'[1] /\ mail'[1] = mail[1]
        <3>1. 1 \in DOMAIN mail' /\ mail'[1] = mail[1]
            BY <2>1
        <3> QED
            BY <3>1
    <2>3. wakes'[Head(mail')] = wakes[Head(mail)]
        BY <2>1, <2>2
    <2> QED
        BY <1>1, <1>3, <2>1, <2>2, <2>3 DEF Pending
<1>4. CASE prog.at \in {"infer", "tools"} /\ CancelTaken
    <2>1. CancelTaken'
        BY <1>1, <1>4, CancelStays
    <2> QED
        BY <1>1, <1>4, <2>1 DEF Pending, NextAts
<1> QED
    BY <1>1, <1>2, <1>3, <1>4 DEF Pending

-----------------------------------------------------------------------------
(* Requests.                                                               *)

\* A request starts a run, or leaves it alone.
LEMMA KickTypes ==
    ASSUME MInv, Kicked, loaded' = TRUE, closing' \in BOOLEAN, UNCHANGED <<carry, ended, ok, run>>
    PROVE  Types' /\ Asleep' /\ (Busy' <=> Busy) /\ (Busy => phase' = phase)
<1>1. /\ kick' = TRUE /\ phase' = IF phase = "off" THEN "start" ELSE phase
      /\ UNCHANGED <<pos, upto, prog, pend, val, fin, cancelling>>
    BY DEF Kicked, run
<1>2. Types
    BY DEF MInv
<1>3. (Busy' <=> Busy) /\ (Busy => phase' = phase)
    BY <1>1 DEF Busy
<1>4. Types'
    BY <1>1, <1>2, <1>3 DEF Types
<1>5. Asleep'
    BY <1>1, <1>2 DEF Asleep, Types
<1> QED
    BY <1>3, <1>4, <1>5

LEMMA KickPending ==
    ASSUME IInv, MInv, Kicked, UNCHANGED run, mail' \in Seq(Nat),
           Busy => \A i \in DOMAIN mail : i \in DOMAIN mail' /\ mail'[i] = mail[i],
           \A n : In(n, mail) => wakes'[n] = wakes[n]
    PROVE  Pending'
<1>1. UNCHANGED <<prog, pend, val>> /\ phase' = IF phase = "off" THEN "start" ELSE phase
    BY DEF Kicked, run
<1>2. CASE Busy
    <2>1. phase' = phase
        BY <1>1, <1>2 DEF Busy
    <2> QED
        BY <1>1, <1>2, <2>1, PendingStays
<1>3. CASE ~Busy
    BY <1>1, <1>3 DEF MInv, Pending, Busy
<1> QED
    BY <1>2, <1>3

LEMMA WakeMail ==
    ASSUME IInv, MInv, NEW kind \in Kinds, Wake(kind)
    PROVE  MInv'
<1>1. PICK n : n = Len(wakes')
    OBVIOUS
<1>2. /\ wakes' = Append(wakes, kind) /\ box' = box \union {n}
      /\ mail' = Append(LoadedMail, n) /\ closing' = (kind = "close") /\ loaded' = TRUE
      /\ ~ended /\ Kicked /\ UNCHANGED <<journal, carry, ended, ok, run, dur>>
    BY <1>1 DEF Wake, ghosts
<1>3. wakes \in Seq(Kinds) /\ mail \in Seq(Nat) /\ box \subseteq DOMAIN wakes /\ \A m : In(m, mail) => m \in DOMAIN wakes
    BY DEF IInv, Mails
<1>4. /\ n \in Nat /\ n \in DOMAIN wakes' /\ n \notin DOMAIN wakes
      /\ \A m \in DOMAIN wakes : m \in DOMAIN wakes' /\ wakes'[m] = wakes[m] /\ m \in Nat /\ m < n
    BY <1>1, <1>2, <1>3
<1>5. /\ LoadedMail \in Seq(Nat) /\ Rising(LoadedMail) /\ (loaded => LoadedMail = mail)
      /\ \A m : In(m, LoadedMail) => m \in DOMAIN wakes
      /\ \A m : m \notin Taken(journal) => (In(m, LoadedMail) <=> m \in box)
    BY LoadedMails, LoadedRising DEF IInv
<1>6. PICK S : S = {m \in DOMAIN wakes : In(m, LoadedMail)}
    OBVIOUS
<1>7. Holds(LoadedMail, S)
    BY <1>5, <1>6 DEF Holds
<1>8. Holds(mail', S \union {n})
    BY <1>2, <1>4, <1>6, <1>7, AppendHolds
<1>9. mail' \in Seq(Nat) /\ Rising(mail') /\ \A m : In(m, mail') <=> In(m, LoadedMail) \/ m = n
    BY <1>5, <1>6, <1>8 DEF Holds
<1>10. Taken(journal) \subseteq DOMAIN wakes /\ (~loaded => phase = "off")
    BY DEF MInv, Memory
<1>11. Busy => loaded
    BY <1>10 DEF Busy, MInv, Types
<1>12. Types' /\ Asleep' /\ (Busy' <=> Busy)
    BY <1>2, KickTypes
<1>13. Memory'
    <2>1. Taken(journal') \subseteq DOMAIN wakes'
        BY <1>2, <1>4, <1>10
    <2>2. \A m : m \notin Taken(journal) => (In(m, mail') <=> m \in box')
        BY <1>2, <1>5, <1>9
    <2>3. Busy => \A m : In(m, mail') => m \notin Taken(journal)
        <3>1. n \notin Taken(journal)
            BY <1>4, <1>10
        <3> QED
            BY <1>5, <1>9, <1>11, <3>1 DEF MInv, Memory
    <2> QED
        BY <1>2, <1>9, <1>12, <2>1, <2>2, <2>3 DEF Memory
<1>14. Pending'
    <2>1. Busy => \A i \in DOMAIN mail : i \in DOMAIN mail' /\ mail'[i] = mail[i]
        BY <1>2, <1>3, <1>5, <1>11
    <2> QED
        BY <1>2, <1>3, <1>4, <1>9, <2>1, KickPending
<1>15. Closes'
    <2>1. Closes /\ dur' = dur
        BY <1>2 DEF MInv
    <2>2. \A i \in DOMAIN dur.handled : dur.handled[i] \in DOMAIN wakes' /\ wakes'[dur.handled[i]] = wakes[dur.handled[i]]
        BY <1>4, <2>1 DEF Closes
    <2> QED
        BY <2>1, <2>2 DEF Closes
<1> QED
    BY <1>12, <1>13, <1>14, <1>15 DEF MInv

LEMMA AlarmMail ==
    ASSUME IInv, MInv, Alarm
    PROVE  MInv'
<1>1. /\ loaded' = TRUE /\ mail' = LoadedMail /\ ~ended /\ Kicked
      /\ UNCHANGED <<wakes, box, journal, carry, ended, closing, ok, run, dur>>
    BY DEF Alarm, storage, ghosts
<1>2. /\ LoadedMail \in Seq(Nat) /\ Rising(LoadedMail) /\ (loaded => LoadedMail = mail)
      /\ \A m : m \notin Taken(journal) => (In(m, LoadedMail) <=> m \in box)
    BY LoadedMails, LoadedRising DEF IInv
<1>3. Taken(journal) \subseteq DOMAIN wakes /\ (~loaded => phase = "off") /\ closing \in BOOLEAN
    BY DEF MInv, Memory, Types
<1>4. Busy => loaded /\ mail' = mail
    BY <1>1, <1>2, <1>3 DEF Busy, MInv, Types
<1>5. Types' /\ Asleep' /\ (Busy' <=> Busy)
    BY <1>1, <1>3, KickTypes
<1>6. Memory'
    BY <1>1, <1>2, <1>3, <1>4, <1>5 DEF MInv, Memory
<1>7. Pending'
    BY <1>1, <1>2, <1>4, KickPending
<1>8. Closes'
    BY <1>1 DEF MInv, Closes
<1> QED
    BY <1>5, <1>6, <1>7, <1>8 DEF MInv

-----------------------------------------------------------------------------
(* Runs.                                                                   *)

LEMMA RunStartsMail ==
    ASSUME IInv, MInv, RunStarts
    PROVE  MInv'
<1>1. /\ phase = "start" /\ phase' = "call" /\ kick' = FALSE /\ mail' = Untaken(mail, Taken(journal))
      /\ pend' = <<>> /\ fin' = <<>> /\ cancelling' = FALSE
      /\ UNCHANGED <<wakes, box, journal, carry, closing, ended, loaded, ok, dur>>
    BY DEF RunStarts, RunIs, storage, ghosts
<1>2. /\ mail \in Seq(Nat) /\ Rising(mail) /\ loaded /\ Taken(journal) \subseteq DOMAIN wakes
      /\ \A n : n \notin Taken(journal) => (In(n, mail) <=> n \in box)
    BY <1>1 DEF IInv, Mails, MInv, Memory, Types
<1>3. mail' \in Seq(Nat) /\ Rising(mail') /\ \A n : In(n, mail') <=> In(n, mail) /\ n \notin Taken(journal)
    BY <1>1, <1>2, UntakenRising
<1>4. Memory'
    BY <1>1, <1>2, <1>3 DEF MInv, Memory
<1>5. Types' /\ Asleep'
    <2>1. DOMAIN fin' \subseteq Calls
        BY <1>1
    <2>2. Busy'
        BY <1>1 DEF Busy
    <2>3. Types'
        BY <1>1, <2>1, <2>2 DEF MInv, Types
    <2> QED
        BY <1>1, <2>3 DEF Asleep
<1>6. Pending' /\ Closes'
    BY <1>1 DEF MInv, Pending, Closes
<1> QED
    BY <1>4, <1>5, <1>6 DEF MInv

LEMMA NothingMail ==
    ASSUME IInv, MInv, NothingToRun
    PROVE  MInv'
<1>1. /\ phase = "start" /\ phase' = "end" /\ kick' = FALSE /\ ok' = TRUE
      /\ UNCHANGED <<wakes, box, journal, carry, closing, ended, loaded, mail, dur, pos, upto, prog, pend, fin, cancelling>>
    BY DEF NothingToRun, storage, run, ghosts
<1>2. ~Busy /\ ~Busy' /\ phase # "off"
    BY <1>1 DEF Busy
<1>3. Memory' /\ Closes'
    BY <1>1, <1>2, BoxStays
<1>4. Types' /\ Pending'
    BY <1>1, <1>2, StopTypes DEF MInv, Types
<1>5. Asleep'
    BY <1>1 DEF Asleep
<1> QED
    BY <1>3, <1>4, <1>5 DEF MInv

LEMMA FailsMail ==
    ASSUME IInv, MInv, StorageFails
    PROVE  MInv'
<1>1. /\ phase # "off" /\ phase' = "end" /\ ok' = FALSE /\ RunIs(Fresh, 0)
      /\ UNCHANGED <<wakes, box, journal, carry, closing, ended, loaded, mail, kick, dur>>
    BY DEF StorageFails, Touches, InStep, Live, Returned, Stop, storage
<1>2. ~Busy'
    BY <1>1 DEF Busy
<1>3. Memory' /\ Closes'
    BY <1>1, <1>2, BoxStays
<1>4. Types' /\ Pending'
    BY <1>1, StopTypes DEF MInv, Types
<1>5. Asleep'
    BY <1>1 DEF Asleep
<1> QED
    BY <1>3, <1>4, <1>5 DEF MInv

LEMMA CrashMail ==
    ASSUME IInv, MInv, Crash
    PROVE  MInv'
<1>1. /\ phase' = "off" /\ ok' = FALSE /\ loaded' = FALSE /\ mail' = <<>> /\ kick' = FALSE /\ RunIs(Fresh, 0)
      /\ UNCHANGED <<wakes, box, journal, carry, closing, ended, dur>>
    BY DEF Crash, storage
<1>2. ~Busy'
    BY <1>1 DEF Busy
<1>3. Memory'
    BY <1>1, <1>2 DEF MInv, Memory, Rising
<1>4. Types' /\ Pending'
    BY <1>1, StopTypes DEF MInv, Types
<1>5. Asleep' /\ Closes'
    BY <1>1 DEF Asleep, MInv, Closes
<1> QED
    BY <1>3, <1>4, <1>5 DEF MInv

LEMMA RunEndsMail ==
    ASSUME IInv, MInv, RunEnds
    PROVE  MInv'
<1>1. /\ phase = "end" /\ phase' = IF ~kick /\ (~ok \/ mail = <<>> \/ ended) THEN "off" ELSE "start"
      /\ UNCHANGED <<wakes, box, journal, carry, closing, ended, loaded, mail, kick, ok, dur, pos, upto, prog, pend, fin,
                     cancelling>>
    BY DEF RunEnds, storage, run, ghosts
<1>2. ~Busy /\ ~Busy' /\ phase # "off" /\ phase' \in {"off", "start"}
    BY <1>1 DEF Busy
<1>3. Memory' /\ Closes'
    BY <1>1, <1>2, BoxStays
<1>4. Types' /\ Pending'
    BY <1>1, <1>2, StopTypes DEF MInv, Types
<1>5. Asleep'
    <2> SUFFICES ASSUME phase' = "off", ok PROVE Open = {}
        BY <1>1 DEF Asleep, Open
    <2>1. mail = <<>> \/ ended
        BY <1>1
    <2>2. loaded /\ (\A n : n \notin Taken(journal) => (In(n, mail) <=> n \in box)) /\ (ended => box = {})
        BY <1>2 DEF MInv, Memory, Types
    <2>3. CASE mail = <<>>
        BY <2>2, <2>3, OneElement DEF Open
    <2>4. CASE ended
        BY <2>2, <2>4 DEF Open
    <2> QED
        BY <2>1, <2>3, <2>4
<1> QED
    BY <1>3, <1>4, <1>5 DEF MInv

LEMMA ReplayMail ==
    ASSUME IInv, MInv, Replay
    PROVE  MInv'
<1>1. /\ phase = "call" /\ phase' = phase
      /\ UNCHANGED <<wakes, box, journal, carry, closing, ended, loaded, mail, kick, ok, dur, pend, fin, cancelling>>
    BY DEF Replay, Replaying, storage, ghosts
<1>2. Busy /\ Busy' /\ phase # "off"
    BY <1>1 DEF Busy
<1>3. Memory' /\ Closes'
    BY <1>1, <1>2, BoxStays
<1>4. Types' /\ Asleep'
    BY <1>1, <1>2, RunTypes DEF MInv, Types
<1>5. Pending'
    BY <1>1 DEF MInv, Pending
<1> QED
    BY <1>3, <1>4, <1>5 DEF MInv

-----------------------------------------------------------------------------
(* Live calls.                                                             *)

\* A step of a call, with what it took.
LEMMA StepMail ==
    ASSUME IInv, MInv, phase \in {"call", "step"}, phase' \in {"step", "write"}, Pending',
           UNCHANGED <<wakes, box, journal, carry, closing, ended, loaded, mail, kick, ok, dur>>,
           cancelling' \in BOOLEAN, DOMAIN fin' \subseteq Calls
    PROVE  MInv'
<1>1. Busy /\ Busy' /\ phase # "off"
    BY DEF Busy
<1>2. Memory' /\ Closes'
    BY <1>1, BoxStays
<1>3. Types' /\ Asleep'
    BY <1>1, RunTypes
<1> QED
    BY <1>2, <1>3 DEF MInv

\* A call that has its result.
LEMMA WritesMail ==
    ASSUME IInv, MInv, phase \in {"call", "step"}, NEW v, NEW taken, Writes(v, taken), Pending',
           UNCHANGED <<wakes, box, journal, carry, closing, ended>>
    PROVE  MInv'
<1>1. phase' = "write" /\ UNCHANGED <<loaded, mail, kick, ok, fin, cancelling, dur>>
    BY DEF Writes
<1> QED
    BY <1>1, StepMail DEF MInv, Types

LEMMA TakeWakeMail ==
    ASSUME IInv, MInv, TakeWake
    PROVE  MInv'
<1>1. phase = "call" /\ prog.at \in NextAts /\ UNCHANGED <<wakes, box, journal, carry, closing, ended>>
    BY DEF TakeWake, Live, NextAts, storage
<1>2. CASE mail # <<>>
    <2>1. PICK v, taken : v = wakes[Head(mail)] /\ taken = <<Head(mail)>>
        OBVIOUS
    <2>2. Writes(v, taken)
        BY <1>2, <2>1 DEF TakeWake
    <2>3. phase' = "write" /\ val' = v /\ pend' = taken /\ UNCHANGED <<mail, prog>>
        BY <2>2 DEF Writes
    <2>4. pend' # <<>>
        BY <2>1, <2>3
    <2>5. Pending'
        BY <1>1, <1>2, <2>1, <2>3, <2>4 DEF Pending
    <2> QED
        BY <1>1, <2>2, <2>5, WritesMail
<1>3. CASE mail = <<>>
    <2>1. PICK v : v = IF prog.at \in {"next", "wait"} THEN "suspend" ELSE "none"
        OBVIOUS
    <2>2. Writes(v, <<>>) /\ v # "close"
        BY <1>3, <2>1 DEF TakeWake
    <2>3. phase' = "write" /\ val' = v /\ pend' = <<>>
        BY <2>2 DEF Writes
    <2>4. Pending'
        BY <2>2, <2>3 DEF Pending
    <2> QED
        BY <1>1, <2>2, <2>4, WritesMail
<1> QED
    BY <1>2, <1>3

LEMMA ActMail ==
    ASSUME IInv, MInv, Begin \/ Act
    PROVE  MInv'
<1>1. /\ phase = "call" /\ prog.at \notin NextAts
      /\ Writes("ok", <<>>) /\ UNCHANGED <<wakes, box, journal, carry, closing, ended>>
    BY DEF Begin, Act, Live, NextAts, storage
<1>2. Pending'
    BY <1>1 DEF Writes, Pending
<1> QED
    BY <1>1, <1>2, WritesMail

LEMMA StepStartsMail ==
    ASSUME IInv, MInv, StepStarts
    PROVE  MInv'
<1>1. /\ phase = "call" /\ phase' = "step" /\ fin' = [c \in {} |-> "none"] /\ cancelling' = FALSE
      /\ UNCHANGED <<wakes, box, journal, carry, closing, ended, loaded, mail, kick, ok, dur, pend>>
    BY DEF StepStarts, Live, storage, ghosts
<1>2. DOMAIN fin' \subseteq Calls
    BY <1>1
<1>3. Pending'
    BY <1>1 DEF MInv, Pending
<1> QED
    BY <1>1, <1>2, <1>3, StepMail

\* The first cancel of the mailbox, with the prompts before it.
LEMMA CancelTakes ==
    ASSUME IInv, CancelQueued, UNCHANGED <<wakes, mail>>, pend' = TakenByCancel
    PROVE  CancelTaken'
<1>1. mail \in Seq(Nat) /\ DOMAIN mail = 1..Len(mail) /\ Len(mail) \in Nat
    BY DEF IInv, Mails
<1>2. PICK S : S = {i \in DOMAIN mail : wakes[mail[i]] = "cancel"}
    OBVIOUS
<1>3. S \subseteq Nat /\ S # {}
    BY <1>1, <1>2 DEF CancelQueued, Range
<1>4. PICK i \in S : \A j \in S : ~(j < i)
    <2> DEFINE Below == {p \in Nat \X Nat : p[1] < p[2]}
    <2>1. IsWellFoundedOn(Below, Nat)
        BY NatLessThanWellFounded DEF OpToRel
    <2>2. PICK i \in S : \A j \in S : ~(<<j, i>> \in Below)
        BY <1>3, <2>1, WFMin, Zenon
    <2>3. \A j \in S : ~(j < i)
        BY <1>3, <2>2
    <2> QED
        BY <2>2, <2>3
<1>5. \A j \in 1..(i - 1) : j \in DOMAIN mail /\ j < i
    BY <1>1, <1>2, <1>4
<1>6. wakes[mail[i]] = "cancel" /\ \A j \in 1..(i - 1) : wakes[mail[j]] # "cancel"
    BY <1>2, <1>4, <1>5
<1>7. PICK first : first = CHOOSE k \in DOMAIN mail : /\ wakes[mail[k]] = "cancel"
                                                      /\ \A j \in 1..(k - 1) : wakes[mail[j]] # "cancel"
    OBVIOUS
<1>8. /\ first \in DOMAIN mail /\ wakes[mail[first]] = "cancel"
      /\ \A j \in 1..(first - 1) : wakes[mail[j]] # "cancel"
    BY <1>2, <1>4, <1>6, <1>7
<1>9. PICK K : K = {k \in 1..first : wakes[mail[k]] \in {"prompt", "cancel"}}
    OBVIOUS
<1>10. TakenByCancel = Picked(mail, K)
    BY <1>7, <1>9 DEF TakenByCancel
<1>11. K \in SUBSET (DOMAIN mail) /\ \A k \in 1..first : k \in DOMAIN mail
    BY <1>1, <1>8, <1>9
<1>12. \A n : In(n, pend') <=> \E k \in K : mail[k] = n
    BY <1>1, <1>10, <1>11, SeqPicked, PickedAll
<1>13. \A n : In(n, pend') <=> \E k \in 1..first : mail[k] = n /\ wakes[n] \in {"prompt", "cancel"}
    BY <1>9, <1>12
<1> QED
    BY <1>8, <1>13 DEF CancelTaken

LEMMA InferMail ==
    ASSUME IInv, MInv, InferEnds \/ InferCancelled
    PROVE  MInv'
<1>1. phase = "step" /\ prog.at = "infer" /\ UNCHANGED <<wakes, box, journal, carry, closing, ended>>
    BY DEF InferEnds, InferCancelled, InStep, storage
<1>2. CASE InferEnds
    <2>1. PICK v : Writes(v, <<>>)
        BY <1>2 DEF InferEnds
    <2>2. Pending'
        BY <1>1, <2>1 DEF Writes, Pending, NextAts
    <2> QED
        BY <1>1, <2>1, <2>2, WritesMail
<1>3. CASE InferCancelled
    <2>1. Writes("cancelled", TakenByCancel) /\ CancelQueued
        BY <1>3 DEF InferCancelled
    <2>2. pend' = TakenByCancel /\ UNCHANGED <<mail, prog>> /\ phase' = "write"
        BY <2>1 DEF Writes
    <2>3. CancelTaken'
        BY <1>1, <2>1, <2>2, CancelTakes
    <2>4. Pending'
        BY <1>1, <2>2, <2>3 DEF Pending, NextAts
    <2> QED
        BY <1>1, <2>1, <2>4, WritesMail
<1> QED
    BY <1>2, <1>3

LEMMA CallsMail ==
    ASSUME IInv, MInv, NEW c \in Calls, CallFound(c) \/ CallRuns(c)
    PROVE  MInv'
<1>1. /\ phase = "step" /\ phase' = phase
      /\ UNCHANGED <<wakes, box, journal, carry, closing, ended, loaded, mail, kick, ok, dur, prog, pend, val, cancelling>>
    BY DEF CallFound, CallRuns, RunsCall, Runnable, InStep, storage, ghosts
<1>2. PICK out : fin' = Ends(c, out)
    BY DEF CallFound, CallRuns, RunsCall
<1>3. DOMAIN fin' \subseteq Calls
    BY <1>2 DEF Ends, MInv, Types
<1>4. Pending'
    BY <1>1, PendingStays DEF IInv, Mails
<1> QED
    BY <1>1, <1>3, <1>4, StepMail DEF MInv, Types

LEMMA ToolsCancelledMail ==
    ASSUME IInv, MInv, ToolsCancelled
    PROVE  MInv'
<1>1. /\ phase = "step" /\ phase' = phase /\ prog.at = "tools" /\ cancelling' = TRUE
      /\ CancelQueued /\ pend' = TakenByCancel
      /\ UNCHANGED <<wakes, box, journal, carry, closing, ended, loaded, mail, kick, ok, dur, prog, val, fin>>
    BY DEF ToolsCancelled, InStep, storage, ghosts
<1>2. CancelTaken'
    BY <1>1, CancelTakes
<1>3. Pending'
    BY <1>1, <1>2 DEF Pending
<1> QED
    BY <1>1, <1>3, StepMail DEF MInv, Types

LEMMA ToolsEndMail ==
    ASSUME IInv, MInv, ToolsEnd \/ ToolsUnread
    PROVE  MInv'
<1>1. /\ phase = "step" /\ prog.at = "tools" /\ Writes(Outcome, pend)
      /\ UNCHANGED <<wakes, box, journal, carry, closing, ended>>
    BY DEF ToolsEnd, ToolsUnread, InStep, storage
<1>2. pend' = pend /\ phase' = "write" /\ UNCHANGED <<prog, mail>>
    BY <1>1 DEF Writes
<1>3. pend = <<>> \/ CancelTaken
    BY <1>1 DEF MInv, Pending
<1>4. CancelTaken => CancelTaken'
    BY <1>1, <1>2 DEF CancelTaken
<1>5. Pending'
    BY <1>1, <1>2, <1>3, <1>4 DEF Pending, NextAts
<1> QED
    BY <1>1, <1>5, WritesMail

-----------------------------------------------------------------------------
(* Entries, suspends and the end.                                          *)

\* What a call took is in the mailbox.
LEMMA PendInMail ==
    ASSUME IInv, MInv
    PROVE  pend = <<>> \/ \A n : n \in Range(pend) => In(n, mail)
<1>1. CASE /\ mail # <<>> /\ pend = <<Head(mail)>>
    <2>1. In(Head(mail), mail)
        BY <1>1, TailElements DEF IInv, Mails
    <2> QED
        BY <1>1, <2>1 DEF Range
<1>2. CASE CancelTaken
    <2>1. PICK i \in DOMAIN mail : \A n : In(n, pend) <=> \E j \in 1..i : mail[j] = n /\ wakes[n] \in {"prompt", "cancel"}
        BY <1>2 DEF CancelTaken
    <2>2. \A j \in 1..i : j \in DOMAIN mail
        BY DEF IInv, Mails
    <2>3. \A n : n \in Range(pend) => In(n, pend)
        BY DEF Range, In
    <2> QED
        BY <2>1, <2>2, <2>3 DEF In
<1> QED
    BY <1>1, <1>2 DEF MInv, Pending

LEMMA WriteMail ==
    ASSUME IInv, MInv, Write
    PROVE  MInv'
<1>1. PICK e : e = Entry
    OBVIOUS
<1>2. e.kind = CallOf(prog) /\ e.val = val /\ e.taken = pend
    BY <1>1 DEF Entry
<1>3. /\ phase = "write" /\ journal' = Append(journal, e) /\ mail' = Untaken(mail, Range(pend))
      /\ dur' = After(dur, e) /\ phase' = "call" /\ pend' = <<>> /\ fin' = <<>> /\ cancelling' = FALSE
      /\ UNCHANGED <<wakes, box, carry, closing, ended, loaded, kick, ok>>
    BY <1>1 DEF Write
<1>4. prog = dur /\ ~ended /\ IsSeq(journal)
    BY <1>3, StepIsLast DEF Journaled
<1>5. Busy /\ Busy'
    BY <1>3 DEF Busy
<1>6. /\ mail \in Seq(Nat) /\ Rising(mail) /\ Taken(journal) \subseteq DOMAIN wakes
      /\ \A n : In(n, mail) => n \in DOMAIN wakes
    BY DEF IInv, Mails, MInv, Memory
<1>7. mail' \in Seq(Nat) /\ Rising(mail') /\ \A n : In(n, mail') <=> In(n, mail) /\ n \notin Range(pend)
    BY <1>3, <1>6, UntakenRising
<1>8. Taken(journal') = Taken(journal) \union Range(pend)
    BY <1>2, <1>3, <1>4, TakenAppend
<1>9. \A n : n \in Range(pend) => n \in DOMAIN wakes
    <2>1. pend = <<>> => Range(pend) = {}
        BY DEF Range
    <2> QED
        BY <1>6, <2>1, PendInMail
<1>10. Memory'
    <2>1. loaded /\ ~ended /\ \A n : In(n, mail) <=> n \in box /\ n \notin Taken(journal)
        BY <1>5, BusyFacts DEF Open
    <2> QED
        BY <1>3, <1>6, <1>7, <1>8, <1>9, <2>1 DEF Memory
<1>11. Types' /\ Asleep'
    <2>1. DOMAIN fin' \subseteq Calls
        BY <1>3
    <2> QED
        BY <1>3, <1>5, <2>1, RunTypes
<1>12. Pending'
    BY <1>3 DEF Pending
<1>13. Closes'
    <2>1. Sound(dur) /\ Result(dur, val)
        BY <1>3, <1>4 DEF IInv, Steps
    <2>2. /\ Told(dur, dur', val)
          /\ dur'.handled = IF CallOf(dur) = "next" THEN dur.handled \o pend ELSE dur.handled
          /\ CallOf(dur) = "next" <=> dur.at \in NextAts
        BY <1>2, <1>3, <2>1, AfterGood
    <2>3. Closes /\ dur.handled \in Seq(Nat)
        BY DEF MInv, Closes
    <2>4. dur'.held \/ dur'.at = "ended" => dur.held \/ (dur.at \in NextAts /\ val = "close")
        BY <2>2 DEF Told
    <2>5. CASE dur.at \notin NextAts \/ pend = <<>>
        <3>1. PICK s : s = dur.handled
            OBVIOUS
        <3>3. s \in Seq(Nat) /\ s \o <<>> = s
            BY <2>3, <3>1
        <3>4. dur'.handled = s
            <4>1. CASE dur.at \notin NextAts
                BY <2>2, <3>1, <4>1
            <4>2. CASE pend = <<>>
                BY <2>2, <3>1, <3>3, <4>2
            <4> QED
                BY <2>5, <4>1, <4>2
        <3>2. dur'.held \/ dur'.at = "ended" => dur.held
            BY <1>3, <1>4, <2>4, <2>5 DEF MInv, Pending
        <3> QED
            BY <1>3, <2>3, <3>1, <3>2, <3>4 DEF Closes
    <2>6. CASE dur.at \in NextAts /\ pend # <<>>
        <3>1. PICK h : h = Head(mail)
            OBVIOUS
        <3>2. mail # <<>> /\ pend = <<h>> /\ val = wakes[h]
            BY <1>4, <2>6, <3>1 DEF MInv, Pending, NextAts
        <3>3. h \in Nat /\ h \in DOMAIN wakes
            BY <1>6, <3>1, <3>2, TailElements
        <3>4. PICK s, t, k : s = dur.handled /\ t = dur'.handled /\ k = Len(s)
            OBVIOUS
        <3>5. s \in Seq(Nat) /\ t = s \o <<h>>
            BY <2>2, <2>3, <2>6, <3>2, <3>4
        <3>6. /\ t \in Seq(Nat) /\ k \in Nat /\ DOMAIN s = 1..k /\ DOMAIN t = 1..(k + 1) /\ t[k + 1] = h
              /\ \A i \in 1..k : t[i] = s[i]
            BY <3>3, <3>4, <3>5
        <3>7. \A i \in 1..(k + 1) : i \in 1..k \/ i = k + 1
            BY <3>6
        <3>8. \A i \in DOMAIN t : t[i] \in DOMAIN wakes
            BY <2>3, <3>3, <3>4, <3>6, <3>7 DEF Closes
        <3>9. dur'.held \/ dur'.at = "ended" => \E i \in DOMAIN t : wakes[t[i]] = "close"
            <4>1. CASE dur.held
                <5>1. PICK i \in DOMAIN s : wakes[s[i]] = "close"
                    BY <2>3, <3>4, <4>1 DEF Closes
                <5>2. i \in DOMAIN t /\ t[i] = s[i]
                    BY <3>6, <5>1
                <5> QED
                    BY <5>1, <5>2
            <4>2. CASE val = "close"
                <5>1. k + 1 \in DOMAIN t
                    BY <3>6
                <5>2. wakes[t[k + 1]] = "close"
                    BY <3>2, <3>6, <4>2
                <5> QED
                    BY <5>1, <5>2
            <4> QED
                BY <2>4, <4>1, <4>2
        <3> QED
            BY <1>3, <3>4, <3>6, <3>8, <3>9 DEF Closes
    <2> QED
        BY <2>5, <2>6
<1> QED
    BY <1>10, <1>11, <1>12, <1>13 DEF MInv

LEMMA ResumedKeeps ==
    ASSUME NEW p, Sound(p)
    PROVE  /\ Resumed(p).handled = p.handled /\ Resumed(p).dropped = p.dropped /\ Resumed(p).held = p.held
           /\ Resumed(p).events = p.events /\ Resumed(p).turn = p.turn /\ Resumed(p).at \in {"begin", "next"}
           /\ Resumed(p).at = "begin" => p.susp /\ Resumed(p).why = "continue"
<1>1. Shaped(p) /\ p.susp \in BOOLEAN
    BY DEF Sound, Shaped
<1>2. CASE p.susp
    <2>1. Resumed(p) = [p EXCEPT !.at = "begin", !.why = "continue"]
        BY <1>2 DEF Resumed
    <2> QED
        BY <1>1, <1>2, <2>1 DEF Shaped, Fields
<1>3. CASE ~p.susp
    <2>1. Resumed(p) = To(p, "next")
        BY <1>3 DEF Resumed
    <2> QED
        BY <1>1, <2>1, ToSound DEF Same, Ats
<1> QED
    BY <1>1, <1>2, <1>3

LEMMA SuspendMail ==
    ASSUME IInv, MInv, Suspend
    PROVE  MInv'
<1>1. /\ phase = "call" /\ prog.at = "suspended" /\ carry' = prog /\ journal' = <<>>
      /\ box' = box \ Taken(journal) /\ dur' = Resumed(prog) /\ phase' = "end" /\ ok' = TRUE /\ RunIs(Fresh, 0)
      /\ UNCHANGED <<wakes, closing, ended, loaded, mail, kick>>
    BY DEF Suspend, Returned
<1>2. Busy /\ ~Busy'
    BY <1>1 DEF Busy
<1>3. ~ended /\ Journaled /\ Sound(dur)
    BY <1>1 DEF IInv
<1>4. prog = dur
    BY <1>1, <1>3, LiveIsLast
<1>5. loaded /\ \A n : In(n, mail) <=> n \in box /\ n \notin Taken(journal)
    BY <1>2, BusyFacts DEF Open
<1>6. Memory'
    BY <1>1, <1>2, <1>3, <1>5, NoneTaken DEF MInv, Memory
<1>7. Types' /\ Pending'
    BY <1>1, <1>3, <1>4, StopTypes DEF MInv, Types
<1>8. Closes'
    <2>1. dur'.handled = dur.handled /\ dur'.held = dur.held /\ dur'.at # "ended"
        BY <1>1, <1>3, <1>4, ResumedKeeps
    <2> QED
        BY <1>1, <2>1 DEF MInv, Closes
<1>9. Asleep'
    BY <1>1 DEF Asleep
<1> QED
    BY <1>6, <1>7, <1>8, <1>9 DEF MInv

LEMMA FinishMail ==
    ASSUME IInv, MInv, Finish
    PROVE  MInv'
<1>1. /\ phase = "call" /\ ended' = TRUE /\ closing' = TRUE /\ box' = {} /\ journal' = <<>> /\ carry' = Fresh
      /\ mail' = <<>> /\ phase' = "end" /\ ok' = TRUE /\ RunIs(Fresh, 0) /\ UNCHANGED <<wakes, loaded, kick, dur>>
    BY DEF Finish, Returned, ghosts
<1>2. ~Busy'
    BY <1>1 DEF Busy
<1>3. Memory'
    <2>1. loaded
        BY <1>1 DEF MInv, Memory, Types
    <2> QED
        BY <1>1, <1>2, <2>1, NoneTaken, OneElement DEF Memory, Rising
<1>4. Types' /\ Pending'
    <2>1. ~Busy' /\ phase' \notin {"step", "write"} /\ pos' = 0 /\ upto' = 0 /\ prog' = Fresh /\ pend' = <<>>
          /\ fin' = <<>> /\ cancelling' = FALSE
        BY <1>1, <1>2 DEF RunIs
    <2>2. DOMAIN fin' \subseteq Calls
        BY <2>1
    <2> QED
        BY <1>1, <2>1, <2>2, FreshSound DEF MInv, Types, Pending
<1>5. Closes' /\ Asleep'
    BY <1>1 DEF MInv, Closes, Asleep
<1> QED
    BY <1>3, <1>4, <1>5 DEF MInv

LEMMA MailInvariance ==
    ASSUME IInv, MInv, [Next]_vars
    PROVE  MInv'
<1>1. ASSUME NEW k \in Kinds, Wake(k) PROVE MInv'
    BY <1>1, WakeMail
<1>2. CASE Alarm \/ RunStarts \/ Replay
    BY <1>2, AlarmMail, RunStartsMail, ReplayMail
<1>3. CASE NothingToRun \/ RunEnds \/ StorageFails \/ Crash
    BY <1>3, NothingMail, RunEndsMail, FailsMail, CrashMail
<1>4. CASE TakeWake \/ Begin \/ Act \/ StepStarts
    BY <1>4, TakeWakeMail, ActMail, StepStartsMail
<1>5. CASE InferEnds \/ InferCancelled
    BY <1>5, InferMail
<1>6. ASSUME NEW c \in Calls, CallFound(c) \/ CallRuns(c) PROVE MInv'
    BY <1>6, CallsMail
<1>7. CASE ToolsCancelled \/ ToolsEnd \/ ToolsUnread
    BY <1>7, ToolsCancelledMail, ToolsEndMail
<1>8. CASE Write \/ Suspend \/ Finish
    BY <1>8, WriteMail, SuspendMail, FinishMail
<1>9. CASE UNCHANGED vars
    <2>1. UNCHANGED <<wakes, box, journal, carry, closing, ended, loaded, mail, kick, phase, ok, pos, upto, prog, pend,
                      val, fin, cancelling, dur>>
        BY <1>9 DEF vars, storage, run, ghosts
    <2>2. Types' /\ Memory'
        BY <2>1 DEF MInv, Types, Memory, Busy
    <2>3. Pending'
        BY <2>1 DEF MInv, Pending, CancelTaken
    <2>4. Closes' /\ Asleep'
        BY <2>1 DEF MInv, Closes, Asleep, Open
    <2> QED
        BY <2>2, <2>3, <2>4 DEF MInv
<1> QED
    BY <1>1, <1>2, <1>3, <1>4, <1>5, <1>6, <1>7, <1>8, <1>9 DEF Next

LEMMA MailInitial ==
    ASSUME Init
    PROVE  MInv
<1>1. /\ wakes = <<>> /\ box = {} /\ mail = <<>> /\ journal = <<>> /\ carry = Fresh /\ dur = Fresh /\ phase = "off"
      /\ ~ended /\ ~closing /\ ~loaded /\ ~kick /\ ~ok /\ ~cancelling /\ {closing, ended, loaded, kick, ok, cancelling} \subseteq BOOLEAN
      /\ pos = 0 /\ upto = 0 /\ prog = Fresh /\ pend = <<>> /\ fin = <<>>
    BY DEF Init
<1>2. ~Busy /\ DOMAIN fin \subseteq Calls
    BY <1>1 DEF Busy
<1>3. Types
    BY <1>1, <1>2, FreshSound DEF Types
<1>4. Memory
    BY <1>1, <1>2, NoneTaken DEF Memory, Rising
<1>5. Pending
    BY <1>1 DEF Pending
<1>6. Closes /\ Asleep
    <2>1. dur.handled = <<>> /\ ~dur.held /\ dur.at = "next"
        BY <1>1 DEF Fresh
    <2>2. <<>> \in Seq(Nat) /\ DOMAIN <<>> = {}
        OBVIOUS
    <2>3. Closes
        BY <2>1, <2>2 DEF Closes
    <2> QED
        BY <1>1, <2>3 DEF Asleep
<1> QED
    BY <1>3, <1>4, <1>5, <1>6 DEF MInv

\* What the invariants say of the mailbox.
LEMMA MailSafety ==
    ASSUME IInv, MInv
    PROVE  MailAgrees /\ TypeOK
<1>1. /\ wakes \in Seq(Kinds) /\ mail \in Seq(Nat) /\ box \subseteq DOMAIN wakes
      /\ \A n : In(n, mail) => n \in DOMAIN wakes
    BY DEF IInv, Mails
<1>2. Waiting = InOrder(Open) /\ Holds(InOrder(Open), Open)
    BY <1>1, InOrderHolds DEF Waiting, Open
<1>3. MailIsStorage
    <2>1. Busy => Holds(mail, Open)
        BY <1>1, BusyFacts DEF MInv, Memory, Holds
    <2> QED
        BY <1>2, <2>1, HoldsOnce DEF MailIsStorage, Busy
<1>4. NoWakeLeft
    <2>1. Holds(<<>>, {})
        BY OneElement DEF Holds, Rising
    <2> QED
        BY <1>2, <2>1, HoldsOnce DEF NoWakeLeft, MInv, Asleep
<1>5. Range(mail) \subseteq DOMAIN wakes
    BY <1>1 DEF Range, In
<1>6. Range(pend) \subseteq Range(mail)
    <2>1. \A n \in Range(pend) : In(n, mail)
        <3>1. CASE pend = <<>>
            <4>1. DOMAIN pend = {}
                BY <3>1
            <4> QED
                BY <4>1 DEF Range
        <3> QED
            BY <3>1, PendInMail
    <2>2. \A n : In(n, mail) => n \in Range(mail)
        BY DEF Range, In
    <2> QED
        BY <2>1, <2>2
<1>7. prog.at \in Ats /\ pos \in 0..upto
    <2>1. CASE Busy
        BY <2>1, BusyFacts
    <2>2. CASE ~Busy
        BY <2>2 DEF MInv, Types
    <2> QED
        BY <2>1, <2>2
<1>8. dur.at \in Ats /\ carry.at \in Ats
    BY DEF IInv, MInv, Types, Sound, Shaped
<1>9. TypeOK
    BY <1>1, <1>5, <1>6, <1>7, <1>8 DEF TypeOK, MInv, Types, Memory
<1> QED
    BY <1>3, <1>4, <1>9 DEF MailAgrees

-----------------------------------------------------------------------------
(* The log: each event of the turn is written once, and only the next      *)
(* turn drops it.                                                          *)

LEMMA RangeIn ==
    ASSUME NEW s
    PROVE  \A x : x \in Range(s) <=> In(x, s)
BY DEF Range, In

LEMMA LogAppends ==
    ASSUME NEW s, IsSeq(s), NEW x
    PROVE  /\ IsSeq(Append(s, x)) /\ Append(s, x) = s \o <<x>>
           /\ \A y : In(y, Append(s, x)) <=> In(y, s) \/ y = x
           /\ IsInjective(s) /\ ~In(x, s) => IsInjective(Append(s, x))
<1>1. PICK S : s \in Seq(S)
    BY DEF IsSeq
<1>2. PICK T : T = S \cup {x}
    OBVIOUS
<1>3. s \in Seq(T) /\ x \in T
    BY <1>1, <1>2
<1>4. PICK n, t : n = Len(s) /\ t = Append(s, x)
    OBVIOUS
<1>5. /\ t \in Seq(T) /\ n \in Nat /\ DOMAIN s = 1..n /\ DOMAIN t = 1..(n + 1) /\ t = s \o <<x>>
      /\ t[n + 1] = x /\ \A i \in 1..n : t[i] = s[i]
    BY <1>3, <1>4
<1>6. \A y : In(y, t) <=> In(y, s) \/ y = x
    BY <1>3, <1>4, AppendElements
<1>7. \A i \in DOMAIN s : i \in DOMAIN t /\ t[i] = s[i]
    BY <1>5
<1>8. \A i \in DOMAIN t : i \in DOMAIN s \/ i = n + 1
    BY <1>5
<1>9. ASSUME IsInjective(s), ~In(x, s), NEW i \in DOMAIN t, NEW j \in DOMAIN t, t[i] = t[j]
      PROVE  i = j
    <2>1. \A k \in DOMAIN s : s[k] # x
        BY <1>9 DEF In
    <2>2. CASE i \in DOMAIN s /\ j \in DOMAIN s
        BY <1>7, <1>9, <2>2 DEF IsInjective
    <2>3. CASE i \in DOMAIN s /\ j = n + 1
        BY <1>5, <1>7, <1>9, <2>1, <2>3
    <2>4. CASE j \in DOMAIN s /\ i = n + 1
        BY <1>5, <1>7, <1>9, <2>1, <2>4
    <2> QED
        BY <1>8, <2>2, <2>3, <2>4
<1>10. IsInjective(s) /\ ~In(x, s) => IsInjective(t)
    BY <1>9 DEF IsInjective
<1>11. IsSeq(t)
    BY <1>5 DEF IsSeq
<1> QED
    BY <1>4, <1>5, <1>6, <1>10, <1>11

\* The log's part of a step that writes no event.
LEMMA LogStays ==
    ASSUME LInv, UNCHANGED <<log, records, dur, ran, ended>>,
           phase' \notin {"step", "write"} \/ UNCHANGED <<phase, prog, fin, val>>
    PROVE  LInv'
<1>1. \A x : In(x, log)' => Known(x)'
    BY DEF LInv, Known, In, InTurn, Dead
<1>2. TurnLog' <=> TurnLog
    BY DEF TurnLog, RanResults
<1>3. CASE phase' \notin {"step", "write"}
    BY <1>1, <1>2, <1>3 DEF LInv, InStep
<1>4. CASE UNCHANGED <<phase, prog, fin, val>>
    <2>1. (InStep("tools") => Shown(fin) /\ Agrees(fin))'
        BY <1>4 DEF LInv, InStep, Shown, Agrees
    <2>2. (phase = "write" /\ prog.at = "tools" => Shown(val) /\ Agrees(val))'
        BY <1>4 DEF LInv, Shown, Agrees
    <2> QED
        BY <1>1, <1>2, <1>4, <2>1, <2>2 DEF LInv
<1> QED
    BY <1>3, <1>4

\* A step that goes on, or writes a result that tells the log nothing.
LEMMA LogGoesOn ==
    ASSUME LInv, UNCHANGED <<log, records, dur, ran, ended>>,
           InStep("tools")' => Shown(fin)' /\ Agrees(fin)',
           (phase = "write" /\ prog.at = "tools")' => Shown(val)' /\ Agrees(val)',
           (phase = "write" /\ prog.at = "begin")' => prog'.why # "prompt"
    PROVE  LInv'
<1>1. \A x : In(x, log)' => Known(x)'
    BY DEF LInv, Known, In, InTurn, Dead
<1>2. TurnLog' <=> TurnLog
    BY DEF TurnLog, RanResults
<1> QED
    BY <1>1, <1>2 DEF LInv

LEMMA CallLog ==
    ASSUME LInv, TakeWake \/ Act \/ StepStarts
    PROVE  LInv'
<1>1. /\ phase = "call" /\ UNCHANGED <<log, records, dur, ran, ended, prog>>
    BY DEF TakeWake, Act, StepStarts, Live, Writes, storage, ghosts
<1>2. CASE TakeWake \/ Act
    <2>1. phase' = "write" /\ prog.at \notin {"begin", "tools"}
        BY <1>2 DEF TakeWake, Act, Live, Writes
    <2> QED
        BY <1>1, <2>1, LogGoesOn DEF InStep
<1>3. CASE StepStarts
    <2>1. phase' = "step" /\ fin' = [c \in {} |-> "none"]
        BY <1>3 DEF StepStarts
    <2>2. DOMAIN fin' = {}
        BY <2>1
    <2> QED
        BY <1>1, <2>1, <2>2, LogGoesOn DEF Shown, Agrees
<1> QED
    BY <1>2, <1>3

LEMMA BeginLog ==
    ASSUME IInv, LInv, Begin
    PROVE  LInv'
<1>1. /\ phase = "call" /\ phase' = "write" /\ prog.at = "begin" /\ pos = upto
      /\ log' = (IF prog.why = "prompt" THEN <<>> ELSE log) /\ UNCHANGED <<records, dur, ran, ended, prog>>
    BY DEF Begin, Live, Writes
<1>2. CASE prog.why # "prompt"
    BY <1>1, <1>2, LogGoesOn DEF InStep
<1>3. CASE prog.why = "prompt"
    <2>1. prog = dur
        BY <1>1, LiveIsLast DEF IInv
    <2>2. records = {}
        BY <1>1, <2>1 DEF IInv, RecordsOK
    <2>3. log' = <<>> /\ DOMAIN log' = {}
        BY <1>1, <1>3
    <2>4. IsSeq(log') /\ \A x : ~In(x, log')
        BY <2>3, SeqFacts DEF LInv, In
    <2>5. TurnLog'
        BY <1>1, <1>3, <2>1, <2>3 DEF TurnLog
    <2> QED
        BY <1>1, <2>2, <2>3, <2>4, <2>5 DEF LInv, InStep
<1> QED
    BY <1>2, <1>3

LEMMA InferLog ==
    ASSUME LInv, InferEnds \/ InferCancelled
    PROVE  LInv'
<1>1. phase' = "write" /\ prog.at = "infer" /\ UNCHANGED <<log, records, dur, ran, ended, prog>>
    BY DEF InferEnds, InferCancelled, InStep, Writes, storage
<1> QED
    BY <1>1, LogGoesOn DEF InStep

LEMMA FoundLog ==
    ASSUME IInv, LInv, NEW c \in Calls, CallFound(c)
    PROVE  LInv'
<1>1. PICK r \in Recorded(c) : fin' = Ends(c, r.out)
    BY DEF CallFound
<1>2. /\ InStep("tools") /\ UNCHANGED <<log, records, dur, ran, ended, prog, phase>>
    BY DEF CallFound, Runnable, storage, ghosts
<1>3. r \in records /\ r.reply = prog.reply /\ r.call = c
    BY <1>1 DEF Recorded
<1>4. DOMAIN fin' = DOMAIN fin \union {c} /\ \A d \in DOMAIN fin' : fin'[d] = IF d = c THEN r.out ELSE fin[d]
    BY <1>1 DEF Ends
<1>5. Shown(fin) /\ Agrees(fin)
    BY <1>2 DEF LInv
<1>6. r.out = "done" => In(<<"result", prog.reply, c>>, log)
    BY <1>3 DEF LInv
<1>7. Shown(fin)'
    BY <1>2, <1>4, <1>5, <1>6 DEF Shown
<1>8. \A q \in records : q.call = c => q.out = r.out
    BY <1>3 DEF LInv
<1>9. r.out \in {"done", "wait"}
    BY <1>3 DEF IInv, RecordsOK
<1>10. Agrees(fin)'
    BY <1>2, <1>4, <1>5, <1>8, <1>9 DEF Agrees
<1> QED
    BY <1>2, <1>7, <1>10, LogGoesOn DEF InStep

LEMMA RunLog ==
    ASSUME IInv, LInv, NEW c \in Calls, CallRuns(c)
    PROVE  LInv'
<1>1. PICK out \in Outcomes(c) : RunsCall(c, out)
    BY DEF CallRuns
<1>2. phase = "step" /\ prog.at = "tools" /\ c \in ToRun(prog) /\ Recorded(c) = {}
    BY DEF CallRuns, Runnable, InStep
<1>3. prog = dur /\ ~ended
    BY <1>2, StepIsLast
<1>4. PICK t, rec, x : t = <<dur.reply, c, dur.round[c]>> /\ rec = Record(c, out) /\ x = <<"result", dur.reply, c>>
    OBVIOUS
<1>5. /\ fin' = Ends(c, out) /\ records' = records \union {rec} /\ ran' = Append(ran, t)
      /\ log' = (IF out = "done" THEN Append(log, x) ELSE log) /\ UNCHANGED <<ended, dur, phase, prog>>
    BY <1>1, <1>3, <1>4 DEF RunsCall
<1>6. rec.reply = dur.reply /\ rec.call = c /\ rec.out = out
    BY <1>3, <1>4 DEF Record
<1>7. /\ dur.round[c] \in {"new", "wait"} /\ ~Dead(dur) /\ dur.reply \in Nat
    BY <1>2, <1>3, ToRunFacts DEF IInv, Sound, Shaped, Dead
<1>8. \A r \in records : r.reply = dur.reply /\ r.call # c
    <2>1. \A r \in records : r.reply = dur.reply
        BY DEF IInv, RecordsOK
    <2> QED
        BY <1>2, <1>3, <2>1 DEF Recorded
<1>9. ran \in Seq(Nat \X Calls \X {"new", "wait"}) /\ t \in Nat \X Calls \X {"new", "wait"}
    BY <1>4, <1>7 DEF IInv, RanOK
<1>10. PICK n : n = Len(ran)
    OBVIOUS
<1>11. /\ n \in Nat /\ DOMAIN ran = 1..n /\ DOMAIN ran' = 1..(n + 1) /\ ran'[n + 1] = t
       /\ \A i \in 1..n : ran'[i] = ran[i]
    BY <1>5, <1>9, <1>10
<1>12. n + 1 \in DOMAIN ran' /\ \A i \in DOMAIN ran : i \in DOMAIN ran' /\ ran'[i] = ran[i]
    BY <1>11
<1>13. t[1] = dur.reply /\ t[2] = c
    BY <1>4
<1>14. IsSeq(log) /\ \A y : In(y, log) => Known(y)
    BY DEF LInv
<1>15. ~In(x, log)
    <2>1. SUFFICES ASSUME Known(x) PROVE FALSE
        BY <1>14
    <2>2. x[1] = "result" /\ x[2] = dur.reply /\ x[3] = c
        BY <1>4
    <2>3. \A a, b, d : x = <<a, b, d>> => a = "result" /\ b = dur.reply /\ d = c
        BY <2>2
    <2>4. PICK i \in DOMAIN ran :
            /\ x = <<"result", ran[i][1], ran[i][2]>>
            /\ ran[i][1] = dur.reply =>
                 \/ Dead(dur) \/ dur.round[ran[i][2]] \notin {"new", "wait"}
                 \/ \E r \in records : r.call = ran[i][2] /\ r.out = "done"
        BY <2>1, <2>3 DEF Known
    <2>5. ran[i][1] = dur.reply /\ ran[i][2] = c
        BY <2>3, <2>4
    <2> QED
        BY <1>7, <1>8, <2>4, <2>5
<1>16. /\ IsSeq(log') /\ \A y : In(y, log') <=> In(y, log) \/ (out = "done" /\ y = x)
       /\ IsInjective(log) => IsInjective(log')
    <2>1. CASE out = "done"
        BY <1>5, <1>14, <1>15, <2>1, LogAppends
    <2>2. CASE out # "done"
        BY <1>5, <1>14, <2>2
    <2> QED
        BY <2>1, <2>2
<1>17. \A y : Known(y) => Known(y)'
    <2>1. InTurn(dur)' = InTurn(dur) /\ Dead(dur)' = Dead(dur)
        BY <1>5 DEF InTurn, Dead
    <2>2. \A r \in records : r \in records'
        BY <1>5
    <2> QED
        BY <1>5, <1>12, <2>1, <2>2 DEF Known
<1>18. out = "done" => Known(x)'
    <2>1. SUFFICES ASSUME out = "done" PROVE Known(x)'
        OBVIOUS
    <2>2. rec \in records' /\ rec.call = ran'[n + 1][2] /\ rec.out = "done"
        BY <1>5, <1>6, <1>11, <1>13, <2>1
    <2>3. x = <<"result", ran'[n + 1][1], ran'[n + 1][2]>>
        BY <1>4, <1>11, <1>13
    <2> QED
        BY <1>12, <2>2, <2>3 DEF Known
<1>19. \A y : In(y, log') => Known(y)'
    BY <1>14, <1>16, <1>17, <1>18
<1>20. \A r \in records' : r.out = "done" => In(<<"result", r.reply, r.call>>, log')
    BY <1>4, <1>5, <1>6, <1>16 DEF LInv
<1>21. \A r, s \in records' : r.call = s.call => r = s
    BY <1>5, <1>6, <1>8 DEF LInv
<1>22. Shown(fin)' /\ Agrees(fin)'
    <2>1. DOMAIN fin' = DOMAIN fin \union {c} /\ \A d \in DOMAIN fin' : fin'[d] = IF d = c THEN out ELSE fin[d]
        BY <1>5 DEF Ends
    <2>2. Shown(fin) /\ Agrees(fin)
        BY <1>2 DEF LInv, InStep
    <2>3. Shown(fin)'
        BY <1>3, <1>4, <1>5, <1>16, <2>1, <2>2 DEF Shown
    <2>4. Agrees(fin)'
        BY <1>5, <1>6, <1>8, <2>1, <2>2 DEF Agrees
    <2> QED
        BY <2>3, <2>4
<1>23. TurnLog'
    <2>1. IsInjective(log) /\ dur.events \subseteq Range(log) /\ Range(log) \subseteq dur.events \union RanResults
        BY <1>2, <1>3 DEF LInv, TurnLog
    <2>2. \A y : y \in RanResults => y \in RanResults'
        BY <1>12 DEF RanResults
    <2>3. x \in RanResults'
        BY <1>4, <1>11, <1>12, <1>13 DEF RanResults
    <2>4. \A y : (y \in Range(log) <=> In(y, log)) /\ (y \in Range(log') <=> In(y, log'))
        BY RangeIn
    <2> QED
        BY <1>5, <1>16, <2>1, <2>2, <2>3, <2>4 DEF TurnLog
<1> QED
    BY <1>2, <1>5, <1>16, <1>19, <1>20, <1>21, <1>22, <1>23 DEF LInv, InStep

LEMMA ToolsLog ==
    ASSUME LInv, ToolsEnd \/ ToolsUnread
    PROVE  LInv'
<1>1. /\ InStep("tools") /\ phase' = "write" /\ prog.at = "tools" /\ val' = Outcome
      /\ UNCHANGED <<log, records, dur, ran, ended, prog>>
    BY DEF ToolsEnd, ToolsUnread, InStep, Writes, storage
<1>2. Shown(fin) /\ Agrees(fin)
    BY <1>1 DEF LInv
<1>3. \A c \in DOMAIN val' : val'[c] = IF c \in DOMAIN fin THEN fin[c] ELSE "cancelled"
    BY <1>1 DEF Outcome
<1>4. Shown(val)' /\ Agrees(val)'
    BY <1>1, <1>2, <1>3 DEF Shown, Agrees
<1> QED
    BY <1>1, <1>4, LogGoesOn DEF InStep

\* An event that was made stays known: an entry never takes the session back to
\* before the step that made it.
LEMMA StaysKnown ==
    ASSUME IInv, LInv, Write
    PROVE  \A x : Known(x) => Known(x)'
<1>1. PICK e : e = Entry
    OBVIOUS
<1>2. e.val = val
    BY <1>1 DEF Entry
<1>3. phase = "write" /\ dur' = After(dur, e) /\ ran' = ran /\ prog = dur
    BY <1>1, StepIsLast DEF Write
<1>4. Sound(dur) /\ Result(dur, val) /\ RecordsOK /\ RanOK
    BY <1>3 DEF IInv, Steps
<1>5. Moved(dur, dur', val) /\ Told(dur, dur', val) /\ Sound(dur)'
    BY <1>2, <1>3, <1>4, AfterGood
<1>6. dur.reply \in Nat /\ dur'.reply \in Nat /\ dur.turn \in Nat /\ dur'.turn \in Nat
    BY <1>4, <1>5 DEF Sound, Shaped
<1>7. dur.reply <= dur'.reply /\ dur.turn <= dur'.turn
    BY <1>5, <1>6 DEF Moved, Told
<1>8. ASSUME NEW n \in Nat, n <= dur.turn, n = dur.turn => ~InTurn(dur)
      PROVE  n <= dur'.turn /\ (n = dur'.turn => ~InTurn(dur'))
    BY <1>5, <1>6, <1>7, <1>8 DEF Told
<1>9. ASSUME NEW i \in DOMAIN ran,
             ran[i][1] = dur.reply =>
               \/ Dead(dur) \/ dur.round[ran[i][2]] \notin {"new", "wait"}
               \/ \E r \in records : r.call = ran[i][2] /\ r.out = "done",
             ran[i][1] = dur'.reply
      PROVE  Dead(dur') \/ dur'.round[ran[i][2]] \notin {"new", "wait"}
    <2>1. ran[i][1] <= dur.reply /\ ran[i][2] \in Calls
        BY <1>4, <1>9 DEF RanOK
    <2>2. dur'.reply = dur.reply /\ ran[i][1] = dur.reply
        BY <1>6, <1>7, <1>9, <2>1
    <2>3. PICK c : c = ran[i][2]
        OBVIOUS
    <2>4. CASE Dead(dur') \/ \A d \in Calls : dur'.round[d] = "none"
        BY <2>1, <2>4
    <2>5. CASE ~Dead(dur) /\ dur.at # "tools" /\ dur'.round = dur.round
        <3>1. records = {}
            BY <1>4, <2>5 DEF RecordsOK
        <3> QED
            BY <1>9, <2>2, <2>5, <3>1
    <2>6. CASE /\ ~Dead(dur) /\ dur.at = "tools"
               /\ \A d \in Calls : dur'.round[d] = IF d \in ToRun(dur) THEN val[d] ELSE dur.round[d]
               /\ \A d \in ToRun(dur) : val[d] # "cancelled"
        <3>1. CASE c \notin ToRun(dur)
            <4>1. dur'.round[c] = dur.round[c]
                BY <2>1, <2>3, <2>6, <3>1
            <4>2. \A r \in records : r.call # c
                BY <1>4, <3>1 DEF RecordsOK
            <4> QED
                BY <1>9, <2>2, <2>3, <2>6, <4>1, <4>2
        <3>2. CASE c \in ToRun(dur)
            <4>1. dur.round[c] \in {"new", "wait"}
                BY <3>2, ToRunFacts
            <4>2. PICK r \in records : r.call = c /\ r.out = "done"
                BY <1>9, <2>2, <2>3, <2>6, <4>1
            <4>3. DOMAIN val = ToRun(dur) /\ val[c] \in {"done", "cancelled", "wait"}
                BY <1>4, <2>6, <3>2 DEF Result
            <4>4. val[c] # "wait" /\ val[c] # "new"
                BY <1>3, <2>6, <3>2, <4>2, <4>3 DEF LInv, Agrees
            <4>5. dur'.round[c] = val[c]
                BY <2>1, <2>3, <2>6, <3>2
            <4> QED
                BY <2>3, <4>4, <4>5
        <3> QED
            BY <3>1, <3>2
    <2> QED
        BY <1>5, <2>2, <2>4, <2>5, <2>6 DEF Moved
<1>10. ASSUME NEW x, Known(x) PROVE Known(x)'
    <2>1. CASE \E n \in Nat : n <= dur.reply /\ x = <<"reply", n, 0>>
        BY <1>6, <1>7, <2>1 DEF Known
    <2>2. CASE \E n \in Nat : n <= dur.turn /\ (n = dur.turn => ~InTurn(dur)) /\ x = <<"end", n, 0>>
        <3>1. PICK n \in Nat : n <= dur.turn /\ (n = dur.turn => ~InTurn(dur)) /\ x = <<"end", n, 0>>
            BY <2>2
        <3>2. n <= dur'.turn /\ (n = dur'.turn => ~InTurn(dur'))
            BY <1>8, <3>1
        <3> QED
            BY <3>1, <3>2 DEF Known
    <2>3. CASE \E i \in DOMAIN ran :
                 /\ x = <<"result", ran[i][1], ran[i][2]>>
                 /\ ran[i][1] = dur.reply =>
                      \/ Dead(dur) \/ dur.round[ran[i][2]] \notin {"new", "wait"}
                      \/ \E r \in records : r.call = ran[i][2] /\ r.out = "done"
        <3>1. PICK i \in DOMAIN ran :
                 /\ x = <<"result", ran[i][1], ran[i][2]>>
                 /\ ran[i][1] = dur.reply =>
                      \/ Dead(dur) \/ dur.round[ran[i][2]] \notin {"new", "wait"}
                      \/ \E r \in records : r.call = ran[i][2] /\ r.out = "done"
            BY <2>3
        <3>2. ran[i][1] = dur'.reply => Dead(dur') \/ dur'.round[ran[i][2]] \notin {"new", "wait"}
            BY <1>9, <3>1
        <3> QED
            BY <1>3, <3>1, <3>2 DEF Known
    <2> QED
        BY <1>10, <2>1, <2>2, <2>3 DEF Known
<1> QED
    BY <1>10

\* What an entry tells the log: nothing, or one event nobody made before.
LEMMA NewEvent ==
    ASSUME IInv, LInv, Write, NEW x,
           \/ prog.at = "infer" /\ val # "cancelled" /\ x = <<"reply", prog.reply + 1, 0>>
           \/ prog.at = "emit" /\ x = <<"end", prog.turn, 0>>
    PROVE  ~Known(x) /\ Known(x)' /\ Made = <<x>> /\ dur'.events = dur.events \union {x}
<1>1. PICK e : e = Entry
    OBVIOUS
<1>2. e.val = val /\ e.kind = CallOf(prog)
    BY <1>1 DEF Entry
<1>3. phase = "write" /\ dur' = After(dur, e) /\ prog = dur
    BY <1>1, StepIsLast DEF Write
<1>4. Sound(dur) /\ Result(dur, val)
    BY <1>3 DEF IInv, Steps
<1>5. Moved(dur, dur', val) /\ Told(dur, dur', val) /\ Sound(dur)'
    BY <1>2, <1>3, <1>4, AfterGood
<1>6. dur.reply \in Nat /\ dur'.reply \in Nat /\ dur.turn \in Nat /\ dur'.turn \in Nat
    BY <1>4, <1>5 DEF Sound, Shaped
<1>7. e.kind = prog.at
    BY <1>2 DEF CallOf
<1>8. dur'.events = dur.events \union Tells(dur, val)
    BY <1>3, <1>5 DEF Told, Events
<1>9. CASE prog.at = "infer" /\ val # "cancelled" /\ x = <<"reply", prog.reply + 1, 0>>
    <2>1. Made = <<x>> /\ Tells(dur, val) = {x}
        BY <1>1, <1>3, <1>7, <1>9 DEF Made, Tells
    <2>2. dur'.reply = dur.reply + 1
        BY <1>3, <1>5, <1>9 DEF Moved
    <2>3. Known(x)'
        BY <1>3, <1>6, <1>9, <2>2 DEF Known
    <2>4. \A a, b, d : x = <<a, b, d>> => a = "reply" /\ b = dur.reply + 1
        BY <1>3, <1>9
    <2>5. ~Known(x)
        BY <1>6, <2>4 DEF Known
    <2> QED
        BY <1>8, <2>1, <2>3, <2>5
<1>10. CASE prog.at = "emit" /\ x = <<"end", prog.turn, 0>>
    <2>1. Made = <<x>> /\ Tells(dur, val) = {x}
        BY <1>1, <1>3, <1>7, <1>10 DEF Made, Tells
    <2>2. dur.turn <= dur'.turn /\ (dur.turn = dur'.turn => ~InTurn(dur'))
        BY <1>3, <1>5, <1>6, <1>10 DEF Told
    <2>3. Known(x)'
        BY <1>3, <1>6, <1>10, <2>2 DEF Known
    <2>4. \A a, b, d : x = <<a, b, d>> => a = "end" /\ b = dur.turn
        BY <1>3, <1>10
    <2>5. InTurn(dur)
        BY <1>3, <1>10 DEF InTurn
    <2>6. ~Known(x)
        BY <2>4, <2>5 DEF Known
    <2> QED
        BY <1>8, <2>1, <2>3, <2>6
<1> QED
    BY <1>9, <1>10

LEMMA WriteLog ==
    ASSUME IInv, LInv, Write
    PROVE  LInv'
<1>1. PICK e : e = Entry
    OBVIOUS
<1>2. e.val = val /\ e.kind = CallOf(prog)
    BY <1>1 DEF Entry
<1>3. /\ phase = "write" /\ dur' = After(dur, e) /\ prog = dur /\ ~ended /\ log' = log \o Made /\ records' = KeptRecords
      /\ phase' = "call" /\ UNCHANGED <<ended, ran>>
    BY <1>1, StepIsLast DEF Write
<1>4. Sound(dur) /\ Result(dur, val)
    BY <1>3 DEF IInv, Steps
<1>5. Told(dur, dur', val) /\ CallOf(dur) \in CallKinds
    BY <1>2, <1>3, <1>4, AfterGood
<1>6. \A x : Known(x) => Known(x)'
    BY StaysKnown
<1>7. IsSeq(log) /\ (\A x : In(x, log) => Known(x)) /\ TurnLog
    BY <1>3 DEF LInv
<1>8. \A s : \A x : x \in Range(s) <=> In(x, s)
    BY RangeIn
<1>9. \A r \in records' : r \in records
    BY <1>3 DEF KeptRecords
<1>10. CASE \E x : \/ prog.at = "infer" /\ val # "cancelled" /\ x = <<"reply", prog.reply + 1, 0>>
                   \/ prog.at = "emit" /\ x = <<"end", prog.turn, 0>>
    <2>1. PICK x : \/ prog.at = "infer" /\ val # "cancelled" /\ x = <<"reply", prog.reply + 1, 0>>
                   \/ prog.at = "emit" /\ x = <<"end", prog.turn, 0>>
        BY <1>10
    <2>2. ~Known(x) /\ Known(x)' /\ Made = <<x>> /\ dur'.events = dur.events \union {x}
        BY <2>1, NewEvent
    <2>3. ~In(x, log)
        BY <1>7, <2>2
    <2>4. /\ IsSeq(log') /\ (\A y : In(y, log') <=> In(y, log) \/ y = x) /\ (IsInjective(log) => IsInjective(log'))
        <3>1. PICK t : t = Append(log, x)
            OBVIOUS
        <3>2. /\ IsSeq(t) /\ t = log \o <<x>>
              /\ \A y : In(y, t) <=> In(y, log) \/ y = x
              /\ IsInjective(log) /\ ~In(x, log) => IsInjective(t)
            BY <1>7, <3>1, LogAppends
        <3>3. log' = t
            BY <1>3, <2>2, <3>2
        <3> QED
            BY <2>3, <3>2, <3>3
    <2>5. \A y : In(y, log') => Known(y)'
        BY <1>6, <1>7, <2>2, <2>4
    <2>6. TurnLog'
        <3>1. IsInjective(log) /\ dur.events \subseteq Range(log) /\ Range(log) \subseteq dur.events \union RanResults
            BY <1>3, <1>7, <2>1 DEF TurnLog
        <3>2. RanResults' = RanResults
            BY <1>3 DEF RanResults
        <3> QED
            BY <1>8, <2>2, <2>4, <3>1, <3>2 DEF TurnLog
    <2> QED
        BY <1>3, <1>9, <2>4, <2>5, <2>6 DEF LInv, InStep
<1>11. CASE prog.at # "emit" /\ (prog.at = "infer" => val = "cancelled")
    <2>1. Made = <<>>
        BY <1>1, <1>2, <1>11 DEF Made, CallOf
    <2>2. log' = log
        <3>1. PICK S : log \in Seq(S)
            BY <1>7 DEF IsSeq
        <3> QED
            BY <1>3, <2>1, <3>1
    <2>3. TurnLog'
        <3>1. dur'.events = Events(dur, val)
            BY <1>5 DEF Told
        <3>2. CASE dur.at = "begin" /\ dur.why = "prompt"
            <4>1. log = <<>> /\ dur'.events = {}
                BY <1>3, <3>1, <3>2 DEF LInv, Events
            <4>2. Range(log') = {} /\ IsInjective(log')
                BY <2>2, <4>1 DEF Range, IsInjective
            <4> QED
                BY <4>1, <4>2 DEF TurnLog
        <3>3. CASE ~(dur.at = "begin" /\ dur.why = "prompt")
            <4>1. IsInjective(log) /\ dur.events \subseteq Range(log) /\ Range(log) \subseteq dur.events \union RanResults
                BY <1>7, <3>3 DEF TurnLog
            <4>2. dur'.events = dur.events \union Tells(dur, val)
                BY <3>1, <3>3 DEF Events
            <4>3. Tells(dur, val) \subseteq Range(log)
                <5>1. CASE dur.at = "tools"
                    <6>1. Shown(val)
                        BY <1>3, <5>1 DEF LInv
                    <6>2. Tells(dur, val) = Results(dur, val)
                        BY <5>1 DEF Tells
                    <6> QED
                        BY <1>3, <1>8, <6>1, <6>2 DEF Shown, Results
                <5>2. CASE dur.at # "tools"
                    <6>1. Tells(dur, val) = {}
                        BY <1>3, <1>11, <5>2 DEF Tells
                    <6> QED
                        BY <6>1
                <5> QED
                    BY <5>1, <5>2
            <4>4. RanResults' = RanResults
                BY <1>3 DEF RanResults
            <4> QED
                BY <2>2, <4>1, <4>2, <4>3, <4>4 DEF TurnLog
        <3> QED
            BY <3>2, <3>3
    <2> QED
        BY <1>3, <1>6, <1>7, <1>9, <2>2, <2>3 DEF LInv, InStep
<1> QED
    BY <1>10, <1>11

LEMMA SuspendLog ==
    ASSUME IInv, LInv, Suspend
    PROVE  LInv'
<1>1. /\ phase = "call" /\ prog.at = "suspended" /\ dur' = Resumed(prog) /\ phase' = "end"
      /\ UNCHANGED <<records, log, ended, ran>>
    BY DEF Suspend, Returned
<1>2. Sound(dur) /\ prog = dur /\ ~ended /\ records = {}
    BY <1>1, LiveIsLast DEF IInv, RecordsOK
<1>3. /\ dur'.round = dur.round /\ dur'.reply = dur.reply /\ dur'.turn = dur.turn /\ dur'.events = dur.events
      /\ Dead(dur) => Dead(dur')
    BY <1>1, <1>2, ResumedSound, ResumedKeeps
<1>4. InTurn(dur') => InTurn(dur)
    <2>1. dur'.at = "begin" => dur.susp
        BY <1>1, <1>2, ResumedKeeps
    <2>2. dur'.at \in {"begin", "next"}
        BY <1>1, <1>2, ResumedKeeps
    <2> QED
        BY <1>1, <1>2, <2>1, <2>2 DEF InTurn
<1>5. \A x : Known(x) => Known(x)'
    BY <1>1, <1>2, <1>3, <1>4 DEF Known
<1>6. TurnLog'
    BY <1>1, <1>2, <1>3 DEF LInv, TurnLog, RanResults
<1> QED
    BY <1>1, <1>5, <1>6 DEF LInv, InStep

LEMMA FinishLog ==
    ASSUME LInv, Finish
    PROVE  LInv'
<1>1. ended' = TRUE /\ records' = {} /\ log' = <<>> /\ phase' = "end"
    BY DEF Finish
<1>2. DOMAIN log' = {} /\ IsSeq(log')
    BY <1>1, SeqFacts DEF LInv
<1>3. \A x : ~In(x, log')
    BY <1>2 DEF In
<1> QED
    BY <1>1, <1>2, <1>3 DEF LInv, InStep

LEMMA LogInvariance ==
    ASSUME IInv, LInv, [Next]_vars
    PROVE  LInv'
<1>1. ASSUME NEW k \in Kinds, Wake(k) PROVE LInv'
    <2>1. UNCHANGED <<log, records, dur, ran, ended, prog, fin, val>> /\ (phase' = phase \/ phase' = "start")
        BY <1>1 DEF Wake, Kicked, run, ghosts
    <2> QED
        BY <2>1, LogStays
<1>2. CASE Alarm
    <2>1. UNCHANGED <<log, records, dur, ran, ended, prog, fin, val>> /\ (phase' = phase \/ phase' = "start")
        BY <1>2 DEF Alarm, Kicked, storage, run, ghosts
    <2> QED
        BY <2>1, LogStays
<1>3. CASE RunStarts \/ NothingToRun \/ Replay \/ RunEnds \/ StorageFails \/ Crash
    <2>1. UNCHANGED <<log, records, dur, ran, ended>> /\ phase' \in {"off", "start", "call", "end"}
        BY <1>3 DEF RunStarts, NothingToRun, Replay, Replaying, RunEnds, StorageFails, Stop, Crash, storage, ghosts
    <2> QED
        BY <2>1, LogStays
<1>4. CASE TakeWake \/ Begin \/ Act \/ StepStarts
    BY <1>4, CallLog, BeginLog
<1>5. CASE InferEnds \/ InferCancelled
    BY <1>5, InferLog
<1>6. ASSUME NEW c \in Calls, CallFound(c) \/ CallRuns(c) PROVE LInv'
    BY <1>6, FoundLog, RunLog
<1>7. CASE ToolsCancelled
    <2>1. UNCHANGED <<log, records, dur, ran, ended, phase, prog, fin, val>>
        BY <1>7 DEF ToolsCancelled, storage, ghosts
    <2> QED
        BY <2>1, LogStays
<1>8. CASE ToolsEnd \/ ToolsUnread
    BY <1>8, ToolsLog
<1>9. CASE Write \/ Suspend \/ Finish
    BY <1>9, WriteLog, SuspendLog, FinishLog
<1>10. CASE UNCHANGED vars
    <2>1. UNCHANGED <<log, records, dur, ran, ended, phase, prog, fin, val>>
        BY <1>10 DEF vars, storage, run, ghosts
    <2> QED
        BY <2>1, LogStays
<1> QED
    BY <1>1, <1>2, <1>3, <1>4, <1>5, <1>6, <1>7, <1>8, <1>9, <1>10 DEF Next

LEMMA LogInitial ==
    ASSUME Init
    PROVE  LInv
<1>1. log = <<>> /\ DOMAIN log = {} /\ records = {} /\ phase = "off" /\ dur.events = {}
    BY DEF Init, Fresh
<1>2. IsSeq(log) /\ \A x : ~In(x, log)
    BY <1>1 DEF IsSeq, In
<1>3. Range(log) = {} /\ IsInjective(log)
    BY <1>1 DEF Range, IsInjective
<1>4. TurnLog
    BY <1>1, <1>3 DEF TurnLog
<1> QED
    BY <1>1, <1>2, <1>4 DEF LInv, InStep

-----------------------------------------------------------------------------
(* The specification.                                                      *)

LEMMA Initial ==
    ASSUME Init
    PROVE  IInv
<1>1. /\ wakes = <<>> /\ box = {} /\ mail = <<>> /\ records = {} /\ ran = <<>> /\ journal = <<>>
      /\ carry = Fresh /\ dur = Fresh /\ phase = "off" /\ ~ended
    BY DEF Init
<1>2. /\ DOMAIN Fresh = Fields /\ Fresh.at = "next" /\ Fresh.round = NoRound /\ Fresh.reply = 0
      /\ ~Fresh.stop /\ ~Fresh.susp /\ Fresh.stop \in BOOLEAN /\ Fresh.susp \in BOOLEAN /\ Fresh.turn = 0
    BY DEF Fresh, Fields
<1>3. Sound(dur)
    BY <1>1, <1>2 DEF Sound, Shaped, NoRound, Ats
<1>4. Resumed(Fresh) = Fresh
    BY DEF Resumed, To, Fresh
<1>5. Journaled
    <2>1. PICK st : st = [i \in 0..0 |-> dur]
        OBVIOUS
    <2>2. IsSeq(journal) /\ Len(journal) = 0 /\ Resumed(carry) = dur
        BY <1>1, <1>4 DEF IsSeq
    <2>3. DOMAIN st = 0..0 /\ st[0] = dur
        BY <2>1
    <2>4. Replayed(st) /\ Runs(st)
        BY <1>1, <1>3, <2>2, <2>3 DEF Replayed, Runs
    <2> QED
        BY <2>2, <2>4 DEF Journaled
<1>6. Mails
    BY <1>1, OneElement DEF Mails
<1>7. RanOK /\ RunsOnce
    BY <1>1 DEF RanOK, RunsOnce, IsInjective
<1>8. RecordsOK /\ Steps
    BY <1>1 DEF RecordsOK, Steps, InStep
<1> QED
    BY <1>1, <1>3, <1>5, <1>6, <1>7, <1>8 DEF IInv

LEMMA Invariance ==
    ASSUME IInv, [Next]_vars
    PROVE  IInv'
<1>1. ASSUME NEW k \in Kinds, Wake(k) PROVE IInv'
    BY <1>1, WakeKeeps
<1>2. CASE Alarm \/ RunStarts \/ Replay
    BY <1>2, AlarmKeeps, RunStartsKeeps, ReplayKeeps
<1>3. CASE NothingToRun \/ RunEnds \/ StorageFails \/ Crash
    BY <1>3, StopKeeps
<1>4. CASE TakeWake \/ Begin \/ Act \/ StepStarts
    BY <1>4, TakeWakeKeeps, ActKeeps, StepStartsKeeps
<1>5. CASE InferEnds \/ InferCancelled
    BY <1>5, InferKeeps
<1>6. ASSUME NEW c \in Calls, CallFound(c) \/ CallRuns(c) PROVE IInv'
    BY <1>6, CallFoundKeeps, CallRunsKeeps
<1>7. CASE ToolsCancelled \/ ToolsEnd \/ ToolsUnread
    BY <1>7, ToolsCancelledKeeps, ToolsEndKeeps
<1>8. CASE Write \/ Suspend \/ Finish
    BY <1>8, WriteKeeps, SuspendKeeps, FinishKeeps
<1>9. CASE UNCHANGED vars
    <2>1. UNCHANGED <<wakes, box, mail, journal, carry, ended, phase, dur, records, ran, pos, upto, prog, val, fin>>
        BY <1>9 DEF vars, storage, run, ghosts
    <2>2. Steps'
        BY <2>1 DEF IInv, Steps, InStep
    <2>3. CASE phase \in {"call", "step", "write"}
        BY <2>1, <2>2, <2>3, StepKeeps
    <2>4. CASE phase \notin {"call", "step", "write"}
        BY <2>1, <2>4, OffKeeps
    <2> QED
        BY <2>3, <2>4
<1> QED
    BY <1>1, <1>2, <1>3, <1>4, <1>5, <1>6, <1>7, <1>8, <1>9 DEF Next

\* What the invariant says of a run.
LEMMA Safety ==
    ASSUME IInv
    PROVE  CallsRunOnce /\ JournalFits /\ ReplayAgrees
<1>1. RunsOnce
    BY DEF IInv
<1>2. ReplayAgrees
    BY StepIsLast DEF ReplayAgrees
<1>3. JournalFits
    <2>1. Replaying => Journaled /\ phase = "call"
        BY DEF Replaying, IInv
    <2> QED
        BY <2>1, LiveIsLast DEF JournalFits
<1>4. RecordsAreFresh
    <2>1. InStep("tools") => prog = dur
        BY StepIsLast DEF InStep
    <2> QED
        BY <2>1 DEF RecordsAreFresh, IInv, RecordsOK
<1> QED
    BY <1>1, <1>2, <1>3, <1>4 DEF CallsRunOnce

-----------------------------------------------------------------------------
(* The inbox the session promises.                                         *)

LEMMA WaitingHolds ==
    ASSUME IInv
    PROVE  Holds(Waiting, Open)
<1>1. wakes \in Seq(Kinds) /\ Open \in SUBSET (DOMAIN wakes)
    BY DEF IInv, Mails, Open
<1> QED
    BY <1>1, InOrderHolds DEF Waiting, Open

LEMMA WaitingNext ==
    ASSUME IInv', NEW s, Holds(s, Open')
    PROVE  Waiting' = s
<1>1. wakes' \in Seq(Kinds) /\ Open' \in SUBSET (DOMAIN wakes')
    BY DEF IInv, Mails, Open
<1>2. Holds(Picked([n \in DOMAIN wakes' |-> n], Open'), Open')
    BY <1>1, NumbersHold
<1>3. Waiting' = Picked([n \in DOMAIN wakes' |-> n], Open')
    BY DEF Waiting, InOrder, Open
<1> QED
    BY <1>2, <1>3, HoldsOnce

\* A step that neither takes nor handles a wake.
LEMMA InboxStays ==
    ASSUME IInv, IInv', UNCHANGED <<wakes, ended>>, Open' = Open,
           dur'.handled = dur.handled, dur'.dropped = dur.dropped
    PROVE  UNCHANGED Inbox!vars
<1>1. Waiting' = Waiting
    BY WaitingHolds, WaitingNext
<1> QED
    BY <1>1 DEF Inbox!vars

LEMMA WakeAccepts ==
    ASSUME IInv, MInv, IInv', NEW kind \in Kinds, Wake(kind)
    PROVE  Inbox!Accept(kind)
<1>1. PICK n : n = Len(wakes')
    OBVIOUS
<1>2. /\ wakes' = Append(wakes, kind) /\ box' = box \union {n} /\ ~ended /\ UNCHANGED <<journal, ended, dur>>
    BY <1>1 DEF Wake, ghosts
<1>3. wakes \in Seq(Kinds) /\ box \subseteq DOMAIN wakes /\ Taken(journal) \subseteq DOMAIN wakes
    BY DEF IInv, Mails, MInv, Memory
<1>4. n \in Nat /\ n \notin DOMAIN wakes /\ \A m \in DOMAIN wakes : m < n
    BY <1>1, <1>2, <1>3
<1>5. Open' = Open \union {n}
    BY <1>2, <1>3, <1>4 DEF Open
<1>6. \A m \in Open : m < n
    BY <1>3, <1>4 DEF Open
<1>7. PICK s, t : s = Waiting /\ t = Append(s, n)
    OBVIOUS
<1>8. Holds(t, Open')
    BY <1>4, <1>5, <1>6, <1>7, WaitingHolds, AppendHolds
<1>9. Waiting' = t
    BY <1>8, WaitingNext
<1> QED
    BY <1>1, <1>2, <1>7, <1>9 DEF Inbox!Accept

\* A call that takes the oldest wake, and a cancel that stops a step.
LEMMA WriteHandles ==
    ASSUME IInv, MInv, IInv', Write
    PROVE  Inbox!Handle \/ Inbox!StopStep \/ UNCHANGED Inbox!vars
<1>1. PICK e : e = Entry
    OBVIOUS
<1>2. e.val = val /\ e.taken = pend
    BY <1>1 DEF Entry
<1>3. /\ phase = "write" /\ journal' = Append(journal, e) /\ dur' = After(dur, e) /\ prog = dur
      /\ UNCHANGED <<wakes, box, ended>> /\ IsSeq(journal)
    BY <1>1, StepIsLast DEF Write, Journaled
<1>4. Sound(dur) /\ Result(dur, val)
    BY <1>3 DEF IInv, Steps
<1>5. /\ dur'.handled = (IF CallOf(dur) = "next" THEN dur.handled \o pend ELSE dur.handled)
      /\ dur'.dropped = (IF CallOf(dur) = "next" THEN dur.dropped ELSE dur.dropped \union Range(pend))
      /\ (CallOf(dur) = "next" <=> dur.at \in NextAts)
    BY <1>2, <1>3, <1>4, AfterGood
<1>6. Open' = Open \ Range(pend)
    BY <1>2, <1>3, TakenAppend DEF Open
<1>7. Holds(mail, Open)
    <2>1. Busy
        BY <1>3 DEF Busy
    <2> QED
        BY <2>1, BusyFacts DEF IInv, Mails, MInv, Memory, Holds
<1>8. Waiting = mail
    BY <1>7, WaitingHolds, HoldsOnce
<1>9. PICK s : s = dur.handled
    OBVIOUS
<1>10. s \in Seq(Nat)
    BY <1>9 DEF MInv, Closes
<1>11. CASE pend = <<>>
    <2>1. DOMAIN pend = {} /\ s \o pend = s
        BY <1>10, <1>11
    <2>2. Range(pend) = {}
        BY <2>1 DEF Range
    <2>3. dur'.handled = dur.handled /\ dur'.dropped = dur.dropped
        BY <1>5, <1>9, <2>1, <2>2
    <2> QED
        BY <1>3, <1>6, <2>2, <2>3, InboxStays
<1>12. CASE prog.at \in NextAts /\ mail # <<>> /\ pend = <<Head(mail)>>
    <2>1. PICK h, t : h = Head(mail) /\ t = Tail(mail)
        OBVIOUS
    <2>2. Holds(t, Open \ {h})
        BY <1>7, <1>12, <2>1, TailHolds
    <2>3. Range(pend) = {h}
        BY <1>12, <2>1, OneElement, RangeIn
    <2>4. Waiting' = t
        BY <1>6, <2>2, <2>3, WaitingNext
    <2>5. h \in Nat
        BY <1>7, <1>12, <2>1 DEF Holds
    <2>6. s \o <<h>> = Append(s, h)
        BY <1>10, <2>5
    <2>7. dur'.handled = Append(dur.handled, h) /\ dur'.dropped = dur.dropped
        BY <1>3, <1>5, <1>9, <1>12, <2>1, <2>6
    <2>8. Inbox!Handle
        BY <1>3, <1>8, <1>12, <2>1, <2>4, <2>7 DEF Inbox!Handle
    <2> QED
        BY <2>8
<1>13. CASE prog.at \in {"infer", "tools"} /\ CancelTaken
    <2>1. PICK i \in DOMAIN mail :
            /\ wakes[mail[i]] = "cancel" /\ \A j \in 1..(i - 1) : wakes[mail[j]] # "cancel"
            /\ \A n : In(n, pend) <=> \E j \in 1..i : mail[j] = n /\ wakes[n] \in {"prompt", "cancel"}
        BY <1>13 DEF CancelTaken
    <2>2. PICK before, Out :
            before = {j \in 1..(i - 1) : wakes[mail[j]] = "prompt"} /\ Out = {mail[j] : j \in before \union {i}}
        OBVIOUS
    <2>3. i \in Nat /\ i >= 1 /\ \A j \in 1..i : j \in 1..(i - 1) \/ j = i
        BY <1>7 DEF Holds
    <2>4. \A n : In(n, pend) <=> n \in Out
        <3>1. ASSUME NEW n, NEW j \in 1..i, mail[j] = n, wakes[n] \in {"prompt", "cancel"} PROVE n \in Out
            BY <2>1, <2>2, <2>3, <3>1
        <3>2. ASSUME NEW n \in Out PROVE \E j \in 1..i : mail[j] = n /\ wakes[n] \in {"prompt", "cancel"}
            <4>1. PICK j \in before \union {i} : mail[j] = n
                BY <2>2
            <4>2. j \in 1..i /\ wakes[n] \in {"prompt", "cancel"}
                BY <2>1, <2>2, <2>3, <4>1
            <4> QED
                BY <4>1, <4>2
        <3> QED
            BY <2>1, <3>1, <3>2
    <2>5. Range(pend) = Out
        BY <2>4, RangeIn
    <2>6. PICK t : t = Untaken(mail, Out)
        OBVIOUS
    <2>7. t \in Seq(Nat) /\ Rising(t) /\ \A n : In(n, t) <=> In(n, mail) /\ n \notin Out
        BY <1>7, <2>6, UntakenRising DEF Holds
    <2>8. Holds(t, Open')
        BY <1>6, <1>7, <2>5, <2>7 DEF Holds
    <2>9. Waiting' = t
        BY <2>8, WaitingNext
    <2>10. dur'.handled = dur.handled /\ dur'.dropped = dur.dropped \union Out
        BY <1>3, <1>5, <1>13, <2>5 DEF NextAts
    <2>11. t = Inbox!Picked(mail, {j \in DOMAIN mail : mail[j] \notin Out})
        <3>1. Inbox!Picked(mail, {j \in DOMAIN mail : mail[j] \notin Out})
                = Picked(mail, {j \in DOMAIN mail : mail[j] \notin Out})
            BY DEF Picked, Inbox!Picked, Cardinality, Inbox!Cardinality, IsFiniteSet, Inbox!IsFiniteSet
        <3> QED
            BY <2>6, <3>1 DEF Untaken
    <2>12. /\ wakes[Waiting[i]] = "cancel" /\ i \in DOMAIN Waiting
           /\ \A j \in 1..(i - 1) : wakes[Waiting[j]] # "cancel"
        BY <1>8, <2>1
    <2>13. before = {j \in 1..(i - 1) : wakes[Waiting[j]] = "prompt"} /\ Out = {Waiting[j] : j \in before \union {i}}
        BY <1>8, <2>2
    <2>14. Waiting' = Inbox!Picked(Waiting, {j \in DOMAIN Waiting : Waiting[j] \notin Out})
        BY <1>8, <2>9, <2>11
    <2>15. UNCHANGED <<wakes, dur.handled, ended>> /\ dur'.dropped = dur.dropped \union Out
        BY <1>3, <2>10
    <2>16. Inbox!StopStep
        BY <2>12, <2>13, <2>14, <2>15 DEF Inbox!StopStep
    <2> QED
        BY <2>16
<1> QED
    BY <1>11, <1>12, <1>13 DEF MInv, Pending

LEMMA FinishEnds ==
    ASSUME IInv, MInv, IInv', Finish
    PROVE  Inbox!End
<1>1. /\ phase = "call" /\ prog.at = "ended" /\ ended' = TRUE /\ box' = {} /\ journal' = <<>>
      /\ UNCHANGED <<wakes, dur>>
    BY DEF Finish, Returned, ghosts
<1>2. ~ended /\ prog = dur
    BY <1>1, LiveIsLast DEF IInv
<1>3. \E i \in DOMAIN dur.handled : wakes[dur.handled[i]] = "close"
    BY <1>1, <1>2 DEF MInv, Closes
<1>4. Holds(<<>>, {})
    BY OneElement DEF Holds, Rising
<1>5. Open' = {}
    BY <1>1 DEF Open
<1>6. Waiting' = <<>>
    BY <1>4, <1>5, WaitingNext
<1> QED
    BY <1>1, <1>2, <1>3, <1>6 DEF Inbox!End

LEMMA InboxInitial ==
    ASSUME Init
    PROVE  Inbox!Init
<1>1. wakes = <<>> /\ box = {} /\ ended = FALSE /\ dur = Fresh /\ IInv
    BY Initial DEF Init
<1>2. Open = {} /\ Holds(<<>>, {})
    BY <1>1, OneElement DEF Open, Holds, Rising
<1>3. Waiting = <<>>
    BY <1>1, <1>2, WaitingHolds, HoldsOnce
<1> QED
    BY <1>1, <1>3 DEF Inbox!Init, Fresh

LEMMA InboxStep ==
    ASSUME IInv, MInv, IInv', [Next]_vars
    PROVE  [Inbox!Next]_(Inbox!vars)
<1>1. ASSUME NEW k \in Kinds, Wake(k) PROVE Inbox!Next
    BY <1>1, WakeAccepts DEF Inbox!Next
<1>2. CASE Write
    BY <1>2, WriteHandles DEF Inbox!Next
<1>3. CASE Finish
    BY <1>3, FinishEnds DEF Inbox!Next
<1>4. CASE Suspend
    <2>1. /\ phase = "call" /\ prog.at = "suspended" /\ dur' = Resumed(prog) /\ journal' = <<>>
          /\ box' = box \ Taken(journal) /\ UNCHANGED <<wakes, ended>>
        BY <1>4 DEF Suspend, Returned
    <2>2. Sound(dur) /\ prog = dur
        BY <2>1, LiveIsLast DEF IInv
    <2>3. dur'.handled = dur.handled /\ dur'.dropped = dur.dropped
        BY <2>1, <2>2, ResumedKeeps
    <2>4. Open' = Open
        BY <2>1, NoneTaken DEF Open
    <2> QED
        BY <2>1, <2>3, <2>4, InboxStays
<1>5. ASSUME UNCHANGED <<wakes, box, journal, ended, dur>> PROVE UNCHANGED Inbox!vars
    <2>1. Open' = Open
        BY <1>5 DEF Open, Taken
    <2> QED
        BY <1>5, <2>1, InboxStays
<1>6. CASE Alarm \/ RunStarts \/ NothingToRun \/ Replay \/ TakeWake \/ Begin \/ Act \/ StepStarts
    <2>1. UNCHANGED <<wakes, box, journal, ended, dur>>
        BY <1>6 DEF Alarm, RunStarts, NothingToRun, Replay, TakeWake, Begin, Act, StepStarts, Writes, storage, ghosts
    <2> QED
        BY <1>5, <2>1
<1>7. CASE InferEnds \/ InferCancelled \/ \E c \in Calls : CallFound(c) \/ CallRuns(c)
    <2>1. UNCHANGED <<wakes, box, journal, ended, dur>>
        BY <1>7 DEF InferEnds, InferCancelled, CallFound, CallRuns, RunsCall, Writes, storage, ghosts
    <2> QED
        BY <1>5, <2>1
<1>8. CASE ToolsCancelled \/ ToolsEnd \/ ToolsUnread \/ RunEnds \/ StorageFails \/ Crash \/ UNCHANGED vars
    <2>1. UNCHANGED <<wakes, box, journal, ended, dur>>
        BY <1>8 DEF ToolsCancelled, ToolsEnd, ToolsUnread, RunEnds, StorageFails, Stop, Crash, Writes, vars, storage, ghosts
    <2> QED
        BY <1>5, <2>1
<1> QED
    BY <1>1, <1>2, <1>3, <1>4, <1>6, <1>7, <1>8 DEF Next

-----------------------------------------------------------------------------
(* The theorems.                                                           *)

\* No tool call runs twice for one reason, through every crash, failed write, replay
\* and suspend, and the record a Tools step finds is of the run it would make
\* (runtime.go Tools, ended, runCall and write).
THEOREM CallsRunOnceAlways == Spec => []CallsRunOnce
<1>1. Init => IInv
    BY Initial
<1>2. IInv /\ [Next]_vars => IInv'
    BY Invariance
<1>3. IInv => CallsRunOnce
    BY Safety
<1> QED
    BY <1>1, <1>2, <1>3, PTL DEF Spec

\* A live session's memory has the wakes its storage has and no run took, oldest
\* first and none twice, from whatever crash or failed write the mailbox was filled
\* again; and one that sleeps has no wake left, unless its storage failed it
\* (object.go Deliver, restore, deliver and sleep; runtime.go TakeWake and write).
THEOREM MailAgreesAlways == Spec => []MailAgrees
<1>1. Init => IInv /\ MInv
    BY Initial, MailInitial
<1>2. (IInv /\ MInv) /\ [Next]_vars => (IInv /\ MInv)'
    BY Invariance, MailInvariance
<1>3. IInv /\ MInv => MailAgrees
    BY MailSafety
<1> QED
    BY <1>1, <1>2, <1>3, PTL DEF Spec

\* A run that goes on after a crash, a failed write or a suspend goes on as if
\* nothing had stopped: it asks for the calls the journal holds, comes to the state
\* the runs before it left, and the events it finds are those of its turn, each
\* once and none lost (runtime.go replay, write, suspend, trimTurns and runCall;
\* stores.go commit).
THEOREM ReplaysAgreeAlways == Spec => []ReplaysAgree
<1>1. Init => IInv /\ MInv /\ LInv
    BY Initial, MailInitial, LogInitial
<1>2. (IInv /\ MInv /\ LInv) /\ [Next]_vars => (IInv /\ MInv /\ LInv)'
    BY Invariance, MailInvariance, LogInvariance
<1>3. IInv /\ MInv /\ LInv => ReplaysAgree
    BY Safety, MailSafety DEF ReplaysAgree, LInv, TurnLog, LogIsTurn
<1> QED
    BY <1>1, <1>2, <1>3, PTL DEF Spec

\* A durable session implements the inbox it promises its callers: each accepted
\* wake is handled once and in the order it was accepted, through every crash,
\* failed write, replay and suspend; only a cancel that stops a step overtakes, with
\* the prompts before it (object.go Wake; runtime.go TakeWake, takeCancel, write,
\* suspend and finish; orchestrator.TakeCancel).
THEOREM InboxKept == Spec => KeepsInbox
<1>1. Init => IInv /\ MInv /\ Inbox!Init
    BY Initial, MailInitial, InboxInitial
<1>2. (IInv /\ MInv) /\ [Next]_vars => (IInv /\ MInv)'
    BY Invariance, MailInvariance
<1>3. (IInv /\ MInv) /\ (IInv /\ MInv)' /\ [Next]_vars => [Inbox!Next]_(Inbox!vars)
    BY InboxStep
<1> QED
    BY <1>1, <1>2, <1>3, PTL DEF Spec, KeepsInbox, Inbox!Spec

===============================================================================
