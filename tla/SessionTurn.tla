---------------------------- MODULE SessionTurn ----------------------------
(***************************************************************************)
(* One session's scheduler: session/orchestrator.  Run reads the mailbox   *)
(* one wake at a time (session.go); a turn (turn.go) alternates model      *)
(* requests, the tool calls of one reply (the open round) and Commits,     *)
(* until it parks on a question, completes, fails, or is suspended.        *)
(*                                                                         *)
(* One action is one call of the Runtime interface (Commit, Infer, Tools,  *)
(* Next, Job) with the code up to the next call, so the host and the jobs  *)
(* interleave exactly where the code can notice them.  What the Runtime    *)
(* promises is taken from its comment and from both runtimes: TakeCancel   *)
(* while a step runs, a Commit no cancel stops, a job's end as a wake.     *)
(*                                                                         *)
(* Abstractions.  A prompt is its number, a call is its place in the       *)
(* session's call order, and a call starts at most one job, whose id is    *)
(* the call's (ChildID derives it from the call's key).  Credentials, MCP  *)
(* servers, host state values, traces and texts are left out.              *)
(***************************************************************************)
EXTENDS Naturals, Sequences, Picks

CONSTANTS
  MaxCalls,    \* tool calls the model makes over a session's life
  Sessions     \* the sessions that may run: what each is, and what may happen to it

\* A session's role ("chat", or a "task" or "worker" child); how many tool
\* calls its model makes in all and in one reply; how many wakes of each kind
\* the host sends; what may fail; whether an answer may come when no turn is
\* parked on it, a job's end may come twice, and the runtime restarts a session
\* that waits.
Session ==
  [role : {"chat", "task", "worker"},
   calls : 0..MaxCalls, reply : Nat,
   prompts : Nat, resumes : Nat, cancels : Nat, closes : Nat,
   faults : SUBSET {"commit", "infer", "tool", "start", "long"},
   stale : BOOLEAN, repeat : BOOLEAN, suspend : BOOLEAN]

ASSUME ConstantsOK == MaxCalls \in Nat /\ Sessions \subseteq Session

VARIABLES
  session,     \* what the session is, for life (Identity.Task, Worker), and meets
  mail,        \* the runtime's mailbox: wakes in arrival order
  held,        \* State.held: resumes and closes that wait for the turn's end
  pc,          \* the Runtime call the session is in, or about to make
  inbox,       \* State.Inbox
  round,       \* State.Round: each call's last outcome ("none": not in the round)
  jobs,        \* State.Jobs, by the call that started the job
  finished, yielded, suspended, cancelled, closed,     \* State's flags
  terminal,    \* State.Terminal and Err
  first,       \* the prompt the turn's first Commit writes (0: none)
  ans,         \* the answer of the resume the turn runs (0: none)
  runs,        \* the calls of the running Tools step
  refit,       \* drive's refit: the window was collapsed for this request
  window,      \* what committed, in order
  ncalls,      \* calls the model made so far
  shown,       \* calls whose EventInterrupt the host saw
  live,        \* jobs that run
  background,  \* calls whose job no call waits on (for properties)
  stopping,    \* jobs the runtime was asked to cancel
  reported,    \* jobs whose end was delivered once, and may be again
  sent,        \* how many wakes of each kind the host sent
  overtaken    \* prompts a failed turn left in the inbox, when the next turn
               \* began with a later one (for properties)

flags  == <<terminal, yielded, suspended, cancelled>>
locals == <<first, ans, runs, refit>>
data   == <<inbox, round, finished, window, ncalls, shown>>
job    == <<jobs, live, background, stopping, reported>>
count  == <<sent, overtaken>>
rest   == <<held, closed, count>>
vars   == <<session, mail, pc, flags, locals, data, job, rest>>

Calls   == 1..MaxCalls
W(k, n) == [kind |-> k, n |-> n]
Wake    == [kind : {"prompt", "resume", "job", "cancel", "close"}, n : Nat]
Message == [kind : {"user", "job"}, n : Nat]

NoRound == [c \in Calls |-> "none"]
NoJobs  == [c \in Calls |-> "none"]
Tracked == {c \in Calls : jobs[c] \in {"bg", "wait"}}

\* The window holds whole rounds: a user message, or a reply with one result
\* for each of its calls.
UserRound(m) == [msg |-> m, calls |-> NoRound]
ReplyRound   == [msg |-> W("reply", 0), calls |-> NoRound]

-----------------------------------------------------------------------------
(* The open round: tacklr.Round and the helpers of turn.go that read it.   *)

InRound    == {c \in Calls : round[c] # "none"}
Open       == InRound # {}
Parked     == {c \in Calls : round[c] = "park"}
Complete   == \A c \in InRound : round[c] = "done"
Waits      == \E c \in Calls : round[c] = "wait"
BadAnswer  == ans # 0 /\ ans \notin Parked

\* The calls to run next: nothing while a call is parked and unanswered.
NextRuns ==
  LET new == {c \in Calls : round[c] = "new"}
  IN  IF Parked = {} THEN new
      ELSE IF ans \in Parked THEN new \union {ans} ELSE {}

\* The calls of the round whose waited job ended.
JobRuns == {c \in InRound : jobs[c] = "ended"}

\* The open round as a Commit writes it: a call without its result is
\* cancelled.
CommittedRound ==
  [msg   |-> W("reply", 0),
   calls |-> [c \in Calls |-> IF c \notin InRound THEN "none"
                              ELSE IF round[c] = "done" THEN "result" ELSE "cancelled"]]

\* What a prompt's first Commit writes before the prompt: the open round of a
\* turn that failed.
NothingPast == <<>>
Past        == IF Open THEN <<CommittedRound>> ELSE <<>>

Steer(n)     == inbox' = Append(inbox, W("user", n))

-----------------------------------------------------------------------------
(* Jobs and turn ends.                                                     *)

JobEndedStays(c) ==
  CASE jobs[c] = "bg"   -> inbox' = Append(inbox, W("job", c)) /\ UNCHANGED jobs
    [] jobs[c] = "wait" -> jobs' = [jobs EXCEPT ![c] = "ended"] /\ UNCHANGED inbox
    [] OTHER            -> UNCHANGED <<jobs, inbox>>

JobEndedQuietly(c) ==
  /\ jobs' = [jobs EXCEPT ![c] = IF @ = "wait" THEN "ended" ELSE "none"]
  /\ UNCHANGED inbox

\* A job's end: the waiting call's result, or for a background job an inbox
\* message.  An end of a job the session does not run is dropped.
JobEnded(c) ==
  CASE jobs[c] = "bg"   -> /\ jobs' = [jobs EXCEPT ![c] = "none"]
                           /\ inbox' = Append(inbox, W("job", c))
    [] jobs[c] = "wait" -> /\ jobs' = [jobs EXCEPT ![c] = "ended"]
                           /\ UNCHANGED inbox
    [] OTHER            -> UNCHANGED <<jobs, inbox>>

\* cancelJobs without the Cancel calls: the session forgets jobs that run on.
ForgetJobs ==
  /\ jobs' = NoJobs
  /\ UNCHANGED <<stopping, live, background, reported>>

\* Every job that has not ended is asked to stop, and forgotten.
CancelJobs ==
  /\ jobs' = NoJobs
  /\ stopping' = stopping \union Tracked
  /\ UNCHANGED <<live, background, reported>>

\* drive returns, and a suspend that came in meanwhile stands.
ReturnSuspended(t, y) ==
  /\ terminal' = t /\ yielded' = y
  /\ UNCHANGED suspended
  /\ cancelled' = FALSE /\ first' = 0 /\ ans' = 0 /\ runs' = {} /\ refit' = FALSE
  /\ pc' = IF suspended THEN "suspended" ELSE "idle"

\* drive returns.  A turn that ended or parked has nothing to go on with, so
\* a suspend that came in with the wakes that ended it is dropped.
Return(t, y) ==
  /\ terminal' = t /\ yielded' = y
  /\ suspended' = (suspended /\ t = "none" /\ ~y)
  /\ cancelled' = FALSE /\ first' = 0 /\ ans' = 0 /\ runs' = {} /\ refit' = FALSE
  /\ pc' = IF suspended' THEN "suspended" ELSE "idle"

\* fail(err) for an error other than a cancel: the round, the inbox and the
\* jobs stay.
Fail == Return("failed", FALSE)

\* fail(context.Canceled).
FailCancelled ==
  /\ Return("cancelled", FALSE)
  /\ inbox' = <<>>
  /\ CancelJobs

-----------------------------------------------------------------------------
(* A cancel in the mailbox while a step runs (TakeCancel in carry.go).      *)

FirstCancel == CHOOSE i \in DOMAIN mail :
                 /\ mail[i].kind = "cancel"
                 /\ \A k \in 1..(i - 1) : mail[k].kind # "cancel"

\* The step that runs stops on the first cancel, which is taken with the
\* prompts queued before it: those steered the turn the cancel ends.
TakeCancel ==
  /\ \E i \in DOMAIN mail : mail[i].kind = "cancel"
  /\ mail' = Picked(mail, {i \in DOMAIN mail :
                            i > FirstCancel \/ (i < FirstCancel /\ mail[i].kind # "prompt")})

-----------------------------------------------------------------------------
(* A turn: State.drive.                                                     *)

Goto(p) == pc' = p /\ UNCHANGED flags

\* A Commit that does not save fails the turn.
CommitFails == "commit" \in session.faults /\ Fail /\ UNCHANGED <<window, finished>>

\* The first Commit of a prompt's turn: an open round, its calls without a
\* result cancelled, then the prompt.  The round leaves the state whether or
\* not the Commit saves.
BeginPrompt ==
  /\ pc = "begin" /\ first # 0
  /\ \/ /\ window' = window \o Past \o <<UserRound(W("user", first))>>
        /\ Goto("top") /\ first' = 0
        /\ UNCHANGED <<ans, runs, refit, finished>>
     \/ CommitFails
  /\ round' = NoRound
  /\ UNCHANGED <<mail, inbox, ncalls, shown, job, rest>>

\* A resume's turn begins where the open round stands; one with host state
\* commits that first, which may fail.
BeginResume ==
  /\ pc = "begin" /\ first = 0
  /\ \/ "commit" \in session.faults /\ Fail
     \/ ~Open /\ ans # 0 /\ Fail
     \/ (Open \/ ans = 0) /\ Goto("top") /\ UNCHANGED locals
  /\ UNCHANGED <<mail, data, job, rest>>

CommitRound ==
  /\ pc = "top" /\ Open /\ Complete
  /\ \/ /\ window' = Append(window, CommittedRound)
        /\ round' = NoRound
        /\ UNCHANGED <<pc, flags, locals, finished>>
     \/ CommitFails /\ UNCHANGED round
  /\ UNCHANGED <<mail, inbox, ncalls, shown, job, rest>>

\* The open round goes on, unless the turn answers no parked call.
RefuseAnswer ==
  /\ pc = "top" /\ Open /\ ~Complete /\ BadAnswer
  /\ Fail
  /\ UNCHANGED <<mail, data, job, rest>>

Advance(p, calls) ==
  /\ pc = "top" /\ Open /\ ~Complete /\ ~BadAnswer
  /\ Goto(p)
  /\ runs' = calls /\ ans' = 0
  /\ UNCHANGED <<mail, data, live, background, stopping, reported, first, refit, rest>>

StartCalls == NextRuns # {} /\ Advance("tools", NextRuns) /\ UNCHANGED jobs

\* No call can run, and the job of a call that waits ended: the call takes
\* the job's result, and the session forgets the job.
TakeJobEnds ==
  /\ NextRuns = {} /\ Waits /\ JobRuns # {}
  /\ Advance("tools", JobRuns)
  /\ jobs' = [c \in Calls |-> IF c \in JobRuns THEN "none" ELSE jobs[c]]

WaitForJobs ==
  /\ NextRuns = {} /\ Waits /\ JobRuns = {}
  /\ Advance("wait", {}) /\ UNCHANGED jobs

Park ==
  /\ pc = "top" /\ Open /\ ~Complete /\ ~BadAnswer /\ NextRuns = {} /\ ~Waits
  /\ Return("none", TRUE)
  /\ shown' = shown \union Parked
  /\ UNCHANGED <<mail, inbox, round, finished, window, ncalls, job, rest>>

Poll ==
  /\ pc = "top" /\ ~Open
  /\ Goto("poll")
  /\ UNCHANGED <<mail, locals, data, job, rest>>

-----------------------------------------------------------------------------
(* The Tools step, and State.record of what it returns.                    *)

\* How one call's run ends.  "kill" cancels a job; "badstart" waits on a job
\* the runtime could not start; "err" is the step's failure, not the tool's.
Outcome == {"done", "park", "wait", "bg", "kill", "err", "badstart", "cancelled"}

CanEnd(c, o) ==
  /\ o = "err" => "tool" \in session.faults
  /\ round[c] = "wait" => o \in {"done", "cancelled", "err"}
  /\ o = "badstart" => "start" \in session.faults
  /\ o \in {"wait", "bg"} => c \notin live \union reported

\* The parks that do not find another call of the round parked: Round.Parked
\* is read while the calls are recorded one by one, in call order.
Unblocked(out) ==
  {c \in runs : out[c] = "park" /\
     \A d \in Parked : d = c \/ (d < c /\ out[d] \notin {"err", "cancelled"})}

\* Every park of the reply is kept, and the host answers them in any order.
EveryPark(out) == {c \in runs : out[c] = "park"}

\* A turn keeps one park, the first.
Kept(out) == {c \in Unblocked(out) : \A d \in Unblocked(out) : c <= d}

Recorded(out) ==
  [c \in Calls |->
     IF c \notin runs \/ out[c] \in {"err", "cancelled"} THEN round[c]
     ELSE CASE out[c] \in {"wait", "badstart"} -> "wait"
            [] out[c] = "park" -> IF c \in Kept(out) THEN "park" ELSE "new"
            [] OTHER -> "done"]

\* startJobs: jobs a run cancelled leave the session, jobs it started join it.
Started(out) == {c \in runs : out[c] \in {"wait", "bg"}}

Runs(out) ==
  /\ live' = live \union Started(out)
  /\ background' = background \union {c \in runs : out[c] = "bg"}

StartJobs(out, killed) ==
  /\ jobs' = [c \in Calls |-> IF c \in Started(out) THEN out[c]
                              ELSE IF c \in killed THEN "none" ELSE jobs[c]]
  /\ Runs(out)
  /\ stopping' = stopping \union killed

\* How the calls of a step end, and the job one of them cancels, if any.
RunsEnd(outcomes, out, killed) ==
  /\ out \in [runs -> outcomes]
  /\ \A c \in runs : CanEnd(c, out[c])
  /\ killed \in {{c} : c \in {d \in Calls : jobs[d] # "none"}} \union {{}}
  /\ killed # {} <=> \E c \in runs : out[c] = "kill"

\* Every call is recorded before a failed one fails the turn.
Tools ==
  /\ pc = "tools"
  /\ \E out \in [runs -> Outcome \ {"cancelled"}], killed \in SUBSET Calls :
       /\ RunsEnd(Outcome, out, killed)
       /\ round' = Recorded(out)
       /\ StartJobs(out, killed)
       /\ IF \E c \in runs : out[c] \in {"err", "badstart"}
            THEN Fail
            ELSE Goto("top") /\ runs' = {} /\ UNCHANGED <<first, ans, refit>>
  /\ UNCHANGED <<mail, inbox, finished, window, ncalls, shown, reported, rest>>

\* A queued cancel stops the calls still running; each reports it, so the
\* turn fails on the cancel.  The jobs the others started are stopped too.
ToolsCancelled ==
  /\ pc = "tools"
  /\ TakeCancel
  /\ \E out \in [runs -> Outcome], killed \in SUBSET Calls :
       /\ RunsEnd(Outcome, out, killed)
       /\ \E c \in runs : out[c] = "cancelled"
       /\ round' = Recorded(out)
       /\ Runs(out)
       /\ stopping' = stopping \union Tracked \union Started(out) \union killed
  /\ Return("cancelled", FALSE)
  /\ inbox' = <<>> /\ jobs' = NoJobs
  /\ UNCHANGED <<finished, window, ncalls, shown, reported, rest>>

-----------------------------------------------------------------------------
(* Reading the mailbox while the turn runs: pump and stopped.              *)

\* A wake while the turn runs (runner.handle): a prompt steers it, a resume
\* or a close waits for its end, a cancel stops it once the mailbox is read.
HandleRunning(w) ==
  /\ cancelled' = (cancelled \/ w.kind = "cancel")
  /\ held' = IF w.kind \in {"resume", "close"} THEN Append(held, w) ELSE held
  /\ CASE w.kind = "job"    -> JobEnded(w.n)
       [] w.kind = "prompt" -> Steer(w.n) /\ UNCHANGED jobs
       [] OTHER             -> UNCHANGED <<inbox, jobs>>

PumpWake ==
  /\ pc \in {"poll", "wait", "drain"} /\ mail # <<>>
  /\ mail' = Tail(mail)
  /\ HandleRunning(Head(mail))
  /\ pc' = IF pc = "wait" THEN "drain" ELSE pc
  /\ UNCHANGED <<terminal, yielded, suspended, locals, round, finished, window, ncalls, shown,
                 live, background, stopping, reported, closed, count>>

\* Next with block on an empty mailbox may suspend a turn that waits.
PumpSuspend ==
  /\ pc = "wait" /\ mail = <<>> /\ session.suspend
  /\ suspended' = TRUE /\ pc' = "drain"
  /\ UNCHANGED <<mail, terminal, yielded, cancelled, locals, data, job, rest>>

\* The mailbox is read: a cancel fails the turn, a suspend leaves it.
PumpDone ==
  /\ pc \in {"poll", "drain"} /\ mail = <<>>
  /\ \/ cancelled /\ FailCancelled
     \/ ~cancelled /\ suspended /\ Return(terminal, yielded) /\ UNCHANGED <<inbox, job>>
     \/ /\ ~cancelled /\ ~suspended
        /\ Goto(IF pc = "poll" THEN "inbox" ELSE "top")
        /\ UNCHANGED <<locals, inbox, job>>
  /\ UNCHANGED <<mail, round, finished, window, ncalls, shown, rest>>

-----------------------------------------------------------------------------
(* The inbox, the turn's end, and the Infer step.                          *)

UserRounds(ms) == [i \in DOMAIN ms |-> UserRound(ms[i])]

\* CommitInbox of the inbox's first message only.
CommitInboxHead ==
  /\ pc = "inbox" /\ inbox # <<>>
  /\ inbox' = <<>>
  /\ window' = Append(window, UserRound(Head(inbox)))
  /\ finished' = FALSE
  /\ Goto("infer")
  /\ UNCHANGED <<mail, locals, round, ncalls, shown, job, rest>>

\* The inbox commits as user messages after the window, and the model has
\* something new to answer.
CommitInbox ==
  /\ pc = "inbox" /\ inbox # <<>>
  /\ inbox' = <<>>
  /\ \/ /\ window' = window \o UserRounds(inbox)
        /\ finished' = FALSE
        /\ Goto("infer") /\ UNCHANGED locals
     \/ CommitFails
  /\ UNCHANGED <<mail, round, ncalls, shown, job, rest>>

CompleteTurn ==
  /\ pc = "inbox" /\ inbox = <<>> /\ finished /\ jobs = NoJobs
  /\ Return("complete", FALSE)
  /\ UNCHANGED <<mail, data, job, rest>>

\* The model is done and jobs run on, or the model has to go on.
ContinueTurn ==
  /\ pc = "inbox" /\ inbox = <<>>
  /\ ~(finished /\ jobs = NoJobs)
  /\ Goto(IF finished THEN "wait" ELSE "infer")
  /\ UNCHANGED <<mail, locals, data, job, rest>>

\* The model asks for k calls: the open round.
ReplyCalls ==
  /\ pc = "infer"
  /\ \E k \in 1..session.reply :
       /\ ncalls + k <= session.calls
       /\ round' = [c \in Calls |-> IF c \in (ncalls + 1)..(ncalls + k) THEN "new" ELSE "none"]
       /\ ncalls' = ncalls + k
  /\ Goto("top") /\ refit' = FALSE
  /\ UNCHANGED <<mail, inbox, finished, window, shown, first, ans, runs, job, rest>>

\* A reply without calls commits at once, and the model is done.
ReplyDone ==
  /\ pc = "infer"
  /\ \/ /\ window' = Append(window, ReplyRound)
        /\ finished' = TRUE
        /\ Goto("top") /\ refit' = FALSE
        /\ UNCHANGED <<first, ans, runs>>
     \/ CommitFails
  /\ UNCHANGED <<mail, inbox, round, ncalls, shown, job, rest>>

\* The provider refuses the window as too long: it collapses (a Commit) and
\* the model is asked again, once.
TooLong ==
  /\ pc = "infer" /\ "long" \in session.faults
  /\ \/ ~refit /\ Goto("top") /\ refit' = TRUE /\ UNCHANGED <<first, ans, runs>>
     \/ (refit \/ "commit" \in session.faults) /\ Fail
  /\ UNCHANGED <<mail, data, job, rest>>

InferFails ==
  /\ pc = "infer" /\ "infer" \in session.faults
  /\ Fail
  /\ UNCHANGED <<mail, data, job, rest>>

InferCancelled ==
  /\ pc = "infer"
  /\ TakeCancel
  /\ FailCancelled
  /\ UNCHANGED <<round, finished, window, ncalls, shown, rest>>

-----------------------------------------------------------------------------
(* Wakes while no turn runs: runner.next and runner.handle.                *)

\* A task or worker session ends with its turn, once that is not parked.
TaskDone == session.role # "chat" /\ terminal # "none" /\ ~yielded

\* A wake the last turn left for its end comes before the mailbox's.
NeverHeld == FALSE
FromHeld  == held # <<>>

NextWake == IF FromHeld THEN Head(held) ELSE Head(mail)

Idle == pc = "idle" /\ ~closed /\ ~TaskDone

TakeNext(kind) ==
  /\ Idle
  /\ FromHeld \/ mail # <<>>
  /\ NextWake.kind = kind
  /\ IF FromHeld THEN held' = Tail(held) /\ UNCHANGED mail
                 ELSE mail' = Tail(mail) /\ UNCHANGED held

IdleJob ==
  /\ TakeNext("job")
  /\ JobEnded(NextWake.n)
  /\ UNCHANGED <<pc, flags, locals, round, finished, window, ncalls, shown,
                 live, background, stopping, reported, closed, count>>

\* An idle cancel stops the jobs; a parked turn it fails too.
IdleCancel ==
  /\ TakeNext("cancel")
  /\ CancelJobs
  /\ inbox' = <<>>
  /\ yielded' = FALSE
  /\ terminal' = IF yielded THEN "cancelled" ELSE terminal
  /\ UNCHANGED <<pc, suspended, cancelled, locals, round, finished, window, ncalls, shown,
                 closed, count>>

\* A prompt to a parked turn waits in its inbox.
SteerParked ==
  /\ TakeNext("prompt") /\ yielded
  /\ Steer(NextWake.n)
  /\ UNCHANGED <<pc, flags, locals, round, finished, window, ncalls, shown, job, closed, count>>

\* State.start: what a prompt or a resume resets.
StartTurn ==
  /\ pc' = "begin"
  /\ terminal' = "none" /\ yielded' = FALSE /\ finished' = FALSE /\ cancelled' = FALSE
  /\ UNCHANGED <<suspended, runs, refit, inbox, round, window, ncalls, shown, job, closed, sent>>

IdlePrompt ==
  /\ TakeNext("prompt") /\ ~yielded /\ session.role # "worker"
  /\ first' = NextWake.n /\ UNCHANGED ans
  /\ overtaken' = overtaken \union {n \in 1..sent.prompt : \E i \in DOMAIN inbox : inbox[i] = W("user", n)}
  /\ StartTurn

WorkerPrompt ==
  /\ TakeNext("prompt") /\ ~yielded /\ session.role = "worker"
  /\ pc' = "work"
  /\ UNCHANGED <<flags, locals, data, job, closed, count>>

\* The worker's body runs as one Job step; a cancel stops it.
Work ==
  /\ pc = "work"
  /\ \/ terminal' \in {"complete", "failed"} /\ UNCHANGED mail
     \/ terminal' = "cancelled" /\ TakeCancel
  /\ pc' = "idle"
  /\ UNCHANGED <<yielded, suspended, cancelled, locals, data, job, rest>>

IdleResume ==
  /\ TakeNext("resume")
  /\ ans' = NextWake.n /\ UNCHANGED <<first, overtaken>>
  /\ StartTurn

IdleClose ==
  /\ TakeNext("close")
  /\ yielded' = FALSE /\ closed' = TRUE
  /\ UNCHANGED <<pc, terminal, suspended, cancelled, locals, data, job, count>>

\* Next with block on an empty mailbox may suspend the idle session.
IdleSuspend ==
  /\ Idle /\ held \o mail = <<>> /\ session.suspend
  /\ pc' = "suspended"
  /\ UNCHANGED <<mail, flags, locals, data, job, rest>>

\* The runtime starts Run again from the Carry, which keeps all of the State
\* but the error and the cancelled flag.
Restart ==
  /\ pc = "suspended"
  /\ pc' = IF suspended THEN "begin" ELSE "idle"
  /\ suspended' = FALSE /\ cancelled' = FALSE
  /\ terminal' = IF terminal = "cancelled" THEN "failed" ELSE terminal
  /\ UNCHANGED <<mail, yielded, locals, data, job, rest>>

\* Run returns, and stops the jobs that still run.
End ==
  /\ pc = "idle" /\ (closed \/ TaskDone)
  /\ pc' = "ended"
  /\ stopping' = stopping \union Tracked
  /\ UNCHANGED <<mail, flags, locals, data, jobs, live, background, reported, rest>>

-----------------------------------------------------------------------------
(* The host and the jobs, which put wakes in the mailbox.                  *)

\* before is how many prompts the host had sent when it last sent a cancel;
\* only a property reads it.
Send(kind, n, bound) ==
  /\ pc # "ended" /\ sent[kind] < bound
  /\ mail' = Append(mail, W(kind, n))
  /\ sent' = [sent EXCEPT ![kind] = @ + 1,
                          !.before = IF kind = "cancel" THEN sent.prompt ELSE @]
  /\ UNCHANGED <<pc, flags, locals, data, job, held, closed, overtaken>>

Queued(kind) == \E i \in DOMAIN (held \o mail) : (held \o mail)[i].kind = kind

SendPrompt == Send("prompt", sent.prompt + 1, session.prompts)
SendCancel == Send("cancel", 0, session.cancels)
SendClose  == Send("close", 0, session.closes)

\* The host answers a question it saw; unless session.stale, only one the turn is
\* parked on, once.
SendResume ==
  \E c \in shown :
    /\ session.stale \/ (yielded /\ c \in Parked /\ ~Queued("resume"))
    /\ Send("resume", c, session.resumes)

JobEnds(c) ==
  /\ c \in live
  /\ live' = live \ {c} /\ reported' = reported \union {c}
  /\ mail' = IF pc = "ended" THEN mail ELSE Append(mail, W("job", c))
  /\ UNCHANGED <<pc, flags, locals, data, jobs, background, stopping, rest>>

JobEndsAgain(c) ==
  /\ session.repeat /\ c \in reported /\ pc # "ended"
  /\ reported' = reported \ {c}
  /\ mail' = Append(mail, W("job", c))
  /\ UNCHANGED <<pc, flags, locals, data, jobs, live, background, stopping, rest>>

-----------------------------------------------------------------------------
Init ==
  /\ session \in Sessions
  /\ mail = IF session.role = "chat" THEN <<>> ELSE <<W("prompt", 1)>>
  /\ sent = [prompt |-> Len(mail), resume |-> 0, cancel |-> 0, close |-> 0, before |-> 0]
  /\ overtaken = {}
  /\ held = <<>> /\ inbox = <<>> /\ window = <<>>
  /\ pc = "idle" /\ terminal = "none"
  /\ finished = FALSE /\ yielded = FALSE /\ suspended = FALSE /\ cancelled = FALSE
  /\ closed = FALSE
  /\ round = NoRound /\ jobs = NoJobs
  /\ first = 0 /\ ans = 0 /\ runs = {} /\ refit = FALSE /\ ncalls = 0
  /\ shown = {} /\ live = {} /\ background = {} /\ stopping = {} /\ reported = {}

Turn ==
  \/ BeginPrompt \/ BeginResume \/ CommitRound \/ RefuseAnswer
  \/ StartCalls \/ TakeJobEnds \/ WaitForJobs \/ Park \/ Poll
  \/ Tools \/ ToolsCancelled
  \/ PumpWake \/ PumpSuspend \/ PumpDone
  \/ CommitInbox \/ CompleteTurn \/ ContinueTurn
  \/ ReplyCalls \/ ReplyDone \/ TooLong \/ InferFails \/ InferCancelled

Run ==
  \/ Turn
  \/ IdleJob \/ IdleCancel \/ SteerParked \/ IdlePrompt \/ WorkerPrompt \/ Work
  \/ IdleResume \/ IdleClose \/ IdleSuspend \/ Restart \/ End

Host == SendPrompt \/ SendResume \/ SendCancel \/ SendClose

Next ==
  /\ Run \/ Host \/ \E c \in Calls : JobEnds(c) \/ JobEndsAgain(c)
  /\ UNCHANGED session

\* The runtime runs a session that has a step to take, and a job ends.
Fairness ==
  /\ WF_vars(Run /\ UNCHANGED session)
  /\ \A c \in Calls : WF_vars(JobEnds(c) /\ UNCHANGED session)

Spec == Init /\ [][Next]_vars /\ Fairness

-----------------------------------------------------------------------------
(* What must hold.                                                         *)

\* Every variable keeps its type: the State's fields, the mailbox and the
\* window.
TypeOK ==
  /\ session \in Session
  /\ mail \in Seq(Wake) /\ held \in Seq(Wake) /\ inbox \in Seq(Message)
  /\ pc \in {"idle", "begin", "top", "tools", "wait", "drain", "poll", "inbox", "infer",
             "work", "suspended", "ended"}
  /\ round \in [Calls -> {"none", "new", "done", "park", "wait"}]
  /\ jobs \in [Calls -> {"none", "bg", "wait", "ended"}]
  /\ finished \in BOOLEAN /\ yielded \in BOOLEAN /\ suspended \in BOOLEAN
  /\ cancelled \in BOOLEAN /\ closed \in BOOLEAN /\ refit \in BOOLEAN
  /\ terminal \in {"none", "complete", "failed", "cancelled"}
  /\ first \in Nat /\ ans \in Nat /\ ncalls \in 0..MaxCalls
  /\ runs \subseteq Calls /\ shown \subseteq Calls
  /\ live \subseteq Calls /\ background \subseteq Calls /\ stopping \subseteq Calls /\ reported \subseteq Calls
  /\ window \in Seq([msg   : Message \union {W("reply", 0)},
                     calls : [Calls -> {"none", "result", "cancelled"}]])
  /\ sent \in [{"prompt", "resume", "cancel", "close", "before"} -> Nat]
  /\ overtaken \subseteq Nat

\* A turn parks on one interrupt at a time, however many calls of a reply ask
\* one in the same step (State.record): Park reads the one parked call.
OneQuestion == \A c, d \in Parked : c = d

\* A parked session has the question its host was shown, and nothing of its
\* round still waits on a job: drive indexes the parked call without a check,
\* so a park without one would panic.
ParkHasQuestion ==
  yielded => /\ Parked # {} /\ Parked \subseteq shown
             /\ ~Waits /\ terminal = "none" /\ ~closed

\* What the run checks and the proof proves of a park: one question, the
\* one its host was shown.
ParksOnQuestion == OneQuestion /\ ParkHasQuestion

\* A job that runs and was not told to stop is in State.Jobs, so a cancel, a
\* close or the session's end can stop it: no child outlives its session.
NoOrphanJob == live \ stopping \subseteq Tracked

\* A turn that blocks on its mailbox has a job that runs and that it waits
\* on: the wake that ends the wait will come.  (A waiting call needs its own
\* job; a finished turn waits for any.)
WaitIsFed ==
  pc = "wait" /\ mail = <<>> =>
    IF Open THEN \E c \in live : jobs[c] = "wait" /\ round[c] = "wait"
            ELSE Tracked \intersect live # {}

\* A turn that completes answered everything: the window ends with a reply
\* without calls, and no message, call or job is left over.
CompleteAnswered ==
  terminal = "complete" /\ session.role # "worker" =>
    /\ window # <<>> /\ window[Len(window)] = ReplyRound
    /\ ~Open /\ inbox = <<>> /\ jobs = NoJobs

\* Each call the model made has one place: the open round, or one committed
\* round.  A provider refuses a window whose call has no result, or two.
OneResultPerCall ==
  "commit" \notin session.faults => \A c \in 1..ncalls :
    LET places == {i \in DOMAIN window : window[i].calls[c] # "none"}
    IN  IF round[c] # "none" THEN places = {} ELSE \E i \in places : places = {i}

\* The places of a message: Delivered of it once, or not at all.
Delivered(m) ==
  {<<"inbox", i>> : i \in {j \in DOMAIN inbox : inbox[j] = m}}
    \union {<<"window", i>> : i \in {j \in DOMAIN window : window[j].msg = m}}

AtMostOnce(m) == \A p, q \in Delivered(m) : p = q
Once(m)       == Delivered(m) # {} /\ AtMostOnce(m)

\* A job's end reaches the model at most once, as its call's result or as a
\* message, however often the runtime delivers the wake.
JobOnce ==
  \A c \in Calls :
    /\ AtMostOnce(W("job", c))
    /\ jobs[c] \in {"wait", "ended"} \/ round[c] = "wait" => Delivered(W("job", c)) = {}

\* A job that ended is not forgotten: its wake is queued, its call has or
\* will take its result, or its message is in the inbox or the window.  Only
\* a cancel or a stop drops it.
JobReachesModel ==
  sent.cancel = 0 => \A c \in reported \ stopping :
    \/ \E i \in DOMAIN mail : mail[i] = W("job", c)
    \/ c \in background /\ Once(W("job", c))
    \/ c \notin background /\ (jobs[c] = "ended" \/ c \in runs \/ round[c] = "done")
    \/ c \notin background /\ \E i \in DOMAIN window : window[i].calls[c] = "result"

\* The prompts the window holds are in the order they were sent, though one
\* may start a turn, another steer it and a third wait while it is parked:
\* all but those that a failed turn left behind, which come after the prompt
\* of the next.
PromptsInOrder ==
  \A i, j \in DOMAIN window :
    i < j /\ window[i].msg.kind = "user" /\ window[j].msg.kind = "user"
      => window[i].msg.n < window[j].msg.n
           \/ (window[j].msg.n \in overtaken /\ window[j].msg.n # window[i].msg.n)

Held(n) ==
  \/ first = n
  \/ \E i \in DOMAIN mail : mail[i] = W("prompt", n)
  \/ Once(W("user", n))

\* Without a cancel, no prompt is lost: it is queued, or in the inbox or the
\* window, exactly once.
PromptsKept == sent.cancel = 0 /\ session.role # "worker" => \A n \in 1..sent.prompt : Held(n)

\* Only the model fails: steps run, and what commits is saved.
Reliable == session.faults \subseteq {"infer", "long"}

\* Both: the host's prompts arrive, in order, and unless a Commit or a step
\* fails, once each.
PromptsArrive == (Reliable => PromptsKept) /\ PromptsInOrder

\* The host also answers only what it is asked.
Quiet == Reliable /\ ~session.stale

\* What a turn waits on comes, what it took reaches the model once, and what
\* completes left nothing over, however often the ends of jobs are delivered.
Answered ==
  /\ Reliable => JobOnce /\ JobReachesModel /\ CompleteAnswered
  /\ Quiet => WaitIsFed

\* Whatever fails, no job escapes the session or reaches the model twice, the
\* prompts stay in order, and a turn that completes left nothing over.
FaultsContained == TypeOK /\ NoOrphanJob /\ JobOnce /\ CompleteAnswered /\ PromptsInOrder

\* PromptsInOrder without its exception: the model sees the prompts in the order
\* they were sent in.
PromptsAlwaysInOrder ==
  \A i, j \in DOMAIN window :
    i < j /\ window[i].msg.kind = "user" /\ window[j].msg.kind = "user"
      => window[i].msg.n < window[j].msg.n

\* A cancel drops what was queued before it.  A prompt sent after the last
\* cancel is for the session that stays open: docs/session.md, "The session
\* stays open for the next prompt".
PromptAfterCancelKept == \A n \in (sent.before + 1)..sent.prompt : Held(n)

Running == pc \notin {"idle", "ended"} /\ ~(pc = "suspended" /\ ~suspended)

\* A turn ends, or parks on a question (docs/concepts.md: "A turn ends with
\* EventComplete or EventError"), if its jobs end and only the model fails.
TurnEnds == (Quiet /\ Running) ~> ~Running

\* What the host sees of the session: State.Status, and the question its turn
\* is parked on.
HostState ==
  IF closed \/ pc = "ended" THEN "closed"
  ELSE IF yielded THEN "parked" ELSE IF Running THEN "running" ELSE "idle"
HostQuestion == IF yielded THEN Parked ELSE {}
HostResult   == IF terminal = "cancelled" THEN "failed" ELSE terminal

Contract == INSTANCE SessionContract WITH
  state <- HostState, question <- HostQuestion, result <- HostResult

\* The session keeps what its Client promises: one turn at a time, one
\* question while it is parked, an end or an abort for each, and a suspend that
\* nobody sees.
KeepsContract == Contract!CSpec

\* A close ends the session, whatever runs when it comes.
CloseEnds == (Quiet /\ sent.close > 0) ~> (pc = "ended")

\* Both: a turn's and a session's end are never out of reach.
SessionEnds == TurnEnds /\ CloseEnds

=============================================================================
