---------------------------- MODULE ObjectNetwork ----------------------------
(***************************************************************************)
(* A session, the jobs it starts and the jobs those start: one durable     *)
(* object each (session/durableobject), which reach each other only by the *)
(* letters of their outboxes.  A step writes its letters with its own      *)
(* state; each is delivered after, in order, and again when the object     *)
(* stops between the delivery and its delete.                              *)
(*                                                                         *)
(* Every write is one action, so a crash shows only as a letter delivered  *)
(* again: what a run redoes is ObjectJournal's.  A turn is what its jobs   *)
(* need of it: it starts them, waits for one to end, and is over; what it  *)
(* commits, and its questions, are SessionTurn's.  Jobs are numbered as    *)
(* they start, and session 0 is the host's.                                *)
(***************************************************************************)
EXTENDS Picks

CONSTANTS
  MaxJobs,       \* jobs started
  MaxPrompts,    \* prompts to the host's session
  MaxCancels,    \* cancels and closes from the host, to any session
  MaxCloses,
  MaxAgain       \* letters delivered a second time

ASSUME ConstantsOK ==
  /\ MaxJobs \in Nat /\ MaxAgain \in Nat
  /\ MaxPrompts \in Nat /\ MaxCancels \in Nat /\ MaxCloses \in Nat

Objects == 0..MaxJobs
Jobs    == 1..MaxJobs

VARIABLES
  (* of each object: its meta, mailbox, outbox, and what its session keeps *)
  meta,       \* "none", "open", "closing" (a close is queued), "ended" or "closed"
  mail,       \* wakes not yet taken
  out,        \* letters not yet delivered
  turn,       \* "idle", "run", "wait" (blocked on its mailbox for a job), or
              \* "over": a task's only turn ended
  jobs,       \* State.Jobs
  held,       \* State.held has a close
  kids,       \* the kindChild records: jobs whose end it did not take
  (* of the whole *)
  parent,     \* who started each job
  born,       \* jobs started
  prompts, cancels, closes, again,
  (* for properties *)
  runs,       \* how often each job's session started its task
  ends,       \* how often each job's end counted for its parent
  missed      \* objects whose step had just ended when it took a cancel

session == <<turn, jobs, held>>
tree    == <<parent, born>>
host    == <<prompts, cancels, closes>>
seen    == <<runs, ends, missed>>
vars    == <<meta, mail, out, session, kids, tree, host, again, seen>>

W(k, j)      == [kind |-> k, job |-> j]
L(to, k, j)  == [to |-> to, kind |-> k, job |-> j]
Wake         == [kind : {"prompt", "cancel", "close", "job"}, job : Objects]
Letter       == [to : Objects, kind : {"create", "cancel", "close", "job"}, job : Objects]

\* One letter of a kind for each object of a set, in order of their ids.
Letters(S, k) == Picked([c \in Jobs |-> L(c, k, 0)], S)

-----------------------------------------------------------------------------
(* What a request does to an object.                                       *)

Gone(o) == meta[o] \in {"closing", "closed"}

\* Object.Create with a task: its first prompt.  An object that holds a
\* session, or held one, refuses.
Create(o) ==
  /\ meta' = [meta EXCEPT ![o] = IF @ = "none" THEN "open" ELSE @]
  /\ mail' = [mail EXCEPT ![o] = IF meta[o] = "none" THEN <<W("prompt", 0)>> ELSE @]
  /\ UNCHANGED kids

Accept(o, w) ==
  /\ mail' = [mail EXCEPT ![o] = IF meta[o] = "open" THEN Append(@, w) ELSE @]
  /\ UNCHANGED <<meta, kids>>

\* Object.Wake of a close: queued, or the purge of a session that ended.
Close(o) ==
  /\ meta' = [meta EXCEPT ![o] = CASE @ = "open"  -> "closing"
                                   [] @ = "ended" -> "closed"
                                   [] OTHER       -> @]
  /\ mail' = [mail EXCEPT ![o] = IF meta[o] = "open" THEN Append(@, W("close", 0)) ELSE @]
  /\ kids' = [kids EXCEPT ![o] = IF meta[o] = "ended" THEN {} ELSE @]

\* deliver: what a letter asks; an object that is gone, or was there before,
\* counts as done.
Arrive(l) ==
  CASE l.kind = "create" -> Create(l.to)
    [] l.kind = "close"  -> Close(l.to)
    [] OTHER             -> Accept(l.to, W(l.kind, l.job))

Deliver(o) ==
  /\ out[o] # <<>>
  /\ Arrive(Head(out[o]))
  /\ out' = [out EXCEPT ![o] = Tail(@)]
  /\ UNCHANGED <<session, tree, host, again, seen>>

\* The object stops before the letter is deleted.
DeliverAgain(o) ==
  /\ out[o] # <<>> /\ again < MaxAgain
  /\ again' = again + 1
  /\ Arrive(Head(out[o]))
  /\ UNCHANGED <<out, session, tree, host, seen>>

-----------------------------------------------------------------------------
(* A session's steps.                                                       *)

Post(o, ls) == out' = [out EXCEPT ![o] = @ \o ls]

\* Run returned, and finish: the jobs that run are asked to stop, a session
\* that handled its close closes the jobs it has records of, and its parent
\* hears of its end.  A session whose close is still queued deletes
\* everything, too.
Finish(o, handledClose) ==
  /\ Post(o, Letters(jobs[o], "cancel")
             \o (IF handledClose THEN Letters(kids[o], "close") ELSE <<>>)
             \o (IF o = 0 THEN <<>> ELSE <<L(parent[o], "job", o)>>))
  /\ LET all == handledClose \/ meta[o] = "closing"
     IN  /\ meta' = [meta EXCEPT ![o] = IF all THEN "closed" ELSE "ended"]
         /\ kids' = [kids EXCEPT ![o] = IF all THEN {} ELSE @]
  /\ mail' = [mail EXCEPT ![o] = <<>>]
  /\ turn' = [turn EXCEPT ![o] = "idle"] /\ jobs' = [jobs EXCEPT ![o] = {}]
  /\ UNCHANGED held

\* drive returned, with mailbox m left.
TurnOver(o, m, left, ls) ==
  /\ turn' = [turn EXCEPT ![o] = IF o = 0 THEN "idle" ELSE "over"]
  /\ jobs' = [jobs EXCEPT ![o] = left]
  /\ mail' = [mail EXCEPT ![o] = m]
  /\ Post(o, ls)
  /\ UNCHANGED <<meta, kids, held>>

\* Run returns: a task's session with its turn, the host's when its turn held
\* a close.
Over(o) == meta[o] \in {"open", "closing"} /\ (turn[o] = "over" \/ (turn[o] = "idle" /\ held[o]))

Returns(o) ==
  /\ Over(o)
  /\ Finish(o, o = 0)
  /\ UNCHANGED <<tree, host, again, seen>>

Live(o, t) == meta[o] \in {"open", "closing"} /\ turn[o] \in t /\ ~Over(o)

Takes(o, kind) == mail[o] # <<>> /\ Head(mail[o]).kind = kind
Rest(o)        == Tail(mail[o])

\* jobEnded that leaves the job in State.Jobs, and a Next that takes a job's
\* end and keeps its object.
JobEndedStays(o, c) == UNCHANGED jobs
JobEnded(o, c)      == jobs' = [jobs EXCEPT ![o] = @ \ {c}]

TakeJobEndOnly(o) ==
  /\ Live(o, {"idle", "run", "wait"}) /\ Takes(o, "job")
  /\ LET c == Head(mail[o]).job
     IN  /\ JobEnded(o, c)
         /\ ends' = [ends EXCEPT ![c] = @ + (IF c \in jobs[o] THEN 1 ELSE 0)]
         /\ kids' = [kids EXCEPT ![o] = @ \ {c}]
  /\ mail' = [mail EXCEPT ![o] = Rest(o)]
  /\ turn' = [turn EXCEPT ![o] = IF @ = "wait" THEN "run" ELSE @]
  /\ UNCHANGED <<meta, out, held, tree, host, again, runs, missed>>

\* Next takes a job's end: the job's record goes, and a letter closes its
\* object.  A turn that waits looks at its jobs again.
TakeJobEnd(o) ==
  /\ Live(o, {"idle", "run", "wait"}) /\ Takes(o, "job")
  /\ LET c == Head(mail[o]).job
     IN  /\ JobEnded(o, c)
         /\ ends' = [ends EXCEPT ![c] = @ + (IF c \in jobs[o] THEN 1 ELSE 0)]
         /\ kids' = [kids EXCEPT ![o] = @ \ {c}]
         /\ Post(o, <<L(c, "close", 0)>>)
  /\ mail' = [mail EXCEPT ![o] = Rest(o)]
  /\ turn' = [turn EXCEPT ![o] = IF @ = "wait" THEN "run" ELSE @]
  /\ UNCHANGED <<meta, held, tree, host, again, runs, missed>>

\* A prompt starts a turn, or steers the one that runs.
TakePrompt(o) ==
  /\ Live(o, {"idle", "run", "wait"}) /\ Takes(o, "prompt")
  /\ mail' = [mail EXCEPT ![o] = Rest(o)]
  /\ turn' = [turn EXCEPT ![o] = "run"]
  /\ runs' = [runs EXCEPT ![o] = @ + (IF turn[o] = "idle" THEN 1 ELSE 0)]
  /\ UNCHANGED <<meta, out, jobs, held, kids, tree, host, again, ends, missed>>

\* cancelJobs that forgets the jobs and writes no letter.
ForgetJobs(o, m) == TurnOver(o, m, {}, <<>>)

\* A cancel: the jobs are asked to stop and forgotten, and a turn is over.
StopTurn(o, m) == TurnOver(o, m, {}, Letters(jobs[o], "cancel"))

TakeCancel(o) ==
  /\ Live(o, {"idle", "run", "wait"}) /\ Takes(o, "cancel")
  /\ StopTurn(o, Rest(o))
  /\ UNCHANGED <<tree, host, again, seen>>

\* A cancel that comes while a step runs goes first, with the prompts before
\* it.
GoesFirst(o, j) ==
  /\ mail[o][j].kind \in {"cancel", "prompt"}
  /\ \A i \in 1..(j - 1) : mail[o][i].kind # "cancel"
WithoutCancel(o) == Picked(mail[o], {j \in DOMAIN mail[o] : ~GoesFirst(o, j)})

CancelQueued(o) == \E i \in DOMAIN mail[o] : mail[o][i].kind = "cancel"

StepCancelled(o) ==
  /\ Live(o, {"run"}) /\ CancelQueued(o)
  /\ StopTurn(o, WithoutCancel(o))
  /\ UNCHANGED <<tree, host, again, seen>>

\* The step took the cancel when its last call had ended: the turn goes on.
LateCancel(o) ==
  /\ Live(o, {"run"}) /\ CancelQueued(o)
  /\ mail' = [mail EXCEPT ![o] = WithoutCancel(o)]
  /\ missed' = missed \union {o}
  /\ UNCHANGED <<meta, out, session, kids, tree, host, again, runs, ends>>

\* A close waits for the turn, or ends the idle session.
TakeClose(o) ==
  /\ Live(o, {"idle", "run", "wait"}) /\ Takes(o, "close")
  /\ \/ /\ turn[o] # "idle"
        /\ held' = [held EXCEPT ![o] = TRUE]
        /\ mail' = [mail EXCEPT ![o] = Rest(o)]
        /\ UNCHANGED <<meta, out, turn, jobs, kids>>
     \/ turn[o] = "idle" /\ Finish(o, TRUE)
  /\ UNCHANGED <<tree, host, again, seen>>

\* A call starts a job: its record and the letter that creates its object.
Start(o) ==
  /\ Live(o, {"run"}) /\ born < MaxJobs
  /\ born' = born + 1
  /\ parent' = [parent EXCEPT ![born'] = o]
  /\ jobs' = [jobs EXCEPT ![o] = @ \union {born'}]
  /\ kids' = [kids EXCEPT ![o] = @ \union {born'}]
  /\ Post(o, <<L(born', "create", 0)>>)
  /\ UNCHANGED <<meta, mail, turn, held, host, again, seen>>

\* A call cancels a job.
Kill(o) ==
  /\ Live(o, {"run"})
  /\ \E c \in jobs[o] :
       /\ jobs' = [jobs EXCEPT ![o] = @ \ {c}]
       /\ Post(o, <<L(c, "cancel", 0)>>)
  /\ UNCHANGED <<meta, mail, turn, held, kids, tree, host, again, seen>>

\* The turn blocks: a call, or the finished turn, waits for jobs.
WaitForJobs(o) ==
  /\ Live(o, {"run"}) /\ jobs[o] # {}
  /\ turn' = [turn EXCEPT ![o] = "wait"]
  /\ UNCHANGED <<meta, mail, out, jobs, held, kids, tree, host, again, seen>>

\* The turn completes, without jobs; or fails, and its jobs go on.
EndTurn(o) ==
  /\ Live(o, {"run"})
  /\ TurnOver(o, mail[o], jobs[o], <<>>)
  /\ UNCHANGED <<tree, host, again, seen>>

-----------------------------------------------------------------------------
(* The host, which sees the session and its jobs until they are gone.       *)

HostPrompt ==
  /\ prompts < MaxPrompts
  /\ prompts' = prompts + 1
  /\ Accept(0, W("prompt", 0))
  /\ UNCHANGED <<out, session, tree, cancels, closes, again, seen>>

HostCancel(o) ==
  /\ cancels < MaxCancels /\ meta[o] = "open"
  /\ cancels' = cancels + 1
  /\ Accept(o, W("cancel", 0))
  /\ UNCHANGED <<out, session, tree, prompts, closes, again, seen>>

HostClose(o) ==
  /\ closes < MaxCloses /\ meta[o] \in {"open", "ended"}
  /\ closes' = closes + 1
  /\ Close(o)
  /\ UNCHANGED <<out, session, tree, prompts, cancels, again, seen>>

-----------------------------------------------------------------------------
Init ==
  /\ meta = [o \in Objects |-> IF o = 0 THEN "open" ELSE "none"]
  /\ mail = [o \in Objects |-> <<>>] /\ out = [o \in Objects |-> <<>>]
  /\ turn = [o \in Objects |-> "idle"] /\ held = [o \in Objects |-> FALSE]
  /\ jobs = [o \in Objects |-> {}] /\ kids = [o \in Objects |-> {}]
  /\ parent = [o \in Objects |-> 0] /\ born = 0
  /\ prompts = 0 /\ cancels = 0 /\ closes = 0 /\ again = 0
  /\ runs = [o \in Objects |-> 0] /\ ends = [o \in Objects |-> 0] /\ missed = {}

Session(o) ==
  \/ TakeJobEnd(o) \/ TakePrompt(o) \/ TakeCancel(o) \/ TakeClose(o)
  \/ StepCancelled(o) \/ LateCancel(o)
  \/ Start(o) \/ Kill(o) \/ WaitForJobs(o) \/ EndTurn(o) \/ Returns(o)

Next ==
  \/ \E o \in Objects : Session(o) \/ Deliver(o) \/ DeliverAgain(o) \/ HostCancel(o) \/ HostClose(o)
  \/ HostPrompt

\* Some object that has a step to take or a letter to deliver does so
\* (ObjectAlarm says when one may not).  That is enough: what the host sends
\* is bounded, so no object can keep another from its step for ever.
Fairness == WF_vars(\E o \in Objects : Session(o) \/ Deliver(o))

Spec == Init /\ [][Next]_vars /\ Fairness

-----------------------------------------------------------------------------
(* Properties.                                                             *)

OnItsWay(k, c) == \E i \in DOMAIN out[parent[c]] : out[parent[c]][i] = L(c, k, 0)
InMail(k, c)   == \E i \in DOMAIN mail[c] : mail[c][i].kind = k

\* Types; jobs and records are of jobs the object started, and a session that
\* ended has no wakes, no turn and no jobs.
TypeOK ==
  /\ \A o \in Objects :
       /\ mail[o] \in Seq(Wake) /\ out[o] \in Seq(Letter)
       /\ jobs[o] \union kids[o] \subseteq {c \in 1..born : parent[c] = o}
       /\ meta[o] \in {"none", "ended", "closed"} =>
            mail[o] = <<>> /\ turn[o] = "idle" /\ jobs[o] = {}
  /\ meta \in [Objects -> {"none", "open", "closing", "ended", "closed"}]
  /\ turn \in [Objects -> {"idle", "run", "wait", "over"}] /\ held \in [Objects -> BOOLEAN]
  /\ born \in 0..MaxJobs

\* A job's task runs once, however often the letter that starts it is
\* delivered (outbox.go letter, object.go Create).
TaskRunsOnce == \A c \in Jobs : runs[c] <= 1

\* A job's end counts once for its parent, however often it is delivered
\* (turn.go jobEnded).
EndCountsOnce == \A c \in Jobs : ends[c] <= 1

\* A job that its parent no longer tracks does not run on: it ended or is to be
\* closed, or a cancel is on its way to it, unless its step took the cancel
\* too late (turn.go cancelJobs, session.go Run).
NoOrphan ==
  \A c \in Jobs :
    meta[c] = "open" /\ c \notin jobs[parent[c]] /\ c \notin missed =>
      OnItsWay("cancel", c) \/ InMail("cancel", c) \/ Over(c)

\* A job's object is not forgotten: until it is closed, its parent has a
\* record of it or a letter that closes it, unless the parent is itself a job
\* that was closed (runtime.go Start, Next, finish).
Recorded ==
  \A c \in 1..born :
    ~Gone(c) /\ (parent[c] = 0 \/ meta[parent[c]] # "closed") =>
      c \in kids[parent[c]] \/ OnItsWay("close", c)

\* Letters that come again start nothing and end nothing again.
OnceEach == TaskRunsOnce /\ EndCountsOnce

\* A job is stopped, or is known to the object that has to stop it.
JobsTracked == TypeOK /\ NoOrphan /\ Recorded

\* Once a job started, its tree settles: whatever fails, is cancelled or is
\* delivered twice, every job of the host's session ends, its parent takes its
\* end, and its object is closed, if the host closes nothing (runtime.go Next,
\* finish).
JobsClose ==
  (born > 0) ~> (closes > 0 \/ \A c \in Jobs : parent[c] = 0 => meta[c] \in {"none", "closed"})

\* docs/session.md:80, "Close stops and deletes the children, deletes the
\* session's checkpoint, credentials, and saved messages, and ends the
\* session."
CloseEndsAll == (meta[0] = "closing") ~> (\A o \in Objects : meta[o] \in {"none", "closed"})
=============================================================================
