---------------------------- MODULE TemporalSession ----------------------------
(***************************************************************************)
(* Sessions on Temporal: the workflow that runs a session's scheduler      *)
(* (session/temporal/worker/workflow.go, child.go), one job of it as a     *)
(* child session, the workers their steps run on, and the host's client    *)
(* (session/temporal/client.go).                                           *)
(*                                                                         *)
(* A workflow sees two channels, host wakes and ends of jobs, and moves    *)
(* both into its queue; SessionTurn says what it does with a wake, and     *)
(* here a turn is only as much of that as makes it call its runtime: a     *)
(* Commit, a model request, the calls of a reply, a job, a question.       *)
(*                                                                         *)
(* A step is queued on a worker, runs there, and ends, or its worker dies  *)
(* under it.  A workflow decides on any worker that lives.                 *)
(***************************************************************************)
EXTENDS Naturals, FiniteSets, Sequences, TLC

CONSTANTS
  Root, Job, None,
  Workers,
  MaxTools,      \* calls in a reply
  Limit,         \* MaxToolCalls
  MaxAttempts,   \* ActivityAttempts
  MaxReplies,    \* replies with calls, of all sessions
  MaxWakes,      \* prompts, answers, cancels and closes the host sends
  Kinds,         \* which of them
  MaxRestarts,   \* restarts of a workflow as a new run
  MaxFaults      \* workers that die, and steps that fail

Sessions == {Root, Job}
Slots    == 1..MaxTools

ASSUME ConstantsOK ==
  /\ Root # Job /\ None \notin Sessions \cup Workers
  /\ MaxTools \in Nat \ {0} /\ Limit \in Nat \ {0} /\ MaxAttempts \in Nat \ {0}
  /\ MaxReplies \in Nat /\ MaxWakes \in Nat /\ MaxRestarts \in Nat /\ MaxFaults \in Nat
  /\ Kinds \subseteq {"prompt", "resume", "cancel", "close"}

VARIABLES
  pc,        \* per session: what its workflow waits in; "none" before, "ended" after it
  wakeCh, childDoneCh,   \* signals delivered and not received
  queue,     \* workflowRuntime.queue
  held,      \* State.held
  inbox,     \* State.Inbox: the prompts in it
  turn,      \* "none", "runs" or "parked"
  then,      \* what the turn does after its Commit: "poll" or "infer"
  finished,  \* State.Finished
  cancelled, \* State.cancelled
  jobs,      \* the job in State.Jobs: "no", "bg", "wait" (on a call) or "ended"
  asked,     \* the workflow was asked to cancel: w.ctx is done
  route,     \* workflowRuntime.taskQueue, None until a worker answered
  act,       \* the activities of the step
  up,        \* workers that live
  took,      \* prompts a turn or its inbox took, in order
  dropped,   \* pairs: a prompt and the cancel that took it
  record,    \* the Store has the session's record
  closing,   \* the client's Close: "no", "marked", "sent", "done"
  ended,     \* ends of the job its parent was told
  sent,      \* the wakes the host sent
  replies, restarts, faults

mail == <<wakeCh, childDoneCh, queue>>
flow == <<held, inbox, turn, then, finished, cancelled>>
kid  == <<jobs, asked, ended>>
past == <<took, dropped>>
host == <<record, closing, sent>>
vars == <<pc, mail, flow, kid, route, act, up, past, host, replies, restarts, faults>>

W(k, n) == [kind |-> k, n |-> n]
JobEnd  == W("job", 0)

\* at is the queue an activity waits in (None: the shared one), on its worker.
NoAct  == [st |-> "off", at |-> None, on |-> None, tries |-> 0]
NoActs == [i \in Slots |-> NoAct]

Runs(x)  == pc[x] \notin {"none", "ended"}
\* Some worker polls the shared queue.
Decides  == up # {}

-----------------------------------------------------------------------------
(* The mailbox.                                                            *)

\* Mutant of Filled: what just arrived goes before what waits.
FilledNewest(x) == wakeCh[x] \o queue[x] \o childDoneCh[x]

\* fill: host wakes first, then the ends of jobs.
Filled(x) == queue[x] \o wakeCh[x] \o childDoneCh[x]

Fill(x) ==
  /\ queue' = [queue EXCEPT ![x] = Filled(x)]
  /\ wakeCh' = [wakeCh EXCEPT ![x] = <<>>]
  /\ childDoneCh' = [childDoneCh EXCEPT ![x] = <<>>]

\* orchestrator.TakeCancel: the first cancel, with the prompts before it.
Cancels(q) == {i \in DOMAIN q : q[i].kind = "cancel"}
First(q)   == CHOOSE i \in Cancels(q) : \A j \in Cancels(q) : i <= j

\* Mutant of Before: the cancel stops every prompt that waits.
BeforeAndAfter(q) == {j \in DOMAIN q : q[j].kind = "prompt"}

\* What the first cancel stops.
Before(q) == {j \in 1..(First(q) - 1) : q[j].kind = "prompt"}

\* Mutant of Kept: with the cancel go all prompts, and only those before it are stopped.
KeptOthers(q) == SelectSeq(q, LAMBDA w : w.kind \notin {"prompt", "cancel"})

Kept(q)    == SelectSeq(q, LAMBDA w : w \notin {q[j] : j \in Before(q) \cup {First(q)}})
Stopped(q) == {<<q[j].n, q[First(q)].n>> : j \in Before(q)}

\* Host wakes and ends of jobs are received while a step or Next waits.
Receive(x) ==
  /\ pc[x] \in {"infer", "tools", "idle", "pump"} /\ Decides
  /\ Cancels(queue[x]) = {} \/ pc[x] \in {"idle", "pump"}
  /\ \/ /\ wakeCh[x] # <<>>
        /\ queue' = [queue EXCEPT ![x] = Append(@, Head(wakeCh[x]))]
        /\ wakeCh' = [wakeCh EXCEPT ![x] = Tail(@)]
        /\ UNCHANGED childDoneCh
     \/ /\ childDoneCh[x] # <<>>
        /\ queue' = [queue EXCEPT ![x] = Append(@, Head(childDoneCh[x]))]
        /\ childDoneCh' = [childDoneCh EXCEPT ![x] = Tail(@)]
        /\ UNCHANGED wakeCh
  /\ UNCHANGED <<pc, flow, kid, route, act, up, past, host, replies, restarts, faults>>

-----------------------------------------------------------------------------
(* Steps.                                                                  *)

\* route, when there is none: the worker that runs this workflow task.
Routes(x) == IF route[x] # None THEN {route[x]} ELSE up

\* A step of n activities, as many at once as the limit allows.
Queued(at) == [NoAct EXCEPT !.st = "queued", !.at = at]

Schedule(x, p, n) ==
  /\ Decides
  /\   \E r \in Routes(x) :
    /\ route' = [route EXCEPT ![x] = r]
    /\ act' = [act EXCEPT ![x] = [i \in Slots |-> IF i > n THEN NoAct
                 ELSE IF i <= Limit THEN Queued(r) ELSE [NoAct EXCEPT !.st = "later"]]]
    /\ pc' = [pc EXCEPT ![x] = p]

\* Emit and Forget go to the shared queue.
Shared(x, p) ==
  /\ act' = [act EXCEPT ![x] = [NoActs EXCEPT ![1] = Queued(None)]]
  /\ pc' = [pc EXCEPT ![x] = p]
  /\ UNCHANGED route

ActStarts(x, i) ==
  LET a == act[x][i] IN
  /\ a.st = "queued"
  /\ \E w \in IF a.at = None THEN up ELSE up \cap {a.at} :
       act' = [act EXCEPT ![x][i] = [a EXCEPT !.st = "runs", !.on = w, !.tries = @ + 1]]
  /\ UNCHANGED <<pc, mail, flow, kid, route, up, past, host, replies, restarts, faults>>

ActEnds(x, i) ==
  LET a == act[x][i] IN
  /\ a.st = "runs" /\ a.on \in up
  /\ \/ /\ act' = [act EXCEPT ![x][i] = [NoAct EXCEPT !.st = "ok"]]
        /\ record' = IF pc[x] = "commit" THEN [record EXCEPT ![x] = TRUE] ELSE record
        /\ UNCHANGED faults
     \/ /\ faults < MaxFaults /\ faults' = faults + 1
        /\ act' = [act EXCEPT ![x][i] = [NoAct EXCEPT !.st = "err"]]
        /\ UNCHANGED record
  /\ UNCHANGED <<pc, mail, flow, kid, route, up, past, closing, sent, replies, restarts>>

\* No heartbeat: the server queues the next attempt where the last one ran.
Heartbeat(x, i) ==
  LET a == act[x][i] IN
  /\ a.st = "runs" /\ a.on \notin up
  /\ act' = [act EXCEPT ![x][i].st = IF a.tries < MaxAttempts THEN "queued" ELSE "err",
                         ![x][i].on = None]
  /\ UNCHANGED <<pc, mail, flow, kid, route, up, past, host, replies, restarts, faults>>

\* Mutant of Reroute: asks for the same worker again.
RerouteSame(x, i) ==
  LET a == act[x][i] IN
  /\ a.st = "queued" /\ a.at # None /\ a.at \notin up
  /\ act' = [act EXCEPT ![x][i] = Queued(a.at)]
  /\ UNCHANGED <<pc, mail, flow, kid, route, up, past, host, replies, restarts, faults>>

\* A step that did not start in time: its worker is gone.  lostWorker forgets
\* the route, and the step runs again where route leads.
Reroute(x, i) ==
  LET a == act[x][i] IN
  /\ a.st = "queued" /\ a.at # None /\ a.at \notin up
  /\ \E w \in up : /\ route' = [route EXCEPT ![x] = w]
                   /\ act' = [act EXCEPT ![x][i] = Queued(w)]
  /\ UNCHANGED <<pc, mail, flow, kid, up, past, host, replies, restarts, faults>>

\* Tools starts the next call as an earlier one ends.
StartNext(x) ==
  LET later == {i \in Slots : act[x][i].st = "later"}
      going == {i \in Slots : act[x][i].st \in {"queued", "runs"}}
  IN /\ pc[x] = "tools" /\ later # {} /\ Cardinality(going) < Limit /\ Decides
     /\ \E r \in Routes(x) :
          /\ route' = [route EXCEPT ![x] = r]
          /\ act' = [act EXCEPT ![x][CHOOSE i \in later : \A j \in later : i <= j] = Queued(r)]
     /\ UNCHANGED <<pc, mail, flow, kid, up, past, host, replies, restarts, faults>>

Done(x)   == \A i \in Slots : act[x][i].st \in {"off", "ok", "err"}
Failed(x) == \E i \in Slots : act[x][i].st = "err"

-----------------------------------------------------------------------------
(* The turn's calls to its runtime.                                        *)

Ends(x, how) == turn' = [turn EXCEPT ![x] = how] /\ Shared(x, "emit")

\* A step's failure: the turn ends, its inbox and its jobs stay.
Fail(x) ==
  /\ Ends(x, "none")
  /\ UNCHANGED <<inbox, cancelled, jobs, asked>>

\* cancelJobs.
CancelJobs(x) ==
  /\ jobs' = IF x = Root THEN "no" ELSE jobs
  /\ asked' = IF x = Root /\ jobs \in {"bg", "wait"} THEN [asked EXCEPT ![Job] = TRUE]
              ELSE asked

FailCancelled(x) ==
  /\ Ends(x, "none") /\ CancelJobs(x)
  /\ inbox' = [inbox EXCEPT ![x] = <<>>]
  /\ cancelled' = [cancelled EXCEPT ![x] = FALSE]

CommitThen(x, next, fin) ==
  /\ Schedule(x, "commit", 1)
  /\ then' = [then EXCEPT ![x] = next]
  /\ finished' = [finished EXCEPT ![x] = fin]

\* The Commit's result; a cancel stays queued, but a cancelled run fails it.
EndCommit(x) ==
  /\ pc[x] = "commit" /\ Decides
  /\ \/ /\ Done(x) /\ ~Failed(x) /\ ~asked[x] /\ then[x] = "poll"
        /\ pc' = [pc EXCEPT ![x] = "poll"] /\ act' = [act EXCEPT ![x] = NoActs]
        /\ UNCHANGED <<queue, wakeCh, childDoneCh, inbox, turn, cancelled, jobs, asked, route>>
     \/ /\ Done(x) /\ ~Failed(x) /\ ~asked[x] /\ then[x] = "infer"
        /\ Fill(x) /\ Schedule(x, "infer", 1)
        /\ UNCHANGED <<inbox, turn, cancelled, jobs, asked>>
     \/ /\ Done(x) /\ Failed(x) /\ ~asked[x] /\ Fail(x)
        /\ UNCHANGED <<queue, wakeCh, childDoneCh>>
     \/ /\ asked[x] /\ FailCancelled(x)
        /\ UNCHANGED <<queue, wakeCh, childDoneCh>>
  /\ UNCHANGED <<held, then, finished, ended, up, past, host, replies, restarts, faults>>

\* takeCancel while Inference or Tools runs, or the run's own cancel.
CancelStep(x) ==
  /\ pc[x] \in {"infer", "tools"} /\ Decides
  /\ \/ /\ Cancels(queue[x]) # {}
        /\ queue' = [queue EXCEPT ![x] = Kept(@)]
        /\ dropped' = [dropped EXCEPT ![x] = @ \cup Stopped(queue[x])]
     \/ Cancels(queue[x]) = {} /\ asked[x] /\ UNCHANGED <<queue, dropped>>
  /\ FailCancelled(x)
  /\ UNCHANGED <<wakeCh, childDoneCh, held, then, finished, ended, up, took, host,
                 replies, restarts, faults>>

StepOver(x, p) == pc[x] = p /\ Done(x) /\ Decides /\ ~asked[x] /\ Cancels(queue[x]) = {}

EndInfer(x) ==
  /\ StepOver(x, "infer")
  /\ \/ Failed(x) /\ Fail(x) /\ UNCHANGED <<queue, wakeCh, childDoneCh, then, finished, replies>>
     \/ /\ ~Failed(x) /\ CommitThen(x, "poll", TRUE)
        /\ UNCHANGED <<queue, wakeCh, childDoneCh, inbox, turn, cancelled, jobs, asked, replies>>
     \/ /\ ~Failed(x) /\ replies < MaxReplies /\ replies' = replies + 1
        /\ Fill(x) /\ \E n \in Slots : Schedule(x, "tools", n)
        /\ UNCHANGED <<inbox, turn, then, finished, cancelled, jobs, asked>>
  /\ UNCHANGED <<held, ended, up, past, host, restarts, faults>>

\* startChild: it returns once the child runs, its task in its queue.
StartChild ==
  /\ pc[Job] = "none"
  /\ queue' = [queue EXCEPT ![Job] = <<W("prompt", 0)>>]

\* The round is complete, parks on a question, or started the job, in the
\* background or for a call that waits on it.
EndTools(x) ==
  /\ StepOver(x, "tools")
  /\ \/ Failed(x) /\ Fail(x) /\ UNCHANGED <<queue, then, finished>>
     \/ /\ ~Failed(x) /\ CommitThen(x, "poll", FALSE)
        /\ UNCHANGED <<queue, inbox, turn, cancelled, jobs, asked>>
     \/ /\ ~Failed(x) /\ Ends(x, "parked")
        /\ UNCHANGED <<queue, inbox, then, finished, cancelled, jobs, asked>>
     \/ /\ ~Failed(x) /\ x = Root /\ StartChild
        /\ jobs' \in {"bg", "wait"}
        /\ IF jobs' = "wait"
           THEN /\ pc' = [pc EXCEPT ![Job] = "route", ![x] = "pump"]
                /\ act' = [act EXCEPT ![x] = NoActs]
                /\ UNCHANGED <<route, then, finished>>
           ELSE \E r \in Routes(x) :
                /\ pc' = [pc EXCEPT ![Job] = "route", ![x] = "commit"]
                /\ act' = [act EXCEPT ![x] = [NoActs EXCEPT ![1] = Queued(r)]]
                /\ route' = [route EXCEPT ![x] = r]
                /\ then' = [then EXCEPT ![x] = "poll"]
                /\ finished' = [finished EXCEPT ![x] = FALSE]
        /\ UNCHANGED <<inbox, turn, cancelled, asked>>
  /\ UNCHANGED <<wakeCh, childDoneCh, held, ended, up, past, host, replies, restarts, faults>>

\* A wake while the turn runs.
HandleRunning(x, w) ==
  /\ cancelled' = [cancelled EXCEPT ![x] = @ \/ w.kind = "cancel"]
  /\ held' = IF w.kind \in {"resume", "close"} THEN [held EXCEPT ![x] = Append(@, w)] ELSE held
  /\ took' = IF w.kind = "prompt" THEN [took EXCEPT ![x] = Append(@, w.n)] ELSE took
  /\ inbox' = IF w.kind = "prompt" \/ (w.kind = "job" /\ jobs = "bg")
              THEN [inbox EXCEPT ![x] = Append(@, w)] ELSE inbox
  /\ jobs' = IF w.kind # "job" THEN jobs ELSE IF jobs = "wait" THEN "ended"
             ELSE IF jobs = "bg" THEN "no" ELSE jobs

Takes(x) ==
  /\ queue' = [queue EXCEPT ![x] = Tail(Filled(x))]
  /\ wakeCh' = [wakeCh EXCEPT ![x] = <<>>]
  /\ childDoneCh' = [childDoneCh EXCEPT ![x] = <<>>]

\* Next, by a turn that polls or waits on its job ("pump", then "drain").
TakeRunning(x) ==
  /\ pc[x] \in {"poll", "pump", "drain"} /\ Filled(x) # <<>> /\ Decides
  /\ Takes(x) /\ HandleRunning(x, Head(Filled(x)))
  /\ pc' = [pc EXCEPT ![x] = IF @ = "pump" THEN "drain" ELSE @]
  /\ UNCHANGED <<turn, then, finished, asked, ended, route, act, up, dropped, host, replies,
                 restarts, faults>>

\* The wait is of a call in the open round, not of a turn that is finished.
WaitsOnJob(x) == pc[x] = "drain" /\ ~finished[x]

\* The mailbox is read: the turn stops on a cancel, or goes on.
Poll(x) ==
  /\ pc[x] \in {"poll", "drain"} /\ Filled(x) = <<>> /\ Decides
  /\ \/ cancelled[x] /\ FailCancelled(x) /\ UNCHANGED <<queue, then, finished>>
     \/ /\ ~cancelled[x] /\ WaitsOnJob(x) /\ jobs = "wait"
        /\ pc' = [pc EXCEPT ![x] = "pump"]
        /\ UNCHANGED <<queue, inbox, turn, then, finished, cancelled, jobs, asked, route, act>>
     \/ /\ ~cancelled[x] /\ WaitsOnJob(x) /\ jobs = "ended"
        /\ jobs' = "no" /\ Schedule(x, "tools", 1)
        /\ UNCHANGED <<queue, inbox, turn, then, finished, cancelled, asked>>
     \/ /\ ~cancelled[x] /\ ~WaitsOnJob(x)
        /\ \/ /\ inbox[x] # <<>> /\ CommitThen(x, "infer", FALSE)
              /\ inbox' = [inbox EXCEPT ![x] = <<>>]
              /\ UNCHANGED <<turn, jobs, asked>>
           \/ /\ inbox[x] = <<>> /\ finished[x] /\ (x = Root => jobs = "no")
              /\ Ends(x, "none") /\ UNCHANGED <<inbox, then, finished, jobs, asked>>
           \/ /\ inbox[x] = <<>> /\ finished[x] /\ x = Root /\ jobs # "no"
              /\ pc' = [pc EXCEPT ![x] = "pump"]
              /\ UNCHANGED <<inbox, turn, then, finished, jobs, asked, route, act>>
           \/ /\ inbox[x] = <<>> /\ ~finished[x] /\ Schedule(x, "infer", 1)
              /\ UNCHANGED <<inbox, turn, then, finished, jobs, asked>>
        /\ UNCHANGED <<queue, cancelled>>
  /\ UNCHANGED <<wakeCh, childDoneCh, held, ended, up, past, host, replies, restarts, faults>>

-----------------------------------------------------------------------------
(* The session's loop: runSession and Next while no turn runs.             *)

\* A run begins: it finds a worker, and goes on with the turn it carries.
Boot(x) ==
  /\ pc[x] = "route" /\ Decides
  /\ route' \in {[route EXCEPT ![x] = w] : w \in Routes(x)}
  /\ pc' = [pc EXCEPT ![x] = IF turn[x] = "runs" THEN "pump" ELSE "idle"]
  /\ UNCHANGED <<mail, flow, kid, act, up, past, host, replies, restarts, faults>>

\* Next suspends a session whose history is long: nothing is queued, and the
\* server refuses the new run while a signal is undelivered.
Restart(x) ==
  /\ pc[x] \in {"idle", "pump"} /\ Filled(x) = <<>> /\ Decides
  /\ pc[x] = "idle" => held[x] = <<>>
  /\ restarts < MaxRestarts /\ restarts' = restarts + 1
  /\ pc' = [pc EXCEPT ![x] = "route"]
  /\ UNCHANGED <<mail, flow, kid, route, act, up, past, host, replies, faults>>

HandleIdle(x, w) ==
  \/ /\ w.kind = "prompt" /\ turn[x] = "parked"
     /\ inbox' = [inbox EXCEPT ![x] = Append(@, w)]
     /\ took' = [took EXCEPT ![x] = Append(@, w.n)]
     /\ UNCHANGED <<pc, turn, then, finished, jobs, asked, route, act>>
  \/ /\ w.kind = "prompt" /\ turn[x] = "none"
     /\ turn' = [turn EXCEPT ![x] = "runs"]
     /\ took' = [took EXCEPT ![x] = Append(@, w.n)]
     /\ CommitThen(x, "poll", FALSE)
     /\ UNCHANGED <<inbox, jobs, asked>>
  \/ /\ w.kind = "resume" /\ turn[x] = "parked"
     /\ turn' = [turn EXCEPT ![x] = "runs"]
     /\ Schedule(x, "tools", 1)
     /\ finished' = [finished EXCEPT ![x] = FALSE]
     /\ UNCHANGED <<inbox, then, took, jobs, asked>>
  \/ /\ w.kind = "resume" /\ turn[x] = "none"
     /\ Ends(x, "none")
     /\ UNCHANGED <<inbox, then, finished, took, jobs, asked>>
  \/ /\ w.kind = "cancel"
     /\ CancelJobs(x) /\ inbox' = [inbox EXCEPT ![x] = <<>>]
     /\ IF turn[x] = "parked" THEN Ends(x, "none") ELSE UNCHANGED <<pc, turn, act, route>>
     /\ UNCHANGED <<then, finished, took>>
  \/ /\ w.kind = "close"
     /\ turn' = [turn EXCEPT ![x] = "none"]
     /\ CancelJobs(x) /\ Shared(x, "forget")
     /\ UNCHANGED <<inbox, then, finished, took>>
  \/ /\ w.kind = "job"
     /\ jobs' = IF jobs = "wait" THEN "ended" ELSE IF jobs = "bg" THEN "no" ELSE jobs
     /\ inbox' = IF jobs = "bg" THEN [inbox EXCEPT ![x] = Append(@, w)] ELSE inbox
     /\ UNCHANGED <<pc, turn, then, finished, took, asked, route, act>>

\* A wake held over the turn first, else Next's.
TakeIdle(x) ==
  /\ pc[x] = "idle" /\ Decides
  /\ IF held[x] # <<>>
     THEN /\ held' = [held EXCEPT ![x] = Tail(@)] /\ UNCHANGED mail
          /\ HandleIdle(x, Head(held[x]))
     ELSE /\ Filled(x) # <<>> /\ Takes(x) /\ UNCHANGED held
          /\ HandleIdle(x, Head(Filled(x)))
  /\ UNCHANGED <<cancelled, ended, up, dropped, host, replies, restarts, faults>>

\* Mutant of EndEmit: the job signals the run that started it.
EndEmitToRun(x) ==
  /\ pc[x] = "emit" /\ (Done(x) \/ asked[x]) /\ Decides
  /\ act' = [act EXCEPT ![x] = NoActs]
  /\ IF x = Job /\ turn[x] = "none"
     THEN /\ pc' = [pc EXCEPT ![x] = "ended"]
          /\ childDoneCh' = IF Runs(Root) /\ restarts = 0
                            THEN [childDoneCh EXCEPT ![Root] = Append(@, JobEnd)]
                            ELSE childDoneCh
          /\ ended' = ended + 1
     ELSE pc' = [pc EXCEPT ![x] = "idle"] /\ UNCHANGED <<childDoneCh, ended>>
  /\ UNCHANGED <<wakeCh, queue, flow, jobs, asked, route, up, past, host, replies, restarts, faults>>

\* The turn's last event is out, or its publish failed.  A task session ends
\* with its turn, and tells its parent, if that one still runs.
EndEmit(x) ==
  /\ pc[x] = "emit" /\ (Done(x) \/ asked[x]) /\ Decides
  /\ act' = [act EXCEPT ![x] = NoActs]
  /\ IF x = Job /\ turn[x] = "none"
     THEN /\ pc' = [pc EXCEPT ![x] = "ended"]
          /\ childDoneCh' = IF Runs(Root) THEN [childDoneCh EXCEPT ![Root] = Append(@, JobEnd)]
                            ELSE childDoneCh
          /\ ended' = ended + 1
     ELSE pc' = [pc EXCEPT ![x] = "idle"] /\ UNCHANGED <<childDoneCh, ended>>
  /\ UNCHANGED <<wakeCh, queue, flow, jobs, asked, route, up, past, host, replies, restarts, faults>>

\* forget, of a session that is closed; a job's close ends it the same way.
EndForget(x) ==
  /\ pc[x] = "forget" /\ (Done(x) \/ asked[x]) /\ Decides
  /\ act' = [act EXCEPT ![x] = NoActs]
  /\ pc' = [pc EXCEPT ![x] = "ended"]
  /\ childDoneCh' = IF x = Job /\ Runs(Root) THEN [childDoneCh EXCEPT ![Root] = Append(@, JobEnd)]
                    ELSE childDoneCh
  /\ ended' = IF x = Job THEN ended + 1 ELSE ended
  /\ UNCHANGED <<wakeCh, queue, flow, jobs, asked, route, up, past, host, replies, restarts, faults>>

WorkerDies(w) ==
  /\ w \in up /\ faults < MaxFaults
  /\ faults' = faults + 1 /\ up' = up \ {w}
  /\ UNCHANGED <<pc, mail, flow, kid, route, act, past, host, replies, restarts>>

-----------------------------------------------------------------------------
(* The host's client.                                                      *)

Signal(x, kind) ==
  /\ Len(sent) < MaxWakes
  /\ sent' = Append(sent, [kind |-> kind, to |-> x])
  /\ wakeCh' = [wakeCh EXCEPT ![x] = Append(@, W(kind, Len(sent) + 1))]

\* Prompt, Resume and Cancel, until this client closed the session.
Send(x, kind) ==
  /\ Runs(x) /\ (x = Root => closing = "no")
  /\ kind \in Kinds \ {"close"} /\ Signal(x, kind)
  /\ UNCHANGED <<pc, childDoneCh, queue, flow, kid, route, act, up, past, record, closing,
                 replies, restarts, faults>>

\* Close: mark, signal, then delete the record, whatever the workflow does.
CloseMark ==
  /\ "close" \in Kinds /\ closing = "no" /\ Len(sent) < MaxWakes
  /\ closing' = "marked"
  /\ UNCHANGED <<pc, mail, flow, kid, route, act, up, past, record, sent, replies, restarts, faults>>

CloseSignal ==
  /\ closing = "marked" /\ closing' = "sent"
  /\ sent' = Append(sent, [kind |-> "close", to |-> Root])
  /\ wakeCh' = IF Runs(Root)
               THEN [wakeCh EXCEPT ![Root] = Append(@, W("close", Len(sent) + 1))] ELSE wakeCh
  /\ UNCHANGED <<pc, childDoneCh, queue, flow, kid, route, act, up, past, record, replies,
                 restarts, faults>>

CloseDelete ==
  /\ closing = "sent" /\ closing' = "done"
  /\ record' = [record EXCEPT ![Root] = FALSE]
  /\ UNCHANGED <<pc, mail, flow, kid, route, act, up, past, sent, replies, restarts, faults>>

Init ==
  /\ pc = (Root :> "route" @@ Job :> "none")
  /\ wakeCh = [x \in Sessions |-> <<>>] /\ childDoneCh = [x \in Sessions |-> <<>>]
  /\ queue = [x \in Sessions |-> <<>>] /\ held = [x \in Sessions |-> <<>>]
  /\ inbox = [x \in Sessions |-> <<>>] /\ turn = [x \in Sessions |-> "none"]
  /\ then = [x \in Sessions |-> "poll"] /\ finished = [x \in Sessions |-> FALSE]
  /\ cancelled = [x \in Sessions |-> FALSE]
  /\ jobs = "no" /\ asked = [x \in Sessions |-> FALSE] /\ ended = 0
  /\ route = [x \in Sessions |-> None] /\ act = [x \in Sessions |-> NoActs]
  /\ up = Workers
  /\ took = [x \in Sessions |-> <<>>] /\ dropped = [x \in Sessions |-> {}]
  /\ record = [x \in Sessions |-> FALSE] /\ closing = "no" /\ sent = <<>>
  /\ replies = 0 /\ restarts = 0 /\ faults = 0

Decision(x) ==
  \/ Boot(x) \/ Receive(x) \/ EndCommit(x) \/ CancelStep(x) \/ EndInfer(x) \/ EndTools(x)
  \/ TakeRunning(x) \/ Poll(x) \/ TakeIdle(x) \/ EndEmit(x) \/ EndForget(x) \/ StartNext(x)

Activity(x, i) == ActStarts(x, i) \/ ActEnds(x, i) \/ Heartbeat(x, i) \/ Reroute(x, i)

Next ==
  \/ \E x \in Sessions : Decision(x) \/ Restart(x)
  \/ \E x \in Sessions, i \in Slots : Activity(x, i)
  \/ \E w \in Workers : WorkerDies(w)
  \/ \E x \in Sessions, k \in Kinds : Send(x, k)
  \/ CloseMark \/ CloseSignal \/ CloseDelete

Fairness ==
  WF_vars(\/ \E x \in Sessions : Decision(x)
          \/ \E x \in Sessions, i \in Slots : Activity(x, i)
          \/ CloseSignal \/ CloseDelete)

Spec == Init /\ [][Next]_vars /\ Fairness

-----------------------------------------------------------------------------
(* Properties.                                                             *)

Elements(q) == {q[i] : i \in DOMAIN q}
Ascends(q)  == \A i, j \in DOMAIN q : i < j => q[i] < q[j]
Mail(x)     == queue[x] \o wakeCh[x]

\* Phases, activities and the job keep their types, and a step only runs while
\* its workflow waits in one.
TypeOK ==
  /\ \A x \in Sessions :
       /\ pc[x] \in {"none", "route", "idle", "commit", "infer", "tools", "poll", "pump",
                     "drain", "emit", "forget", "ended"}
       /\ turn[x] \in {"none", "runs", "parked"} /\ then[x] \in {"poll", "infer"}
       /\ \A i \in Slots : act[x][i].st # "off" => pc[x] \in {"commit", "infer", "tools", "emit", "forget"}
  /\ jobs \in {"no", "bg", "wait", "ended"} /\ ended \in 0..1

\* A cancel sent before a prompt is handled before it, and stops only prompts
\* sent before it (Receive, fill, takeCancel over one queue).
CancelsInOrder ==
  \A x \in Sessions :
    /\ \A p \in Elements(took[x]), w \in Elements(Mail(x)) : w.kind = "cancel" => p < w.n
    /\ \A d \in dropped[x] : d[1] < d[2]
    /\ Ascends(took[x])

\* No prompt the client sent is lost, whatever steps were stopped and however
\* often the workflow restarted: it waits, a turn took it, or a cancel did.
PromptsReach ==
  \A n \in DOMAIN sent :
    LET x == sent[n].to IN
    sent[n].kind = "prompt" /\ Runs(x) =>
      \/ W("prompt", n) \in Elements(Mail(x))
      \/ n \in Elements(took[x]) \/ \E c \in DOMAIN sent : <<n, c>> \in dropped[x]

\* A job the session still waits for runs, or its end is on the way, once
\* (startChild, signalChildDone and the carry over a restart).
JobEndsReach ==
  Runs(Root) /\ jobs \in {"bg", "wait"} =>
    \/ Runs(Job)
    \/ Len(SelectSeq(queue[Root] \o childDoneCh[Root], LAMBDA w : w = JobEnd)) = 1

\* Both, with the types: what a workflow was sent, it keeps until a turn or a
\* cancel takes it, in whatever it waits and over its restarts.
WakesReach == TypeOK /\ PromptsReach /\ JobEndsReach

\* While any worker lives, steps find one that does, and every workflow comes
\* to rest, waiting for its host or its job with its mail read.
Settles ==
  <>[](\A x \in Sessions : pc[x] \in {"none", "ended"}
                           \/ (pc[x] \in {"idle", "pump"} /\ Filled(x) = <<>>))

\* The jobs of a session that ended end too.
JobsStop == pc[Root] = "ended" ~> pc[Job] \in {"none", "ended"}

\* Once Close returned and the session ended, its record is gone.
ClosedIsGone == closing = "done" /\ pc[Root] = "ended" => ~record[Root]
===============================================================================
