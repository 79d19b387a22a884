# tacklr in TLA+

tacklr is a Go library for agents. A host opens a *session*, sends it prompts, and the
session works through *turns*: it asks a model, runs the tool calls of the model's reply (a
*round*), and repeats until the model answers without a call. A turn may park on a question,
wait for child sessions (*jobs*), be steered by later prompts, be cancelled, and be stopped and
restarted by the runtime below it. There are two runtimes: *durable objects*, which journal
each step and replay it, and Temporal workflows. Around the sessions stand the model clients, a
context window, a workspace of files, a knowledge store that mirrors it, and a server whose
clients follow sessions.

This directory has models of the scheduler, both runtimes, the event stream, the window, the
model streams, tool calls, guarded edits, the index and the ACP server; TLC runs on small instances; and
TLAPS proofs for all values of the constants. `PROJECT.json` maps each definition to the lines
it models, and lists components, runs, hazards and theorems.

## Checking

    tlc -workers 2 -config SharedAlarm.cfg ObjectAlarm.tla      (each run of the table below)
    tlapm SessionTurn_proofs.tla                                (each module named *_proofs)

The runs take from half a minute to three minutes each on two workers. Most configurations
instantiate a module directly, their constants being numbers and sets of model values;
`MCSession` defines the set of session records that `AnySession` explores, and `MCTools` puts
`ToolCalls` and `FileEdit` side by side: they share no state, and each behaviour moves one of them.
`MCTemporal` bounds `TemporalSession` in two ways, a short host with faults and a long one without. Symmetry
is used in `SessionTools`, whose two editing sessions are interchangeable and which has only safety properties.

Some definitions are in no specification: `FromHead`, `TakeJobEndOnly`, `EveryPark` and the
like, just before the definition they resemble. Each is a plausible slip of the code (a dropped
guard, a missing write, a wrong order), and each property is known to fail when one of them
takes the place of its neighbour: `PROJECT.json` lists the pairs under "mutants".

## Inventory

| Component | State | Operations | Modelled |
|---|---|---|---|
| Session orchestrator `session/orchestrator` | `State`: inbox, held wakes, open round, jobs, flags | handle a wake, drive a turn, park, fail, cancel, close, suspend | `SessionTurn`, `SessionContract` |
| Rounds and calls `drive.go`, `call.go`, `durable_steps.go` | the open round, each call's last outcome | which calls run next, what a Commit writes, Infer | partly, in `SessionTurn`, `ToolCalls`, `ContextWindow`, `ModelStream` |
| Tool calls, permissions and the plan `tool_runner.go`, `call.go`, `interrupt.go`, `session_permissions.go`, `session_plan.go`, `builtins.go` | a call's body, decisions, grants, todos | run a call, pass its layers, park, answer, commit its writes | `ToolCalls` |
| Durable object: journal `durableobject/runtime.go`, `object.go`, `stores.go` | mailbox, journal, carry, call records; in memory the mailbox and the run | accept a wake, replay, the `Runtime` methods, suspend, finish | `ObjectJournal`, `SessionInbox` |
| Durable object: alarm, outbox and registry | the platform's alarm, letters, watchdog, retry timer, live objects | run, arm, idle, deliver, retry, restart, drop | `ObjectAlarm` |
| Durable objects of a session tree | each object's meta, mailbox, outbox, child records | start, wake, cancel, close, report an end | `ObjectNetwork` |
| Event log and subscriptions `live.go`, `eventlog.go`, `stores.go`, `postgres/eventlog.go` | rows, cursors, subscribers | append, trim, tail, merge, close | `EventStream` |
| Temporal runtime `session/temporal` | workflow state, signals, activities | signal, fill, run an activity, reroute, continue as new | `TemporalSession` |
| Temporal worker's cache `temporal/worker/harness_cache.go` and snapshots `session/internal/snapshot.go` | built harnesses, users, timers, revisions | acquire, release, replace, evict, Sync, Commit | `HarnessCache` |
| Context window `window.go`, checkpoint rows | the messages sent to the model, their count | fit, collapse, trim, refit, plan, hand off, save | `ContextWindow` |
| Model providers and model tasks `openai`, `anthropic`, `internal/provider`, `model_tasks.go` | a stream, bounded channels | read, send, watch, forward, assemble | `ModelStream` |
| ACP server and connection `server`, `server/acp` | follows, open requests, open questions | prompt, resume, load, cancel, close, answer, deliver | `AcpConnection` |
| Virtual file system `vfs`, `workspace/tools.go`, `vfs/fuse` | content tokens, cached snapshots, handles | read, guarded edit, flush | `FileEdit`, for one file |
| Index, brain and its stores `vfsindex`, `brain` | records, parts, revisions, nodes | index, unindex, stage, commit, purge, erase | `KnowledgeIndex`, for one file |
| Object harness and memory host, agent construction, in-process platform, Cloudflare glue, MCP, skills, shell, web, telemetry, examples | | construction, encoding, I/O | no |

`PROJECT.json` lists all components with their files and what is left out of each.

### How they interact

A host calls a `session.Client`; the ACP server is such a host, one connection at a time. The
call becomes a *wake* (prompt, resume, cancel, close; a job's end is the fifth kind) in the
mailbox of the session's runtime. `orchestrator.Run` is one sequential program that reads the
mailbox through `Runtime.Next` and acts only through the `Runtime` interface: `Begin`, `Infer`,
`Tools`, `Commit`, `Emit`, `Start`, `Cancel`, `Next`. The runtime decides when a step sees a
cancel (`TakeCancel`), what survives a crash, and when to *suspend*: stop `Run` with a carry that
a later `Run` goes on from.

The durable-object runtime writes each call's result, with the wakes it took, as a journal
entry; after a restart `Run` starts from the carry and the journal answers its calls until it is
live again. Objects reach each other by letters in an outbox, delivered later and possibly
twice. Each object has one platform alarm, which the watchdog of a running step and the retries
of deliveries share. On Temporal the workflow's history takes the journal's place: steps are
activities that run on the worker that holds the session's harness, and are tried again, or
elsewhere, when it dies.

Infer reads a model's stream through two goroutines and shows its deltas; Commit fits the round
into the window and saves the changed rows with a compare of their revision. `Emit` appends to
the session's event log; a reader gets the log's tail merged with the live deltas. The tools of
a turn edit files, and the indexer mirrors the files into the brain's store.

### What is hard

* **Interleaving.** Prompts, answers, cancels, closes and job ends may come between any two
  calls of a turn; the calls of one reply end in any order and may park, wait and start jobs
  together. A frame of a client is several calls of a session that goes on meanwhile.
* **Crashes and storage failures** between any two steps of a durable object, workers that die
  under a step, and attempts of a step that go on after the workflow gave them up.
* **One alarm for two purposes**, used up when it fires.
* **Duplicated letters and retried saves**, and objects closed while their letters are under way.
* **Check, then act.** A content token is compared before a backend is written; a file's version
  is read before the file; a record's parts are found before the commit that reuses them.
* **Deadlock by waiting**: a turn blocked on its mailbox for a wake that nobody will send, a
  goroutine on a channel nobody reads, a tail on a signal that was lost.
* **Failing steps**: a Commit, a tools step, an archive or a save fails with part of the state moved.

What makes each component correct is what the properties below say of it. The hazards of
`PROJECT.json` give the line where each bites and the properties that watch it; a hazard without
one says why.

## The modules

### `SessionTurn` and `MCSession`: one session's scheduler

Models `session.go`, `turn.go` and `carry.go` of the orchestrator, with the round's helpers.
One action is one call of the `Runtime` interface together with the code up to the next call,
so the environment interleaves exactly where the code can notice it.

| Code | Here |
|---|---|
| the runtime's mailbox, `State.held` | `mail`, `held` |
| where `Run` is between two Runtime calls | `pc` |
| `State.Inbox`, `State.Jobs`, flags | `inbox`, `jobs`, `finished`, `yielded`, `suspended`, `cancelled`, `closed`, `terminal` |
| `tacklr.Round` | `round`, by call: new, done, park, wait, or not in it |
| what Commits wrote to the session | `window` |
| jobs in the runtime | `live`, `stopping`, `reported`; `background` is for properties |
| the session's identity and what its environment does | `session`, chosen by Init |
| `drive` | `BeginPrompt` to `InferCancelled`, gathered in `Turn` |
| `Run`'s loop and its handling of a wake while idle or parked | `IdleJob` to `End` |
| `pump`, `stopped` | `PumpWake`, `PumpSuspend`, `PumpDone` |

A prompt is its number, a call its place in the session's call order. A call starts at most one
job, named after it, as `ChildID` does. `overtaken` is for properties: the prompts a failed turn left
in the inbox when the next prompt began. Left out: credentials, MCP servers, the host's state
values, traces and the text of messages.

`ParksOnQuestion`: two calls that ask at once leave one question, shown to the host, and a park
never leaves a wait behind. `FaultsContained`: whatever fails, a running job can still be
stopped, its end comes once, and a turn that completes left nothing over. `Answered`: while only the
model fails (`Reliable`) a job's end is neither doubled nor lost, and a turn that blocks, of a host that
answers only what it is asked (`Quiet`), has a job that will wake it. `PromptsArrive`: while steps run
and Commits save each prompt reaches the window once; the window holds them in order whatever
fails, except that one in `overtaken` comes later. `OneResultPerCall`: what a provider demands of a
window. `SessionEnds`: turns and closed sessions end. `KeepsContract`: the refinement below.

### `SessionContract`: what a host may rely on

The states idle, running, parked and closed, and the steps a caller of `session.Client` and
`Status` can see. `SessionTurn` implements it: `KeepsContract` is `Contract!CSpec` with
`HostState`, `HostQuestion` and `HostResult` in place of its variables. A suspend, a restart,
steering and each step of a turn are stutters of the contract.

### `ObjectJournal` and `SessionInbox`: crash, replay, go on

One durable object: storage (`wakes`, `box`, `journal`, `carry`, `records`, `log`, `closing`,
`ended`) and memory (`mail`, `kick`, the run and what it has replayed). `prog` is
`orchestrator.Run` reduced to the order of its Runtime calls, moved by `After(prog, entry)`
alone: the same function serves a live result and a replayed one, as in the code. `Crash` takes
the memory at any point; `StorageFails` stops the run at any read or write. The mailbox in order
and what a cancel takes from it are `Picked` (module `Picks`).

`ReplaysAgree`: a replay asks for exactly the journaled calls and arrives at the state the last
entry left, and the log has the turn's events, each once. `CallsRunOnce`: a recorded tool call does
not run again, and the record of a run that left the call waiting is not its result.
`MailAgrees`: the wakes in memory are those in storage, and none is slept over. `KeepsInbox` is
the refinement of `SessionInbox`: each accepted wake is handled once and in order; only a cancel
that stops a step overtakes, with the prompts before it.

### `ObjectAlarm`: what makes an object go on

The run goroutine, the watchdog, the outbox's sender, its retry timer, and the platform's one
alarm. The work itself is counters: wakes waiting, steps left, letters left. An alarm stands for
what it was set for, and when the watchdog and a retry both want it, either may be the earlier. Any call that
sets it may fail, any number of times: `SetAlarm` then leaves the alarm and `armed` as they were, the
caller goes on as if nothing had happened, and `unset`, for properties, says that the last one did.
`Drop` is the registry's: an object that runs nothing loses its memory, and the timer of a failed
delivery with it, at any moment, since what else lives in the process is not its state. A drop
counts as no crash, so the promises below hold through any number of drops, on the alarm alone.

`StepHasAlarm`: a running step has the alarm, or its handler, behind it; after a failed `SetAlarm` it may have none,
but then the object knows (`armed`), and the next one sets it. `LetterHasSender`: a letter is being
delivered or waits for the timer, and in a dropped object for the alarm, unless the last `SetAlarm` failed.
`ObjectGoesOn` gathers three promises, each qualified by the failures it does not survive: wakes run
(no crash or storage failure; the alarm may fail), an interrupted step is restarted (any crash, no storage
failure, failed delivery or failed `SetAlarm`), letters go out (any storage failure or failed delivery, no
crash, no drop after a failed `SetAlarm`). Without the qualifications they are false of this code, see below.

### `ObjectNetwork`: the objects of a session tree

A session, its jobs and their jobs: each object's meta, mailbox, outbox, tracked jobs and child
records, and the letters between them, any of which may be delivered a second time. A turn is
what its jobs need of it. The letters to several jobs, and the mailbox without its first cancel,
are `Picked` from a sequence by their indices: module `Picks`, which the journal and the cache use too,
says it in a closed form, since a proof cannot follow the recursion of `SelectSeq`. `OnceEach`: a task runs once
and its end counts once. `JobsTracked`: no job runs on unasked, and none is forgotten. `JobsClose`:
a closed tree is gone in the end.

### `TemporalSession`: the other runtime

The workflow of a session and of one job, the two channels it moves into its queue, its steps as
activities on workers that may die, cancels of a running step, rerouting, continue-as-new and the
client's three-step close. `CancelsInOrder`: a cancel is handled before a prompt sent after it, and
stops only prompts sent before it.
`WakesReach`: no prompt and no end of a job is lost between runs. `Settles`: steps find a living
worker, and workflows come to rest with their mail read.

### `HarnessCache`: a worker's cache and the commits through it

Slots of a cache with a limit, users, idle timers, an entry's lock (what the cache's own lock covers
is one operator: `Drop`, `Release`, `Put`, `Use`), `Sync` and `Commit` of `snapshot.go` against a store whose `Save` may save and report an error, and attempts that go on
after their workflow has moved past them. `HarnessesSafe`: no harness is closed, dropped or written
under a step. `ReadsCommitted`: no step reads the applied half of a failed Commit.
`CommitsOnce`, which includes it: retries save a Commit once and in order. `Drains`: every step ends and every harness
closes.

### `EventStream`: from the log to a reader

The three logs with their tails and what wakes each of them, the live deltas, `Merge`, and the
follow of a connection. `EventsOnce`, `TextOnce` (each message's text is shown once, whatever
deltas were missed, repeated by a retry, or late; a part of the `EventsOnce` of the run) and `TailsGoOn` (no tail sleeps through an event
or its session's end).

### `ContextWindow` and `ModelStream`: what the model is asked, and what it answers

`ContextWindow` has the window's operations as actions, with a count, an archive, a summary or a
save that may fail in each. `WindowFits`: a fitted request is within the size. `ContentKept`:
nothing committed is lost, and the saved rows restore the window. `GoalStays`: the first message and
the plan outlive every collapse.

`ModelStream` is one request: the provider's events of either API, the client's goroutine, the
watching goroutine and the step, with bounded channels between them. `WholeOrError`,
`StreamShown` (what readers saw is what commits) and `NobodyLeft` (no goroutine stays blocked).

### `ToolCalls`: questions, answers and what a round commits

| Code | Here |
|---|---|
| `permissions.decisions`, `.granted`; `planStore.todos` | `decisions`, `granted`; `plan` |
| `tacklr.Round`, `Call.Park` | `round[c].tool`, `.at`, `.asks` |
| `CallBody`, under its call's key | `body[c]`: park and its answer, layers, "always" answer, plan change, result |
| the Tools step, `Call.Answer` | `step`, `answer` |
| `onCallMiddleware`, `applyOnCallLayer`, `finishOnCallLayer` | `Layered`, `ApplyLayer`, `FinishLayer` |
| `planChange`, `replayPlanOp` | `Applies` and `Change`, `Replay` |
| `record` | `Recorded`: of the calls that ask at once, the first in call order parks |
| `commitReplyRound` | `Decided` (the last "always" answer in call order), `Applied` (the plan's changes, folded) |

The tools are a gated one, a gated one with write access and a second question, the built-in
question and the plan tools; the plan has two todos. A durable object keeps a body with the fact
that its call ran; on Temporal an attempt may be lost after its body is stored. `LeaveGiven`: a
gated handler runs only in a call that its user, an earlier "always" answer or the host's grant
lets run. `AnswersKept`: an "always" answer commits, whatever becomes of its call, and a call that
had leave does not ask again. `DoneAsReported`: the plan is what committed results said of it,
however the plan changes of one reply meet. `LeaveGiven` and `AnswersKept` compare the code's
answer with a history that is kept beside it (`leave`, `given`), not with its own fields.

### `FileEdit` and `KnowledgeIndex`: the workspace and its mirror

`FileEdit` is one file that agents and shells of several sessions edit on an object store, the
local disk or Google Docs. `EditsKept` says three things of it. `SerialKept`: an edit that opens the file
writes every edit that was reported done before it began, that the file held when it was opened, and that
it still holds, so no snapshot or token kept from before the edit is used. (The file may be open to
it while another edit has emptied it to write it anew; what is lost then is below.) `HintHolds`: the batch that
replaces a Doc's content, when it is the edit's first try and is accepted, drops no edit reported done, not
even one reported since the edit began. `NoFalseStale`: no agent is told that its reading is stale when the
file is as it left it.

`KnowledgeIndex` is one file's record: calls that index and unindex, the staged commit of its
parts, purge, erase, a database restart, and the graph's node. `RecordTrue`: the parts are of one
reading, and a record that names the file's version mirrors it. `Mirrors`: when the file rests
and calls go on, so does the mirror.

### `AcpConnection`: clients of a session

| Code | Here |
|---|---|
| a connection's `turns[id]`, `requests`, `asks` | `conn[c].follow`, `.requests`, `.asks` |
| a frame between two calls of the Client | `conn[c].pc`, `.frame` |
| `peer.pump`: its cursor, the event it waits to deliver, its context | `pumps` |
| the responses written to the client | `replies` |
| the wire store's row | `wired` |
| the session behind the Client | `session`, `mail`, `log`, `base` |

A connection's mutex makes a frame and a delivery exclude each other, but the session goes on
between the Status, Head, Subscribe and Prompt of a frame. The session is what any runtime
shows: a mailbox, a turn at a time, a log of which a new turn drops what was before it.
`RepliedOnce`: every request gets one response, none is forgotten, and a connection has one
follow. `RequestsAnswered`: every request is answered, unless the connection overlooked a question.
`AskedOnLoad`: a client that loads a parked session is asked its question again.

## The runs

| Run | Module | Instance | Properties |
|---|---|---|---|
| `AnySession` | `MCSession` | chat, task and worker of one call with up to three prompts, an answer, a cancel, a close, suspends and job ends that come twice; a chat of two calls any step of which may fail; a chat of one call whose steps may fail, and three prompts | `ParksOnQuestion` `FaultsContained` `OneResultPerCall` `Answered` `PromptsArrive` `KeepsContract` `SessionEnds` |
| `StoppedObject` | `ObjectJournal` | replies of 2 calls, 2 replies, 3 wakes of 4 kinds, a crash and a storage failure | `ReplaysAgree` `CallsRunOnce` `MailAgrees` `KeepsInbox` |
| `SharedAlarm` | `ObjectAlarm` | 2 wakes, turns of 2 steps, 2 letters, 2 crashes, a storage failure, 2 failed deliveries, any number of drops and failed `SetAlarm`s | `StepHasAlarm` `LetterHasSender` `ObjectGoesOn` |
| `ObjectTree` | `ObjectNetwork` | 2 jobs, side by side or nested; a prompt, a cancel, a close and a repeated letter anywhere | `OnceEach` `JobsTracked` `JobsClose` |
| `TemporalJob` | `MCTemporal` | a session and a job, 2 workers, a restart; any 2 wakes, and a worker that dies or a step that fails; or 3 prompts and cancels to the session, a prompt first, without a fault | `CancelsInOrder` `WakesReach` `Settles` |
| `WorkerCache` | `HarnessCache` | 2 sessions, a cache of 1, 2 commits, a read, a trouble | `HarnessesSafe` `CommitsOnce` `Drains` |
| `EventReader` | `EventStream` | 3 logs of 3 events (2 on Postgres, whose tail also has a listener to lose), 2 messages of 2 pieces, channels of 1, one fault | `EventsOnce` `TailsGoOn` |
| `FittedWindow` | `ContextWindow` | a window of 12, messages of 1, 6 and 20, one fault, one refusal | `WindowFits` `ContentKept` `GoalStays` |
| `ModelReply` | `ModelStream` | 2 items of 2 pieces, channels of 2 and 1; a turn of both APIs, a summary of one, a hand-off of the other | `WholeOrError` `StreamShown` `NobodyLeft` |
| `SessionTools` | `MCTools` | replies of 2 calls from 3 kits of tools, 3 replies, 2 troubles, both runtimes; and 2 sessions, 3 backends, 2 edits (3 of a Google Doc), 2 reads (1 on the disk), a failed write | `LeaveGiven` `AnswersKept` `DoneAsReported` `EditsKept` |
| `MirroredFile` | `KnowledgeIndex` | 2 callers, 2 changes, 3 attempts, one trouble | `RecordTrue` `Mirrors` |
| `ClientConnections` | `AcpConnection` | 2 connections, the first to speak given, 2 requests, a question, a load, one trouble | `RepliedOnce` `RequestsAnswered` `AskedOnLoad` |

Each explores between two hundred thousand and a little over three million distinct states.

**Why these bounds.** Two calls in one reply are the least at which calls of a round affect each
other, and also give two rounds of one call. Two prompts give a turn and its successor, or a turn
and its steering; the third steers a steered turn, or overtakes the prompt that steered a failed one. In `StoppedObject` a crash and a storage
failure together give a run that stops while redoing what an earlier one left; two crashes in
`SharedAlarm` give a crash during the recovery from one. Two jobs give siblings and a grandchild.
A cache of one with two sessions is always full. Channels of one place make every send block that
can. A window of 12 holds two middle messages and no large one, so every branch of `Fit` is taken.
Three replies give an answer, a change of grants and a call that
meets both; two troubles give a failed step whose round goes on and meets another. Two edits and two reads give an edit between another's read and write; on a Doc the third edit lets one
session empty what it filled while the other's edit is under way (four edits of a Doc, and three with
`Blind = TRUE` and no failed write, keep `SerialKept` as well, with 17 million states each; three edits of a text are
too many states). On Temporal one wake starts a turn, and a prompt and a cancel behind it, or a cancel and a
prompt, come while its step runs: with two wakes no cancel ever has a prompt to stop. The long host meets no
fault, and neither answers, closes nor writes to the job, which the short one does (any three wakes with one fault and a call to a
reply, without a close, keep `CancelsInOrder` and `WakesReach` as well, with four million states). Two connections give a
question that is answered twice, and two requests on one connection join one turn. Connections are alike until
one speaks, so which is first is no choice (`First`). A turn meets both providers' streams, which
differ in how items complete; a summary and a hand-off only read complete items, so one provider
each is enough. In the
other modules one "trouble" at a time is a limit: two independent failures in one run are not
explored there.

`CHECK_DEADLOCK FALSE` is in each configuration because each instance really stops: when its
bounded environment has done everything, nothing is left to do.

### Fairness

* `SessionTurn`: weak fairness of the session's steps, since each runtime runs a session that has
  a step to take (its steps are calls that return, or time out), and of each job's end: a job is
  itself a session whose turn ends. Nothing is assumed of the host.
* `ObjectAlarm`: weak fairness of the run goroutine, the sender, the timer, the alarm and its
  handler: the Go scheduler, `time.AfterFunc` and the platform's promise to fire an alarm it holds.
* `ObjectNetwork`, `AcpConnection`, `TemporalSession`, `HarnessCache`, `ModelStream`: weak fairness of
  one disjunction over all parts: while some part can go on, some part does. It assumes less than
  fairness of each part, and is enough because what the parts do is bounded: nothing there can
  keep another from its step for ever.
  In `AcpConnection` it includes the user who answers what is asked; nobody has to prompt, cancel
  or leave.
* `TemporalSession`: workflows decide and activities end, are tried again or time out, as Temporal
  does it; a client that began a close finishes it. No worker has to die, no host to send.
* `HarnessCache`, `EventStream`, `ModelStream`: goroutines, timers and closers run on (in
  `EventStream` each of them), and the listener dials again. No fault, no cancel and no trim is required.
* `KnowledgeIndex`: calls end, an erase goes on, and indexing is called again and again: agents and
  hosts do, and without a later call nobody repairs a mirror whose call failed.
* `FileEdit` has no liveness property that is checked, `ObjectJournal`, `ContextWindow` and
  `ToolCalls` only safety.

## What is proved

All theorems hold for every value of the constants that satisfies the module's assumption, which
asks only that bounds are natural numbers and sets are of the right members.

**`SessionTurn_proofs`**: every safety property of the run: `ParksOnQuestionAlways`; `KeepsContractAlways`,
that the scheduler implements the contract; `FaultsContainedAlways`, `OneResultPerCallAlways`,
`PromptsArriveAlways` and `AnsweredAlways`. `ParksOnQuestion` is not inductive. Whether a step can
leave two parked calls depends on which calls ran and why; whether a park leaves a wait behind depends
on how `jobs` and `round` agree. The invariant `IInv` adds:

* `WaitsForJob`: a call whose job is waited on, or ended and not taken, still waits if it is in the round;
* `Unmade`: calls not yet made are in no round and have no job, so a new reply starts clean;
* `RunsOK`: the calls of a running Tools step are in the round and either all have just taken their jobs'
  results, or include the parked call;
* `Phase`: which flags can be set at which `pc`.

`StepInv` has one case per action. `ContractStep` then maps each action to a step of the contract
or a stutter, with `IInv` to rule out, for example, a park from a closed session.

The other four follow from `Sound`, which adds layer upon layer, each inductive with those before it. A
layer is proved in two parts where that helps: a lemma says which few moves a step can make for one
prompt, call or answer (one case per action), and another, that none of the moves breaks the layer.

* `Flags`, `Others`: the types. The queues are sequences that only lose, take or append elements
  (`Within`, `Picked`).
* `PromptsOK`: the numbers in mailbox, `first` and inbox rise, none is in two of these places or
  written already, and what is ahead of a prompt in the mailbox is older than what follows. With
  `NoCancel` (a session nobody cancelled sees no cancel) `AllPlaced` says where every prompt is.
  `PromptMove` names the moves of prompts.
* `JobsFit`: for each call, what `jobs`, `live`, `background`, `reported`, `round`, its message and the
  mailbox may say together: it has a job once, is told of its end once, and its end is a result or a
  message, never both. `JobSteps` and `MoveFits` are the two parts.
* `Finishes`, `CompleteAnswered`: a turn that finished has a reply at the end of its window, and nothing
  is written behind it without `finished` being reset.
* `ResultsOK`: a call has a result in the window only when it left the round, and then one.
* `Fed`, `Ended`, `Reaches`: a job that the session waits on runs or has its wake in the mailbox; an ended
  session told every job to stop; an end that was reported is on its way to the model.
* `AnsPc`, `Blocks`, `JobWaits`, `OneAsked`, `AnswersFit`, `RoundGood`, for a reliable runtime or a quiet
  host: a question has one answer on its way, for the call that is parked (or a question that is gone);
  a round never has a new call without a parked one ahead of it, nor a parked one that waits, while the
  turn is alive; so a turn blocks only on calls whose jobs are waited on (`WaitsAreFed`).

What is first in a queue (the first cancel) is a least number, which exists because `<` on numbers is
well-founded (`LeastNumber`). `RoundGood` was found by asking what the last case of `WaitIsFed` needs; that a
second answer breaks it is the second hang below.

**`ObjectAlarm_proofs`**: `TypeOKAlways`, `StepHasAlarmAlways`, `LetterHasSenderAlways`. The invariant
behind the second is `ArmedOK`: what the object believes of the alarm is true (`armed` set means
the alarm is set), a run that armed the watchdog keeps it until it idles, and until then the
alarm is set or its handler is still in hand, or the last `SetAlarm` failed and the object believes in none. It is
needed because `AllSent` and `Refused` re-arm or clear the alarm on that belief alone. The third adds
`WaitsOn`: a letter that no goroutine delivers has the retry's timer and its alarm, unless the last
`SetAlarm` failed, so that a drop, which takes the timer, leaves the alarm.

**`ToolCalls_proofs`**: `LeaveGivenAlways`, `AnswersKeptAlways` and `DoneAsReportedAlways`, for any kits of
tools, reply sizes, failed steps and lost attempts, on both runtimes. The first two are about what happens when a call runs, and what
it finds then was left by an earlier attempt, a park, an answer or another call's commit. `IInv`
says what those leave: `CallGood(c)` relates where a call is in its round, the body kept for it, the
answer it waits for and the leave its user gave; `OneParked` that a round parks on one call;
`GivenKept` that an answer given and not yet committed is in a body that the commit reads. The lemmas
follow a run through its layers (`PermissionLayer`, `ChoiceLayer`, `LayeredGood`) and its end
(`RunEnds`); `RunGood` and `StepsGood` then do for all attempts of a step at once. `LastCall` finds the
call whose "always" answer wins, as the greatest of a finite set, by well-foundedness.

`DoneAsReportedAlways` adds `PlanInv`: the plan is one of the shapes its tools make (`PlanShape`), it
completed what was told and no more (`Agrees`), and a body that changes it is of a plan tool whose
result says so and that applied to the plan the round began with (`PlanCall`). The last is what it
rests on: a handler judges its change by that plan, and the commit replays it on what the calls
before it left (`CompletesAgrees`, `EditsAgrees` and `CreatesPlan` say what a replay then does). The
calls of a round are followed by the least call at which the agreement would end (`LeastNumber`,
`CommitsNew`, `CommitsOld`), as is the equation of `PlanAfter` itself (`PlanAfterEach`), for want
of induction.

**`ObjectNetwork_proofs`**: `OnceEachAlways` and `JobsTrackedAlways`, for any number of jobs at any depth and
any number of letters delivered again. `JobsTracked` relates a parent's records to letters under
way, so `IInv` follows the letters: `Sent` and `Mailed` say that they concern the object's own jobs and
that an end is reported by a session that ended, `CreateFirst` that the letter that creates a job is ahead of those
that stop or close it (without it a close could arrive before its object, count as done, and leave a
job nobody closes), `Fresh` that a job's number was used by none before. All steps of a session but
`Start` are instances of `Moves`, and all requests of `Asks`: each is shown to keep `IInv` once.

**`AcpConnection_proofs`**: `RepliedOnceAlways`, for any number of connections, requests, questions, loads and
troubles. `IInv` adds to it what a frame between two of its calls may count on: `Phases` (the phase of a frame and
the requests it holds), `Follows` (a follow that is not stopped is its connection's), `Owned` and
`Answered` (a request is open at one place, or answered, never both).

**`HarnessCache_proofs`**: `HarnessesSafeAlways` and `CommitsOnceAlways`, for any number of sessions, steps, harnesses and
failures and any limit of the cache; the assumption asks that the steps are finitely many and that
there is a key to start with. That nobody holds a closed harness rests on counts: `IInv` says that
`users` is the number of the steps that are at an entry, that an entry of the cache is not gone and
one that is gone is not the cache's, that `close` is called once and only then with no step left,
and that an entry that waits to be evicted is live (`CacheGood`); which steps are at an entry at all
(`Attempts`); and that whoever reads or writes a checkpoint holds its entry's lock (`Locks`).
`Good` states the counts of any cache and any assignment of steps to entries, so that `DropGood`,
`ReleaseGood`, `UseGood`, `PutGood` and `WithGood` follow the cache through the several changes
of one action; `CacheKeeps` then brings the result back to the invariant.

`Committed` adds, for `CommitsOnce`, how the store, the workflow, its attempts and the harnesses agree
while each is at a revision of its own. `StoreFits`: a revision of the store that the workflow does not know of
is of the Commit it still asks for, or of one that failed for it. `AttemptFits`: an attempt that the workflow
left behind failed for it, or starts from a revision before the workflow's, so that `Save`'s
compare refuses it; of those still asked for there is one to a session. `EntryFits`: a harness at the
store's revision holds its rows, and besides them at most the Commit that is being saved under the lock; once that save
has failed it is stale and no step is at it, unless the session is in `exposed`. `UseFits`: what is saved was
applied to the revision it names, and what is read is a prefix of the store. Neither half holds without the
other: that a retry is not saved twice rests on what its harness holds, and what a harness holds on which attempts may
still save. A write of the store is one lemma (`SavedFitted`), a Commit applied to a harness another
(`AppliedFitted`); all that the cache does between them only moves, loads or drops harnesses (`Loaded`).

**`ObjectJournal_proofs`**: everything `StoppedObject` checks, for any number of wakes, replies, calls,
crashes and storage failures: `CallsRunOnceAlways`, `ReplaysAgreeAlways`, `MailAgreesAlways`, and
`InboxKept`, the refinement of `SessionInbox`. That no call runs twice says nothing of why: the run that did it is gone, and only storage is left. `IInv` adds what storage
keeps. `Journaled` says that some sequence of states leads from the carry, by the entries one after
the other, to `dur`, that each entry is of the kind its state asks for, and that a run stands
at one of these states, a live one at the last; it replaces the recursion over the journal by its
states, which a step extends by one. `RecordsOK` says that a record is of the Tools step at the
journal's end and of a run made for the same reason, and `RanOK` that every run ever made was of an earlier reply,
or of a round that is dead (`Dead`), or left its reason behind (`Past`), or still has its record.
`AfterGood` follows the round through each call of `orchestrator.Run`, by one lemma for each `After...`.

`MInv` adds the mailbox. Storage and memory differ for good reasons: a request loads wakes that the
journal took, a run takes a wake before it writes, a failed write forgets what was taken. `Memory`
says that memory has the wakes nobody took, and besides them only what a run that has not started
will drop; `Pending` what a call or a cancel may have in hand; `Closes` that a session that ends handled a close. A
sequence of rising numbers is determined by its members (`HoldsOnce` of `Picks_proofs`), so each step
only has to say which wakes come and go. `InboxStep` maps `Wake` to `Accept`, a `Write` to
`Handle`, `StopStep` or a stutter, `Finish` to `End`, and all other steps to stutters.

`LInv` adds the log. That an event is not written twice needs what makes it new: `Known` says that every event
of the log is of a step the session has left behind (a reply already counted, an end of a turn that
does not run, a call that is done or has its record), which no entry takes back (`StaysKnown`), while the
event a step writes is not known before (`NewEvent`, `RunLog`). That none is lost needs
`Shown` and `Agrees`: a step that finds a call done, in a record or in memory, finds its event in the log.

**`Picks_proofs`**: what remains of a sequence when some of its elements are taken out, by
cardinality instead of recursion; the proofs above that need it extend it.

**Only model-checked:** all liveness and everything that needs `ENABLED`; the properties of the
modules not named above (`CancelsInOrder`, `WakesReach`, `EditsKept`, `RecordTrue`, `WindowFits`,
`ContentKept`, `GoalStays`, `WholeOrError`, `StreamShown`, `EventsOnce`).

## Where the code and its documentation part

Each was met while modelling. The properties named are definitions of the modules that no passing
run checks, because the code violates them; TLC shows it on the instance given (the other constants
as in the run of that module).

The scheduler and the durable object:

* **A hung turn.** A tools step fails beside a call that waits on a job; the job stays tracked, the
  next prompt commits the round (`turn.go:249`), the job's end is marked for a call no round holds,
  and the turn blocks for ever. `docs/concepts.md:25`: a turn ends with `EventComplete` or
  `EventError`. Drop the condition of the turn's end in `SessionEnds`; a chat of two calls, two
  prompts, faults `{"tool"}`.
* **A lost round.** The round leaves the state before the Commit that writes it (`turn.go:254`); when
  that Commit fails, its calls are in no window. Drop the antecedent of `OneResultPerCall`; faults
  `{"commit"}`, two prompts.
* **A second hung turn.** Two answers to one question come, and a cancel while a step acts on the first.
  The second was held, and resumes the round the cancelled turn left (`turn.go:283`): a call of it waits
  on a job that `cancelJobs` made the session forget, and nothing wakes the turn. `docs/concepts.md:25`
  again. Drop `~session.stale` from `Quiet`; a chat of two calls, one prompt, two answers, a cancel, no
  faults.
* **`PromptsAlwaysInOrder`** (`SessionTurn`). A turn whose step fails keeps the prompts that steered it
  in the inbox (only a cancel empties it, `turn.go:220`), and the next prompt is committed first
  (`turn.go:249`): the model sees the later prompt before the earlier one. The session `Overtaking`.
* **`PromptAfterCancelKept`** (`SessionTurn`). A cancel and a prompt behind it are read in one go:
  the prompt joins the inbox that the cancelled turn drops (`turn.go:230`), though `carry.go:78` keeps
  such a prompt while a step runs. One call, two prompts, an answer, a cancel, no faults.
* **`CancelStops`** (`ObjectJournal`). A cancel taken when all calls of its step have just ended marks
  none of them and is deleted with the entry (`runtime.go:507`); `docs/session.md:78`: "`Cancel` stops
  the turn". Kinds prompt and cancel, two wakes, one call, no failure.
* **`StepsEnd`** (`ObjectAlarm`). After a crash in a step, a request that only reads loads the object;
  a failed and then successful delivery replaces and clears the alarm that should restart the step
  (`outbox.go:178`); `docs/session.md:143`: the watchdog's alarm restarts it. One wake, two steps, a
  letter, a crash, a failed delivery.
* **`StepAlwaysHasAlarm`**, **`LettersEnd`** (`ObjectAlarm`). A failure to set the alarm is ignored
  (`outbox.go:182`). A step then runs without one until the watchdog's next extension
  (`runtime.go:346`: "busy sets the watchdog alarm while a step runs"), so an object that stops in between is not
  restarted. And a letter whose delivery failed, in an object that the registry then drops with its timer, has
  nobody to send it, though no process stopped (`outbox.go:19`: "so none is lost when the object stops"). One
  wake, two steps, a letter; for the second a failed delivery.
* **`CloseEndsAll`** (`ObjectNetwork`). A close during a turn waits for the turn, but from then on the
  object refuses every wake except a close (`object.go:333`), also the job's end the turn waits on;
  `docs/session.md:80`. One job, one prompt, one close.

Temporal:

* **`JobsStop`** (`TemporalSession`). A child that blocks in `Next` listens for wakes and not for its
  workflow's cancel (`workflow.go:488`); `docs/session.md:78`. **`ClosedIsGone`**: between the mark and
  the delete of a close (`client.go:244`) a child's Commit may write again. One worker, two replies,
  two or three wakes. `client.go:205` also stores a prompt's secrets before it asks whether the
  session is closed.
* **`AckedIsSaved`** (`HarnessCache`). A Commit that a later attempt overtook answers success without
  a save (`activities.go:238`, `snapshot.go:72`). **`SavedOnceAlways`**: after a failed Commit "drops the
  harness" (`harness_cache.go:105`), another step may still hold it. The limit (`:58`) may be
  passed: `makeRoom` closes one harness, and none that is held.

Tool calls (`ToolCalls`, the constants of `SessionTools`):

* **`LastAnswerCounts`**. A step fails beside the first call of a reply while the second one of the same tool
  parks; the user allows the second always, and then rejects the first always. The answers commit in
  call order, so "allow always" wins (`session_manager.go:60`); `docs/tools.md:110`: an "always" answer
  "applies to the tool for the rest of the session". The first answer also does not keep the second
  call of its own reply from asking (`call.go:173`).
* **`AnswerTaken`** (Runtimes `{"temporal"}`). An attempt that took an answer, stored its body and was
  lost is tried again with that body: the question is not open any more, so the turn fails though
  the tool may have run, or the answer goes to the next question if that accepts it
  (`session/internal/calls.go:26`, `call.go:134`); `docs/session.md:102`: "tool calls change nothing that
  a later step reads". It holds with Runtimes `{"object"}`.
* Also, of the plan: `complete_todo` starts the next open todo *after* the completed one, so todos
  completed out of order leave two in progress, and completing the last one answers "All todos
  completed" while earlier ones are open (`builtins.go:231`); two calls of one reply that together
  complete everything still hand off, from the first one's effect; a change that was reported done
  may be skipped at Commit (`builtins.go:180`); a plan with no todos left is "no plan" after a
  restore, since a checkpoint has a row per todo. And of jobs: `CancelJob` does not drop the job
  from `Jobs` (`call.go:309`), and each call counts the running jobs for itself (`call.go:282`), so the
  calls of one reply may pass the limit together (`docs/session.md:112`).

Events, files, knowledge:

* **`TailsEndEverywhere`** (`EventStream`, Stores `{"postgres"}`): the Postgres tail does not end with
  its session (`eventlog.go:164`). `TextOnce` is false with `Far = TRUE` on the memory log: a reader that
  follows from past a text's start and a retry (`live.go:61`). A memory tail with a cursor after
  the head falls back to the head (`eventlog.go:74`).
* **`EditsWhatWasRead`** (`FileEdit`, Backends `{"object"}`): an edit is applied to a file that changed
  between the token's check and the write; `docs/workspace.md:114`. A whole-file write of a text ignores
  the token it was given (`applyFull`).
* **`RetriesKeep`** (`FileEdit`, Backends `{"doc"}`, two edits): an edit of a Doc that meets a conflict reads the
  Doc again for its revision only and writes its old document with it (`mutate.go:474`), so an edit reported done
  in between is undone; `docs/workspace.md:114`. The edit need not be blind or stale in its token: both
  sessions may have read the same state. With three edits it may even undo one that was reported done
  before it began: an edit of a Doc deletes the blocks and then inserts them (`gdrive_write.go:595`), so
  another session that last read an empty Doc finds it empty once more, its token matches (`mutate.go:446`),
  and the retry does the rest. On the local disk the truncation (`local.go:112`) makes the same gap, and no
  retry is needed. `SerialKept` therefore asks only for what the file held when it was opened.
* **`StagingKept`** (`KnowledgeIndex`): a commit does not notice staging rows that were lost with the
  database's restart or removed by an erase, against `brain/postgres/doc.go:21`. **`NodeMirrors`**: a
  graph node whose Put failed is skipped by the next index (`docs/knowledge.md:168`). A stale
  reading may also be committed over a newer one (`knowledge.md:169`) until the next call.
* **`SummariesFit`** (`ContextWindow`): a summary's request is the window and an instruction more, so
  it can pass the size (`window.go:22`), and then every later Commit fails on it. `InstallPlan` drops
  messages without archiving them (`docs/knowledge.md:157`).
* **`SummaryIsWritten`** (`ModelStream`): `summarize` joins a text's deltas, its complete copy and the
  reasoning (`model_tasks.go:149`; `docs/context.md:25`). A refusal of the OpenAI stream that is not
  its last event, and a function call that never completed, are dropped.

The ACP server:

* **`EveryRequestAnswered`** (`AcpConnection`). A session that parks between the Head and the prompt of
  another connection, or between the Status and the Head of a load, is followed from past its
  question: nobody is asked, and the prompt waits (`acp_protocol.go:337`, `acp_wire_session.go:94`;
  `docs/protocol.md:76`).
* **`AnsweredByItsTurn`**. A prompt sent when the turn's end is logged and not delivered is answered by
  that end, before its own turn (`acp_protocol.go:388`; `docs/protocol.md:61`).
* Also: `closeSession` stops following without a response to open prompts; a Client's Close that fails
  after the wire row is gone is not told and leaves the session; `createSession` leaves a session
  whose row was not stored; a load of a session whose stream then breaks tells nothing;
  credentials taken for a prompt that is not sent are lost (`acp_wire_session.go:146`).

Others, which no single line contradicts: after a restart, a cancel while the harness is built makes
recorded calls report the cancel (`runtime.go:485`); an alarm is used up when it fires
(`object.go:381`), a wake stored before any alarm is armed (`object.go:362`) and letters of an idle
object that crashes (`runtime.go:364`) wait for the next request; a closed or purged job deletes the
records of its own jobs without closing them (`runtime.go:743`, `object.go:602`); prompts in the
inbox are lost when the Commit that writes them fails (`turn.go:307`).

## Not modelled, and why

Timing (durations, back-off, deadlines) is left to nondeterminism. Encodings, provider
protocols, SQL and HTTP are I/O. Not modelled at all: the object runtime's harness and
memory host (one harness under one lock), the registry's map of objects by id, construction of agents, office and tabular codecs, routing
and unions of mounts, searches and ranks of the brain (they read), MCP, skills, shell, web,
telemetry and examples. Within the modelled parts: the chunked rows of a checkpoint and seals
in `ObjectJournal`; the limit of running jobs, a parked child and the brain's `Forget` in
`ObjectNetwork`; a late `ClearCalls` (`activities.go:247`) in `HarnessCache`; several calls of a
reply in `TemporalSession`; authentication, credentials and MCP servers in `AcpConnection`.

## Plan

Done: the scheduler and its contract, both runtimes, the alarm, the tree, the cache, the event
stream, the window, the streams, tool calls, edits, the index, the ACP server, and the proofs above. Next, most
important first:

1. Proofs: `EventsOnce` of `EventStream`, `RecordTrue` of `KnowledgeIndex`, `WindowFits` and `ContentKept` of
   `ContextWindow`.
2. A refinement of `EventStream` to an abstract stream (each event once, in order, from its cursor).
3. Chunking, rank fusion and the filter plan of the brain, as functions against a reference definition;
   routing and unions of mounts likewise.
4. Two troubles at a time in `HarnessCache` and `AcpConnection`, by simulation of longer behaviours.
