----------------------------- MODULE ToolCalls -----------------------------
(***************************************************************************)
(* The tool calls of a session's replies: which of them ask the user, what  *)
(* an answer allows and for how long, and what they change when their round *)
(* commits (call.go, tool_runner.go, durable_steps.go, builtins.go).        *)
(*                                                                         *)
(* The calls of a reply run at once on one harness.  A run reads the        *)
(* session's committed state and its own body, and writes only its body: the *)
(* question it parks on, the OnCall layers it passed, the user's "always"   *)
(* answer, its plan change, its result.  A round parks on one question; the  *)
(* calls that would park beside it run again after the answer.  The Commit   *)
(* of the round applies the bodies in call order.                           *)
(*                                                                         *)
(* A body is kept under its call's key: by a durable object in one write    *)
(* with the fact that the call ran, by Temporal in the store before the     *)
(* activity reports, so an attempt that is lost leaves its body behind.     *)
(*                                                                         *)
(* Left out: jobs (SessionTurn), the window (ContextWindow), user-state     *)
(* values and search rests, which commit as the answers do, host            *)
(* interceptors, the time limit of a tool, and todos added by an edit.      *)
(***************************************************************************)
EXTENDS Naturals, Sequences, SequencesExt, FiniteSets

CONSTANTS
    MaxCalls,    \* bound: calls of one reply
    Kits,        \* the sets of tools a session may have, each a set of names
    Runtimes,    \* a subset of {"object", "temporal"}
    MaxReplies,  \* bound: replies of the whole run
    MaxTroubles  \* bound: failed steps, lost attempts, cancels, bad answers, redeploys

ASSUME CallsAssumption ==
    /\ MaxCalls \in Nat /\ MaxReplies \in Nat /\ MaxTroubles \in Nat
    /\ Runtimes \subseteq {"object", "temporal"}

Calls == 1..MaxCalls

VARIABLES
    runtime,    \* where the session runs
    tools,      \* its tools
    granted,    \* permissions.granted: the host's AllowTools
    decisions,  \* permissions.decisions: the user's committed "always" answers
    plan,       \* planStore.todos
    turn,       \* "busy", "parked" or "failed"
    round,      \* per call of the open reply: its tool, how far it came, what it asks
    body,       \* per call: its CallBody, where the runtime keeps it
    step,       \* per call: its part of the Tools step that runs
    answer,     \* the answer the step took, and the call it is for
    given,      \* history: the "always" answers given in the open round, by tool
    leave,      \* history: calls of the round that had leave to run
    reported,   \* history: todos that results of committed rounds call completed
    replies, troubles  \* counters

committed == <<decisions, plan, reported>>
history == <<given, leave>>
vars == <<runtime, tools, granted, committed, turn, round, body, step, answer, history,
          replies, troubles>>

-----------------------------------------------------------------------------
(* The tools. *)

\* The types of the interrupts a tool's OnCall layers park on, in order.
Layers(tool) == CASE tool = "gate"   -> <<"permission">>
                  [] tool = "deploy" -> <<"permission", "choice">>
                  [] OTHER           -> <<>>

Gated(tool) == tool \in {"gate", "deploy"}

\* The tools with write access, for planningWriteLock.
Writes(tool) == tool = "deploy"

\* Interrupt.Return: the answers each type of question accepts.
Accepts(type, payload) ==
    CASE type = "permission" -> payload \in {"allow_once", "allow_always", "reject_once", "reject_always"}
      [] type = "choice"     -> payload = "pick"
      [] OTHER               -> TRUE

Allowed(payload) == payload \in {"allow_once", "allow_always"}

\* rememberAnswer: a once-answer is not remembered.
Remembered(payload) == CASE payload = "allow_always"  -> "allow"
                         [] payload = "reject_always" -> "deny"
                         [] OTHER                     -> "none"

-----------------------------------------------------------------------------
(* The plan: todos with a title and a status, changed by the plan tools. *)

Todo(title, status) == [title |-> title, status |-> status]
NewPlan == <<Todo(1, "in_progress"), Todo(2, "pending")>>

PlanTools == {"create_plan", "complete_1", "complete_2", "edit_plan"}
Completes == [complete_1 |-> 1, complete_2 |-> 2]

Titled(p, title) == {i \in DOMAIN p : p[i].title = title}
Open(p) == {i \in DOMAIN p : p[i].status # "completed"}
Done(p) == {p[i].title : i \in DOMAIN p \ Open(p)}

\* HasActive: the write tools are unlocked.
HasActive(p) == p # <<>>

\* A plan tool's change applies to p: create_plan wants none, complete_todo and
\* edit_plan (which deletes the second todo) an open todo of the title.
Applies(tool, p) ==
    CASE tool = "create_plan"       -> ~HasActive(p)
      [] tool \in DOMAIN Completes  -> Titled(p, Completes[tool]) \cap Open(p) # {}
      [] OTHER                      -> Titled(p, 2) \cap Open(p) # {}

\* completeTodoChange: the next open todo after the completed one starts.
CompleteTodo(p, title) ==
    LET i == CHOOSE k \in Titled(p, title) : TRUE
        after == {j \in Open(p) : j > i}
        Starts(j) == j \in after /\ \A k \in after : j <= k
    IN  [j \in DOMAIN p |-> IF j = i THEN Todo(title, "completed")
                            ELSE IF Starts(j) THEN Todo(p[j].title, "in_progress")
                            ELSE p[j]]

Change(tool, p) ==
    CASE tool = "create_plan"       -> NewPlan
      [] tool \in DOMAIN Completes  -> CompleteTodo(p, Completes[tool])
      [] OTHER                      -> RemoveAt(p, CHOOSE i \in Titled(p, 2) : TRUE)

\* replayPlanOp: a change that no longer applies is skipped.
Replay(tool, p) == IF Applies(tool, p) THEN Change(tool, p) ELSE p

-----------------------------------------------------------------------------
NoBody == [park |-> "none", payload |-> "none", layers |-> {}, always |-> "none",
           op |-> FALSE, result |-> "none"]
NoCall == [tool |-> "none", at |-> "out", asks |-> "none"]
NoAnswer == [call |-> 0, payload |-> "none"]
Questions == {"permission", "choice", "auth"}

InReply  == {c \in Calls : round[c].at # "out"}
Pending  == {c \in Calls : round[c].at = "new"}
Parked   == {c \in Calls : round[c].at = "park"}
Ended    == {c \in Calls : round[c].at = "done"}
Complete == InReply # {} /\ InReply = Ended
Stepping == {c \in Calls : step[c] # "no"}

TypeOK ==
    /\ runtime \in Runtimes /\ tools \in Kits /\ granted \subseteq tools
    /\ decisions \in [tools -> {"none", "allow", "deny"}]
    /\ \A i \in DOMAIN plan : plan[i].status \in {"pending", "in_progress", "completed"}
    /\ turn \in {"busy", "parked", "failed"}
    /\ \A c \in Calls :
        /\ round[c].tool \in tools \cup {"none"} /\ round[c].at \in {"out", "new", "park", "done"}
        /\ round[c].at = "park" <=> round[c].asks \in Questions
        /\ body[c].park \in Questions \cup {"none"} /\ body[c].layers \subseteq Questions
        /\ body[c].result \in {"none", "ok", "denied", "locked", "failed"}
        /\ step[c] \in {"no", "run", "ran", "error"}
    /\ answer.call \in Calls \cup {0}
    /\ Cardinality(Parked) <= 1
    /\ replies \in 0..MaxReplies /\ troubles \in 0..MaxTroubles

Nothing == [t \in tools |-> <<>>]

Init ==
    /\ runtime \in Runtimes /\ tools \in Kits /\ granted \in SUBSET {t \in tools : Gated(t)}
    /\ decisions = [t \in tools |-> "none"]
    /\ plan \in {<<>>, NewPlan}
    /\ turn = "busy"
    /\ round = [c \in Calls |-> NoCall] /\ body = [c \in Calls |-> NoBody]
    /\ step = [c \in Calls |-> "no"] /\ answer = NoAnswer
    /\ given = Nothing /\ leave = {} /\ reported = {}
    /\ replies = 0 /\ troubles = 0

Trouble == troubles < MaxTroubles /\ troubles' = troubles + 1

-----------------------------------------------------------------------------
(* One run of a call: Harness.RunCall through the interceptor chain. *)

\* LoadBodies: a call that ran before gets its body back.
Loaded(c) == IF round[c].at = "new" THEN NoBody ELSE body[c]

\* CallContext.resume: the answer needs an open question that accepts it.
Resumable(c) ==
    answer.call = c => /\ Loaded(c).park # "none" /\ Loaded(c).payload = "none"
                       /\ Accepts(Loaded(c).park, answer.payload)
Resumed(c) == IF answer.call = c THEN [Loaded(c) EXCEPT !.payload = answer.payload] ELSE Loaded(c)

\* A slip of Decision: the host's grant wins over the user's decision.
GrantFirst(b, tool) == IF b.always # "none" THEN b.always
                       ELSE IF tool \in granted THEN "allow" ELSE decisions[tool]

\* CallContext.decision over permissions.Decision: the call's own answer, else
\* the committed one, which wins over a grant.
Decision(b, tool) == IF b.always # "none" THEN b.always
                     ELSE IF decisions[tool] # "none" THEN decisions[tool]
                     ELSE IF tool \in granted THEN "allow" ELSE "none"

\* takeAnswer: an answered park of the type, which is then gone.
Answered(b, type) == b.park = type /\ b.payload # "none"
Take(b) == [b EXCEPT !.park = "none", !.payload = "none"]
Remember(b) == IF Remembered(b.payload) = "none" THEN b ELSE [b EXCEPT !.always = Remembered(b.payload)]

\* CallContext.park: the question replaces what the call asked before.
ParkOn(b, type) == [b EXCEPT !.park = type, !.payload = "none"]
Result(b, r) == [b EXCEPT !.result = r]

\* A slip of FinishLayer: an allowed layer is not kept.
FinishForgets(b, type, denied) == IF denied THEN Result(b, "denied") ELSE b

\* finishOnCallLayer: a denied call fails, an allowed one keeps the layer.
FinishLayer(b, type, denied) ==
    IF denied THEN Result(b, "denied") ELSE [b EXCEPT !.layers = @ \cup {type}]

\* The call goes on past what ran so far.
GoesOn(b) == b.result = "none" /\ (b.park = "none" \/ b.payload # "none")

\* applyOnCallLayer, for a call that came so far.
ApplyLayer(b, tool, type) ==
    IF type \in b.layers THEN b
    ELSE IF Answered(b, type)
    THEN FinishLayer(Take(IF type = "permission" THEN Remember(b) ELSE b), type,
                     type = "permission" /\ ~Allowed(b.payload))
    ELSE IF type = "permission" /\ Decision(b, tool) # "none"
    THEN FinishLayer(b, type, Decision(b, tool) = "deny")
    ELSE ParkOn(b, type)

\* onCallMiddleware: the layers in order, at most two, up to one at which the
\* call stops.
Layered(b, tool) ==
    LET Layer(so_far, i) == IF i \in DOMAIN Layers(tool) /\ GoesOn(so_far)
                            THEN ApplyLayer(so_far, tool, Layers(tool)[i]) ELSE so_far
    IN  Layer(Layer(b, 1), 2)

\* The handlers: ask_user_choice parks until it has its answer, a plan tool
\* tries its change on the plan it sees.
Handler(b, tool) ==
    CASE tool = "ask_user_choice" /\ Answered(b, "choice") -> Result(Take(b), "ok")
      [] tool = "ask_user_choice" /\ ~Answered(b, "choice") -> ParkOn(b, "choice")
      [] tool \in PlanTools /\ ~Applies(tool, plan) -> Result(b, "failed")
      [] OTHER -> [Result(b, "ok") EXCEPT !.op = tool \in PlanTools]

\* planningWriteLock comes before the layers.
Locked(tool) == Writes(tool) /\ ~HasActive(plan)

Reaches(b, tool) == ~Locked(tool) /\ GoesOn(Layered(b, tool))

Ends(b, tool) == IF Locked(tool) THEN Result(b, "locked")
                 ELSE IF Reaches(b, tool) THEN Handler(Layered(b, tool), tool)
                 ELSE Layered(b, tool)

\* Why a call's handler may run: its user allowed this call, or has always
\* allowed the tool, or the host grants it and the user did not always reject it.
HasLeave(c) ==
    LET tool == round[c].tool
    IN  \/ answer.call = c /\ Loaded(c).park = "permission" /\ Allowed(answer.payload)
        \/ decisions[tool] = "allow"
        \/ decisions[tool] = "none" /\ tool \in granted

\* The call's run ends with body b, which is stored.
Keep(c, b) ==
    /\ step[c] = "run" /\ Resumable(c)
    /\ step' = [step EXCEPT ![c] = "ran"]
    /\ body' = [body EXCEPT ![c] = b]
    /\ given' = IF b.always = Loaded(c).always THEN given
                ELSE [given EXCEPT ![round[c].tool] = Append(@, b.always)]
    /\ leave' = (IF round[c].at = "new" THEN leave \ {c} ELSE leave)
                \cup (IF HasLeave(c) THEN {c} ELSE {})
    /\ UNCHANGED <<runtime, tools, granted, committed, turn, round, answer, replies>>

RunCall(c) == Keep(c, Ends(Resumed(c), round[c].tool)) /\ UNCHANGED troubles

\* The tool's credentials expired: the call parks until the host binds new ones.
Expired(c) ==
    /\ Trouble
    /\ Gated(round[c].tool) /\ Reaches(Resumed(c), round[c].tool)
    /\ Keep(c, ParkOn(Layered(Resumed(c), round[c].tool), "auth"))

\* An answer to a question that is not open, or that does not accept it.
Refused(c) ==
    /\ step[c] = "run" /\ ~Resumable(c)
    /\ step' = [step EXCEPT ![c] = "error"]
    /\ UNCHANGED <<runtime, tools, granted, committed, turn, round, body, answer, history,
                   replies, troubles>>

\* The step fails beside the call: its harness or its body cannot be read.
StepFails(c) ==
    /\ step[c] = "run" /\ Trouble
    /\ step' = [step EXCEPT ![c] = "error"]
    /\ UNCHANGED <<runtime, tools, granted, committed, turn, round, body, answer, history, replies>>

\* A worker dies after it stored the body and before its activity reported:
\* the activity runs again.
AttemptLost(c) ==
    /\ runtime = "temporal" /\ step[c] = "ran" /\ Trouble
    /\ step' = [step EXCEPT ![c] = "run"]
    /\ UNCHANGED <<runtime, tools, granted, committed, turn, round, body, answer, history, replies>>

\* A cancel stops the calls that run; on Temporal also one that stored its body
\* and has not reported.
CancelStep(lost) ==
    /\ Trouble
    /\ lost \subseteq {c \in Calls : step[c] = "ran" /\ runtime = "temporal"}
    /\ LET stopped == lost \cup {c \in Calls : step[c] = "run"}
       IN  /\ stopped # {}
           /\ step' = [c \in Calls |-> IF c \in stopped THEN "error" ELSE step[c]]
    /\ UNCHANGED <<runtime, tools, granted, committed, turn, round, body, answer, history, replies>>

-----------------------------------------------------------------------------
(* The round: State.drive, runs and record. *)

\* A reply asks for the calls r.
TakeReply(r) ==
    /\ turn = "busy" /\ InReply = {} /\ replies < MaxReplies
    /\ replies' = replies + 1
    /\ round' = [c \in Calls |-> IF c \in DOMAIN r THEN [NoCall EXCEPT !.tool = r[c], !.at = "new"]
                                 ELSE NoCall]
    /\ UNCHANGED <<runtime, tools, granted, committed, turn, body, step, answer, history, troubles>>

\* Every call that has not run does, while none is parked.
StartCalls ==
    /\ turn = "busy" /\ Stepping = {} /\ Parked = {} /\ Pending # {}
    /\ step' = [c \in Calls |-> IF c \in Pending THEN "run" ELSE "no"]
    /\ UNCHANGED <<runtime, tools, granted, committed, turn, round, body, answer, history,
                   replies, troubles>>

\* The turn yields on its question.
Ask ==
    /\ turn = "busy" /\ Stepping = {} /\ Parked # {}
    /\ turn' = "parked"
    /\ UNCHANGED <<runtime, tools, granted, committed, round, body, step, answer, history,
                   replies, troubles>>

\* The host answers the question: its call runs with the answer, and with it
\* every call that has not run yet.
Resume(c, payload) ==
    /\ turn = "parked" /\ c \in Parked
    /\ IF payload = "bad" THEN Trouble
       ELSE Accepts(round[c].asks, payload) /\ UNCHANGED troubles
    /\ turn' = "busy" /\ answer' = [call |-> c, payload |-> payload]
    /\ step' = [k \in Calls |-> IF k = c \/ k \in Pending THEN "run" ELSE "no"]
    /\ UNCHANGED <<runtime, tools, granted, committed, round, body, history, replies>>

\* A resume without an answer goes on with the round of a failed turn.
ResumeBare ==
    /\ turn = "failed" /\ InReply # {}
    /\ turn' = "busy"
    /\ UNCHANGED <<runtime, tools, granted, committed, round, body, step, answer, history,
                   replies, troubles>>

\* A cancel between two steps, or of a parked session.
Cancel ==
    /\ turn \in {"busy", "parked"} /\ Stepping = {} /\ InReply # {} /\ Trouble
    /\ turn' = "failed"
    /\ UNCHANGED <<runtime, tools, granted, committed, round, body, step, answer, history, replies>>

\* record: the calls that ran go back to the round in call order.  One that
\* parks while another call is parked counts for nothing and runs again.
Asking == {c \in Calls : step[c] = "ran" /\ body[c].result = "none"}
Unblocked == {c \in Asking : \A d \in Parked : d = c \/ (d < c /\ step[d] = "ran" /\ d \notin Asking)}
Parks(c) == c \in Unblocked /\ \A d \in Unblocked : c <= d

Recorded ==
    [c \in Calls |->
        IF step[c] # "ran" THEN round[c]
        ELSE IF c \notin Asking THEN [round[c] EXCEPT !.at = "done", !.asks = "none"]
        ELSE IF Parks(c) THEN [round[c] EXCEPT !.at = "park", !.asks = body[c].park]
        ELSE [round[c] EXCEPT !.at = "new", !.asks = "none"]]

Record ==
    /\ Stepping # {} /\ \A c \in Calls : step[c] # "run"
    /\ round' = Recorded
    /\ turn' = IF \E c \in Calls : step[c] = "error" THEN "failed" ELSE "busy"
    /\ step' = [c \in Calls |-> "no"] /\ answer' = NoAnswer
    /\ UNCHANGED <<runtime, tools, granted, committed, body, history, replies, troubles>>

-----------------------------------------------------------------------------
(* The Commit of a round: commitReplyRound and sessionManager.apply. *)

\* The calls whose bodies commit: LoadBodies reads none of a call whose run
\* counts for nothing.
Commits(c) == round[c].at \notin {"out", "new"}

\* The last call of a tool with an answer decides for it.
Deciding(t) == {c \in Calls : Commits(c) /\ round[c].tool = t /\ body[c].always # "none"}
Decided ==
    [t \in tools |->
        IF Deciding(t) = {} THEN decisions[t]
        ELSE body[CHOOSE c \in Deciding(t) : \A d \in Deciding(t) : d <= c].always]

\* A slip of ApplyCall: a call commits the plan it saw, with its change.
ApplyPlanSeen(p, c) == IF Commits(c) /\ body[c].op THEN Replay(round[c].tool, plan) ELSE p

\* A call's change on the plan as the calls before it left it.
ApplyCall(p, c) == IF Commits(c) /\ body[c].op THEN Replay(round[c].tool, p) ELSE p

\* The plan after the calls up to c.
PlanAfter[c \in 0..MaxCalls] == IF c = 0 THEN plan ELSE ApplyCall(PlanAfter[c - 1], c)
Applied == PlanAfter[MaxCalls]

\* The todos the round's results call completed, on top of those of the plan
\* so far, or of the new plan.
Told ==
    LET ok == {round[c].tool : c \in {k \in Ended : body[k].result = "ok"}}
    IN  (IF "create_plan" \in ok THEN {} ELSE reported)
        \cup {Completes[t] : t \in ok \cap DOMAIN Completes}

CommitRound ==
    /\ decisions' = Decided /\ plan' = Applied /\ reported' = Told

RoundOver ==
    /\ round' = [c \in Calls |-> NoCall] /\ body' = [c \in Calls |-> NoBody]
    /\ given' = Nothing /\ leave' = {}

\* A complete round commits.
Commit ==
    /\ turn = "busy" /\ Stepping = {} /\ Complete
    /\ CommitRound /\ RoundOver
    /\ UNCHANGED <<runtime, tools, granted, turn, step, answer, replies, troubles>>

\* The Commit fails, and the turn with it; the round stays.
CommitFails ==
    /\ turn = "busy" /\ Stepping = {} /\ Complete /\ Trouble
    /\ turn' = "failed"
    /\ UNCHANGED <<runtime, tools, granted, committed, round, body, step, answer, history, replies>>

\* A prompt moves past the open round: its calls without a result are
\* cancelled, and what its calls wrote so far commits.
Prompt ==
    /\ turn \in {"parked", "failed"}
    /\ turn' = "busy"
    /\ CommitRound /\ RoundOver
    /\ UNCHANGED <<runtime, tools, granted, step, answer, replies, troubles>>

\* The prompt's Commit fails: the round it took is lost.
PromptFails ==
    /\ turn \in {"parked", "failed"} /\ Trouble
    /\ turn' = "failed"
    /\ RoundOver
    /\ UNCHANGED <<runtime, tools, granted, committed, step, answer, replies>>

\* The harness is built again with other AllowTools; the checkpoint restores
\* the user's decisions and the plan.
Redeploy(grants) ==
    /\ Stepping = {} /\ grants # granted /\ Trouble
    /\ granted' = grants
    /\ UNCHANGED <<runtime, tools, committed, turn, round, body, step, answer, history, replies>>

Payloads == {"allow_once", "allow_always", "reject_once", "reject_always", "pick", "bad"}
ToolReplies == UNION {[1..n -> tools] : n \in 1..MaxCalls}

Next ==
    \/ \E c \in Calls : \/ RunCall(c) \/ Expired(c) \/ Refused(c) \/ StepFails(c) \/ AttemptLost(c)
                        \/ \E payload \in Payloads : Resume(c, payload)
    \/ \E lost \in SUBSET Calls : CancelStep(lost)
    \/ \E r \in ToolReplies : TakeReply(r)
    \/ StartCalls \/ Ask \/ ResumeBare \/ Cancel \/ Record
    \/ Commit \/ CommitFails \/ Prompt \/ PromptFails
    \/ \E grants \in SUBSET {t \in tools : Gated(t)} : Redeploy(grants)

Spec == Init /\ [][Next]_vars

-----------------------------------------------------------------------------
(* Properties. *)

\* The tool's handler runs in this step.
HandlerRuns(c) ==
    /\ step[c] = "run" /\ step'[c] = "ran"
    /\ \/ body'[c].result = "ok"
       \/ body'[c].park = "auth" /\ body'[c].payload = "none"

\* applyOnCallLayer (tool_runner.go:78): however calls park beside each other,
\* run again, lose their answers or find other grants, the handler of a tool
\* that asks for permission runs only in a call that had leave in this round.
LeaveGiven == [][\A c \in Calls : HandlerRuns(c) /\ Gated(round[c].tool) => c \in leave']_vars

\* commitReplyRound (durable_steps.go:49): when a round commits, an "always"
\* answer the user gave in it is the tool's decision from then on, also when
\* its call was parked again, cancelled or moved past by a prompt; no other
\* tool's decision changes.
RoundCommits == InReply # {} /\ InReply' = {} /\ turn' = "busy"
AnswersCommit ==
    RoundCommits => \A t \in tools :
        IF given[t] = <<>> THEN decisions'[t] = decisions[t] ELSE decisions'[t] \in ToSet(given[t])

\* recordLayer (call.go:167): a call that had leave does not ask for it again,
\* whatever else it parks on.
AsksOnce == \A c \in leave' : body'[c].park # "permission"

AnswersKept == [][AnswersCommit /\ AsksOnce]_vars

\* replayPlanOp (builtins.go:184): whatever plan changes of one reply meet, the
\* plan calls completed the todos that committed results call completed, and
\* no other; a todo that was reported and is not in the plan was deleted.
DoneAsReported ==
    /\ TypeOK
    /\ Done(plan) \subseteq reported
    /\ \A t \in reported : t \in Done(plan) \/ Titled(plan, t) = {}

\* docs/tools.md:110: "An "always" answer applies to the tool for the rest of
\* the session".  The last one given in a round is the one that commits.
LastAnswerCounts ==
    [][RoundCommits => \A t \in tools : given[t] # <<>> => decisions'[t] = Last(given[t])]_vars

\* call.go:109: the answer to the question the user was shown is taken.
AnswerTaken ==
    [][\A c \in Calls : answer.payload # "bad" /\ step[c] = "run" /\ step'[c] = "error" => Resumable(c)]_vars
=============================================================================
