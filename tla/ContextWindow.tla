---------------------------- MODULE ContextWindow ----------------------------
(***************************************************************************)
(* A session's context window (window.go): rounds are fitted, a window over *)
(* its pressure collapses into a summary, a round that is too large is cut, *)
(* a plan or a hand-off replaces the window, a refused request collapses    *)
(* it; and the checkpoint rows that a Commit saves of it                    *)
(* (session/checkpoint.go), which a restart restores.                       *)
(*                                                                         *)
(* A message has an identity, a kind and a size in bytes; a summary or a    *)
(* hand-off carries, as history, the messages it was written from.  Steps   *)
(* of one session come one at a time, so an operation is one action; what   *)
(* may fail in it is chosen with it.                                        *)
(*                                                                         *)
(* Left out: the todos, state, permissions and rests of a checkpoint, whose *)
(* rows change like the window's, and the encoding of messages.             *)
(***************************************************************************)
EXTENDS Naturals, Sequences, FiniteSets, SequencesExt

CONSTANTS
    Size,        \* window.size, in tokens
    Sizes,       \* sizes of messages, in bytes
    MaxMade,     \* bound: messages made
    MaxRefusals, \* bound: requests under the size that the provider refuses
    MaxFaults    \* bound: counts, archives, summaries or saves that fail

VARIABLES
    msgs,      \* window.msgs
    count,     \* window.count: [tokens, messages]
    counts,    \* the model's CountTokens counts (else window.cannotCount)
    brain,     \* the session keeps its history (keepsHistory)
    next,      \* what the turn does next: "prompt", "infer", "commit" or "refit"
    round,     \* Round: the reply, its results, its effect and the provider's count
    refit,     \* turn.go's refit: the window collapsed for a refused request
    stored,    \* the saved rows, by key
    digest,    \* the runtime's CheckpointDigest
    archived,  \* history: messages saved for search
    said,      \* history: messages committed that the window or the search still owes
    fitted,    \* history: the last Commit fitted its round
    over,      \* history: the kinds of requests sent that were over Size
    made, refusals, faults

vars == <<msgs, count, counts, brain, next, round, refit, stored, digest, archived, said,
          fitted, over, made, refusals, faults>>

-----------------------------------------------------------------------------
\* Messages: their sizes, and the requests that carry them.

Msg(i, kind, size, of) == [id |-> i, kind |-> kind, size |-> size, cut |-> FALSE, of |-> of]
Ids(s) == {s[i].id : i \in DOMAIN s}
\* What a reader of s knows of: its messages, and those its summaries were made of.
Covered(s) == Ids(s) \cup UNION {s[i].of : i \in DOMAIN s}
WithoutReasoning(s) == SelectSeq(s, LAMBDA m : m.kind # "reasoning")
From(s, n) == SubSeq(s, n, Len(s))

\* An encoded message, with the note of a cut one, and two of its bytes in a token.
Bytes(m) == 1 + m.size + (IF m.cut THEN 1 ELSE 0)
MessagesSize(s) == FoldLeft(LAMBDA n, m : n + Bytes(m), 0, s)

\* A request adds the system prompt and the tools; a model task adds an instruction.
Request(s) == FoldLeft(LAMBDA n, m : n + (Bytes(m) + 1) \div 2, 1, s)
TaskRequest(s) == 1 + Request(s)
EncodedSize(s) == 2 + MessagesSize(s)

Threshold == (Size * 85) \div 100
NoCount == [tokens |-> 0, messages |-> 0]

BoundOfRound(c, s, r) ==
    IF c.tokens = 0 THEN EncodedSize(s \o r) ELSE c.tokens + MessagesSize(r)

\* window.bound
Bound(c, s, r) ==
    IF c.tokens = 0 THEN EncodedSize(s \o r)
    ELSE c.tokens + MessagesSize(From(s, c.messages + 1)) + MessagesSize(r)

\* window.measure, when it does not fail
Measure(c, s, r) == IF counts THEN Request(s \o r) ELSE Bound(c, s, r)

\* protectedPrefixLen
Prefix(s) ==
    IF Len(s) > 1 /\ s[2].kind = "plan" THEN 2 ELSE IF Len(s) > 1 THEN 1 ELSE Len(s)

CollapseOver(s, end, i, size) ==
    SubSeq(s, 1, Prefix(s)) \o <<Msg(i, "summary", size, Covered(SubSeq(s, 1, end)))>>
        \o WithoutReasoning(From(s, end + 2))

CollapseAll(s, end, i, size) ==
    <<Msg(i, "summary", size, Covered(SubSeq(s, 1, end)))>> \o WithoutReasoning(From(s, end + 1))

\* What window.collapse makes of s: one summary of s[1..end] after the prefix.
Collapse(s, end, i, size) ==
    SubSeq(s, 1, Prefix(s)) \o <<Msg(i, "summary", size, Covered(SubSeq(s, 1, end)))>>
        \o WithoutReasoning(From(s, end + 1))

\* Harness.archive
Archive(s) == IF brain THEN archived \cup Ids(s) ELSE archived

\* window.trim: <<the cut round>>, or <<>> when the round has nothing left to cut.
Results(r) == {j \in DOMAIN r : r[j].kind = "tool" /\ r[j].size > 0}
Largest(r) == CHOOSE j \in Results(r) :
    \A k \in Results(r) : r[j].size > r[k].size \/ (r[j].size = r[k].size /\ j <= k)

RECURSIVE Trim(_, _, _, _)
Trim(c, s, r, n) ==
    IF n <= Size THEN <<r>>
    ELSE IF Results(r) = {} THEN <<>>
    ELSE LET t == [r EXCEPT ![Largest(r)].size = (@ * Size) \div n, ![Largest(r)].cut = TRUE]
         IN Trim(c, s, t, Measure(c, s, t))

-----------------------------------------------------------------------------
\* Checkpoint rows: a message's key is its position, the count's is 0.

Rows(s, c) ==
    [k \in DOMAIN s \cup (IF c.tokens > 0 THEN {0} ELSE {}) |-> IF k = 0 THEN c ELSE s[k]]

\* The stored rows once Diff's puts, then its deletes, are applied.
Diff(rows) ==
    [k \in (DOMAIN stored \ (DOMAIN digest \ DOMAIN rows)) \cup DOMAIN rows |->
        IF k \in DOMAIN rows /\ (k \notin DOMAIN digest \/ digest[k] # rows[k]) THEN rows[k]
        ELSE stored[k]]

\* window.restore
RestoredMsgs == [i \in 1..Cardinality(DOMAIN stored \ {0}) |-> stored[i]]
RestoredCount == IF 0 \in DOMAIN stored THEN stored[0] ELSE NoCount

NoRound == [msgs |-> <<>>, effect |-> "none", counted |-> 0]

TypeOK ==
    /\ \A i \in DOMAIN msgs : msgs[i].id \in 1..made /\ msgs[i].of \subseteq 1..made
    /\ count.messages <= Len(msgs) /\ (count.tokens = 0 <=> count.messages = 0)
    /\ next \in {"prompt", "infer", "commit", "refit"}
    /\ (next = "commit") = (round # NoRound)
    /\ digest = stored
    /\ archived \cup said \subseteq 1..made

-----------------------------------------------------------------------------
Init ==
    /\ msgs = <<>> /\ count = NoCount /\ counts \in BOOLEAN /\ brain \in BOOLEAN
    /\ next = "prompt" /\ round = NoRound /\ refit = FALSE
    /\ stored = <<>> /\ digest = <<>>
    /\ archived = {} /\ said = {} /\ fitted = FALSE /\ over = {}
    /\ made = 0 /\ refusals = 0 /\ faults = 0

Fault == faults < MaxFaults /\ faults' = faults + 1

\* The Commit goes through and the runtime saves it.
Commits(s, c, fits, owed) ==
    /\ msgs' = s /\ count' = c
    /\ stored' = Diff(Rows(s, c)) /\ digest' = Rows(s, c)
    /\ fitted' = fits /\ next' = "infer" /\ round' = NoRound
    /\ said' = owed
    /\ UNCHANGED <<refit, faults>>

\* A step of the Commit or its Save fails, and the turn with it: the harness is
\* dropped, and the next one restores the rows.
Fails ==
    /\ msgs' = RestoredMsgs /\ count' = RestoredCount /\ digest' = stored
    /\ next' = "prompt" /\ round' = NoRound /\ refit' = FALSE
    /\ UNCHANGED <<stored, said, fitted>>

\* A model task is asked on s.
Asks(task, s) == over' = over \cup (IF TaskRequest(s) > Size THEN {task} ELSE {})

-----------------------------------------------------------------------------
\* window.Fit

Pressed(c, r) ==
    /\ Bound(c, msgs, r) >= Threshold
    /\ Measure(c, msgs, r) > Threshold
    /\ Len(msgs) > Prefix(msgs)

\* r goes in after s, as it is or cut.
AppendFitted(s, c, r) ==
    LET fit == IF Bound(c, s, r) < Threshold THEN <<r>> ELSE Trim(c, s, r, Measure(c, s, r))
    IN IF fit = <<>> THEN Fails /\ UNCHANGED faults
       ELSE \/ Commits(s \o fit[1], c, TRUE, said \cup Ids(WithoutReasoning(r)))
            \/ Fault /\ Fails

\* Fit appends r, of which the provider counted the request; i is the next
\* message's identity.
Fit(r, given, i) ==
    LET c == IF given > 0 THEN [tokens |-> given, messages |-> Len(msgs)] ELSE count
    IN IF ~Pressed(c, r)
       THEN AppendFitted(msgs, c, r) /\ made' = i - 1 /\ UNCHANGED <<archived, over>>
       ELSE /\ archived' = Archive(From(msgs, Prefix(msgs) + 1))
            /\ Asks("summary", msgs) /\ made' = i
            /\ IF TaskRequest(msgs) > Size THEN Fails /\ UNCHANGED faults
               ELSE \E size \in Sizes :
                        AppendFitted(Collapse(msgs, Len(msgs), i, size), NoCount, WithoutReasoning(r))

\* A user's message: Commit of a turn that starts, or of the inbox of one that runs.
Prompt ==
    /\ next \in {"prompt", "infer"} /\ made < MaxMade
    /\ \E size \in Sizes : Fit(<<Msg(made + 1, "user", size, {})>>, 0, made + 2)
    /\ UNCHANGED <<counts, brain, refusals>>

-----------------------------------------------------------------------------
\* The model's reply.

\* Reasoning or not, the reply, and up to two results, with ids after made.
Replies ==
    {[j \in DOMAIN kinds |->
        Msg(made + j, kinds[j], IF kinds[j] = "tool" THEN sizes[j] ELSE 1, {})] :
        kinds \in {<<"reply">>, <<"reasoning", "reply">>, <<"reply", "tool">>,
                   <<"reasoning", "reply", "tool", "tool">>},
        sizes \in [1..4 -> Sizes]}

\* Infer: a request over the size is refused, and one under it may be.
Infer ==
    /\ next = "infer"
    /\ over' = over \cup (IF Request(msgs) > Size THEN {"turn"} ELSE {})
    /\ \/ /\ Request(msgs) <= Size /\ made < MaxMade
          /\ \E r \in Replies, effect \in {"none", "plan", "handoff"},
                given \in {0, Request(msgs)} :
               /\ effect # "none" => r[Len(r)].kind = "tool"
               /\ effect = "handoff" => Prefix(msgs) = 2
               /\ round' = [msgs |-> r, effect |-> effect, counted |-> given]
               /\ made' = made + Len(r)
          /\ next' = "commit" /\ refit' = FALSE /\ UNCHANGED refusals
       \/ /\ \/ Request(msgs) > Size /\ UNCHANGED refusals
             \/ refusals < MaxRefusals /\ refusals' = refusals + 1
          /\ next' = IF refit THEN "prompt" ELSE "refit"
          /\ refit' = FALSE /\ UNCHANGED <<round, made>>
    /\ UNCHANGED <<msgs, count, counts, brain, stored, digest, archived, said, fitted, faults>>

\* commitRound: a round without a window effect is fitted.
CommitRound ==
    /\ next = "commit" /\ round.effect = "none"
    /\ Fit(round.msgs, round.counted, made + 1)
    /\ UNCHANGED <<counts, brain, refusals>>

\* InstallPlan: the first message and the plan; the rest is gone.
InstallPlan ==
    /\ next = "commit" /\ round.effect = "plan"
    /\ \E size \in Sizes : LET s == <<msgs[1], Msg(made + 1, "plan", size, {})>> IN
           Commits(s, NoCount, FALSE, said \cap Ids(s)) \/ (Fault /\ Fails)
    /\ made' = made + 1
    /\ UNCHANGED <<counts, brain, archived, over, refusals>>

\* HandOff: the window after the first message is archived, and a hand-off the
\* model writes of it replaces it; one made from the plan when the model fails.
HandOff ==
    /\ next = "commit" /\ round.effect = "handoff"
    /\ LET s == msgs \o round.msgs
           Handed(size, of, open) ==
               SubSeq(s, 1, 2) \o <<Msg(made + 1, "handoff", size, of)>>
                   \o (IF open THEN <<Msg(made + 2, "nudge", 1, {})>> ELSE <<>>)
       IN /\ archived' = Archive(From(s, 2))
          /\ Asks("handoff", s)
          /\ \/ \E size \in Sizes, open \in BOOLEAN :
                  /\ TaskRequest(s) <= Size
                  /\ Commits(Handed(size, Covered(s), open), NoCount, FALSE,
                             said \cup Ids(WithoutReasoning(round.msgs)))
             \/ \E size \in Sizes, open \in BOOLEAN :
                  Commits(Handed(size, {}, open), NoCount, FALSE,
                          IF brain THEN said \cup Ids(WithoutReasoning(round.msgs))
                          ELSE said \cap Ids(SubSeq(s, 1, 2)))
             \/ Fault /\ Fails
    /\ made' = made + 2
    /\ UNCHANGED <<counts, brain, refusals>>

-----------------------------------------------------------------------------
\* Refit: the messages of the last counted request become one summary.
RefitEnd == IF count.messages > Prefix(msgs) THEN count.messages ELSE Len(msgs)

Refit ==
    /\ next = "refit"
    /\ IF Len(msgs) <= Prefix(msgs)
       THEN Fails /\ UNCHANGED <<archived, over, made, faults>>
       ELSE LET asked == SubSeq(msgs, 1, RefitEnd) IN
            /\ archived' = Archive(From(asked, Prefix(msgs) + 1))
            /\ Asks("refit", asked) /\ made' = made + 1
            /\ IF TaskRequest(asked) > Size THEN Fails /\ UNCHANGED faults
               ELSE \/ \E size \in Sizes :
                          /\ msgs' = Collapse(msgs, RefitEnd, made', size) /\ count' = NoCount
                          /\ stored' = Diff(Rows(msgs', count')) /\ digest' = Rows(msgs', count')
                          /\ next' = "infer" /\ refit' = TRUE /\ fitted' = FALSE
                          /\ UNCHANGED <<round, said, faults>>
                    \/ Fault /\ Fails
    /\ UNCHANGED <<counts, brain, refusals>>

Next == Prompt \/ Infer \/ CommitRound \/ InstallPlan \/ HandOff \/ Refit

Spec == Init /\ [][Next]_vars

-----------------------------------------------------------------------------
(* The request on a window that a Commit fitted is within the model's      *)
(* window, whatever was counted, bounded, collapsed, cut or dropped before. *)
WindowFits == fitted => Request(msgs) <= Size

(* A message that was committed is in the window, or in what its summaries  *)
(* and hand-offs were made of; with a Brain it is in the window or found by *)
(* search as it was.  A new plan, and a hand-off no model wrote that no      *)
(* search can make up for, start over; reasoning is let go.                 *)
NothingLost == said \subseteq (IF brain THEN Ids(msgs) \cup archived ELSE Covered(msgs))

(* What a restart restores is the window the last Commit left, with the     *)
(* count of its messages.                                                   *)
CheckpointExact == RestoredMsgs = msgs /\ RestoredCount = count

(* What the run checks of the window's content: it is well formed, nothing  *)
(* committed is lost from it, and its checkpoint is exact.                  *)
ContentKept == TypeOK /\ NothingLost /\ CheckpointExact

(* The first message stays first, and a plan stays until another takes its  *)
(* place, through every collapse, hand-off, failure and restore.             *)
GoalStays == [][ /\ msgs # <<>> => msgs' # <<>> /\ msgs'[1] = msgs[1]
                 /\ Prefix(msgs) = 2 => Prefix(msgs') = 2 ]_vars

(* window.go: the rules keep every request under the model's context        *)
(* window.  Broken by the request for a summary: it is the window and an     *)
(* instruction more, and a cut leaves a window that fills its size; then     *)
(* every later Commit asks for that summary again, and fails.                *)
SummariesFit == over \cap {"summary", "refit"} = {}

=============================================================================
