------------------------------ MODULE FileEdit ------------------------------
(***************************************************************************)
(* One file of a workspace, edited by the agents of several sessions with  *)
(* the read and write tools (workspace/tools.go over vfs/mutate.go) and by  *)
(* their shells through the kernel mount (vfs/fuse/fuse.go).                *)
(*                                                                         *)
(* A file's content is the set of the edits it holds, and its token is the *)
(* content.  Every session remembers one token per path, lastRev, that all  *)
(* of its reads and writes share; an edit by lines or by block takes the    *)
(* token at its start and is refused as stale when the file it opens has    *)
(* another one.  What happens between that check and the write is up to the *)
(* backend: an object store or Drive replaces the object in one call, the   *)
(* local disk truncates it and then writes, and a Google Doc is changed by  *)
(* batches that name the revision they are for.                             *)
(*                                                                         *)
(* Left out: creating, removing and renaming files, sheets (one cell at a   *)
(* time), more than one tab, and files too large to open as a document.     *)
(***************************************************************************)
EXTENDS Naturals, FiniteSets, TLC

CONSTANTS
    Sessions,  \* sessions that mount the file
    None,      \* no token, no cached snapshot
    Backends,  \* a subset of {"object", "local", "doc"}
    MaxEdits,  \* bound: edits of the whole run, by tool or by shell
    MaxReads,  \* bound: reads and looks of the whole run
    MaxFaults, \* bound: writes that answer an error
    Blind,     \* an edit may come before a read, and a shell may look at a Doc
    Subst      \* edits may also replace a substring or, in a text, everything

Edits == 1..MaxEdits

VARIABLES
    backend,  \* where the file is
    file,     \* [content, rev]: what is stored, and its revision or change time
    lastRev,  \* per session: the token MountSession.lastRev keeps for the path
    cache,    \* per session: driveProvider.getCache's entry, [key, content, rev]
    op,       \* per session: its tool call
    handle,   \* per session: its kernel handle
    acked,    \* history: edits whose tool or kernel call answered success
    seen,     \* history, per session: the content the agent was last shown
    foreign,  \* history, per session: the file is not as it last left or found it
    edits, reads, faults  \* counters

store  == <<backend, file>>
counts == <<edits, reads, faults>>
vars   == <<backend, file, lastRev, cache, op, handle, acked, seen, foreign, counts>>

Kinds == {"read", "line", "block", "subst", "full", "look"}

Idle == [ph |-> "idle", kind |-> "read", edit |-> 0, expect |-> None, meta |-> 0,
         base |-> {}, body |-> {}, hint |-> 0, began |-> {}, known |-> 0, retried |-> FALSE]
Closed == [open |-> FALSE, body |-> {}, dirty |-> {}]

Text == backend # "doc"

\* The edits a success was reported for that the file still holds.
Held == acked \cap file.content

TypeOK ==
    /\ backend \in Backends
    /\ file.content \subseteq Edits /\ file.rev \in Nat
    /\ \A s \in Sessions :
        /\ lastRev[s] \in {None} \cup SUBSET Edits /\ seen[s] \in {None} \cup SUBSET Edits
        /\ op[s].kind \in Kinds /\ op[s].body \subseteq Edits /\ op[s].began \subseteq Edits
        /\ op[s].ph \in {"idle", "open", "get", "write", "fill", "snap", "insert",
                         "style", "refresh", "answer", "stale", "error"}
        /\ handle[s].dirty \subseteq handle[s].body /\ foreign[s] \in BOOLEAN
    /\ acked \subseteq Edits
    /\ edits \in 0..MaxEdits /\ reads \in 0..MaxReads /\ faults \in 0..MaxFaults

Init ==
    /\ backend \in Backends
    /\ file = [content |-> {}, rev |-> 1]
    /\ lastRev = [s \in Sessions |-> None]
    /\ cache = [s \in Sessions |-> None]
    /\ op = [s \in Sessions |-> Idle]
    /\ handle = [s \in Sessions |-> Closed]
    /\ acked = {}
    /\ seen = [s \in Sessions |-> None]
    /\ foreign = [s \in Sessions |-> TRUE]
    /\ edits = 0 /\ reads = 0 /\ faults = 0

-----------------------------------------------------------------------------
\* Shared effects.

\* The file holds c from now on, written by s (its own view is set apart).
Store(s, c) ==
    /\ file' = [content |-> c, rev |-> file.rev + 1]
    /\ foreign' = [t \in Sessions |-> t # s \/ foreign[t]]

\* The write tool's answer reaches the agent: the edit is saved, its token
\* remembered (stage) and its result shown.
Answer(s, token) ==
    /\ acked' = acked \cup {op[s].edit}
    /\ lastRev' = [lastRev EXCEPT ![s] = token]
    /\ seen' = [seen EXCEPT ![s] = token]
    /\ op' = [op EXCEPT ![s] = Idle]

-----------------------------------------------------------------------------
\* The tools: a call starts, and a read or an edit opens the document.

\* MountSession.Apply, or the read tool, starts.  checkout takes the token it
\* expects before it opens the file; a substring edit and a read expect none.
\* A whole text is written without opening it: the agent writes what it was
\* shown and its change.
Begin(s, kind) ==
    /\ op[s].ph = "idle"
    /\ kind \in {"subst", "full"} => Subst
    /\ kind \in {"subst"} => Text
    /\ kind \in {"read", "look"} => reads < MaxReads
    /\ kind \notin {"read", "look"} => edits < MaxEdits
    /\ kind \notin {"read", "look"} => Text \/ Blind \/ seen[s] # None
    /\ kind = "look" => Text \/ Blind
    /\ LET whole == kind = "full" /\ Text
           e     == IF kind \in {"read", "look"} THEN 0 ELSE edits + 1
       IN /\ op' = [op EXCEPT ![s] =
                [Idle EXCEPT !.known = IF foreign[s] THEN 0 ELSE file.rev,
                             !.ph = IF whole THEN "write" ELSE "open",
                             !.kind = kind, !.edit = e, !.began = Held,
                             !.expect = IF kind \in {"line", "block", "full"} THEN lastRev[s] ELSE None,
                             !.body = IF whole THEN (IF seen[s] = None THEN {} ELSE seen[s]) \cup {e} ELSE {}]]
          /\ edits' = IF e = 0 THEN edits ELSE e
          /\ reads' = IF e = 0 THEN reads + 1 ELSE reads
    /\ UNCHANGED <<store, lastRev, cache, handle, acked, seen, foreign, faults>>

\* driveProvider.resolve: the change time the cache is asked for.
Resolve(s) ==
    /\ op[s].ph = "open"
    /\ op' = [op EXCEPT ![s].ph = "get", ![s].meta = file.rev]
    /\ UNCHANGED <<store, lastRev, cache, handle, acked, seen, foreign, counts>>

\* What OpenDocument finds, and the cache it leaves: a Doc comes from the
\* snapshot kept for the change time, or is fetched and kept.
Fresh == [key |-> file.rev, content |-> file.content, rev |-> file.rev]
CachedAnyTime(s) == cache[s] # None
Cached(s) == cache[s] # None /\ cache[s].key = op[s].meta

Snapshot(s) == IF Text THEN Fresh
               ELSE IF Cached(s) THEN cache[s] ELSE [Fresh EXCEPT !.key = op[s].meta]

\* Mutant of Hint: the revision the file has by now.
HintNow(d) == file.rev

\* The hint a document carries: the revision of what was read, be it cached.
Hint(d) == d.rev

\* The read tool, or a look of the shell (fuse stat, which reads the text for
\* its size): ReadText remembers the token, whoever asked.
Read(s) ==
    /\ op[s].ph = "get" /\ op[s].kind \in {"read", "look"}
    /\ LET d == Snapshot(s)
       IN /\ cache' = IF Text THEN cache ELSE [cache EXCEPT ![s] = d]
          /\ lastRev' = [lastRev EXCEPT ![s] = d.content]
          /\ seen' = IF op[s].kind = "read" THEN [seen EXCEPT ![s] = d.content] ELSE seen
          /\ foreign' = [foreign EXCEPT ![s] = d.rev # file.rev]
    /\ op' = [op EXCEPT ![s] = Idle]
    /\ UNCHANGED <<store, handle, acked, counts>>

\* checkout and the edit of the checked-out document: refused when the token
\* is not the expected one; else remembered, edited, and its hint kept.
Checkout(s) ==
    /\ op[s].ph = "get" /\ op[s].kind \notin {"read", "look"} /\ ~op[s].retried
    /\ LET d == Snapshot(s)
       IN /\ cache' = IF Text THEN cache ELSE [cache EXCEPT ![s] = d]
          /\ IF op[s].expect # None /\ d.content # op[s].expect
             THEN /\ op' = [op EXCEPT ![s].ph = "stale", ![s].hint = Hint(d)]
                  /\ UNCHANGED <<lastRev, foreign>>
             ELSE /\ lastRev' = [lastRev EXCEPT ![s] = d.content]
                  /\ foreign' = [foreign EXCEPT ![s] = d.rev # file.rev]
                  /\ op' = [op EXCEPT ![s].ph = "write", ![s].hint = Hint(d), ![s].base = d.content,
                                      ![s].body = d.content \cup {op[s].edit},
                                      ![s].began = @ \cap Held]
    /\ UNCHANGED <<store, handle, acked, seen, counts>>

\* ErrStaleContent: the agent is told to read the file again.
Stale(s) ==
    /\ op[s].ph = "stale"
    /\ op' = [op EXCEPT ![s] = Idle]
    /\ UNCHANGED <<store, lastRev, cache, handle, acked, seen, foreign, counts>>

-----------------------------------------------------------------------------
\* The write to a text file.

\* PutFile of an object store, of Drive or of Graph.
PutObject(s) ==
    /\ op[s].ph = "write" /\ backend = "object"
    /\ Store(s, op[s].body)
    /\ op' = [op EXCEPT ![s].ph = "answer"]
    /\ UNCHANGED <<backend, lastRev, cache, handle, acked, seen, counts>>

\* localProvider.PutFile: O_TRUNC, then the body.
Truncate(s) ==
    /\ op[s].ph = "write" /\ backend = "local"
    /\ Store(s, {})
    /\ op' = [op EXCEPT ![s].ph = "fill"]
    /\ UNCHANGED <<backend, lastRev, cache, handle, acked, seen, counts>>
Fill(s) ==
    /\ op[s].ph = "fill"
    /\ Store(s, op[s].body)
    /\ op' = [op EXCEPT ![s].ph = "answer"]
    /\ UNCHANGED <<backend, lastRev, cache, handle, acked, seen, counts>>

AnswerTextUntold(s) ==
    /\ op[s].ph = "answer"
    /\ acked' = acked \cup {op[s].edit}
    /\ seen' = [seen EXCEPT ![s] = op[s].body]
    /\ op' = [op EXCEPT ![s] = Idle]
    /\ foreign' = [foreign EXCEPT ![s] = @ \/ file.content # op[s].body]
    /\ UNCHANGED <<store, lastRev, cache, handle, counts>>

\* stage remembers the token of what it wrote.
AnswerText(s) ==
    /\ op[s].ph = "answer"
    /\ Answer(s, op[s].body)
    /\ foreign' = [foreign EXCEPT ![s] = @ \/ file.content # op[s].body]
    /\ UNCHANGED <<store, cache, handle, counts>>

-----------------------------------------------------------------------------
\* The write to a Google Doc: batches that name the revision they are for.

\* A batch meets another revision: the first conflict is retried from a new
\* read, the second ends the call (ErrInvalidWrite for the agent).
Conflict(s) ==
    /\ cache' = [cache EXCEPT ![s] = None]
    /\ op' = [op EXCEPT ![s] = IF op[s].retried THEN [op[s] EXCEPT !.ph = "error"]
                               ELSE [op[s] EXCEPT !.ph = "open", !.retried = TRUE]]
    /\ UNCHANGED <<file, lastRev, foreign>>

\* The first batch: a block edit replaces every block; any other edit deletes
\* them all, unless the document is empty.
FirstBatch(s) ==
    /\ op[s].ph = "write" /\ backend = "doc"
    /\ IF op[s].kind # "block" /\ op[s].base = {}
       THEN /\ op' = [op EXCEPT ![s].ph = "snap"]
            /\ UNCHANGED <<file, lastRev, foreign, cache>>
       ELSE IF file.rev # op[s].hint THEN Conflict(s)
       ELSE /\ Store(s, IF op[s].kind = "block" THEN op[s].body ELSE {})
            /\ op' = [op EXCEPT ![s].ph = IF op[s].kind = "block" THEN "refresh" ELSE "snap"]
            /\ UNCHANGED <<lastRev, cache>>
    /\ UNCHANGED <<backend, handle, acked, seen, counts>>

\* insertBlocks reads the Doc again and takes its revision, whatever it is.
InsertAt(s) ==
    /\ op[s].ph = "snap"
    /\ op' = [op EXCEPT ![s].ph = "insert", ![s].hint = file.rev]
    /\ UNCHANGED <<store, lastRev, cache, handle, acked, seen, foreign, counts>>

\* applyInsertChunk: the text, and then its styles.
Insert(s) ==
    /\ op[s].ph = "insert"
    /\ IF file.rev # op[s].hint THEN Conflict(s)
       ELSE /\ Store(s, file.content \cup op[s].body)
            /\ op' = [op EXCEPT ![s].ph = "style", ![s].hint = file.rev + 1]
            /\ UNCHANGED <<lastRev, cache>>
    /\ UNCHANGED <<backend, handle, acked, seen, counts>>
Style(s) ==
    /\ op[s].ph = "style"
    /\ IF file.rev # op[s].hint THEN Conflict(s)
       ELSE /\ Store(s, file.content)
            /\ op' = [op EXCEPT ![s].ph = "refresh"]
            /\ UNCHANGED <<lastRev, cache>>
    /\ UNCHANGED <<backend, handle, acked, seen, counts>>

\* retryRichPersist: a new read, whose token is remembered, gives the old
\* document a new hint.
Retry(s) ==
    /\ op[s].ph = "get" /\ op[s].retried
    /\ LET d == Snapshot(s)
       IN /\ cache' = [cache EXCEPT ![s] = d]
          /\ lastRev' = [lastRev EXCEPT ![s] = d.content]
          /\ foreign' = [foreign EXCEPT ![s] = d.rev # file.rev]
          /\ op' = [op EXCEPT ![s].ph = "write", ![s].hint = Hint(d), ![s].base = d.content]
    /\ UNCHANGED <<store, handle, acked, seen, counts>>

\* invalidate and refreshHint: the answer is the Doc as it is read back.
Refresh(s) ==
    /\ op[s].ph = "refresh"
    /\ cache' = [cache EXCEPT ![s] = None]
    /\ Answer(s, file.content)
    /\ foreign' = [foreign EXCEPT ![s] = FALSE]
    /\ UNCHANGED <<store, handle, counts>>

\* A write, or the read after it, answers an error; it may have been done.
Fails(s) ==
    /\ faults < MaxFaults /\ faults' = faults + 1
    /\ op[s].ph \in {"write", "fill", "insert", "refresh"}
    /\ op' = [op EXCEPT ![s].ph = "error"]
    /\ \/ UNCHANGED <<file, foreign>>
       \/ backend = "object" /\ Store(s, op[s].body)
    /\ cache' = [cache EXCEPT ![s] = None]
    /\ UNCHANGED <<backend, lastRev, handle, acked, seen, edits, reads>>

\* The failed call ends; it may have left the file as nobody was told.
Failed(s) ==
    /\ op[s].ph = "error"
    /\ op' = [op EXCEPT ![s] = Idle]
    /\ foreign' = [foreign EXCEPT ![s] = TRUE]
    /\ UNCHANGED <<store, lastRev, cache, handle, acked, seen, counts>>

-----------------------------------------------------------------------------
\* The kernel mount: a handle is a copy of the text, written back whole.

\* node.Open, whose stat reads the text, and openFile: O_TRUNC starts from
\* nothing.
Open(s, trunc) ==
    /\ Text /\ ~handle[s].open /\ edits < MaxEdits
    /\ handle' = [handle EXCEPT ![s] =
            [Closed EXCEPT !.open = TRUE, !.body = IF trunc THEN {} ELSE file.content]]
    /\ lastRev' = [lastRev EXCEPT ![s] = file.content]
    /\ foreign' = [foreign EXCEPT ![s] = FALSE]
    /\ UNCHANGED <<store, cache, op, acked, seen, counts>>

\* file.Write: the edit is in the copy.
Write(s) ==
    /\ handle[s].open /\ edits < MaxEdits
    /\ edits' = edits + 1
    /\ handle' = [handle EXCEPT ![s].body = @ \cup {edits + 1}, ![s].dirty = @ \cup {edits + 1}]
    /\ UNCHANGED <<store, lastRev, cache, op, acked, seen, foreign, reads, faults>>

\* file.persist on Flush and Fsync: only a changed copy is written, over what
\* is there; the session's token is not told.
Flush(s) ==
    /\ handle[s].dirty # {}
    /\ file' = [content |-> handle[s].body, rev |-> file.rev + 1]
    /\ foreign' = [t \in Sessions |-> TRUE]
    /\ handle' = [handle EXCEPT ![s].dirty = {}]
    /\ acked' = acked \cup handle[s].dirty
    /\ UNCHANGED <<backend, lastRev, cache, op, seen, counts>>

\* Release: the kernel has flushed the handle before.
Release(s) ==
    /\ handle[s].open /\ handle[s].dirty = {}
    /\ handle' = [handle EXCEPT ![s] = Closed]
    /\ UNCHANGED <<store, lastRev, cache, op, acked, seen, foreign, counts>>

-----------------------------------------------------------------------------
Step(s) ==
    \/ Resolve(s) \/ Read(s) \/ Checkout(s) \/ Stale(s)
    \/ PutObject(s) \/ Truncate(s) \/ Fill(s) \/ AnswerText(s)
    \/ FirstBatch(s) \/ InsertAt(s) \/ Insert(s) \/ Style(s)
    \/ Retry(s) \/ Refresh(s) \/ Failed(s)

Next ==
    \E s \in Sessions :
        \/ \E kind \in Kinds : Begin(s, kind)
        \/ Step(s)
        \/ Fails(s)
        \/ \E trunc \in BOOLEAN : Open(s, trunc)
        \/ Write(s) \/ Flush(s) \/ Release(s)

Spec == Init /\ [][Next]_vars /\ \A s \in Sessions : WF_vars(Step(s))

-----------------------------------------------------------------------------
(* Properties. *)

\* Sessions are interchangeable.
Symmetry == Permutations(Sessions)

\* The edit opens the file before it writes it.
OpensFirst(s) == op[s].kind # "full" \/ ~Text

\* An edit that opens the file first (by lines, by block, of a substring, and
\* any edit of a Doc) writes a document that holds every edit that was reported
\* done before it began, that the file held when it was opened, and that it
\* still holds: whatever is remembered or cached, what an edit opens is no older
\* than the edit.  (The file may be opened while another edit has emptied it, to
\* write it anew: a text on a disk, a Doc between its batches.)
SerialKept ==
    \A s \in Sessions :
        op[s].ph = "write" /\ OpensFirst(s) => op[s].began \cap Held \subseteq op[s].body

\* The batch that replaces a Doc's content drops no edit that was reported done,
\* before or after the edit began, if it names the revision the Doc is at.
DropsNone(s) ==
    op[s].ph = "write" /\ ~Text /\ op[s].hint = file.rev => Held \subseteq op[s].body

\* The hint is the revision of what was opened, so the first try of an edit that
\* is accepted drops nothing, whatever the snapshot came from.
HintHolds == \A s \in Sessions : ~op[s].retried => DropsNone(s)

\* An agent is told that its token is stale only when the file is not what the
\* session last found or left there (known is the revision it had then, if it
\* knew it): the session's own reads and writes renew the token.
NoFalseStale ==
    \A s \in Sessions : op[s].ph = "stale" => op[s].known # op[s].hint

\* What the runs check of the edits: their state is well formed, none undoes
\* another, and none is refused without a reason.
EditsKept == TypeOK /\ SerialKept /\ HintHolds /\ NoFalseStale

\* docs/workspace.md:114: "A write checks the file's revision from the last
\* read, so a stale edit fails".  An edit by lines or by block that succeeds
\* was made on the content its agent was last shown.
EditsWhatWasRead ==
    \A s \in Sessions :
        op[s].ph = "write" /\ op[s].kind \in {"line", "block"} /\ seen[s] # None
            => op[s].base = seen[s]

\* docs/workspace.md:114 again, of a Doc: an edit that met a conflict drops none
\* either.  (The code's retry writes the old document with a new hint.)
RetriesKeep == \A s \in Sessions : DropsNone(s)
=============================================================================
