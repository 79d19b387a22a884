--------------------------- MODULE KnowledgeIndex ---------------------------
(***************************************************************************)
(* The mirror of one workspace file in the knowledge store: the indexer     *)
(* (vfsindex/indexer.go), the engine's writes (brain/tree.go, write.go) and *)
(* a store (brain/memory.go, brain/postgres/tree.go), with the graph that   *)
(* holds a node per record.                                                 *)
(*                                                                         *)
(* A version of the file is a number, its content is its version, and two   *)
(* versions share one part: content c has the parts {0, c}.  Every call is  *)
(* one actor that moves a step at a time; the file changes under it, and    *)
(* removals of the record come from a host.  A record carries, as history,  *)
(* the content it was made from, and whether its commit still had every     *)
(* part that was staged for it.                                             *)
(*                                                                         *)
(* Left out: searches, kinds and their validation, edges of the graph, a    *)
(* file that changes while it is streamed, and readers who cannot see the   *)
(* record they write (the indexer's scope reads every row it wrote).  The    *)
(* memory store keeps what a write staged; Postgres may lose it, and so does *)
(* the model.                                                               *)
(***************************************************************************)
EXTENDS Naturals, FiniteSets, TLC

CONSTANTS
    Callers,     \* concurrent calls of IndexPath or UnindexPath
    None,        \* no record, no node
    MaxRetries,  \* maxConflictRetries
    MaxEdits,    \* bound: changes of the file, its readers or its existence
    MaxTroubles  \* bound: unindexed, erased, purged; calls that fail; restarts of
                 \* the database

ASSUME RetriesAssumption == MaxRetries \in Nat \ {0}

VARIABLES
    file,    \* [exists, ver, readers]: the source
    record,  \* None or [label, readers, live, content, whole]: the Document
    parts,   \* the rows of its Chunks: [id, readers, live]
    treeRev, \* treeRevs[id], objects.tree_rev: 0 without a row
    node,    \* None or the label of the graph's node
    call,    \* per caller
    erasing, \* Engine.Erase is between the indexes and the store
    edits, troubles

vars == <<file, record, parts, treeRev, node, call, erasing, edits, troubles>>
store == <<record, parts, treeRev>>

PartsOf(c) == {0, c}
Readers == {"some", "all"}
Idle == [ph |-> "idle", label |-> 0, readers |-> "all", content |-> 0, rev |-> 0,
         reuse |-> {}, staged |-> {}, tries |-> 0]

Live == record # None /\ record.live
LiveParts == {p \in parts : p.live}

Phases == {"idle", "readers", "compare", "read", "state", "stream", "commit", "put",
           "lookup", "unlink", "delete"}

TypeOK ==
    /\ file.ver \in 1..MaxEdits + 1 /\ file.readers \in Readers /\ file.exists \in BOOLEAN
    /\ record = None \/ (record.label \in 1..MaxEdits + 1 /\ record.readers \in Readers)
    /\ \A p \in parts : p.id \in 0..MaxEdits + 1 /\ p.readers \in Readers /\ p.live \in BOOLEAN
    /\ treeRev \in Nat /\ node \in {None} \cup 1..MaxEdits + 1
    /\ \A w \in Callers : call[w].ph \in Phases /\ call[w].tries \in 0..MaxRetries
    /\ edits \in 0..MaxEdits /\ troubles \in 0..MaxTroubles

Init ==
    /\ file = [exists |-> TRUE, ver |-> 1, readers |-> "all"]
    /\ record = None /\ parts = {} /\ treeRev = 0 /\ node = None
    /\ call = [w \in Callers |-> Idle]
    /\ erasing = FALSE
    /\ edits = 0 /\ troubles = 0

\* A caller's step leaves the file and the counters.
Quiet == UNCHANGED <<file, erasing, edits, troubles>>
Goes(w, ph) == call' = [call EXCEPT ![w].ph = ph]
Ends(w) == call' = [call EXCEPT ![w] = Idle]

-----------------------------------------------------------------------------
\* The source changes.

Edit ==
    /\ edits < MaxEdits /\ edits' = edits + 1
    /\ \/ file' = [file EXCEPT !.exists = TRUE, !.ver = @ + 1]
       \/ file' = [file EXCEPT !.readers = IF @ = "all" THEN "some" ELSE "all"]
       \/ file.exists /\ file' = [file EXCEPT !.exists = FALSE]
    /\ UNCHANGED <<store, node, call, erasing, troubles>>

-----------------------------------------------------------------------------
\* MountIndexer.IndexPath.

\* Stat: a missing file is removed from the index.
Stat(w) ==
    /\ call[w].ph = "idle"
    /\ call' = [call EXCEPT ![w] =
            [Idle EXCEPT !.ph = IF file.exists THEN "readers" ELSE "lookup",
                       !.label = IF file.exists THEN file.ver ELSE 0]]
    /\ UNCHANGED <<store, node>> /\ Quiet

\* readers: the source's ACL now.
ResolveReaders(w) ==
    /\ call[w].ph = "readers"
    /\ call' = [call EXCEPT ![w].ph = "compare", ![w].readers = file.readers]
    /\ UNCHANGED <<store, node>> /\ Quiet

UnchangedVersion(w) == Live /\ record.label = call[w].label

\* unchanged: the record has this version and these readers; nothing to do.
Unchanged(w) == Live /\ record.label = call[w].label /\ record.readers = call[w].readers

Compare(w) ==
    /\ call[w].ph = "compare"
    /\ IF Unchanged(w) THEN Ends(w) ELSE Goes(w, "read")
    /\ UNCHANGED <<store, node>> /\ Quiet

\* writeFile: a structured file is read before PutTree reads the tree, a plain
\* one streams as PutTree stages its parts; a file that is gone fails the call.
ReadFile(w) ==
    /\ call[w].ph = "read"
    /\ IF file.exists THEN call' = [call EXCEPT ![w].ph = "state", ![w].content = file.ver]
       ELSE Ends(w)
    /\ UNCHANGED <<store, node>> /\ Quiet

-----------------------------------------------------------------------------
\* Store.PutTree.

\* The tree's revision and the live parts it can reuse; EmbedBatches stages
\* every part of what was read, a live one as a reference.
TreeState(w) ==
    /\ call[w].ph = "state"
    /\ LET all == PartsOf(call[w].content)
       IN call' = [call EXCEPT ![w].ph = "commit", ![w].rev = treeRev, ![w].staged = all,
                               ![w].reuse = {p.id : p \in LiveParts} \cap all]
    /\ UNCHANGED <<store, node>> /\ Quiet

\* The same, when the file is read after the tree was.
TreeFirst(w) ==
    /\ call[w].ph = "read" /\ file.exists
    /\ call' = [call EXCEPT ![w].ph = "stream", ![w].rev = treeRev,
                            ![w].reuse = {p.id : p \in LiveParts}]
    /\ UNCHANGED <<store, node>> /\ Quiet
Stream(w) ==
    /\ call[w].ph = "stream"
    /\ LET all == PartsOf(file.ver)
       IN IF file.exists
          THEN call' = [call EXCEPT ![w].ph = "commit", ![w].content = file.ver,
                                    ![w].staged = all, ![w].reuse = @ \cap all]
          ELSE Ends(w)
    /\ UNCHANGED <<store, node>> /\ Quiet

\* Another tree write committed, or a referenced row is gone.
Moved(w) == treeRev # call[w].rev
Gone(w) == ~(call[w].reuse \cap call[w].staged \subseteq {p.id : p \in parts})

\* ErrConflict: indexFile reads the file again, MaxRetries times in all, for
\* the version and the readers it began with.
RetryRestatted(w) ==
    IF call[w].tries + 1 >= MaxRetries THEN Ends(w)
    ELSE call' = [call EXCEPT ![w].ph = "state", ![w].label = file.ver, ![w].tries = @ + 1]

Retry(w) ==
    IF call[w].tries + 1 >= MaxRetries THEN Ends(w)
    ELSE call' = [call EXCEPT ![w] = [Idle EXCEPT !.ph = "read", !.label = call[w].label,
                                         !.readers = call[w].readers, !.tries = call[w].tries + 1]]

\* The record as the call saw it, and the staged parts as its only ones.
Written(w) == [label |-> call[w].label, readers |-> call[w].readers, live |-> TRUE,
               content |-> call[w].content, whole |-> call[w].staged = PartsOf(call[w].content)]
NewParts(w) == [id : call[w].staged, readers : {call[w].readers}, live : {TRUE}]

Commit(w) ==
    /\ call[w].ph = "commit"
    /\ IF Moved(w) \/ Gone(w)
       THEN Retry(w) /\ UNCHANGED store
       ELSE /\ record' = Written(w)
            /\ parts' = NewParts(w)
            /\ treeRev' = treeRev + 1
            /\ call' = [call EXCEPT ![w] = [Idle EXCEPT !.ph = "put", !.label = call[w].label]]
    /\ UNCHANGED node /\ Quiet

\* Engine.putIndexes, after the store has committed.
PutNode(w) ==
    /\ call[w].ph = "put"
    /\ node' = call[w].label
    /\ Ends(w)
    /\ UNCHANGED store /\ Quiet

-----------------------------------------------------------------------------
\* Engine.SoftDelete, for a missing file or for UnindexPath.

Unindex(w) ==
    /\ call[w].ph = "idle" /\ troubles < MaxTroubles
    /\ troubles' = troubles + 1
    /\ call' = [call EXCEPT ![w] = [Idle EXCEPT !.ph = "lookup"]]
    /\ UNCHANGED <<file, store, node, erasing, edits>>

\* Without a live record there is nothing to remove.
Lookup(w) ==
    /\ call[w].ph = "lookup"
    /\ IF Live THEN Goes(w, "unlink") ELSE Ends(w)
    /\ UNCHANGED <<store, node>> /\ Quiet

Unlink(w) ==
    /\ call[w].ph = "unlink"
    /\ node' = None
    /\ Goes(w, "delete")
    /\ UNCHANGED store /\ Quiet

\* Store.SoftDelete marks the record and its parts.
Delete(w) ==
    /\ call[w].ph = "delete"
    /\ IF Live THEN /\ record' = [record EXCEPT !.live = FALSE]
                    /\ parts' = {[p EXCEPT !.live = FALSE] : p \in parts}
       ELSE UNCHANGED <<record, parts>>
    /\ Ends(w)
    /\ UNCHANGED <<treeRev, node>> /\ Quiet

-----------------------------------------------------------------------------
\* The host removes rows, and things fail.

\* Store.PurgeDeleted: the revision goes with the row.
Purge ==
    /\ troubles < MaxTroubles /\ record # None /\ ~record.live
    /\ troubles' = troubles + 1
    /\ record' = None /\ parts' = LiveParts /\ treeRev' = 0
    /\ UNCHANGED <<file, node, call, erasing, edits>>

\* Engine.Erase: the graph first, then the store; the rows a Postgres write
\* staged go with the store's.
EraseNode ==
    /\ troubles < MaxTroubles /\ ~erasing
    /\ troubles' = troubles + 1
    /\ node' = None /\ erasing' = TRUE
    /\ UNCHANGED <<file, store, call, edits>>
Unstaged == [w \in Callers |-> [call[w] EXCEPT !.staged = {}]]
EraseStore ==
    /\ erasing /\ erasing' = FALSE
    /\ record' = None /\ parts' = {} /\ treeRev' = 0
    /\ call' = Unstaged
    /\ UNCHANGED <<file, node, edits, troubles>>

\* The database restarts: an unlogged table is empty.
DatabaseCrash ==
    /\ troubles < MaxTroubles /\ troubles' = troubles + 1
    /\ call' = Unstaged
    /\ UNCHANGED <<file, store, node, erasing, edits>>

\* A call fails or its process stops where it is: before or after its commit,
\* with the graph not told.
Fail(w) ==
    /\ troubles < MaxTroubles /\ troubles' = troubles + 1
    /\ call[w].ph # "idle"
    /\ Ends(w)
    /\ UNCHANGED <<file, store, node, erasing, edits>>

-----------------------------------------------------------------------------
Step(w) ==
    \/ ResolveReaders(w) \/ Compare(w) \/ ReadFile(w)
    \/ TreeState(w) \/ TreeFirst(w) \/ Stream(w) \/ Commit(w) \/ PutNode(w)
    \/ Lookup(w) \/ Unlink(w) \/ Delete(w)

Next ==
    \/ Edit \/ Purge \/ EraseNode \/ EraseStore \/ DatabaseCrash
    \/ \E w \in Callers : Stat(w) \/ Unindex(w) \/ Step(w) \/ Fail(w)

\* Calls end, an erase goes on, and the host or the agents keep indexing.
Spec ==
    /\ Init /\ [][Next]_vars
    /\ WF_vars(EraseStore)
    /\ \A w \in Callers : WF_vars(Step(w)) /\ WF_vars(Stat(w))

-----------------------------------------------------------------------------
(* Properties. *)

\* brain/store.go, PutTree: "makes parts its only parts, in one atomic commit".
\* The live parts are those of one reading of the file, the one the record was
\* made from, with the record's readers, whatever other writers, removals and
\* failures come between a write's reading of the tree and its commit.  A write
\* whose staged rows were lost has fewer, and never another reading's.
TreeWhole ==
    LET made == IF Live THEN [id : PartsOf(record.content), readers : {record.readers}, live : {TRUE}]
                ELSE {}
    IN /\ LiveParts \subseteq made
       /\ Live /\ record.whole => LiveParts = made

\* brain/postgres/doc.go:21-23: staged rows "are lost on a crash, which only
\* abandons uncommitted writes".  A record that is live has all of its parts.
StagingKept == Live => record.whole

\* A call skips a file whose version the record names, so that name must be
\* true: a record labelled with the file's version mirrors that version.
LabelIsTrue ==
    Live /\ record.label = file.ver => record.content = file.ver

\* What the run checks of a record: its rows' shape, a tree of one reading, and
\* a label that says which.
RecordTrue == TypeOK /\ TreeWhole /\ LabelIsTrue

\* When the file stops changing, and calls go on, the record mirrors it, for
\* its readers, and stays so: no stale call, failure or skip leaves it wrong.
Mirrors ==
    <>[](IF file.exists THEN Live /\ record.content = file.ver /\ record.readers = file.readers
         ELSE ~Live)

\* docs/knowledge.md:168: a record whose graph write failed is put right by
\* saving it again.  Indexing the file again puts its node right.
NodeMirrors == <>[](Live /\ file.exists => node # None)
=============================================================================
