----------------------------- MODULE HarnessCache -----------------------------
(***************************************************************************)
(* The harnesses a Temporal worker keeps (session/temporal/worker/         *)
(* harness_cache.go), the committed state each of them holds               *)
(* (session/internal/snapshot.go) and the store it is saved to, under the  *)
(* steps a workflow sends: reads (Inference, Tool) and Commits, each an    *)
(* attempt of an activity that may outlive the workflow's interest in it.  *)
(*                                                                         *)
(* The n-th Commit a workflow asks for is the number n.  A checkpoint, in  *)
(* the store or in a harness, is the sequence of the Commits applied to    *)
(* it.  A read sees the checkpoint its harness holds.                      *)
(***************************************************************************)
EXTENDS Picks

CONSTANTS
  Ids, Keys,
  Slots,        \* harnesses that exist at one time
  Steps,        \* activity attempts that run at one time
  None,
  Limit,        \* harnessCache.limit (0: none)
  MaxCommits,   \* Commits of all sessions
  MaxReads,     \* reads of all sessions
  MaxAttempts,  \* attempts of a Commit
  MaxTroubles   \* attempts the workflow stops waiting for, builds and store
                \* calls that fail, and keys that change

ASSUME ConstantsOK ==
  /\ IsFiniteSet(Steps) /\ Keys # {}
  /\ None \notin Ids \cup Keys \cup Slots \cup Steps
  /\ Limit \in Nat /\ MaxCommits \in Nat /\ MaxReads \in Nat
  /\ MaxAttempts \in Nat \ {0} /\ MaxTroubles \in Nat

VARIABLES
  saved,       \* per session: the store's checkpoint, and its revision gen
  byID,        \* harnessCache.byID
  unused,      \* entries without users in the order of their release (last)
  entry,       \* every harness
  step,        \* every attempt
  key,         \* per session: the key of the next step
  wf,          \* per session: the workflow's side
  acked,       \* per session: Commits the workflow was told saved
  lost,        \* per session: Commits that failed for it
  exposed,     \* sessions where a Commit failed on a harness others held
  commits, reads, troubles

cache == <<byID, unused, entry>>
said  == <<acked, lost, exposed>>
sent  == <<commits, reads>>
vars  == <<saved, cache, step, key, wf, said, sent, troubles>>

NoEntry == [of |-> None, key |-> None, built |-> "no", users |-> 0, gone |-> FALSE,
            timer |-> FALSE, closes |-> 0, closed |-> FALSE, readers |-> {}, writer |-> None,
            rev |-> 0, loaded |-> FALSE, stale |-> FALSE, holds |-> <<>>]

NoStep == [pc |-> "none", of |-> None, kind |-> "read", key |-> None, at |-> None,
           held |-> FALSE, live |-> FALSE, no |-> 0, base |-> 0]

-----------------------------------------------------------------------------
(* The cache, each operator under its lock.  c is byID, unused and entry.  *)

Now == [byID |-> byID, unused |-> unused, entry |-> entry]

\* c with the entry of e as r.
With(c, e, r) == [c EXCEPT !.entry[e] = r]

Becomes(c) == byID' = c.byID /\ unused' = c.unused /\ entry' = c.entry

\* drop: close is called at once when no step uses the harness.
Dropped(r) ==
  [r EXCEPT !.gone = TRUE, !.timer = FALSE,
            !.closes = IF r.users = 0 THEN @ + 1 ELSE @]

Drop(c, e) ==
  LET id == c.entry[e].of IN
    [c EXCEPT !.byID[id] = IF @ = e THEN None ELSE @,
              !.unused = Without(@, e),
              !.entry[e] = Dropped(@)]

\* Mutant of Released: starts no idle timer.
ReleasedKept(r) ==
  [r EXCEPT !.users = @ - 1,
            !.closes = IF r.users = 1 /\ r.gone THEN @ + 1 ELSE @]

\* release: the last user of a dropped harness closes it, and of a live one
\* starts its idle timer.
Released(r) ==
  [r EXCEPT !.users = @ - 1,
            !.timer = IF r.users = 1 /\ ~r.gone THEN TRUE ELSE @,
            !.closes = IF r.users = 1 /\ r.gone THEN @ + 1 ELSE @]

Release(c, e) ==
  LET r == c.entry[e] IN
    [c EXCEPT !.unused = IF r.users = 1 /\ ~r.gone THEN Append(@, e) ELSE @,
              !.entry[e] = Released(@)]

\* replace, and the end of an acquire whose build failed.
Replace(c, e) == Release(Drop(c, e), e)

Cached(c) == {id \in Ids : c.byID[id] # None}

\* makeRoom.
MakeRoom(c) ==
  IF Limit = 0 \/ Cardinality(Cached(c)) < Limit \/ c.unused = <<>> THEN c
  ELSE Drop(c, Head(c.unused))

\* A new entry, whose build starts.
Put(c, id, e, k) ==
  [c EXCEPT !.byID[id] = e,
            !.entry[e] = [NoEntry EXCEPT !.of = id, !.key = k, !.built = "building"]]

\* The users' side of acquire: one more, and no timer.
Used(r) == [r EXCEPT !.users = @ + 1, !.timer = FALSE]

Use(c, e) ==
  [c EXCEPT !.unused = Without(@, e), !.entry[e] = Used(@)]

Free == {e \in Slots : entry[e] = NoEntry}

\* Mutant of SeesStale: a failed Commit's harness is used again.
SeesNone(e) == {FALSE}

\* acquire, as far as the wait for the build.  It reads stale without the lock
\* a Commit writes it under: while one writes, it may see either.
SeesStale(e) == IF entry[e].writer = None THEN {entry[e].stale} ELSE BOOLEAN

Acquire(s) ==
  LET id == step[s].of
      e  == byID[id]
  IN /\ step[s].pc = "acquire"
     /\ \E stale \in IF e = None THEN {FALSE} ELSE SeesStale(e) :
          IF e # None /\ entry[e].key = step[s].key /\ ~stale
          THEN Becomes(Use(Now, e)) /\ step' = [step EXCEPT ![s].pc = "wait", ![s].at = e]
          ELSE LET kept == IF e = None THEN Now ELSE Drop(Now, e)
                   new  == CHOOSE n \in Free : TRUE
               IN /\ Free # {}
                  /\ Becomes(Use(Put(MakeRoom(kept), id, new, step[s].key), new))
                  /\ step' = [step EXCEPT ![s].pc = "wait", ![s].at = new]
     /\ UNCHANGED <<saved, key, wf, said, sent, troubles>>

-----------------------------------------------------------------------------
(* How a step's end reaches its workflow.  The workflow does not hear of a *)
(* step it stopped waiting for.                                            *)

Ends(s) == step' = [step EXCEPT ![s] = NoStep]

Heard(s) == step[s].live /\ step[s].kind = "commit"

Answers(s, rev) ==
  LET id == step[s].of IN
  IF Heard(s)
  THEN /\ wf' = [wf EXCEPT ![id].phase = "open", ![id].base = rev, ![id].tries = 0]
       /\ acked' = [acked EXCEPT ![id] = @ \cup {step[s].no}]
       /\ UNCHANGED lost
  ELSE UNCHANGED <<wf, acked, lost>>

\* The activity's retry policy: again says whether the error is retried.
Fails(s, again) ==
  LET id == step[s].of IN
  /\ IF ~Heard(s) THEN UNCHANGED <<wf, lost>>
     ELSE IF again /\ wf[id].tries < MaxAttempts
     THEN wf' = [wf EXCEPT ![id].phase = "retry"] /\ UNCHANGED lost
     ELSE /\ wf' = [wf EXCEPT ![id].phase = "open", ![id].tries = 0]
          /\ lost' = [lost EXCEPT ![id] = @ \cup {step[s].no}]
  /\ UNCHANGED acked

\* A call to the store or a build may fail; a cancelled step's may at no cost.
Faulty(live) ==
  \/ ~live /\ UNCHANGED troubles
  \/ troubles < MaxTroubles /\ troubles' = troubles + 1

-----------------------------------------------------------------------------
(* One attempt.                                                            *)

\* entry.build, once for everyone who waits for it.
Built(e) ==
  /\ entry[e].built = "building"
  /\ \/ entry' = [entry EXCEPT ![e].built = "ok"] /\ UNCHANGED troubles
     \/ Faulty(TRUE) /\ entry' = [entry EXCEPT ![e].built = "failed"]
  /\ UNCHANGED <<saved, byID, unused, step, key, wf, said, sent>>

\* The rest of acquire.
Acquired(s) ==
  LET e == step[s].at IN
  /\ step[s].pc = "wait"
  /\ \/ /\ entry[e].built = "ok"
        /\ step' = [step EXCEPT ![s].pc = IF step[s].kind = "read" THEN "rlock" ELSE "trylock"]
        /\ UNCHANGED <<cache, wf, acked, lost>>
     \/ /\ entry[e].built = "failed"
        /\ Becomes(Replace(Now, e)) /\ Ends(s)
        /\ \E again \in BOOLEAN : Fails(s, again)
  /\ UNCHANGED <<saved, key, exposed, sent, troubles>>

\* Mutant of RLock: does not wait for the writer.
RLockAnyway(s) ==
  LET e == step[s].at IN
  /\ step[s].pc = "rlock"
  /\ entry' = [entry EXCEPT ![e].readers = @ \cup {s}]
  /\ step' = [step EXCEPT ![s].pc = "check"]
  /\ UNCHANGED <<saved, byID, unused, key, wf, said, sent, troubles>>

\* rlock: the read lock, and Snapshot.Current under it.
RLock(s) ==
  LET e == step[s].at IN
  /\ step[s].pc = "rlock" /\ entry[e].writer = None
  /\ entry' = [entry EXCEPT ![e].readers = @ \cup {s}]
  /\ step' = [step EXCEPT ![s].pc = "check"]
  /\ UNCHANGED <<saved, byID, unused, key, wf, said, sent, troubles>>

Current(e) == entry[e].loaded /\ entry[e].rev = saved[entry[e].of].gen

RUnlock(c, e, s) == With(c, e, [c.entry[e] EXCEPT !.readers = @ \ {s}])
Unlock(c, e)     == With(c, e, [c.entry[e] EXCEPT !.writer = None])

Check(s) ==
  LET e == step[s].at IN
  /\ step[s].pc = "check"
  /\ \/ /\ Current(e)
        /\ step' = [step EXCEPT ![s].pc = "reading"]
        /\ UNCHANGED <<cache, wf, acked, lost, troubles>>
     \/ /\ ~Current(e)
        /\ Becomes(RUnlock(Now, e, s)) /\ step' = [step EXCEPT ![s].pc = "trysync"]
        /\ UNCHANGED <<wf, acked, lost, troubles>>
     \/ /\ Faulty(step[s].live)
        /\ Becomes(Release(RUnlock(Now, e, s), e)) /\ Ends(s)
        /\ \E again \in BOOLEAN : Fails(s, again)
  /\ UNCHANGED <<saved, key, exposed, sent>>

Held(e) == entry[e].readers # {} \/ entry[e].writer # None

Again(s) == step' = [step EXCEPT ![s].pc = "acquire", ![s].at = None, ![s].held = FALSE]

TrySync(s) ==
  LET e == step[s].at IN
  /\ step[s].pc = "trysync"
  /\ \/ /\ ~Held(e)
        /\ entry' = [entry EXCEPT ![e].writer = s]
        /\ step' = [step EXCEPT ![s].pc = "sync"]
        /\ UNCHANGED <<byID, unused>>
     \/ /\ Held(e) /\ ~step[s].held
        /\ step' = [step EXCEPT ![s].pc = "rlock", ![s].held = TRUE]
        /\ UNCHANGED cache
     \/ /\ Held(e) /\ step[s].held
        /\ Becomes(Replace(Now, e)) /\ Again(s)
  /\ UNCHANGED <<saved, key, wf, said, sent, troubles>>

\* Snapshot.Sync, when it succeeds.
Synced(c, e) ==
  LET store == saved[c.entry[e].of] IN
  IF Current(e) THEN c
  ELSE IF store.gen = 0 THEN With(c, e, [c.entry[e] EXCEPT !.loaded = TRUE])
  ELSE With(c, e, [c.entry[e] EXCEPT !.loaded = TRUE, !.rev = store.gen,
                                     !.holds = store.rows])

Sync(s) ==
  LET e == step[s].at IN
  /\ step[s].pc = "sync"
  /\ \/ /\ Becomes(Synced(Unlock(Now, e), e)) /\ step' = [step EXCEPT ![s].pc = "rlock"]
        /\ UNCHANGED <<wf, acked, lost, troubles>>
     \/ /\ Faulty(step[s].live)
        /\ Becomes(Release(Unlock(Now, e), e)) /\ Ends(s)
        /\ \E again \in BOOLEAN : Fails(s, again)
  /\ UNCHANGED <<saved, key, exposed, sent>>

\* The step of a read returns.
EndRead(s) ==
  LET e == step[s].at IN
  /\ step[s].pc = "reading"
  /\ Becomes(Release(RUnlock(Now, e, s), e)) /\ Ends(s)
  /\ UNCHANGED <<saved, key, wf, said, sent, troubles>>

\* harnessCache.Commit: never waits for a step the turn moved past.
TryCommit(s) ==
  LET e == step[s].at IN
  /\ step[s].pc = "trylock"
  /\ IF Held(e) THEN Becomes(Replace(Now, e)) /\ Again(s)
     ELSE /\ entry' = [entry EXCEPT ![e].writer = s]
          /\ step' = [step EXCEPT ![s].pc = "commit"]
          /\ UNCHANGED <<byID, unused>>
  /\ UNCHANGED <<saved, key, wf, said, sent, troubles>>

\* Mutant of Apply: does not look for an earlier attempt.
ApplyAgain(s) ==
  LET e  == step[s].at
      c  == Synced(Now, e)
      to == c.entry[e]
  IN
  /\ step[s].pc = "commit"
  /\ \/ /\ Becomes(With(c, e, [to EXCEPT !.stale = TRUE,
                                       !.holds = Append(@, step[s].no)]))
        /\ step' = [step EXCEPT ![s].pc = "save"]
        /\ UNCHANGED <<wf, acked, lost, troubles>>
     \/ /\ Faulty(step[s].live)
        /\ Becomes(Release(Unlock(Now, e), e))
        /\ Ends(s) /\ \E again \in BOOLEAN : Fails(s, again)
  /\ UNCHANGED <<saved, key, exposed, sent>>

\* Snapshot.Commit up to Save: an earlier attempt saved, or apply.
Apply(s) ==
  LET e  == step[s].at
      c  == Synced(Now, e)
      to == c.entry[e]
  IN
  /\ step[s].pc = "commit"
  /\ \/ /\ to.rev # step[s].base
        /\ Becomes(Release(Unlock(c, e), e))
        /\ Ends(s) /\ Answers(s, to.rev) /\ UNCHANGED troubles
     \/ /\ to.rev = step[s].base
        /\ Becomes(With(c, e, [to EXCEPT !.stale = TRUE,
                                       !.holds = Append(@, step[s].no)]))
        /\ step' = [step EXCEPT ![s].pc = "save"]
        /\ UNCHANGED <<wf, acked, lost, troubles>>
     \/ /\ Faulty(step[s].live)
        /\ \E synced \in BOOLEAN :
             Becomes(Release(Unlock(IF synced THEN c ELSE Now, e), e))
        /\ Ends(s) /\ \E again \in BOOLEAN : Fails(s, again)
  /\ UNCHANGED <<saved, key, exposed, sent>>

\* Save with its outcomes: saved, and then the turn's leftovers dropped or not;
\* saved and the answer lost; another revision in the store; not saved.
Save(s) ==
  LET e  == step[s].at
      id == step[s].of
      c  == Release(Unlock(Now, e), e)
      to == saved[id].gen + 1
      Writes == saved' = [saved EXCEPT ![id] = [gen |-> to, rows |-> entry[e].holds]]
      Clean  == With(c, e, [c.entry[e] EXCEPT !.rev = to, !.stale = FALSE])
      Tries  == saved[id].gen = entry[e].rev
  IN
  /\ step[s].pc = "save" /\ Ends(s)
  /\ \/ /\ Tries /\ Writes /\ Becomes(Clean) /\ Answers(s, to)
        /\ UNCHANGED <<exposed, troubles>>
     \/ /\ Tries /\ Writes /\ Faulty(step[s].live)
        /\ Becomes(Clean) \/ Becomes(c)
        /\ \E again \in BOOLEAN : Fails(s, again)
        /\ UNCHANGED exposed
     \/ /\ ~Tries /\ Becomes(c) /\ Fails(s, TRUE)
        /\ UNCHANGED <<saved, exposed, troubles>>
     \/ /\ Tries /\ Faulty(step[s].live) /\ Becomes(c)
        /\ \E again \in BOOLEAN : Fails(s, again)
        /\ exposed' = IF entry[e].users > 1 THEN exposed \cup {id} ELSE exposed
        /\ UNCHANGED saved
  /\ UNCHANGED <<key, sent>>

-----------------------------------------------------------------------------
(* The cache on its own.                                                   *)

\* release's idle timer fires.
Timer(e) ==
  /\ entry[e].timer /\ entry[e].users = 0 /\ byID[entry[e].of] = e
  /\ Becomes(Drop(Now, e))
  /\ UNCHANGED <<saved, step, key, wf, said, sent, troubles>>

\* close's goroutine, once the harness is built.
Closed(e) ==
  /\ entry[e].closes > 0 /\ entry[e].built \in {"ok", "failed"} /\ ~entry[e].closed
  /\ entry' = [entry EXCEPT ![e] =
                 IF entry[e].users = 0 THEN NoEntry ELSE [@ EXCEPT !.closed = TRUE]]
  /\ UNCHANGED <<saved, byID, unused, step, key, wf, said, sent, troubles>>

-----------------------------------------------------------------------------
(* The workflow, which runs the reads of a reply at once and a Commit on   *)
(* its own.                                                                *)

Idle(s) == step[s].pc = "none"

Waits(id) == \E s \in Steps : step[s].of = id /\ step[s].live

Sends(s, id, kind, w) ==
  /\ Idle(s)
  /\ step' = [step EXCEPT ![s] = [NoStep EXCEPT !.pc = "acquire", !.of = id, !.kind = kind,
                !.key = key[id], !.live = TRUE, !.no = w.no, !.base = w.base]]

Read(s, id) ==
  /\ wf[id].phase = "open" /\ reads < MaxReads
  /\ reads' = reads + 1
  /\ Sends(s, id, "read", [no |-> 0, base |-> 0])
  /\ UNCHANGED <<saved, cache, key, wf, said, commits, troubles>>

Commit(s, id) ==
  /\ wf[id].phase = "open" /\ commits < MaxCommits /\ ~Waits(id)
  /\ commits' = commits + 1
  /\ wf' = [wf EXCEPT ![id].phase = "commit", ![id].no = @ + 1, ![id].tries = 1]
  /\ Sends(s, id, "commit", wf'[id])
  /\ UNCHANGED <<saved, cache, key, said, reads, troubles>>

Retry(s, id) ==
  /\ wf[id].phase = "retry"
  /\ wf' = [wf EXCEPT ![id].phase = "commit", ![id].tries = @ + 1]
  /\ Sends(s, id, "commit", wf'[id])
  /\ UNCHANGED <<saved, cache, key, said, sent, troubles>>

\* The workflow stops waiting: a cancel of a read, or no heartbeat in time.
Timeout(s) ==
  /\ step[s].live /\ troubles < MaxTroubles
  /\ troubles' = troubles + 1
  /\ step' = [step EXCEPT ![s].live = FALSE]
  /\ Fails(s, TRUE)
  /\ UNCHANGED <<saved, cache, key, exposed, sent>>

\* Refreshed auth, new MCP servers.
Rekey(id, k) ==
  /\ wf[id].phase = "open" /\ k # key[id] /\ Faulty(TRUE)
  /\ key' = [key EXCEPT ![id] = k]
  /\ UNCHANGED <<saved, cache, step, wf, said, sent>>

\* Close, by the CloseHarness step of a session that ends.
Close(id) ==
  /\ wf[id].phase = "open" /\ ~Waits(id)
  /\ wf' = [wf EXCEPT ![id].phase = "closed"]
  /\ IF byID[id] = None THEN UNCHANGED cache ELSE Becomes(Drop(Now, byID[id]))
  /\ UNCHANGED <<saved, step, key, said, sent, troubles>>

Init ==
  /\ saved = [id \in Ids |-> [gen |-> 0, rows |-> <<>>]]
  /\ byID = [id \in Ids |-> None] /\ unused = <<>>
  /\ entry = [e \in Slots |-> NoEntry]
  /\ step = [s \in Steps |-> NoStep]
  /\ key = [id \in Ids |-> CHOOSE k \in Keys : TRUE]
  /\ wf = [id \in Ids |-> [phase |-> "open", no |-> 0, base |-> 0, tries |-> 0]]
  /\ acked = [id \in Ids |-> {}] /\ lost = [id \in Ids |-> {}] /\ exposed = {}
  /\ commits = 0 /\ reads = 0 /\ troubles = 0

StepGoes(s) ==
  \/ Acquire(s) \/ Acquired(s) \/ RLock(s) \/ Check(s) \/ TrySync(s) \/ Sync(s)
  \/ EndRead(s) \/ TryCommit(s) \/ Apply(s) \/ Save(s)

Next ==
  \/ \E s \in Steps : StepGoes(s) \/ Timeout(s)
  \/ \E e \in Slots : Built(e) \/ Timer(e) \/ Closed(e)
  \/ \E s \in Steps, id \in Ids : Read(s, id) \/ Commit(s, id) \/ Retry(s, id)
  \/ \E id \in Ids : Close(id) \/ \E k \in Keys : Rekey(id, k)

Fairness ==
  WF_vars(\/ \E s \in Steps : StepGoes(s)
          \/ \E e \in Slots : Built(e) \/ Timer(e) \/ Closed(e))

Spec == Init /\ [][Next]_vars /\ Fairness

-----------------------------------------------------------------------------
(* Properties.                                                             *)

\* Steps, entries, checkpoints and the workflow's side keep their types.
TypeOK ==
  /\ \A id \in Ids : byID[id] \in Slots \cup {None} /\ saved[id].gen \in Nat
  /\ \A e \in Slots : entry[e].users \in 0..Cardinality(Steps)
                      /\ entry[e].readers \subseteq Steps /\ entry[e].writer \in Steps \cup {None}
  /\ \A id \in Ids : wf[id].phase \in {"open", "commit", "retry", "closed"}

InUse(e) == {s \in Steps : step[s].at = e}

\* A harness is closed once, only when it is out of the cache and the last step
\* on it has let go, and a step never holds one that is closed; one that is not
\* dropped is the cache's (release, drop, replace and the timer agree).
ClosedUnused ==
  \A e \in Slots :
    /\ entry[e].users = Cardinality(InUse(e))
    /\ entry[e].closes <= 1 /\ ~entry[e].closed
    /\ entry[e].closes = 1 => entry[e].gone /\ InUse(e) = {}
    /\ entry[e] # NoEntry => (entry[e].gone <=> byID[entry[e].of] # e)

\* A checkpoint is written by one step while no other reads or writes it
\* (the entry's RWMutex with the TryLocks of rlock and Commit).
Alone ==
  \A e \in Slots :
    entry[e].writer # None =>
      /\ entry[e].readers = {}
      /\ \A s \in InUse(e) : step[s].pc \in {"sync", "commit", "save"} => s = entry[e].writer

Prefix(x, y) == Len(x) <= Len(y) /\ SubSeq(y, 1, Len(x)) = x

\* Both, with the types: a harness is never closed, dropped or written under
\* a step that uses it (the cache's lock, its counts and the entries' locks).
HarnessesSafe == TypeOK /\ ClosedUnused /\ Alone

\* What a read sees was committed: the applied half of a Commit that failed is
\* never read, but by a step that held the harness when it failed.
ReadsCommitted ==
  \A s \in Steps :
    step[s].pc = "reading" /\ step[s].of \notin exposed =>
      Prefix(entry[step[s].at].holds, saved[step[s].of].rows)

Increasing(x) == \A i, j \in DOMAIN x : i < j => x[i] < x[j]

\* No Commit is applied to the store twice or after a later one, whatever is
\* retried, and by whichever attempts (Save's compare, Commit's base).
SavedOnce == \A id \in Ids : id \notin exposed => Increasing(saved[id].rows)

\* A Commit the workflow was told saved is in the store, unless one before it
\* saved and failed for the workflow (Snapshot.Commit's "an earlier attempt").
AckedSaved ==
  \A id \in Ids : \A n \in acked[id] :
    LET Rows == {saved[id].rows[i] : i \in DOMAIN saved[id].rows}
    IN n \in Rows \/ \E m \in lost[id] : m < n /\ m \in Rows

\* All three: what a step reads was committed, and a Commit the workflow counts
\* on is in the store once and in its place.
CommitsOnce == ReadsCommitted /\ SavedOnce /\ AckedSaved

\* Every step ends and every harness is closed, with its mounts, once the work
\* stops: no lock, build, replaced harness or step the workflow left behind
\* holds up another for good, and no entry is lost to its timer.
Drains == <>[]((\A s \in Steps : Idle(s)) /\ \A e \in Slots : entry[e] = NoEntry)

\* The same without its exception: a Commit that says it saved did.
AckedIsSaved ==
  \A id \in Ids : \A n \in acked[id] : \E i \in DOMAIN saved[id].rows : saved[id].rows[i] = n

\* The same without its exception: a failed Commit's harness is dropped.
SavedOnceAlways == \A id \in Ids : Increasing(saved[id].rows)
===============================================================================
