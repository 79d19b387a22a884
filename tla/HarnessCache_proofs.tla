------------------------ MODULE HarnessCache_proofs ------------------------
(***************************************************************************)
(* Proofs about HarnessCache, for any number of sessions, steps, harnesses *)
(* and commits and any limit of the cache: a harness is never closed,      *)
(* dropped or written under a step that uses it; and through the retries,  *)
(* the attempts left behind and the late answers of a commit, a read sees  *)
(* committed rows, no commit is in the store twice or out of order, and    *)
(* one that the workflow was told saved is there, with the exceptions that *)
(* CommitsOnce names: a session in exposed, and a commit in lost.          *)
(***************************************************************************)
EXTENDS HarnessCache, Picks_proofs

Entry ==
  [of : Ids \cup {None}, key : Keys \cup {None}, built : {"no", "building", "ok", "failed"},
   users : Nat, gone : BOOLEAN, timer : BOOLEAN, closes : Nat, closed : BOOLEAN,
   readers : SUBSET Steps, writer : Steps \cup {None},
   rev : Nat, loaded : BOOLEAN, stale : BOOLEAN, holds : Seq(Nat)]

Cache == [byID : [Ids -> Slots \cup {None}], unused : Seq(Slots), entry : [Slots -> Entry]]

Writing == {"sync", "commit", "save"}
Reading == {"check", "reading"}

Attempt ==
  [pc : {"none", "acquire", "wait", "rlock", "trysync", "trylock"} \cup Reading \cup Writing,
   of : Ids \cup {None}, kind : {"read", "commit"}, key : Keys \cup {None},
   at : Slots \cup {None}, held : BOOLEAN, live : BOOLEAN, no : Nat, base : Nat]

Workflow == [phase : {"open", "commit", "retry", "closed"}, no : Nat, base : Nat, tries : Nat]

\* What the store and the workflows hold.
Types ==
  /\ saved \in [Ids -> [gen : Nat, rows : Seq(Nat)]]
  /\ key \in [Ids -> Keys]
  /\ wf \in [Ids -> Workflow]

\* An attempt that runs has a session, and a harness once it acquired one.
Attempts ==
  /\ step \in [Steps -> Attempt]
  /\ \A s \in Steps :
       /\ step[s].at = None <=> step[s].pc \in {"none", "acquire"}
       /\ step[s].pc # "none" => step[s].of \in Ids
       /\ step[s].pc = "none" => ~step[s].live

\* The counts of the cache c agree with the steps that use its harnesses, and a
\* harness is the cache's until it is dropped.
Good(c, use) ==
  /\ c \in Cache
  /\ \A e \in Slots :
       /\ c.entry[e].users = Cardinality(use[e])
       /\ c.entry[e].closes <= 1 /\ ~c.entry[e].closed
       /\ c.entry[e].closes = 1 => c.entry[e].gone /\ use[e] = {}
       /\ c.entry[e].of = None => c.entry[e] = NoEntry
       /\ c.entry[e].of # None => (c.entry[e].gone <=> c.byID[c.entry[e].of] # e)
       /\ In(e, c.unused) => c.entry[e].of # None /\ ~c.entry[e].gone
  /\ \A id \in Ids : c.byID[id] # None => c.entry[c.byID[id]].of = id

Using == [e \in Slots |-> InUse(e)]

CacheGood == Good(Now, Using)

\* An entry's lock is held by the steps that read or write under it.
Locks ==
  /\ \A s \in Steps : step[s].pc \in Writing => entry[step[s].at].writer = s
  /\ \A s \in Steps : step[s].pc \in Reading => s \in entry[step[s].at].readers
  /\ \A e \in Slots :
       /\ entry[e].writer # None =>
            /\ entry[e].readers = {} /\ step[entry[e].writer].at = e
            /\ step[entry[e].writer].pc \in Writing
       /\ \A s \in entry[e].readers : step[s].at = e /\ step[s].pc \in Reading

IInv == Types /\ Attempts /\ CacheGood /\ Locks

-----------------------------------------------------------------------------
(* The operators of the cache. *)

\* The fields of an entry that the counts of the cache do not read.
SameUse(r, q) ==
  /\ q.of = r.of /\ q.users = r.users /\ q.gone = r.gone
  /\ q.closes = r.closes /\ q.closed = r.closed

\* The locks and the checkpoints of all entries stay.
SameLocks(c, d) ==
  \A e \in Slots : d.entry[e].readers = c.entry[e].readers /\ d.entry[e].writer = c.entry[e].writer

LEMMA Constants ==
    /\ IsFiniteSet(Steps) /\ None \notin Ids /\ None \notin Slots /\ None \notin Steps
    /\ NoEntry \in Entry /\ NoEntry.of = None /\ NoEntry.readers = {} /\ NoEntry.writer = None
    /\ NoStep \in Attempt /\ NoStep.pc = "none" /\ NoStep.at = None /\ ~NoStep.live
<1>1. <<>> \in Seq(Nat)
    OBVIOUS
<1> QED
    BY <1>1, ConstantsOK DEF NoEntry, NoStep, Entry, Attempt

LEMMA UsersOfNone ==
    ASSUME NEW S \in SUBSET Steps
    PROVE  /\ IsFiniteSet(S) /\ Cardinality(S) \in 0..Cardinality(Steps) /\ Cardinality(S) \in Nat
           /\ Cardinality(S) = 0 <=> S = {}
<1>1. IsFiniteSet(S) /\ Cardinality(S) <= Cardinality(Steps)
    BY Constants, FS_Subset
<1>2. Cardinality(S) \in Nat /\ Cardinality(Steps) \in Nat
    BY <1>1, Constants, FS_CardinalityType
<1>3. Cardinality(S) = 0 <=> S = {}
    BY <1>1, FS_EmptySet
<1> QED
    BY <1>1, <1>2, <1>3

\* A write of the fields that the counts do not read keeps them.
LEMMA SameGood ==
    ASSUME NEW c, NEW d \in Cache, NEW use, Good(c, use), d.byID = c.byID, d.unused = c.unused,
           \A e \in Slots : d.entry[e] = c.entry[e] \/ (c.entry[e].of # None /\ SameUse(c.entry[e], d.entry[e]))
    PROVE  Good(d, use)
<1>1. \A e \in Slots : SameUse(c.entry[e], d.entry[e]) /\ (c.entry[e].of = None => d.entry[e] = c.entry[e])
    BY DEF SameUse
<1>2. ASSUME NEW e \in Slots
      PROVE  /\ d.entry[e].users = Cardinality(use[e])
             /\ d.entry[e].closes <= 1 /\ ~d.entry[e].closed
             /\ d.entry[e].closes = 1 => d.entry[e].gone /\ use[e] = {}
             /\ d.entry[e].of = None => d.entry[e] = NoEntry
             /\ d.entry[e].of # None => (d.entry[e].gone <=> d.byID[d.entry[e].of] # e)
             /\ In(e, d.unused) => d.entry[e].of # None /\ ~d.entry[e].gone
    BY <1>1 DEF Good, SameUse
<1>3. ASSUME NEW id \in Ids, d.byID[id] # None PROVE d.entry[d.byID[id]].of = id
    <2>1. c.byID[id] \in Slots /\ c.entry[c.byID[id]].of = id
        BY <1>3 DEF Good, Cache
    <2> QED
        BY <1>1, <2>1 DEF SameUse
<1> QED
    BY <1>2, <1>3 DEF Good

LEMMA DroppedFields ==
    ASSUME NEW r \in Entry
    PROVE  /\ Dropped(r) \in Entry
           /\ Dropped(r).of = r.of /\ Dropped(r).users = r.users
           /\ Dropped(r).gone /\ Dropped(r).closed = r.closed
           /\ Dropped(r).closes = IF r.users = 0 THEN r.closes + 1 ELSE r.closes
           /\ Dropped(r).readers = r.readers /\ Dropped(r).writer = r.writer
<1>1. PICK n : n = IF r.users = 0 THEN r.closes + 1 ELSE r.closes
    OBVIOUS
<1>2. n \in Nat
    BY <1>1 DEF Entry
<1>3. Dropped(r) = [r EXCEPT !.gone = TRUE, !.timer = FALSE, !.closes = n]
    BY <1>1 DEF Dropped
<1>4. Dropped(r) \in Entry
    BY <1>2, <1>3 DEF Entry
<1>5. /\ Dropped(r).of = r.of /\ Dropped(r).users = r.users
      /\ Dropped(r).readers = r.readers /\ Dropped(r).writer = r.writer
    BY DEF Entry, Dropped
<1>6. Dropped(r).gone /\ Dropped(r).closed = r.closed
    BY DEF Entry, Dropped
<1>7. Dropped(r).closes = IF r.users = 0 THEN r.closes + 1 ELSE r.closes
    BY DEF Entry, Dropped
<1> QED
    BY <1>4, <1>5, <1>6, <1>7

LEMMA ReleasedFields ==
    ASSUME NEW r \in Entry, r.users # 0
    PROVE  /\ Released(r) \in Entry
           /\ Released(r).of = r.of /\ Released(r).users = r.users - 1
           /\ Released(r).gone = r.gone /\ Released(r).closed = r.closed
           /\ Released(r).closes = IF r.users = 1 /\ r.gone THEN r.closes + 1 ELSE r.closes
           /\ Released(r).readers = r.readers /\ Released(r).writer = r.writer
<1>1. PICK n, t, u : /\ n = IF r.users = 1 /\ r.gone THEN r.closes + 1 ELSE r.closes
                     /\ t = IF r.users = 1 /\ ~r.gone THEN TRUE ELSE r.timer
                     /\ u = r.users - 1
    OBVIOUS
<1>2. n \in Nat /\ u \in Nat
    BY <1>1 DEF Entry
<1>3. t \in BOOLEAN
    <2>1. r.timer \in BOOLEAN
        BY DEF Entry
    <2> QED
        BY <1>1, <2>1, Zenon
<1>4. Released(r) = [r EXCEPT !.users = u, !.timer = t, !.closes = n]
    BY <1>1 DEF Released
<1>5. Released(r) \in Entry
    BY <1>2, <1>3, <1>4 DEF Entry
<1>6. /\ Released(r).of = r.of /\ Released(r).users = r.users - 1
      /\ Released(r).readers = r.readers /\ Released(r).writer = r.writer
    BY DEF Entry, Released
<1>7. Released(r).gone = r.gone /\ Released(r).closed = r.closed
    BY DEF Entry, Released
<1>8. Released(r).closes = IF r.users = 1 /\ r.gone THEN r.closes + 1 ELSE r.closes
    BY DEF Entry, Released
<1> QED
    BY <1>5, <1>6, <1>7, <1>8

LEMMA UsedFields ==
    ASSUME NEW r \in Entry
    PROVE  /\ Used(r) \in Entry
           /\ Used(r).of = r.of /\ Used(r).users = r.users + 1
           /\ Used(r).gone = r.gone /\ Used(r).closes = r.closes /\ Used(r).closed = r.closed
           /\ Used(r).readers = r.readers /\ Used(r).writer = r.writer
<1>1. Used(r) \in Entry
    <2>1. PICK n : n = r.users + 1 /\ n \in Nat
        BY DEF Entry
    <2>2. Used(r) = [r EXCEPT !.users = n, !.timer = FALSE]
        BY <2>1 DEF Used
    <2> QED
        BY <2>1, <2>2 DEF Entry
<1>2. /\ Used(r).of = r.of /\ Used(r).users = r.users + 1
      /\ Used(r).readers = r.readers /\ Used(r).writer = r.writer
    BY DEF Entry, Used
<1>3. Used(r).gone = r.gone /\ Used(r).closes = r.closes /\ Used(r).closed = r.closed
    BY DEF Entry, Used
<1> QED
    BY <1>1, <1>2, <1>3

LEMMA UpdateFacts ==
    \A D, R : \A f \in [D -> R], e \in D, q \in R :
      /\ [f EXCEPT ![e] = q] \in [D -> R] /\ [f EXCEPT ![e] = q][e] = q
      /\ \A x \in D : x # e => [f EXCEPT ![e] = q][x] = f[x]
OBVIOUS

\* What drop writes.
LEMMA DropFields ==
    ASSUME NEW c \in Cache, NEW e \in Slots
    PROVE  /\ Drop(c, e) \in Cache
           /\ Drop(c, e).byID = [c.byID EXCEPT ![c.entry[e].of] = IF @ = e THEN None ELSE @]
           /\ Drop(c, e).unused = Without(c.unused, e)
           /\ \A x \in Slots : x # e => Drop(c, e).entry[x] = c.entry[x]
           /\ LET r == c.entry[e]
                  q == Drop(c, e).entry[e]
              IN  /\ q.of = r.of /\ q.users = r.users /\ q.gone /\ q.closed = r.closed
                  /\ q.closes = IF r.users = 0 THEN r.closes + 1 ELSE r.closes
                  /\ q.readers = r.readers /\ q.writer = r.writer
<1>1. PICK r, q : r = c.entry[e] /\ q = Dropped(r)
    OBVIOUS
<1>2. r \in Entry /\ c.entry \in [Slots -> Entry] /\ c.unused \in Seq(Slots) /\ c.byID \in [Ids -> Slots \cup {None}]
    BY <1>1 DEF Cache
<1>3. /\ q \in Entry
      /\ q.of = r.of /\ q.users = r.users /\ q.gone /\ q.closed = r.closed
      /\ q.closes = IF r.users = 0 THEN r.closes + 1 ELSE r.closes
      /\ q.readers = r.readers /\ q.writer = r.writer
    BY <1>1, <1>2, DroppedFields
<1>4. PICK n, b, u, v : /\ n = [c.entry EXCEPT ![e] = q] /\ u = Without(c.unused, e)
                        /\ v = IF c.byID[r.of] = e THEN None ELSE c.byID[r.of]
                        /\ b = [c.byID EXCEPT ![r.of] = v]
    OBVIOUS
<1>5. n \in [Slots -> Entry] /\ n[e] = q /\ \A x \in Slots : x # e => n[x] = c.entry[x]
    BY <1>2, <1>3, <1>4, UpdateFacts
<1>6. b \in [Ids -> Slots \cup {None}] /\ u \in Seq(Slots)
    BY <1>2, <1>4, WithoutElements
<1>7. Drop(c, e) = [byID |-> b, unused |-> u, entry |-> n]
    <2>1. PICK d : d = Drop(c, e)
        OBVIOUS
    <2>2. d = [c EXCEPT !.byID[r.of] = v, !.unused = u, !.entry[e] = q]
        BY <1>1, <1>4, <2>1 DEF Drop
    <2>3. c = [byID |-> c.byID, unused |-> c.unused, entry |-> c.entry]
        BY DEF Cache
    <2>4. d = [byID |-> b, unused |-> u, entry |-> n]
        BY <1>4, <2>2, <2>3
    <2> QED
        BY <2>1, <2>4
<1>8. Drop(c, e).byID = b /\ Drop(c, e).unused = u /\ Drop(c, e).entry = n /\ Drop(c, e) \in Cache
    BY <1>5, <1>6, <1>7 DEF Cache
<1> QED
    BY <1>1, <1>3, <1>4, <1>5, <1>8

LEMMA DropGood ==
    ASSUME NEW c, NEW use \in [Slots -> SUBSET Steps], Good(c, use), NEW e \in Slots,
           c.entry[e].of # None, use[e] # {} \/ ~c.entry[e].gone
    PROVE  /\ Good(Drop(c, e), use) /\ SameLocks(c, Drop(c, e))
           /\ c.byID[c.entry[e].of] = e => Drop(c, e).byID[c.entry[e].of] = None
           /\ \A id \in Ids : c.byID[id] = None => Drop(c, e).byID[id] = None
           /\ \A x \in Slots : x # e => Drop(c, e).entry[x] = c.entry[x]
           /\ Drop(c, e).entry[e].of = c.entry[e].of
<1> DEFINE id == c.entry[e].of
<1>1. c \in Cache /\ id \in Ids /\ c.entry[e] \in Entry /\ None \notin Slots
    BY Constants DEF Good, Cache, Entry
<1>2. PICK d : d = Drop(c, e)
    OBVIOUS
<1>3. /\ d \in Cache
      /\ d.byID = [c.byID EXCEPT ![id] = IF @ = e THEN None ELSE @]
      /\ d.unused = Without(c.unused, e)
      /\ \A x \in Slots : x # e => d.entry[x] = c.entry[x]
      /\ d.entry[e].of = id /\ d.entry[e].users = c.entry[e].users /\ d.entry[e].gone
      /\ d.entry[e].closed = c.entry[e].closed
      /\ d.entry[e].closes = IF c.entry[e].users = 0 THEN c.entry[e].closes + 1 ELSE c.entry[e].closes
      /\ d.entry[e].readers = c.entry[e].readers /\ d.entry[e].writer = c.entry[e].writer
    BY <1>1, <1>2, DropFields
<1>4. /\ c.byID \in [Ids -> Slots \cup {None}] /\ d.byID \in [Ids -> Slots \cup {None}]
      /\ \A i \in Ids : d.byID[i] = IF i = id /\ c.byID[id] = e THEN None ELSE c.byID[i]
    BY <1>1, <1>3 DEF Cache
<1>5. \A x : In(x, d.unused) => In(x, c.unused) /\ x # e
    BY <1>1, <1>3, WithoutElements DEF Cache
<1>6. /\ c.entry[e].users = Cardinality(use[e]) /\ (Cardinality(use[e]) = 0 <=> use[e] = {})
      /\ c.entry[e].closes <= 1 /\ ~c.entry[e].closed /\ c.entry[e].closes \in Nat
      /\ (c.entry[e].closes = 1 => c.entry[e].gone /\ use[e] = {})
    BY <1>1, UsersOfNone DEF Good, Entry
<1>7. /\ d.entry[e].users = Cardinality(use[e])
      /\ d.entry[e].closes <= 1 /\ ~d.entry[e].closed
      /\ d.entry[e].closes = 1 => d.entry[e].gone /\ use[e] = {}
      /\ d.entry[e].of # None /\ ~In(e, d.unused)
      /\ d.entry[e].gone /\ d.byID[d.entry[e].of] # e
    BY <1>1, <1>3, <1>4, <1>5, <1>6
<1>8. ASSUME NEW x \in Slots, x # e
      PROVE  /\ d.entry[x].users = Cardinality(use[x])
             /\ d.entry[x].closes <= 1 /\ ~d.entry[x].closed
             /\ d.entry[x].closes = 1 => d.entry[x].gone /\ use[x] = {}
             /\ d.entry[x].of = None => d.entry[x] = NoEntry
             /\ d.entry[x].of # None => (d.entry[x].gone <=> d.byID[d.entry[x].of] # x)
             /\ In(x, d.unused) => d.entry[x].of # None /\ ~d.entry[x].gone
    <2>1. d.entry[x] = c.entry[x]
        BY <1>3, <1>8
    <2>2. d.entry[x].of # None => d.entry[x].of \in Ids
        BY <1>1, <2>1 DEF Cache, Entry
    <2>3. d.entry[x].of \in Ids => (d.byID[d.entry[x].of] # x <=> c.byID[d.entry[x].of] # x)
        BY <1>1, <1>4, <1>8
    <2> QED
        BY <1>5, <2>1, <2>2, <2>3 DEF Good
<1>9. ASSUME NEW i \in Ids, d.byID[i] # None PROVE d.entry[d.byID[i]].of = i
    <2>1. d.byID[i] = c.byID[i] /\ c.byID[i] # None /\ c.byID[i] \in Slots
        BY <1>4, <1>9
    <2>2. c.entry[c.byID[i]].of = i
        <3>1. \A j \in Ids : c.byID[j] # None => c.entry[c.byID[j]].of = j
            BY DEF Good
        <3> QED
            BY <2>1, <3>1
    <2>3. \A x \in Slots : d.entry[x].of = c.entry[x].of
        BY <1>3
    <2> QED
        BY <2>1, <2>2, <2>3
<1>10. Good(d, use)
    BY <1>3, <1>7, <1>8, <1>9 DEF Good
<1>11. SameLocks(c, d)
    BY <1>3 DEF SameLocks
<1> QED
    BY <1>1, <1>2, <1>3, <1>4, <1>10, <1>11

LEMMA ReleaseFields ==
    ASSUME NEW c \in Cache, NEW e \in Slots, c.entry[e].users # 0
    PROVE  /\ Release(c, e) \in Cache /\ Release(c, e).byID = c.byID
           /\ \A x \in Slots : x # e => Release(c, e).entry[x] = c.entry[x]
           /\ LET r == c.entry[e]
                  q == Release(c, e).entry[e]
              IN  /\ q.of = r.of /\ q.users = r.users - 1 /\ q.gone = r.gone /\ q.closed = r.closed
                  /\ q.closes = IF r.users = 1 /\ r.gone THEN r.closes + 1 ELSE r.closes
                  /\ q.readers = r.readers /\ q.writer = r.writer
                  /\ \A x : In(x, Release(c, e).unused) => In(x, c.unused) \/ (x = e /\ ~r.gone)
<1>1. PICK r, q, u : /\ r = c.entry[e] /\ q = Released(r)
                     /\ u = IF r.users = 1 /\ ~r.gone THEN Append(c.unused, e) ELSE c.unused
    OBVIOUS
<1>2. r \in Entry /\ c.entry \in [Slots -> Entry] /\ c.unused \in Seq(Slots) /\ c.byID \in [Ids -> Slots \cup {None}]
    BY <1>1 DEF Cache
<1>3. /\ q \in Entry
      /\ q.of = r.of /\ q.users = r.users - 1 /\ q.gone = r.gone /\ q.closed = r.closed
      /\ q.closes = IF r.users = 1 /\ r.gone THEN r.closes + 1 ELSE r.closes
      /\ q.readers = r.readers /\ q.writer = r.writer
    <2>1. r \in Entry /\ r.users # 0
        BY <1>1, <1>2
    <2>2. q = Released(r)
        BY <1>1
    <2>3. q \in Entry /\ q.of = r.of /\ q.users = r.users - 1 /\ q.readers = r.readers /\ q.writer = r.writer
        BY <2>1, <2>2, ReleasedFields
    <2>4. q.gone = r.gone /\ q.closed = r.closed
        BY <2>1, <2>2, ReleasedFields
    <2>5. q.closes = IF r.users = 1 /\ r.gone THEN r.closes + 1 ELSE r.closes
        BY <2>1, <2>2, ReleasedFields
    <2> QED
        BY <2>3, <2>4, <2>5, Zenon
<1>4. u \in Seq(Slots) /\ \A x : In(x, u) => In(x, c.unused) \/ (x = e /\ ~r.gone)
    BY <1>1, <1>2, AppendElements
<1>5. PICK n : n = [c.entry EXCEPT ![e] = q]
    OBVIOUS
<1>6. n \in [Slots -> Entry] /\ n[e] = q /\ \A x \in Slots : x # e => n[x] = c.entry[x]
    BY <1>2, <1>3, <1>5, UpdateFacts
<1>7. Release(c, e) = [byID |-> c.byID, unused |-> u, entry |-> n]
    <2>1. PICK d : d = Release(c, e)
        OBVIOUS
    <2>2. d = [c EXCEPT !.unused = u, !.entry[e] = q]
        BY <1>1, <2>1 DEF Release
    <2>3. c = [byID |-> c.byID, unused |-> c.unused, entry |-> c.entry]
        BY DEF Cache
    <2>4. d = [byID |-> c.byID, unused |-> u, entry |-> n]
        BY <1>5, <2>2, <2>3
    <2> QED
        BY <2>1, <2>4
<1>8. Release(c, e).byID = c.byID /\ Release(c, e).unused = u /\ Release(c, e).entry = n /\ Release(c, e) \in Cache
    BY <1>2, <1>4, <1>6, <1>7 DEF Cache
<1> QED
    BY <1>1, <1>3, <1>4, <1>6, <1>8

LEMMA ReleaseGood ==
    ASSUME NEW c, NEW use \in [Slots -> SUBSET Steps], Good(c, use), NEW e \in Slots, NEW s \in use[e]
    PROVE  /\ Good(Release(c, e), [use EXCEPT ![e] = @ \ {s}]) /\ SameLocks(c, Release(c, e))
           /\ \A x \in Slots : x # e => Release(c, e).entry[x] = c.entry[x]
           /\ Release(c, e).entry[e].of # None
<1> DEFINE left == use[e] \ {s}
           id == c.entry[e].of
<1>1. c \in Cache /\ c.entry[e] \in Entry /\ use[e] \in SUBSET Steps /\ left \in SUBSET Steps
    BY DEF Good, Cache
<1>2. /\ c.entry[e].users = Cardinality(use[e]) /\ Cardinality(use[e]) # 0
      /\ Cardinality(left) = Cardinality(use[e]) - 1 /\ Cardinality(left) \in Nat
      /\ Cardinality(left) = 0 <=> left = {}
    <2>1. c.entry[e].users = Cardinality(use[e])
        BY DEF Good
    <2>2. IsFiniteSet(use[e]) /\ (Cardinality(use[e]) = 0 <=> use[e] = {})
        BY <1>1, UsersOfNone
    <2>3. Cardinality(left) = Cardinality(use[e]) - 1
        BY <2>2, FS_RemoveElement
    <2>4. Cardinality(left) \in Nat /\ (Cardinality(left) = 0 <=> left = {})
        BY <1>1, UsersOfNone
    <2> QED
        BY <2>1, <2>2, <2>3, <2>4
<1>3. /\ c.entry[e].closes \in Nat /\ c.entry[e].closes <= 1 /\ c.entry[e].closes # 1 /\ ~c.entry[e].closed
      /\ id # None /\ id \in Ids /\ (c.entry[e].gone <=> c.byID[id] # e)
    <2>1. c.entry[e].closes \in Nat /\ c.entry[e].closes <= 1 /\ c.entry[e].closes # 1 /\ ~c.entry[e].closed
        BY <1>1 DEF Good, Entry
    <2>2. id # None
        <3>1. NoEntry.users = 0
            BY DEF NoEntry
        <3> QED
            BY <1>2, <3>1 DEF Good
    <2> QED
        BY <1>1, <2>1, <2>2 DEF Good, Entry
<1>4. PICK d, us : d = Release(c, e) /\ us = [use EXCEPT ![e] = @ \ {s}]
    OBVIOUS
<1>5. us[e] = left /\ \A x \in Slots : x # e => us[x] = use[x]
    BY <1>4
<1>6. /\ d \in Cache /\ d.byID = c.byID
      /\ \A x \in Slots : x # e => d.entry[x] = c.entry[x]
      /\ d.entry[e].of = id /\ d.entry[e].users = c.entry[e].users - 1 /\ d.entry[e].gone = c.entry[e].gone
      /\ d.entry[e].closed = c.entry[e].closed
      /\ d.entry[e].closes = IF c.entry[e].users = 1 /\ c.entry[e].gone THEN c.entry[e].closes + 1 ELSE c.entry[e].closes
      /\ d.entry[e].readers = c.entry[e].readers /\ d.entry[e].writer = c.entry[e].writer
      /\ \A x : In(x, d.unused) => In(x, c.unused) \/ (x = e /\ ~c.entry[e].gone)
    <2>1. c \in Cache /\ c.entry[e].users # 0
        BY <1>1, <1>2
    <2>2. /\ d \in Cache /\ d.byID = c.byID
          /\ \A x \in Slots : x # e => d.entry[x] = c.entry[x]
          /\ \A x : In(x, d.unused) => In(x, c.unused) \/ (x = e /\ ~c.entry[e].gone)
        BY <1>4, <2>1, ReleaseFields
    <2>3. /\ d.entry[e].of = id /\ d.entry[e].users = c.entry[e].users - 1
          /\ d.entry[e].readers = c.entry[e].readers /\ d.entry[e].writer = c.entry[e].writer
        BY <1>4, <2>1, ReleaseFields
    <2>4. /\ d.entry[e].gone = c.entry[e].gone /\ d.entry[e].closed = c.entry[e].closed
          /\ d.entry[e].closes = IF c.entry[e].users = 1 /\ c.entry[e].gone THEN c.entry[e].closes + 1 ELSE c.entry[e].closes
        BY <1>4, <2>1, ReleaseFields
    <2> QED
        BY <2>2, <2>3, <2>4
<1> HIDE DEF left, id
<1>7. /\ d.entry[e].users = Cardinality(us[e])
      /\ d.entry[e].closes <= 1 /\ ~d.entry[e].closed
      /\ d.entry[e].closes = 1 => d.entry[e].gone /\ us[e] = {}
      /\ d.entry[e].of # None
      /\ d.entry[e].gone <=> d.byID[d.entry[e].of] # e
    BY <1>2, <1>3, <1>5, <1>6
<1>8. In(e, d.unused) => ~d.entry[e].gone
    BY <1>6 DEF Good
<1>9. ASSUME NEW x \in Slots, x # e
      PROVE  /\ d.entry[x].users = Cardinality(us[x])
             /\ d.entry[x].closes <= 1 /\ ~d.entry[x].closed
             /\ d.entry[x].closes = 1 => d.entry[x].gone /\ us[x] = {}
             /\ d.entry[x].of = None => d.entry[x] = NoEntry
             /\ d.entry[x].of # None => (d.entry[x].gone <=> d.byID[d.entry[x].of] # x)
             /\ In(x, d.unused) => d.entry[x].of # None /\ ~d.entry[x].gone
    <2>1. d.entry[x] = c.entry[x] /\ us[x] = use[x] /\ (In(x, d.unused) => In(x, c.unused))
        BY <1>5, <1>6, <1>9
    <2> QED
        BY <1>6, <2>1 DEF Good
<1>10. ASSUME NEW i \in Ids, d.byID[i] # None PROVE d.entry[d.byID[i]].of = i
    <2>1. c.byID[i] \in Slots /\ c.entry[c.byID[i]].of = i
        BY <1>6, <1>10 DEF Good, Cache
    <2> QED
        BY <1>6, <2>1 DEF id
<1>11. Good(d, us)
    BY <1>6, <1>7, <1>8, <1>9, <1>10 DEF Good
<1>12. SameLocks(c, d)
    BY <1>6 DEF SameLocks
<1> QED
    BY <1>4, <1>6, <1>7, <1>11, <1>12

LEMMA UseGood ==
    ASSUME NEW c, NEW use \in [Slots -> SUBSET Steps], Good(c, use), NEW e \in Slots,
           NEW s \in Steps, s \notin use[e], c.entry[e].of # None, ~c.entry[e].gone
    PROVE  Good(Use(c, e), [use EXCEPT ![e] = @ \cup {s}]) /\ SameLocks(c, Use(c, e))
<1> DEFINE more == use[e] \cup {s}
           id == c.entry[e].of
<1>1. c \in Cache /\ c.entry[e] \in Entry /\ use[e] \in SUBSET Steps
    BY DEF Good, Cache
<1>2. c.entry[e].users = Cardinality(use[e]) /\ c.entry[e].users \in Nat /\ Cardinality(more) = Cardinality(use[e]) + 1
    <2>1. IsFiniteSet(use[e])
        BY <1>1, UsersOfNone
    <2>2. Cardinality(more) = Cardinality(use[e]) + 1
        BY <2>1, FS_AddElement
    <2> QED
        BY <1>1, <2>2 DEF Good, Entry
<1>3. /\ c.entry[e].closes \in Nat /\ c.entry[e].closes <= 1 /\ c.entry[e].closes # 1 /\ ~c.entry[e].closed
      /\ c.byID[id] = e
    BY <1>1 DEF Good, Entry
<1>4. PICK d, us : d = Use(c, e) /\ us = [use EXCEPT ![e] = @ \cup {s}]
    OBVIOUS
<1>5. us[e] = more /\ \A x \in Slots : x # e => us[x] = use[x]
    BY <1>4
<1>6. PICK q, n, u : q = Used(c.entry[e]) /\ n = [c.entry EXCEPT ![e] = q] /\ u = Without(c.unused, e)
    OBVIOUS
<1>7. c.entry \in [Slots -> Entry] /\ c.byID \in [Ids -> Slots \cup {None}] /\ c.unused \in Seq(Slots)
    BY <1>1 DEF Cache
<1>8. /\ q \in Entry /\ q.of = id /\ q.users = c.entry[e].users + 1
      /\ q.gone = c.entry[e].gone /\ q.closes = c.entry[e].closes /\ q.closed = c.entry[e].closed
      /\ q.readers = c.entry[e].readers /\ q.writer = c.entry[e].writer
    BY <1>1, <1>6, UsedFields
<1>9. n \in [Slots -> Entry] /\ n[e] = q /\ \A x \in Slots : x # e => n[x] = c.entry[x]
    BY <1>6, <1>7, <1>8, UpdateFacts
<1>10. u \in Seq(Slots) /\ \A x : In(x, u) => In(x, c.unused) /\ x # e
    BY <1>6, <1>7, WithoutElements
<1>11. d = [byID |-> c.byID, unused |-> u, entry |-> n]
    <2>1. c = [byID |-> c.byID, unused |-> c.unused, entry |-> c.entry]
        BY <1>1 DEF Cache
    <2> QED
        BY <1>4, <1>6, <1>7, <2>1 DEF Use
<1>12. d \in Cache /\ d.byID = c.byID /\ d.unused = u /\ d.entry = n
    BY <1>7, <1>9, <1>10, <1>11 DEF Cache
<1> HIDE DEF more, id
<1>13. /\ d.entry[e].users = Cardinality(us[e])
       /\ d.entry[e].closes <= 1 /\ ~d.entry[e].closed /\ d.entry[e].closes # 1
       /\ d.entry[e].of # None /\ ~d.entry[e].gone /\ d.byID[d.entry[e].of] = e
    BY <1>2, <1>3, <1>5, <1>8, <1>9, <1>12 DEF id
<1>14. ASSUME NEW x \in Slots, x # e
       PROVE  /\ d.entry[x].users = Cardinality(us[x])
              /\ d.entry[x].closes <= 1 /\ ~d.entry[x].closed
              /\ d.entry[x].closes = 1 => d.entry[x].gone /\ us[x] = {}
              /\ d.entry[x].of = None => d.entry[x] = NoEntry
              /\ d.entry[x].of # None => (d.entry[x].gone <=> d.byID[d.entry[x].of] # x)
              /\ In(x, d.unused) => d.entry[x].of # None /\ ~d.entry[x].gone
    <2>1. d.entry[x] = c.entry[x] /\ us[x] = use[x] /\ (In(x, d.unused) => In(x, c.unused))
        BY <1>5, <1>9, <1>10, <1>12, <1>14
    <2> QED
        BY <1>12, <2>1 DEF Good
<1>15. ASSUME NEW i \in Ids, d.byID[i] # None PROVE d.entry[d.byID[i]].of = i
    <2>1. c.byID[i] \in Slots /\ c.entry[c.byID[i]].of = i
        BY <1>12, <1>15, <1>7 DEF Good
    <2> QED
        BY <1>8, <1>9, <1>12, <2>1 DEF id
<1>16. Good(d, us)
    BY <1>12, <1>13, <1>14, <1>15 DEF Good
<1>17. SameLocks(c, d)
    BY <1>8, <1>9, <1>12 DEF SameLocks
<1> QED
    BY <1>4, <1>16, <1>17

LEMMA PutGood ==
    ASSUME NEW c, NEW use \in [Slots -> SUBSET Steps], Good(c, use), NEW id \in Ids, c.byID[id] = None,
           NEW e \in Slots, c.entry[e] = NoEntry, NEW k \in Keys \cup {None}
    PROVE  /\ Good(Put(c, id, e, k), use) /\ SameLocks(c, Put(c, id, e, k))
           /\ Put(c, id, e, k).entry[e].of # None /\ ~Put(c, id, e, k).entry[e].gone
<1>1. /\ c.byID \in [Ids -> Slots \cup {None}] /\ c.entry \in [Slots -> Entry] /\ c.unused \in Seq(Slots)
      /\ id # None /\ None \notin Slots
    BY Constants DEF Good, Cache
<1>2. PICK d, q, n, b : /\ d = Put(c, id, e, k) /\ b = [c.byID EXCEPT ![id] = e]
                        /\ q = [NoEntry EXCEPT !.of = id, !.key = k, !.built = "building"]
                        /\ n = [c.entry EXCEPT ![e] = q]
    OBVIOUS
<1>3. /\ q \in Entry /\ q.of = id /\ q.users = NoEntry.users /\ ~q.gone /\ q.closes = 0 /\ ~q.closed
      /\ q.readers = NoEntry.readers /\ q.writer = NoEntry.writer
    BY <1>2, Constants DEF Entry, NoEntry
<1>4. n \in [Slots -> Entry] /\ n[e] = q /\ \A x \in Slots : x # e => n[x] = c.entry[x]
    BY <1>1, <1>2, <1>3, UpdateFacts
<1>5. b \in [Ids -> Slots \cup {None}] /\ b[id] = e /\ \A i \in Ids : i # id => b[i] = c.byID[i]
    BY <1>1, <1>2
<1>6. d = [byID |-> b, unused |-> c.unused, entry |-> n]
    <2>1. c = [byID |-> c.byID, unused |-> c.unused, entry |-> c.entry]
        BY DEF Good, Cache
    <2> QED
        BY <1>1, <1>2, <2>1 DEF Put
<1>7. d \in Cache /\ d.byID = b /\ d.unused = c.unused /\ d.entry = n
    BY <1>1, <1>4, <1>5, <1>6 DEF Cache
<1>8. c.entry[e].of = None /\ NoEntry.users = Cardinality(use[e])
    BY Constants DEF Good
<1>9. ~In(e, c.unused)
    BY <1>8 DEF Good
<1>10. /\ d.entry[e].users = Cardinality(use[e])
       /\ d.entry[e].closes <= 1 /\ ~d.entry[e].closed /\ d.entry[e].closes # 1
       /\ d.entry[e].of # None /\ ~d.entry[e].gone /\ d.byID[d.entry[e].of] = e /\ ~In(e, d.unused)
    BY <1>1, <1>3, <1>4, <1>5, <1>7, <1>8, <1>9
<1>11. ASSUME NEW x \in Slots, x # e
       PROVE  /\ d.entry[x].users = Cardinality(use[x])
              /\ d.entry[x].closes <= 1 /\ ~d.entry[x].closed
              /\ d.entry[x].closes = 1 => d.entry[x].gone /\ use[x] = {}
              /\ d.entry[x].of = None => d.entry[x] = NoEntry
              /\ d.entry[x].of # None => (d.entry[x].gone <=> d.byID[d.entry[x].of] # x)
              /\ In(x, d.unused) => d.entry[x].of # None /\ ~d.entry[x].gone
    <2>1. d.entry[x] = c.entry[x]
        BY <1>4, <1>7, <1>11
    <2>2. d.entry[x].of # None => d.entry[x].of \in Ids
        BY <1>1, <2>1 DEF Entry
    <2>3. d.entry[x].of \in Ids => (d.byID[d.entry[x].of] # x <=> c.byID[d.entry[x].of] # x)
        <3>1. CASE d.entry[x].of = id
            BY <1>1, <1>5, <1>7, <1>11, <3>1
        <3>2. CASE d.entry[x].of # id
            BY <1>5, <1>7, <3>2
        <3> QED
            BY <3>1, <3>2
    <2> QED
        BY <1>7, <2>1, <2>2, <2>3 DEF Good
<1>12. ASSUME NEW i \in Ids, d.byID[i] # None PROVE d.entry[d.byID[i]].of = i
    <2>1. CASE i = id
        BY <1>3, <1>4, <1>5, <1>7, <2>1
    <2>2. CASE i # id
        <3>1. d.byID[i] = c.byID[i] /\ c.byID[i] \in Slots /\ c.entry[c.byID[i]].of = i
            BY <1>1, <1>5, <1>7, <1>12, <2>2 DEF Good
        <3>2. i # None
            BY Constants
        <3> QED
            BY <1>4, <1>7, <1>8, <3>1, <3>2
    <2> QED
        BY <2>1, <2>2
<1>13. Good(d, use)
    BY <1>7, <1>10, <1>11, <1>12 DEF Good
<1>14. SameLocks(c, d)
    BY <1>3, <1>4, <1>7 DEF SameLocks
<1> QED
    BY <1>2, <1>10, <1>13, <1>14

LEMMA MakeRoomGood ==
    ASSUME NEW c, NEW use \in [Slots -> SUBSET Steps], Good(c, use)
    PROVE  /\ Good(MakeRoom(c), use) /\ SameLocks(c, MakeRoom(c))
           /\ \A id \in Ids : c.byID[id] = None => MakeRoom(c).byID[id] = None
           /\ \A e \in Slots : c.entry[e] = NoEntry => MakeRoom(c).entry[e] = NoEntry
<1>1. CASE MakeRoom(c) = c
    BY <1>1 DEF SameLocks
<1>2. CASE MakeRoom(c) # c
    <2>1. PICK e : e = Head(c.unused)
        OBVIOUS
    <2>2. MakeRoom(c) = Drop(c, e) /\ c.unused # <<>>
        BY <1>2, <2>1 DEF MakeRoom
    <2>3. e \in Slots /\ In(e, c.unused)
        <3>1. c.unused \in Seq(Slots)
            BY DEF Good, Cache
        <3>2. 1 \in DOMAIN c.unused /\ c.unused[1] = e /\ e \in Slots
            BY <2>1, <2>2, <3>1
        <3> QED
            BY <3>2 DEF In
    <2>4. c.entry[e].of # None /\ ~c.entry[e].gone
        BY <2>3 DEF Good
    <2>5. /\ Good(Drop(c, e), use) /\ SameLocks(c, Drop(c, e))
          /\ \A id \in Ids : c.byID[id] = None => Drop(c, e).byID[id] = None
          /\ \A x \in Slots : x # e => Drop(c, e).entry[x] = c.entry[x]
        BY <2>3, <2>4, DropGood
    <2> QED
        BY <2>2, <2>4, <2>5, Constants
<1> QED
    BY <1>1, <1>2

\* A write of one entry that leaves what the counts read.
LEMMA WithGood ==
    ASSUME NEW c, NEW use, Good(c, use), NEW e \in Slots, NEW q \in Entry,
           c.entry[e].of # None, SameUse(c.entry[e], q)
    PROVE  /\ Good(With(c, e, q), use) /\ With(c, e, q).entry[e] = q
           /\ \A x \in Slots : x # e => With(c, e, q).entry[x] = c.entry[x]
           /\ With(c, e, q).byID = c.byID /\ With(c, e, q).unused = c.unused
           /\ With(c, e, q) \in Cache
<1>0. PICK d : d = With(c, e, q)
    OBVIOUS
<1>1. c \in Cache
    BY DEF Good
<1>2. PICK n : n = [c.entry EXCEPT ![e] = q]
    OBVIOUS
<1>3. c.entry \in [Slots -> Entry] /\ c = [byID |-> c.byID, unused |-> c.unused, entry |-> c.entry]
    BY <1>1 DEF Cache
<1>4. n \in [Slots -> Entry] /\ n[e] = q /\ \A x \in Slots : x # e => n[x] = c.entry[x]
    BY <1>2, <1>3, UpdateFacts
<1>5. d = [byID |-> c.byID, unused |-> c.unused, entry |-> n]
    BY <1>0, <1>2, <1>3 DEF With
<1>6. d \in Cache /\ d.entry = n /\ d.byID = c.byID /\ d.unused = c.unused
    BY <1>1, <1>4, <1>5 DEF Cache
<1>7. \A x \in Slots : d.entry[x] = c.entry[x] \/ (c.entry[x].of # None /\ SameUse(c.entry[x], d.entry[x]))
    BY <1>4, <1>6
<1> QED
    BY <1>0, <1>4, <1>6, <1>7, SameGood

\* What the current state says of the harness a step uses.
LEMMA AtHarness ==
    ASSUME IInv, NEW s \in Steps, step[s].pc \notin {"none", "acquire"}
    PROVE  /\ step[s].at \in Slots /\ s \in Using[step[s].at] /\ entry[step[s].at].of # None
           /\ entry[step[s].at] \in Entry /\ step[s].of \in Ids
           /\ entry[step[s].at].of \in Ids
<1> DEFINE e == step[s].at
<1>1. step[s] \in Attempt /\ e # None /\ step[s].of \in Ids
    BY DEF IInv, Attempts
<1>2. e \in Slots
    BY <1>1 DEF Attempt
<1>3. Using \in [Slots -> SUBSET Steps] /\ s \in Using[e]
    BY <1>2 DEF Using, InUse
<1>4. Good(Now, Using) /\ Now.entry = entry
    BY DEF IInv, CacheGood, Now
<1>5. entry[e].users = Cardinality(Using[e]) /\ (entry[e].of = None => entry[e] = NoEntry) /\ entry[e] \in Entry
    BY <1>2, <1>4 DEF Good, Cache
<1>6. Cardinality(Using[e]) # 0
    BY <1>2, <1>3, UsersOfNone
<1>7. entry[e].of # None
    BY <1>5, <1>6 DEF NoEntry
<1>8. entry[e].of \in Ids
    BY <1>5, <1>7 DEF Entry
<1> QED
    BY <1>1, <1>2, <1>3, <1>5, <1>7, <1>8

LEMMA NowFacts ==
    ASSUME IInv
    PROVE  /\ Good(Now, Using) /\ Using \in [Slots -> SUBSET Steps]
           /\ Now.entry = entry /\ Now.byID = byID /\ Now.unused = unused
           /\ entry \in [Slots -> Entry] /\ byID \in [Ids -> Slots \cup {None}] /\ unused \in Seq(Slots)
<1>1. Good(Now, Using)
    BY DEF IInv, CacheGood
<1>2. Now.entry = entry /\ Now.byID = byID /\ Now.unused = unused
    BY DEF Now
<1>3. Using \in [Slots -> SUBSET Steps]
    BY DEF Using, InUse
<1> QED
    BY <1>1, <1>2, <1>3 DEF Good, Cache

LEMMA RUnlockGood ==
    ASSUME IInv, NEW s \in Steps, NEW e \in Slots, entry[e].of # None
    PROVE  /\ Good(RUnlock(Now, e, s), Using)
           /\ RUnlock(Now, e, s).entry[e].readers = entry[e].readers \ {s}
           /\ RUnlock(Now, e, s).entry[e].writer = entry[e].writer
           /\ \A x \in Slots : x # e => RUnlock(Now, e, s).entry[x] = entry[x]
<1>1. PICK q : q = [entry[e] EXCEPT !.readers = @ \ {s}]
    OBVIOUS
<1>2. Good(Now, Using) /\ Now.entry = entry /\ entry[e] \in Entry
    BY NowFacts
<1>3. q \in Entry /\ SameUse(entry[e], q) /\ q.readers = entry[e].readers \ {s} /\ q.writer = entry[e].writer
    BY <1>1, <1>2 DEF Entry, SameUse
<1>4. RUnlock(Now, e, s) = With(Now, e, q)
    BY <1>1, <1>2 DEF RUnlock
<1>5. Now.entry[e].of # None /\ SameUse(Now.entry[e], q)
    BY <1>2, <1>3
<1>6. /\ Good(With(Now, e, q), Using) /\ With(Now, e, q).entry[e] = q
      /\ \A x \in Slots : x # e => With(Now, e, q).entry[x] = Now.entry[x]
    BY <1>2, <1>3, <1>5, WithGood
<1> QED
    BY <1>2, <1>3, <1>4, <1>6

LEMMA UnlockGood ==
    ASSUME NEW c, NEW use, Good(c, use), NEW e \in Slots, c.entry[e].of # None
    PROVE  /\ Good(Unlock(c, e), use)
           /\ Unlock(c, e).entry[e].readers = c.entry[e].readers /\ Unlock(c, e).entry[e].writer = None
           /\ Unlock(c, e).entry[e].of = c.entry[e].of
           /\ \A x \in Slots : x # e => Unlock(c, e).entry[x] = c.entry[x]
<1>1. PICK q : q = [c.entry[e] EXCEPT !.writer = None]
    OBVIOUS
<1>2. c \in Cache /\ c.entry[e] \in Entry
    BY DEF Good, Cache
<1>3. q \in Entry /\ SameUse(c.entry[e], q) /\ q.readers = c.entry[e].readers /\ q.writer = None /\ q.of = c.entry[e].of
    BY <1>1, <1>2 DEF Entry, SameUse
<1>4. Unlock(c, e) = With(c, e, q)
    BY <1>1 DEF Unlock
<1>5. /\ Good(With(c, e, q), use) /\ With(c, e, q).entry[e] = q
      /\ \A x \in Slots : x # e => With(c, e, q).entry[x] = c.entry[x]
    BY <1>3, WithGood
<1> QED
    BY <1>3, <1>4, <1>5

LEMMA SyncedGood ==
    ASSUME Types, NEW c, NEW use, Good(c, use), NEW e \in Slots, c.entry[e].of # None
    PROVE  Good(Synced(c, e), use) /\ SameLocks(c, Synced(c, e)) /\ Synced(c, e).entry[e].of = c.entry[e].of
<1>1. c \in Cache /\ c.entry[e] \in Entry
    BY DEF Good, Cache
<1>2. c.entry[e].of \in Ids
    BY <1>1 DEF Entry
<1>3. PICK r, store : r = c.entry[e] /\ store = saved[r.of]
    OBVIOUS
<1>4. store.gen \in Nat /\ store.rows \in Seq(Nat) /\ r \in Entry /\ r.of # None
    BY <1>1, <1>2, <1>3 DEF Types
<1>5. \/ Synced(c, e) = c
      \/ Synced(c, e) = With(c, e, [r EXCEPT !.loaded = TRUE])
      \/ Synced(c, e) = With(c, e, [r EXCEPT !.loaded = TRUE, !.rev = store.gen, !.holds = store.rows])
    BY <1>3 DEF Synced
<1>6. ASSUME NEW q \in Entry, SameUse(r, q), q.readers = r.readers, q.writer = r.writer,
             Synced(c, e) = With(c, e, q)
      PROVE  Good(Synced(c, e), use) /\ SameLocks(c, Synced(c, e)) /\ Synced(c, e).entry[e].of = c.entry[e].of
    <2>1. c.entry[e].of # None /\ SameUse(c.entry[e], q)
        BY <1>3, <1>6
    <2>2. /\ Good(With(c, e, q), use) /\ With(c, e, q).entry[e] = q
          /\ \A x \in Slots : x # e => With(c, e, q).entry[x] = c.entry[x]
        BY <2>1, WithGood
    <2> QED
        BY <1>3, <1>6, <2>2 DEF SameLocks, SameUse
<1>7. CASE Synced(c, e) = c
    BY <1>7 DEF SameLocks
<1>8. CASE Synced(c, e) = With(c, e, [r EXCEPT !.loaded = TRUE])
    <2>1. PICK q : q = [r EXCEPT !.loaded = TRUE]
        OBVIOUS
    <2>2. q \in Entry /\ SameUse(r, q) /\ q.readers = r.readers /\ q.writer = r.writer
        BY <1>4, <2>1 DEF Entry, SameUse
    <2> QED
        BY <1>6, <1>8, <2>1, <2>2
<1>9. CASE Synced(c, e) = With(c, e, [r EXCEPT !.loaded = TRUE, !.rev = store.gen, !.holds = store.rows])
    <2>1. PICK q : q = [r EXCEPT !.loaded = TRUE, !.rev = store.gen, !.holds = store.rows]
        OBVIOUS
    <2>2. q \in Entry /\ SameUse(r, q) /\ q.readers = r.readers /\ q.writer = r.writer
        BY <1>4, <2>1 DEF Entry, SameUse
    <2> QED
        BY <1>6, <1>9, <2>1, <2>2
<1> QED
    BY <1>5, <1>7, <1>8, <1>9

-----------------------------------------------------------------------------
(* The parts of a step. *)

LEMMA AttemptsKept ==
    ASSUME Attempts, NEW s \in Steps, NEW q \in Attempt, step' = [step EXCEPT ![s] = q],
           q.at = None <=> q.pc \in {"none", "acquire"},
           q.pc # "none" => q.of \in Ids, q.pc = "none" => ~q.live
    PROVE  Attempts' /\ step'[s] = q /\ \A t \in Steps : t # s => step'[t] = step[t]
<1>1. step'[s] = q /\ (\A t \in Steps : t # s => step'[t] = step[t]) /\ step' \in [Steps -> Attempt]
    BY DEF Attempts
<1>2. ASSUME NEW t \in Steps
      PROVE  /\ step'[t].at = None <=> step'[t].pc \in {"none", "acquire"}
             /\ step'[t].pc # "none" => step'[t].of \in Ids
             /\ step'[t].pc = "none" => ~step'[t].live
    <2>1. CASE t = s
        BY <1>1, <2>1
    <2>2. CASE t # s
        BY <1>1, <2>2 DEF Attempts
    <2> QED
        BY <2>1, <2>2
<1> QED
    BY <1>1, <1>2 DEF Attempts

\* The steps that use each harness after a step acquires, keeps or lets go of one.
LEMMA UsingChanged ==
    ASSUME NEW s \in Steps, \A t \in Steps : t # s => step'[t] = step[t], None \notin Slots
    PROVE  /\ step'[s].at = step[s].at => Using' = Using
           /\ \A e \in Slots : step[s].at = e /\ step'[s].at = None => Using' = [Using EXCEPT ![e] = @ \ {s}]
           /\ \A e \in Slots : step[s].at = None /\ step'[s].at = e => Using' = [Using EXCEPT ![e] = @ \cup {s}]
<1>1. Using' = [e \in Slots |-> {t \in Steps : step'[t].at = e}]
    BY DEF Using, InUse
<1>2. Using = [e \in Slots |-> {t \in Steps : step[t].at = e}]
    BY DEF Using, InUse
<1>3. ASSUME step'[s].at = step[s].at PROVE Using' = Using
    <2>1. \A e \in Slots : {t \in Steps : step'[t].at = e} = {t \in Steps : step[t].at = e}
        BY <1>3
    <2> QED
        BY <1>1, <1>2, <2>1
<1>4. ASSUME NEW e \in Slots, step[s].at = e, step'[s].at = None
      PROVE  Using' = [Using EXCEPT ![e] = @ \ {s}]
    <2>1. \A x \in Slots : {t \in Steps : step'[t].at = x} = IF x = e THEN Using[x] \ {s} ELSE Using[x]
        BY <1>2, <1>4
    <2> QED
        BY <1>1, <1>2, <2>1
<1>5. ASSUME NEW e \in Slots, step[s].at = None, step'[s].at = e
      PROVE  Using' = [Using EXCEPT ![e] = @ \cup {s}]
    <2>1. \A x \in Slots : {t \in Steps : step'[t].at = x} = IF x = e THEN Using[x] \cup {s} ELSE Using[x]
        BY <1>2, <1>5
    <2> QED
        BY <1>1, <1>2, <2>1
<1> QED
    BY <1>3, <1>4, <1>5

LEMMA BecomesGood ==
    ASSUME NEW d, Becomes(d), Good(d, Using')
    PROVE  CacheGood' /\ entry' = d.entry
<1>1. d = [byID |-> byID', unused |-> unused', entry |-> entry']
    BY DEF Becomes, Good, Cache
<1>2. Now' = d
    BY <1>1 DEF Now
<1>3. entry' = d.entry
    BY DEF Becomes
<1>4. CacheGood'
    BY <1>2 DEF CacheGood, Good
<1> QED
    BY <1>3, <1>4

LEMMA HeldWhere ==
    ASSUME IInv, NEW s \in Steps, NEW x \in Slots
    PROVE  /\ s \in entry[x].readers => x = step[s].at /\ step[s].pc \in Reading
           /\ entry[x].writer = s => x = step[s].at /\ step[s].pc \in Writing
BY Constants DEF IInv, Locks

\* A step that neither waits to write nor writes after the change holds no lock
\* that it did not hold before.
LEMMA LocksLeft ==
    ASSUME IInv, NEW s \in Steps, \A t \in Steps : t # s => step'[t] = step[t], step'[s].pc \notin Writing,
           step'[s].pc \notin Reading,
           \A x \in Slots : /\ entry'[x].readers = entry[x].readers \ {s}
                            /\ entry'[x].writer = IF entry[x].writer = s THEN None ELSE entry[x].writer
    PROVE  Locks'
<1>1. ASSUME NEW t \in Steps, step'[t].pc \in Writing PROVE entry'[step'[t].at].writer = t
    <2>1. t # s /\ step'[t] = step[t] /\ step[t].pc \in Writing
        BY <1>1
    <2>2. step[t].at \in Slots /\ entry[step[t].at].writer = t
        BY <2>1, AtHarness DEF IInv, Locks, Writing
    <2> QED
        BY <2>1, <2>2
<1>2. ASSUME NEW e \in Slots, entry'[e].writer # None
      PROVE  /\ entry'[e].readers = {} /\ step'[entry'[e].writer].at = e
             /\ step'[entry'[e].writer].pc \in Writing
    <2>1. entry'[e].writer = entry[e].writer /\ entry[e].writer # s /\ entry[e].writer # None
        BY <1>2
    <2>2. entry[e].writer \in Steps
        BY <2>1, NowFacts DEF Entry
    <2>3. entry[e].readers = {} /\ step[entry[e].writer].at = e /\ step[entry[e].writer].pc \in Writing
        BY <2>1 DEF IInv, Locks
    <2> QED
        BY <2>1, <2>2, <2>3
<1>3. ASSUME NEW e \in Slots, NEW t \in entry'[e].readers PROVE step'[t].at = e /\ step'[t].pc \in Reading
    <2>1. t # s /\ t \in entry[e].readers
        BY <1>3
    <2>2. t \in Steps
        BY <2>1, NowFacts DEF Entry
    <2>3. step'[t] = step[t] /\ step[t].at = e /\ step[t].pc \in Reading
        BY <2>1, <2>2 DEF IInv, Locks
    <2> QED
        BY <2>3
<1>4. ASSUME NEW t \in Steps, step'[t].pc \in Reading PROVE t \in entry'[step'[t].at].readers
    <2>1. t # s /\ step'[t] = step[t] /\ step[t].pc \in Reading
        BY <1>4
    <2>2. step[t].at \in Slots /\ t \in entry[step[t].at].readers
        BY <2>1, AtHarness DEF IInv, Locks, Reading
    <2> QED
        BY <2>1, <2>2
<1> QED
    BY <1>1, <1>2, <1>3, <1>4 DEF Locks

\* No lock changes hands.
LEMMA LocksStay ==
    ASSUME IInv,
           \A t \in Steps : /\ step'[t].at = step[t].at
                            /\ step'[t].pc \in Writing <=> step[t].pc \in Writing
                            /\ step'[t].pc \in Reading <=> step[t].pc \in Reading,
           \A x \in Slots : entry'[x].readers = entry[x].readers /\ entry'[x].writer = entry[x].writer
    PROVE  Locks'
<1>1. \A x \in Slots : entry[x].readers \subseteq Steps /\ entry[x].writer \in Steps \cup {None}
    BY NowFacts DEF Entry
<1>2. \A t \in Steps : step[t].pc \in Writing \/ step[t].pc \in Reading => step[t].at \in Slots
    BY AtHarness DEF Reading, Writing
<1> QED
    BY <1>1, <1>2 DEF IInv, Locks

\* A step that lets its harness go.
LEMMA LeaveKeeps ==
    ASSUME IInv, NEW s \in Steps, step[s].pc \notin {"none", "acquire"}, NEW d, NEW q \in Attempt,
           Good(d, [Using EXCEPT ![step[s].at] = @ \ {s}]), Becomes(d), step' = [step EXCEPT ![s] = q],
           q.at = None, q.pc \in {"none", "acquire"}, q.pc # "none" => q.of \in Ids, q.pc = "none" => ~q.live,
           \A x \in Slots : /\ d.entry[x].readers = entry[x].readers \ {s}
                            /\ d.entry[x].writer = IF entry[x].writer = s THEN None ELSE entry[x].writer
    PROVE  Attempts' /\ CacheGood' /\ Locks'
<1>1. Attempts' /\ step'[s] = q /\ \A t \in Steps : t # s => step'[t] = step[t]
    BY AttemptsKept DEF IInv
<1>2. step[s].at \in Slots /\ None \notin Slots
    BY AtHarness, Constants
<1>3. Using' = [Using EXCEPT ![step[s].at] = @ \ {s}]
    BY <1>1, <1>2, UsingChanged
<1>4. Good(d, Using')
    BY <1>3
<1>5. CacheGood' /\ entry' = d.entry
    BY <1>4, BecomesGood
<1>6. step'[s].pc \notin Writing /\ step'[s].pc \notin Reading
    BY <1>1 DEF Reading, Writing
<1>7. Locks'
    BY <1>1, <1>5, <1>6, LocksLeft
<1> QED
    BY <1>1, <1>5, <1>7

\* A step that keeps its harness, or has none before and after.
LEMMA StayKeeps ==
    ASSUME IInv, NEW s \in Steps, NEW d, NEW q \in Attempt,
           Good(d, Using), Becomes(d), step' = [step EXCEPT ![s] = q],
           q.at = step[s].at, q.at = None <=> q.pc \in {"none", "acquire"},
           q.pc # "none" => q.of \in Ids, q.pc = "none" => ~q.live
    PROVE  /\ Attempts' /\ CacheGood' /\ entry' = d.entry
           /\ step'[s] = q /\ \A t \in Steps : t # s => step'[t] = step[t]
<1>1. Attempts' /\ step'[s] = q /\ \A t \in Steps : t # s => step'[t] = step[t]
    BY AttemptsKept DEF IInv
<1>2. Using' = Using
    BY <1>1, UsingChanged, Constants
<1>3. Good(d, Using')
    BY <1>2
<1> QED
    BY <1>1, <1>3, BecomesGood

LEMMA ReplaceGood ==
    ASSUME IInv, NEW s \in Steps, step[s].pc \notin {"none", "acquire"}
    PROVE  /\ Good(Replace(Now, step[s].at), [Using EXCEPT ![step[s].at] = @ \ {s}])
           /\ SameLocks(Now, Replace(Now, step[s].at))
<1>1. PICK e : e = step[s].at
    OBVIOUS
<1>2. e \in Slots /\ s \in Using[e] /\ entry[e].of # None /\ Good(Now, Using) /\ Using \in [Slots -> SUBSET Steps] /\ Now.entry = entry
    BY <1>1, AtHarness, NowFacts
<1>3. Good(Drop(Now, e), Using) /\ SameLocks(Now, Drop(Now, e))
    <2>1. Now.entry[e].of # None /\ Using[e] # {}
        BY <1>2
    <2> QED
        BY <1>2, <2>1, DropGood
<1>4. PICK c : c = Drop(Now, e)
    OBVIOUS
<1>5. Good(c, Using)
    BY <1>3, <1>4
<1>6. Good(Release(c, e), [Using EXCEPT ![e] = @ \ {s}]) /\ SameLocks(c, Release(c, e))
    BY <1>2, <1>5, ReleaseGood
<1>7. SameLocks(Now, Release(c, e))
    BY <1>3, <1>4, <1>6 DEF SameLocks
<1> QED
    BY <1>1, <1>4, <1>6, <1>7 DEF Replace

LEMMA AnswersKept ==
    ASSUME Types, NEW s \in Steps, step[s].of \in Ids, NEW rev \in Nat, Answers(s, rev)
    PROVE  wf' \in [Ids -> Workflow]
<1>1. CASE Heard(s)
    <2>1. PICK id, w : id = step[s].of /\ w = [wf[id] EXCEPT !.phase = "open", !.base = rev, !.tries = 0]
        OBVIOUS
    <2>2. w \in Workflow
        BY <2>1 DEF Types, Workflow
    <2>3. wf' = [wf EXCEPT ![id].phase = "open", ![id].base = rev, ![id].tries = 0]
        BY <1>1, <2>1 DEF Answers
    <2>4. wf' = [wf EXCEPT ![id] = w]
        BY <2>1, <2>3 DEF Types
    <2> QED
        BY <2>1, <2>2, <2>4 DEF Types
<1>2. CASE ~Heard(s)
    BY <1>2 DEF Answers, Types
<1> QED
    BY <1>1, <1>2

LEMMA FailsKept ==
    ASSUME Types, NEW s \in Steps, step[s].of \in Ids, NEW again, Fails(s, again)
    PROVE  wf' \in [Ids -> Workflow]
<1>1. CASE wf' = wf
    BY <1>1 DEF Types
<1>2. CASE wf' = [wf EXCEPT ![step[s].of].phase = "retry"]
    BY <1>2 DEF Types, Workflow
<1>3. CASE wf' = [wf EXCEPT ![step[s].of].phase = "open", ![step[s].of].tries = 0]
    <2>1. wf \in [Ids -> Workflow]
        BY DEF Types
    <2>2. wf' = [wf EXCEPT ![step[s].of] = [wf[step[s].of] EXCEPT !.phase = "open", !.tries = 0]]
        BY <1>3, <2>1 DEF Workflow
    <2>3. [wf[step[s].of] EXCEPT !.phase = "open", !.tries = 0] \in Workflow
        BY <2>1 DEF Workflow
    <2> QED
        BY <2>1, <2>2, <2>3
<1> QED
    BY <1>1, <1>2, <1>3 DEF Fails

-----------------------------------------------------------------------------
(* The steps. *)

LEMMA AcquireKeeps ==
    ASSUME IInv, NEW s \in Steps, Acquire(s)
    PROVE  IInv'
<1>1. PICK id : id = step[s].of
    OBVIOUS
<1>2. step[s] \in Attempt /\ step[s].pc = "acquire" /\ step[s].at = None /\ id \in Ids /\ step[s].key \in Keys \cup {None}
    BY <1>1 DEF Acquire, IInv, Attempts, Attempt
<1>3. Types'
    BY DEF Acquire, IInv, Types
<1>4. /\ Good(Now, Using) /\ Using \in [Slots -> SUBSET Steps] /\ Now.entry = entry /\ Now.byID = byID
      /\ entry \in [Slots -> Entry] /\ byID \in [Ids -> Slots \cup {None}]
    BY NowFacts
<1>5. None \notin Slots /\ None \notin Ids /\ \A x \in Slots : s \notin Using[x]
    BY <1>2, Constants DEF Using, InUse
<1>6. ASSUME NEW d, NEW e \in Slots, Good(d, [Using EXCEPT ![e] = @ \cup {s}]), SameLocks(Now, d), Becomes(d),
             step' = [step EXCEPT ![s].pc = "wait", ![s].at = e]
      PROVE  Attempts' /\ CacheGood' /\ Locks'
    <2>1. PICK q : q = [step[s] EXCEPT !.pc = "wait", !.at = e]
        OBVIOUS
    <2>2. q \in Attempt /\ q.pc = "wait" /\ q.at = e /\ q.of = id
        BY <1>1, <1>2, <2>1 DEF Attempt
    <2>3. step' = [step EXCEPT ![s] = q]
        BY <1>6, <2>1 DEF IInv, Attempts
    <2>4. q.at # None /\ q.pc \notin {"none", "acquire"} /\ q.of \in Ids
        BY <1>2, <1>5, <2>2
    <2>5. Attempts' /\ step'[s] = q /\ \A t \in Steps : t # s => step'[t] = step[t]
        BY <2>2, <2>3, <2>4, AttemptsKept DEF IInv
    <2>6. Using' = [Using EXCEPT ![e] = @ \cup {s}]
        BY <1>2, <1>5, <2>2, <2>5, UsingChanged
    <2>7. Good(d, Using')
        BY <1>6, <2>6
    <2>8. CacheGood' /\ entry' = d.entry
        BY <1>6, <2>7, BecomesGood
    <2>9. \A x \in Slots : s \notin entry[x].readers /\ entry[x].writer # s
        BY <1>2, HeldWhere DEF Reading, Writing
    <2>10. \A x \in Slots : /\ entry'[x].readers = entry[x].readers \ {s}
                            /\ entry'[x].writer = IF entry[x].writer = s THEN None ELSE entry[x].writer
        BY <1>4, <1>6, <2>8, <2>9 DEF SameLocks
    <2>11. Locks'
        BY <2>2, <2>5, <2>10, LocksLeft DEF Reading, Writing
    <2> QED
        BY <2>5, <2>8, <2>11
<1>7. PICK e : e = byID[id]
    OBVIOUS
<1>8. e # None => e \in Slots /\ entry[e].of = id /\ ~entry[e].gone
    BY <1>2, <1>4, <1>5, <1>7 DEF Good
<1>9. CASE e # None /\ Becomes(Use(Now, e)) /\ step' = [step EXCEPT ![s].pc = "wait", ![s].at = e]
    <2>1. e \in Slots /\ Now.entry[e].of # None /\ ~Now.entry[e].gone
        BY <1>2, <1>4, <1>5, <1>8, <1>9
    <2>2. Good(Use(Now, e), [Using EXCEPT ![e] = @ \cup {s}]) /\ SameLocks(Now, Use(Now, e))
        BY <1>4, <1>5, <2>1, UseGood
    <2> QED
        BY <1>3, <1>6, <1>9, <2>1, <2>2 DEF IInv
<1>10. PICK kept : kept = IF e = None THEN Now ELSE Drop(Now, e)
    OBVIOUS
<1>11. PICK new : new = CHOOSE n \in Free : TRUE
    OBVIOUS
<1>12. CASE /\ Free # {}
            /\ Becomes(Use(Put(MakeRoom(kept), id, new, step[s].key), new))
            /\ step' = [step EXCEPT ![s].pc = "wait", ![s].at = new]
    <2>1. new \in Slots /\ entry[new] = NoEntry
        BY <1>11, <1>12 DEF Free
    <2>2. Good(kept, Using) /\ SameLocks(Now, kept) /\ kept.byID[id] = None /\ kept.entry[new] = NoEntry
        <3>1. CASE e = None
            BY <1>4, <1>7, <1>10, <2>1, <3>1 DEF SameLocks
        <3>2. CASE e # None
            <4>1. /\ e \in Slots /\ Now.entry[e].of # None /\ ~Now.entry[e].gone /\ Now.entry[e].of = id
                  /\ Now.byID[Now.entry[e].of] = e /\ new # e
                BY <1>2, <1>4, <1>5, <1>7, <1>8, <2>1, <3>2, Constants
            <4>2. /\ Good(Drop(Now, e), Using) /\ SameLocks(Now, Drop(Now, e))
                  /\ Drop(Now, e).byID[Now.entry[e].of] = None
                  /\ \A x \in Slots : x # e => Drop(Now, e).entry[x] = Now.entry[x]
                BY <1>4, <4>1, DropGood
            <4> QED
                BY <1>4, <1>10, <2>1, <3>2, <4>1, <4>2
        <3> QED
            BY <3>1, <3>2
    <2>3. PICK room : room = MakeRoom(kept)
        OBVIOUS
    <2>4. Good(room, Using) /\ SameLocks(kept, room) /\ room.byID[id] = None /\ room.entry[new] = NoEntry
        BY <1>2, <1>4, <2>1, <2>2, <2>3, MakeRoomGood
    <2>5. PICK put : put = Put(room, id, new, step[s].key)
        OBVIOUS
    <2>6. Good(put, Using) /\ SameLocks(room, put) /\ put.entry[new].of # None /\ ~put.entry[new].gone
        BY <1>2, <1>4, <2>1, <2>4, <2>5, PutGood
    <2>7. Good(Use(put, new), [Using EXCEPT ![new] = @ \cup {s}]) /\ SameLocks(put, Use(put, new))
        BY <1>4, <1>5, <2>1, <2>6, UseGood
    <2>8. SameLocks(Now, Use(put, new))
        BY <2>2, <2>4, <2>6, <2>7 DEF SameLocks
    <2> QED
        BY <1>3, <1>6, <1>12, <2>1, <2>3, <2>5, <2>7, <2>8 DEF IInv
<1> QED
    BY <1>1, <1>7, <1>9, <1>10, <1>11, <1>12 DEF Acquire

LEMMA BuiltKeeps ==
    ASSUME IInv, NEW e \in Slots, Built(e)
    PROVE  IInv'
<1>1. Types' /\ Attempts'
    BY DEF Built, IInv, Types, Attempts
<1>2. PICK b \in {"ok", "failed"} : entry' = [entry EXCEPT ![e].built = b]
    BY DEF Built
<1>3. Good(Now, Using) /\ Now.entry = entry /\ entry[e] \in Entry /\ entry \in [Slots -> Entry] /\ byID' = byID /\ unused' = unused
    BY NowFacts DEF Built
<1>4. PICK q : q = [entry[e] EXCEPT !.built = b]
    OBVIOUS
<1>5. q \in Entry /\ SameUse(entry[e], q) /\ q.readers = entry[e].readers /\ q.writer = entry[e].writer
    BY <1>3, <1>4 DEF Entry, SameUse
<1>6. entry[e].of # None
    <2>1. NoEntry.built = "no"
        BY DEF NoEntry
    <2> QED
        BY <1>3, <2>1 DEF Good, Built
<1>7. entry' = [entry EXCEPT ![e] = q] /\ entry'[e] = q /\ \A x \in Slots : x # e => entry'[x] = entry[x]
    BY <1>2, <1>3, <1>4
<1>8. Becomes(With(Now, e, q))
    BY <1>3, <1>7 DEF Becomes, With, Now
<1>9. Good(With(Now, e, q), Using)
    BY <1>3, <1>5, <1>6, WithGood
<1>10. Using' = Using
    BY DEF Using, InUse, Built
<1>11. CacheGood'
    BY <1>8, <1>9, <1>10, BecomesGood
<1>12. Locks'
    <2>1. step' = step /\ \A x \in Slots : entry'[x].readers = entry[x].readers /\ entry'[x].writer = entry[x].writer
        BY <1>5, <1>7 DEF Built
    <2> QED
        BY <2>1, LocksStay
<1> QED
    BY <1>1, <1>11, <1>12 DEF IInv

LEMMA AcquiredKeeps ==
    ASSUME IInv, NEW s \in Steps, Acquired(s)
    PROVE  IInv'
<1>1. step[s] \in Attempt /\ step[s].pc = "wait" /\ step[s].at # None /\ step[s].of \in Ids
    BY DEF Acquired, IInv, Attempts
<1>2. \A x \in Slots : s \notin entry[x].readers /\ entry[x].writer # s
    BY <1>1, HeldWhere DEF Reading, Writing
<1>3. CASE /\ step' = [step EXCEPT ![s].pc = IF step[s].kind = "read" THEN "rlock" ELSE "trylock"]
           /\ UNCHANGED <<cache, wf, acked, lost>>
    <2>1. Types'
        BY <1>3 DEF Acquired, IInv, Types
    <2>2. PICK q, k : q = [step[s] EXCEPT !.pc = k] /\ k = IF step[s].kind = "read" THEN "rlock" ELSE "trylock"
        OBVIOUS
    <2>3. q \in Attempt /\ q.pc \in {"rlock", "trylock"} /\ q.at = step[s].at /\ q.of = step[s].of
        BY <1>1, <2>2 DEF Attempt
    <2>4. step' = [step EXCEPT ![s] = q]
        BY <1>3, <2>2 DEF IInv, Attempts
    <2>5. Becomes(Now) /\ Good(Now, Using) /\ Now.entry = entry
        BY <1>3, NowFacts DEF Becomes, Now, cache
    <2>6. Attempts' /\ CacheGood' /\ entry' = entry /\ step'[s] = q /\ \A t \in Steps : t # s => step'[t] = step[t]
        BY <1>1, <2>3, <2>4, <2>5, StayKeeps
    <2>7. Locks'
        BY <1>2, <2>3, <2>6, LocksLeft DEF Reading, Writing
    <2> QED
        BY <2>1, <2>6, <2>7 DEF IInv
<1>4. CASE Becomes(Replace(Now, step[s].at)) /\ Ends(s) /\ \E again \in BOOLEAN : Fails(s, again)
    <2>1. Types'
        BY <1>1, <1>4, FailsKept DEF Acquired, IInv, Types
    <2>2. PICK d : d = Replace(Now, step[s].at)
        OBVIOUS
    <2>3. Good(d, [Using EXCEPT ![step[s].at] = @ \ {s}]) /\ SameLocks(Now, d) /\ Becomes(d) /\ Now.entry = entry
        BY <1>1, <1>4, <2>2, ReplaceGood, NowFacts
    <2>4. \A x \in Slots : /\ d.entry[x].readers = entry[x].readers \ {s}
                           /\ d.entry[x].writer = IF entry[x].writer = s THEN None ELSE entry[x].writer
        BY <1>2, <2>3 DEF SameLocks
    <2>5. step' = [step EXCEPT ![s] = NoStep]
        BY <1>4 DEF Ends
    <2>6. Attempts' /\ CacheGood' /\ Locks'
        BY <1>1, <2>3, <2>4, <2>5, Constants, LeaveKeeps
    <2> QED
        BY <2>1, <2>6 DEF IInv
<1> QED
    BY <1>3, <1>4 DEF Acquired

\* The locks after s let go of its own.
Freed(s, d) ==
  \A x \in Slots : /\ d.entry[x].readers = entry[x].readers \ {s}
                   /\ d.entry[x].writer = IF entry[x].writer = s THEN None ELSE entry[x].writer

LEMMA LeaveRead ==
    ASSUME IInv, NEW s \in Steps, step[s].pc \in Reading
    PROVE  /\ Good(Release(RUnlock(Now, step[s].at, s), step[s].at), [Using EXCEPT ![step[s].at] = @ \ {s}])
           /\ Freed(s, Release(RUnlock(Now, step[s].at, s), step[s].at))
           /\ Good(RUnlock(Now, step[s].at, s), Using) /\ Freed(s, RUnlock(Now, step[s].at, s))
<1>1. PICK e : e = step[s].at
    OBVIOUS
<1>2. e \in Slots /\ s \in Using[e] /\ entry[e].of # None /\ Using \in [Slots -> SUBSET Steps]
    BY <1>1, AtHarness, NowFacts DEF Reading
<1>3. \A x \in Slots : entry[x].writer # s /\ (s \in entry[x].readers => x = e)
    BY <1>1, HeldWhere DEF Reading, Writing
<1>4. PICK b : b = RUnlock(Now, e, s)
    OBVIOUS
<1>5. /\ Good(b, Using) /\ b.entry[e].readers = entry[e].readers \ {s} /\ b.entry[e].writer = entry[e].writer
      /\ \A x \in Slots : x # e => b.entry[x] = entry[x]
    BY <1>2, <1>4, RUnlockGood
<1>6. Freed(s, b)
    BY <1>3, <1>5 DEF Freed
<1>7. Good(Release(b, e), [Using EXCEPT ![e] = @ \ {s}]) /\ SameLocks(b, Release(b, e))
    BY <1>2, <1>5, ReleaseGood
<1>8. Freed(s, Release(b, e))
    BY <1>6, <1>7 DEF Freed, SameLocks
<1> QED
    BY <1>1, <1>4, <1>5, <1>6, <1>7, <1>8

LEMMA RLockKeeps ==
    ASSUME IInv, NEW s \in Steps, RLock(s)
    PROVE  IInv'
<1>1. PICK e : e = step[s].at
    OBVIOUS
<1>2. step[s] \in Attempt /\ step[s].pc = "rlock" /\ e # None /\ step[s].of \in Ids
    BY <1>1 DEF RLock, IInv, Attempts
<1>3. /\ e \in Slots /\ entry[e].of # None /\ Good(Now, Using) /\ Now.entry = entry
      /\ entry[e] \in Entry /\ entry \in [Slots -> Entry]
    BY <1>1, <1>2, AtHarness, NowFacts
<1>4. Types'
    BY DEF RLock, IInv, Types
<1>5. PICK r : r = [entry[e] EXCEPT !.readers = @ \cup {s}]
    OBVIOUS
<1>6. /\ r \in Entry /\ SameUse(entry[e], r) /\ r.readers = entry[e].readers \cup {s} /\ r.writer = None
      /\ entry[e].writer = None
    <2>1. entry[e].writer = None
        BY <1>1 DEF RLock
    <2>2. PICK held : held = entry[e].readers \cup {s}
        OBVIOUS
    <2>3. held \in SUBSET Steps
        BY <1>3, <2>2 DEF Entry
    <2>4. r = [entry[e] EXCEPT !.readers = held]
        BY <1>5, <2>2
    <2>5. r \in Entry /\ r.readers = held /\ r.writer = entry[e].writer
        BY <1>3, <2>3, <2>4 DEF Entry
    <2>6. SameUse(entry[e], r)
        BY <1>3, <2>4 DEF Entry, SameUse
    <2> QED
        BY <2>1, <2>2, <2>5, <2>6
<1>7. entry' = [entry EXCEPT ![e] = r] /\ entry'[e] = r /\ \A x \in Slots : x # e => entry'[x] = entry[x]
    BY <1>1, <1>3, <1>5 DEF RLock
<1>8. Becomes(With(Now, e, r)) /\ Good(With(Now, e, r), Using)
    <2>1. Good(With(Now, e, r), Using)
        BY <1>3, <1>6, WithGood
    <2> QED
        BY <1>7, <2>1 DEF Becomes, With, Now, RLock
<1>9. PICK q : q = [step[s] EXCEPT !.pc = "check"]
    OBVIOUS
<1>10. q \in Attempt /\ q.pc = "check" /\ q.at = e /\ q.of = step[s].of
    BY <1>1, <1>2, <1>9 DEF Attempt, Reading
<1>11. step' = [step EXCEPT ![s] = q]
    BY <1>9 DEF RLock
<1>12. Attempts' /\ CacheGood' /\ step'[s] = q /\ \A t \in Steps : t # s => step'[t] = step[t]
    BY <1>1, <1>2, <1>8, <1>10, <1>11, StayKeeps
<1>13. Locks'
    <2>1. ASSUME NEW t \in Steps, step'[t].pc \in Writing PROVE entry'[step'[t].at].writer = t
        <3>1. t # s /\ step'[t] = step[t]
            BY <1>10, <1>12, <2>1 DEF Writing
        <3>2. step[t].at \in Slots /\ entry[step[t].at].writer = t
            BY <2>1, <3>1, AtHarness DEF IInv, Locks, Writing
        <3> QED
            BY <1>6, <1>7, <3>1, <3>2
    <2>2. ASSUME NEW x \in Slots, entry'[x].writer # None
          PROVE  /\ entry'[x].readers = {} /\ step'[entry'[x].writer].at = x
                 /\ step'[entry'[x].writer].pc \in Writing
        <3>1. x # e /\ entry'[x] = entry[x] /\ entry[x].writer \in Steps
            BY <1>3, <1>6, <1>7, <2>2 DEF Entry
        <3>2. entry[x].writer # s
            BY <1>2, HeldWhere DEF Writing
        <3> QED
            BY <1>12, <2>2, <3>1, <3>2 DEF IInv, Locks
    <2>3. ASSUME NEW x \in Slots, NEW t \in entry'[x].readers PROVE step'[t].at = x /\ step'[t].pc \in Reading
        <3>1. CASE t = s
            <4>1. x = e
                BY <1>2, <1>7, <2>3, <3>1, HeldWhere DEF Reading
            <4> QED
                BY <1>10, <1>12, <3>1, <4>1 DEF Reading
        <3>2. CASE t # s
            <4>1. t \in entry[x].readers /\ t \in Steps
                BY <1>3, <1>6, <1>7, <2>3, <3>2 DEF Entry
            <4> QED
                BY <1>12, <3>2, <4>1 DEF IInv, Locks
        <3> QED
            BY <3>1, <3>2
    <2>4. ASSUME NEW t \in Steps, step'[t].pc \in Reading PROVE t \in entry'[step'[t].at].readers
        <3>1. CASE t = s
            BY <1>6, <1>7, <1>10, <1>12, <3>1
        <3>2. CASE t # s
            <4>1. step'[t] = step[t] /\ step[t].at \in Slots /\ t \in entry[step[t].at].readers
                BY <1>12, <2>4, <3>2, AtHarness DEF IInv, Locks, Reading
            <4> QED
                BY <1>6, <1>7, <4>1
        <3> QED
            BY <3>1, <3>2
    <2> QED
        BY <2>1, <2>2, <2>3, <2>4 DEF Locks
<1> QED
    BY <1>4, <1>12, <1>13 DEF IInv

LEMMA CheckKeeps ==
    ASSUME IInv, NEW s \in Steps, Check(s)
    PROVE  IInv'
<1>1. step[s] \in Attempt /\ step[s].pc = "check" /\ step[s].at # None /\ step[s].of \in Ids
    BY DEF Check, IInv, Attempts
<1>2. Good(Now, Using) /\ Now.entry = entry /\ step[s].at \in Slots
    BY <1>1, NowFacts, AtHarness
<1>3. CASE /\ step' = [step EXCEPT ![s].pc = "reading"]
           /\ UNCHANGED <<cache, wf, acked, lost, troubles>>
    <2>1. Types'
        BY <1>3 DEF Check, IInv, Types
    <2>2. PICK q : q = [step[s] EXCEPT !.pc = "reading"]
        OBVIOUS
    <2>3. q \in Attempt /\ q.pc = "reading" /\ q.at = step[s].at /\ q.of = step[s].of
        BY <1>1, <2>2 DEF Attempt, Reading
    <2>4. step' = [step EXCEPT ![s] = q] /\ Becomes(Now)
        BY <1>3, <2>2 DEF Becomes, Now, cache
    <2>5. Attempts' /\ CacheGood' /\ entry' = entry /\ step'[s] = q /\ \A t \in Steps : t # s => step'[t] = step[t]
        BY <1>1, <1>2, <2>3, <2>4, StayKeeps
    <2>6. Locks'
        <3>1. \A t \in Steps : step'[t].at = step[t].at /\ (step'[t].pc \in Writing <=> step[t].pc \in Writing)
                               /\ (step'[t].pc \in Reading <=> step[t].pc \in Reading)
            BY <1>1, <2>3, <2>5 DEF Reading, Writing
        <3> QED
            BY <2>5, <3>1, LocksStay
    <2> QED
        BY <2>1, <2>5, <2>6 DEF IInv
<1>4. CASE /\ Becomes(RUnlock(Now, step[s].at, s)) /\ step' = [step EXCEPT ![s].pc = "trysync"]
           /\ UNCHANGED <<wf, acked, lost, troubles>>
    <2>1. Types'
        BY <1>4 DEF Check, IInv, Types
    <2>2. PICK q, d : q = [step[s] EXCEPT !.pc = "trysync"] /\ d = RUnlock(Now, step[s].at, s)
        OBVIOUS
    <2>3. q \in Attempt /\ q.pc = "trysync" /\ q.at = step[s].at /\ q.of = step[s].of
        BY <1>1, <2>2 DEF Attempt
    <2>4. step' = [step EXCEPT ![s] = q] /\ Becomes(d) /\ Good(d, Using) /\ Freed(s, d)
        BY <1>1, <1>4, <2>2, LeaveRead DEF Reading
    <2>5. Attempts' /\ CacheGood' /\ entry' = d.entry /\ step'[s] = q /\ \A t \in Steps : t # s => step'[t] = step[t]
        BY <1>1, <2>3, <2>4, StayKeeps
    <2>6. Locks'
        BY <2>3, <2>4, <2>5, LocksLeft DEF Freed, Reading, Writing
    <2> QED
        BY <2>1, <2>5, <2>6 DEF IInv
<1>5. CASE /\ Becomes(Release(RUnlock(Now, step[s].at, s), step[s].at)) /\ Ends(s)
           /\ \E again \in BOOLEAN : Fails(s, again)
    <2>1. Types'
        BY <1>1, <1>5, FailsKept DEF Check, IInv, Types
    <2>2. PICK d : d = Release(RUnlock(Now, step[s].at, s), step[s].at)
        OBVIOUS
    <2>3. Good(d, [Using EXCEPT ![step[s].at] = @ \ {s}]) /\ Freed(s, d) /\ Becomes(d)
        BY <1>1, <1>5, <2>2, LeaveRead DEF Reading
    <2>4. step' = [step EXCEPT ![s] = NoStep]
        BY <1>5 DEF Ends
    <2>5. Attempts' /\ CacheGood' /\ Locks'
        BY <1>1, <2>3, <2>4, Constants, LeaveKeeps DEF Freed
    <2> QED
        BY <2>1, <2>5 DEF IInv
<1> QED
    BY <1>3, <1>4, <1>5 DEF Check

LEMMA EndReadKeeps ==
    ASSUME IInv, NEW s \in Steps, EndRead(s)
    PROVE  IInv'
<1>1. step[s].pc = "reading" /\ Types'
    BY DEF EndRead, IInv, Types
<1>2. PICK d : d = Release(RUnlock(Now, step[s].at, s), step[s].at)
    OBVIOUS
<1>3. Good(d, [Using EXCEPT ![step[s].at] = @ \ {s}]) /\ Freed(s, d) /\ Becomes(d)
    BY <1>1, <1>2, LeaveRead DEF Reading, EndRead
<1>4. step' = [step EXCEPT ![s] = NoStep]
    BY DEF Ends, EndRead
<1>5. Attempts' /\ CacheGood' /\ Locks'
    BY <1>1, <1>3, <1>4, Constants, LeaveKeeps DEF Freed
<1> QED
    BY <1>1, <1>5 DEF IInv

\* A step that wrote, or was to write, lets go of a harness that it unlocked.
LEMMA LeaveWrite ==
    ASSUME IInv, NEW s \in Steps, step[s].pc \in Writing, NEW c, Good(c, Using),
           c.entry[step[s].at].readers = entry[step[s].at].readers, c.entry[step[s].at].writer = None,
           \A x \in Slots : x # step[s].at => c.entry[x].readers = entry[x].readers /\ c.entry[x].writer = entry[x].writer
    PROVE  /\ Good(Release(c, step[s].at), [Using EXCEPT ![step[s].at] = @ \ {s}])
           /\ Freed(s, Release(c, step[s].at)) /\ Freed(s, c)
           /\ Release(c, step[s].at).entry[step[s].at].of # None
<1>1. PICK e : e = step[s].at
    OBVIOUS
<1>2. e \in Slots /\ s \in Using[e] /\ Using \in [Slots -> SUBSET Steps]
    BY <1>1, AtHarness, NowFacts DEF Writing
<1>3. \A x \in Slots : s \notin entry[x].readers /\ (entry[x].writer = s => x = e)
    BY <1>1, HeldWhere DEF Reading, Writing
<1>4. entry[e].writer = s
    BY <1>1 DEF IInv, Locks
<1>5. Freed(s, c)
    BY <1>1, <1>3, <1>4 DEF Freed
<1>6. /\ Good(Release(c, e), [Using EXCEPT ![e] = @ \ {s}]) /\ SameLocks(c, Release(c, e))
      /\ Release(c, e).entry[e].of # None
    BY <1>2, ReleaseGood
<1>7. Freed(s, Release(c, e))
    BY <1>5, <1>6 DEF Freed, SameLocks
<1> QED
    BY <1>1, <1>5, <1>6, <1>7

\* TryLock.
Taking(s, k) ==
  /\ entry' = [entry EXCEPT ![step[s].at].writer = s]
  /\ step' = [step EXCEPT ![s].pc = k]
  /\ UNCHANGED <<byID, unused>>

LEMMA LockKeeps ==
    ASSUME IInv, NEW s \in Steps, step[s].pc \in {"trysync", "trylock"}, ~Held(step[s].at),
           NEW k \in Writing, Taking(s, k)
    PROVE  Attempts' /\ CacheGood' /\ Locks'
<1>1. PICK e : e = step[s].at
    OBVIOUS
<1>2. step[s] \in Attempt /\ e # None /\ step[s].of \in Ids
    BY <1>1 DEF IInv, Attempts
<1>3. /\ e \in Slots /\ entry[e].of # None /\ Good(Now, Using) /\ Now.entry = entry
      /\ entry[e] \in Entry /\ entry \in [Slots -> Entry]
    BY <1>1, <1>2, AtHarness, NowFacts
<1>4. PICK r : r = [entry[e] EXCEPT !.writer = s]
    OBVIOUS
<1>5. r \in Entry /\ SameUse(entry[e], r) /\ r.readers = entry[e].readers /\ r.writer = s
    BY <1>3, <1>4 DEF Entry, SameUse
<1>6. entry' = [entry EXCEPT ![e] = r] /\ entry'[e] = r /\ \A x \in Slots : x # e => entry'[x] = entry[x]
    BY <1>1, <1>3, <1>4 DEF Taking
<1>7. PICK d : d = With(Now, e, r) /\ Becomes(d) /\ Good(d, Using)
    <2>1. Good(With(Now, e, r), Using)
        BY <1>3, <1>5, WithGood
    <2>2. Becomes(With(Now, e, r))
        BY <1>6 DEF Becomes, With, Now, Taking
    <2> QED
        BY <2>1, <2>2
<1>8. PICK q : q = [step[s] EXCEPT !.pc = k]
    OBVIOUS
<1>9. q \in Attempt /\ q.pc = k /\ q.at = e /\ q.of = step[s].of
    BY <1>1, <1>2, <1>8 DEF Attempt
<1>10. step' = [step EXCEPT ![s] = q]
    BY <1>8 DEF Taking
<1>11. Attempts' /\ CacheGood' /\ step'[s] = q /\ \A t \in Steps : t # s => step'[t] = step[t]
    <2>1. q.pc \notin {"none", "acquire"} /\ q.at # None /\ q.at = step[s].at /\ q.of \in Ids
        BY <1>1, <1>2, <1>9 DEF Writing
    <2>2. /\ q.at = None <=> q.pc \in {"none", "acquire"}
          /\ q.pc # "none" => q.of \in Ids
          /\ q.pc = "none" => ~q.live
        BY <2>1
    <2> QED
        BY <1>7, <1>9, <1>10, <2>1, <2>2, StayKeeps
<1>12. entry[e].writer = None /\ entry[e].readers = {}
    BY <1>1 DEF Held
<1>13. Locks'
    <2>1. ASSUME NEW t \in Steps, step'[t].pc \in Writing PROVE entry'[step'[t].at].writer = t
        <3>1. CASE t = s
            BY <1>5, <1>6, <1>9, <1>11, <3>1
        <3>2. CASE t # s
            <4>1. step'[t] = step[t] /\ step[t].at \in Slots /\ entry[step[t].at].writer = t
                BY <1>11, <2>1, <3>2, AtHarness DEF IInv, Locks, Writing
            <4>2. step[t].at # e
                BY <1>12, <4>1, Constants
            <4> QED
                BY <1>6, <4>1, <4>2
        <3> QED
            BY <3>1, <3>2
    <2>2. ASSUME NEW x \in Slots, entry'[x].writer # None
          PROVE  /\ entry'[x].readers = {} /\ step'[entry'[x].writer].at = x
                 /\ step'[entry'[x].writer].pc \in Writing
        <3>1. CASE x = e
            BY <1>5, <1>6, <1>9, <1>11, <1>12, <3>1
        <3>2. CASE x # e
            <4>1. entry'[x] = entry[x] /\ entry[x].writer \in Steps
                BY <1>3, <1>6, <2>2, <3>2 DEF Entry
            <4>2. entry[x].writer # s
                BY HeldWhere DEF Writing
            <4>3. /\ entry[x].readers = {} /\ step[entry[x].writer].at = x
                  /\ step[entry[x].writer].pc \in Writing
                BY <2>2, <4>1 DEF IInv, Locks
            <4> QED
                BY <1>11, <4>1, <4>2, <4>3
        <3> QED
            BY <3>1, <3>2
    <2>3. ASSUME NEW x \in Slots, NEW t \in entry'[x].readers PROVE step'[t].at = x /\ step'[t].pc \in Reading
        <3>1. x # e /\ entry'[x] = entry[x] /\ t \in Steps
            BY <1>3, <1>5, <1>6, <1>12, <2>3 DEF Entry
        <3>2. t # s
            BY <2>3, <3>1, HeldWhere DEF Reading
        <3> QED
            BY <1>11, <2>3, <3>1, <3>2 DEF IInv, Locks
    <2>4. ASSUME NEW t \in Steps, step'[t].pc \in Reading PROVE t \in entry'[step'[t].at].readers
        <3>1. t # s /\ step'[t] = step[t]
            BY <1>9, <1>11, <2>4 DEF Reading, Writing
        <3>2. step[t].at \in Slots /\ t \in entry[step[t].at].readers
            BY <2>4, <3>1, AtHarness DEF IInv, Locks, Reading
        <3> QED
            BY <1>5, <1>6, <3>1, <3>2
    <2> QED
        BY <2>1, <2>2, <2>3, <2>4 DEF Locks
<1> QED
    BY <1>11, <1>13

\* replace, and the step acquires again.
LEMMA AgainKeeps ==
    ASSUME IInv, NEW s \in Steps, step[s].pc \in {"trysync", "trylock"},
           Becomes(Replace(Now, step[s].at)), Again(s)
    PROVE  Attempts' /\ CacheGood' /\ Locks'
<1>1. step[s] \in Attempt /\ step[s].of \in Ids
    BY DEF IInv, Attempts
<1>2. PICK d, q : d = Replace(Now, step[s].at) /\ q = [step[s] EXCEPT !.pc = "acquire", !.at = None, !.held = FALSE]
    OBVIOUS
<1>3. Good(d, [Using EXCEPT ![step[s].at] = @ \ {s}]) /\ SameLocks(Now, d) /\ Becomes(d) /\ Now.entry = entry
    BY <1>2, ReplaceGood, NowFacts
<1>4. \A x \in Slots : s \notin entry[x].readers /\ entry[x].writer # s
    BY HeldWhere DEF Reading, Writing
<1>5. Freed(s, d)
    BY <1>3, <1>4 DEF Freed, SameLocks
<1>6. q \in Attempt /\ q.pc = "acquire" /\ q.at = None /\ q.of = step[s].of
    BY <1>1, <1>2 DEF Attempt
<1>7. step' = [step EXCEPT ![s] = q]
    BY <1>2 DEF Again, IInv, Attempts
<1> QED
    BY <1>1, <1>3, <1>5, <1>6, <1>7, LeaveKeeps DEF Freed

LEMMA TrySyncKeeps ==
    ASSUME IInv, NEW s \in Steps, TrySync(s)
    PROVE  IInv'
<1>1. step[s] \in Attempt /\ step[s].pc = "trysync" /\ step[s].at # None /\ step[s].of \in Ids
    BY DEF TrySync, IInv, Attempts
<1>2. Types'
    BY DEF TrySync, IInv, Types
<1>3. CASE /\ ~Held(step[s].at) /\ entry' = [entry EXCEPT ![step[s].at].writer = s]
           /\ step' = [step EXCEPT ![s].pc = "sync"] /\ UNCHANGED <<byID, unused>>
    <2>1. "sync" \in Writing /\ Taking(s, "sync")
        BY <1>3 DEF Writing, Taking
    <2> QED
        BY <1>1, <1>2, <1>3, <2>1, LockKeeps DEF IInv
<1>4. CASE step' = [step EXCEPT ![s].pc = "rlock", ![s].held = TRUE] /\ UNCHANGED cache
    <2>1. PICK q : q = [step[s] EXCEPT !.pc = "rlock", !.held = TRUE]
        OBVIOUS
    <2>2. q \in Attempt /\ q.pc = "rlock" /\ q.at = step[s].at /\ q.of = step[s].of
        BY <1>1, <2>1 DEF Attempt
    <2>3. step' = [step EXCEPT ![s] = q]
        BY <1>4, <2>1 DEF IInv, Attempts
    <2>4. Becomes(Now) /\ Good(Now, Using) /\ Now.entry = entry
        BY <1>4, NowFacts DEF Becomes, Now, cache
    <2>5. Attempts' /\ CacheGood' /\ entry' = entry /\ step'[s] = q /\ \A t \in Steps : t # s => step'[t] = step[t]
        BY <1>1, <2>2, <2>3, <2>4, StayKeeps
    <2>6. \A x \in Slots : s \notin entry[x].readers /\ entry[x].writer # s
        BY <1>1, HeldWhere DEF Reading, Writing
    <2>7. Locks'
        BY <2>2, <2>5, <2>6, LocksLeft DEF Reading, Writing
    <2> QED
        BY <1>2, <2>5, <2>7 DEF IInv
<1>5. CASE Becomes(Replace(Now, step[s].at)) /\ Again(s)
    BY <1>1, <1>2, <1>5, AgainKeeps DEF IInv
<1> QED
    BY <1>3, <1>4, <1>5 DEF TrySync

LEMMA TryCommitKeeps ==
    ASSUME IInv, NEW s \in Steps, TryCommit(s)
    PROVE  IInv'
<1>1. step[s].pc = "trylock"
    BY DEF TryCommit
<1>2. Types'
    BY DEF TryCommit, IInv, Types
<1>3. CASE Held(step[s].at)
    BY <1>1, <1>2, <1>3, AgainKeeps DEF IInv, TryCommit
<1>4. CASE ~Held(step[s].at)
    <2>1. "commit" \in Writing /\ Taking(s, "commit")
        BY <1>4 DEF Writing, Taking, TryCommit
    <2> QED
        BY <1>1, <1>2, <1>4, <2>1, LockKeeps DEF IInv
<1> QED
    BY <1>3, <1>4

LEMMA SyncKeeps ==
    ASSUME IInv, NEW s \in Steps, Sync(s)
    PROVE  IInv'
<1>1. PICK e : e = step[s].at
    OBVIOUS
<1>2. step[s] \in Attempt /\ step[s].pc = "sync" /\ e # None /\ step[s].of \in Ids /\ step[s].pc \in Writing
    BY <1>1 DEF Sync, IInv, Attempts, Writing
<1>3. e \in Slots /\ entry[e].of # None /\ Good(Now, Using) /\ Now.entry = entry
    BY <1>1, <1>2, AtHarness, NowFacts
<1>4. PICK c : c = Unlock(Now, e)
    OBVIOUS
<1>5. /\ Good(c, Using) /\ c.entry[e].readers = entry[e].readers /\ c.entry[e].writer = None
      /\ c.entry[e].of # None /\ \A x \in Slots : x # e => c.entry[x] = entry[x]
    BY <1>3, <1>4, UnlockGood
<1>6. Good(Release(c, e), [Using EXCEPT ![e] = @ \ {s}]) /\ Freed(s, Release(c, e)) /\ Freed(s, c)
    BY <1>1, <1>2, <1>5, LeaveWrite
<1>7. CASE /\ Becomes(Synced(c, e)) /\ step' = [step EXCEPT ![s].pc = "rlock"]
           /\ UNCHANGED <<wf, acked, lost, troubles>>
    <2>1. Types'
        BY <1>7 DEF Sync, IInv, Types
    <2>2. PICK q, d : q = [step[s] EXCEPT !.pc = "rlock"] /\ d = Synced(c, e)
        OBVIOUS
    <2>3. q \in Attempt /\ q.pc = "rlock" /\ q.at = e /\ q.of = step[s].of
        BY <1>1, <1>2, <2>2 DEF Attempt
    <2>4. Good(d, Using) /\ SameLocks(c, d)
        BY <1>3, <1>5, <2>2, SyncedGood DEF IInv
    <2>5. step' = [step EXCEPT ![s] = q] /\ Becomes(d)
        BY <1>7, <2>2
    <2>6. Attempts' /\ CacheGood' /\ entry' = d.entry /\ step'[s] = q /\ \A t \in Steps : t # s => step'[t] = step[t]
        BY <1>1, <1>2, <2>3, <2>4, <2>5, StayKeeps
    <2>7. \A x \in Slots : /\ entry'[x].readers = entry[x].readers \ {s}
                           /\ entry'[x].writer = IF entry[x].writer = s THEN None ELSE entry[x].writer
        BY <1>6, <2>4, <2>6 DEF Freed, SameLocks
    <2>8. Locks'
        BY <2>3, <2>6, <2>7, LocksLeft DEF Reading, Writing
    <2> QED
        BY <2>1, <2>6, <2>8 DEF IInv
<1>8. CASE Becomes(Release(c, e)) /\ Ends(s) /\ \E again \in BOOLEAN : Fails(s, again)
    <2>1. Types'
        BY <1>2, <1>8, FailsKept DEF Sync, IInv, Types
    <2>2. PICK d : d = Release(c, e)
        OBVIOUS
    <2>3. Good(d, [Using EXCEPT ![step[s].at] = @ \ {s}]) /\ Freed(s, d) /\ Becomes(d)
        BY <1>1, <1>6, <1>8, <2>2
    <2>4. step' = [step EXCEPT ![s] = NoStep]
        BY <1>8 DEF Ends
    <2>5. Attempts' /\ CacheGood' /\ Locks'
        BY <1>2, <2>3, <2>4, Constants, LeaveKeeps DEF Freed
    <2> QED
        BY <2>1, <2>5 DEF IInv
<1> QED
    BY <1>1, <1>4, <1>7, <1>8 DEF Sync

LEMMA ApplyKeeps ==
    ASSUME IInv, NEW s \in Steps, Apply(s)
    PROVE  IInv'
<1>1. PICK e, c : e = step[s].at /\ c = Synced(Now, e)
    OBVIOUS
<1>2. step[s] \in Attempt /\ step[s].pc = "commit" /\ e # None /\ step[s].of \in Ids /\ step[s].pc \in Writing
    BY <1>1 DEF Apply, IInv, Attempts, Writing
<1>3. e \in Slots /\ entry[e].of # None /\ Good(Now, Using) /\ Now.entry = entry
    BY <1>1, <1>2, AtHarness, NowFacts
<1>4. Good(c, Using) /\ SameLocks(Now, c) /\ c.entry[e].of # None
    BY <1>1, <1>3, SyncedGood DEF IInv
<1>5. c.entry[e] \in Entry
    BY <1>3, <1>4 DEF Good, Cache
<1>6. ASSUME NEW b \in {c, Now}, Becomes(Release(Unlock(b, e), e)), Ends(s)
      PROVE  Attempts' /\ CacheGood' /\ Locks'
    <2>1. Good(b, Using) /\ b.entry[e].of # None /\ \A x \in Slots : b.entry[x].readers = entry[x].readers /\ b.entry[x].writer = entry[x].writer
        BY <1>3, <1>4, <1>6 DEF SameLocks
    <2>2. PICK u : u = Unlock(b, e)
        OBVIOUS
    <2>3. /\ Good(u, Using) /\ u.entry[e].readers = b.entry[e].readers /\ u.entry[e].writer = None
          /\ \A x \in Slots : x # e => u.entry[x] = b.entry[x]
        BY <1>3, <2>1, <2>2, UnlockGood
    <2>4. /\ u.entry[e].readers = entry[e].readers
          /\ \A x \in Slots : x # e => u.entry[x].readers = entry[x].readers /\ u.entry[x].writer = entry[x].writer
        BY <1>3, <2>1, <2>3
    <2>5. PICK d : d = Release(u, e)
        OBVIOUS
    <2>6. Good(d, [Using EXCEPT ![step[s].at] = @ \ {s}]) /\ Freed(s, d)
        BY <1>1, <1>2, <2>3, <2>4, <2>5, LeaveWrite
    <2>7. step' = [step EXCEPT ![s] = NoStep] /\ Becomes(d)
        BY <1>6, <2>2, <2>5 DEF Ends
    <2> QED
        BY <1>2, <2>6, <2>7, Constants, LeaveKeeps DEF Freed
<1>7. CASE Becomes(Release(Unlock(c, e), e)) /\ Ends(s) /\ Answers(s, c.entry[e].rev)
    <2>1. c.entry[e].rev \in Nat
        BY <1>5 DEF Entry
    <2>2. Types'
        BY <1>2, <1>7, <2>1, AnswersKept DEF Apply, IInv, Types
    <2> QED
        BY <1>6, <1>7, <2>2 DEF IInv
<1>8. CASE /\ Becomes(With(c, e, [c.entry[e] EXCEPT !.stale = TRUE, !.holds = Append(@, step[s].no)]))
           /\ step' = [step EXCEPT ![s].pc = "save"]
           /\ UNCHANGED <<wf, acked, lost, troubles>>
    <2>1. Types'
        BY <1>8 DEF Apply, IInv, Types
    <2>2. PICK h, r : h = Append(c.entry[e].holds, step[s].no) /\ r = [c.entry[e] EXCEPT !.stale = TRUE, !.holds = h]
        OBVIOUS
    <2>3. h \in Seq(Nat)
        <3>1. c.entry[e].holds \in Seq(Nat) /\ step[s].no \in Nat
            BY <1>2, <1>5 DEF Entry, Attempt
        <3> QED
            BY <2>2, <3>1
    <2>4. r \in Entry /\ SameUse(c.entry[e], r) /\ r.readers = c.entry[e].readers /\ r.writer = c.entry[e].writer
        BY <1>5, <2>2, <2>3 DEF Entry, SameUse
    <2>5. With(c, e, [c.entry[e] EXCEPT !.stale = TRUE, !.holds = Append(@, step[s].no)]) = With(c, e, r)
        BY <2>2
    <2>6. /\ Good(With(c, e, r), Using) /\ With(c, e, r).entry[e] = r
          /\ \A x \in Slots : x # e => With(c, e, r).entry[x] = c.entry[x]
        BY <1>3, <1>4, <2>4, WithGood
    <2>7. PICK d, q : d = With(c, e, r) /\ q = [step[s] EXCEPT !.pc = "save"]
        OBVIOUS
    <2>8. q \in Attempt /\ q.pc = "save" /\ q.at = e /\ q.of = step[s].of
        BY <1>1, <1>2, <2>7 DEF Attempt, Writing
    <2>9. step' = [step EXCEPT ![s] = q] /\ Becomes(d) /\ Good(d, Using)
        BY <1>8, <2>5, <2>6, <2>7
    <2>10. Attempts' /\ CacheGood' /\ entry' = d.entry /\ step'[s] = q /\ \A t \in Steps : t # s => step'[t] = step[t]
        BY <1>1, <1>2, <2>8, <2>9, StayKeeps
    <2>11. \A x \in Slots : entry'[x].readers = entry[x].readers /\ entry'[x].writer = entry[x].writer
        BY <1>3, <1>4, <2>4, <2>6, <2>7, <2>10 DEF SameLocks
    <2>12. \A t \in Steps : /\ step'[t].at = step[t].at
                            /\ step'[t].pc \in Writing <=> step[t].pc \in Writing
                            /\ step'[t].pc \in Reading <=> step[t].pc \in Reading
        BY <1>1, <1>2, <2>8, <2>10 DEF Writing, Reading
    <2>13. Locks'
        BY <2>11, <2>12, LocksStay
    <2> QED
        BY <2>1, <2>10, <2>13 DEF IInv
<1>9. CASE /\ \E synced \in BOOLEAN : Becomes(Release(Unlock(IF synced THEN c ELSE Now, e), e))
           /\ Ends(s) /\ \E again \in BOOLEAN : Fails(s, again)
    <2>1. Types'
        BY <1>2, <1>9, FailsKept DEF Apply, IInv, Types
    <2>2. PICK b \in {c, Now} : Becomes(Release(Unlock(b, e), e))
        <3>1. PICK synced \in BOOLEAN : Becomes(Release(Unlock(IF synced THEN c ELSE Now, e), e))
            BY <1>9
        <3>2. CASE synced
            BY <3>1, <3>2
        <3>3. CASE ~synced
            BY <3>1, <3>3
        <3> QED
            BY <3>2, <3>3
    <2>3. Attempts' /\ CacheGood' /\ Locks'
        BY <1>6, <1>9, <2>2
    <2> QED
        BY <2>1, <2>3 DEF IInv
<1> QED
    BY <1>1, <1>7, <1>8, <1>9 DEF Apply

LEMMA SaveKeeps ==
    ASSUME IInv, NEW s \in Steps, Save(s)
    PROVE  IInv'
<1>1. PICK e, id, to : e = step[s].at /\ id = step[s].of /\ to = saved[id].gen + 1
    OBVIOUS
<1>2. step[s] \in Attempt /\ step[s].pc = "save" /\ e # None /\ id \in Ids /\ step[s].pc \in Writing
    BY <1>1 DEF Save, IInv, Attempts, Writing
<1>3. e \in Slots /\ entry[e].of # None /\ entry[e] \in Entry /\ Good(Now, Using) /\ Now.entry = entry
    BY <1>1, <1>2, AtHarness, NowFacts
<1>4. to \in Nat /\ entry[e].holds \in Seq(Nat)
    <2>1. saved[id].gen \in Nat
        BY <1>2 DEF IInv, Types
    <2>2. entry[e].holds \in Seq(Nat)
        BY <1>3 DEF Entry
    <2> QED
        BY <1>1, <2>1, <2>2
<1>5. PICK u, c : u = Unlock(Now, e) /\ c = Release(u, e)
    OBVIOUS
<1>6. /\ Good(u, Using) /\ u.entry[e].readers = entry[e].readers /\ u.entry[e].writer = None
      /\ \A x \in Slots : x # e => u.entry[x] = entry[x]
    BY <1>3, <1>5, UnlockGood
<1>7. Good(c, [Using EXCEPT ![e] = @ \ {s}]) /\ Freed(s, c) /\ c.entry[e].of # None
    BY <1>1, <1>2, <1>5, <1>6, LeaveWrite
<1>8. PICK r : r = [c.entry[e] EXCEPT !.rev = to, !.stale = FALSE]
    OBVIOUS
<1>9. r \in Entry /\ SameUse(c.entry[e], r) /\ r.readers = c.entry[e].readers /\ r.writer = c.entry[e].writer
    <2>1. c.entry[e] \in Entry
        BY <1>3, <1>7 DEF Good, Cache
    <2> QED
        BY <1>4, <1>8, <2>1 DEF Entry, SameUse
<1>10. Good(With(c, e, r), [Using EXCEPT ![e] = @ \ {s}]) /\ Freed(s, With(c, e, r))
    <2>1. /\ Good(With(c, e, r), [Using EXCEPT ![e] = @ \ {s}]) /\ With(c, e, r).entry[e] = r
          /\ \A x \in Slots : x # e => With(c, e, r).entry[x] = c.entry[x]
        BY <1>3, <1>7, <1>9, WithGood
    <2> QED
        BY <1>7, <1>9, <2>1 DEF Freed
<1>11. Attempts' /\ CacheGood' /\ Locks'
    <2>1. PICK d \in {c, With(c, e, r)} : Becomes(d)
        BY <1>1, <1>5, <1>8 DEF Save
    <2>2. Good(d, [Using EXCEPT ![step[s].at] = @ \ {s}]) /\ Freed(s, d)
        BY <1>1, <1>7, <1>10, <2>1
    <2>3. step' = [step EXCEPT ![s] = NoStep]
        BY DEF Save, Ends
    <2> QED
        BY <1>2, <2>1, <2>2, <2>3, Constants, LeaveKeeps DEF Freed
<1>12. wf' \in [Ids -> Workflow]
    <2>1. Answers(s, to) \/ \E again \in BOOLEAN : Fails(s, again)
        BY <1>1 DEF Save
    <2> QED
        BY <1>1, <1>2, <1>4, <2>1, AnswersKept, FailsKept DEF IInv
<1>13. saved' \in [Ids -> [gen : Nat, rows : Seq(Nat)]]
    <2>1. PICK v : v = [gen |-> to, rows |-> entry[e].holds]
        OBVIOUS
    <2>2. v \in [gen : Nat, rows : Seq(Nat)]
        BY <1>4, <2>1
    <2>3. saved' = saved \/ saved' = [saved EXCEPT ![id] = v]
        BY <1>1, <2>1 DEF Save
    <2>4. saved \in [Ids -> [gen : Nat, rows : Seq(Nat)]]
        BY DEF IInv, Types
    <2> QED
        BY <1>2, <2>2, <2>3, <2>4
<1>14. Types'
    BY <1>12, <1>13 DEF Save, IInv, Types
<1> QED
    BY <1>11, <1>14 DEF IInv

\* A step of the cache on its own.
LEMMA CacheKeeps ==
    ASSUME IInv, NEW d, Good(d, Using), SameLocks(Now, d), Becomes(d), step' = step
    PROVE  Attempts' /\ CacheGood' /\ Locks'
<1>1. Using' = Using /\ Attempts'
    BY DEF Using, InUse, IInv, Attempts
<1>2. CacheGood' /\ entry' = d.entry
    BY <1>1, BecomesGood
<1>3. Locks'
    BY <1>2, NowFacts, LocksStay DEF SameLocks
<1> QED
    BY <1>1, <1>2, <1>3

LEMMA TimerKeeps ==
    ASSUME IInv, NEW e \in Slots, Timer(e)
    PROVE  IInv'
<1>1. Good(Now, Using) /\ Using \in [Slots -> SUBSET Steps] /\ Now.entry = entry /\ Now.byID = byID
    BY NowFacts
<1>2. entry[e].of # None
    <2>1. ~NoEntry.timer
        BY DEF NoEntry
    <2> QED
        BY <1>1, <2>1 DEF Good, Timer
<1>3. ~entry[e].gone
    BY <1>1, <1>2 DEF Good, Timer
<1>4. Good(Drop(Now, e), Using) /\ SameLocks(Now, Drop(Now, e))
    BY <1>1, <1>2, <1>3, DropGood
<1>5. Types'
    BY DEF Timer, IInv, Types
<1>6. Attempts' /\ CacheGood' /\ Locks'
    BY <1>4, CacheKeeps DEF Timer
<1> QED
    BY <1>5, <1>6 DEF IInv

LEMMA CloseKeeps ==
    ASSUME IInv, NEW id \in Ids, Close(id)
    PROVE  IInv'
<1>1. /\ Good(Now, Using) /\ Using \in [Slots -> SUBSET Steps] /\ Now.entry = entry /\ Now.byID = byID
      /\ byID \in [Ids -> Slots \cup {None}]
    BY NowFacts
<1>2. Types'
    <2>1. wf' = [wf EXCEPT ![id].phase = "closed"]
        BY DEF Close
    <2>2. wf \in [Ids -> Workflow]
        BY DEF IInv, Types
    <2>3. wf' \in [Ids -> Workflow]
        BY <2>1, <2>2 DEF Workflow
    <2> QED
        BY <2>3 DEF Close, IInv, Types
<1>3. CASE byID[id] = None
    <2>1. Becomes(Now) /\ SameLocks(Now, Now)
        BY <1>3 DEF Close, Becomes, Now, cache, SameLocks
    <2>2. Attempts' /\ CacheGood' /\ Locks'
        BY <1>1, <2>1, CacheKeeps DEF Close
    <2> QED
        BY <1>2, <2>2 DEF IInv
<1>4. CASE byID[id] # None
    <2>1. PICK e : e = byID[id]
        OBVIOUS
    <2>2. e \in Slots /\ entry[e].of = id /\ entry[e].of # None /\ ~entry[e].gone
        BY <1>1, <1>4, <2>1, Constants DEF Good
    <2>3. Good(Drop(Now, e), Using) /\ SameLocks(Now, Drop(Now, e))
        BY <1>1, <2>2, DropGood
    <2>4. Attempts' /\ CacheGood' /\ Locks'
        BY <1>4, <2>1, <2>3, CacheKeeps DEF Close
    <2> QED
        BY <1>2, <2>4 DEF IInv
<1> QED
    BY <1>3, <1>4

LEMMA ClosedKeeps ==
    ASSUME IInv, NEW e \in Slots, Closed(e)
    PROVE  IInv'
<1>1. /\ Good(Now, Using) /\ Using \in [Slots -> SUBSET Steps] /\ Now.entry = entry /\ Now.byID = byID
      /\ Now.unused = unused /\ entry[e] \in Entry /\ entry \in [Slots -> Entry]
    BY NowFacts
<1>2. entry[e].closes = 1 /\ entry[e].gone /\ Using[e] = {} /\ entry[e].users = Cardinality(Using[e])
    <2>1. entry[e].closes > 0 /\ entry[e].closes <= 1 /\ entry[e].closes \in Nat
        BY <1>1 DEF Good, Closed, Entry
    <2> QED
        BY <1>1, <2>1 DEF Good
<1>3. entry[e].users = 0
    BY <1>1, <1>2, UsersOfNone
<1>4. entry' = [entry EXCEPT ![e] = NoEntry] /\ byID' = byID /\ unused' = unused /\ step' = step
    BY <1>3 DEF Closed
<1>5. PICK d : d = [byID |-> byID, unused |-> unused, entry |-> [entry EXCEPT ![e] = NoEntry]]
    OBVIOUS
<1>6. /\ d.entry[e] = NoEntry /\ \A x \in Slots : x # e => d.entry[x] = entry[x]
      /\ d.byID = byID /\ d.unused = unused /\ Becomes(d)
    BY <1>1, <1>4, <1>5 DEF Becomes
<1>7. d \in Cache
    <2>1. [entry EXCEPT ![e] = NoEntry] \in [Slots -> Entry]
        BY <1>1, Constants
    <2> QED
        BY <1>1, <1>5, <2>1, NowFacts DEF Cache
<1>8. \A i \in Ids : byID[i] # e
    <2>1. ASSUME NEW i \in Ids, byID[i] = e PROVE FALSE
        <3>1. entry[e].of = i /\ i # None
            BY <1>1, <2>1, Constants DEF Good
        <3> QED
            BY <1>1, <1>2, <2>1, <3>1 DEF Good
    <2> QED
        BY <2>1
<1>9. ~In(e, unused)
    BY <1>1, <1>2 DEF Good
<1>10. /\ NoEntry.users = 0 /\ NoEntry.closes = 0 /\ ~NoEntry.closed /\ NoEntry.of = None
       /\ NoEntry.readers = {} /\ NoEntry.writer = None
    BY DEF NoEntry
<1>11. /\ d.entry[e].users = Cardinality(Using[e])
       /\ d.entry[e].closes <= 1 /\ ~d.entry[e].closed /\ d.entry[e].closes # 1
       /\ d.entry[e].of = None /\ d.entry[e] = NoEntry /\ ~In(e, d.unused)
    BY <1>2, <1>3, <1>6, <1>9, <1>10
<1>12. ASSUME NEW i \in Ids, d.byID[i] # None PROVE d.entry[d.byID[i]].of = i
    BY <1>1, <1>6, <1>8, <1>12, NowFacts DEF Good
<1>13. Good(d, Using)
    BY <1>1, <1>6, <1>7, <1>11, <1>12 DEF Good
<1>14. SameLocks(Now, d)
    <2>1. entry[e].readers = {}
        <3>1. ASSUME NEW s \in entry[e].readers PROVE FALSE
            <4>1. s \in Steps /\ step[s].at = e
                BY <1>1, <3>1 DEF Entry, IInv, Locks
            <4> QED
                BY <1>2, <4>1 DEF Using, InUse
        <3> QED
            BY <3>1
    <2>2. entry[e].writer = None
        <3>1. ASSUME entry[e].writer # None PROVE FALSE
            <4>1. entry[e].writer \in Steps /\ step[entry[e].writer].at = e
                BY <1>1, <3>1 DEF Entry, IInv, Locks
            <4> QED
                BY <1>2, <4>1 DEF Using, InUse
        <3> QED
            BY <3>1
    <2> QED
        BY <1>1, <1>6, <1>10, <2>1, <2>2 DEF SameLocks
<1>15. Types'
    BY DEF Closed, IInv, Types
<1> QED
    BY <1>4, <1>6, <1>13, <1>14, <1>15, CacheKeeps DEF IInv

\* A step that has no harness starts.
LEMMA SendsKeeps ==
    ASSUME IInv, NEW s \in Steps, NEW id \in Ids, NEW kind \in {"read", "commit"}, NEW w,
           w.no \in Nat, w.base \in Nat, Sends(s, id, kind, w), UNCHANGED cache
    PROVE  Attempts' /\ CacheGood' /\ Locks'
<1>1. step[s] \in Attempt /\ step[s].pc = "none" /\ step[s].at = None
    BY DEF Sends, Idle, IInv, Attempts
<1>2. PICK q : q = [NoStep EXCEPT !.pc = "acquire", !.of = id, !.kind = kind,
                      !.key = key[id], !.live = TRUE, !.no = w.no, !.base = w.base]
    OBVIOUS
<1>3. key[id] \in Keys
    BY DEF IInv, Types
<1>4. q \in Attempt /\ q.pc = "acquire" /\ q.at = None /\ q.of = id
    BY <1>2, <1>3, Constants DEF Attempt, NoStep
<1>5. step' = [step EXCEPT ![s] = q]
    BY <1>2 DEF Sends
<1>6. Becomes(Now) /\ Good(Now, Using) /\ Now.entry = entry
    BY NowFacts DEF Becomes, Now, cache
<1>7. Attempts' /\ CacheGood' /\ entry' = entry /\ step'[s] = q /\ \A t \in Steps : t # s => step'[t] = step[t]
    BY <1>1, <1>4, <1>5, <1>6, StayKeeps
<1>8. \A x \in Slots : s \notin entry[x].readers /\ entry[x].writer # s
    BY <1>1, HeldWhere DEF Reading, Writing
<1>9. Locks'
    BY <1>4, <1>7, <1>8, LocksLeft DEF Reading, Writing
<1> QED
    BY <1>7, <1>9

LEMMA WorkflowKeeps ==
    ASSUME IInv, NEW s \in Steps, NEW id \in Ids, Read(s, id) \/ Commit(s, id) \/ Retry(s, id)
    PROVE  IInv'
<1>1. wf \in [Ids -> Workflow]
    BY DEF IInv, Types
<1>2. CASE Read(s, id)
    <2>1. PICK w : w = [no |-> 0, base |-> 0]
        OBVIOUS
    <2>2. w.no \in Nat /\ w.base \in Nat /\ Sends(s, id, "read", w)
        BY <1>2, <2>1 DEF Read
    <2>3. Attempts' /\ CacheGood' /\ Locks'
        BY <1>2, <2>2, SendsKeeps DEF Read
    <2>4. Types'
        BY <1>2 DEF Read, IInv, Types
    <2> QED
        BY <2>3, <2>4 DEF IInv
<1>3. ASSUME wf' \in [Ids -> Workflow], Sends(s, id, "commit", wf'[id]), UNCHANGED cache, UNCHANGED <<saved, key>>
      PROVE  IInv'
    <2>1. wf'[id].no \in Nat /\ wf'[id].base \in Nat
        BY <1>3 DEF Workflow
    <2>2. Attempts' /\ CacheGood' /\ Locks'
        BY <1>3, <2>1, SendsKeeps
    <2>3. Types'
        BY <1>3 DEF IInv, Types
    <2> QED
        BY <2>2, <2>3 DEF IInv
<1>4. CASE Commit(s, id)
    <2>1. PICK n : n = wf[id].no + 1
        OBVIOUS
    <2>2. wf[id] \in Workflow /\ n \in Nat
        BY <1>1, <2>1 DEF Workflow
    <2>3. wf' = [wf EXCEPT ![id] = [wf[id] EXCEPT !.phase = "commit", !.no = n, !.tries = 1]]
        BY <1>1, <1>4, <2>1, <2>2 DEF Commit, Workflow
    <2>4. [wf[id] EXCEPT !.phase = "commit", !.no = n, !.tries = 1] \in Workflow
        BY <2>2 DEF Workflow
    <2>5. wf' \in [Ids -> Workflow]
        BY <1>1, <2>3, <2>4
    <2> QED
        BY <1>3, <1>4, <2>5 DEF Commit
<1>5. CASE Retry(s, id)
    <2>1. PICK n : n = wf[id].tries + 1
        OBVIOUS
    <2>2. wf[id] \in Workflow /\ n \in Nat
        BY <1>1, <2>1 DEF Workflow
    <2>3. wf' = [wf EXCEPT ![id] = [wf[id] EXCEPT !.phase = "commit", !.tries = n]]
        BY <1>1, <1>5, <2>1, <2>2 DEF Retry, Workflow
    <2>4. [wf[id] EXCEPT !.phase = "commit", !.tries = n] \in Workflow
        BY <2>2 DEF Workflow
    <2>5. wf' \in [Ids -> Workflow]
        BY <1>1, <2>3, <2>4
    <2> QED
        BY <1>3, <1>5, <2>5 DEF Retry
<1> QED
    BY <1>2, <1>4, <1>5

LEMMA TimeoutKeeps ==
    ASSUME IInv, NEW s \in Steps, Timeout(s)
    PROVE  IInv'
<1>1. step[s] \in Attempt /\ step[s].pc # "none" /\ step[s].of \in Ids /\ (step[s].at = None <=> step[s].pc = "acquire")
    BY DEF Timeout, IInv, Attempts
<1>2. PICK q : q = [step[s] EXCEPT !.live = FALSE]
    OBVIOUS
<1>3. q \in Attempt /\ q.pc = step[s].pc /\ q.at = step[s].at /\ q.of = step[s].of
    BY <1>1, <1>2 DEF Attempt
<1>4. step' = [step EXCEPT ![s] = q]
    BY <1>2 DEF Timeout
<1>5. Becomes(Now) /\ Good(Now, Using) /\ Now.entry = entry
    BY NowFacts DEF Timeout, Becomes, Now, cache
<1>6. Attempts' /\ CacheGood' /\ entry' = entry /\ step'[s] = q /\ \A t \in Steps : t # s => step'[t] = step[t]
    <2>1. /\ q.at = None <=> q.pc \in {"none", "acquire"}
          /\ q.pc # "none" => q.of \in Ids
          /\ q.pc = "none" => ~q.live
        BY <1>1, <1>3
    <2> QED
        BY <1>3, <1>4, <1>5, <2>1, StayKeeps
<1>7. \A t \in Steps : step'[t].at = step[t].at /\ step'[t].pc = step[t].pc
    BY <1>3, <1>6
<1>8. Locks'
    BY <1>6, <1>7, LocksStay
<1>9. Types'
    <2>1. wf' \in [Ids -> Workflow]
        BY <1>1, FailsKept DEF Timeout, IInv
    <2> QED
        BY <2>1 DEF Timeout, IInv, Types
<1> QED
    BY <1>6, <1>8, <1>9 DEF IInv

LEMMA RekeyKeeps ==
    ASSUME IInv, NEW id \in Ids, NEW k \in Keys, Rekey(id, k)
    PROVE  IInv'
<1>1. Types'
    BY DEF Rekey, IInv, Types
<1>2. Becomes(Now) /\ SameLocks(Now, Now) /\ Good(Now, Using)
    BY NowFacts DEF Rekey, Becomes, Now, cache, SameLocks
<1>3. Attempts' /\ CacheGood' /\ Locks'
    BY <1>2, CacheKeeps DEF Rekey
<1> QED
    BY <1>1, <1>3 DEF IInv

LEMMA Invariance == IInv /\ [Next]_vars => IInv'
<1> SUFFICES ASSUME IInv, [Next]_vars PROVE IInv'
    OBVIOUS
<1>1. ASSUME NEW s \in Steps, StepGoes(s) PROVE IInv'
    BY <1>1, AcquireKeeps, AcquiredKeeps, RLockKeeps, CheckKeeps, TrySyncKeeps, SyncKeeps,
       EndReadKeeps, TryCommitKeeps, ApplyKeeps, SaveKeeps DEF StepGoes
<1>2. ASSUME NEW s \in Steps, Timeout(s) PROVE IInv'
    BY <1>2, TimeoutKeeps
<1>3. ASSUME NEW e \in Slots, Built(e) \/ Timer(e) \/ Closed(e) PROVE IInv'
    BY <1>3, BuiltKeeps, TimerKeeps, ClosedKeeps
<1>4. ASSUME NEW s \in Steps, NEW id \in Ids, Read(s, id) \/ Commit(s, id) \/ Retry(s, id) PROVE IInv'
    BY <1>4, WorkflowKeeps
<1>5. ASSUME NEW id \in Ids, Close(id) PROVE IInv'
    BY <1>5, CloseKeeps
<1>6. ASSUME NEW id \in Ids, NEW k \in Keys, Rekey(id, k) PROVE IInv'
    BY <1>6, RekeyKeeps
<1>7. CASE UNCHANGED vars
    <2>1. Types'
        BY <1>7 DEF vars, IInv, Types
    <2>2. Becomes(Now) /\ SameLocks(Now, Now) /\ Good(Now, Using)
        BY <1>7, NowFacts DEF vars, Becomes, Now, cache, SameLocks
    <2>3. Attempts' /\ CacheGood' /\ Locks'
        BY <1>7, <2>2, CacheKeeps DEF vars
    <2> QED
        BY <2>1, <2>3 DEF IInv
<1> QED
    BY <1>1, <1>2, <1>3, <1>4, <1>5, <1>6, <1>7 DEF Next

LEMMA Initial == Init => IInv
<1> SUFFICES ASSUME Init PROVE IInv
    OBVIOUS
<1>1. Types
    <2>1. (CHOOSE k \in Keys : TRUE) \in Keys
        BY ConstantsOK
    <2>2. <<>> \in Seq(Nat)
        OBVIOUS
    <2> QED
        BY <2>1, <2>2 DEF Init, Types, Workflow
<1>2. Attempts
    BY Constants DEF Init, Attempts
<1>3. CacheGood
    <2>1. Now \in Cache
        <3>1. <<>> \in Seq(Slots)
            OBVIOUS
        <3> QED
            BY <3>1, Constants DEF Init, Now, Cache
    <2>2. \A e \in Slots : Using[e] = {}
        BY Constants DEF Init, Using, InUse
    <2>3. Cardinality({}) = 0
        BY FS_EmptySet
    <2>4. /\ NoEntry.users = 0 /\ NoEntry.closes = 0 /\ ~NoEntry.closed /\ NoEntry.of = None
        BY DEF NoEntry
    <2>5. Now.byID = [id \in Ids |-> None] /\ Now.unused = <<>> /\ Now.entry = [e \in Slots |-> NoEntry]
        BY DEF Init, Now
    <2>6. \A e : ~In(e, Now.unused)
        BY <2>5, OneElement
    <2>7. \A id \in Ids : Now.byID[id] = None
        BY <2>5
    <2>8. ASSUME NEW e \in Slots
          PROVE  /\ Now.entry[e].users = Cardinality(Using[e])
                 /\ Now.entry[e].closes <= 1 /\ ~Now.entry[e].closed
                 /\ Now.entry[e].closes = 1 => Now.entry[e].gone /\ Using[e] = {}
                 /\ Now.entry[e].of = None => Now.entry[e] = NoEntry
                 /\ Now.entry[e].of # None => (Now.entry[e].gone <=> Now.byID[Now.entry[e].of] # e)
                 /\ In(e, Now.unused) => Now.entry[e].of # None /\ ~Now.entry[e].gone
        <3>1. Now.entry[e] = NoEntry /\ Using[e] = {}
            BY <2>2, <2>5
        <3>2. Now.entry[e].users = Cardinality(Using[e])
            BY <2>3, <2>4, <3>1
        <3>3. Now.entry[e].closes = 0 /\ ~Now.entry[e].closed /\ Now.entry[e].of = None
            BY <2>4, <3>1
        <3> QED
            BY <2>6, <3>1, <3>2, <3>3
    <2> QED
        BY <2>1, <2>7, <2>8 DEF CacheGood, Good
<1>4. Locks
    BY Constants DEF Init, Locks, Reading, Writing
<1> QED
    BY <1>1, <1>2, <1>3, <1>4 DEF IInv

LEMMA Safety == IInv => HarnessesSafe
<1> SUFFICES ASSUME IInv PROVE HarnessesSafe
    OBVIOUS
<1>1. /\ Good(Now, Using) /\ Using \in [Slots -> SUBSET Steps] /\ Now.entry = entry /\ Now.byID = byID
      /\ entry \in [Slots -> Entry] /\ byID \in [Ids -> Slots \cup {None}]
    BY NowFacts
<1>2. \A e \in Slots : Using[e] = InUse(e)
    BY DEF Using
<1>3. TypeOK
    <2>1. \A id \in Ids : byID[id] \in Slots \cup {None} /\ saved[id].gen \in Nat
        BY <1>1 DEF IInv, Types
    <2>2. \A e \in Slots : entry[e].users = Cardinality(Using[e]) /\ Using[e] \in SUBSET Steps
        BY <1>1 DEF Good
    <2>3. \A e \in Slots : entry[e].users \in 0..Cardinality(Steps)
        BY <2>2, UsersOfNone
    <2>4. \A e \in Slots : entry[e].readers \subseteq Steps /\ entry[e].writer \in Steps \cup {None}
        BY <1>1 DEF Entry
    <2>5. \A id \in Ids : wf[id].phase \in {"open", "commit", "retry", "closed"}
        BY DEF IInv, Types, Workflow
    <2> QED
        BY <2>1, <2>3, <2>4, <2>5 DEF TypeOK
<1>4. ClosedUnused
    <2> SUFFICES ASSUME NEW e \in Slots
                 PROVE  /\ entry[e].users = Cardinality(InUse(e))
                        /\ entry[e].closes <= 1 /\ ~entry[e].closed
                        /\ entry[e].closes = 1 => entry[e].gone /\ InUse(e) = {}
                        /\ entry[e] # NoEntry => (entry[e].gone <=> byID[entry[e].of] # e)
        BY DEF ClosedUnused
    <2> QED
        BY <1>1, <1>2 DEF Good
<1>5. Alone
    <2> SUFFICES ASSUME NEW e \in Slots, entry[e].writer # None
                 PROVE  /\ entry[e].readers = {}
                        /\ \A s \in InUse(e) : step[s].pc \in {"sync", "commit", "save"} => s = entry[e].writer
        BY DEF Alone
    <2> QED
        BY DEF IInv, Locks, InUse, Writing
<1> QED
    BY <1>3, <1>4, <1>5 DEF HarnessesSafe

\* A harness is closed once, when it is out of the cache and the last step on it
\* has let go; a step never holds a closed one; and a checkpoint is written by
\* one step while no other reads or writes it (acquire, release, drop, rlock
\* and the TryLocks of a Commit and a reload).
THEOREM HarnessesSafeAlways == Spec => []HarnessesSafe
<1>1. Init /\ [][Next]_vars => []IInv
    BY Initial, Invariance, PTL
<1> QED
    BY <1>1, Safety, PTL DEF Spec

-----------------------------------------------------------------------------
(* What is committed.  The operators take the parts of the state they read, *)
(* so that a step may be taken in two.                                      *)

Checkpoint == [gen : Nat, rows : Seq(Nat)]

Committing(q) == q.pc # "none" /\ q.kind = "commit"
Pends(w)      == w.phase \in {"commit", "retry"}

\* The store's checkpoint sv of session id, the workflow's side w, and what the
\* workflow was told: a revision the workflow does not know of comes from a
\* Commit that failed for it, or that is still asked for.
StoreFits(id, sv, w, ak, lo, ex) ==
  /\ w.base <= sv.gen
  /\ \A j \in DOMAIN sv.rows : sv.rows[j] <= w.no
  /\ sv.gen = 0 => sv.rows = <<>>
  /\ \A m \in lo : m <= w.no /\ (Pends(w) => m < w.no)
  /\ sv.gen > w.base => (Pends(w) /\ In(w.no, sv.rows)) \/ \E m \in lo : In(m, sv.rows)
  /\ \A n \in ak : In(n, sv.rows) \/ \E m \in lo : m < n /\ In(m, sv.rows)
  /\ id \notin ex =>
       /\ Len(sv.rows) = sv.gen /\ Increasing(sv.rows)
       /\ Pends(w) => \A j \in DOMAIN sv.rows : sv.rows[j] >= w.no => j > w.base

\* An attempt q of a Commit: one that the workflow no longer asks for was given
\* up, or started from a revision before the workflow's, and the store holds no
\* later Commit up to that revision.
AttemptFits(q, sv, w, lo, ex) ==
  /\ q.no <= w.no /\ q.base <= w.base
  /\ q.live => q.no = w.no /\ q.base = w.base /\ w.phase = "commit"
  /\ q.no \in lo \/ (q.no = w.no /\ Pends(w)) \/ q.base < w.base
  /\ q.of \notin ex => \A j \in DOMAIN sv.rows : sv.rows[j] >= q.no => j > q.base

Stored(sv, w, ak, lo, ex, st) ==
  /\ \A id \in Ids : StoreFits(id, sv[id], w[id], ak[id], lo[id], ex)
  /\ \A s \in Steps : Committing(st[s]) =>
       AttemptFits(st[s], sv[st[s].of], w[st[s].of], lo[st[s].of], ex)
  /\ \A s, t \in Steps :
       Committing(st[s]) /\ st[s].live /\ Committing(st[t]) /\ st[t].live /\ st[s].of = st[t].of => s = t

Saves(st, t, e) == st[t].at = e /\ st[t].pc = "save"

\* A harness r in slot e that is at the store's revision holds its rows, and the
\* Commit that is being saved; after a save that failed it is stale and unused.
EntryFits(e, r, st, sv, w, ex) ==
  /\ r.rev <= sv.gen
  /\ \A j \in DOMAIN r.holds : r.holds[j] <= w.no
  /\ r.rev = sv.gen =>
       /\ Prefix(sv.rows, r.holds)
       /\ r.of \notin ex =>
            /\ \A t \in Steps : Saves(st, t, e) => r.holds = Append(sv.rows, st[t].no)
            /\ (\A t \in Steps : ~Saves(st, t, e)) =>
                 r.holds = sv.rows \/ (r.stale /\ \A t \in Steps : st[t].at # e)

\* A step and the harness r it uses.
UseFits(q, r, sv, ex) ==
  /\ r.of = q.of
  /\ q.pc = "save" => r.rev = q.base /\ r.stale /\ In(q.no, r.holds)
  /\ q.pc = "reading" /\ q.of \notin ex => Prefix(r.holds, sv.rows)

Fitted(en, st, sv, w, ex) ==
  /\ \A e \in Slots : en[e].of # None => EntryFits(e, en[e], st, sv[en[e].of], w[en[e].of], ex)
  /\ \A s \in Steps : st[s].at # None => UseFits(st[s], en[st[s].at], sv[st[s].of], ex)

\* Only a Commit writes.
Kinds(st) == \A s \in Steps : st[s].pc \in {"trylock", "commit", "save"} => st[s].kind = "commit"

Committed ==
  /\ acked \in [Ids -> SUBSET Nat] /\ lost \in [Ids -> SUBSET Nat]
  /\ Kinds(step)
  /\ Stored(saved, wf, acked, lost, exposed, step)
  /\ Fitted(entry, step, saved, wf, exposed)

-----------------------------------------------------------------------------
(* The store. *)

\* An attempt goes on as it was, gives up, or ends.
Fewer(st, st2) ==
  \A t \in Steps : Committing(st2[t]) =>
    /\ Committing(st[t]) /\ st2[t].of = st[t].of /\ st2[t].no = st[t].no /\ st2[t].base = st[t].base
    /\ st2[t].live => st[t].live

LEMMA FewerStored ==
    ASSUME NEW sv, NEW w, NEW ak, NEW lo, NEW ex, NEW st, NEW ex2, NEW st2,
           Stored(sv, w, ak, lo, ex, st), ex \subseteq ex2, Fewer(st, st2)
    PROVE  Stored(sv, w, ak, lo, ex2, st2)
<1>1. ASSUME NEW id \in Ids PROVE StoreFits(id, sv[id], w[id], ak[id], lo[id], ex2)
    BY DEF Stored, StoreFits
<1>2. ASSUME NEW s \in Steps, Committing(st2[s])
      PROVE  AttemptFits(st2[s], sv[st2[s].of], w[st2[s].of], lo[st2[s].of], ex2)
    <2>1. /\ Committing(st[s]) /\ st2[s].of = st[s].of /\ st2[s].no = st[s].no /\ st2[s].base = st[s].base
          /\ st2[s].live => st[s].live
        BY <1>2 DEF Fewer
    <2>2. AttemptFits(st[s], sv[st[s].of], w[st[s].of], lo[st[s].of], ex)
        BY <2>1 DEF Stored
    <2> QED
        BY <2>1, <2>2 DEF AttemptFits
<1>3. ASSUME NEW s \in Steps, NEW t \in Steps, Committing(st2[s]), st2[s].live, Committing(st2[t]), st2[t].live,
             st2[s].of = st2[t].of
      PROVE  s = t
    BY <1>3 DEF Stored, Fewer
<1> QED
    BY <1>1, <1>2, <1>3 DEF Stored

LEMMA PrefixElements ==
    ASSUME NEW x \in Seq(Nat), NEW y \in Seq(Nat), Prefix(x, y)
    PROVE  /\ Len(x) <= Len(y)
           /\ \A j \in DOMAIN x : j \in DOMAIN y /\ y[j] = x[j]
           /\ \A n : In(n, x) => In(n, y)
<1>1. PICK k, m : k = Len(x) /\ m = Len(y)
    OBVIOUS
<1>2. k \in Nat /\ m \in Nat /\ k <= m /\ DOMAIN x = 1..k /\ DOMAIN y = 1..m /\ x = SubSeq(y, 1, k)
    BY <1>1 DEF Prefix
<1>3. \A j \in 1..k : j \in 1..m /\ y[j] = x[j]
    BY <1>2
<1> QED
    BY <1>1, <1>2, <1>3 DEF In

LEMMA PrefixFacts ==
    /\ \A x \in Seq(Nat) : Prefix(x, x) /\ Prefix(<<>>, x)
    /\ \A x \in Seq(Nat) : \A n \in Nat : Prefix(x, Append(x, n))
    /\ \A x, y \in Seq(Nat) : \A n \in Nat : Prefix(x, y) => Prefix(x, Append(y, n))
<1>1. \A x \in Seq(Nat) : Prefix(x, x) /\ Prefix(<<>>, x)
    BY DEF Prefix
<1>2. \A x, y \in Seq(Nat) : \A n \in Nat : Prefix(x, y) => Prefix(x, Append(y, n))
    BY DEF Prefix
<1> QED
    BY <1>1, <1>2

\* A revision that the workflow of id does not know of holds a Commit that was
\* given up, or the one that it asks for.
LEMMA SaveStored ==
    ASSUME NEW sv \in [Ids -> Checkpoint], NEW w \in [Ids -> Workflow], NEW ak, NEW lo, NEW ex,
           NEW st \in [Steps -> Attempt], Stored(sv, w, ak, lo, ex, st),
           NEW s \in Steps, Committing(st[s]), NEW id \in Ids, st[s].of = id, sv[id].gen = st[s].base,
           NEW rows \in Seq(Nat), Prefix(sv[id].rows, rows), In(st[s].no, rows),
           \A j \in DOMAIN rows : rows[j] <= w[id].no,
           id \notin ex => rows = Append(sv[id].rows, st[s].no),
           lo \in [Ids -> SUBSET Nat], ak \in [Ids -> SUBSET Nat],
           \A t \in Steps : Committing(st[t]) => st[t].of \in Ids
    PROVE  Stored([sv EXCEPT ![id] = [gen |-> sv[id].gen + 1, rows |-> rows]], w, ak, lo, ex, st)
<1>1. PICK n, g, old : n = st[s].no /\ g = sv[id].gen /\ old = sv[id].rows
    OBVIOUS
<1>2. /\ n \in Nat /\ g \in Nat /\ old \in Seq(Nat) /\ w[id].no \in Nat /\ w[id].base \in Nat
      /\ lo[id] \in SUBSET Nat /\ ak[id] \in SUBSET Nat
    BY <1>1 DEF Attempt, Checkpoint, Workflow
<1>3. StoreFits(id, sv[id], w[id], ak[id], lo[id], ex) /\ AttemptFits(st[s], sv[id], w[id], lo[id], ex)
    BY DEF Stored
<1>4. /\ \A j \in DOMAIN old : j \in DOMAIN rows /\ rows[j] = old[j]
      /\ \A m : In(m, old) => In(m, rows)
    BY <1>1, <1>2, PrefixElements
<1>5. g = st[s].base /\ w[id].base = g
    <2>1. st[s].base <= w[id].base /\ w[id].base <= g
        BY <1>1, <1>3 DEF StoreFits, AttemptFits
    <2> QED
        BY <1>1, <1>2, <2>1
<1>6. PICK new : new = [gen |-> g + 1, rows |-> rows]
    OBVIOUS
<1>7. PICK sv2 : sv2 = [sv EXCEPT ![id] = new]
    OBVIOUS
<1>8. sv2[id] = new /\ \A i \in Ids : i # id => sv2[i] = sv[i]
    BY <1>7
<1>9. n \in lo[id] \/ (n = w[id].no /\ Pends(w[id]))
    BY <1>1, <1>2, <1>3, <1>5 DEF AttemptFits
<1>10. ASSUME id \notin ex
       PROVE  /\ Len(rows) = g + 1 /\ Len(old) = g /\ DOMAIN rows = 1..(g + 1) /\ DOMAIN old = 1..g
              /\ rows[g + 1] = n /\ (\A j \in 1..g : rows[j] = old[j] /\ old[j] < n) /\ Increasing(old)
    <2>1. Len(old) = g /\ Increasing(old) /\ \A j \in DOMAIN old : old[j] >= n => j > g
        BY <1>1, <1>3, <1>5, <1>10 DEF StoreFits, AttemptFits
    <2>2. rows = Append(old, n)
        BY <1>1, <1>10
    <2>3. /\ DOMAIN old = 1..g /\ Len(rows) = g + 1 /\ DOMAIN rows = 1..(g + 1) /\ rows[g + 1] = n
          /\ \A j \in 1..g : rows[j] = old[j] /\ old[j] \in Nat
        <3>1. /\ DOMAIN old = 1..Len(old) /\ Len(rows) = Len(old) + 1 /\ DOMAIN rows = 1..Len(rows)
              /\ rows[Len(old) + 1] = n /\ \A j \in 1..Len(old) : rows[j] = old[j] /\ old[j] \in Nat
            BY <1>2, <2>2
        <3> QED
            BY <2>1, <3>1
    <2>4. ASSUME NEW j \in 1..g PROVE old[j] < n
        <3>0. j \in DOMAIN old /\ old[j] \in Nat
            BY <2>3
        <3>1. ~(old[j] >= n)
            <4>1. old[j] >= n => j > g
                BY <2>1, <3>0
            <4> QED
                BY <1>2, <4>1
        <3> QED
            BY <1>2, <3>0, <3>1
    <2> QED
        BY <2>1, <2>3, <2>4
<1>11. StoreFits(id, new, w[id], ak[id], lo[id], ex)
    <2>1. w[id].base <= g + 1 /\ g + 1 # 0
        BY <1>2, <1>5
    <2>2. \A m \in lo[id] : m <= w[id].no /\ (Pends(w[id]) => m < w[id].no)
        BY <1>3 DEF StoreFits
    <2>3. (Pends(w[id]) /\ In(w[id].no, rows)) \/ \E m \in lo[id] : In(m, rows)
        <3>1. In(n, rows)
            BY <1>1
        <3> QED
            BY <1>9, <3>1, Zenon
    <2>4. \A a \in ak[id] : In(a, rows) \/ \E m \in lo[id] : m < a /\ In(m, rows)
        <3>1. \A a \in ak[id] : In(a, old) \/ \E m \in lo[id] : m < a /\ In(m, old)
            BY <1>1, <1>3 DEF StoreFits
        <3> QED
            BY <1>4, <3>1, Zenon
    <2>5. ASSUME id \notin ex
          PROVE  /\ Len(rows) = g + 1 /\ Increasing(rows)
                 /\ Pends(w[id]) => \A j \in DOMAIN rows : rows[j] >= w[id].no => j > w[id].base
        <3>1. Increasing(rows)
            <4>1. ASSUME NEW i \in 1..(g + 1), NEW j \in 1..(g + 1), i < j PROVE rows[i] < rows[j]
                <5>1. i \in 1..g
                    BY <1>2, <4>1
                <5>2. CASE j \in 1..g
                    BY <1>10, <2>5, <4>1, <5>1, <5>2 DEF Increasing
                <5>3. CASE j = g + 1
                    BY <1>10, <2>5, <5>1, <5>3
                <5> QED
                    BY <1>2, <5>2, <5>3
            <4> QED
                BY <1>10, <2>5, <4>1 DEF Increasing
        <3>2. ASSUME Pends(w[id]), NEW j \in DOMAIN rows, rows[j] >= w[id].no PROVE j > w[id].base
            <4>1. CASE j = g + 1
                BY <1>2, <1>5, <4>1
            <4>2. CASE j \in 1..g
                BY <1>1, <1>3, <1>10, <2>5, <3>2, <4>2 DEF StoreFits
            <4> QED
                BY <1>2, <1>10, <2>5, <4>1, <4>2
        <3> QED
            BY <1>10, <2>5, <3>1, <3>2
    <2> QED
        BY <1>2, <1>6, <2>1, <2>2, <2>3, <2>4, <2>5 DEF StoreFits
<1>12. ASSUME NEW i \in Ids PROVE StoreFits(i, sv2[i], w[i], ak[i], lo[i], ex)
    BY <1>8, <1>11 DEF Stored
<1>13. ASSUME NEW t \in Steps, Committing(st[t])
       PROVE  AttemptFits(st[t], sv2[st[t].of], w[st[t].of], lo[st[t].of], ex)
    <2>1. AttemptFits(st[t], sv[st[t].of], w[st[t].of], lo[st[t].of], ex) /\ st[t].of \in Ids
        BY <1>13 DEF Stored
    <2>2. CASE st[t].of # id
        BY <1>8, <2>1, <2>2
    <2>3. CASE st[t].of = id
        <3>1. ASSUME id \notin ex, NEW j \in DOMAIN rows, rows[j] >= st[t].no PROVE j > st[t].base
            <4>1. st[t].base <= w[id].base /\ st[t].base \in Nat
                BY <2>1, <2>3 DEF AttemptFits, Attempt
            <4>2. CASE j = g + 1
                BY <1>2, <1>5, <4>1, <4>2
            <4>3. CASE j \in 1..g
                BY <1>1, <1>10, <2>1, <2>3, <3>1, <4>3 DEF AttemptFits
            <4> QED
                BY <1>2, <1>10, <3>1, <4>2, <4>3
        <3> QED
            BY <1>6, <1>8, <2>1, <2>3, <3>1 DEF AttemptFits
    <2> QED
        BY <2>2, <2>3
<1> HIDE DEF Committing
<1>14. \A t, u \in Steps :
         Committing(st[t]) /\ st[t].live /\ Committing(st[u]) /\ st[u].live /\ st[t].of = st[u].of => t = u
    BY DEF Stored
<1>15. Stored(sv2, w, ak, lo, ex, st)
    BY <1>12, <1>13, <1>14 DEF Stored
<1> QED
    BY <1>1, <1>6, <1>7, <1>15

\* What the workflow hears when an attempt fails.
LEMMA FailsStored ==
    ASSUME Types, acked \in [Ids -> SUBSET Nat], lost \in [Ids -> SUBSET Nat], Attempts,
           NEW sv, Stored(sv, wf, acked, lost, exposed, step), NEW s \in Steps, step[s].of \in Ids,
           NEW again, Fails(s, again), Fewer(step, step'), Committing(step'[s]) => ~step'[s].live,
           exposed \subseteq exposed'
    PROVE  /\ Stored(sv, wf', acked', lost', exposed', step')
           /\ acked' \in [Ids -> SUBSET Nat] /\ lost' \in [Ids -> SUBSET Nat]
           /\ \A i \in Ids : wf'[i].no = wf[i].no
<1>1. acked' = acked /\ acked' \in [Ids -> SUBSET Nat]
    BY DEF Fails
<1>2. CASE ~Heard(s)
    <2>1. wf' = wf /\ lost' = lost
        BY <1>2 DEF Fails
    <2>2. Stored(sv, wf, acked, lost, exposed', step')
        BY FewerStored
    <2> QED
        BY <1>1, <2>1, <2>2
<1>3. CASE Heard(s)
    <2>1. PICK id, n : id = step[s].of /\ n = step[s].no
        OBVIOUS
    <2>2. Committing(step[s]) /\ step[s].live /\ id \in Ids /\ n \in Nat /\ step[s] \in Attempt
        BY <1>3, <2>1 DEF Heard, Committing, Attempts, Attempt
    <2>3. /\ wf[id] \in Workflow /\ wf[id].no \in Nat /\ wf \in [Ids -> Workflow]
          /\ lost[id] \in SUBSET Nat
        BY <2>2 DEF Types, Workflow
    <2>4. n = wf[id].no /\ wf[id].phase = "commit" /\ step[s].base = wf[id].base
        BY <2>1, <2>2 DEF Stored, AttemptFits
    <2>5. \/ wf' = [wf EXCEPT ![id].phase = "retry"] /\ lost' = lost
          \/ wf' = [wf EXCEPT ![id].phase = "open", ![id].tries = 0] /\ lost' = [lost EXCEPT ![id] = @ \cup {n}]
        BY <1>3, <2>1 DEF Fails
    <2>6. /\ wf'[id].no = wf[id].no /\ wf'[id].base = wf[id].base /\ wf'[id].phase \in {"open", "retry"}
          /\ \A i \in Ids : i # id => wf'[i] = wf[i] /\ lost'[i] = lost[i]
          /\ lost' \in [Ids -> SUBSET Nat]
          /\ wf'[id].phase = "retry" => lost'[id] = lost[id]
          /\ wf'[id].phase = "open" => lost'[id] = lost[id] \cup {n}
        <3>1. CASE wf' = [wf EXCEPT ![id].phase = "retry"] /\ lost' = lost
            BY <2>2, <2>3, <3>1 DEF Workflow
        <3>2. CASE wf' = [wf EXCEPT ![id].phase = "open", ![id].tries = 0] /\ lost' = [lost EXCEPT ![id] = @ \cup {n}]
            BY <2>2, <2>3, <3>2 DEF Workflow
        <3> QED
            BY <2>5, <3>1, <3>2
    <2>7. StoreFits(id, sv[id], wf[id], acked[id], lost[id], exposed)
        BY <2>2 DEF Stored
    <2>8. StoreFits(id, sv[id], wf'[id], acked[id], lost'[id], exposed')
        <3>1. CASE wf'[id].phase = "retry"
            BY <2>3, <2>4, <2>6, <2>7, <3>1 DEF StoreFits, Pends
        <3>2. CASE wf'[id].phase = "open"
            <4>1. ~Pends(wf'[id]) /\ Pends(wf[id])
                BY <2>4, <3>2 DEF Pends
            <4>2. \A m \in lost'[id] : m <= wf'[id].no
                BY <2>3, <2>4, <2>6, <2>7, <3>2 DEF StoreFits
            <4>3. sv[id].gen > wf'[id].base => \E m \in lost'[id] : In(m, sv[id].rows)
                BY <2>4, <2>6, <2>7, <3>2 DEF StoreFits
            <4>4. \A a \in acked[id] : In(a, sv[id].rows) \/ \E m \in lost'[id] : m < a /\ In(m, sv[id].rows)
                BY <2>6, <2>7, <3>2 DEF StoreFits
            <4> QED
                BY <2>6, <2>7, <4>1, <4>2, <4>3, <4>4 DEF StoreFits
        <3> QED
            BY <2>6, <3>1, <3>2
    <2>9. ASSUME NEW i \in Ids PROVE StoreFits(i, sv[i], wf'[i], acked[i], lost'[i], exposed')
        <3>1. CASE i = id
            BY <2>8, <3>1
        <3>2. CASE i # id
            BY <2>6, <3>2 DEF Stored, StoreFits
        <3> QED
            BY <3>1, <3>2
    <2>10. ASSUME NEW t \in Steps, Committing(step'[t])
           PROVE  AttemptFits(step'[t], sv[step'[t].of], wf'[step'[t].of], lost'[step'[t].of], exposed')
        <3>1. /\ Committing(step[t]) /\ step'[t].of = step[t].of /\ step'[t].no = step[t].no
              /\ step'[t].base = step[t].base /\ (step'[t].live => step[t].live)
              /\ step[t].of \in Ids
            BY <2>10 DEF Fewer, Attempts, Committing
        <3>2. AttemptFits(step[t], sv[step[t].of], wf[step[t].of], lost[step[t].of], exposed)
            BY <3>1 DEF Stored
        <3>3. CASE step[t].of # id
            BY <2>6, <3>1, <3>2, <3>3 DEF AttemptFits
        <3>4. CASE step[t].of = id
            <4>1. ~step'[t].live
                <5>1. step'[t].live => t = s
                    BY <2>1, <2>2, <3>1, <3>4 DEF Stored
                <5> QED
                    BY <2>10, <5>1
            <4>2. step[t].no \in lost'[id] \/ (step[t].no = wf'[id].no /\ Pends(wf'[id])) \/ step[t].base < wf'[id].base
                BY <2>4, <2>6, <3>2, <3>4 DEF AttemptFits, Pends
            <4> QED
                BY <2>6, <3>1, <3>2, <3>4, <4>1, <4>2 DEF AttemptFits
        <3> QED
            BY <3>3, <3>4
    <2>11. ASSUME NEW t \in Steps, NEW u \in Steps, Committing(step'[t]), step'[t].live,
                  Committing(step'[u]), step'[u].live, step'[t].of = step'[u].of
           PROVE  t = u
        BY <2>11 DEF Stored, Fewer
    <2>12. Stored(sv, wf', acked, lost', exposed', step')
        BY <2>9, <2>10, <2>11 DEF Stored
    <2> QED
        BY <1>1, <2>6, <2>12
<1> QED
    BY <1>2, <1>3

\* What it hears when one saved, or found that an earlier one did.
LEMMA AnswersStored ==
    ASSUME Types, acked \in [Ids -> SUBSET Nat], lost \in [Ids -> SUBSET Nat], Attempts,
           NEW sv \in [Ids -> Checkpoint], Stored(sv, wf, acked, lost, exposed, step), NEW s \in Steps, step[s].of \in Ids,
           Answers(s, sv[step[s].of].gen), sv[step[s].of].gen # step[s].base, step[s].kind = "commit",
           Fewer(step, step'), Committing(step'[s]) => ~step'[s].live, exposed' = exposed
    PROVE  /\ Stored(sv, wf', acked', lost', exposed', step')
           /\ acked' \in [Ids -> SUBSET Nat] /\ lost' \in [Ids -> SUBSET Nat]
           /\ \A i \in Ids : wf'[i].no = wf[i].no
<1>1. lost' = lost /\ lost' \in [Ids -> SUBSET Nat]
    BY DEF Answers
<1>2. CASE ~Heard(s)
    <2>1. wf' = wf /\ acked' = acked
        BY <1>2 DEF Answers
    <2>2. Stored(sv, wf, acked, lost, exposed', step')
        BY FewerStored
    <2> QED
        BY <1>1, <2>1, <2>2
<1>3. CASE Heard(s)
    <2>1. PICK id, n, g : id = step[s].of /\ n = step[s].no /\ g = sv[id].gen
        OBVIOUS
    <2>2. /\ Committing(step[s]) /\ step[s].live /\ id \in Ids /\ n \in Nat /\ step[s].base \in Nat /\ g \in Nat
          /\ g # step[s].base
        BY <1>3, <2>1 DEF Heard, Committing, Attempts, Attempt, Checkpoint
    <2>3. wf[id].no \in Nat /\ wf[id].base \in Nat /\ wf \in [Ids -> Workflow] /\ acked[id] \in SUBSET Nat /\ lost[id] \in SUBSET Nat
        BY <2>2 DEF Types, Workflow
    <2>4. n = wf[id].no /\ wf[id].phase = "commit" /\ step[s].base = wf[id].base
        BY <2>1, <2>2 DEF Stored, AttemptFits
    <2>5. /\ wf' = [wf EXCEPT ![id].phase = "open", ![id].base = g, ![id].tries = 0]
          /\ acked' = [acked EXCEPT ![id] = @ \cup {n}]
        BY <1>3, <2>1 DEF Answers
    <2>6. /\ wf'[id].no = wf[id].no /\ wf'[id].base = g /\ wf'[id].phase = "open" /\ ~Pends(wf'[id])
          /\ \A i \in Ids : i # id => wf'[i] = wf[i] /\ acked'[i] = acked[i]
          /\ acked' \in [Ids -> SUBSET Nat] /\ acked'[id] = acked[id] \cup {n}
        BY <2>2, <2>3, <2>5 DEF Workflow, Pends
    <2>7. StoreFits(id, sv[id], wf[id], acked[id], lost[id], exposed)
        BY <2>2 DEF Stored
    <2>8. g > wf[id].base
        <3>1. wf[id].base <= sv[id].gen
            BY <2>7 DEF StoreFits
        <3> QED
            BY <2>1, <2>2, <2>3, <2>4, <3>1
    <2>9. StoreFits(id, sv[id], wf'[id], acked'[id], lost[id], exposed')
        <3>1. In(n, sv[id].rows) \/ \E m \in lost[id] : m < n /\ In(m, sv[id].rows)
            <4>1. Pends(wf[id])
                BY <2>4 DEF Pends
            <4> QED
                BY <2>1, <2>4, <2>7, <2>8, <4>1 DEF StoreFits
        <3>2. \A a \in acked'[id] : In(a, sv[id].rows) \/ \E m \in lost[id] : m < a /\ In(m, sv[id].rows)
            BY <2>6, <2>7, <3>1 DEF StoreFits
        <3>3. wf'[id].base <= sv[id].gen /\ ~(sv[id].gen > wf'[id].base)
            BY <2>1, <2>2, <2>6
        <3> QED
            BY <2>6, <2>7, <3>2, <3>3 DEF StoreFits
    <2>10. ASSUME NEW i \in Ids PROVE StoreFits(i, sv[i], wf'[i], acked'[i], lost[i], exposed')
        <3>1. CASE i = id
            BY <2>9, <3>1
        <3>2. CASE i # id
            BY <2>6, <3>2 DEF Stored
        <3> QED
            BY <3>1, <3>2
    <2>11. ASSUME NEW t \in Steps, Committing(step'[t])
           PROVE  AttemptFits(step'[t], sv[step'[t].of], wf'[step'[t].of], lost[step'[t].of], exposed')
        <3>1. /\ Committing(step[t]) /\ step'[t].of = step[t].of /\ step'[t].no = step[t].no
              /\ step'[t].base = step[t].base /\ (step'[t].live => step[t].live)
              /\ step[t].of \in Ids /\ step[t].base \in Nat
            BY <2>11 DEF Fewer, Attempts, Attempt, Committing
        <3>2. AttemptFits(step[t], sv[step[t].of], wf[step[t].of], lost[step[t].of], exposed)
            BY <3>1 DEF Stored
        <3>3. CASE step[t].of # id
            BY <2>6, <3>1, <3>2, <3>3 DEF AttemptFits
        <3>4. CASE step[t].of = id
            <4>1. ~step'[t].live
                <5>1. step'[t].live => t = s
                    BY <2>1, <2>2, <3>1, <3>4 DEF Stored
                <5> QED
                    BY <2>11, <5>1
            <4>2. step[t].base < g /\ step[t].base <= g
                <5>1. step[t].base <= wf[id].base
                    BY <3>2, <3>4 DEF AttemptFits
                <5> QED
                    BY <2>2, <2>3, <2>8, <3>1, <5>1
            <4> QED
                BY <2>6, <3>1, <3>2, <3>4, <4>1, <4>2 DEF AttemptFits
        <3> QED
            BY <3>3, <3>4
    <2>12. ASSUME NEW t \in Steps, NEW u \in Steps, Committing(step'[t]), step'[t].live,
                  Committing(step'[u]), step'[u].live, step'[t].of = step'[u].of
           PROVE  t = u
        BY <2>12 DEF Stored, Fewer
    <2>13. Stored(sv, wf', acked', lost, exposed', step')
        BY <2>10, <2>11, <2>12 DEF Stored
    <2> QED
        BY <1>1, <2>6, <2>13
<1> QED
    BY <1>2, <1>3

\* An attempt of a Commit starts: of the next one, or again of the last.
LEMMA StartStored ==
    ASSUME Types, lost \in [Ids -> SUBSET Nat], Attempts, Stored(saved, wf, acked, lost, exposed, step),
           NEW s \in Steps, NEW id \in Ids, NEW p \in Workflow, wf' = [wf EXCEPT ![id] = p],
           p.phase = "commit", p.base = wf[id].base,
           \/ wf[id].phase = "open" /\ ~Waits(id) /\ p.no = wf[id].no + 1
           \/ wf[id].phase = "retry" /\ p.no = wf[id].no,
           NEW q, step' = [step EXCEPT ![s] = q], q.of = id, q.no = p.no, q.base = p.base
    PROVE  Stored(saved, wf', acked, lost, exposed, step')
<1>1. /\ wf[id] \in Workflow /\ wf[id].no \in Nat /\ wf[id].base \in Nat /\ wf \in [Ids -> Workflow]
      /\ lost[id] \in SUBSET Nat /\ saved[id].gen \in Nat /\ saved[id].rows \in Seq(Nat)
    BY DEF Types, Workflow
<1>2. wf'[id] = p /\ \A i \in Ids : i # id => wf'[i] = wf[i]
    BY <1>1
<1>3. step'[s] = q /\ \A t \in Steps : t # s => step'[t] = step[t]
    BY DEF Attempts
<1>4. Pends(p) /\ wf[id].no <= p.no /\ (wf[id].phase = "open" => ~Pends(wf[id]) /\ p.no = wf[id].no + 1)
      /\ (wf[id].phase = "retry" => Pends(wf[id]) /\ p.no = wf[id].no)
    BY <1>1 DEF Pends
<1>5. StoreFits(id, saved[id], wf[id], acked[id], lost[id], exposed)
    BY DEF Stored
<1>6. \A j \in DOMAIN saved[id].rows : saved[id].rows[j] \in Nat
    BY <1>1
<1>7. ASSUME id \notin exposed, NEW j \in DOMAIN saved[id].rows, saved[id].rows[j] >= p.no
      PROVE  j > p.base
    <2>1. CASE wf[id].phase = "open"
        <3>1. saved[id].rows[j] <= wf[id].no
            BY <1>5 DEF StoreFits
        <3> QED
            BY <1>1, <1>4, <1>6, <1>7, <2>1, <3>1
    <2>2. CASE wf[id].phase = "retry"
        BY <1>4, <1>5, <1>7, <2>2 DEF StoreFits
    <2> QED
        BY <2>1, <2>2
<1>8. StoreFits(id, saved[id], p, acked[id], lost[id], exposed)
    <2>1. ASSUME NEW j \in DOMAIN saved[id].rows PROVE saved[id].rows[j] <= p.no
        <3>1. saved[id].rows[j] <= wf[id].no
            BY <1>5 DEF StoreFits
        <3> QED
            BY <1>1, <1>4, <1>6, <3>1
    <2>2. ASSUME NEW m \in lost[id] PROVE m < p.no
        <3>1. m <= wf[id].no /\ (Pends(wf[id]) => m < wf[id].no) /\ m \in Nat
            BY <1>1, <1>5 DEF StoreFits
        <3> QED
            BY <1>1, <1>4, <3>1
    <2>3. saved[id].gen > p.base => In(p.no, saved[id].rows) \/ \E m \in lost[id] : In(m, saved[id].rows)
        BY <1>4, <1>5 DEF StoreFits
    <2>4. p.no \in Nat
        BY DEF Workflow
    <2>5. \A m \in lost[id] : m <= p.no
        BY <1>1, <2>2, <2>4
    <2> QED
        BY <1>4, <1>5, <1>7, <2>1, <2>2, <2>3, <2>5 DEF StoreFits
<1>9. ASSUME NEW i \in Ids PROVE StoreFits(i, saved[i], wf'[i], acked[i], lost[i], exposed)
    <2>1. CASE i = id
        BY <1>2, <1>8, <2>1
    <2>2. CASE i # id
        BY <1>2, <2>2 DEF Stored
    <2> QED
        BY <2>1, <2>2
<1>10. ASSUME NEW t \in Steps, t # s, Committing(step[t]), step[t].of = id PROVE ~step[t].live
    <2>1. CASE wf[id].phase = "open"
        BY <1>4, <1>10, <2>1 DEF Waits
    <2>2. CASE wf[id].phase = "retry"
        <3>1. AttemptFits(step[t], saved[id], wf[id], lost[id], exposed)
            BY <1>10 DEF Stored
        <3> QED
            BY <2>2, <3>1 DEF AttemptFits
    <2> QED
        BY <2>1, <2>2
<1>11. ASSUME NEW t \in Steps, Committing(step'[t])
       PROVE  AttemptFits(step'[t], saved[step'[t].of], wf'[step'[t].of], lost[step'[t].of], exposed)
    <2>1. CASE t = s
        <3>1. q.no <= p.no /\ q.base <= p.base
            BY DEF Workflow
        <3> QED
            BY <1>2, <1>3, <1>4, <1>7, <2>1, <3>1 DEF AttemptFits
    <2>2. CASE t # s
        <3>1. /\ Committing(step[t]) /\ step'[t] = step[t] /\ step[t].of \in Ids /\ step[t].no \in Nat
              /\ AttemptFits(step[t], saved[step[t].of], wf[step[t].of], lost[step[t].of], exposed)
            BY <1>3, <1>11, <2>2 DEF Stored, Attempts, Attempt, Committing
        <3>2. CASE step[t].of # id
            BY <1>2, <3>1, <3>2
        <3>3. CASE step[t].of = id
            <4>1. ~step[t].live
                BY <1>10, <2>2, <3>1, <3>3
            <4>2. step[t].no <= p.no
                <5>1. step[t].no <= wf[id].no /\ p.no \in Nat
                    BY <3>1, <3>3 DEF AttemptFits, Workflow
                <5> QED
                    BY <1>1, <1>4, <3>1, <5>1
            <4>3. step[t].no \in lost[id] \/ (step[t].no = p.no /\ Pends(p)) \/ step[t].base < p.base
                BY <1>4, <3>1, <3>3 DEF AttemptFits
            <4>4. wf'[id] = p
                BY <1>2
            <4> QED
                BY <3>1, <3>3, <4>1, <4>2, <4>3, <4>4 DEF AttemptFits
        <3> QED
            BY <3>2, <3>3
    <2> QED
        BY <2>1, <2>2
<1>12. ASSUME NEW t \in Steps, NEW u \in Steps, Committing(step'[t]), step'[t].live,
              Committing(step'[u]), step'[u].live, step'[t].of = step'[u].of
       PROVE  t = u
    <2>1. CASE t # s /\ u # s
        BY <1>3, <1>12, <2>1 DEF Stored
    <2>2. CASE t = s /\ u # s
        BY <1>3, <1>10, <1>12, <2>2
    <2>3. CASE t # s /\ u = s
        BY <1>3, <1>10, <1>12, <2>3
    <2> QED
        BY <2>1, <2>2, <2>3
<1> QED
    BY <1>9, <1>11, <1>12 DEF Stored

LEMMA CloseStored ==
    ASSUME Types, Attempts, Stored(saved, wf, acked, lost, exposed, step),
           NEW id \in Ids, wf[id].phase = "open", wf' = [wf EXCEPT ![id].phase = "closed"]
    PROVE  Stored(saved, wf', acked, lost, exposed, step)
<1>1. wf[id] \in Workflow /\ wf \in [Ids -> Workflow]
    BY DEF Types
<1>2. /\ wf'[id].no = wf[id].no /\ wf'[id].base = wf[id].base /\ wf'[id].phase = "closed"
      /\ ~Pends(wf[id]) /\ ~Pends(wf'[id]) /\ \A i \in Ids : i # id => wf'[i] = wf[i]
    BY <1>1 DEF Workflow, Pends
<1>3. ASSUME NEW i \in Ids PROVE StoreFits(i, saved[i], wf'[i], acked[i], lost[i], exposed)
    <2>1. CASE i = id
        <3>1. StoreFits(id, saved[id], wf[id], acked[id], lost[id], exposed)
            BY DEF Stored
        <3>2. StoreFits(id, saved[id], wf'[id], acked[id], lost[id], exposed)
            BY <1>2, <3>1 DEF StoreFits
        <3> QED
            BY <2>1, <3>2
    <2>2. CASE i # id
        BY <1>2, <2>2 DEF Stored
    <2> QED
        BY <2>1, <2>2
<1>4. ASSUME NEW t \in Steps, Committing(step[t])
      PROVE  AttemptFits(step[t], saved[step[t].of], wf'[step[t].of], lost[step[t].of], exposed)
    <2>1. AttemptFits(step[t], saved[step[t].of], wf[step[t].of], lost[step[t].of], exposed) /\ step[t].of \in Ids
        BY <1>4 DEF Stored, Attempts, Committing
    <2> QED
        BY <1>2, <2>1 DEF AttemptFits
<1> QED
    BY <1>3, <1>4 DEF Stored

-----------------------------------------------------------------------------
(* The harnesses. *)

\* The fields of an entry that say what it holds.
Kept(r, q) == q.of = r.of /\ q.rev = r.rev /\ q.holds = r.holds /\ q.stale = r.stale

\* An entry q that was built, or loaded from the store, while no step saves or
\* reads under it.
Fresh(q, e, st, sv) ==
  /\ q.of \in Ids
  /\ (q.rev = 0 /\ q.holds = <<>>) \/ (q.rev = sv[q.of].gen /\ q.holds = sv[q.of].rows)
  /\ \A t \in Steps : st[t].at = e => st[t].pc \notin {"save", "reading"}

\* A step goes on with its harness; q is the step after.
GoesOn(p, q) ==
  /\ q.at = p.at /\ q.of = p.of /\ q.no = p.no /\ q.base = p.base
  /\ q.pc \in {"save", "reading"} => q.pc = p.pc
  /\ p.pc = "save" => q.pc = "save"

\* A step takes the harness of slot q.at, which is r before: not a stale one
\* that nobody uses.
Joins(p, q, r, now, st) ==
  /\ p.pc # "save" /\ q.pc \notin {"save", "reading"} /\ now.of = q.of
  /\ r.stale => \E u \in Steps : st[u].at = q.at

Leaves(p, q) == q.at = None /\ p.pc # "save"

LEMMA StayFitted ==
    ASSUME NEW en \in [Slots -> Entry], NEW en2 \in [Slots -> Entry], NEW st \in [Steps -> Attempt],
           NEW st2 \in [Steps -> Attempt], NEW sv \in [Ids -> Checkpoint],
           NEW w \in [Ids -> Workflow], NEW w2 \in [Ids -> Workflow], NEW ex, NEW ex2, ex \subseteq ex2,
           Fitted(en, st, sv, w, ex),
           \A i \in Ids : /\ sv[i].gen = 0 => sv[i].rows = <<>>
                          /\ \A j \in DOMAIN sv[i].rows : sv[i].rows[j] <= w2[i].no
                          /\ w[i].no <= w2[i].no,
           \A e \in Slots : \/ Kept(en[e], en2[e])
                            \/ en2[e].of = None /\ \A t \in Steps : st2[t].at # e
                            \/ Fresh(en2[e], e, st2, sv),
           \A t \in Steps :
             \/ Leaves(st[t], st2[t])
             \/ GoesOn(st[t], st2[t]) /\ (st2[t].at # None => en2[st2[t].at].of = en[st2[t].at].of)
             \/ Joins(st[t], st2[t], en[st2[t].at], en2[st2[t].at], st)
    PROVE  Fitted(en2, st2, sv, w2, ex2)
<1>1. None \notin Ids /\ None \notin Slots
    BY Constants
<1>2. ASSUME NEW e \in Slots, en2[e].of # None
      PROVE  EntryFits(e, en2[e], st2, sv[en2[e].of], w2[en2[e].of], ex2)
    <2>1. PICK q, id, s : q = en2[e] /\ id = q.of /\ s = sv[id]
        OBVIOUS
    <2>2. /\ id \in Ids /\ q.rev \in Nat /\ q.holds \in Seq(Nat) /\ s.gen \in Nat /\ s.rows \in Seq(Nat)
          /\ w[id].no \in Nat /\ w2[id].no \in Nat /\ w[id].no <= w2[id].no
          /\ s.gen = 0 => s.rows = <<>>
          /\ \A j \in DOMAIN s.rows : s.rows[j] <= w2[id].no
        BY <1>2, <2>1 DEF Entry, Checkpoint, Workflow
    <2>3. CASE Fresh(q, e, st2, sv)
        <3>1. q.rev <= s.gen /\ (q.rev = s.gen => q.holds = s.rows) /\ \A j \in DOMAIN q.holds : q.holds[j] <= w2[id].no
            BY <2>1, <2>2, <2>3 DEF Fresh
        <3>2. Prefix(s.rows, s.rows)
            BY <2>2, PrefixFacts
        <3>3. \A t \in Steps : ~Saves(st2, t, e)
            BY <2>3 DEF Fresh, Saves
        <3> QED
            BY <2>1, <3>1, <3>2, <3>3 DEF EntryFits
    <2>4. CASE Kept(en[e], q) /\ ~Fresh(q, e, st2, sv)
        <3>1. EntryFits(e, en[e], st, s, w[id], ex)
            BY <1>2, <2>1, <2>4 DEF Fitted, Kept
        <3>2. \A j \in DOMAIN q.holds : q.holds[j] <= w2[id].no
            <4>1. \A j \in DOMAIN q.holds : q.holds[j] <= w[id].no /\ q.holds[j] \in Nat
                BY <2>2, <2>4, <3>1 DEF EntryFits, Kept
            <4> QED
                BY <2>2, <4>1
        <3>3. ASSUME NEW t \in Steps, Saves(st2, t, e) PROVE Saves(st, t, e) /\ st2[t].no = st[t].no
            BY <1>1, <3>3 DEF Saves, Leaves, GoesOn, Joins
        <3>4. ASSUME NEW t \in Steps, Saves(st, t, e) PROVE Saves(st2, t, e)
            BY <3>4 DEF Saves, Leaves, GoesOn, Joins
        <3>5. ASSUME q.rev = s.gen, id \notin ex2, \A t \in Steps : ~Saves(st2, t, e)
              PROVE  q.holds = s.rows \/ (q.stale /\ \A t \in Steps : st2[t].at # e)
            <4>1. q.holds = s.rows \/ (q.stale /\ \A t \in Steps : st[t].at # e)
                BY <2>1, <2>4, <3>1, <3>4, <3>5 DEF EntryFits, Kept
            <4>2. ASSUME q.stale, \A t \in Steps : st[t].at # e, NEW t \in Steps, st2[t].at = e PROVE q.holds = s.rows
                <5>1. Joins(st[t], st2[t], en[e], q, st)
                    BY <1>1, <2>1, <4>2 DEF Leaves, GoesOn
                <5> QED
                    BY <2>4, <4>2, <5>1 DEF Joins, Kept
            <4> QED
                BY <4>1, <4>2
        <3>6. q.rev <= s.gen /\ (q.rev = s.gen => Prefix(s.rows, q.holds))
            BY <2>4, <3>1 DEF EntryFits, Kept
        <3>7. ASSUME q.rev = s.gen, id \notin ex2, NEW t \in Steps, Saves(st2, t, e) PROVE q.holds = Append(s.rows, st2[t].no)
            <4>1. Saves(st, t, e) /\ st2[t].no = st[t].no
                BY <3>3, <3>7
            <4> QED
                BY <2>1, <2>4, <3>1, <3>7, <4>1 DEF EntryFits, Kept
        <3> QED
            BY <2>1, <3>2, <3>5, <3>6, <3>7 DEF EntryFits
    <2> QED
        BY <1>2, <2>1, <2>3, <2>4
<1>3. ASSUME NEW t \in Steps, st2[t].at # None
      PROVE  UseFits(st2[t], en2[st2[t].at], sv[st2[t].of], ex2)
    <2>1. PICK p, q, e : p = st[t] /\ q = st2[t] /\ e = q.at
        OBVIOUS
    <2>2. e \in Slots
        BY <1>3, <2>1 DEF Attempt
    <2>3. CASE Joins(p, q, en[e], en2[e], st)
        BY <2>1, <2>3 DEF Joins, UseFits
    <2>4. CASE GoesOn(p, q) /\ en2[e].of = en[e].of
        <3>1. UseFits(p, en[e], sv[q.of], ex) /\ p.at = e /\ p.of = q.of /\ p.no = q.no /\ p.base = q.base
            BY <1>3, <2>1, <2>4 DEF Fitted, GoesOn
        <3>2. q.pc \in {"save", "reading"} => q.pc = p.pc /\ Kept(en[e], en2[e])
            BY <1>3, <2>1, <2>2, <2>4 DEF Fresh, GoesOn
        <3> QED
            BY <2>1, <2>4, <3>1, <3>2 DEF UseFits, Kept
    <2> QED
        BY <1>3, <2>1, <2>3, <2>4 DEF Leaves
<1> QED
    BY <1>2, <1>3 DEF Fitted

-----------------------------------------------------------------------------
(* What the cache's operators leave. *)

\* All entries hold what they held.
SameHeld(c, d) == \A x \in Slots : Kept(c.entry[x], d.entry[x])

LEMMA SameHeldFacts ==
    /\ \A c : SameHeld(c, c)
    /\ \A c, d, b : SameHeld(c, d) /\ SameHeld(d, b) => SameHeld(c, b)
BY DEF SameHeld, Kept

LEMMA EntryHeld ==
    ASSUME NEW r \in Entry, NEW s
    PROVE  /\ Kept(r, Dropped(r)) /\ Kept(r, Released(r)) /\ Kept(r, Used(r))
           /\ Kept(r, [r EXCEPT !.readers = s]) /\ Kept(r, [r EXCEPT !.writer = s])
           /\ Kept(r, [r EXCEPT !.built = s])
<1>1. Kept(r, Dropped(r))
    BY DEF Entry, Kept, Dropped
<1>2. Kept(r, Released(r))
    BY DEF Entry, Kept, Released
<1>3. Kept(r, Used(r))
    BY DEF Entry, Kept, Used
<1>4. Kept(r, [r EXCEPT !.readers = s]) /\ Kept(r, [r EXCEPT !.writer = s]) /\ Kept(r, [r EXCEPT !.built = s])
    BY DEF Entry, Kept
<1> QED
    BY <1>1, <1>2, <1>3, <1>4

LEMMA OneHeld ==
    ASSUME NEW f \in [Slots -> Entry], NEW e \in Slots, NEW q, Kept(f[e], q)
    PROVE  \A x \in Slots : Kept(f[x], [f EXCEPT ![e] = q][x])
<1>1. \A x \in Slots : [f EXCEPT ![e] = q][x] = IF x = e THEN q ELSE f[x]
    OBVIOUS
<1> QED
    BY <1>1 DEF Kept

LEMMA CacheHeld ==
    ASSUME NEW c \in Cache, NEW e \in Slots, NEW s
    PROVE  /\ SameHeld(c, Drop(c, e)) /\ SameHeld(c, Release(c, e)) /\ SameHeld(c, Use(c, e))
           /\ SameHeld(c, RUnlock(c, e, s)) /\ SameHeld(c, Unlock(c, e))
<1>1. /\ c.entry \in [Slots -> Entry] /\ c.entry[e] \in Entry
      /\ c = [byID |-> c.byID, unused |-> c.unused, entry |-> c.entry]
    BY DEF Cache
<1>3. PICK r, d, l, u, h, w : /\ r = c.entry[e] /\ d = Dropped(r) /\ l = Released(r) /\ u = Used(r)
                              /\ h = [r EXCEPT !.readers = @ \ {s}] /\ w = [r EXCEPT !.writer = None]
    OBVIOUS
<1>4. Kept(r, d) /\ Kept(r, l) /\ Kept(r, u) /\ Kept(r, h) /\ Kept(r, w)
    <2>1. Kept(r, d) /\ Kept(r, l) /\ Kept(r, u)
        BY <1>1, <1>3, EntryHeld
    <2>2. Kept(r, h) /\ Kept(r, w)
        BY <1>1, <1>3 DEF Kept, Entry
    <2> QED
        BY <2>1, <2>2
<1>5. \A q : Kept(r, q) => \A x \in Slots : Kept(c.entry[x], [c.entry EXCEPT ![e] = q][x])
    BY <1>1, <1>3, OneHeld
<1>6. /\ Drop(c, e).entry = [c.entry EXCEPT ![e] = d]
      /\ Release(c, e).entry = [c.entry EXCEPT ![e] = l]
      /\ Use(c, e).entry = [c.entry EXCEPT ![e] = u]
      /\ RUnlock(c, e, s).entry = [c.entry EXCEPT ![e] = h]
      /\ Unlock(c, e).entry = [c.entry EXCEPT ![e] = w]
    <2>1. Drop(c, e).entry = [c.entry EXCEPT ![e] = d]
        <3>1. PICK id, n : id = c.entry[e].of /\ n = Without(c.unused, e)
            OBVIOUS
        <3>2. Drop(c, e) = [c EXCEPT !.byID[id] = IF @ = e THEN None ELSE @, !.unused = n, !.entry[e] = d]
            BY <1>1, <1>3, <3>1 DEF Drop
        <3> QED
            BY <1>1, <3>2
    <2>2. Release(c, e).entry = [c.entry EXCEPT ![e] = l]
        BY <1>1, <1>3 DEF Release
    <2>3. Use(c, e).entry = [c.entry EXCEPT ![e] = u]
        BY <1>1, <1>3 DEF Use
    <2>4. RUnlock(c, e, s) = With(c, e, h) /\ Unlock(c, e) = With(c, e, w)
        BY <1>3 DEF RUnlock, Unlock
    <2>5. With(c, e, h).entry = [c.entry EXCEPT ![e] = h] /\ With(c, e, w).entry = [c.entry EXCEPT ![e] = w]
        BY <1>1 DEF With
    <2> QED
        BY <2>1, <2>2, <2>3, <2>4, <2>5
<1> QED
    BY <1>4, <1>5, <1>6 DEF SameHeld

\* The same of the current state, and of the operators that are made of these.
LEMMA NowHeld ==
    ASSUME IInv, NEW s \in Steps, step[s].pc \notin {"none", "acquire"}
    PROVE  /\ SameHeld(Now, Replace(Now, step[s].at))
           /\ SameHeld(Now, RUnlock(Now, step[s].at, s))
           /\ step[s].pc \in Reading => SameHeld(Now, Release(RUnlock(Now, step[s].at, s), step[s].at))
           /\ step[s].pc \in Writing => SameHeld(Now, Release(Unlock(Now, step[s].at), step[s].at))
<1>1. PICK e : e = step[s].at
    OBVIOUS
<1>2. /\ e \in Slots /\ s \in Using[e] /\ entry[e].of # None /\ Good(Now, Using) /\ Now \in Cache
      /\ Now.entry = entry /\ Using \in [Slots -> SUBSET Steps]
    BY <1>1, AtHarness, NowFacts DEF Good
<1>3. Good(Drop(Now, e), Using)
    <2>1. Now.entry[e].of # None /\ Using[e] # {}
        BY <1>2
    <2> QED
        BY <1>2, <2>1, DropGood
<1>4. PICK d, u, w : d = Drop(Now, e) /\ u = RUnlock(Now, e, s) /\ w = Unlock(Now, e)
    OBVIOUS
<1>5. d \in Cache /\ u \in Cache /\ w \in Cache
    <2>1. Good(u, Using)
        BY <1>2, <1>4, RUnlockGood
    <2>2. Good(w, Using)
        BY <1>2, <1>4, UnlockGood
    <2> QED
        BY <1>3, <1>4, <2>1, <2>2 DEF Good
<1>6. SameHeld(Now, d) /\ SameHeld(Now, u) /\ SameHeld(Now, w)
    BY <1>2, <1>4, CacheHeld
<1>7. SameHeld(d, Release(d, e)) /\ SameHeld(u, Release(u, e)) /\ SameHeld(w, Release(w, e))
    BY <1>2, <1>5, CacheHeld
<1>8. SameHeld(Now, Release(d, e)) /\ SameHeld(Now, Release(u, e)) /\ SameHeld(Now, Release(w, e))
    BY <1>6, <1>7, SameHeldFacts
<1> QED
    BY <1>1, <1>4, <1>6, <1>8 DEF Replace

LEMMA RoomHeld ==
    ASSUME NEW c, NEW use, Good(c, use)
    PROVE  SameHeld(c, MakeRoom(c))
<1>1. CASE MakeRoom(c) = c
    BY <1>1, SameHeldFacts
<1>2. CASE MakeRoom(c) # c
    <2>1. PICK e : e = Head(c.unused)
        OBVIOUS
    <2>2. MakeRoom(c) = Drop(c, e) /\ c.unused # <<>> /\ c.unused \in Seq(Slots) /\ c \in Cache
        BY <1>2, <2>1 DEF MakeRoom, Good, Cache
    <2>3. e \in Slots
        BY <2>1, <2>2
    <2> QED
        BY <2>2, <2>3, CacheHeld
<1> QED
    BY <1>1, <1>2

-----------------------------------------------------------------------------
(* The steps. *)

LEMMA NextTypes ==
    ASSUME IInv'
    PROVE  /\ entry' \in [Slots -> Entry] /\ step' \in [Steps -> Attempt]
           /\ saved' \in [Ids -> Checkpoint] /\ wf' \in [Ids -> Workflow]
BY DEF IInv, CacheGood, Good, Cache, Now, Attempts, Types, Checkpoint

LEMMA NowTypes ==
    ASSUME IInv
    PROVE  /\ entry \in [Slots -> Entry] /\ step \in [Steps -> Attempt]
           /\ saved \in [Ids -> Checkpoint] /\ wf \in [Ids -> Workflow]
BY DEF IInv, CacheGood, Good, Cache, Now, Attempts, Types, Checkpoint

LEMMA StateFitted ==
    ASSUME IInv, IInv', Committed, saved' = saved, exposed \subseteq exposed',
           \A i \in Ids : wf[i].no <= wf'[i].no,
           \A e \in Slots : \/ Kept(entry[e], entry'[e])
                            \/ entry'[e].of = None /\ \A t \in Steps : step'[t].at # e
                            \/ Fresh(entry'[e], e, step', saved),
           \A t \in Steps :
             \/ Leaves(step[t], step'[t])
             \/ GoesOn(step[t], step'[t]) /\ (step'[t].at # None => entry'[step'[t].at].of = entry[step'[t].at].of)
             \/ Joins(step[t], step'[t], entry[step'[t].at], entry'[step'[t].at], step)
    PROVE  Fitted(entry', step', saved', wf', exposed')
<1>1. /\ entry \in [Slots -> Entry] /\ step \in [Steps -> Attempt]
      /\ saved \in [Ids -> Checkpoint] /\ wf \in [Ids -> Workflow]
    BY NowTypes
<1>2. entry' \in [Slots -> Entry] /\ step' \in [Steps -> Attempt] /\ wf' \in [Ids -> Workflow]
    BY NextTypes
<1>3. Fitted(entry, step, saved, wf, exposed)
    BY DEF Committed
<1>4. ASSUME NEW i \in Ids
      PROVE  /\ saved[i].gen = 0 => saved[i].rows = <<>>
             /\ \A j \in DOMAIN saved[i].rows : saved[i].rows[j] <= wf'[i].no
    <2>1. StoreFits(i, saved[i], wf[i], acked[i], lost[i], exposed)
        BY DEF Committed, Stored
    <2>2. wf[i].no \in Nat /\ wf'[i].no \in Nat /\ \A j \in DOMAIN saved[i].rows : saved[i].rows[j] \in Nat
        BY <1>1, <1>2 DEF Workflow, Checkpoint
    <2>3. ASSUME NEW j \in DOMAIN saved[i].rows PROVE saved[i].rows[j] <= wf'[i].no
        <3>1. saved[i].rows[j] <= wf[i].no
            BY <2>1 DEF StoreFits
        <3> QED
            BY <2>2, <3>1
    <2> QED
        BY <2>1, <2>3 DEF StoreFits
<1>5. Fitted(entry', step', saved, wf', exposed')
    BY <1>1, <1>2, <1>3, <1>4, StayFitted
<1> QED
    BY <1>5

\* No harness is loaded, written or taken.
LEMMA HeldFitted ==
    ASSUME IInv, IInv', Committed, saved' = saved, exposed \subseteq exposed',
           \A i \in Ids : wf[i].no <= wf'[i].no, \A x \in Slots : Kept(entry[x], entry'[x]),
           \A t \in Steps : Leaves(step[t], step'[t]) \/ GoesOn(step[t], step'[t])
    PROVE  Fitted(entry', step', saved', wf', exposed')
<1>1. \A t \in Steps : step'[t].at # None => step'[t].at \in Slots
    BY NextTypes DEF Attempt
<1>2. \A t \in Steps : step'[t].at # None => entry'[step'[t].at].of = entry[step'[t].at].of
    BY <1>1 DEF Kept
<1>3. \A t \in Steps :
             \/ Leaves(step[t], step'[t])
             \/ GoesOn(step[t], step'[t]) /\ (step'[t].at # None => entry'[step'[t].at].of = entry[step'[t].at].of)
    BY <1>2
<1> QED
    BY <1>3, StateFitted

\* A step goes on, or ends with nothing to say.
LEMMA QuietCommitted ==
    ASSUME IInv, IInv', Committed, UNCHANGED <<saved, wf, said>>, \A x \in Slots : Kept(entry[x], entry'[x]),
           NEW s \in Steps, NEW q, step' = [step EXCEPT ![s] = q], Leaves(step[s], q) \/ GoesOn(step[s], q),
           Committing(q) => /\ Committing(step[s]) /\ q.of = step[s].of /\ q.no = step[s].no
                            /\ q.base = step[s].base /\ (q.live => step[s].live),
           q.pc \in {"trylock", "commit", "save"} => q.kind = "commit"
    PROVE  Committed'
<1>1. step'[s] = q /\ \A t \in Steps : t # s => step'[t] = step[t]
    BY DEF IInv, Attempts
<1>2. Fewer(step, step') /\ Kinds(step')
    <2>1. Kinds(step)
        BY DEF Committed
    <2> QED
        BY <1>1, <2>1 DEF Fewer, Kinds
<1>3. Stored(saved', wf', acked', lost', exposed', step')
    BY <1>2, FewerStored DEF Committed, said
<1>4. \A t \in Steps : Leaves(step[t], step'[t]) \/ GoesOn(step[t], step'[t])
    BY <1>1 DEF GoesOn
<1>5. \A i \in Ids : wf[i].no <= wf'[i].no
    BY NowTypes DEF Workflow
<1>6. Fitted(entry', step', saved', wf', exposed')
    BY <1>4, <1>5, HeldFitted DEF said
<1> QED
    BY <1>2, <1>3, <1>6 DEF Committed, said

\* An attempt fails, or the workflow stops waiting for it.
LEMMA FailCommitted ==
    ASSUME IInv, IInv', Committed, saved' = saved, exposed' = exposed, \A x \in Slots : Kept(entry[x], entry'[x]),
           NEW s \in Steps, NEW q, step' = [step EXCEPT ![s] = q], Leaves(step[s], q) \/ GoesOn(step[s], q),
           Committing(q) => /\ Committing(step[s]) /\ q.of = step[s].of /\ q.no = step[s].no
                            /\ q.base = step[s].base,
           ~q.live, q.pc \in {"trylock", "commit", "save"} => q.kind = "commit",
           step[s].of \in Ids, NEW again, Fails(s, again)
    PROVE  Committed'
<1>1. step'[s] = q /\ \A t \in Steps : t # s => step'[t] = step[t]
    BY DEF IInv, Attempts
<1>2. Fewer(step, step') /\ Kinds(step') /\ ~step'[s].live
    <2>1. Kinds(step)
        BY DEF Committed
    <2> QED
        BY <1>1, <2>1 DEF Fewer, Kinds
<1>3. /\ Types /\ Attempts /\ acked \in [Ids -> SUBSET Nat] /\ lost \in [Ids -> SUBSET Nat]
      /\ Stored(saved, wf, acked, lost, exposed, step) /\ exposed \subseteq exposed'
    BY DEF IInv, Committed
<1>4. /\ Stored(saved, wf', acked', lost', exposed', step')
      /\ acked' \in [Ids -> SUBSET Nat] /\ lost' \in [Ids -> SUBSET Nat]
      /\ \A i \in Ids : wf'[i].no = wf[i].no
    BY <1>2, <1>3, FailsStored
<1>5. \A t \in Steps : Leaves(step[t], step'[t]) \/ GoesOn(step[t], step'[t])
    BY <1>1 DEF GoesOn
<1>6. \A i \in Ids : wf[i].no <= wf'[i].no
    BY <1>4, NowTypes DEF Workflow
<1>7. Fitted(entry', step', saved', wf', exposed')
    BY <1>5, <1>6, HeldFitted
<1> QED
    BY <1>2, <1>4, <1>7 DEF Committed

\* The next harness data after a change of the cache that leaves it.
LEMMA BecomesHeld ==
    ASSUME NEW d, Becomes(d), SameHeld(Now, d)
    PROVE  \A x \in Slots : Kept(entry[x], entry'[x])
BY DEF Becomes, SameHeld, Now

LEMMA NoStepFacts == NoStep.at = None /\ ~Committing(NoStep) /\ ~NoStep.live /\ NoStep.pc = "none"
BY Constants DEF Committing

LEMMA AcquiredCommitted ==
    ASSUME IInv, IInv', Committed, NEW s \in Steps, Acquired(s)
    PROVE  Committed'
<1>1. step[s] \in Attempt /\ step[s].pc = "wait" /\ step[s].of \in Ids
    BY DEF Acquired, IInv, Attempts
<1>2. CASE /\ step' = [step EXCEPT ![s].pc = IF step[s].kind = "read" THEN "rlock" ELSE "trylock"]
           /\ UNCHANGED <<cache, wf, acked, lost>>
    <2>1. PICK q, k : q = [step[s] EXCEPT !.pc = k] /\ k = IF step[s].kind = "read" THEN "rlock" ELSE "trylock"
        OBVIOUS
    <2>2. /\ q.at = step[s].at /\ q.of = step[s].of /\ q.no = step[s].no /\ q.base = step[s].base
          /\ q.live = step[s].live /\ q.kind = step[s].kind /\ q.pc = k
        BY <1>1, <2>1 DEF Attempt
    <2>3. step[s].kind \in {"read", "commit"}
        BY <1>1 DEF Attempt
    <2>4. step' = [step EXCEPT ![s] = q]
        BY <1>2, <2>1 DEF IInv, Attempts
    <2>5. GoesOn(step[s], q) /\ (Committing(q) => Committing(step[s]))
        BY <1>1, <2>1, <2>2 DEF GoesOn, Committing
    <2>6. q.pc \in {"trylock", "commit", "save"} => q.kind = "commit"
        BY <2>1, <2>2, <2>3
    <2>7. \A x \in Slots : Kept(entry[x], entry'[x])
        BY <1>2 DEF Kept, cache
    <2>8. UNCHANGED <<saved, wf, said>>
        BY <1>2 DEF Acquired, said
    <2>9. Committing(q) => /\ Committing(step[s]) /\ q.of = step[s].of /\ q.no = step[s].no
                           /\ q.base = step[s].base /\ (q.live => step[s].live)
        BY <2>2, <2>5
    <2> QED
        BY <2>4, <2>5, <2>6, <2>7, <2>8, <2>9, QuietCommitted
<1>3. CASE Becomes(Replace(Now, step[s].at)) /\ Ends(s) /\ \E again \in BOOLEAN : Fails(s, again)
    <2>1. \A x \in Slots : Kept(entry[x], entry'[x])
        BY <1>1, <1>3, NowHeld, BecomesHeld
    <2>2. Leaves(step[s], NoStep)
        BY <1>1, NoStepFacts DEF Leaves
    <2>3. step' = [step EXCEPT ![s] = NoStep] /\ saved' = saved /\ exposed' = exposed
        BY <1>3 DEF Ends, Acquired
    <2> QED
        BY <1>1, <1>3, <2>1, <2>2, <2>3, NoStepFacts, FailCommitted
<1> QED
    BY <1>2, <1>3 DEF Acquired

\* A step whose place alone changes.
LEMMA PlaceFacts ==
    ASSUME NEW s \in Steps, step[s] \in Attempt, step[s].pc # "none", step[s].pc # "save",
           NEW k, k \notin {"none", "trylock", "commit", "save", "reading"}
    PROVE  LET q == [step[s] EXCEPT !.pc = k]
           IN  /\ GoesOn(step[s], q)
               /\ Committing(q) => /\ Committing(step[s]) /\ q.of = step[s].of /\ q.no = step[s].no
                                   /\ q.base = step[s].base /\ (q.live => step[s].live)
               /\ q.pc \in {"trylock", "commit", "save"} => q.kind = "commit"
<1>1. PICK q : q = [step[s] EXCEPT !.pc = k]
    OBVIOUS
<1>2. /\ q.at = step[s].at /\ q.of = step[s].of /\ q.no = step[s].no /\ q.base = step[s].base
      /\ q.live = step[s].live /\ q.kind = step[s].kind /\ q.pc = k
    BY <1>1 DEF Attempt
<1> QED
    BY <1>1, <1>2 DEF GoesOn, Committing

LEMMA PlaceCommitted ==
    ASSUME IInv, IInv', Committed, UNCHANGED <<saved, wf, said>>, \A x \in Slots : Kept(entry[x], entry'[x]),
           NEW s \in Steps, step[s].pc # "none", step[s].pc # "save",
           NEW k, k \notin {"none", "trylock", "commit", "save", "reading"}, step' = [step EXCEPT ![s].pc = k]
    PROVE  Committed'
<1>1. step[s] \in Attempt
    BY DEF IInv, Attempts
<1>2. PICK q : q = [step[s] EXCEPT !.pc = k]
    OBVIOUS
<1>3. /\ GoesOn(step[s], q)
      /\ Committing(q) => /\ Committing(step[s]) /\ q.of = step[s].of /\ q.no = step[s].no
                          /\ q.base = step[s].base /\ (q.live => step[s].live)
      /\ q.pc \in {"trylock", "commit", "save"} => q.kind = "commit"
    BY <1>1, <1>2, PlaceFacts
<1>4. step' = [step EXCEPT ![s] = q]
    BY <1>2
<1> QED
    BY <1>3, <1>4, QuietCommitted

LEMMA RLockCommitted ==
    ASSUME IInv, IInv', Committed, NEW s \in Steps, RLock(s)
    PROVE  Committed'
<1>1. PICK e : e = step[s].at
    OBVIOUS
<1>2. e \in Slots /\ entry[e] \in Entry /\ entry \in [Slots -> Entry] /\ step[s].pc = "rlock"
    BY <1>1, AtHarness, NowTypes DEF RLock
<1>3. PICK h : h = [entry[e] EXCEPT !.readers = @ \cup {s}]
    OBVIOUS
<1>4. Kept(entry[e], h)
    BY <1>2, <1>3 DEF Kept, Entry
<1>5. entry' = [entry EXCEPT ![e] = h]
    BY <1>1, <1>3 DEF RLock
<1>6. \A x \in Slots : Kept(entry[x], entry'[x])
    BY <1>2, <1>4, <1>5, OneHeld
<1> QED
    BY <1>2, <1>6, PlaceCommitted DEF RLock

\* A step at one of these places ends, and its workflow hears that it failed.
LEMMA EndFails ==
    ASSUME IInv, IInv', Committed, saved' = saved, exposed' = exposed, \A x \in Slots : Kept(entry[x], entry'[x]),
           NEW s \in Steps, step[s].pc \notin {"none", "save"}, Ends(s), \E again \in BOOLEAN : Fails(s, again)
    PROVE  Committed'
<1>1. Leaves(step[s], NoStep) /\ step[s].of \in Ids
    BY NoStepFacts DEF Leaves, IInv, Attempts
<1>2. step' = [step EXCEPT ![s] = NoStep]
    BY DEF Ends
<1> QED
    BY <1>1, <1>2, NoStepFacts, FailCommitted

\* A step under the read lock finds its harness at the store's revision: it
\* reads the store's rows.
LEMMA CheckCommitted ==
    ASSUME IInv, IInv', Committed, NEW s \in Steps, Check(s)
    PROVE  Committed'
<1>1. PICK e : e = step[s].at
    OBVIOUS
<1>2. /\ e \in Slots /\ entry[e].of \in Ids /\ entry[e].of # None /\ step[s].pc = "check" /\ step[s] \in Attempt
      /\ step[s].of \in Ids /\ e # None /\ entry[e] \in Entry
    BY <1>1, AtHarness, NowTypes, Constants DEF Check, IInv, Attempts
<1>3. CASE /\ Current(e) /\ step' = [step EXCEPT ![s].pc = "reading"]
           /\ UNCHANGED <<cache, wf, acked, lost, troubles>>
    <2>1. PICK q : q = [step[s] EXCEPT !.pc = "reading"]
        OBVIOUS
    <2>2. /\ q.at = e /\ q.of = step[s].of /\ q.no = step[s].no /\ q.base = step[s].base
          /\ q.live = step[s].live /\ q.kind = step[s].kind /\ q.pc = "reading"
        BY <1>1, <1>2, <2>1 DEF Attempt
    <2>3. step' = [step EXCEPT ![s] = q] /\ step'[s] = q /\ \A t \in Steps : t # s => step'[t] = step[t]
        BY <1>3, <2>1 DEF IInv, Attempts
    <2>4. Fewer(step, step') /\ Kinds(step')
        <3>1. Kinds(step)
            BY DEF Committed
        <3>2. Committing(q) => Committing(step[s])
            BY <1>2, <2>2 DEF Committing
        <3> QED
            BY <2>2, <2>3, <3>1, <3>2 DEF Fewer, Kinds
    <2>5. UNCHANGED <<saved, wf, acked, lost, exposed, entry>>
        BY <1>3 DEF Check, cache
    <2>6. Stored(saved', wf', acked', lost', exposed', step')
        BY <2>4, <2>5, FewerStored DEF Committed
    <2>7. \A t \in Steps : \A x \in Slots : Saves(step', t, x) <=> Saves(step, t, x)
        BY <1>2, <2>2, <2>3 DEF Saves
    <2>8. \A t \in Steps : step'[t].at = step[t].at /\ step'[t].no = step[t].no
        BY <1>1, <2>2, <2>3
    <2>9. ASSUME NEW x \in Slots, entry[x].of # None
          PROVE  EntryFits(x, entry[x], step', saved[entry[x].of], wf[entry[x].of], exposed)
        <3>1. EntryFits(x, entry[x], step, saved[entry[x].of], wf[entry[x].of], exposed)
            BY <2>9 DEF Committed, Fitted
        <3> QED
            BY <2>7, <2>8, <3>1 DEF EntryFits
    <2>10. UseFits(step[s], entry[e], saved[step[s].of], exposed)
        BY <1>1, <1>2 DEF Committed, Fitted
    <2>11. ASSUME q.of \notin exposed PROVE Prefix(entry[e].holds, saved[q.of].rows)
        <3>1. entry[e].of = q.of /\ entry[e].rev = saved[q.of].gen
            BY <1>3, <2>2, <2>10 DEF UseFits, Current
        <3>2. \A t \in Steps : ~Saves(step, t, e)
            <4>1. s \in entry[e].readers
                BY <1>1, <1>2 DEF IInv, Locks, Reading
            <4>2. ASSUME NEW t \in Steps, Saves(step, t, e) PROVE FALSE
                <5>1. entry[e].writer = t /\ t # None
                    BY <4>2, Constants DEF Saves, IInv, Locks, Writing
                <5> QED
                    BY <1>2, <4>1, <5>1 DEF IInv, Locks
            <4> QED
                BY <4>2
        <3>3. entry[e].holds = saved[q.of].rows
            BY <1>1, <1>2, <2>11, <3>1, <3>2 DEF Committed, Fitted, EntryFits
        <3>4. saved[q.of].rows \in Seq(Nat)
            BY <1>2, <2>2, NowTypes DEF Checkpoint
        <3> QED
            BY <3>3, <3>4, PrefixFacts
    <2>12. ASSUME NEW t \in Steps, step'[t].at # None PROVE UseFits(step'[t], entry[step'[t].at], saved[step'[t].of], exposed)
        <3>1. CASE t = s
            BY <2>2, <2>3, <2>10, <2>11, <3>1 DEF UseFits
        <3>2. CASE t # s
            BY <2>3, <2>12, <3>2 DEF Committed, Fitted
        <3> QED
            BY <3>1, <3>2
    <2>13. Fitted(entry', step', saved', wf', exposed')
        BY <2>5, <2>9, <2>12 DEF Fitted
    <2> QED
        BY <2>4, <2>5, <2>6, <2>13 DEF Committed
<1>4. CASE /\ Becomes(RUnlock(Now, e, s)) /\ step' = [step EXCEPT ![s].pc = "trysync"]
           /\ UNCHANGED <<wf, acked, lost, troubles>>
    <2>1. \A x \in Slots : Kept(entry[x], entry'[x])
        BY <1>1, <1>2, <1>4, NowHeld, BecomesHeld
    <2> QED
        BY <1>2, <1>4, <2>1, PlaceCommitted DEF Check, said
<1>5. CASE /\ Becomes(Release(RUnlock(Now, e, s), e)) /\ Ends(s)
           /\ \E again \in BOOLEAN : Fails(s, again)
    <2>1. \A x \in Slots : Kept(entry[x], entry'[x])
        BY <1>1, <1>2, <1>5, NowHeld, BecomesHeld DEF Reading
    <2> QED
        BY <1>2, <1>5, <2>1, EndFails DEF Check
<1> QED
    BY <1>1, <1>3, <1>4, <1>5 DEF Check

\* A step takes a harness that is built for it, or one that others use or that
\* no failed Commit left behind.
LEMMA JoinCommitted ==
    ASSUME IInv, IInv', Committed, NEW s \in Steps, step[s].pc = "acquire", NEW x \in Slots,
           step' = [step EXCEPT ![s].pc = "wait", ![s].at = x], UNCHANGED <<saved, wf, said>>,
           \A y \in Slots : \/ Kept(entry[y], entry'[y])
                            \/ Fresh(entry'[y], y, step', saved) /\ \A t \in Steps : step[t].at # y,
           entry'[x].of = step[s].of, entry[x].stale => \E u \in Steps : step[u].at = x
    PROVE  Committed'
<1>1. step[s] \in Attempt
    BY DEF IInv, Attempts
<1>2. PICK q : q = [step[s] EXCEPT !.pc = "wait", !.at = x]
    OBVIOUS
<1>3. /\ q.at = x /\ q.of = step[s].of /\ q.no = step[s].no /\ q.base = step[s].base
      /\ q.live = step[s].live /\ q.kind = step[s].kind /\ q.pc = "wait"
    BY <1>1, <1>2 DEF Attempt
<1>4. step' = [step EXCEPT ![s] = q] /\ step'[s] = q /\ \A t \in Steps : t # s => step'[t] = step[t]
    BY <1>2 DEF IInv, Attempts
<1>5. Committing(q) => Committing(step[s])
    BY <1>3 DEF Committing
<1>6. Fewer(step, step') /\ Kinds(step')
    <2>1. Kinds(step)
        BY DEF Committed
    <2> QED
        BY <1>3, <1>4, <1>5, <2>1 DEF Fewer, Kinds
<1>7. Stored(saved', wf', acked', lost', exposed', step')
    BY <1>6, FewerStored DEF Committed, said
<1>8. Joins(step[s], step'[s], entry[x], entry'[x], step)
    BY <1>3, <1>4 DEF Joins
<1>9. ASSUME NEW t \in Steps, t # s
      PROVE  GoesOn(step[t], step'[t]) /\ (step'[t].at # None => entry'[step'[t].at].of = entry[step'[t].at].of)
    <2>1. step'[t] = step[t] /\ (step[t].at # None => step[t].at \in Slots)
        BY <1>4, <1>9 DEF IInv, Attempts, Attempt
    <2> QED
        BY <2>1 DEF GoesOn, Kept
<1>10. ASSUME NEW t \in Steps
       PROVE  \/ GoesOn(step[t], step'[t]) /\ (step'[t].at # None => entry'[step'[t].at].of = entry[step'[t].at].of)
              \/ Joins(step[t], step'[t], entry[step'[t].at], entry'[step'[t].at], step)
    <2>1. CASE t = s
        BY <1>3, <1>4, <1>8, <2>1
    <2>2. CASE t # s
        BY <1>9, <2>2
    <2> QED
        BY <2>1, <2>2
<1>11. \A i \in Ids : wf[i].no <= wf'[i].no
    BY NowTypes DEF Workflow
<1>12. saved' = saved /\ exposed' = exposed /\ acked' = acked /\ lost' = lost
    BY DEF said
<1>13. Fitted(entry', step', saved', wf', exposed')
    BY <1>10, <1>11, <1>12, StateFitted
<1> QED
    BY <1>6, <1>7, <1>12, <1>13 DEF Committed

LEMMA AcquireCommitted ==
    ASSUME IInv, IInv', Committed, NEW s \in Steps, Acquire(s)
    PROVE  Committed'
<1>1. PICK id : id = step[s].of
    OBVIOUS
<1>2. step[s] \in Attempt /\ step[s].pc = "acquire" /\ step[s].at = None /\ id \in Ids
    BY <1>1 DEF Acquire, IInv, Attempts
<1>3. /\ Good(Now, Using) /\ Using \in [Slots -> SUBSET Steps] /\ Now.entry = entry /\ Now.byID = byID
      /\ entry \in [Slots -> Entry] /\ byID \in [Ids -> Slots \cup {None}] /\ Now \in Cache
    BY NowFacts DEF Good
<1>4. None \notin Slots /\ None \notin Ids
    BY Constants
<1>5. UNCHANGED <<saved, wf, said>>
    BY DEF Acquire
<1>6. PICK e : e = byID[id]
    OBVIOUS
<1>7. e # None => e \in Slots /\ entry[e].of = id /\ ~entry[e].gone
    BY <1>2, <1>3, <1>4, <1>6 DEF Good
<1>8. CASE /\ e # None /\ FALSE \in SeesStale(e) /\ Becomes(Use(Now, e))
           /\ step' = [step EXCEPT ![s].pc = "wait", ![s].at = e]
    <2>1. SameHeld(Now, Use(Now, e))
        BY <1>3, <1>7, <1>8, CacheHeld
    <2>2. \A y \in Slots : Kept(entry[y], entry'[y])
        BY <1>8, <2>1, BecomesHeld
    <2>3. entry'[e].of = step[s].of
        BY <1>1, <1>7, <1>8, <2>2 DEF Kept
    <2>4. entry[e].stale => \E u \in Steps : step[u].at = e
        <3>1. CASE entry[e].writer = None
            BY <1>8, <3>1 DEF SeesStale
        <3>2. CASE entry[e].writer # None
            <4>1. entry[e].writer \in Steps
                BY <1>3, <1>7, <1>8, <3>2 DEF Entry
            <4>2. step[entry[e].writer].at = e
                BY <1>7, <1>8, <3>2 DEF IInv, Locks
            <4> QED
                BY <4>1, <4>2
        <3> QED
            BY <3>1, <3>2
    <2> QED
        BY <1>2, <1>5, <1>7, <1>8, <2>2, <2>3, <2>4, JoinCommitted
<1>9. PICK kept : kept = IF e = None THEN Now ELSE Drop(Now, e)
    OBVIOUS
<1>10. PICK new : new = CHOOSE n \in Free : TRUE
    OBVIOUS
<1>11. CASE /\ Free # {}
            /\ Becomes(Use(Put(MakeRoom(kept), id, new, step[s].key), new))
            /\ step' = [step EXCEPT ![s].pc = "wait", ![s].at = new]
    <2>1. new \in Slots /\ entry[new] = NoEntry
        BY <1>10, <1>11 DEF Free
    <2>2. Good(kept, Using) /\ SameHeld(Now, kept)
        <3>1. CASE e = None
            BY <1>3, <1>9, <3>1, SameHeldFacts
        <3>2. CASE e # None
            <4>1. e \in Slots /\ Now.entry[e].of # None /\ ~Now.entry[e].gone
                BY <1>2, <1>3, <1>4, <1>7, <3>2
            <4>2. Good(Drop(Now, e), Using)
                BY <1>3, <4>1, DropGood
            <4>3. SameHeld(Now, Drop(Now, e))
                BY <1>3, <4>1, CacheHeld
            <4> QED
                BY <1>9, <3>2, <4>2, <4>3
        <3> QED
            BY <3>1, <3>2
    <2>3. PICK room : room = MakeRoom(kept)
        OBVIOUS
    <2>4. SameHeld(Now, room)
        BY <2>2, <2>3, RoomHeld, SameHeldFacts
    <2>5. Good(room, Using)
        BY <1>3, <2>2, <2>3, MakeRoomGood
    <2>6. PICK r : r = [NoEntry EXCEPT !.of = id, !.key = step[s].key, !.built = "building"]
        OBVIOUS
    <2>7. /\ r \in Entry /\ r.of = id /\ r.rev = 0 /\ r.holds = <<>>
          /\ NoEntry.stale = FALSE /\ NoEntry.of = None
        <3>1. step[s].key \in Keys \cup {None}
            BY <1>2 DEF Attempt
        <3> QED
            BY <1>2, <2>6, <3>1, Constants DEF NoEntry, Entry
    <2>8. PICK put : put = Put(room, id, new, step[s].key)
        OBVIOUS
    <2>9. put.entry = [room.entry EXCEPT ![new] = r] /\ put \in Cache
        <3>1. PICK b, n : b = [room.byID EXCEPT ![id] = new] /\ n = [room.entry EXCEPT ![new] = r]
            OBVIOUS
        <3>2. /\ room.entry \in [Slots -> Entry] /\ room.byID \in [Ids -> Slots \cup {None}] /\ room.unused \in Seq(Slots)
              /\ room = [byID |-> room.byID, unused |-> room.unused, entry |-> room.entry]
            BY <2>5 DEF Good, Cache
        <3>3. b \in [Ids -> Slots \cup {None}] /\ n \in [Slots -> Entry]
            BY <2>1, <2>7, <3>1, <3>2
        <3>4. put = [byID |-> b, unused |-> room.unused, entry |-> n]
            BY <2>6, <2>8, <3>1, <3>2 DEF Put
        <3> QED
            BY <3>1, <3>2, <3>3, <3>4 DEF Cache
    <2>10. SameHeld(put, Use(put, new))
        BY <2>1, <2>9, CacheHeld
    <2>11. entry' = Use(put, new).entry
        BY <1>11, <2>3, <2>8 DEF Becomes
    <2>12. \A y \in Slots : Kept(put.entry[y], entry'[y])
        BY <2>10, <2>11 DEF SameHeld
    <2>13. room.entry \in [Slots -> Entry] /\ \A y \in Slots : Kept(entry[y], room.entry[y])
        BY <1>3, <2>4, <2>5 DEF SameHeld, Good, Cache
    <2>14. \A y \in Slots : y # new => Kept(entry[y], entry'[y])
        BY <2>1, <2>9, <2>12, <2>13 DEF Kept
    <2>15. entry'[new].of = id /\ entry'[new].rev = 0 /\ entry'[new].holds = <<>>
        BY <2>1, <2>7, <2>9, <2>12, <2>13 DEF Kept
    <2>16. ASSUME NEW t \in Steps PROVE step[t].at # new
        <3>1. step[t].at = new => step[t].pc \notin {"none", "acquire"}
            BY <1>4, <2>1 DEF IInv, Attempts
        <3> QED
            BY <2>1, <2>7, <3>1, AtHarness
    <2>17. Fresh(entry'[new], new, step', saved)
        <3>1. ASSUME NEW t \in Steps, step'[t].at = new PROVE step'[t].pc = "wait"
            <4>1. t = s
                BY <1>11, <2>16, <3>1 DEF IInv, Attempts
            <4> QED
                BY <1>2, <1>11, <4>1 DEF IInv, Attempts, Attempt
        <3> QED
            BY <1>2, <2>15, <3>1 DEF Fresh
    <2>18. /\ \A y \in Slots : \/ Kept(entry[y], entry'[y])
                               \/ Fresh(entry'[y], y, step', saved) /\ \A t \in Steps : step[t].at # y
           /\ ~entry[new].stale
        BY <2>1, <2>7, <2>14, <2>16, <2>17
    <2> QED
        BY <1>1, <1>2, <1>5, <1>11, <2>1, <2>15, <2>18, JoinCommitted
<1>12. PICK stale \in IF e = None THEN {FALSE} ELSE SeesStale(e) :
         IF e # None /\ entry[e].key = step[s].key /\ ~stale
         THEN Becomes(Use(Now, e)) /\ step' = [step EXCEPT ![s].pc = "wait", ![s].at = e]
         ELSE /\ Free # {}
              /\ Becomes(Use(Put(MakeRoom(kept), id, new, step[s].key), new))
              /\ step' = [step EXCEPT ![s].pc = "wait", ![s].at = new]
    BY <1>1, <1>6, <1>9, <1>10, Zenon DEF Acquire
<1>13. CASE e # None /\ entry[e].key = step[s].key /\ ~stale
    <2>1. stale \in BOOLEAN
        <3>1. entry[e] \in Entry
            BY <1>3, <1>7, <1>13
        <3>2. stale \in SeesStale(e)
            BY <1>12, <1>13
        <3> QED
            BY <3>1, <3>2 DEF SeesStale, Entry
    <2>2. FALSE \in SeesStale(e)
        BY <1>12, <1>13, <2>1
    <2>3. Becomes(Use(Now, e)) /\ step' = [step EXCEPT ![s].pc = "wait", ![s].at = e]
        BY <1>12, <1>13
    <2> QED
        BY <1>8, <1>13, <2>2, <2>3
<1>14. CASE ~(e # None /\ entry[e].key = step[s].key /\ ~stale)
    BY <1>11, <1>12, <1>14
<1> QED
    BY <1>13, <1>14

\* A step begins again.
LEMMA AgainCommitted ==
    ASSUME IInv, IInv', Committed, NEW s \in Steps, step[s].pc \in {"trysync", "trylock"},
           Becomes(Replace(Now, step[s].at)), Again(s), UNCHANGED <<saved, wf, said>>
    PROVE  Committed'
<1>1. \A x \in Slots : Kept(entry[x], entry'[x])
    BY NowHeld, BecomesHeld
<1>2. PICK q : q = [step[s] EXCEPT !.pc = "acquire", !.at = None, !.held = FALSE]
    OBVIOUS
<1>3. /\ q.at = None /\ q.of = step[s].of /\ q.no = step[s].no /\ q.base = step[s].base
      /\ q.live = step[s].live /\ q.kind = step[s].kind /\ q.pc = "acquire"
    BY <1>2 DEF IInv, Attempts, Attempt
<1>4. step' = [step EXCEPT ![s] = q]
    BY <1>2 DEF Again, IInv, Attempts
<1>5. Leaves(step[s], q) /\ (Committing(q) => Committing(step[s]))
    BY <1>3 DEF Leaves, Committing
<1> QED
    BY <1>1, <1>3, <1>4, <1>5, QuietCommitted

\* A step takes the write lock.
LEMMA LockHeld ==
    ASSUME IInv, NEW e \in Slots, NEW s, entry' = [entry EXCEPT ![e].writer = s]
    PROVE  \A x \in Slots : Kept(entry[x], entry'[x])
<1>1. entry[e] \in Entry /\ entry \in [Slots -> Entry]
    BY NowTypes
<1>2. PICK h : h = [entry[e] EXCEPT !.writer = s]
    OBVIOUS
<1>3. entry' = [entry EXCEPT ![e] = h] /\ Kept(entry[e], h)
    BY <1>1, <1>2 DEF Kept, Entry
<1> QED
    BY <1>1, <1>3, OneHeld

LEMMA TrySyncCommitted ==
    ASSUME IInv, IInv', Committed, NEW s \in Steps, TrySync(s)
    PROVE  Committed'
<1>1. step[s].pc = "trysync" /\ step[s] \in Attempt /\ UNCHANGED <<saved, wf, said>> /\ step[s].at \in Slots
    BY AtHarness DEF TrySync, IInv, Attempts
<1>2. CASE entry' = [entry EXCEPT ![step[s].at].writer = s] /\ step' = [step EXCEPT ![s].pc = "sync"]
    <2>1. \A x \in Slots : Kept(entry[x], entry'[x])
        BY <1>1, <1>2, LockHeld
    <2> QED
        BY <1>1, <1>2, <2>1, PlaceCommitted
<1>3. CASE step' = [step EXCEPT ![s].pc = "rlock", ![s].held = TRUE] /\ UNCHANGED cache
    <2>1. PICK q : q = [step[s] EXCEPT !.pc = "rlock", !.held = TRUE]
        OBVIOUS
    <2>2. /\ q.at = step[s].at /\ q.of = step[s].of /\ q.no = step[s].no /\ q.base = step[s].base
          /\ q.live = step[s].live /\ q.kind = step[s].kind /\ q.pc = "rlock"
        BY <1>1, <2>1 DEF Attempt
    <2>3. step' = [step EXCEPT ![s] = q]
        BY <1>3, <2>1 DEF IInv, Attempts
    <2>4. GoesOn(step[s], q) /\ (Committing(q) => Committing(step[s]))
        BY <1>1, <2>2 DEF GoesOn, Committing
    <2>5. \A x \in Slots : Kept(entry[x], entry'[x])
        BY <1>3 DEF Kept, cache
    <2> QED
        BY <1>1, <2>2, <2>3, <2>4, <2>5, QuietCommitted
<1>4. CASE Becomes(Replace(Now, step[s].at)) /\ Again(s)
    BY <1>1, <1>4, AgainCommitted
<1> QED
    BY <1>2, <1>3, <1>4 DEF TrySync

LEMMA TryCommitCommitted ==
    ASSUME IInv, IInv', Committed, NEW s \in Steps, TryCommit(s)
    PROVE  Committed'
<1>1. step[s].pc = "trylock" /\ step[s] \in Attempt /\ UNCHANGED <<saved, wf, said>> /\ step[s].at \in Slots
    BY AtHarness DEF TryCommit, IInv, Attempts
<1>2. CASE Held(step[s].at)
    BY <1>1, <1>2, AgainCommitted DEF TryCommit
<1>3. CASE ~Held(step[s].at)
    <2>1. entry' = [entry EXCEPT ![step[s].at].writer = s] /\ step' = [step EXCEPT ![s].pc = "commit"]
        BY <1>3 DEF TryCommit
    <2>2. \A x \in Slots : Kept(entry[x], entry'[x])
        BY <1>1, <2>1, LockHeld
    <2>3. PICK q : q = [step[s] EXCEPT !.pc = "commit"]
        OBVIOUS
    <2>4. /\ q.at = step[s].at /\ q.of = step[s].of /\ q.no = step[s].no /\ q.base = step[s].base
          /\ q.live = step[s].live /\ q.kind = step[s].kind /\ q.pc = "commit"
        BY <1>1, <2>3 DEF Attempt
    <2>5. step' = [step EXCEPT ![s] = q]
        BY <2>1, <2>3
    <2>6. q.kind = "commit"
        BY <1>1, <2>4 DEF Committed, Kinds
    <2>7. GoesOn(step[s], q) /\ (Committing(q) => Committing(step[s]))
        BY <1>1, <2>4 DEF GoesOn, Committing
    <2> QED
        BY <1>1, <2>2, <2>4, <2>5, <2>6, <2>7, QuietCommitted
<1> QED
    BY <1>2, <1>3

LEMMA EndReadCommitted ==
    ASSUME IInv, IInv', Committed, NEW s \in Steps, EndRead(s)
    PROVE  Committed'
<1>1. step[s].pc = "reading" /\ UNCHANGED <<saved, wf, said>> /\ step' = [step EXCEPT ![s] = NoStep]
    BY DEF EndRead, Ends
<1>2. \A x \in Slots : Kept(entry[x], entry'[x])
    BY <1>1, NowHeld, BecomesHeld DEF EndRead, Reading
<1>3. Leaves(step[s], NoStep)
    BY <1>1, NoStepFacts DEF Leaves
<1> QED
    BY <1>1, <1>2, <1>3, NoStepFacts, QuietCommitted

LEMMA TimeoutCommitted ==
    ASSUME IInv, IInv', Committed, NEW s \in Steps, Timeout(s)
    PROVE  Committed'
<1>1. /\ step[s] \in Attempt /\ step[s].of \in Ids /\ UNCHANGED <<saved, exposed, entry>> /\ Fails(s, TRUE)
      /\ step[s].pc # "none"
    BY DEF Timeout, IInv, Attempts, cache
<1>2. PICK q : q = [step[s] EXCEPT !.live = FALSE]
    OBVIOUS
<1>3. /\ q.at = step[s].at /\ q.of = step[s].of /\ q.no = step[s].no /\ q.base = step[s].base
      /\ q.live = FALSE /\ q.kind = step[s].kind /\ q.pc = step[s].pc
    BY <1>1, <1>2 DEF Attempt
<1>4. step' = [step EXCEPT ![s] = q]
    BY <1>2 DEF Timeout
<1>5. GoesOn(step[s], q) /\ (Committing(q) => Committing(step[s]))
    BY <1>3 DEF GoesOn, Committing
<1>6. q.pc \in {"trylock", "commit", "save"} => q.kind = "commit"
    BY <1>3 DEF Committed, Kinds
<1>7. \A x \in Slots : Kept(entry[x], entry'[x])
    BY <1>1 DEF Kept
<1> QED
    BY <1>1, <1>3, <1>4, <1>5, <1>6, <1>7, FailCommitted

\* No step moves, and the store and what the workflows know of it stay.
LEMMA StillCommitted ==
    ASSUME IInv, IInv', Committed, step' = step, UNCHANGED <<saved, said>>,
           Stored(saved, wf', acked, lost, exposed, step), \A i \in Ids : wf'[i].no = wf[i].no,
           \A x \in Slots : Kept(entry[x], entry'[x]) \/ (entry'[x].of = None /\ \A t \in Steps : step[t].at # x)
    PROVE  Committed'
<1>1. saved' = saved /\ exposed' = exposed /\ acked' = acked /\ lost' = lost
    BY DEF said
<1>2. ASSUME NEW t \in Steps
      PROVE  GoesOn(step[t], step'[t]) /\ (step'[t].at # None => entry'[step'[t].at].of = entry[step'[t].at].of)
    <2>1. step'[t] = step[t] /\ (step[t].at # None => step[t].at \in Slots)
        BY DEF IInv, Attempts, Attempt
    <2> QED
        BY <2>1 DEF GoesOn, Kept
<1>3. \A i \in Ids : wf[i].no <= wf'[i].no
    BY NowTypes DEF Workflow
<1>4. \A x \in Slots : Kept(entry[x], entry'[x]) \/ (entry'[x].of = None /\ \A t \in Steps : step'[t].at # x)
    OBVIOUS
<1>5. Fitted(entry', step', saved', wf', exposed')
    BY <1>1, <1>2, <1>3, <1>4, StateFitted
<1> QED
    BY <1>1, <1>5 DEF Committed, Kinds

\* The cache moves, and nothing that it holds.
LEMMA CacheCommitted ==
    ASSUME IInv, IInv', Committed, step' = step, UNCHANGED <<saved, wf, said>>,
           \A x \in Slots : Kept(entry[x], entry'[x])
    PROVE  Committed'
BY StillCommitted DEF Committed

LEMMA OwnCommitted ==
    ASSUME IInv, IInv', Committed, NEW e \in Slots, Built(e) \/ Timer(e) \/ Closed(e)
    PROVE  Committed'
<1>1. step' = step /\ UNCHANGED <<saved, wf, said>>
    BY DEF Built, Timer, Closed
<1>2. CASE Built(e)
    <2>1. PICK b \in {"ok", "failed"} : entry' = [entry EXCEPT ![e].built = b]
        BY <1>2 DEF Built
    <2>2. entry[e] \in Entry /\ entry \in [Slots -> Entry]
        BY NowTypes
    <2>3. PICK h : h = [entry[e] EXCEPT !.built = b]
        OBVIOUS
    <2>4. entry' = [entry EXCEPT ![e] = h] /\ Kept(entry[e], h)
        BY <2>1, <2>2, <2>3, EntryHeld
    <2>5. \A x \in Slots : Kept(entry[x], entry'[x])
        BY <2>2, <2>4, OneHeld
    <2> QED
        BY <1>1, <2>5, CacheCommitted
<1>3. CASE Timer(e)
    <2>1. Now \in Cache
        BY NowFacts DEF Good
    <2>2. SameHeld(Now, Drop(Now, e))
        BY <2>1, CacheHeld
    <2>3. \A x \in Slots : Kept(entry[x], entry'[x])
        BY <1>3, <2>2, BecomesHeld DEF Timer
    <2> QED
        BY <1>1, <2>3, CacheCommitted
<1>4. CASE Closed(e)
    <2>1. /\ Good(Now, Using) /\ Using \in [Slots -> SUBSET Steps] /\ Now.entry = entry
          /\ entry[e] \in Entry /\ entry \in [Slots -> Entry]
        BY NowFacts
    <2>2. Using[e] = {} /\ entry[e].users = Cardinality(Using[e])
        <3>1. entry[e].closes > 0 /\ entry[e].closes <= 1 /\ entry[e].closes \in Nat
            BY <1>4, <2>1 DEF Good, Closed, Entry
        <3> QED
            BY <2>1, <3>1 DEF Good
    <2>3. entry[e].users = 0
        BY <2>1, <2>2, UsersOfNone
    <2>4. entry' = [entry EXCEPT ![e] = NoEntry]
        BY <1>4, <2>3 DEF Closed
    <2>5. entry'[e].of = None /\ \A x \in Slots : x # e => entry'[x] = entry[x]
        BY <2>1, <2>4, Constants
    <2>6. \A t \in Steps : step[t].at # e
        BY <2>2 DEF Using, InUse
    <2>7. \A x \in Slots : Kept(entry[x], entry'[x]) \/ (entry'[x].of = None /\ \A t \in Steps : step[t].at # x)
        BY <2>5, <2>6 DEF Kept
    <2> QED
        BY <1>1, <2>7, StillCommitted DEF Committed
<1> QED
    BY <1>2, <1>3, <1>4

LEMMA CloseCommitted ==
    ASSUME IInv, IInv', Committed, NEW id \in Ids, Close(id)
    PROVE  Committed'
<1>1. step' = step /\ UNCHANGED <<saved, said>> /\ wf[id].phase = "open" /\ wf' = [wf EXCEPT ![id].phase = "closed"]
    BY DEF Close
<1>2. Stored(saved, wf', acked, lost, exposed, step)
    BY <1>1, CloseStored DEF IInv, Committed
<1>3. \A i \in Ids : wf'[i].no = wf[i].no
    <2>1. wf[id] \in Workflow /\ wf \in [Ids -> Workflow]
        BY NowTypes
    <2> QED
        BY <1>1, <2>1 DEF Workflow
<1>4. \A x \in Slots : Kept(entry[x], entry'[x])
    <2>1. CASE byID[id] = None
        BY <2>1 DEF Close, cache, Kept
    <2>2. CASE byID[id] # None
        <3>1. Now \in Cache /\ byID[id] \in Slots
            BY <2>2, NowFacts DEF Good
        <3>2. SameHeld(Now, Drop(Now, byID[id]))
            BY <3>1, CacheHeld
        <3> QED
            BY <2>2, <3>2, BecomesHeld DEF Close
    <2> QED
        BY <2>1, <2>2
<1> QED
    BY <1>1, <1>2, <1>3, <1>4, StillCommitted

\* A step is sent, to acquire a harness.
LEMMA SentCommitted ==
    ASSUME IInv, IInv', Committed, UNCHANGED <<saved, said, cache>>, NEW s \in Steps, Idle(s),
           NEW q, step' = [step EXCEPT ![s] = q], q.at = None, q.pc = "acquire",
           \A i \in Ids : wf[i].no <= wf'[i].no, Stored(saved, wf', acked, lost, exposed, step')
    PROVE  Committed'
<1>1. saved' = saved /\ exposed' = exposed /\ acked' = acked /\ lost' = lost /\ entry' = entry
    BY DEF said, cache
<1>2. step'[s] = q /\ (\A t \in Steps : t # s => step'[t] = step[t]) /\ Leaves(step[s], q)
    BY DEF IInv, Attempts, Idle, Leaves
<1>3. \A t \in Steps : Leaves(step[t], step'[t]) \/ GoesOn(step[t], step'[t])
    BY <1>2 DEF GoesOn
<1>4. \A x \in Slots : Kept(entry[x], entry'[x])
    BY <1>1 DEF Kept
<1>5. Fitted(entry', step', saved', wf', exposed')
    BY <1>1, <1>3, <1>4, HeldFitted
<1>6. Kinds(step')
    BY <1>2 DEF Committed, Kinds
<1> QED
    BY <1>1, <1>5, <1>6 DEF Committed

LEMMA WorkflowCommitted ==
    ASSUME IInv, IInv', Committed, NEW s \in Steps, NEW id \in Ids, Read(s, id) \/ Commit(s, id) \/ Retry(s, id)
    PROVE  Committed'
<1>1. wf \in [Ids -> Workflow] /\ wf[id] \in Workflow /\ wf[id].no \in Nat
    BY NowTypes DEF Workflow
<1>2. UNCHANGED <<saved, said, cache>> /\ Idle(s)
    BY DEF Read, Commit, Retry, Sends
<1>3. CASE Read(s, id)
    <2>1. PICK q : q = [NoStep EXCEPT !.pc = "acquire", !.of = id, !.kind = "read",
                          !.key = key[id], !.live = TRUE, !.no = 0, !.base = 0]
        OBVIOUS
    <2>2. step' = [step EXCEPT ![s] = q] /\ wf' = wf
        BY <1>3, <2>1 DEF Read, Sends
    <2>3. q.pc = "acquire" /\ q.at = None /\ q.kind = "read"
        BY <2>1 DEF NoStep
    <2>4. Fewer(step, step')
        BY <2>2, <2>3 DEF Fewer, Committing, IInv, Attempts
    <2>5. Stored(saved, wf, acked, lost, exposed, step')
        BY <2>4, FewerStored DEF Committed
    <2>6. \A i \in Ids : wf[i].no <= wf'[i].no
        BY <2>2, NowTypes DEF Workflow
    <2> QED
        BY <1>2, <2>2, <2>3, <2>5, <2>6, SentCommitted
<1>4. ASSUME NEW p \in Workflow, wf' = [wf EXCEPT ![id] = p], p.phase = "commit", p.base = wf[id].base,
             \/ wf[id].phase = "open" /\ ~Waits(id) /\ p.no = wf[id].no + 1
             \/ wf[id].phase = "retry" /\ p.no = wf[id].no,
             Sends(s, id, "commit", p)
      PROVE  Committed'
    <2>1. PICK q : q = [NoStep EXCEPT !.pc = "acquire", !.of = id, !.kind = "commit",
                          !.key = key[id], !.live = TRUE, !.no = p.no, !.base = p.base]
        OBVIOUS
    <2>2. step' = [step EXCEPT ![s] = q]
        BY <1>4, <2>1 DEF Sends
    <2>3. q.pc = "acquire" /\ q.at = None /\ q.of = id /\ q.no = p.no /\ q.base = p.base
        BY <2>1 DEF NoStep
    <2>4. Types /\ Attempts /\ lost \in [Ids -> SUBSET Nat] /\ Stored(saved, wf, acked, lost, exposed, step)
        BY DEF IInv, Committed
    <2>5. Stored(saved, wf', acked, lost, exposed, step')
        BY <1>4, <2>2, <2>3, <2>4, StartStored
    <2>6. \A i \in Ids : wf[i].no <= wf'[i].no
        <3>1. \A i \in Ids : wf[i].no \in Nat
            BY <1>1 DEF Workflow
        <3>2. wf[id].no <= p.no
            BY <1>1, <1>4
        <3> QED
            BY <1>1, <1>4, <3>1, <3>2
    <2> QED
        BY <1>2, <2>2, <2>3, <2>5, <2>6, SentCommitted
<1>5. CASE Commit(s, id)
    <2>1. PICK n : n = wf[id].no + 1
        OBVIOUS
    <2>2. PICK p : p = [wf[id] EXCEPT !.phase = "commit", !.no = n, !.tries = 1]
        OBVIOUS
    <2>3. wf' = [wf EXCEPT ![id] = p]
        BY <1>1, <1>5, <2>1, <2>2 DEF Commit, Workflow
    <2>4. p \in Workflow /\ p.phase = "commit" /\ p.base = wf[id].base /\ p.no = n
        <3>1. n \in Nat
            BY <1>1, <2>1
        <3> QED
            BY <1>1, <2>2, <3>1 DEF Workflow
    <2>5. wf'[id] = p
        BY <1>1, <2>3
    <2>6. wf[id].phase = "open" /\ ~Waits(id) /\ Sends(s, id, "commit", p)
        BY <1>5, <2>5 DEF Commit
    <2> QED
        BY <1>4, <2>1, <2>3, <2>4, <2>6
<1>6. CASE Retry(s, id)
    <2>1. PICK n : n = wf[id].tries + 1
        OBVIOUS
    <2>2. PICK p : p = [wf[id] EXCEPT !.phase = "commit", !.tries = n]
        OBVIOUS
    <2>3. n \in Nat
        BY <1>1, <2>1 DEF Workflow
    <2>4. wf' = [wf EXCEPT ![id] = p]
        BY <1>1, <1>6, <2>1, <2>2 DEF Retry, Workflow
    <2>5. p \in Workflow /\ p.phase = "commit" /\ p.base = wf[id].base /\ p.no = wf[id].no
        BY <1>1, <2>2, <2>3 DEF Workflow
    <2>6. wf'[id] = p
        BY <1>1, <2>4
    <2>7. wf[id].phase = "retry" /\ Sends(s, id, "commit", p)
        BY <1>6, <2>6 DEF Retry
    <2> QED
        BY <1>4, <2>4, <2>5, <2>7
<1> QED
    BY <1>3, <1>5, <1>6

\* While a step holds the write lock, no other reads or writes under it.
LEMMA WriterAlone ==
    ASSUME IInv, NEW s \in Steps, step[s].pc \in Writing
    PROVE  \A t \in Steps : step[t].at = step[s].at /\ t # s => step[t].pc \notin Reading \cup Writing
<1>1. PICK e : e = step[s].at
    OBVIOUS
<1>2. e \in Slots /\ entry[e].writer = s /\ s # None
    BY <1>1, AtHarness, Constants DEF Writing, IInv, Locks
<1>3. entry[e].readers = {}
    BY <1>2 DEF IInv, Locks
<1>4. ASSUME NEW t \in Steps, step[t].at = e, t # s PROVE step[t].pc \notin Reading \cup Writing
    <2>1. step[t].pc \in Reading => t \in entry[e].readers
        BY <1>4 DEF IInv, Locks
    <2>2. step[t].pc \in Writing => entry[e].writer = t
        BY <1>4 DEF IInv, Locks
    <2> QED
        BY <1>2, <1>3, <1>4, <2>1, <2>2
<1> QED
    BY <1>1, <1>4

\* A harness that was loaded from the store.
AsStored(r, q) ==
  /\ q.of = r.of /\ q.stale = r.stale
  /\ q.rev = saved[r.of].gen /\ q.holds = saved[r.of].rows

Loaded(c, d, e) ==
  /\ \A x \in Slots : x # e => Kept(c.entry[x], d.entry[x])
  /\ Kept(c.entry[e], d.entry[e]) \/ AsStored(c.entry[e], d.entry[e])

LEMMA LoadedFacts ==
    \A c, d, b : \A e \in Slots :
      /\ SameHeld(c, d) => Loaded(c, d, e)
      /\ SameHeld(c, d) /\ Loaded(d, b, e) => Loaded(c, b, e)
      /\ Loaded(c, d, e) /\ SameHeld(d, b) => Loaded(c, b, e)
BY DEF SameHeld, Loaded, Kept, AsStored

LEMMA SyncedHeld ==
    ASSUME IInv, NEW c \in Cache, NEW e \in Slots, Kept(entry[e], c.entry[e]), c.entry[e].of \in Ids,
           entry[e].rev <= saved[entry[e].of].gen
    PROVE  /\ Loaded(c, Synced(c, e), e)
           /\ Synced(c, e).entry[e].rev = saved[c.entry[e].of].gen
           /\ Synced(c, e).entry[e].of = c.entry[e].of
           /\ Synced(c, e) \in Cache
<1>1. PICK r, store : r = c.entry[e] /\ store = saved[r.of]
    OBVIOUS
<1>2. /\ r \in Entry /\ c.entry \in [Slots -> Entry] /\ r.of \in Ids
      /\ c = [byID |-> c.byID, unused |-> c.unused, entry |-> c.entry]
      /\ store.gen \in Nat /\ store.rows \in Seq(Nat) /\ r.rev \in Nat /\ r.rev <= store.gen
    <2>1. r \in Entry /\ c.entry \in [Slots -> Entry] /\ r.of \in Ids
        BY <1>1 DEF Cache
    <2>2. c = [byID |-> c.byID, unused |-> c.unused, entry |-> c.entry]
        BY DEF Cache
    <2>3. store \in Checkpoint
        BY <1>1, <2>1, NowTypes
    <2>4. r.rev = entry[e].rev /\ r.of = entry[e].of
        BY <1>1 DEF Kept
    <2> QED
        BY <1>1, <2>1, <2>2, <2>3, <2>4 DEF Checkpoint, Entry
<1>3. ASSUME NEW q \in Entry, Kept(r, q) \/ AsStored(r, q), q.rev = store.gen, q.of = r.of, Synced(c, e) = With(c, e, q)
      PROVE  /\ Loaded(c, Synced(c, e), e)
             /\ Synced(c, e).entry[e].rev = saved[c.entry[e].of].gen
             /\ Synced(c, e).entry[e].of = c.entry[e].of
             /\ Synced(c, e) \in Cache
    <2>1. PICK n : n = [c.entry EXCEPT ![e] = q]
        OBVIOUS
    <2>2. n \in [Slots -> Entry] /\ n[e] = q /\ \A x \in Slots : x # e => n[x] = c.entry[x]
        BY <1>2, <2>1
    <2>3. With(c, e, q) = [byID |-> c.byID, unused |-> c.unused, entry |-> n]
        BY <1>2, <2>1 DEF With
    <2>4. With(c, e, q) \in Cache /\ With(c, e, q).entry = n
        BY <2>2, <2>3 DEF Cache
    <2> QED
        BY <1>1, <1>3, <2>2, <2>4 DEF Loaded, Kept
<1>4. CASE Current(e)
    <2>1. Synced(c, e) = c
        BY <1>4 DEF Synced
    <2>2. entry[e].rev = saved[entry[e].of].gen
        BY <1>4 DEF Current
    <2> QED
        BY <1>1, <1>2, <2>1, <2>2 DEF Loaded, Kept
<1>5. CASE ~Current(e) /\ store.gen = 0
    <2>1. PICK q : q = [r EXCEPT !.loaded = TRUE]
        OBVIOUS
    <2>2. q \in Entry /\ Kept(r, q) /\ q.rev = r.rev /\ q.of = r.of
        BY <1>2, <2>1 DEF Entry, Kept
    <2>3. Synced(c, e) = With(c, e, q)
        BY <1>1, <1>5, <2>1 DEF Synced
    <2>4. q.rev = store.gen
        BY <1>2, <1>5, <2>2
    <2> QED
        BY <1>3, <2>2, <2>3, <2>4
<1>6. CASE ~Current(e) /\ store.gen # 0
    <2>1. PICK q : q = [r EXCEPT !.loaded = TRUE, !.rev = store.gen, !.holds = store.rows]
        OBVIOUS
    <2>2. q \in Entry /\ q.rev = store.gen /\ q.of = r.of /\ q.stale = r.stale /\ q.holds = store.rows
        BY <1>2, <2>1 DEF Entry
    <2>3. Synced(c, e) = With(c, e, q)
        BY <1>1, <1>6, <2>1 DEF Synced
    <2>4. AsStored(r, q)
        BY <1>1, <2>2 DEF AsStored
    <2> QED
        BY <1>3, <2>2, <2>3, <2>4
<1> QED
    BY <1>4, <1>5, <1>6

\* A step under the write lock loads its harness, and goes on without it or ends.
LEMMA LoadedFitted ==
    ASSUME IInv, IInv', Committed, saved' = saved, exposed' = exposed, \A i \in Ids : wf[i].no <= wf'[i].no,
           NEW s \in Steps, step[s].pc \in {"sync", "commit"}, NEW d, Becomes(d), Loaded(Now, d, step[s].at),
           NEW q, step' = [step EXCEPT ![s] = q], Leaves(step[s], q) \/ GoesOn(step[s], q)
    PROVE  Fitted(entry', step', saved', wf', exposed')
<1>1. PICK e : e = step[s].at
    OBVIOUS
<1>2. e \in Slots /\ entry[e].of \in Ids /\ Now.entry = entry /\ entry' = d.entry
    BY <1>1, AtHarness, NowFacts DEF Becomes
<1>3. step'[s] = q /\ \A t \in Steps : t # s => step'[t] = step[t]
    BY DEF IInv, Attempts
<1>4. \A x \in Slots : x # e => Kept(entry[x], entry'[x])
    BY <1>1, <1>2 DEF Loaded
<1>5. Kept(entry[e], entry'[e]) \/ Fresh(entry'[e], e, step', saved)
    <2>1. ASSUME AsStored(entry[e], entry'[e]) PROVE Fresh(entry'[e], e, step', saved)
        <3>1. ASSUME NEW t \in Steps, step'[t].at = e PROVE step'[t].pc \notin {"save", "reading"}
            <4>1. CASE t = s
                BY <1>2, <1>3, <3>1, <4>1, Constants DEF Leaves, GoesOn
            <4>2. CASE t # s
                BY <1>1, <1>3, <3>1, <4>2, WriterAlone DEF Reading, Writing
            <4> QED
                BY <4>1, <4>2
        <3> QED
            BY <1>2, <2>1, <3>1 DEF AsStored, Fresh
    <2> QED
        BY <1>1, <1>2, <2>1 DEF Loaded
<1>6. \A x \in Slots : entry'[x].of = entry[x].of
    BY <1>1, <1>2, <1>4 DEF Loaded, Kept, AsStored
<1>7. ASSUME NEW t \in Steps
      PROVE  \/ Leaves(step[t], step'[t])
             \/ GoesOn(step[t], step'[t]) /\ (step'[t].at # None => entry'[step'[t].at].of = entry[step'[t].at].of)
    <2>1. step'[t].at # None => step'[t].at \in Slots
        BY NextTypes DEF Attempt
    <2>2. Leaves(step[t], step'[t]) \/ GoesOn(step[t], step'[t])
        BY <1>3 DEF GoesOn
    <2> QED
        BY <1>6, <2>1, <2>2
<1>8. \A x \in Slots : \/ Kept(entry[x], entry'[x])
                       \/ entry'[x].of = None /\ \A t \in Steps : step'[t].at # x
                       \/ Fresh(entry'[x], x, step', saved)
    BY <1>4, <1>5
<1>9. exposed \subseteq exposed'
    OBVIOUS
<1> QED
    BY <1>7, <1>8, <1>9, StateFitted

LEMMA HarnessFits ==
    ASSUME IInv, Committed, NEW s \in Steps, step[s].pc \notin {"none", "acquire"}
    PROVE  LET e == step[s].at
           IN  /\ e \in Slots /\ entry[e] \in Entry /\ entry[e].of = step[s].of /\ step[s].of \in Ids
               /\ entry[e].rev \in Nat /\ entry[e].holds \in Seq(Nat)
               /\ entry[e].rev <= saved[step[s].of].gen
               /\ EntryFits(e, entry[e], step, saved[step[s].of], wf[step[s].of], exposed)
               /\ UseFits(step[s], entry[e], saved[step[s].of], exposed)
<1>1. PICK e : e = step[s].at
    OBVIOUS
<1>2. e \in Slots /\ entry[e] \in Entry /\ entry[e].of # None /\ e # None /\ step[s].of \in Ids
    BY <1>1, AtHarness, Constants
<1>3. EntryFits(e, entry[e], step, saved[entry[e].of], wf[entry[e].of], exposed)
    BY <1>2 DEF Committed, Fitted
<1>4. UseFits(step[s], entry[e], saved[step[s].of], exposed)
    BY <1>1, <1>2 DEF Committed, Fitted
<1>5. entry[e].of = step[s].of
    BY <1>4 DEF UseFits
<1>6. entry[e].rev \in Nat /\ entry[e].holds \in Seq(Nat)
    BY <1>2 DEF Entry
<1>7. entry[e].rev <= saved[step[s].of].gen
    BY <1>3, <1>5 DEF EntryFits
<1> QED
    BY <1>1, <1>2, <1>3, <1>4, <1>5, <1>6, <1>7

\* What Sync leaves, when it succeeds.
LEMMA LoadsHeld ==
    ASSUME IInv, Committed, NEW s \in Steps, step[s].pc \in {"sync", "commit"}
    PROVE  LET e == step[s].at
               c == Synced(Now, e)
           IN  /\ Loaded(Now, Synced(Unlock(Now, e), e), e)
               /\ Loaded(Now, c, e) /\ c \in Cache /\ c.entry[e].rev = saved[step[s].of].gen
               /\ c.entry[e].of = step[s].of
               /\ Loaded(Now, Release(Unlock(c, e), e), e) /\ SameHeld(Now, Release(Unlock(Now, e), e))
<1>1. PICK e, u : e = step[s].at /\ u = Unlock(Now, e)
    OBVIOUS
<1>2. /\ e \in Slots /\ entry[e].of = step[s].of /\ step[s].of \in Ids
      /\ entry[e].rev <= saved[entry[e].of].gen
    BY <1>1, HarnessFits
<1>3. Now.entry = entry /\ Now \in Cache /\ Good(Now, Using) /\ entry[e].of # None
    BY <1>1, NowFacts, AtHarness DEF Good
<1>4. u \in Cache
    <2>1. Good(u, Using)
        BY <1>1, <1>2, <1>3, UnlockGood
    <2> QED
        BY <2>1 DEF Good
<1>5. SameHeld(Now, u)
    BY <1>1, <1>2, <1>3, CacheHeld
<1>6. Loaded(Now, Synced(u, e), e)
    <2>1. Kept(entry[e], u.entry[e])
        BY <1>2, <1>3, <1>5 DEF SameHeld
    <2>2. u.entry[e].of \in Ids
        BY <1>2, <2>1 DEF Kept
    <2>3. Loaded(u, Synced(u, e), e)
        BY <1>2, <1>4, <2>1, <2>2, SyncedHeld
    <2> QED
        BY <1>2, <1>5, <2>3, LoadedFacts
<1>7. PICK c : c = Synced(Now, e)
    OBVIOUS
<1>8. Loaded(Now, c, e) /\ c \in Cache /\ c.entry[e].rev = saved[step[s].of].gen /\ c.entry[e].of = step[s].of
    <2>1. Kept(entry[e], Now.entry[e]) /\ Now.entry[e].of \in Ids
        BY <1>2, <1>3 DEF Kept
    <2>2. /\ Loaded(Now, Synced(Now, e), e)
          /\ Synced(Now, e).entry[e].rev = saved[Now.entry[e].of].gen
          /\ Synced(Now, e).entry[e].of = Now.entry[e].of
          /\ Synced(Now, e) \in Cache
        BY <1>2, <1>3, <2>1, SyncedHeld
    <2> QED
        BY <1>2, <1>3, <1>7, <2>2
<1>9. PICK v : v = Unlock(c, e)
    OBVIOUS
<1>10. SameHeld(c, v)
    BY <1>2, <1>8, <1>9, CacheHeld
<1>11. v \in Cache
    <2>1. Good(c, Using) /\ c.entry[e].of # None
        BY <1>2, <1>3, <1>7, SyncedGood DEF IInv
    <2>2. Good(v, Using)
        BY <1>2, <1>9, <2>1, UnlockGood
    <2> QED
        BY <2>2 DEF Good
<1>12. SameHeld(v, Release(v, e))
    BY <1>2, <1>11, CacheHeld
<1>13. Loaded(Now, Release(v, e), e)
    <2>1. Loaded(Now, v, e)
        BY <1>2, <1>8, <1>10, LoadedFacts
    <2> QED
        BY <1>2, <1>12, <2>1, LoadedFacts
<1>14. SameHeld(Now, Release(u, e))
    BY <1>1, NowHeld DEF Writing
<1> QED
    BY <1>1, <1>6, <1>7, <1>8, <1>9, <1>13, <1>14

\* A step under the write lock ends with its harness loaded, or not.
LEMMA LoadedEnds ==
    ASSUME IInv, IInv', Committed, saved' = saved, exposed' = exposed,
           NEW s \in Steps, step[s].pc \in {"sync", "commit"}, NEW d, Becomes(d), Loaded(Now, d, step[s].at), Ends(s),
           \/ \E again \in BOOLEAN : Fails(s, again)
           \/ /\ step[s].kind = "commit" /\ saved[step[s].of].gen # step[s].base
              /\ Answers(s, saved[step[s].of].gen)
    PROVE  Committed'
<1>1. step' = [step EXCEPT ![s] = NoStep] /\ step[s].of \in Ids /\ Leaves(step[s], NoStep)
    BY NoStepFacts DEF Ends, IInv, Attempts, Leaves
<1>2. step'[s] = NoStep /\ \A t \in Steps : t # s => step'[t] = step[t]
    BY <1>1 DEF IInv, Attempts
<1>3. Fewer(step, step') /\ Kinds(step') /\ ~Committing(step'[s])
    <2>1. Kinds(step)
        BY DEF Committed
    <2> QED
        BY <1>2, <2>1, NoStepFacts DEF Fewer, Kinds
<1>4. /\ Types /\ Attempts /\ acked \in [Ids -> SUBSET Nat] /\ lost \in [Ids -> SUBSET Nat]
      /\ Stored(saved, wf, acked, lost, exposed, step) /\ exposed \subseteq exposed'
    BY DEF IInv, Committed
<1>5. saved \in [Ids -> Checkpoint]
    BY NowTypes
<1>6. /\ Stored(saved, wf', acked', lost', exposed', step')
      /\ acked' \in [Ids -> SUBSET Nat] /\ lost' \in [Ids -> SUBSET Nat]
      /\ \A i \in Ids : wf'[i].no = wf[i].no
    <2>1. CASE \E again \in BOOLEAN : Fails(s, again)
        <3>1. PICK again \in BOOLEAN : Fails(s, again)
            BY <2>1
        <3> QED
            BY <1>1, <1>3, <1>4, <3>1, FailsStored
    <2>2. CASE /\ step[s].kind = "commit" /\ saved[step[s].of].gen # step[s].base
               /\ Answers(s, saved[step[s].of].gen)
        BY <1>1, <1>3, <1>4, <1>5, <2>2, AnswersStored
    <2> QED
        BY <2>1, <2>2
<1>7. \A i \in Ids : wf[i].no <= wf'[i].no
    BY <1>6, NowTypes DEF Workflow
<1>8. Fitted(entry', step', saved', wf', exposed')
    BY <1>1, <1>7, LoadedFitted
<1> QED
    BY <1>3, <1>6, <1>8 DEF Committed

LEMMA SyncCommitted ==
    ASSUME IInv, IInv', Committed, NEW s \in Steps, Sync(s)
    PROVE  Committed'
<1>1. PICK e : e = step[s].at
    OBVIOUS
<1>2. step[s].pc = "sync" /\ step[s] \in Attempt /\ saved' = saved /\ exposed' = exposed /\ e \in Slots
    BY <1>1, AtHarness DEF Sync, IInv, Attempts
<1>3. Loaded(Now, Synced(Unlock(Now, e), e), e) /\ SameHeld(Now, Release(Unlock(Now, e), e))
    BY <1>1, <1>2, LoadsHeld
<1>4. CASE /\ Becomes(Synced(Unlock(Now, e), e)) /\ step' = [step EXCEPT ![s].pc = "rlock"]
           /\ UNCHANGED <<wf, acked, lost, troubles>>
    <2>1. PICK q : q = [step[s] EXCEPT !.pc = "rlock"]
        OBVIOUS
    <2>2. /\ GoesOn(step[s], q)
          /\ Committing(q) => /\ Committing(step[s]) /\ q.of = step[s].of /\ q.no = step[s].no
                              /\ q.base = step[s].base /\ (q.live => step[s].live)
          /\ q.pc \in {"trylock", "commit", "save"} => q.kind = "commit"
        BY <1>2, <2>1, PlaceFacts
    <2>3. step' = [step EXCEPT ![s] = q]
        BY <1>4, <2>1
    <2>4. step'[s] = q /\ \A t \in Steps : t # s => step'[t] = step[t]
        BY <2>3 DEF IInv, Attempts
    <2>5. Fewer(step, step') /\ Kinds(step')
        <3>1. Kinds(step)
            BY DEF Committed
        <3> QED
            BY <2>2, <2>4, <3>1 DEF Fewer, Kinds
    <2>6. Stored(saved', wf', acked', lost', exposed', step')
        BY <1>2, <1>4, <2>5, FewerStored DEF Committed
    <2>7. \A i \in Ids : wf[i].no <= wf'[i].no
        BY <1>4, NowTypes DEF Workflow
    <2>8. Fitted(entry', step', saved', wf', exposed')
        BY <1>1, <1>2, <1>3, <1>4, <2>2, <2>3, <2>7, LoadedFitted
    <2> QED
        BY <1>4, <2>5, <2>6, <2>8 DEF Committed
<1>5. CASE Becomes(Release(Unlock(Now, e), e)) /\ Ends(s) /\ \E again \in BOOLEAN : Fails(s, again)
    <2>1. \A x \in Slots : Kept(entry[x], entry'[x])
        BY <1>3, <1>5, BecomesHeld
    <2> QED
        BY <1>2, <1>5, <2>1, EndFails
<1> QED
    BY <1>1, <1>4, <1>5 DEF Sync

LEMMA AppendFacts ==
    ASSUME NEW h \in Seq(Nat), NEW n \in Nat
    PROVE  /\ Append(h, n) \in Seq(Nat) /\ In(n, Append(h, n))
           /\ \A j \in DOMAIN Append(h, n) : Append(h, n)[j] = n \/ (j \in DOMAIN h /\ Append(h, n)[j] = h[j])
<1>1. PICK k : k = Len(h) /\ k \in Nat
    OBVIOUS
<1>2. PICK x : x = Append(h, n)
    OBVIOUS
<1>3. DOMAIN x = 1..(k + 1) /\ DOMAIN h = 1..k /\ x[k + 1] = n /\ (\A j \in 1..k : x[j] = h[j]) /\ x \in Seq(Nat)
    BY <1>1, <1>2
<1>4. k + 1 \in DOMAIN x
    BY <1>1, <1>3
<1>5. ASSUME NEW j \in DOMAIN x PROVE x[j] = n \/ (j \in DOMAIN h /\ x[j] = h[j])
    <2>1. j = k + 1 \/ j \in 1..k
        BY <1>1, <1>3
    <2> QED
        BY <1>3, <2>1
<1> QED
    BY <1>2, <1>3, <1>4, <1>5 DEF In

\* A Commit is applied to the harness that s writes under, which holds the rows of
\* the revision that the Commit is based on.
LEMMA AppliedFitted ==
    ASSUME IInv, IInv', Committed, NEW s \in Steps, step[s].pc = "commit", UNCHANGED <<saved, wf, exposed>>,
           NEW e, e = step[s].at, NEW r \in Entry, Kept(entry[e], r) \/ AsStored(entry[e], r),
           r.rev = saved[step[s].of].gen, r.rev = step[s].base,
           entry'[e].of = r.of, entry'[e].rev = r.rev, entry'[e].stale,
           entry'[e].holds = Append(r.holds, step[s].no),
           \A x \in Slots : x # e => Kept(entry[x], entry'[x]),
           NEW q, step' = [step EXCEPT ![s] = q], q.pc = "save", q.at = e, q.of = step[s].of,
           q.no = step[s].no, q.base = step[s].base
    PROVE  Fitted(entry', step', saved', wf', exposed')
<1>1. PICK id, n, sv : id = step[s].of /\ n = step[s].no /\ sv = saved[id]
    OBVIOUS
<1>2. /\ e \in Slots /\ entry[e] \in Entry /\ entry[e].of = id /\ id \in Ids
      /\ EntryFits(e, entry[e], step, sv, wf[id], exposed)
    BY <1>1, HarnessFits
<1>3. /\ n \in Nat /\ sv \in Checkpoint /\ sv.gen \in Nat /\ sv.rows \in Seq(Nat) /\ wf[id].no \in Nat
      /\ r.holds \in Seq(Nat) /\ e # None /\ r.of = id
    <2>1. step[s] \in Attempt /\ sv \in Checkpoint /\ wf[id] \in Workflow
        BY <1>1, <1>2, NowTypes
    <2>2. n \in Nat
        BY <1>1, <2>1 DEF Attempt
    <2>3. sv.gen \in Nat /\ sv.rows \in Seq(Nat)
        BY <2>1 DEF Checkpoint
    <2>4. wf[id].no \in Nat
        BY <2>1 DEF Workflow
    <2>5. r.holds \in Seq(Nat)
        BY DEF Entry
    <2>6. r.of = id
        BY <1>2 DEF Kept, AsStored
    <2>7. e # None
        BY <1>2, Constants
    <2> QED
        BY <2>1, <2>2, <2>3, <2>4, <2>5, <2>6, <2>7
<1>4. step'[s] = q /\ \A t \in Steps : t # s => step'[t] = step[t]
    BY DEF IInv, Attempts
<1>5. \A t \in Steps : step[t].at = e /\ t # s => step[t].pc \notin Reading \cup Writing
    BY WriterAlone DEF Writing
<1>6. StoreFits(id, sv, wf[id], acked[id], lost[id], exposed) /\ n <= wf[id].no
    <2>1. Committing(step[s])
        BY DEF Committing, Committed, Kinds
    <2>2. AttemptFits(step[s], sv, wf[id], lost[id], exposed)
        BY <1>1, <2>1 DEF Committed, Stored
    <2> QED
        BY <1>1, <1>2, <2>2 DEF Committed, Stored, AttemptFits
<1>7. \A j \in DOMAIN r.holds : r.holds[j] <= wf[id].no
    <2>1. CASE Kept(entry[e], r)
        BY <1>2, <2>1 DEF Kept, EntryFits
    <2>2. CASE AsStored(entry[e], r)
        <3>1. r.holds = sv.rows
            BY <1>1, <1>2, <2>2 DEF AsStored
        <3>2. \A j \in DOMAIN sv.rows : sv.rows[j] <= wf[id].no
            BY <1>6 DEF StoreFits
        <3> QED
            BY <3>1, <3>2
    <2> QED
        BY <2>1, <2>2
<1>8. Prefix(sv.rows, r.holds)
    <2>1. CASE Kept(entry[e], r)
        BY <1>1, <1>2, <2>1 DEF Kept, EntryFits
    <2>2. CASE AsStored(entry[e], r)
        BY <1>1, <1>2, <1>3, <2>2, PrefixFacts DEF AsStored
    <2> QED
        BY <2>1, <2>2
<1>9. id \notin exposed => r.holds = sv.rows
    <2>1. CASE Kept(entry[e], r)
        <3>1. \A t \in Steps : ~Saves(step, t, e)
            BY <1>5 DEF Saves, Writing
        <3>2. entry[e].of = id /\ entry[e].rev = sv.gen /\ entry[e].holds = r.holds
            BY <1>1, <1>2, <2>1 DEF Kept
        <3> QED
            BY <1>2, <3>1, <3>2 DEF EntryFits
    <2>2. CASE AsStored(entry[e], r)
        BY <1>1, <1>2, <2>2 DEF AsStored
    <2> QED
        BY <2>1, <2>2
<1>10. PICK h : h = Append(r.holds, n)
    OBVIOUS
<1>11. /\ In(n, h) /\ \A j \in DOMAIN h : h[j] <= wf[id].no
       /\ Prefix(sv.rows, h) /\ (id \notin exposed => h = Append(sv.rows, n))
    <2>1. In(n, h) /\ \A j \in DOMAIN h : h[j] = n \/ (j \in DOMAIN r.holds /\ h[j] = r.holds[j])
        BY <1>3, <1>10, AppendFacts
    <2>2. \A j \in DOMAIN h : h[j] <= wf[id].no
        BY <1>6, <1>7, <2>1
    <2>3. Prefix(sv.rows, h)
        BY <1>3, <1>8, <1>10, PrefixFacts
    <2> QED
        BY <1>9, <1>10, <2>1, <2>2, <2>3
<1>12. /\ entry'[e].of = id /\ entry'[e].rev = sv.gen /\ entry'[e].rev = step[s].base /\ entry'[e].stale
       /\ entry'[e].holds = h
    BY <1>1, <1>3, <1>10
<1>13. \A t \in Steps : Saves(step', t, e) <=> t = s
    BY <1>4, <1>5 DEF Saves, Writing
<1>14. EntryFits(e, entry'[e], step', sv, wf[id], exposed)
    <2>1. ASSUME id \notin exposed, NEW t \in Steps, Saves(step', t, e) PROVE h = Append(sv.rows, step'[t].no)
        <3>1. step'[t].no = n
            BY <1>1, <1>4, <1>13, <2>1
        <3> QED
            BY <1>11, <2>1, <3>1
    <2>2. ~(\A t \in Steps : ~Saves(step', t, e))
        BY <1>13
    <2>3. PICK p : p = entry'[e]
        OBVIOUS
    <2>4. p.of = id /\ p.rev = sv.gen /\ p.holds = h /\ sv.gen <= sv.gen
        BY <1>3, <1>12, <2>3
    <2>5. EntryFits(e, p, step', sv, wf[id], exposed)
        BY <1>11, <2>1, <2>2, <2>4 DEF EntryFits
    <2> QED
        BY <2>3, <2>5
<1>15. ASSUME NEW x \in Slots, entry'[x].of # None
       PROVE  EntryFits(x, entry'[x], step', saved[entry'[x].of], wf[entry'[x].of], exposed)
    <2>1. CASE x = e
        BY <1>1, <1>12, <1>14, <2>1
    <2>2. CASE x # e
        <3>1. Kept(entry[x], entry'[x])
            BY <2>2
        <3>2. EntryFits(x, entry[x], step, saved[entry'[x].of], wf[entry'[x].of], exposed)
            BY <1>15, <3>1 DEF Kept, Committed, Fitted
        <3>3. \A t \in Steps : (Saves(step', t, x) <=> Saves(step, t, x)) /\ (step'[t].at = x <=> step[t].at = x)
            BY <1>4, <2>2 DEF Saves
        <3>4. \A t \in Steps : Saves(step', t, x) => step'[t].no = step[t].no
            BY <1>4
        <3> QED
            BY <3>1, <3>2, <3>3, <3>4 DEF Kept, EntryFits
    <2> QED
        BY <2>1, <2>2
<1>16. ASSUME NEW t \in Steps, step'[t].at # None
       PROVE  UseFits(step'[t], entry'[step'[t].at], saved[step'[t].of], exposed)
    <2>1. CASE t = s
        BY <1>1, <1>4, <1>11, <1>12, <2>1 DEF UseFits
    <2>2. CASE t # s
        <3>1. step'[t] = step[t] /\ UseFits(step[t], entry[step[t].at], saved[step[t].of], exposed) /\ step[t].at \in Slots
            BY <1>4, <1>16, <2>2, NowTypes DEF Committed, Fitted, Attempt
        <3>2. CASE step[t].at = e
            <4>1. step[t].pc \notin {"save", "reading"}
                BY <1>5, <2>2, <3>2 DEF Reading, Writing
            <4> QED
                BY <1>2, <1>12, <3>1, <3>2, <4>1 DEF UseFits
        <3>3. CASE step[t].at # e
            <4>1. Kept(entry[step[t].at], entry'[step[t].at])
                BY <3>1, <3>3
            <4> QED
                BY <3>1, <4>1 DEF UseFits, Kept
        <3> QED
            BY <3>2, <3>3
    <2> QED
        BY <2>1, <2>2
<1> QED
    BY <1>15, <1>16 DEF Fitted

LEMMA ApplyCommitted ==
    ASSUME IInv, IInv', Committed, NEW s \in Steps, Apply(s)
    PROVE  Committed'
<1>1. PICK e, c : e = step[s].at /\ c = Synced(Now, e)
    OBVIOUS
<1>2. /\ step[s].pc = "commit" /\ step[s] \in Attempt /\ saved' = saved /\ exposed' = exposed /\ e \in Slots
      /\ step[s].kind = "commit"
    BY <1>1, AtHarness DEF Apply, IInv, Attempts, Committed, Kinds
<1>3. /\ Loaded(Now, c, e) /\ c \in Cache /\ c.entry[e].rev = saved[step[s].of].gen /\ c.entry[e].of = step[s].of
      /\ Loaded(Now, Release(Unlock(c, e), e), e) /\ SameHeld(Now, Release(Unlock(Now, e), e))
    BY <1>1, <1>2, LoadsHeld
<1>4. CASE /\ c.entry[e].rev # step[s].base
           /\ Becomes(Release(Unlock(c, e), e)) /\ Ends(s) /\ Answers(s, c.entry[e].rev)
    <2>1. PICK d : d = Release(Unlock(c, e), e)
        OBVIOUS
    <2>2. /\ Becomes(d) /\ Loaded(Now, d, step[s].at) /\ Ends(s)
          /\ saved[step[s].of].gen # step[s].base /\ Answers(s, saved[step[s].of].gen)
        BY <1>1, <1>3, <1>4, <2>1
    <2> QED
        BY <1>2, <2>2, LoadedEnds
<1>5. CASE /\ c.entry[e].rev = step[s].base
           /\ Becomes(With(c, e, [c.entry[e] EXCEPT !.stale = TRUE, !.holds = Append(@, step[s].no)]))
           /\ step' = [step EXCEPT ![s].pc = "save"]
           /\ UNCHANGED <<wf, acked, lost, troubles>>
    <2>1. PICK r, h : r = c.entry[e] /\ h = Append(r.holds, step[s].no)
        OBVIOUS
    <2>2. PICK p : p = [r EXCEPT !.stale = TRUE, !.holds = h]
        OBVIOUS
    <2>3. r \in Entry /\ c.entry \in [Slots -> Entry]
        BY <1>2, <1>3, <2>1 DEF Cache
    <2>4. p.of = r.of /\ p.rev = r.rev /\ p.stale = TRUE /\ p.holds = h
        BY <2>2, <2>3 DEF Entry
    <2>5. Becomes(With(c, e, p))
        BY <1>5, <2>1, <2>2
    <2>6. entry' = [c.entry EXCEPT ![e] = p]
        BY <1>3, <2>5 DEF Becomes, With, Cache
    <2>7. entry'[e] = p /\ \A x \in Slots : x # e => entry'[x] = c.entry[x]
        BY <1>2, <2>3, <2>6
    <2>8. \A x \in Slots : x # e => Kept(entry[x], entry'[x])
        BY <1>3, <2>7, NowFacts DEF Loaded
    <2>9. Kept(entry[e], r) \/ AsStored(entry[e], r)
        BY <1>3, <2>1, NowFacts DEF Loaded
    <2>10. PICK q : q = [step[s] EXCEPT !.pc = "save"]
        OBVIOUS
    <2>11. /\ q.at = e /\ q.of = step[s].of /\ q.no = step[s].no /\ q.base = step[s].base
           /\ q.live = step[s].live /\ q.kind = step[s].kind /\ q.pc = "save"
        BY <1>1, <1>2, <2>10 DEF Attempt
    <2>12. step' = [step EXCEPT ![s] = q]
        BY <1>5, <2>10
    <2>13. UNCHANGED <<saved, wf, exposed>> /\ acked' = acked /\ lost' = lost
        BY <1>2, <1>5
    <2>14. /\ r.rev = saved[step[s].of].gen /\ r.rev = step[s].base
           /\ entry'[e].of = r.of /\ entry'[e].rev = r.rev /\ entry'[e].stale
           /\ entry'[e].holds = Append(r.holds, step[s].no)
        BY <1>3, <1>5, <2>1, <2>4, <2>7
    <2>15. Fitted(entry', step', saved', wf', exposed')
        BY <1>1, <1>2, <2>3, <2>8, <2>9, <2>11, <2>12, <2>13, <2>14, AppliedFitted
    <2>16. step'[s] = q /\ \A t \in Steps : t # s => step'[t] = step[t]
        BY <2>12 DEF IInv, Attempts
    <2>17. Fewer(step, step') /\ Kinds(step')
        <3>1. Kinds(step)
            BY DEF Committed
        <3>2. Committing(q) => Committing(step[s])
            BY <1>2, <2>11 DEF Committing
        <3> QED
            BY <1>2, <2>11, <2>16, <3>1, <3>2 DEF Fewer, Kinds
    <2>18. Stored(saved', wf', acked', lost', exposed', step')
        BY <2>13, <2>17, FewerStored DEF Committed
    <2> QED
        BY <2>13, <2>15, <2>17, <2>18 DEF Committed
<1>6. CASE /\ \E synced \in BOOLEAN : Becomes(Release(Unlock(IF synced THEN c ELSE Now, e), e))
           /\ Ends(s) /\ \E again \in BOOLEAN : Fails(s, again)
    <2>1. PICK d : Becomes(d) /\ (d = Release(Unlock(c, e), e) \/ d = Release(Unlock(Now, e), e))
        <3>1. PICK synced \in BOOLEAN : Becomes(Release(Unlock(IF synced THEN c ELSE Now, e), e))
            BY <1>6
        <3>2. CASE synced
            BY <3>1, <3>2
        <3>3. CASE ~synced
            BY <3>1, <3>3
        <3> QED
            BY <3>2, <3>3
    <2>2. Loaded(Now, d, step[s].at)
        BY <1>1, <1>2, <1>3, <2>1, LoadedFacts
    <2> QED
        BY <1>2, <1>6, <2>1, <2>2, LoadedEnds
<1> QED
    BY <1>1, <1>4, <1>5, <1>6 DEF Apply

\* What the end of a save leaves to the other steps and harnesses.
Left(s, e) ==
  /\ step'[s] = NoStep /\ \A t \in Steps : t # s => step'[t] = step[t]
  /\ \A t \in Steps : step'[t].at = e => t # s /\ step'[t].pc \notin Reading \cup Writing
  /\ \A t \in Steps : ~Saves(step', t, e)
  /\ \A x \in Slots : x # e => \A t \in Steps :
       /\ Saves(step', t, x) <=> Saves(step, t, x)
       /\ step'[t].at = x <=> step[t].at = x
       /\ Saves(step', t, x) => step'[t].no = step[t].no

LEMMA SaveLeaves ==
    ASSUME IInv, NEW s \in Steps, step[s].pc = "save", NEW e, e = step[s].at, step' = [step EXCEPT ![s] = NoStep]
    PROVE  Left(s, e)
<1>1. e \in Slots /\ e # None /\ NoStep.at = None /\ None \notin Slots
    BY AtHarness, Constants
<1>2. step'[s] = NoStep /\ \A t \in Steps : t # s => step'[t] = step[t]
    BY DEF IInv, Attempts
<1>3. \A t \in Steps : step[t].at = e /\ t # s => step[t].pc \notin Reading \cup Writing
    BY WriterAlone DEF Writing
<1>4. \A t \in Steps : step'[t].at = e => t # s /\ step'[t].pc \notin Reading \cup Writing
    BY <1>1, <1>2, <1>3
<1>5. \A t \in Steps : ~Saves(step', t, e)
    BY <1>4 DEF Saves, Writing
<1>6. ASSUME NEW x \in Slots, x # e, NEW t \in Steps
      PROVE  /\ Saves(step', t, x) <=> Saves(step, t, x)
             /\ step'[t].at = x <=> step[t].at = x
             /\ Saves(step', t, x) => step'[t].no = step[t].no
    <2>1. CASE t = s
        BY <1>1, <1>2, <1>6, <2>1 DEF Saves
    <2>2. CASE t # s
        BY <1>2, <2>2 DEF Saves
    <2> QED
        BY <2>1, <2>2
<1> QED
    BY <1>2, <1>4, <1>5, <1>6 DEF Left

\* A harness with the same content, under steps that use it as before.
LEMMA EntryAlike ==
    ASSUME NEW x, NEW r, NEW r2, NEW st, NEW st2, NEW sv, NEW w, NEW w2, NEW ex,
           EntryFits(x, r, st, sv, w, ex), w2.no = w.no,
           r2.of = r.of, r2.rev = r.rev, r2.holds = r.holds, r2.stale = r.stale,
           \A t \in Steps : /\ Saves(st2, t, x) <=> Saves(st, t, x)
                            /\ st2[t].at = x <=> st[t].at = x
                            /\ Saves(st2, t, x) => st2[t].no = st[t].no
    PROVE  EntryFits(x, r2, st2, sv, w2, ex)
<1>1. r2.rev <= sv.gen /\ \A j \in DOMAIN r2.holds : r2.holds[j] <= w2.no
    BY DEF EntryFits
<1>2. r2.rev = sv.gen => Prefix(sv.rows, r2.holds)
    BY DEF EntryFits
<1>3. ASSUME r2.rev = sv.gen, r2.of \notin ex, NEW t \in Steps, Saves(st2, t, x)
      PROVE  r2.holds = Append(sv.rows, st2[t].no)
    <2>1. r.holds = Append(sv.rows, st[t].no)
        BY <1>3 DEF EntryFits
    <2> QED
        BY <1>3, <2>1
<1>4. ASSUME r2.rev = sv.gen, r2.of \notin ex, \A t \in Steps : ~Saves(st2, t, x)
      PROVE  r2.holds = sv.rows \/ (r2.stale /\ \A t \in Steps : st2[t].at # x)
    <2>1. r.holds = sv.rows \/ (r.stale /\ \A t \in Steps : st[t].at # x)
        BY <1>4 DEF EntryFits
    <2> QED
        BY <2>1
<1> QED
    BY <1>1, <1>2, <1>3, <1>4 DEF EntryFits

\* The store takes what the harness holds, at the revision that the harness knew.
LEMMA SavedFitted ==
    ASSUME IInv, IInv', Committed, NEW s \in Steps, step[s].pc = "save", NEW e, e = step[s].at,
           NEW id, id = step[s].of, step' = [step EXCEPT ![s] = NoStep], exposed' = exposed,
           \A i \in Ids : wf'[i].no = wf[i].no, saved[id].gen = entry[e].rev,
           saved' = [saved EXCEPT ![id] = [gen |-> saved[id].gen + 1, rows |-> entry[e].holds]],
           entry'[e].of = id, entry'[e].holds = entry[e].holds,
           entry'[e].rev = saved[id].gen \/ entry'[e].rev = saved[id].gen + 1,
           \A x \in Slots : x # e => Kept(entry[x], entry'[x])
    PROVE  Fitted(entry', step', saved', wf', exposed')
<1>1. PICK sv, new, h : sv = saved[id] /\ new = [gen |-> sv.gen + 1, rows |-> h] /\ h = entry[e].holds
    OBVIOUS
<1>2. /\ e \in Slots /\ entry[e] \in Entry /\ entry[e].of = id /\ id \in Ids /\ h \in Seq(Nat)
      /\ EntryFits(e, entry[e], step, sv, wf[id], exposed) /\ entry[e].rev = sv.gen
    BY <1>1, HarnessFits
<1>3. /\ step[s].no \in Nat /\ sv \in Checkpoint /\ sv.gen \in Nat /\ sv.rows \in Seq(Nat)
    BY <1>1, <1>2, NowTypes DEF Attempt, Checkpoint
<1>4. new.gen = sv.gen + 1 /\ new.rows = h
    BY <1>1
<1>5. saved'[id] = new /\ \A i \in Ids : i # id => saved'[i] = saved[i]
    <2>1. saved' = [saved EXCEPT ![id] = new]
        BY <1>1
    <2> QED
        BY <1>2, <2>1, NowTypes
<1>6. /\ step'[s] = NoStep /\ \A t \in Steps : t # s => step'[t] = step[t]
      /\ \A t \in Steps : step'[t].at = e => t # s /\ step'[t].pc \notin Reading \cup Writing
      /\ \A t \in Steps : ~Saves(step', t, e)
      /\ \A x \in Slots : x # e => \A t \in Steps :
           /\ Saves(step', t, x) <=> Saves(step, t, x)
           /\ step'[t].at = x <=> step[t].at = x
           /\ Saves(step', t, x) => step'[t].no = step[t].no
    <2>1. Left(s, e)
        BY SaveLeaves
    <2> QED
        BY <2>1 DEF Left
<1>7. EntryFits(e, entry'[e], step', new, wf'[id], exposed)
    <2>1. PICK p : p = entry'[e]
        OBVIOUS
    <2>2. p.of = id /\ p.holds = h /\ (p.rev = sv.gen \/ p.rev = sv.gen + 1)
        BY <1>1, <2>1
    <2>3. p.rev <= new.gen
        BY <1>3, <1>4, <2>2
    <2>4. \A j \in DOMAIN h : h[j] <= wf'[id].no
        BY <1>1, <1>2 DEF EntryFits
    <2>5. Prefix(new.rows, h)
        BY <1>2, <1>4, PrefixFacts
    <2>6. EntryFits(e, p, step', new, wf'[id], exposed)
        BY <1>4, <1>6, <2>2, <2>3, <2>4, <2>5 DEF EntryFits
    <2> QED
        BY <2>1, <2>6
<1>8. ASSUME NEW x \in Slots, entry'[x].of # None
      PROVE  EntryFits(x, entry'[x], step', saved'[entry'[x].of], wf'[entry'[x].of], exposed')
    <2>1. CASE x = e
        BY <1>5, <1>7, <2>1
    <2>2. CASE x # e
        <3>1. PICK p, i : p = entry[x] /\ i = p.of
            OBVIOUS
        <3>2. entry'[x].of = i /\ entry'[x].rev = p.rev /\ entry'[x].holds = p.holds /\ entry'[x].stale = p.stale
            BY <2>2, <3>1 DEF Kept
        <3>3. EntryFits(x, p, step, saved[i], wf[i], exposed) /\ i \in Ids /\ p.rev \in Nat
            BY <1>8, <3>1, <3>2, NowTypes DEF Committed, Fitted, Entry
        <3>4. CASE i = id
            <4>1. p.rev <= new.gen /\ p.rev # new.gen
                <5>1. p.rev <= sv.gen
                    BY <1>1, <3>3, <3>4 DEF EntryFits
                <5> QED
                    BY <1>3, <1>4, <3>3, <5>1
            <4>2. \A j \in DOMAIN p.holds : p.holds[j] <= wf'[i].no
                BY <3>3 DEF EntryFits
            <4> QED
                BY <1>5, <3>2, <3>4, <4>1, <4>2 DEF EntryFits
        <3>5. CASE i # id
            <4>1. saved'[i] = saved[i] /\ wf'[i].no = wf[i].no
                BY <1>5, <3>3, <3>5
            <4>2. \A t \in Steps : /\ Saves(step', t, x) <=> Saves(step, t, x)
                                   /\ step'[t].at = x <=> step[t].at = x
                                   /\ Saves(step', t, x) => step'[t].no = step[t].no
                BY <1>6, <2>2
            <4>3. EntryFits(x, entry'[x], step', saved[i], wf'[i], exposed)
                <5>1. PICK r2, w, w2, st, st2, v, ex :
                        /\ r2 = entry'[x] /\ w = wf[i] /\ w2 = wf'[i] /\ v = saved[i] /\ ex = exposed
                        /\ st = step /\ st2 = step'
                    OBVIOUS
                <5>2. EntryFits(x, p, st, v, w, ex) /\ w2.no = w.no
                    BY <3>3, <4>1, <5>1
                <5>3. r2.of = p.of /\ r2.rev = p.rev /\ r2.holds = p.holds /\ r2.stale = p.stale
                    BY <3>1, <3>2, <5>1
                <5>4. \A t \in Steps : /\ Saves(st2, t, x) <=> Saves(st, t, x)
                                       /\ st2[t].at = x <=> st[t].at = x
                                       /\ Saves(st2, t, x) => st2[t].no = st[t].no
                    BY <4>2, <5>1
                <5>5. EntryFits(x, r2, st2, v, w2, ex)
                    BY <5>2, <5>3, <5>4, EntryAlike
                <5> QED
                    BY <5>1, <5>5
            <4> QED
                BY <3>2, <4>1, <4>3
        <3> QED
            BY <3>4, <3>5
    <2> QED
        BY <2>1, <2>2
<1>9. ASSUME NEW t \in Steps, step'[t].at # None
      PROVE  UseFits(step'[t], entry'[step'[t].at], saved'[step'[t].of], exposed')
    <2>1. t # s /\ step'[t] = step[t] /\ step[t].at \in Slots
        BY <1>6, <1>9, Constants, NowTypes DEF Attempt
    <2>2. UseFits(step[t], entry[step[t].at], saved[step[t].of], exposed)
        BY <1>9, <2>1 DEF Committed, Fitted
    <2>3. CASE step[t].at = e
        <3>1. step[t].pc \notin {"save", "reading"}
            BY <1>6, <2>1, <2>3 DEF Reading, Writing
        <3> QED
            BY <1>2, <2>1, <2>2, <2>3, <3>1 DEF UseFits
    <2>4. CASE step[t].at # e
        <3>1. Kept(entry[step[t].at], entry'[step[t].at])
            BY <2>1, <2>4
        <3>2. ASSUME step[t].pc = "reading", step[t].of \notin exposed
              PROVE  Prefix(entry[step[t].at].holds, saved'[step[t].of].rows)
            <4>1. Prefix(entry[step[t].at].holds, saved[step[t].of].rows)
                BY <2>2, <3>2 DEF UseFits
            <4>2. CASE step[t].of = id
                <5>1. Saves(step, s, e)
                    BY DEF Saves
                <5>2. h = Append(sv.rows, step[s].no)
                    BY <1>1, <1>2, <3>2, <4>2, <5>1 DEF EntryFits
                <5>3. entry[step[t].at].holds \in Seq(Nat)
                    BY <2>1, NowTypes DEF Entry
                <5>4. Prefix(entry[step[t].at].holds, h)
                    BY <1>1, <1>3, <4>1, <4>2, <5>2, <5>3, PrefixFacts
                <5> QED
                    BY <1>4, <1>5, <4>2, <5>4
            <4>3. CASE step[t].of # id
                <5>1. step[t].of \in Ids
                    BY <3>2 DEF IInv, Attempts
                <5> QED
                    BY <1>5, <4>1, <4>3, <5>1
            <4> QED
                BY <4>2, <4>3
        <3> QED
            BY <2>1, <2>2, <3>1, <3>2 DEF UseFits, Kept
    <2> QED
        BY <2>3, <2>4
<1> QED
    BY <1>8, <1>9 DEF Fitted

\* The harness was behind the store, nobody else uses it, or those who do count as
\* exposed to a Commit that fails on it.
Apart(s) ==
  \/ saved[step[s].of].gen # entry[step[s].at].rev
  \/ step[s].of \in exposed'
  \/ \A t \in Steps : t # s => step[t].at # step[s].at

\* The store does not.
LEMMA UnsavedFitted ==
    ASSUME IInv, IInv', Committed, NEW s \in Steps, step[s].pc = "save", NEW e, e = step[s].at,
           NEW id, id = step[s].of, step' = [step EXCEPT ![s] = NoStep], exposed \subseteq exposed',
           \A i \in Ids : wf'[i].no = wf[i].no, saved' = saved,
           \A x \in Slots : Kept(entry[x], entry'[x]), Apart(s)
    PROVE  Fitted(entry', step', saved', wf', exposed')
<1>1. PICK sv : sv = saved[id]
    OBVIOUS
<1>2. /\ e \in Slots /\ entry[e] \in Entry /\ entry[e].of = id /\ id \in Ids
      /\ EntryFits(e, entry[e], step, sv, wf[id], exposed) /\ UseFits(step[s], entry[e], sv, exposed)
    BY <1>1, HarnessFits
<1>3. /\ step'[s] = NoStep /\ \A t \in Steps : t # s => step'[t] = step[t]
      /\ \A t \in Steps : step'[t].at = e => t # s /\ step'[t].pc \notin Reading \cup Writing
      /\ \A t \in Steps : ~Saves(step', t, e)
      /\ \A x \in Slots : x # e => \A t \in Steps :
           /\ Saves(step', t, x) <=> Saves(step, t, x)
           /\ step'[t].at = x <=> step[t].at = x
           /\ Saves(step', t, x) => step'[t].no = step[t].no
    <2>1. Left(s, e)
        BY SaveLeaves
    <2> QED
        BY <2>1 DEF Left
<1>4. EntryFits(e, entry'[e], step', sv, wf'[id], exposed')
    <2>1. PICK p, r : p = entry'[e] /\ r = entry[e]
        OBVIOUS
    <2>2. p.of = id /\ p.rev = r.rev /\ p.holds = r.holds /\ p.stale
        BY <1>2, <2>1 DEF Kept, UseFits
    <2>3. ASSUME p.rev = sv.gen, id \notin exposed' PROVE \A t \in Steps : step'[t].at # e
        <3>1. \A t \in Steps : t # s => step[t].at # e
            BY <1>1, <2>1, <2>2, <2>3 DEF Apart
        <3> QED
            BY <1>3, <3>1
    <2>4. EntryFits(e, p, step', sv, wf'[id], exposed')
        BY <1>2, <1>3, <2>1, <2>2, <2>3 DEF EntryFits
    <2> QED
        BY <2>1, <2>4
<1>5. ASSUME NEW x \in Slots, entry'[x].of # None
      PROVE  EntryFits(x, entry'[x], step', saved'[entry'[x].of], wf'[entry'[x].of], exposed')
    <2>1. CASE x = e
        BY <1>1, <1>2, <1>4, <2>1 DEF Kept
    <2>2. CASE x # e
        <3>1. PICK p, i : p = entry[x] /\ i = p.of
            OBVIOUS
        <3>2. entry'[x].of = i /\ entry'[x].rev = p.rev /\ entry'[x].holds = p.holds /\ entry'[x].stale = p.stale
            BY <3>1 DEF Kept
        <3>3. EntryFits(x, p, step, saved[i], wf[i], exposed) /\ i \in Ids
            BY <1>5, <3>1, <3>2, NowTypes DEF Committed, Fitted, Entry
        <3>4. \A t \in Steps : /\ Saves(step', t, x) <=> Saves(step, t, x)
                               /\ step'[t].at = x <=> step[t].at = x
                               /\ Saves(step', t, x) => step'[t].no = step[t].no
            BY <1>3, <2>2
        <3>5. \A t \in Steps : Saves(step', t, x) => Append(saved[i].rows, step'[t].no) = Append(saved[i].rows, step[t].no)
            BY <3>4
        <3>6. wf'[i].no = wf[i].no
            BY <3>3
        <3> QED
            BY <3>1, <3>2, <3>3, <3>4, <3>5, <3>6 DEF EntryFits
    <2> QED
        BY <2>1, <2>2
<1>6. ASSUME NEW t \in Steps, step'[t].at # None
      PROVE  UseFits(step'[t], entry'[step'[t].at], saved'[step'[t].of], exposed')
    <2>1. t # s /\ step'[t] = step[t] /\ step[t].at \in Slots
        BY <1>3, <1>6, Constants, NowTypes DEF Attempt
    <2>2. UseFits(step[t], entry[step[t].at], saved[step[t].of], exposed)
        BY <1>6, <2>1 DEF Committed, Fitted
    <2> QED
        BY <2>1, <2>2 DEF UseFits, Kept
<1> QED
    BY <1>5, <1>6 DEF Fitted

LEMMA SaveCommitted ==
    ASSUME IInv, IInv', Committed, NEW s \in Steps, Save(s)
    PROVE  Committed'
<1>1. PICK e, id, sv, n : e = step[s].at /\ id = step[s].of /\ sv = saved[id] /\ n = step[s].no
    OBVIOUS
<1>2. PICK c, to : c = Release(Unlock(Now, e), e) /\ to = sv.gen + 1
    OBVIOUS
<1>3. PICK r : r = [c.entry[e] EXCEPT !.rev = to, !.stale = FALSE]
    OBVIOUS
<1>4. /\ step[s].pc = "save" /\ step[s].kind = "commit" /\ Committing(step[s])
      /\ step' = [step EXCEPT ![s] = NoStep] /\ step[s].pc \in Writing /\ step[s].of \in Ids
    BY DEF Save, Ends, Committing, Committed, Kinds, Writing, IInv, Attempts
<1>5. /\ e \in Slots /\ entry[e] \in Entry /\ entry[e].of = id /\ id \in Ids /\ entry[e].holds \in Seq(Nat)
      /\ EntryFits(e, entry[e], step, sv, wf[id], exposed) /\ UseFits(step[s], entry[e], sv, exposed)
    BY <1>1, <1>4, HarnessFits
<1>6. /\ n \in Nat /\ sv \in Checkpoint /\ sv.gen \in Nat /\ sv.rows \in Seq(Nat) /\ e # None /\ to \in Nat
      /\ step[s].base \in Nat
    BY <1>1, <1>2, <1>5, NowTypes, Constants DEF Attempt, Checkpoint
<1>7. SameHeld(Now, c) /\ c \in Cache
    <2>1. Good(Now, Using) /\ entry[e].of # None /\ Now.entry = entry
        BY <1>1, <1>4, NowFacts, AtHarness
    <2>2. PICK u : u = Unlock(Now, e)
        OBVIOUS
    <2>3. /\ Good(u, Using) /\ u.entry[e].readers = entry[e].readers /\ u.entry[e].writer = None
          /\ \A x \in Slots : x # e => u.entry[x] = entry[x]
        BY <1>5, <2>1, <2>2, UnlockGood
    <2>4. Good(Release(u, e), [Using EXCEPT ![e] = @ \ {s}])
        BY <1>1, <1>4, <2>3, LeaveWrite
    <2> QED
        BY <1>1, <1>2, <1>4, <2>2, <2>4, NowHeld DEF Good
<1>8. \A x \in Slots : Kept(entry[x], c.entry[x])
    BY <1>7, NowFacts DEF SameHeld
<1>9. entry[e].rev = step[s].base /\ In(n, entry[e].holds) /\ entry[e].rev <= sv.gen
    BY <1>1, <1>4, <1>5 DEF UseFits, EntryFits
<1>10. ASSUME Becomes(With(c, e, r))
       PROVE  /\ \A x \in Slots : x # e => Kept(entry[x], entry'[x])
              /\ entry'[e].of = id /\ entry'[e].holds = entry[e].holds /\ entry'[e].rev = sv.gen + 1
    <2>1. c.entry[e] \in Entry /\ c.entry \in [Slots -> Entry]
        BY <1>5, <1>7 DEF Cache
    <2>2. r.of = c.entry[e].of /\ r.holds = c.entry[e].holds /\ r.rev = to
        BY <1>3, <2>1 DEF Entry
    <2>3. entry' = [c.entry EXCEPT ![e] = r]
        BY <1>7, <1>10 DEF Becomes, With, Cache
    <2>4. entry'[e] = r /\ \A x \in Slots : x # e => entry'[x] = c.entry[x]
        BY <1>5, <2>1, <2>3
    <2> QED
        BY <1>2, <1>5, <1>8, <2>2, <2>4 DEF Kept
<1>11. ASSUME Becomes(c) PROVE \A x \in Slots : Kept(entry[x], entry'[x])
    BY <1>7, <1>11, BecomesHeld
<1>12. step'[s] = NoStep /\ \A t \in Steps : t # s => step'[t] = step[t]
    BY <1>4 DEF IInv, Attempts
<1>13. Fewer(step, step') /\ Kinds(step') /\ ~Committing(step'[s])
    <2>1. Kinds(step)
        BY DEF Committed
    <2> QED
        BY <1>12, <2>1, NoStepFacts DEF Fewer, Kinds
<1>14. /\ Types /\ Attempts /\ acked \in [Ids -> SUBSET Nat] /\ lost \in [Ids -> SUBSET Nat]
       /\ Stored(saved, wf, acked, lost, exposed, step)
    BY DEF IInv, Committed
<1>15. PICK new, sv2 : new = [gen |-> sv.gen + 1, rows |-> entry[e].holds] /\ sv2 = [saved EXCEPT ![id] = new]
    OBVIOUS
<1>16. CASE /\ sv.gen = entry[e].rev /\ saved' = sv2 /\ exposed' = exposed
            /\ Becomes(With(c, e, r)) \/ Becomes(c)
            /\ Answers(s, to) \/ \E again \in BOOLEAN : Fails(s, again)
    <2>1. Stored(sv2, wf, acked, lost, exposed, step)
        <3>1. Prefix(sv.rows, entry[e].holds) /\ \A j \in DOMAIN entry[e].holds : entry[e].holds[j] <= wf[id].no
            BY <1>5, <1>16 DEF EntryFits
        <3>2. id \notin exposed => entry[e].holds = Append(sv.rows, n)
            <4>1. Saves(step, s, e)
                BY <1>1, <1>4 DEF Saves
            <4> QED
                BY <1>1, <1>5, <1>16, <4>1 DEF EntryFits
        <3>3. /\ saved \in [Ids -> Checkpoint] /\ wf \in [Ids -> Workflow] /\ step \in [Steps -> Attempt]
            BY NowTypes
        <3>4. \A t \in Steps : Committing(step[t]) => step[t].of \in Ids
            BY DEF Committing, IInv, Attempts
        <3>5. PICK rows : rows = entry[e].holds
            OBVIOUS
        <3>6. /\ rows \in Seq(Nat) /\ Prefix(saved[id].rows, rows) /\ In(step[s].no, rows)
              /\ \A j \in DOMAIN rows : rows[j] <= wf[id].no
              /\ id \notin exposed => rows = Append(saved[id].rows, step[s].no)
              /\ saved[id].gen = step[s].base
            BY <1>1, <1>5, <1>9, <1>16, <3>1, <3>2, <3>5
        <3>7. Stored([saved EXCEPT ![id] = [gen |-> saved[id].gen + 1, rows |-> rows]], wf, acked, lost, exposed, step)
            BY <1>1, <1>4, <1>5, <1>14, <3>3, <3>4, <3>6, SaveStored
        <3> QED
            BY <1>1, <1>15, <3>5, <3>7
    <2>2. sv2 \in [Ids -> Checkpoint] /\ sv2[id] = new /\ new.gen = to
        <3>1. new \in Checkpoint
            BY <1>2, <1>5, <1>6, <1>15 DEF Checkpoint
        <3> QED
            BY <1>2, <1>5, <1>15, <3>1, NowTypes
    <2>3. /\ Stored(sv2, wf', acked', lost', exposed', step')
          /\ acked' \in [Ids -> SUBSET Nat] /\ lost' \in [Ids -> SUBSET Nat]
          /\ \A i \in Ids : wf'[i].no = wf[i].no
        <3>1. CASE Answers(s, to)
            <4>1. sv2[step[s].of].gen = to /\ to # step[s].base
                BY <1>1, <1>2, <1>6, <1>9, <1>16, <2>2
            <4>2. Answers(s, sv2[step[s].of].gen)
                BY <3>1, <4>1
            <4> QED
                BY <1>4, <1>13, <1>14, <1>16, <2>1, <2>2, <4>1, <4>2, AnswersStored
        <3>2. CASE \E again \in BOOLEAN : Fails(s, again)
            <4>1. PICK again \in BOOLEAN : Fails(s, again)
                BY <3>2
            <4>2. exposed \subseteq exposed'
                BY <1>16
            <4> QED
                BY <1>4, <1>13, <1>14, <2>1, <4>1, <4>2, FailsStored
        <3> QED
            BY <1>16, <3>1, <3>2
    <2>4. /\ \A x \in Slots : x # e => Kept(entry[x], entry'[x])
          /\ entry'[e].of = id /\ entry'[e].holds = entry[e].holds
          /\ entry'[e].rev = saved[id].gen \/ entry'[e].rev = saved[id].gen + 1
        <3>1. CASE Becomes(With(c, e, r))
            BY <1>1, <1>10, <3>1
        <3>2. CASE Becomes(c)
            BY <1>1, <1>5, <1>11, <1>16, <3>2 DEF Kept
        <3> QED
            BY <1>16, <3>1, <3>2
    <2>5. saved' = [saved EXCEPT ![id] = [gen |-> saved[id].gen + 1, rows |-> entry[e].holds]]
        BY <1>1, <1>15, <1>16
    <2>6. saved[id].gen = entry[e].rev /\ exposed' = exposed
        BY <1>1, <1>16
    <2>7. Fitted(entry', step', saved', wf', exposed')
        BY <1>1, <1>4, <2>3, <2>4, <2>5, <2>6, SavedFitted
    <2> QED
        BY <1>13, <1>16, <2>3, <2>7 DEF Committed
<1>17. CASE /\ saved' = saved /\ exposed \subseteq exposed' /\ Becomes(c)
            /\ \E again \in BOOLEAN : Fails(s, again)
            /\ Apart(s)
    <2>1. PICK again \in BOOLEAN : Fails(s, again)
        BY <1>17
    <2>2. /\ Stored(saved, wf', acked', lost', exposed', step')
          /\ acked' \in [Ids -> SUBSET Nat] /\ lost' \in [Ids -> SUBSET Nat]
          /\ \A i \in Ids : wf'[i].no = wf[i].no
        BY <1>4, <1>13, <1>14, <1>17, <2>1, FailsStored
    <2>3. \A x \in Slots : Kept(entry[x], entry'[x])
        BY <1>11, <1>17
    <2>4. e = step[s].at /\ id = step[s].of /\ saved' = saved /\ exposed \subseteq exposed' /\ Apart(s)
        BY <1>1, <1>17
    <2>5. Fitted(entry', step', saved', wf', exposed')
        BY <1>4, <2>2, <2>3, <2>4, UnsavedFitted
    <2>6. Stored(saved', wf', acked', lost', exposed', step')
        BY <1>17, <2>2
    <2> QED
        BY <1>13, <2>2, <2>5, <2>6 DEF Committed
<1>18. ASSUME ~(entry[e].users > 1) PROVE \A t \in Steps : t # s => step[t].at # e
    <2>1. /\ s \in Using[e] /\ Using[e] \in SUBSET Steps /\ entry[e].users = Cardinality(Using[e])
          /\ IsFiniteSet(Using[e]) /\ Cardinality(Using[e]) \in Nat
        BY <1>1, <1>4, <1>5, AtHarness, NowFacts, UsersOfNone DEF Good
    <2>2. Cardinality(Using[e] \ {s}) = Cardinality(Using[e]) - 1 /\ IsFiniteSet(Using[e] \ {s})
        BY <2>1, FS_RemoveElement
    <2>3. Cardinality(Using[e] \ {s}) = 0
        <3>1. Cardinality(Using[e] \ {s}) \in Nat
            BY <2>2, FS_CardinalityType
        <3> QED
            BY <1>18, <2>1, <2>2, <3>1
    <2>4. Using[e] \ {s} = {}
        BY <2>2, <2>3, FS_EmptySet
    <2>5. \A t \in Steps : step[t].at = e => t \in Using[e]
        BY <1>5 DEF Using, InUse
    <2> QED
        BY <2>4, <2>5
<1>19. CASE /\ sv.gen = entry[e].rev /\ saved' = sv2 /\ exposed' = exposed
            /\ Becomes(With(c, e, r)) /\ Answers(s, to)
    BY <1>16, <1>19
<1>20. CASE /\ sv.gen = entry[e].rev /\ saved' = sv2 /\ exposed' = exposed
            /\ Becomes(With(c, e, r)) \/ Becomes(c)
            /\ \E again \in BOOLEAN : Fails(s, again)
    BY <1>16, <1>20
<1>21. CASE sv.gen # entry[e].rev /\ Becomes(c) /\ Fails(s, TRUE) /\ saved' = saved /\ exposed' = exposed
    <2>1. Apart(s) /\ exposed \subseteq exposed'
        BY <1>1, <1>21 DEF Apart
    <2> QED
        BY <1>17, <1>21, <2>1
<1>22. CASE /\ Becomes(c) /\ (\E again \in BOOLEAN : Fails(s, again)) /\ saved' = saved
            /\ exposed' = IF entry[e].users > 1 THEN exposed \cup {id} ELSE exposed
    <2>1. Apart(s) /\ exposed \subseteq exposed'
        BY <1>1, <1>18, <1>22 DEF Apart
    <2> QED
        BY <1>17, <1>22, <2>1
<1> QED
    BY <1>1, <1>2, <1>3, <1>15, <1>19, <1>20, <1>21, <1>22 DEF Save

-----------------------------------------------------------------------------
(* What every step keeps, and what follows from it. *)

LEMMA CommittedKept == IInv /\ IInv' /\ Committed /\ [Next]_vars => Committed'
<1> SUFFICES ASSUME IInv, IInv', Committed, [Next]_vars PROVE Committed'
    OBVIOUS
<1>1. ASSUME NEW s \in Steps, StepGoes(s) PROVE Committed'
    BY <1>1, AcquireCommitted, AcquiredCommitted, RLockCommitted, CheckCommitted, TrySyncCommitted, SyncCommitted,
       EndReadCommitted, TryCommitCommitted, ApplyCommitted, SaveCommitted DEF StepGoes
<1>2. ASSUME NEW s \in Steps, Timeout(s) PROVE Committed'
    BY <1>2, TimeoutCommitted
<1>3. ASSUME NEW e \in Slots, Built(e) \/ Timer(e) \/ Closed(e) PROVE Committed'
    BY <1>3, OwnCommitted
<1>4. ASSUME NEW s \in Steps, NEW id \in Ids, Read(s, id) \/ Commit(s, id) \/ Retry(s, id) PROVE Committed'
    BY <1>4, WorkflowCommitted
<1>5. ASSUME NEW id \in Ids, Close(id) PROVE Committed'
    BY <1>5, CloseCommitted
<1>6. ASSUME NEW id \in Ids, NEW k \in Keys, Rekey(id, k) PROVE Committed'
    <2>1. step' = step /\ UNCHANGED <<saved, wf, said>> /\ entry' = entry
        BY <1>6 DEF Rekey, cache
    <2> QED
        BY <2>1, CacheCommitted DEF Kept
<1>7. CASE UNCHANGED vars
    <2>1. step' = step /\ UNCHANGED <<saved, wf, said>> /\ entry' = entry
        BY <1>7 DEF vars, cache
    <2> QED
        BY <2>1, CacheCommitted DEF Kept
<1> QED
    BY <1>1, <1>2, <1>3, <1>4, <1>5, <1>6, <1>7 DEF Next

LEMMA CommittedFirst == Init => Committed
<1> SUFFICES ASSUME Init PROVE Committed
    OBVIOUS
<1>1. \A s \in Steps : step[s] = NoStep
    BY DEF Init
<1>2. NoStep.at = None /\ NoStep.pc = "none"
    BY DEF NoStep
<1>3. Kinds(step)
    BY <1>1, <1>2 DEF Kinds
<1>4. acked \in [Ids -> SUBSET Nat] /\ lost \in [Ids -> SUBSET Nat]
    BY DEF Init
<1>5. ASSUME NEW id \in Ids PROVE StoreFits(id, saved[id], wf[id], acked[id], lost[id], exposed)
    <2>1. /\ saved[id].gen = 0 /\ saved[id].rows = <<>> /\ wf[id].base = 0 /\ wf[id].no = 0 /\ wf[id].phase = "open"
          /\ acked[id] = {} /\ lost[id] = {}
        BY DEF Init
    <2>2. Len(saved[id].rows) = 0 /\ DOMAIN saved[id].rows = {}
        BY <2>1
    <2> QED
        BY <2>1, <2>2 DEF StoreFits, Pends, Increasing
<1>6. \A s \in Steps : ~Committing(step[s])
    BY <1>1, <1>2 DEF Committing
<1>7. Stored(saved, wf, acked, lost, exposed, step)
    BY <1>5, <1>6 DEF Stored
<1>8. \A e \in Slots : entry[e].of = None
    BY Constants DEF Init
<1>9. Fitted(entry, step, saved, wf, exposed)
    BY <1>1, <1>2, <1>8 DEF Fitted
<1> QED
    BY <1>3, <1>4, <1>7, <1>9 DEF Committed

LEMMA CommitsSafe == IInv /\ Committed => CommitsOnce
<1> SUFFICES ASSUME IInv, Committed PROVE CommitsOnce
    OBVIOUS
<1>1. ReadsCommitted
    <2>1. ASSUME NEW s \in Steps, step[s].pc = "reading", step[s].of \notin exposed
          PROVE  Prefix(entry[step[s].at].holds, saved[step[s].of].rows)
        BY <2>1, HarnessFits DEF UseFits
    <2> QED
        BY <2>1 DEF ReadsCommitted
<1>2. SavedOnce
    BY DEF SavedOnce, Committed, Stored, StoreFits
<1>3. AckedSaved
    <2>1. ASSUME NEW id \in Ids, NEW n \in acked[id]
          PROVE  LET Rows == {saved[id].rows[i] : i \in DOMAIN saved[id].rows}
                 IN n \in Rows \/ \E m \in lost[id] : m < n /\ m \in Rows
        <3>1. PICK rows : rows = saved[id].rows
            OBVIOUS
        <3>2. In(n, rows) \/ \E m \in lost[id] : m < n /\ In(m, rows)
            BY <3>1 DEF Committed, Stored, StoreFits
        <3>3. \A m : In(m, rows) => m \in {rows[i] : i \in DOMAIN rows}
            BY DEF In
        <3> QED
            BY <3>1, <3>2, <3>3
    <2> QED
        BY <2>1 DEF AckedSaved
<1> QED
    BY <1>1, <1>2, <1>3 DEF CommitsOnce

\* What a step reads was committed, no Commit is applied to the store twice or
\* after a later one, and a Commit that the workflow was told saved is there, or
\* one before it that failed for the workflow is: whatever is retried, given up
\* or answered late (Snapshot.Commit, Snapshot.Sync, rlock, acquire).
THEOREM CommitsOnceAlways == Spec => []CommitsOnce
<1>1. Init => IInv /\ Committed
    BY Initial, CommittedFirst
<1>2. IInv /\ Committed /\ [Next]_vars => IInv' /\ Committed'
    BY Invariance, CommittedKept
<1>3. IInv /\ Committed => CommitsOnce
    BY CommitsSafe
<1> QED
    BY <1>1, <1>2, <1>3, PTL DEF Spec
===============================================================================
