------------------------ MODULE ObjectNetwork_proofs ------------------------
(***************************************************************************)
(* Proofs about ObjectNetwork, for any number of jobs, prompts, cancels and *)
(* closes and any number of letters delivered again: a job's task runs once *)
(* and its end counts once, and no job is left that nobody will stop.       *)
(***************************************************************************)
EXTENDS ObjectNetwork, Picks_proofs

-----------------------------------------------------------------------------
(* Letters and wakes. *)

LEMMA Records ==
    /\ \A k : \A c, d \in Objects : L(c, k, d).to = c /\ L(c, k, d).kind = k /\ L(c, k, d).job = d
    /\ \A c, d \in Objects, k \in {"create", "cancel", "close", "job"} : L(c, k, d) \in Letter
    /\ \A c \in Objects, k \in {"prompt", "cancel", "close", "job"} : W(k, c) \in Wake
    /\ \A k, c : W(k, c).kind = k /\ W(k, c).job = c
    /\ 0 \in Objects /\ Jobs \subseteq Objects /\ \A c \in Jobs : c # 0
BY ConstantsOK DEF L, W, Letter, Wake, Objects, Jobs

LEMMA LettersElements ==
    ASSUME NEW S \in SUBSET Jobs, NEW k \in {"cancel", "close"}
    PROVE  /\ Letters(S, k) \in Seq(Letter)
           /\ \A l : In(l, Letters(S, k)) <=> \E c \in S : l = L(c, k, 0)
<1> DEFINE s == [c \in Jobs |-> L(c, k, 0)]
<1>1. DOMAIN s = 1..MaxJobs /\ MaxJobs \in Nat /\ S \in SUBSET (1..MaxJobs)
    BY ConstantsOK DEF Jobs
<1>2. \A c \in 1..MaxJobs : s[c] \in Letter /\ s[c] = L(c, k, 0)
    BY Records DEF Jobs
<1>3. Letters(S, k) = Picked(s, S)
    BY DEF Letters
<1> HIDE DEF s
<1>4. /\ Picked(s, S) \in Seq(Letter)
      /\ \A i \in DOMAIN Picked(s, S) : \E c \in S : Picked(s, S)[i] = s[c]
      /\ \A c \in S : In(s[c], Picked(s, S))
      /\ PickedOrder(Picked(s, S), s, S)
    BY <1>1, <1>2, PickedElements
<1>5. \A l : In(l, Picked(s, S)) => \E c \in S : l = L(c, k, 0)
    BY <1>1, <1>2, <1>4 DEF In
<1>6. \A c \in S : In(L(c, k, 0), Picked(s, S))
    BY <1>1, <1>2, <1>4
<1> QED
    BY <1>3, <1>4, <1>5, <1>6

\* A cancel that goes first takes no other wake than a prompt with it.
LEMMA WithoutCancelElements ==
    ASSUME NEW o \in Objects, mail[o] \in Seq(Wake)
    PROVE  /\ WithoutCancel(o) \in Seq(Wake)
           /\ \A w : In(w, WithoutCancel(o)) => In(w, mail[o])
<1> DEFINE Stay == {j \in DOMAIN mail[o] : ~GoesFirst(o, j)}
<1>1. PICK K : K = Stay
    OBVIOUS
<1>2. K \in SUBSET (DOMAIN mail[o])
    BY <1>1
<1>3. WithoutCancel(o) = Picked(mail[o], K)
    BY <1>1 DEF WithoutCancel
<1>4. /\ Picked(mail[o], K) \in Seq(Wake)
      /\ \A w : In(w, Picked(mail[o], K)) => \E k \in K : w = mail[o][k]
    BY <1>2, SeqPicked
<1>5. \A w : In(w, Picked(mail[o], K)) => In(w, mail[o])
    BY <1>2, <1>4 DEF In
<1> QED
    BY <1>3, <1>4, <1>5

-----------------------------------------------------------------------------
(* The inductive invariant. *)

Metas == {"none", "open", "closing", "ended", "closed"}

Types ==
  /\ meta \in [Objects -> Metas] /\ turn \in [Objects -> {"idle", "run", "wait", "over"}]
  /\ held \in [Objects -> BOOLEAN]
  /\ mail \in [Objects -> Seq(Wake)] /\ out \in [Objects -> Seq(Letter)]
  /\ jobs \in [Objects -> SUBSET Jobs] /\ kids \in [Objects -> SUBSET Jobs]
  /\ parent \in [Objects -> Objects] /\ born \in 0..MaxJobs
  /\ runs \in [Objects -> Nat] /\ ends \in [Objects -> Nat] /\ missed \in SUBSET Objects

Kin(o) == {c \in 1..born : parent[c] = o}

Quiet(o) == meta[o] \in {"none", "ended", "closed"} => mail[o] = <<>> /\ turn[o] = "idle" /\ jobs[o] = {}
Owns(o)  == jobs[o] \union kids[o] \subseteq Kin(o)
Fresh    == \A c \in Jobs : c > born => meta[c] = "none" /\ ends[c] = 0
Root     == meta[0] \in {"open", "closing", "closed"}

\* A letter goes to a job of its object, or tells the parent of its end.
LetterGood(o, l) ==
  IF l.kind = "job" THEN o # 0 /\ l = L(parent[o], "job", o) /\ meta[o] \in {"ended", "closed"}
  ELSE l.job = 0 /\ l.to \in Kin(o)
WakeGood(o, w) == w.kind = "job" => w.job \in Kin(o) /\ meta[w.job] \in {"ended", "closed"}

Sent(o)   == \A l : In(l, out[o]) => LetterGood(o, l)
Mailed(o) == \A w : In(w, mail[o]) => WakeGood(o, w)

\* The letter that creates a job is before those that stop or close it.
CreateFirst(c) ==
  meta[c] = "none" =>
    \E i \in DOMAIN out[parent[c]] :
      /\ out[parent[c]][i] = L(c, "create", 0)
      /\ \A j \in 1..(i - 1) : out[parent[c]][j] \notin {L(c, "cancel", 0), L(c, "close", 0)}

\* NoOrphan, also of a job whose object is not there yet.
Stopped(c) ==
  meta[c] \in {"none", "open"} /\ c \notin jobs[parent[c]] /\ c \notin missed =>
    OnItsWay("cancel", c) \/ InMail("cancel", c) \/ Over(c)

Known(c) ==
  ~Gone(c) /\ (parent[c] = 0 \/ meta[parent[c]] # "closed") => c \in kids[parent[c]] \/ OnItsWay("close", c)

Once(c) ==
  /\ runs[c] <= 1 /\ (runs[c] = 1 => meta[c] \notin {"none", "open", "closing"} \/ turn[c] # "idle")
  /\ ends[c] <= 1 /\ (ends[c] = 1 => c \notin jobs[parent[c]])

IInv ==
  /\ Types
  /\ \A o \in Objects : Quiet(o) /\ Owns(o) /\ Sent(o) /\ Mailed(o)
  /\ Fresh /\ Root
  /\ \A c \in 1..born : CreateFirst(c) /\ Stopped(c) /\ Known(c)
  /\ \A c \in Jobs : Once(c)

LEMMA Numbers ==
    ASSUME Types
    PROVE  /\ \A c \in 1..born : c \in Jobs /\ c \in Objects /\ c # 0 /\ parent[c] \in Objects
           /\ \A c \in Objects : c \in 1..born \/ c = 0 \/ (c \in Jobs /\ c > born)
<1>1. MaxJobs \in Nat /\ born \in 0..MaxJobs /\ parent \in [Objects -> Objects]
    BY ConstantsOK DEF Types
<1>2. \A c \in 1..born : c \in Jobs /\ c \in Objects /\ c # 0
    BY <1>1 DEF Objects, Jobs
<1>3. \A c \in Objects : c \in 1..born \/ c = 0 \/ (c \in Jobs /\ c > born)
    BY <1>1 DEF Objects, Jobs
<1> QED
    BY <1>1, <1>2, <1>3

-----------------------------------------------------------------------------
(* What a step of a session may do, with the letters ls it posts. *)

Moves(o, ls) ==
  /\ meta[o] \in {"open", "closing"}
  /\ UNCHANGED <<parent, born>>
  /\ \A x \in Objects : x # o =>
       /\ meta'[x] = meta[x] /\ mail'[x] = mail[x] /\ out'[x] = out[x] /\ turn'[x] = turn[x]
       /\ jobs'[x] = jobs[x] /\ held'[x] = held[x] /\ kids'[x] = kids[x] /\ runs'[x] = runs[x]
  /\ ls \in Seq(Letter) /\ out'[o] = out[o] \o ls
  /\ \A l : In(l, ls) => IF l.kind = "job" THEN o # 0 /\ l = L(parent[o], "job", o) /\ meta'[o] \in {"ended", "closed"}
                         ELSE l.job = 0 /\ l.to \in Kin(o)
  /\ \/ meta'[o] = meta[o]
     \/ /\ meta'[o] \in {"ended", "closed"} /\ mail'[o] = <<>> /\ turn'[o] = "idle" /\ jobs'[o] = {}
        /\ meta'[o] = "ended" => o # 0 /\ meta[o] = "open"
  /\ \A w : In(w, mail'[o]) => In(w, mail[o])
  /\ jobs'[o] \subseteq jobs[o]
  /\ \A c \in jobs[o] \ jobs'[o] : In(L(c, "cancel", 0), ls) \/ meta[c] \in {"ended", "closed"}
  /\ kids'[o] \subseteq kids[o]
  /\ \A c \in kids[o] \ kids'[o] : In(L(c, "close", 0), ls) \/ (o # 0 /\ meta'[o] = "closed")
  /\ o # 0 /\ meta'[o] = "open" =>
       /\ InMail("cancel", o) => InMail("cancel", o)' \/ Over(o)' \/ o \in missed'
       /\ Over(o) => Over(o)'
  /\ missed \subseteq missed'
  /\ runs'[o] = runs[o] \/ (runs'[o] = runs[o] + 1 /\ turn[o] = "idle" /\ turn'[o] # "idle")
  /\ o # 0 /\ meta'[o] \in {"open", "closing"} /\ turn[o] # "idle" => turn'[o] # "idle"
  /\ \A c \in Jobs : ends'[c] = ends[c] \/ (ends'[c] = ends[c] + 1 /\ c \in jobs[o] /\ c \notin jobs'[o])

LEMMA MovesGood ==
    ASSUME IInv, Types', NEW o \in Objects, NEW ls, Moves(o, ls)
    PROVE  IInv'
<1> USE DEF Moves
<1>0. parent' = parent /\ born' = born
    OBVIOUS
<1>1. Types
    BY DEF IInv
<1>2. Kin(o)' = Kin(o) /\ \A x \in Objects : Kin(x)' = Kin(x)
    BY DEF Kin
<1>3. /\ \A x : In(x, out'[o]) <=> In(x, out[o]) \/ In(x, ls)
      /\ \A i \in DOMAIN out[o] : i \in DOMAIN out'[o] /\ out'[o][i] = out[o][i]
    BY <1>1, ConcatElements DEF Types
<1>4. \A x \in Objects : /\ \A l : In(l, out[x]) => In(l, out'[x])
                         /\ \A i \in DOMAIN out[x] : i \in DOMAIN out'[x] /\ out'[x][i] = out[x][i]
    BY <1>3
<1>5. \A x \in Objects : meta[x] \in {"ended", "closed"} => x # o /\ meta'[x] = meta[x]
    OBVIOUS
<1>6. ASSUME NEW k, NEW c \in 1..born, OnItsWay(k, c) PROVE OnItsWay(k, c)'
    <2>1. parent[c] \in Objects /\ In(L(c, k, 0), out[parent[c]])
        BY <1>1, <1>6, Numbers DEF OnItsWay, In
    <2> QED
        BY <1>4, <2>1 DEF OnItsWay, In
<1>7. ASSUME NEW k, NEW c \in 1..born, parent[c] = o, In(L(c, k, 0), ls) PROVE OnItsWay(k, c)'
    BY <1>3, <1>7 DEF OnItsWay, In
<1>8. ASSUME NEW x \in Objects PROVE Quiet(x)' /\ Owns(x)' /\ Mailed(x)'
    <2>1. Quiet(x) /\ Owns(x) /\ Mailed(x)
        BY DEF IInv
    <2>2. Quiet(x)'
        BY <2>1 DEF Quiet
    <2>3. Owns(x)'
        BY <1>2, <2>1 DEF Owns
    <2>4. \A w : In(w, mail'[x]) => In(w, mail[x])
        OBVIOUS
    <2>5. Mailed(x)'
        <3>1. ASSUME NEW w, In(w, mail'[x]), w.kind = "job" PROVE w.job \in Kin(x) /\ meta'[w.job] \in {"ended", "closed"}
            <4>1. w.job \in Kin(x) /\ meta[w.job] \in {"ended", "closed"}
                BY <2>1, <2>4, <3>1 DEF Mailed, WakeGood
            <4>2. w.job \in Objects
                BY <1>1, <4>1, Numbers DEF Kin
            <4> QED
                BY <1>5, <4>1, <4>2
        <3> QED
            BY <1>2, <3>1 DEF Mailed, WakeGood
    <2> QED
        BY <2>2, <2>3, <2>5
<1>9. ASSUME NEW x \in Objects PROVE Sent(x)'
    <2>1. Sent(x)
        BY DEF IInv
    <2>2. ASSUME NEW l, In(l, out[x]) PROVE LetterGood(x, l)'
        BY <1>2, <1>5, <2>1, <2>2 DEF Sent, LetterGood
    <2>3. ASSUME NEW l, In(l, ls) PROVE LetterGood(o, l)'
        BY <1>2, <2>3 DEF LetterGood
    <2> QED
        BY <1>3, <2>2, <2>3 DEF Sent
<1>10. Fresh' /\ Root'
    <2>1. \A c \in Jobs : c > born => c \notin jobs[o]
        BY <1>1 DEF IInv, Owns, Kin, Types, Jobs
    <2>2. \A c \in Jobs : c \in Objects
        BY Records
    <2>3. \A c \in Jobs : c > born => meta'[c] = "none" /\ ends'[c] = 0
        <3> SUFFICES ASSUME NEW c \in Jobs, c > born PROVE meta'[c] = "none" /\ ends'[c] = 0
            OBVIOUS
        <3>1. meta[c] = "none" /\ ends[c] = 0 /\ c \in Objects /\ c \notin jobs[o]
            BY <2>1, <2>2 DEF IInv, Fresh
        <3> QED
            BY <3>1
    <2>4. meta'[0] \in {"open", "closing", "closed"}
        BY Records DEF IInv, Root
    <2> HIDE DEF Moves
    <2> QED
        BY <1>0, <2>3, <2>4 DEF Fresh, Root
<1>11. ASSUME NEW c \in 1..born PROVE CreateFirst(c)'
    <2>1. CreateFirst(c) /\ parent[c] \in Objects /\ c \in Objects
        BY <1>1, Numbers DEF IInv
    <2>2. meta'[c] = "none" => meta[c] = "none"
        BY <2>1
    <2> SUFFICES ASSUME meta'[c] = "none" PROVE CreateFirst(c)'
        BY DEF CreateFirst
    <2>3. PICK i \in DOMAIN out[parent[c]] :
             /\ out[parent[c]][i] = L(c, "create", 0)
             /\ \A j \in 1..(i - 1) : out[parent[c]][j] \notin {L(c, "cancel", 0), L(c, "close", 0)}
        BY <2>1, <2>2 DEF CreateFirst
    <2>4. i \in DOMAIN out'[parent[c]] /\ out'[parent[c]][i] = L(c, "create", 0)
        BY <1>4, <2>1, <2>3
    <2>5. \A j \in 1..(i - 1) : j \in DOMAIN out[parent[c]] /\ out'[parent[c]][j] = out[parent[c]][j]
        <3>1. out[parent[c]] \in Seq(Letter)
            BY <1>1, <2>1 DEF Types
        <3>2. \A j \in 1..(i - 1) : j \in DOMAIN out[parent[c]]
            BY <2>3, <3>1
        <3> QED
            BY <1>4, <2>1, <3>2
    <2> HIDE DEF Moves
    <2>6. \A j \in 1..(i - 1) : out'[parent[c]][j] \notin {L(c, "cancel", 0), L(c, "close", 0)}
        BY <2>3, <2>5
    <2> QED
        BY <1>0, <2>4, <2>6 DEF CreateFirst
<1>12. ASSUME NEW c \in 1..born PROVE Stopped(c)'
    <2>1. Stopped(c) /\ c \in Objects /\ c # 0 /\ parent[c] \in Objects
        BY <1>1, Numbers DEF IInv
    <2> HIDE DEF Moves
    <2> SUFFICES ASSUME meta'[c] \in {"none", "open"}, c \notin jobs'[parent[c]], c \notin missed'
                 PROVE  OnItsWay("cancel", c)' \/ InMail("cancel", c)' \/ Over(c)'
        BY <1>0 DEF Stopped
    <2> USE DEF Moves
    <2>2. meta'[c] = meta[c] /\ c \notin missed
        BY <2>1
    <2>3. CASE c \in jobs[parent[c]]
        <3>1. parent[c] = o /\ In(L(c, "cancel", 0), ls)
            BY <2>1, <2>2, <2>3
        <3> QED
            BY <1>7, <3>1
    <2>4. CASE c \notin jobs[parent[c]]
        <3>1. OnItsWay("cancel", c) \/ InMail("cancel", c) \/ Over(c)
            BY <2>1, <2>2, <2>4 DEF Stopped
        <3>2. CASE OnItsWay("cancel", c)
            BY <1>6, <3>2
        <3>3. CASE c # o /\ (InMail("cancel", c) \/ Over(c))
            BY <2>1, <3>3 DEF InMail, Over
        <3>4. CASE c = o /\ (InMail("cancel", c) \/ Over(c))
            BY <2>1, <2>2, <3>4
        <3> QED
            BY <3>1, <3>2, <3>3, <3>4
    <2> QED
        BY <2>3, <2>4
<1>13. ASSUME NEW c \in 1..born PROVE Known(c)'
    <2>1. Known(c) /\ c \in Objects /\ c # 0 /\ parent[c] \in Objects
        BY <1>1, Numbers DEF IInv
    <2> HIDE DEF Moves
    <2> SUFFICES ASSUME ~Gone(c)', parent[c] = 0 \/ meta'[parent[c]] # "closed"
                 PROVE  c \in kids'[parent[c]] \/ OnItsWay("close", c)'
        BY <1>0 DEF Known
    <2> USE DEF Moves
    <2>2. ~Gone(c) /\ (parent[c] = 0 \/ meta[parent[c]] # "closed")
        BY <2>1 DEF Gone
    <2>3. CASE OnItsWay("close", c)
        BY <1>6, <2>3
    <2>4. CASE c \in kids[parent[c]] /\ c \notin kids'[parent[c]]
        <3>1. parent[c] = o /\ In(L(c, "close", 0), ls)
            BY <2>1, <2>4
        <3> QED
            BY <1>7, <3>1
    <2> QED
        BY <2>1, <2>2, <2>3, <2>4 DEF Known
<1>14. ASSUME NEW c \in Jobs PROVE Once(c)'
    <2>1. Once(c) /\ c \in Objects /\ c # 0 /\ runs[c] \in Nat /\ ends[c] \in Nat /\ parent[c] \in Objects
        BY <1>1, Records DEF IInv, Types
    <2>2. runs'[c] <= 1 /\ (runs'[c] = 1 => meta'[c] \notin {"none", "open", "closing"} \/ turn'[c] # "idle")
        BY <2>1 DEF Once
    <2>3. c \in jobs[o] => parent[c] = o
        BY DEF IInv, Owns, Kin
    <2>4. ends'[c] <= 1 /\ (ends'[c] = 1 => c \notin jobs'[parent[c]])
        BY <2>1, <2>3 DEF Once
    <2> QED
        BY <2>2, <2>4 DEF Once
<1> QED
    BY <1>8, <1>9, <1>10, <1>11, <1>12, <1>13, <1>14 DEF IInv

-----------------------------------------------------------------------------
(* What a request, or a letter, may do to its object x. *)

\* A letter that is gone is known where it went.
Done(l) ==
  /\ l.kind = "create" => meta'[l.to] # "none"
  /\ l.kind = "cancel" /\ meta'[l.to] = "open" => \E w : In(w, mail'[l.to]) /\ w.kind = "cancel"
  /\ l.kind = "close"  => meta'[l.to] \in {"none", "closing", "closed"}

Asks(x) ==
  /\ UNCHANGED <<turn, jobs, held, parent, born, runs, ends, missed>>
  /\ \A y \in Objects : y # x => meta'[y] = meta[y] /\ mail'[y] = mail[y] /\ kids'[y] = kids[y]
  /\ \/ meta'[x] = meta[x]
     \/ meta[x] = "none" /\ meta'[x] = "open" /\ x \in 1..born
     \/ meta[x] = "open" /\ meta'[x] = "closing"
     \/ meta[x] = "ended" /\ meta'[x] = "closed"
  /\ meta'[x] \in {"none", "ended", "closed"} => mail'[x] = mail[x]
  /\ \A w : In(w, mail[x]) => In(w, mail'[x])
  /\ \A w : In(w, mail'[x]) => In(w, mail[x]) \/ WakeGood(x, w)
  /\ kids'[x] = kids[x] \/ (kids'[x] = {} /\ x # 0 /\ meta'[x] = "closed")
  /\ \A y \in Objects : out'[y] = out[y] \/ (out[y] # <<>> /\ out'[y] = Tail(out[y]) /\ Done(Head(out[y])))

LEMMA AsksGood ==
    ASSUME IInv, Types', NEW x \in Objects, Asks(x)
    PROVE  IInv'
<1>1. Types
    BY DEF IInv
<1>2. /\ parent' = parent /\ born' = born /\ turn' = turn /\ jobs' = jobs /\ held' = held
      /\ runs' = runs /\ ends' = ends /\ missed' = missed
    BY DEF Asks
<1>3. \A y \in Objects : Kin(y)' = Kin(y)
    BY <1>2 DEF Kin
<1>4. \A y \in Objects :
        /\ meta[y] \in {"closing", "closed"} => meta'[y] = meta[y]
        /\ meta[y] = "ended" => meta'[y] \in {"ended", "closed"}
        /\ meta[y] = "open" => meta'[y] \in {"open", "closing"}
        /\ meta[y] = "none" => meta'[y] = "none" \/ (meta'[y] = "open" /\ y \in 1..born)
    BY <1>1 DEF Asks, Types, Metas
<1>5. \A y \in Objects : /\ \A w : In(w, mail[y]) => In(w, mail'[y])
                         /\ kids'[y] = kids[y] \/ (kids'[y] = {} /\ y # 0 /\ meta'[y] = "closed")
    BY DEF Asks
<1>6. ASSUME NEW y \in Objects, NEW l
      PROVE  /\ In(l, out'[y]) => In(l, out[y])
             /\ In(l, out[y]) => In(l, out'[y]) \/ (Done(l) /\ out[y] # <<>> /\ l = out[y][1])
    <2>1. out[y] \in Seq(Letter)
        BY <1>1 DEF Types
    <2>2. CASE out'[y] = out[y]
        BY <2>2
    <2>3. CASE out[y] # <<>> /\ out'[y] = Tail(out[y]) /\ Done(Head(out[y]))
        <3>1. (In(l, out[y]) <=> l = Head(out[y]) \/ In(l, Tail(out[y]))) /\ Head(out[y]) = out[y][1]
            BY <2>1, <2>3, TailElements
        <3> QED
            BY <2>3, <3>1
    <2> QED
        BY <2>2, <2>3 DEF Asks
<1>7. ASSUME NEW c \in 1..born, meta[c] = "none", NEW k \in {"cancel", "close"}, OnItsWay(k, c)
      PROVE  OnItsWay(k, c)'
    <2>1. parent[c] \in Objects /\ CreateFirst(c) /\ c \in Objects
        BY <1>1, Numbers DEF IInv
    <2>2. PICK i \in DOMAIN out[parent[c]] :
             /\ out[parent[c]][i] = L(c, "create", 0)
             /\ \A j \in 1..(i - 1) : out[parent[c]][j] \notin {L(c, "cancel", 0), L(c, "close", 0)}
        BY <1>7, <2>1 DEF CreateFirst
    <2>3. L(c, k, 0) # L(c, "create", 0)
        BY <2>1, Records
    <2>4. out[parent[c]] \in Seq(Letter)
        BY <1>1, <2>1 DEF Types
    <2>5. out[parent[c]][1] # L(c, k, 0)
        <3>1. CASE i = 1
            BY <2>2, <2>3, <3>1
        <3>2. CASE i # 1
            <4>1. 1 \in 1..(i - 1)
                BY <2>2, <2>4, <3>2
            <4> QED
                BY <1>7, <2>2, <4>1
        <3> QED
            BY <3>1, <3>2
    <2>6. In(L(c, k, 0), out[parent[c]])
        BY <1>7 DEF OnItsWay, In
    <2>7. In(L(c, k, 0), out'[parent[c]])
        BY <1>6, <2>1, <2>5, <2>6
    <2> QED
        BY <1>2, <2>7 DEF OnItsWay, In
<1>8. ASSUME NEW c \in 1..born, NEW k \in {"cancel", "close"}, OnItsWay(k, c)
      PROVE  OnItsWay(k, c)' \/ Done(L(c, k, 0))
    <2>1. parent[c] \in Objects /\ In(L(c, k, 0), out[parent[c]])
        BY <1>1, <1>8, Numbers DEF OnItsWay, In
    <2>2. In(L(c, k, 0), out'[parent[c]]) \/ Done(L(c, k, 0))
        BY <1>6, <2>1
    <2> QED
        BY <1>2, <2>2 DEF OnItsWay, In
<1>9. ASSUME NEW y \in Objects PROVE Quiet(y)' /\ Owns(y)' /\ Mailed(y)' /\ Sent(y)'
    <2>1. Quiet(y) /\ Owns(y) /\ Mailed(y) /\ Sent(y)
        BY DEF IInv
    <2>2. Quiet(y)'
        <3>1. meta'[y] \in {"none", "ended", "closed"} =>
                meta[y] \in {"none", "ended", "closed"} /\ mail'[y] = mail[y]
            BY DEF Asks
        <3> QED
            BY <1>2, <2>1, <3>1 DEF Quiet
    <2>3. Owns(y)'
        BY <1>2, <1>3, <1>5, <2>1 DEF Owns
    <2>4. Mailed(y)'
        <3>1. \A w : In(w, mail'[y]) => In(w, mail[y]) \/ WakeGood(y, w)
            BY DEF Asks
        <3>2. \A w : WakeGood(y, w) => WakeGood(y, w)'
            BY <1>1, <1>3, <1>4, Numbers DEF WakeGood, Kin
        <3> QED
            BY <2>1, <3>1, <3>2 DEF Mailed
    <2>5. Sent(y)'
        <3>1. \A l : LetterGood(y, l) => LetterGood(y, l)'
            BY <1>2, <1>3, <1>4 DEF LetterGood
        <3> QED
            BY <1>6, <2>1, <3>1 DEF Sent
    <2> QED
        BY <2>2, <2>3, <2>4, <2>5
<1>10. Fresh' /\ Root'
    <2>1. \A c \in Jobs : c > born => meta'[c] = "none" /\ ends'[c] = 0
        <3> SUFFICES ASSUME NEW c \in Jobs, c > born PROVE meta'[c] = "none" /\ ends'[c] = 0
            OBVIOUS
        <3>1. meta[c] = "none" /\ ends[c] = 0 /\ c \in Objects
            BY Records DEF IInv, Fresh
        <3>2. c \notin 1..born
            BY <1>1, ConstantsOK DEF Types, Jobs
        <3> QED
            BY <1>2, <1>4, <3>1, <3>2
    <2>2. meta'[0] \in {"open", "closing", "closed"}
        BY <1>4, Records DEF IInv, Root
    <2> QED
        BY <1>2, <2>1, <2>2 DEF Fresh, Root
<1>11. ASSUME NEW c \in 1..born PROVE CreateFirst(c)'
    <2>1. CreateFirst(c) /\ parent[c] \in Objects /\ c \in Objects
        BY <1>1, Numbers DEF IInv
    <2> SUFFICES ASSUME meta'[c] = "none" PROVE CreateFirst(c)'
        BY DEF CreateFirst
    <2>2. meta[c] = "none"
        BY <1>1, <1>4, <2>1 DEF Types, Metas
    <2>3. PICK i \in DOMAIN out[parent[c]] :
             /\ out[parent[c]][i] = L(c, "create", 0)
             /\ \A j \in 1..(i - 1) : out[parent[c]][j] \notin {L(c, "cancel", 0), L(c, "close", 0)}
        BY <2>1, <2>2 DEF CreateFirst
    <2>4. out[parent[c]] \in Seq(Letter)
        BY <1>1, <2>1 DEF Types
    <2>5. CASE out'[parent[c]] = out[parent[c]]
        BY <1>2, <2>3, <2>5 DEF CreateFirst
    <2>6. CASE out[parent[c]] # <<>> /\ out'[parent[c]] = Tail(out[parent[c]]) /\ Done(Head(out[parent[c]]))
        <3>1. Head(out[parent[c]]) # L(c, "create", 0)
            BY <2>1, <2>6, Records DEF Done
        <3>2. /\ Head(out[parent[c]]) = out[parent[c]][1]
              /\ \A j \in DOMAIN out[parent[c]] : j # 1 =>
                    (j - 1) \in DOMAIN Tail(out[parent[c]]) /\ Tail(out[parent[c]])[j - 1] = out[parent[c]][j]
              /\ \A j \in DOMAIN Tail(out[parent[c]]) :
                    (j + 1) \in DOMAIN out[parent[c]] /\ Tail(out[parent[c]])[j] = out[parent[c]][j + 1]
            BY <2>4, <2>6, TailElements
        <3>3. i # 1 /\ i \in Nat
            BY <2>3, <2>4, <3>1, <3>2
        <3>4. (i - 1) \in DOMAIN out'[parent[c]] /\ out'[parent[c]][i - 1] = L(c, "create", 0)
            BY <2>3, <2>6, <3>2, <3>3
        <3>5. ASSUME NEW j \in 1..((i - 1) - 1)
              PROVE  out'[parent[c]][j] \notin {L(c, "cancel", 0), L(c, "close", 0)}
            <4>1. j \in DOMAIN Tail(out[parent[c]])
                <5>1. Tail(out[parent[c]]) \in Seq(Letter)
                    BY <2>4, <2>6, TailElements
                <5> QED
                    BY <2>6, <3>3, <3>4, <5>1
            <4>2. (j + 1) \in 1..(i - 1)
                BY <3>3
            <4> QED
                BY <2>3, <2>6, <3>2, <4>1, <4>2
        <3> QED
            BY <1>2, <3>4, <3>5 DEF CreateFirst
    <2> QED
        BY <2>1, <2>5, <2>6 DEF Asks
<1>12. ASSUME NEW c \in 1..born PROVE Stopped(c)'
    <2>1. Stopped(c) /\ c \in Objects /\ c # 0 /\ parent[c] \in Objects
        BY <1>1, Numbers DEF IInv
    <2> SUFFICES ASSUME meta'[c] \in {"none", "open"}, c \notin jobs[parent[c]], c \notin missed
                 PROVE  OnItsWay("cancel", c)' \/ InMail("cancel", c)' \/ Over(c)'
        BY <1>2 DEF Stopped
    <2>2. /\ meta[c] \in {"none", "open"} /\ (meta[c] = "open" => meta'[c] = "open")
        BY <1>1, <1>4, <2>1 DEF Types, Metas
    <2>3. OnItsWay("cancel", c) \/ InMail("cancel", c) \/ Over(c)
        BY <2>1, <2>2 DEF Stopped
    <2>4. CASE OnItsWay("cancel", c)
        <3>1. CASE meta[c] = "none"
            BY <1>7, <2>4, <3>1
        <3>2. CASE meta[c] = "open"
            BY <1>8, <2>1, <2>2, <2>4, <3>2, Records DEF Done, In, InMail
        <3> QED
            BY <2>2, <3>1, <3>2
    <2>5. CASE InMail("cancel", c)
        <3>1. PICK w : In(w, mail[c]) /\ w.kind = "cancel"
            BY <2>5 DEF InMail, In
        <3>2. In(w, mail'[c])
            BY <1>5, <2>1, <3>1
        <3> QED
            BY <3>1, <3>2 DEF InMail, In
    <2>6. CASE Over(c)
        BY <1>2, <2>2, <2>6 DEF Over
    <2> QED
        BY <2>3, <2>4, <2>5, <2>6
<1>13. ASSUME NEW c \in 1..born PROVE Known(c)'
    <2>1. Known(c) /\ c \in Objects /\ c # 0 /\ parent[c] \in Objects
        BY <1>1, Numbers DEF IInv
    <2> SUFFICES ASSUME ~Gone(c)', parent[c] = 0 \/ meta'[parent[c]] # "closed"
                 PROVE  c \in kids'[parent[c]] \/ OnItsWay("close", c)'
        BY <1>2 DEF Known
    <2>2. ~Gone(c) /\ (parent[c] = 0 \/ meta[parent[c]] # "closed")
        BY <1>4, <2>1 DEF Gone
    <2>3. CASE c \in kids[parent[c]]
        BY <1>5, <2>1, <2>3
    <2>4. CASE OnItsWay("close", c)
        <3>1. CASE meta[c] = "none"
            BY <1>7, <2>4, <3>1
        <3>2. CASE meta[c] # "none"
            <4>1. meta'[c] # "none"
                BY <1>1, <1>4, <2>1, <3>2 DEF Types, Metas
            <4> QED
                BY <1>8, <2>1, <2>4, <4>1, Records DEF Done, Gone
        <3> QED
            BY <3>1, <3>2
    <2> QED
        BY <2>1, <2>2, <2>3, <2>4 DEF Known
<1>14. ASSUME NEW c \in Jobs PROVE Once(c)'
    <2>1. Once(c) /\ c \in Objects
        BY Records DEF IInv
    <2>2. meta[c] \notin {"none", "open", "closing"} => meta'[c] \notin {"none", "open", "closing"}
        BY <1>1, <1>4, <2>1 DEF Types, Metas
    <2> QED
        BY <1>2, <2>1, <2>2 DEF Once
<1> QED
    BY <1>2, <1>9, <1>10, <1>11, <1>12, <1>13, <1>14 DEF IInv

-----------------------------------------------------------------------------
(* Requests and letters. *)

LEMMA WakesGood ==
    ASSUME IInv, NEW x \in Objects, NEW w \in Wake, WakeGood(x, w), Accept(x, w)
    PROVE  /\ UNCHANGED <<meta, kids>> /\ mail' \in [Objects -> Seq(Wake)]
           /\ \A y \in Objects : y # x => mail'[y] = mail[y]
           /\ meta[x] = "open" => \A v : In(v, mail'[x]) <=> In(v, mail[x]) \/ v = w
           /\ meta[x] # "open" => mail'[x] = mail[x]
<1>1. mail \in [Objects -> Seq(Wake)] /\ mail[x] \in Seq(Wake)
    BY DEF IInv, Types
<1>2. Append(mail[x], w) \in Seq(Wake) /\ \A v : In(v, Append(mail[x], w)) <=> In(v, mail[x]) \/ v = w
    BY <1>1, AppendElements
<1> QED
    BY <1>1, <1>2 DEF Accept

\* What every request does to the object it is for.
LEMMA RequestGood ==
    ASSUME IInv, NEW x \in Objects,
           \/ x \in 1..born /\ Create(x)
           \/ \E w \in Wake : WakeGood(x, w) /\ Accept(x, w)
           \/ Close(x)
    PROVE  /\ mail' \in [Objects -> Seq(Wake)] /\ meta' \in [Objects -> Metas] /\ kids' \in [Objects -> SUBSET Jobs]
           /\ \A y \in Objects : y # x => meta'[y] = meta[y] /\ mail'[y] = mail[y] /\ kids'[y] = kids[y]
           /\ \/ meta'[x] = meta[x]
              \/ meta[x] = "none" /\ meta'[x] = "open" /\ x \in 1..born
              \/ meta[x] = "open" /\ meta'[x] = "closing"
              \/ meta[x] = "ended" /\ meta'[x] = "closed"
           /\ meta'[x] \in {"none", "ended", "closed"} => mail'[x] = mail[x]
           /\ \A w : In(w, mail[x]) => In(w, mail'[x])
           /\ \A w : In(w, mail'[x]) => In(w, mail[x]) \/ WakeGood(x, w)
           /\ kids'[x] = kids[x] \/ (kids'[x] = {} /\ x # 0 /\ meta'[x] = "closed")
<1>1. /\ mail \in [Objects -> Seq(Wake)] /\ meta \in [Objects -> Metas] /\ kids \in [Objects -> SUBSET Jobs]
      /\ meta[x] \in Metas /\ mail[x] \in Seq(Wake) /\ Quiet(x)
    BY DEF IInv, Types
<1>2. CASE x \in 1..born /\ Create(x)
    <2>1. W("prompt", 0) \in Wake /\ W("prompt", 0).kind = "prompt"
        BY Records
    <2>2. <<W("prompt", 0)>> \in Seq(Wake) /\ \A w : In(w, <<W("prompt", 0)>>) <=> w = W("prompt", 0)
        BY <2>1, OneElement
    <2>3. meta[x] = "none" => \A w : ~In(w, mail[x])
        BY <1>1, OneElement DEF Quiet
    <2> HIDE DEF In
    <2>4. CASE meta[x] = "none"
        <3>1. meta'[x] = "open" /\ mail'[x] = <<W("prompt", 0)>> /\ kids' = kids
            BY <1>1, <1>2, <2>4 DEF Create
        <3>2. mail' \in [Objects -> Seq(Wake)] /\ meta' \in [Objects -> Metas]
            BY <1>1, <1>2, <2>2, <2>4 DEF Create, Metas
        <3>3. \A y \in Objects : y # x => meta'[y] = meta[y] /\ mail'[y] = mail[y]
            BY <1>1, <1>2 DEF Create
        <3> QED
            BY <1>1, <1>2, <2>1, <2>2, <2>3, <2>4, <3>1, <3>2, <3>3 DEF WakeGood
    <2>5. CASE meta[x] # "none"
        <3>1. meta' = meta /\ mail' = mail /\ kids' = kids
            BY <1>1, <1>2, <2>5 DEF Create
        <3> QED
            BY <1>1, <3>1
    <2> QED
        BY <2>4, <2>5
<1>3. ASSUME NEW w \in Wake, WakeGood(x, w), Accept(x, w)
      PROVE  /\ mail' \in [Objects -> Seq(Wake)] /\ meta' = meta /\ kids' = kids
             /\ \A y \in Objects : y # x => mail'[y] = mail[y]
             /\ meta'[x] \in {"none", "ended", "closed"} => mail'[x] = mail[x]
             /\ \A v : In(v, mail[x]) => In(v, mail'[x])
             /\ \A v : In(v, mail'[x]) => In(v, mail[x]) \/ WakeGood(x, v)
    <2>1. /\ UNCHANGED <<meta, kids>> /\ mail' \in [Objects -> Seq(Wake)]
          /\ \A y \in Objects : y # x => mail'[y] = mail[y]
          /\ meta[x] = "open" => \A v : In(v, mail'[x]) <=> In(v, mail[x]) \/ v = w
          /\ meta[x] # "open" => mail'[x] = mail[x]
        BY <1>3, WakesGood
    <2> QED
        BY <1>3, <2>1
<1>4. CASE Close(x)
    <2>1. W("close", 0) \in Wake /\ W("close", 0).kind = "close"
        BY Records
    <2>2. /\ Append(mail[x], W("close", 0)) \in Seq(Wake)
          /\ \A v : In(v, Append(mail[x], W("close", 0))) <=> In(v, mail[x]) \/ v = W("close", 0)
        BY <1>1, <2>1, AppendElements
    <2>3. /\ meta'[x] = CASE meta[x] = "open" -> "closing" [] meta[x] = "ended" -> "closed" [] OTHER -> meta[x]
          /\ mail'[x] = IF meta[x] = "open" THEN Append(mail[x], W("close", 0)) ELSE mail[x]
          /\ kids'[x] = IF meta[x] = "ended" THEN {} ELSE kids[x]
          /\ \A y \in Objects : y # x => meta'[y] = meta[y] /\ mail'[y] = mail[y] /\ kids'[y] = kids[y]
        BY <1>1, <1>4 DEF Close
    <2>4. mail' \in [Objects -> Seq(Wake)]
        BY <1>1, <1>4, <2>2 DEF Close
    <2>5. meta' \in [Objects -> Metas] /\ kids' \in [Objects -> SUBSET Jobs]
        BY <1>1, <1>4 DEF Close, Metas
    <2>6. meta[x] = "ended" => x # 0
        BY DEF IInv, Root
    <2> QED
        BY <2>1, <2>2, <2>3, <2>4, <2>5, <2>6 DEF WakeGood
<1> QED
    BY <1>1, <1>2, <1>3, <1>4

Requested(x) ==
  \/ x \in 1..born /\ Create(x)
  \/ \E w \in Wake : WakeGood(x, w) /\ Accept(x, w)
  \/ Close(x)

\* A request whose letter, if it has one, is gone or stays.
LEMMA RequestedGood ==
    ASSUME IInv, NEW x \in Objects, Requested(x), UNCHANGED <<session, tree, seen>>,
           out' \in [Objects -> Seq(Letter)],
           \A y \in Objects : out'[y] = out[y] \/ (out[y] # <<>> /\ out'[y] = Tail(out[y]) /\ Done(Head(out[y])))
    PROVE  IInv'
<1>1. UNCHANGED <<turn, jobs, held, parent, born, runs, ends, missed>>
    BY DEF session, tree, seen
<1>2. /\ mail' \in [Objects -> Seq(Wake)] /\ meta' \in [Objects -> Metas] /\ kids' \in [Objects -> SUBSET Jobs]
      /\ \A y \in Objects : y # x => meta'[y] = meta[y] /\ mail'[y] = mail[y] /\ kids'[y] = kids[y]
      /\ \/ meta'[x] = meta[x]
         \/ meta[x] = "none" /\ meta'[x] = "open" /\ x \in 1..born
         \/ meta[x] = "open" /\ meta'[x] = "closing"
         \/ meta[x] = "ended" /\ meta'[x] = "closed"
      /\ meta'[x] \in {"none", "ended", "closed"} => mail'[x] = mail[x]
      /\ \A w : In(w, mail[x]) => In(w, mail'[x])
      /\ \A w : In(w, mail'[x]) => In(w, mail[x]) \/ WakeGood(x, w)
      /\ kids'[x] = kids[x] \/ (kids'[x] = {} /\ x # 0 /\ meta'[x] = "closed")
    BY RequestGood DEF Requested
<1>3. Types'
    <2>1. Types
        BY DEF IInv
    <2> QED
        BY <1>1, <1>2, <2>1 DEF Types
<1>4. Asks(x)
    BY <1>1, <1>2 DEF Asks
<1> QED
    BY <1>3, <1>4, AsksGood

\* A letter finds the object it is for, and is done when it arrived.
LEMMA ArriveGood ==
    ASSUME IInv, NEW o \in Objects, out[o] # <<>>, Arrive(Head(out[o]))
    PROVE  Head(out[o]).to \in Objects /\ Requested(Head(out[o]).to) /\ Done(Head(out[o]))
<1> DEFINE l == Head(out[o])
           x == l.to
<1>1. Types /\ out[o] \in Seq(Letter)
    BY DEF IInv, Types
<1>2. l \in Letter /\ In(l, out[o])
    BY <1>1, TailElements
<1>3. LetterGood(o, l)
    BY <1>2 DEF IInv, Sent
<1> HIDE DEF l
<1>4. x \in Objects /\ l.job \in Objects /\ l.kind \in {"create", "cancel", "close", "job"}
    BY <1>2 DEF Letter
<1>5. meta \in [Objects -> Metas] /\ meta[x] \in Metas
    BY <1>1, <1>4 DEF Types
<1>6. CASE l.kind = "create"
    <2>1. Create(x) /\ x \in 1..born
        BY <1>3, <1>6 DEF Arrive, LetterGood, Kin, l
    <2>2. meta'[x] # "none"
        BY <1>4, <1>5, <2>1 DEF Create
    <2> QED
        BY <1>4, <1>6, <2>1, <2>2 DEF Requested, Done, l
<1>7. CASE l.kind = "close"
    <2>1. Close(x)
        BY <1>7 DEF Arrive, l
    <2>2. meta'[x] \in {"none", "closing", "closed"}
        BY <1>4, <1>5, <2>1 DEF Close, Metas
    <2> QED
        BY <1>4, <1>7, <2>1, <2>2 DEF Requested, Done, l
<1>8. CASE l.kind \in {"cancel", "job"}
    <2> DEFINE w == W(l.kind, l.job)
    <2>1. Accept(x, w) /\ w \in Wake /\ w.kind = l.kind /\ w.job = l.job
        BY <1>4, <1>8, Records DEF Arrive, l
    <2>2. WakeGood(x, w)
        <3>1. CASE l.kind = "job"
            <4>1. o # 0 /\ l = L(parent[o], "job", o) /\ meta[o] \in {"ended", "closed"} /\ parent[o] \in Objects
                BY <1>1, <1>3, <3>1 DEF LetterGood, Types
            <4>2. l.job = o /\ x = parent[o]
                BY <4>1, Records
            <4>3. o \in 1..born
                BY <1>1, <4>1, Numbers DEF IInv, Fresh
            <4> QED
                BY <2>1, <4>1, <4>2, <4>3 DEF WakeGood, Kin
        <3>2. CASE l.kind # "job"
            BY <2>1, <3>2 DEF WakeGood
        <3> QED
            BY <3>1, <3>2
    <2> HIDE DEF w
    <2>3. meta'[x] = "open" => In(w, mail'[x])
        <3>1. /\ UNCHANGED meta
              /\ meta[x] = "open" => \A v : In(v, mail'[x]) <=> In(v, mail[x]) \/ v = w
            BY <1>4, <2>1, <2>2, WakesGood
        <3> QED
            BY <3>1
    <2> QED
        BY <1>4, <1>8, <2>1, <2>2, <2>3 DEF Requested, Done, l
<1> QED
    BY <1>4, <1>6, <1>7, <1>8

LEMMA LettersGood ==
    ASSUME IInv, NEW o \in Objects, Deliver(o) \/ DeliverAgain(o)
    PROVE  IInv'
<1>1. out[o] # <<>> /\ Arrive(Head(out[o])) /\ UNCHANGED <<session, tree, seen>>
    BY DEF Deliver, DeliverAgain
<1>2. Head(out[o]).to \in Objects /\ Requested(Head(out[o]).to) /\ Done(Head(out[o]))
    BY <1>1, ArriveGood
<1>3. out \in [Objects -> Seq(Letter)] /\ Tail(out[o]) \in Seq(Letter)
    <2>1. out \in [Objects -> Seq(Letter)]
        BY DEF IInv, Types
    <2> QED
        BY <1>1, <2>1, TailElements
<1>4. out' = out \/ out' = [out EXCEPT ![o] = Tail(@)]
    BY DEF Deliver, DeliverAgain
<1>5. /\ out' \in [Objects -> Seq(Letter)]
      /\ \A y \in Objects : out'[y] = out[y] \/ (out[y] # <<>> /\ out'[y] = Tail(out[y]) /\ Done(Head(out[y])))
    <2>1. CASE out' = out
        BY <1>3, <2>1
    <2>2. CASE out' = [out EXCEPT ![o] = Tail(@)]
        BY <1>1, <1>2, <1>3, <2>2
    <2> QED
        BY <1>4, <2>1, <2>2
<1> QED
    BY <1>1, <1>2, <1>5, RequestedGood

LEMMA HostGood ==
    ASSUME IInv, HostPrompt \/ \E o \in Objects : HostCancel(o) \/ HostClose(o)
    PROVE  IInv'
<1>1. W("prompt", 0) \in Wake /\ W("cancel", 0) \in Wake
      /\ \A x : WakeGood(x, W("prompt", 0)) /\ WakeGood(x, W("cancel", 0))
    BY Records DEF WakeGood
<1>2. UNCHANGED <<session, tree, seen, out>> /\ \E x \in Objects : Requested(x)
    <2>1. CASE HostPrompt
        BY <1>1, <2>1, Records DEF HostPrompt, Requested
    <2>2. CASE \E o \in Objects : HostCancel(o) \/ HostClose(o)
        BY <1>1, <2>2 DEF HostCancel, HostClose, Requested
    <2> QED
        BY <2>1, <2>2
<1>3. out \in [Objects -> Seq(Letter)]
    BY DEF IInv, Types
<1> QED
    BY <1>2, <1>3, RequestedGood

-----------------------------------------------------------------------------
(* The session's steps. *)

LEMMA LiveFacts ==
    ASSUME IInv, NEW o \in Objects
    PROVE  /\ meta \in [Objects -> Metas] /\ turn \in [Objects -> {"idle", "run", "wait", "over"}]
           /\ held \in [Objects -> BOOLEAN] /\ mail \in [Objects -> Seq(Wake)] /\ out \in [Objects -> Seq(Letter)]
           /\ jobs \in [Objects -> SUBSET Jobs] /\ kids \in [Objects -> SUBSET Jobs]
           /\ parent \in [Objects -> Objects] /\ born \in 0..MaxJobs
           /\ runs \in [Objects -> Nat] /\ ends \in [Objects -> Nat] /\ missed \in SUBSET Objects
           /\ mail[o] \in Seq(Wake) /\ out[o] \in Seq(Letter) /\ turn[o] \in {"idle", "run", "wait", "over"}
           /\ jobs[o] \subseteq Kin(o) /\ kids[o] \subseteq Kin(o) /\ jobs[o] \in SUBSET Jobs /\ kids[o] \in SUBSET Jobs
           /\ \A c \in Kin(o) : c \in Jobs /\ c \in Objects /\ c # 0
           /\ \A t : Live(o, t) => meta[o] \in {"open", "closing"} /\ turn[o] \in t /\ ~Over(o)
           /\ \A ls \in Seq(Letter) : out[o] \o ls \in Seq(Letter)
<1>1. Types /\ Owns(o)
    BY DEF IInv
<1>2. \A c \in Kin(o) : c \in Jobs /\ c \in Objects /\ c # 0
    BY <1>1, Numbers DEF Kin
<1>3. out[o] \in Seq(Letter)
    BY <1>1 DEF Types
<1>4. \A ls \in Seq(Letter) : out[o] \o ls \in Seq(Letter)
    BY <1>3, ConcatElements
<1> QED
    BY <1>1, <1>2, <1>4 DEF Types, Owns, Live

\* A wake taken from the front of the mailbox.
LEMMA RestElements ==
    ASSUME IInv, NEW o \in Objects, mail[o] # <<>>
    PROVE  /\ Rest(o) \in Seq(Wake) /\ Head(mail[o]) \in Wake /\ WakeGood(o, Head(mail[o]))
           /\ \A w : In(w, Rest(o)) => In(w, mail[o])
           /\ Head(mail[o]).kind # "cancel" /\ InMail("cancel", o) =>
                \E i \in DOMAIN Rest(o) : Rest(o)[i].kind = "cancel"
<1>1. mail[o] \in Seq(Wake) /\ Mailed(o)
    BY DEF IInv, Types
<1>2. /\ Rest(o) \in Seq(Wake) /\ Head(mail[o]) \in Wake
      /\ \A w : In(w, mail[o]) <=> w = Head(mail[o]) \/ In(w, Rest(o))
    BY <1>1, TailElements DEF Rest
<1>3. ASSUME Head(mail[o]).kind # "cancel", InMail("cancel", o)
      PROVE  \E i \in DOMAIN Rest(o) : Rest(o)[i].kind = "cancel"
    <2>1. PICK w : In(w, mail[o]) /\ w.kind = "cancel"
        BY <1>3 DEF InMail, In
    <2>2. In(w, Rest(o))
        BY <1>2, <1>3, <2>1
    <2> QED
        BY <2>1, <2>2 DEF In
<1> QED
    BY <1>1, <1>2, <1>3 DEF Mailed

LEMMA NoLetters ==
    ASSUME IInv, NEW o \in Objects
    PROVE  \E ls : ls = <<>> /\ ls \in Seq(Letter) /\ (\A l : ~In(l, ls)) /\ out[o] \o ls = out[o]
<1>1. out[o] \in Seq(Letter)
    BY DEF IInv, Types
<1>2. out[o] \o <<>> = out[o]
    BY <1>1
<1> QED
    BY <1>2, OneElement

LEMMA TakeJobEndGood ==
    ASSUME IInv, NEW o \in Objects, TakeJobEnd(o)
    PROVE  Types' /\ \E ls : Moves(o, ls)
<1> DEFINE c == Head(mail[o]).job
<1>1. PICK d, ls : d = c /\ ls = <<L(d, "close", 0)>>
    OBVIOUS
<1>2. /\ Live(o, {"idle", "run", "wait"}) /\ mail[o] # <<>> /\ Head(mail[o]).kind = "job"
      /\ jobs' = [jobs EXCEPT ![o] = @ \ {d}]
      /\ ends' = [ends EXCEPT ![d] = @ + (IF d \in jobs[o] THEN 1 ELSE 0)]
      /\ kids' = [kids EXCEPT ![o] = @ \ {d}]
      /\ out' = [out EXCEPT ![o] = @ \o ls]
      /\ mail' = [mail EXCEPT ![o] = Rest(o)]
      /\ turn' = [turn EXCEPT ![o] = IF @ = "wait" THEN "run" ELSE @]
      /\ UNCHANGED <<meta, held, parent, born, runs, missed>>
    BY <1>1 DEF TakeJobEnd, Takes, JobEnded, Post, tree
<1>3. d \in Kin(o) /\ meta[d] \in {"ended", "closed"}
    BY <1>1, <1>2, RestElements DEF WakeGood
<1>4. /\ Rest(o) \in Seq(Wake) /\ \A w : In(w, Rest(o)) => In(w, mail[o])
      /\ InMail("cancel", o) => \E i \in DOMAIN Rest(o) : Rest(o)[i].kind = "cancel"
    BY <1>2, RestElements
<1>5. ls \in Seq(Letter) /\ (\A l : In(l, ls) <=> l = L(d, "close", 0))
    BY <1>1, <1>3, LiveFacts, Records, OneElement
<1>6. Types'
    <2>1. out' \in [Objects -> Seq(Letter)]
        BY <1>2, <1>5, LiveFacts
    <2>2. mail' \in [Objects -> Seq(Wake)]
        BY <1>2, <1>4, LiveFacts
    <2>3. turn' \in [Objects -> {"idle", "run", "wait", "over"}]
        BY <1>2, LiveFacts
    <2>4. jobs' \in [Objects -> SUBSET Jobs] /\ kids' \in [Objects -> SUBSET Jobs]
        BY <1>2, LiveFacts
    <2>5. ends' \in [Objects -> Nat]
        <3>1. ends \in [Objects -> Nat]
            BY LiveFacts
        <3>2. PICK a : a = (IF d \in jobs[o] THEN 1 ELSE 0) /\ a \in Nat
            OBVIOUS
        <3>3. ends' = [ends EXCEPT ![d] = @ + a]
            BY <1>2, <3>2
        <3>4. \A x \in Objects : ends[x] + a \in Nat
            BY <3>1, <3>2
        <3> QED
            BY <3>1, <3>3, <3>4
    <2>6. Types
        BY DEF IInv
    <2> QED
        BY <1>2, <2>1, <2>2, <2>3, <2>4, <2>5, <2>6 DEF Types
<1>7. mail'[o] = Rest(o) /\ (InMail("cancel", o) => InMail("cancel", o)')
    BY <1>2, <1>4, LiveFacts DEF InMail
<1>8. /\ meta'[o] = meta[o] /\ out'[o] = out[o] \o ls /\ jobs'[o] = jobs[o] \ {d} /\ kids'[o] = kids[o] \ {d}
      /\ runs' = runs /\ missed' = missed /\ held' = held
      /\ turn'[o] = IF turn[o] = "wait" THEN "run" ELSE turn[o]
      /\ turn[o] # "over" /\ ~Over(o) /\ meta[o] \in {"open", "closing"}
      /\ \A x \in Objects : x # o =>
           /\ mail'[x] = mail[x] /\ out'[x] = out[x] /\ turn'[x] = turn[x]
           /\ jobs'[x] = jobs[x] /\ kids'[x] = kids[x]
    <2>1. /\ mail \in [Objects -> Seq(Wake)] /\ out \in [Objects -> Seq(Letter)]
          /\ jobs \in [Objects -> SUBSET Jobs] /\ kids \in [Objects -> SUBSET Jobs]
          /\ turn \in [Objects -> {"idle", "run", "wait", "over"}]
        BY LiveFacts
    <2>2. turn[o] \in {"idle", "run", "wait"} /\ ~Over(o) /\ meta[o] \in {"open", "closing"}
        BY <1>2 DEF Live
    <2> QED
        BY <1>2, <2>1, <2>2
<1>9. \A c0 \in Jobs : ends'[c0] = ends[c0] \/ (ends'[c0] = ends[c0] + 1 /\ c0 \in jobs[o] /\ c0 \notin jobs'[o])
    <2>1. ends \in [Objects -> Nat] /\ Jobs \subseteq Objects
        BY LiveFacts, Records
    <2> QED
        BY <1>2, <1>8, <2>1
<1>10. \A l : In(l, ls) => l.kind # "job" /\ l.job = 0 /\ l.to \in Kin(o)
    <2>1. d \in Objects
        BY <1>3, LiveFacts
    <2> QED
        BY <1>3, <1>5, <2>1, Records
<1>11. Moves(o, ls)
    BY <1>2, <1>3, <1>4, <1>5, <1>7, <1>8, <1>9, <1>10 DEF Moves
<1> QED
    BY <1>6, <1>11

LEMMA TakePromptGood ==
    ASSUME IInv, NEW o \in Objects, TakePrompt(o)
    PROVE  Types' /\ \E ls : Moves(o, ls)
<1>1. /\ Live(o, {"idle", "run", "wait"}) /\ mail[o] # <<>> /\ Head(mail[o]).kind = "prompt"
      /\ mail' = [mail EXCEPT ![o] = Rest(o)] /\ turn' = [turn EXCEPT ![o] = "run"]
      /\ runs' = [runs EXCEPT ![o] = @ + (IF turn[o] = "idle" THEN 1 ELSE 0)]
      /\ UNCHANGED <<meta, out, jobs, held, kids, parent, born, ends, missed>>
    BY DEF TakePrompt, Takes, tree
<1>2. /\ Rest(o) \in Seq(Wake) /\ \A w : In(w, Rest(o)) => In(w, mail[o])
      /\ InMail("cancel", o) => \E i \in DOMAIN Rest(o) : Rest(o)[i].kind = "cancel"
    BY <1>1, RestElements
<1>3. mail'[o] = Rest(o) /\ (InMail("cancel", o) => InMail("cancel", o)')
    BY <1>1, <1>2, LiveFacts DEF InMail
<1>4. PICK ls : ls = <<>> /\ ls \in Seq(Letter) /\ (\A l : ~In(l, ls)) /\ out[o] \o ls = out[o]
    BY NoLetters
<1>5. Types'
    BY <1>1, <1>2, LiveFacts DEF Types
<1>6. Moves(o, ls)
    BY <1>1, <1>2, <1>3, <1>4, LiveFacts DEF Moves
<1> QED
    BY <1>5, <1>6

\* A turn that is over, with what it leaves.
LEMMA TurnOverGood ==
    ASSUME IInv, NEW o \in Objects, NEW m \in Seq(Wake), NEW left \in SUBSET jobs[o], NEW ls \in Seq(Letter),
           meta[o] \in {"open", "closing"}, ~Over(o), TurnOver(o, m, left, ls), UNCHANGED <<tree, host, again, seen>>,
           \A w : In(w, m) => In(w, mail[o]),
           \A l : In(l, ls) => \E c \in Kin(o) : l = L(c, "cancel", 0),
           \A c \in jobs[o] \ left : In(L(c, "cancel", 0), ls)
    PROVE  Types' /\ Moves(o, ls)
<1>1. /\ turn' = [turn EXCEPT ![o] = IF o = 0 THEN "idle" ELSE "over"]
      /\ jobs' = [jobs EXCEPT ![o] = left] /\ mail' = [mail EXCEPT ![o] = m]
      /\ out' = [out EXCEPT ![o] = @ \o ls]
      /\ UNCHANGED <<meta, kids, held, parent, born, runs, ends, missed>>
    BY DEF TurnOver, Post, tree, seen
<1>2. Types'
    BY <1>1, LiveFacts DEF Types
<1>3. o # 0 /\ meta'[o] = "open" => Over(o)'
    BY <1>1, LiveFacts DEF Over
<1>4. \A l : In(l, ls) => l.kind # "job" /\ l.job = 0 /\ l.to \in Kin(o)
    BY LiveFacts, Records
<1>5. Moves(o, ls)
    BY <1>1, <1>3, <1>4, LiveFacts DEF Moves
<1> QED
    BY <1>2, <1>5

LEMMA StopTurnGood ==
    ASSUME IInv, NEW o \in Objects, NEW m \in Seq(Wake), meta[o] \in {"open", "closing"}, ~Over(o),
           StopTurn(o, m), UNCHANGED <<tree, host, again, seen>>, \A w : In(w, m) => In(w, mail[o])
    PROVE  Types' /\ \E ls : Moves(o, ls)
<1>1. PICK ls : ls = Letters(jobs[o], "cancel")
    OBVIOUS
<1>2. ls \in Seq(Letter) /\ \A l : In(l, ls) <=> \E c \in jobs[o] : l = L(c, "cancel", 0)
    BY <1>1, LettersElements, LiveFacts
<1>3. TurnOver(o, m, {}, ls)
    BY <1>1 DEF StopTurn
<1>4. /\ \A l : In(l, ls) => \E c \in Kin(o) : l = L(c, "cancel", 0)
      /\ \A c \in jobs[o] \ {} : In(L(c, "cancel", 0), ls)
    BY <1>2, LiveFacts
<1> QED
    BY <1>2, <1>3, <1>4, TurnOverGood

LEMMA CancelsGood ==
    ASSUME IInv, NEW o \in Objects, TakeCancel(o) \/ StepCancelled(o) \/ EndTurn(o)
    PROVE  Types' /\ \E ls : Moves(o, ls)
<1>1. CASE TakeCancel(o)
    <2>1. mail[o] # <<>> /\ StopTurn(o, Rest(o)) /\ UNCHANGED <<tree, host, again, seen>>
        BY <1>1 DEF TakeCancel, Takes
    <2>2. Rest(o) \in Seq(Wake) /\ \A w : In(w, Rest(o)) => In(w, mail[o])
        BY <2>1, RestElements
    <2>3. meta[o] \in {"open", "closing"} /\ ~Over(o)
        BY <1>1, LiveFacts DEF TakeCancel
    <2> QED
        BY <2>1, <2>2, <2>3, StopTurnGood
<1>2. CASE StepCancelled(o)
    <2>1. StopTurn(o, WithoutCancel(o)) /\ UNCHANGED <<tree, host, again, seen>>
        BY <1>2 DEF StepCancelled
    <2>2. WithoutCancel(o) \in Seq(Wake) /\ \A w : In(w, WithoutCancel(o)) => In(w, mail[o])
        BY WithoutCancelElements, LiveFacts
    <2>3. meta[o] \in {"open", "closing"} /\ ~Over(o)
        BY <1>2, LiveFacts DEF StepCancelled
    <2> QED
        BY <2>1, <2>2, <2>3, StopTurnGood
<1>3. CASE EndTurn(o)
    <2>1. PICK ls : ls = <<>> /\ ls \in Seq(Letter) /\ \A l : ~In(l, ls)
        BY OneElement
    <2>2. TurnOver(o, mail[o], jobs[o], ls) /\ UNCHANGED <<tree, host, again, seen>>
        BY <1>3, <2>1 DEF EndTurn
    <2>3. meta[o] \in {"open", "closing"} /\ ~Over(o) /\ mail[o] \in Seq(Wake)
        BY <1>3, LiveFacts DEF EndTurn
    <2> QED
        BY <2>1, <2>2, <2>3, TurnOverGood
<1> QED
    BY <1>1, <1>2, <1>3

LEMMA LateCancelGood ==
    ASSUME IInv, NEW o \in Objects, LateCancel(o)
    PROVE  Types' /\ \E ls : Moves(o, ls)
<1>1. /\ mail' = [mail EXCEPT ![o] = WithoutCancel(o)] /\ missed' = missed \union {o}
      /\ UNCHANGED <<meta, out, turn, jobs, held, kids, parent, born, runs, ends>>
      /\ meta[o] \in {"open", "closing"} /\ ~Over(o)
    BY DEF LateCancel, session, tree, Live
<1>2. WithoutCancel(o) \in Seq(Wake) /\ \A w : In(w, WithoutCancel(o)) => In(w, mail[o])
    BY WithoutCancelElements, LiveFacts
<1>3. PICK ls : ls = <<>> /\ ls \in Seq(Letter) /\ (\A l : ~In(l, ls)) /\ out[o] \o ls = out[o]
    BY NoLetters
<1>4. Types'
    BY <1>1, <1>2, LiveFacts DEF Types
<1>5. mail \in [Objects -> Seq(Wake)]
    BY LiveFacts
<1>6. Moves(o, ls)
    BY <1>1, <1>2, <1>3, <1>5 DEF Moves
<1> QED
    BY <1>4, <1>6

LEMMA KillGood ==
    ASSUME IInv, NEW o \in Objects, Kill(o)
    PROVE  Types' /\ \E ls : Moves(o, ls)
<1>1. PICK d \in jobs[o] : jobs' = [jobs EXCEPT ![o] = @ \ {d}] /\ Post(o, <<L(d, "cancel", 0)>>)
    BY DEF Kill
<1>2. PICK ls : ls = <<L(d, "cancel", 0)>>
    OBVIOUS
<1>3. /\ out' = [out EXCEPT ![o] = @ \o ls]
      /\ UNCHANGED <<meta, mail, turn, held, kids, parent, born, runs, ends, missed>>
      /\ meta[o] \in {"open", "closing"} /\ ~Over(o) /\ turn[o] = "run"
    BY <1>1, <1>2 DEF Kill, Post, tree, seen, Live
<1>4. d \in Kin(o) /\ d \in Objects
    BY LiveFacts
<1>5. ls \in Seq(Letter) /\ (\A l : In(l, ls) <=> l = L(d, "cancel", 0))
    BY <1>2, <1>4, Records, OneElement
<1>6. Types'
    BY <1>1, <1>3, <1>5, LiveFacts DEF Types
<1>7. \A l : In(l, ls) => l.kind # "job" /\ l.job = 0 /\ l.to \in Kin(o)
    BY <1>4, <1>5, Records
<1>8. /\ out'[o] = out[o] \o ls /\ jobs'[o] = jobs[o] \ {d}
      /\ \A x \in Objects : x # o => out'[x] = out[x] /\ jobs'[x] = jobs[x]
    <2>1. out \in [Objects -> Seq(Letter)] /\ jobs \in [Objects -> SUBSET Jobs]
        BY LiveFacts
    <2> QED
        BY <1>1, <1>3, <2>1
<1>9. InMail("cancel", o)' = InMail("cancel", o)
    BY <1>3 DEF InMail
<1>10. Moves(o, ls)
    BY <1>3, <1>5, <1>7, <1>8, <1>9 DEF Moves
<1> QED
    BY <1>6, <1>10

\* Steps that only change the turn, or note a close.
LEMMA WaitsGood ==
    ASSUME IInv, NEW o \in Objects,
           WaitForJobs(o) \/ (TakeClose(o) /\ turn[o] # "idle")
    PROVE  Types' /\ \E ls : Moves(o, ls)
<1>1. PICK ls : ls = <<>> /\ ls \in Seq(Letter) /\ (\A l : ~In(l, ls)) /\ out[o] \o ls = out[o]
    BY NoLetters
<1>2. CASE WaitForJobs(o)
    <2>1. /\ turn' = [turn EXCEPT ![o] = "wait"]
          /\ UNCHANGED <<meta, mail, out, jobs, held, kids, parent, born, runs, ends, missed>>
          /\ meta[o] \in {"open", "closing"} /\ ~Over(o)
        BY <1>2 DEF WaitForJobs, tree, seen, Live
    <2>2. Types'
        BY <2>1, LiveFacts DEF Types
    <2>3. turn \in [Objects -> {"idle", "run", "wait", "over"}]
        BY LiveFacts
    <2>4. InMail("cancel", o)' = InMail("cancel", o)
        BY <2>1 DEF InMail
    <2>5. Moves(o, ls)
        BY <1>1, <2>1, <2>3, <2>4 DEF Moves
    <2> QED
        BY <2>2, <2>5
<1>3. CASE TakeClose(o) /\ turn[o] # "idle"
    <2>1. /\ held' = [held EXCEPT ![o] = TRUE] /\ mail' = [mail EXCEPT ![o] = Rest(o)]
          /\ UNCHANGED <<meta, out, turn, jobs, kids, parent, born, runs, ends, missed>>
          /\ meta[o] \in {"open", "closing"} /\ ~Over(o) /\ mail[o] # <<>> /\ Head(mail[o]).kind = "close"
        BY <1>3 DEF TakeClose, tree, seen, Live, Takes
    <2>2. /\ Rest(o) \in Seq(Wake) /\ \A w : In(w, Rest(o)) => In(w, mail[o])
          /\ InMail("cancel", o) => \E i \in DOMAIN Rest(o) : Rest(o)[i].kind = "cancel"
        BY <2>1, RestElements
    <2>3. Types'
        BY <2>1, <2>2, LiveFacts DEF Types
    <2>4. held \in [Objects -> BOOLEAN] /\ mail \in [Objects -> Seq(Wake)]
        BY LiveFacts
    <2>5. mail'[o] = Rest(o) /\ (InMail("cancel", o) => InMail("cancel", o)')
        BY <2>1, <2>2, <2>4 DEF InMail
    <2>6. \A x \in Objects : x # o => mail'[x] = mail[x] /\ held'[x] = held[x]
        BY <2>1, <2>4
    <2>7. Moves(o, ls)
        BY <1>1, <2>1, <2>2, <2>5, <2>6 DEF Moves
    <2> QED
        BY <2>3, <2>7
<1> QED
    BY <1>2, <1>3

\* A session that ends asks its jobs to stop, closes those it knows when it was
\* asked to close, and tells its parent.
LEMMA FinishGood ==
    ASSUME IInv, NEW o \in Objects, NEW h \in BOOLEAN, Finish(o, h), o = 0 => h,
           meta[o] \in {"open", "closing"}, UNCHANGED <<tree, seen>>
    PROVE  Types' /\ \E ls : Moves(o, ls)
<1>1. PICK cancelled, closed, told, ls :
        /\ cancelled = Letters(jobs[o], "cancel")
        /\ closed = IF h THEN Letters(kids[o], "close") ELSE <<>>
        /\ told = IF o = 0 THEN <<>> ELSE <<L(parent[o], "job", o)>>
        /\ ls = (cancelled \o closed) \o told
    OBVIOUS
<1>2. PICK all \in BOOLEAN : all = (h \/ meta[o] = "closing")
    OBVIOUS
<1>3. /\ out' = [out EXCEPT ![o] = @ \o ls]
      /\ meta' = [meta EXCEPT ![o] = IF all THEN "closed" ELSE "ended"]
      /\ kids' = [kids EXCEPT ![o] = IF all THEN {} ELSE @]
      /\ mail' = [mail EXCEPT ![o] = <<>>]
      /\ turn' = [turn EXCEPT ![o] = "idle"] /\ jobs' = [jobs EXCEPT ![o] = {}]
      /\ UNCHANGED <<held, parent, born, runs, ends, missed>>
    <2>1. out' = [out EXCEPT ![o] = @ \o ls]
        BY <1>1 DEF Finish, Post
    <2> QED
        BY <1>2, <2>1 DEF Finish, tree, seen
<1>4. cancelled \in Seq(Letter) /\ \A l : In(l, cancelled) <=> \E c \in jobs[o] : l = L(c, "cancel", 0)
    BY <1>1, LettersElements, LiveFacts
<1>5. closed \in Seq(Letter) /\ \A l : In(l, closed) <=> h /\ \E c \in kids[o] : l = L(c, "close", 0)
    <2>1. CASE h
        <3>1. closed = Letters(kids[o], "close")
            BY <1>1, <2>1
        <3>2. /\ Letters(kids[o], "close") \in Seq(Letter)
              /\ \A l : In(l, Letters(kids[o], "close")) <=> \E c \in kids[o] : l = L(c, "close", 0)
            BY LettersElements, LiveFacts
        <3> QED
            BY <2>1, <3>1, <3>2
    <2>2. CASE ~h
        <3>1. closed = <<>>
            BY <1>1, <2>2
        <3> QED
            BY <2>2, <3>1, OneElement
    <2> QED
        BY <2>1, <2>2
<1>6. parent[o] \in Objects
    BY LiveFacts
<1>7. told \in Seq(Letter) /\ \A l : In(l, told) <=> o # 0 /\ l = L(parent[o], "job", o)
    <2>1. CASE o = 0
        <3>1. told = <<>>
            BY <1>1, <2>1
        <3> QED
            BY <2>1, <3>1, OneElement
    <2>2. CASE o # 0
        <3>1. told = <<L(parent[o], "job", o)>> /\ L(parent[o], "job", o) \in Letter
            BY <1>1, <1>6, <2>2, Records
        <3> QED
            BY <2>2, <3>1, OneElement
    <2> QED
        BY <2>1, <2>2
<1>8. /\ ls \in Seq(Letter)
      /\ \A l : In(l, ls) <=> In(l, cancelled) \/ In(l, closed) \/ In(l, told)
    <2>1. /\ cancelled \o closed \in Seq(Letter)
          /\ \A l : In(l, cancelled \o closed) <=> In(l, cancelled) \/ In(l, closed)
        BY <1>4, <1>5, ConcatElements
    <2>2. /\ (cancelled \o closed) \o told \in Seq(Letter)
          /\ \A l : In(l, (cancelled \o closed) \o told) <=> In(l, cancelled \o closed) \/ In(l, told)
        BY <1>7, <2>1, ConcatElements, ZenonT(30)
    <2> HIDE DEF In
    <2>3. ls = (cancelled \o closed) \o told
        BY <1>1
    <2> QED
        BY <2>1, <2>2, <2>3, Zenon
<1>9. Types'
    <2>1. out' \in [Objects -> Seq(Letter)]
        BY <1>3, <1>8, LiveFacts
    <2>2. mail' \in [Objects -> Seq(Wake)]
        BY <1>3, LiveFacts
    <2>3. meta' \in [Objects -> Metas]
        BY <1>3, LiveFacts DEF Metas
    <2>4. turn' \in [Objects -> {"idle", "run", "wait", "over"}]
        BY <1>3, LiveFacts
    <2>5. jobs' \in [Objects -> SUBSET Jobs] /\ kids' \in [Objects -> SUBSET Jobs]
        BY <1>3, LiveFacts
    <2> QED
        BY <1>3, <2>1, <2>2, <2>3, <2>4, <2>5, LiveFacts DEF Types
<1>10. \A l : In(l, ls) => IF l.kind = "job" THEN o # 0 /\ l = L(parent[o], "job", o) ELSE l.job = 0 /\ l.to \in Kin(o)
    <2>1. \A c \in jobs[o] : c \in Kin(o) /\ c \in Objects
        BY LiveFacts
    <2>2. \A c \in kids[o] : c \in Kin(o) /\ c \in Objects
        BY LiveFacts
    <2>3. L(parent[o], "job", o).kind = "job"
        BY <1>6, Records
    <2>4. \A c \in jobs[o] : /\ L(c, "cancel", 0).kind # "job" /\ L(c, "cancel", 0).job = 0
                             /\ L(c, "cancel", 0).to = c
        BY <2>1, Records
    <2>5. \A c \in kids[o] : /\ L(c, "close", 0).kind # "job" /\ L(c, "close", 0).job = 0
                             /\ L(c, "close", 0).to = c
        BY <2>2, Records
    <2> SUFFICES ASSUME NEW l, In(l, ls)
                 PROVE  IF l.kind = "job" THEN o # 0 /\ l = L(parent[o], "job", o) ELSE l.job = 0 /\ l.to \in Kin(o)
        OBVIOUS
    <2>6. CASE In(l, cancelled)
        BY <1>4, <2>1, <2>4, <2>6
    <2>7. CASE In(l, closed)
        BY <1>5, <2>2, <2>5, <2>7
    <2>8. CASE In(l, told)
        BY <1>7, <2>3, <2>8
    <2> QED
        BY <1>8, <2>6, <2>7, <2>8
<1>11. /\ meta'[o] = (IF all THEN "closed" ELSE "ended") /\ kids'[o] = (IF all THEN {} ELSE kids[o])
       /\ out'[o] = out[o] \o ls /\ mail'[o] = <<>> /\ turn'[o] = "idle" /\ jobs'[o] = {}
       /\ \A x \in Objects : x # o =>
            /\ meta'[x] = meta[x] /\ mail'[x] = mail[x] /\ out'[x] = out[x]
            /\ turn'[x] = turn[x] /\ jobs'[x] = jobs[x] /\ kids'[x] = kids[x]
    <2>1. /\ mail \in [Objects -> Seq(Wake)] /\ out \in [Objects -> Seq(Letter)]
          /\ jobs \in [Objects -> SUBSET Jobs] /\ kids \in [Objects -> SUBSET Jobs]
          /\ turn \in [Objects -> {"idle", "run", "wait", "over"}] /\ meta \in [Objects -> Metas]
        BY LiveFacts
    <2> QED
        BY <1>3, <2>1
<1>12. \A c \in jobs[o] : In(L(c, "cancel", 0), ls)
    BY <1>4, <1>8
<1>13. \A c \in kids[o] \ kids'[o] : In(L(c, "close", 0), ls) \/ (o # 0 /\ meta'[o] = "closed")
    BY <1>2, <1>5, <1>8, <1>11
<1>14. \A w : ~In(w, mail'[o])
    BY <1>11, OneElement
<1>15. meta'[o] = "ended" => o # 0 /\ meta[o] = "open"
    BY <1>2, <1>11
<1>16. Moves(o, ls)
    BY <1>3, <1>8, <1>10, <1>11, <1>12, <1>13, <1>14, <1>15 DEF Moves
<1> QED
    BY <1>9, <1>16

\* A job that starts has a number no object had, and its letter is the last.
LEMMA StartGood ==
    ASSUME IInv, NEW o \in Objects, Start(o)
    PROVE  IInv'
<1>1. PICK n, ls : n = born + 1 /\ ls = <<L(n, "create", 0)>>
    OBVIOUS
<1>2. /\ born' = n /\ born < MaxJobs
      /\ parent' = [parent EXCEPT ![n] = o]
      /\ jobs' = [jobs EXCEPT ![o] = @ \union {n}] /\ kids' = [kids EXCEPT ![o] = @ \union {n}]
      /\ out' = [out EXCEPT ![o] = @ \o ls]
      /\ meta' = meta /\ mail' = mail /\ turn' = turn /\ held' = held
      /\ runs' = runs /\ ends' = ends /\ missed' = missed
      /\ meta[o] \in {"open", "closing"} /\ turn[o] = "run"
    <2>1. born' = n
        BY <1>1 DEF Start
    <2>2. out' = [out EXCEPT ![o] = @ \o ls]
        BY <1>1, <2>1 DEF Start, Post
    <2> QED
        BY <2>1, <2>2 DEF Start, seen, Live
<1>3. Types
    BY DEF IInv
<1>4. /\ n \in Jobs /\ n \in Objects /\ n > born /\ n # 0 /\ n \notin 1..born
      /\ \A c : c \in 1..n <=> c \in 1..born \/ c = n
      /\ \A c \in Jobs : c > n => c > born
      /\ n \in 0..MaxJobs
    <2>1. born \in Nat /\ MaxJobs \in Nat /\ n = born + 1 /\ n <= MaxJobs
        BY <1>1, <1>2, <1>3, ConstantsOK DEF Types
    <2>2. n \in 1..MaxJobs /\ n \in 0..MaxJobs
        BY <2>1
    <2>3. /\ n > born /\ n # 0 /\ n \notin 1..born
          /\ \A c : c \in 1..n <=> c \in 1..born \/ c = n
        BY <2>1
    <2>4. \A c \in 1..MaxJobs : c > n => c > born
        BY <2>1
    <2> QED
        BY <2>2, <2>3, <2>4 DEF Jobs, Objects
<1>5. meta[n] = "none" /\ ends[n] = 0 /\ n # o
    BY <1>2, <1>4 DEF IInv, Fresh
<1>6. ls \in Seq(Letter) /\ (\A l : In(l, ls) <=> l = L(n, "create", 0))
    BY <1>1, <1>4, Records, OneElement
<1>7. /\ out'[o] = out[o] \o ls /\ jobs'[o] = jobs[o] \union {n} /\ kids'[o] = kids[o] \union {n} /\ parent'[n] = o
      /\ \A x \in Objects : x # o => out'[x] = out[x] /\ jobs'[x] = jobs[x] /\ kids'[x] = kids[x]
      /\ \A x \in Objects : x # n => parent'[x] = parent[x]
    BY <1>2, <1>3, <1>4 DEF Types
<1>8. Types'
    <2>1. out' \in [Objects -> Seq(Letter)]
        BY <1>2, <1>6, LiveFacts
    <2>2. jobs' \in [Objects -> SUBSET Jobs] /\ kids' \in [Objects -> SUBSET Jobs]
        BY <1>2, <1>3, <1>4 DEF Types
    <2>3. parent' \in [Objects -> Objects]
        BY <1>2, <1>3 DEF Types
    <2> QED
        BY <1>2, <1>3, <1>4, <2>1, <2>2, <2>3 DEF Types
<1>9. /\ \A x \in Objects : Kin(x) \subseteq Kin(x)'
      /\ n \in Kin(o)' /\ \A x : n \notin Kin(x)
    <2>1. \A c \in 1..born : c \in Objects /\ c # n
        BY <1>3, <1>4, Numbers
    <2> QED
        BY <1>2, <1>4, <1>7, <2>1 DEF Kin
<1>10. /\ \A l : In(l, out'[o]) <=> In(l, out[o]) \/ In(l, ls)
       /\ \A i \in DOMAIN out[o] : i \in DOMAIN out'[o] /\ out'[o][i] = out[o][i]
    BY <1>3, <1>6, <1>7, ConcatElements DEF Types
<1>11. \A x \in Objects : \A i \in DOMAIN out[x] : i \in DOMAIN out'[x] /\ out'[x][i] = out[x][i]
    BY <1>7, <1>10
<1>12. ASSUME NEW x \in Objects PROVE Quiet(x)' /\ Owns(x)' /\ Mailed(x)' /\ Sent(x)'
    <2>1. Quiet(x) /\ Owns(x) /\ Mailed(x) /\ Sent(x)
        BY DEF IInv
    <2>2. Quiet(x)'
        BY <1>2, <1>7, <2>1 DEF Quiet
    <2>3. Owns(x)'
        BY <1>7, <1>9, <2>1 DEF Owns
    <2>4. Mailed(x)'
        BY <1>2, <1>9, <2>1 DEF Mailed, WakeGood
    <2>5. \A l : LetterGood(x, l) => LetterGood(x, l)'
        BY <1>2, <1>5, <1>7, <1>9 DEF LetterGood
    <2>6. x = o => LetterGood(x, L(n, "create", 0))'
        <3>1. L(n, "create", 0).kind = "create" /\ L(n, "create", 0).job = 0 /\ L(n, "create", 0).to = n
            BY <1>4, Records
        <3>2. PICK l : l = L(n, "create", 0)
            OBVIOUS
        <3>3. x = o => LetterGood(x, l)'
            BY <1>9, <3>1, <3>2 DEF LetterGood
        <3> QED
            BY <3>2, <3>3
    <2>7. Sent(x)'
        <3>1. CASE x = o
            <4>1. \A l : In(l, out'[x]) => In(l, out[x]) \/ l = L(n, "create", 0)
                BY <1>6, <1>10, <3>1
            <4> QED
                BY <2>1, <2>5, <2>6, <3>1, <4>1 DEF Sent
        <3>2. CASE x # o
            BY <1>7, <2>1, <2>5, <3>2 DEF Sent
        <3> QED
            BY <3>1, <3>2
    <2> QED
        BY <2>2, <2>3, <2>4, <2>7
<1>13. Fresh' /\ Root'
    <2>1. Fresh /\ Root
        BY DEF IInv
    <2>2. \A c \in Jobs : c > n => meta'[c] = "none" /\ ends'[c] = 0
        BY <1>2, <1>4, <2>1 DEF Fresh
    <2>3. Root'
        BY <1>2, <2>1 DEF Root
    <2> QED
        BY <1>2, <2>2, <2>3 DEF Fresh
<1>14. ASSUME NEW c \in 1..born PROVE CreateFirst(c)' /\ Stopped(c)' /\ Known(c)'
    <2>1. CreateFirst(c) /\ Stopped(c) /\ Known(c)
        BY DEF IInv
    <2>2. c \in Objects /\ parent[c] \in Objects /\ c # n
        BY <1>3, <1>4, Numbers
    <2>3. PICK p : p = parent[c] /\ p = parent'[c] /\ p \in Objects
        BY <1>7, <2>2
    <2>4. \A i \in DOMAIN out[p] : i \in DOMAIN out'[p] /\ out'[p][i] = out[p][i]
        BY <1>11, <2>3
    <2>5. (c \in jobs'[p] <=> c \in jobs[p]) /\ (c \in kids'[p] <=> c \in kids[p])
        BY <1>7, <2>2, <2>3
    <2>6. CreateFirst(c)'
        <3>1. CASE meta[c] # "none"
            BY <1>2, <3>1 DEF CreateFirst
        <3>2. CASE meta[c] = "none"
            <4>1. PICK i \in DOMAIN out[p] :
                     /\ out[p][i] = L(c, "create", 0)
                     /\ \A j \in 1..(i - 1) : out[p][j] \notin {L(c, "cancel", 0), L(c, "close", 0)}
                BY <2>1, <2>3, <3>2 DEF CreateFirst
            <4>2. out[p] \in Seq(Letter)
                BY <1>3, <2>3 DEF Types
            <4>3. \A j \in 1..(i - 1) : j \in DOMAIN out[p]
                BY <4>1, <4>2
            <4> QED
                BY <2>3, <2>4, <4>1, <4>3 DEF CreateFirst
        <3> QED
            BY <3>1, <3>2
    <2>7. \A k : OnItsWay(k, c) => OnItsWay(k, c)'
        BY <2>3, <2>4 DEF OnItsWay
    <2>8. Stopped(c)'
        BY <1>2, <2>1, <2>3, <2>5, <2>7 DEF Stopped, InMail, Over
    <2>9. Known(c)'
        BY <1>2, <2>1, <2>3, <2>5, <2>7 DEF Known, Gone
    <2> QED
        BY <2>6, <2>8, <2>9
<1>15. CreateFirst(n)' /\ Stopped(n)' /\ Known(n)'
    <2>1. n \in jobs'[o] /\ n \in kids'[o] /\ parent'[n] = o
        BY <1>7
    <2>2. Stopped(n)' /\ Known(n)'
        BY <2>1 DEF Stopped, Known
    <2>3. out[o] \in Seq(Letter) /\ DOMAIN out[o] = 1..Len(out[o]) /\ Len(out[o]) \in Nat
        BY <1>3 DEF Types
    <2>4. PICK i : i = Len(out[o]) + 1
        OBVIOUS
    <2>5. i \in DOMAIN out'[o] /\ out'[o][i] = L(n, "create", 0)
        <3>1. PICK e : e = L(n, "create", 0) /\ e \in Letter /\ ls = <<e>>
            BY <1>1, <1>4, Records
        <3>2. i \in DOMAIN (out[o] \o <<e>>) /\ (out[o] \o <<e>>)[i] = e
            BY <2>3, <2>4, <3>1, LastElement
        <3> QED
            BY <1>7, <3>1, <3>2
    <2>6. ASSUME NEW j \in 1..(i - 1) PROVE out'[o][j] \notin {L(n, "cancel", 0), L(n, "close", 0)}
        <3>1. j \in DOMAIN out[o]
            BY <2>3, <2>4
        <3>2. LetterGood(o, out[o][j])
            BY <3>1 DEF IInv, Sent, In
        <3>3. \A k \in {"cancel", "close"} : L(n, k, 0).kind # "job" /\ L(n, k, 0).to = n
            BY <1>4, Records
        <3>4. out[o][j] \notin {L(n, "cancel", 0), L(n, "close", 0)}
            BY <1>9, <3>2, <3>3 DEF LetterGood
        <3> QED
            BY <1>10, <3>1, <3>4
    <2>7. CreateFirst(n)'
        BY <2>1, <2>5, <2>6 DEF CreateFirst
    <2> QED
        BY <2>2, <2>7
<1>16. ASSUME NEW c \in Jobs PROVE Once(c)'
    <2>1. Once(c) /\ c \in Objects /\ ends[c] \in Nat
        BY <1>3, Records DEF IInv, Types
    <2>2. CASE c = n
        BY <1>2, <1>5, <2>1, <2>2 DEF Once
    <2>3. CASE c # n
        <3>1. parent'[c] = parent[c] /\ parent[c] \in Objects
            BY <1>3, <1>7, <2>1, <2>3 DEF Types
        <3>2. c \in jobs'[parent[c]] <=> c \in jobs[parent[c]]
            BY <1>7, <2>3, <3>1
        <3> QED
            BY <1>2, <2>1, <3>1, <3>2 DEF Once
    <2> QED
        BY <2>2, <2>3
<1>17. \A c \in 1..n : CreateFirst(c)' /\ Stopped(c)' /\ Known(c)'
    BY <1>4, <1>14, <1>15
<1> QED
    BY <1>2, <1>8, <1>12, <1>13, <1>16, <1>17 DEF IInv

-----------------------------------------------------------------------------
(* The theorems. *)

LEMMA SessionGood ==
    ASSUME IInv, NEW o \in Objects, Session(o)
    PROVE  IInv'
<1>1. ASSUME TakeClose(o), turn[o] = "idle" PROVE Types' /\ \E ls : Moves(o, ls)
    <2>1. Finish(o, TRUE) /\ meta[o] \in {"open", "closing"} /\ UNCHANGED <<tree, seen>>
        BY <1>1, LiveFacts DEF TakeClose
    <2> QED
        BY <2>1, FinishGood
<1>2. ASSUME Returns(o) PROVE Types' /\ \E ls : Moves(o, ls)
    <2>1. Finish(o, o = 0) /\ meta[o] \in {"open", "closing"} /\ UNCHANGED <<tree, seen>>
        BY <1>2 DEF Returns, Over
    <2>2. PICK h \in BOOLEAN : h = (o = 0)
        OBVIOUS
    <2> QED
        BY <2>1, <2>2, FinishGood
<1>3. CASE Start(o)
    BY <1>3, StartGood
<1>4. CASE ~Start(o)
    <2>1. Types' /\ \E ls : Moves(o, ls)
        BY <1>1, <1>2, <1>4, TakeJobEndGood, TakePromptGood, CancelsGood, LateCancelGood, KillGood, WaitsGood
           DEF Session
    <2> QED
        BY <2>1, MovesGood
<1> QED
    BY <1>3, <1>4

LEMMA InitGood == Init => IInv
<1> SUFFICES ASSUME Init PROVE IInv
    OBVIOUS
<1>1. MaxJobs \in Nat /\ Objects = 0..MaxJobs /\ Jobs = 1..MaxJobs /\ 0 \in Objects
    BY ConstantsOK DEF Objects, Jobs
<1>2. Types
    BY <1>1, OneElement DEF Init, Types, Metas
<1>3. ASSUME NEW o \in Objects PROVE Quiet(o) /\ Owns(o) /\ Sent(o) /\ Mailed(o)
    BY OneElement DEF Init, Quiet, Owns, Sent, Mailed
<1>4. Fresh /\ Root
    BY <1>1 DEF Init, Fresh, Root
<1>5. 1..born = {}
    BY DEF Init
<1>6. ASSUME NEW c \in Jobs PROVE Once(c)
    BY <1>1 DEF Init, Once
<1> QED
    BY <1>2, <1>3, <1>4, <1>5, <1>6 DEF IInv

LEMMA StepGood == IInv /\ [Next]_vars => IInv'
<1> SUFFICES ASSUME IInv, [Next]_vars PROVE IInv'
    OBVIOUS
<1>1. CASE UNCHANGED vars
    <2>1. /\ meta' = meta /\ mail' = mail /\ out' = out /\ turn' = turn /\ jobs' = jobs /\ held' = held
          /\ kids' = kids /\ parent' = parent /\ born' = born /\ runs' = runs /\ ends' = ends /\ missed' = missed
        BY <1>1 DEF vars, session, tree, seen
    <2>2. Types'
        BY <2>1 DEF IInv, Types
    <2>3. \A o \in Objects : Quiet(o)' /\ Owns(o)' /\ Sent(o)' /\ Mailed(o)'
        BY <2>1 DEF IInv, Quiet, Owns, Kin, Sent, LetterGood, Mailed, WakeGood
    <2>4. Fresh' /\ Root'
        BY <2>1 DEF IInv, Fresh, Root
    <2>5. ASSUME NEW c \in 1..born PROVE CreateFirst(c)' /\ Stopped(c)' /\ Known(c)'
        BY <2>1 DEF IInv, CreateFirst, Stopped, OnItsWay, InMail, Over, Known, Gone
    <2>6. \A c \in Jobs : Once(c)'
        BY <2>1 DEF IInv, Once
    <2> QED
        BY <2>1, <2>2, <2>3, <2>4, <2>5, <2>6 DEF IInv
<1>2. CASE Next
    BY <1>2, SessionGood, LettersGood, HostGood DEF Next
<1> QED
    BY <1>1, <1>2

LEMMA Always_IInv == Spec => []IInv
BY InitGood, StepGood, PTL DEF Spec

LEMMA OnceHolds == IInv => OnceEach
BY DEF IInv, Once, OnceEach, TaskRunsOnce, EndCountsOnce

LEMMA TrackedHolds == IInv => JobsTracked
<1> SUFFICES ASSUME IInv PROVE JobsTracked
    OBVIOUS
<1>1. Types
    BY DEF IInv
<1>2. TypeOK
    BY <1>1 DEF IInv, Types, TypeOK, Quiet, Owns, Kin, Metas
<1>3. NoOrphan
    <2> SUFFICES ASSUME NEW c \in Jobs, meta[c] = "open", c \notin jobs[parent[c]], c \notin missed
                 PROVE  OnItsWay("cancel", c) \/ InMail("cancel", c) \/ Over(c)
        BY DEF NoOrphan
    <2>1. c \in 1..born
        BY <1>1, ConstantsOK DEF IInv, Types, Fresh, Jobs
    <2> QED
        BY <2>1 DEF IInv, Stopped
<1>4. Recorded
    BY DEF IInv, Known, Recorded
<1> QED
    BY <1>2, <1>3, <1>4 DEF JobsTracked

\* A job's task runs once and its end counts once, however often the letters
\* between the objects of a tree are delivered (outbox.go letter, object.go
\* Create, turn.go jobEnded).
THEOREM OnceEachAlways == Spec => []OnceEach
BY Always_IInv, OnceHolds, PTL

\* A job that its parent does not track was asked to stop, and one that is not
\* closed is known to the object that has to close it (turn.go cancelJobs,
\* runtime.go Start, Next, finish).
THEOREM JobsTrackedAlways == Spec => []JobsTracked
BY Always_IInv, TrackedHolds, PTL
=============================================================================
