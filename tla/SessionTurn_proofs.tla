------------------------- MODULE SessionTurn_proofs -------------------------
(***************************************************************************)
(* What TLAPS proves of SessionTurn for any number of calls, prompts,      *)
(* answers, cancels and closes, any kind of session and any set of faults: *)
(*  - a session is parked on one question that was shown, and it keeps the *)
(*    contract a host sees;                                                *)
(*  - the host's prompts arrive, in order;                                 *)
(*  - whatever fails, no job escapes its session or reaches the model      *)
(*    twice, and each call has one result;                                 *)
(*  - a job's end reaches the model, and a turn that blocks is woken.      *)
(* Sound, at the end, is the inductive invariant; each section before adds *)
(* parts of it, inductive with those of the sections before.               *)
(***************************************************************************)
EXTENDS SessionTurn, Picks_proofs

USE ConstantsOK

\* The parts of the inductive invariant besides the properties themselves.
Types ==
  /\ round \in [Calls -> {"none", "new", "done", "park", "wait"}]
  /\ jobs \in [Calls -> {"none", "bg", "wait", "ended"}]
  /\ runs \subseteq Calls /\ shown \subseteq Calls /\ ncalls \in Nat
  /\ terminal \in {"none", "complete", "failed", "cancelled"}
  /\ yielded \in BOOLEAN /\ suspended \in BOOLEAN /\ closed \in BOOLEAN

\* A call whose job is waited on, or ended and not taken, waits, as long as it
\* is in the round.
WaitsForJob == \A c \in Calls : jobs[c] \in {"wait", "ended"} => round[c] \in {"none", "wait"}

\* A call the model has not made is in no round and has no job.
Unmade == \A c \in Calls : c > ncalls => round[c] = "none" /\ jobs[c] = "none"

\* The calls of a Tools step are in the round and wait on no job; either each
\* of them just took its job's result, or the parked call, answered, is one
\* of them.
RunsOK ==
  pc = "tools" =>
    /\ runs \subseteq InRound
    /\ \A c \in runs : jobs[c] \in {"none", "bg"}
    /\ Parked \subseteq runs \/ \A c \in runs : round[c] = "wait"

\* How the flags go with the place the session is in.
Phase ==
  /\ pc \notin {"idle", "ended", "suspended"} => terminal = "none" /\ ~yielded /\ ~closed
  /\ pc = "suspended" => ~closed /\ (suspended => terminal = "none" /\ ~yielded)
  /\ pc = "ended" => ~yielded
  /\ suspended => pc \in {"drain", "suspended"}

IInv == Types /\ WaitsForJob /\ Unmade /\ RunsOK /\ Phase /\ OneQuestion /\ ParkHasQuestion

-----------------------------------------------------------------------------
\* A session that starts satisfies the invariant.
LEMMA InitInv == Init => IInv
<1> SUFFICES ASSUME Init PROVE IInv
  OBVIOUS
<1> USE DEF Init, IInv, Types, WaitsForJob, Unmade, RunsOK, Phase, OneQuestion, ParkHasQuestion,
            Calls, NoRound, NoJobs, InRound, Parked, Waits
<1>1. Types
  OBVIOUS
<1>2. WaitsForJob
  OBVIOUS
<1>3. Unmade
  OBVIOUS
<1>4. RunsOK
  OBVIOUS
<1>5. Phase
  OBVIOUS
<1>6. OneQuestion
  OBVIOUS
<1>7. ParkHasQuestion
  OBVIOUS
<1> QED
  BY <1>1, <1>2, <1>3, <1>4, <1>5, <1>6, <1>7

\* A Tools step keeps at most one new park.
LEMMA KeptOne ==
  ASSUME runs \subseteq Calls, NEW out, NEW e \in Kept(out), NEW f \in Kept(out)
  PROVE  e = f
<1>1. e \in Unblocked(out) /\ f \in Unblocked(out) /\ e <= f /\ f <= e
  BY DEF Kept
<1>2. e \in Nat /\ f \in Nat
  BY <1>1 DEF Unblocked, Calls
<1> QED
  BY <1>1, <1>2

\* Every step of a session, its host and its jobs keeps the invariant.
LEMMA StepInv == IInv /\ [Next]_vars => IInv'
<1> SUFFICES ASSUME IInv, [Next]_vars PROVE IInv'
  OBVIOUS
<1> USE DEF IInv, Types, WaitsForJob, Unmade, RunsOK, Phase, OneQuestion, ParkHasQuestion,
            InRound, Parked, Waits, flags, locals, data, job, rest, count
<1>1. CASE BeginPrompt
  <2> USE <1>1 DEF BeginPrompt, NoRound, Goto, CommitFails, Fail, Return
  <2>1. Types'
    OBVIOUS
  <2>2. WaitsForJob'
    OBVIOUS
  <2>3. Unmade'
    OBVIOUS
  <2>4. RunsOK'
    OBVIOUS
  <2>5. Phase'
    OBVIOUS
  <2>6. OneQuestion'
    OBVIOUS
  <2>7. ParkHasQuestion'
    OBVIOUS
  <2> QED
    BY <2>1, <2>2, <2>3, <2>4, <2>5, <2>6, <2>7
<1>2. CASE BeginResume
  <2> USE <1>2 DEF BeginResume, Goto, Fail, Return
  <2>1. Types'
    OBVIOUS
  <2>2. WaitsForJob'
    OBVIOUS
  <2>3. Unmade'
    OBVIOUS
  <2>4. RunsOK'
    OBVIOUS
  <2>5. Phase'
    OBVIOUS
  <2>6. OneQuestion'
    OBVIOUS
  <2>7. ParkHasQuestion'
    OBVIOUS
  <2> QED
    BY <2>1, <2>2, <2>3, <2>4, <2>5, <2>6, <2>7
<1>3. CASE CommitRound
  <2> USE <1>3 DEF CommitRound, NoRound, CommitFails, Fail, Return
  <2>1. Types'
    OBVIOUS
  <2>2. WaitsForJob'
    OBVIOUS
  <2>3. Unmade'
    OBVIOUS
  <2>4. RunsOK'
    OBVIOUS
  <2>5. Phase'
    OBVIOUS
  <2>6. OneQuestion'
    OBVIOUS
  <2>7. ParkHasQuestion'
    OBVIOUS
  <2> QED
    BY <2>1, <2>2, <2>3, <2>4, <2>5, <2>6, <2>7
<1>4. CASE RefuseAnswer
  BY <1>4 DEF RefuseAnswer, Fail, Return
<1>5. CASE StartCalls
  BY <1>5 DEF StartCalls, Advance, NextRuns, Goto
<1>6. CASE TakeJobEnds
  BY <1>6 DEF TakeJobEnds, JobRuns, Advance, Goto
<1>7. CASE WaitForJobs
  BY <1>7 DEF WaitForJobs, Advance, Goto
<1>8. CASE Park
  BY <1>8 DEF Park, NextRuns, Complete, Return
<1>9. CASE Poll
  BY <1>9 DEF Poll, Goto
<1>10. CASE Tools
  <2>0. PICK out, killed : /\ RunsEnd(Outcome, out, killed)
                           /\ round' = Recorded(out)
                           /\ jobs' = [c \in Calls |-> IF c \in Started(out) THEN out[c]
                                                ELSE IF c \in killed THEN "none" ELSE jobs[c]]
    BY <1>10 DEF Tools, StartJobs
  <2> USE <1>10 DEF Tools, RunsEnd, CanEnd, Recorded, Kept, Unblocked, StartJobs, Started,
          Outcome, Goto, Fail, Return
  <2>a. round' \in [Calls -> {"none", "new", "done", "park", "wait"}]
    <3> SUFFICES ASSUME NEW c \in Calls PROVE Recorded(out)[c] \in {"none", "new", "done", "park", "wait"}
      BY <2>0
    <3> QED
      BY <2>0
  <2>b. jobs' \in [Calls -> {"none", "bg", "wait", "ended"}]
    BY <2>0
  <2>1. Types'
    BY <2>a, <2>b
  <2>2. WaitsForJob'
    OBVIOUS
  <2>3. Unmade'
    OBVIOUS
  <2>4. RunsOK'
    OBVIOUS
  <2>5. Phase'
    OBVIOUS
  <2>6. OneQuestion'
    <3> SUFFICES ASSUME NEW c \in Parked', NEW d \in Parked' PROVE c = d
      OBVIOUS
    <3>1. \A e \in Parked' : e \in Kept(out) \/ (e \in Parked /\ (e \notin runs \/ out[e] \in {"err", "cancelled"}))
      BY <2>0
    <3>2. \A e, f \in Kept(out) : e = f
      BY KeptOne
    <3>3. \A e \in Kept(out), f \in Parked : f \notin runs \/ out[f] \in {"err", "cancelled"} => e = f
      BY <2>0
    <3> QED
      BY <3>1, <3>2, <3>3
  <2>7. ParkHasQuestion'
    OBVIOUS
  <2> QED
    BY <2>1, <2>2, <2>3, <2>4, <2>5, <2>6, <2>7
<1>11. CASE ToolsCancelled
  <2>0. PICK out, killed : /\ RunsEnd(Outcome, out, killed)
                           /\ round' = Recorded(out)
                           /\ jobs' = NoJobs
    BY <1>11 DEF ToolsCancelled
  <2> USE <1>11 DEF ToolsCancelled, RunsEnd, CanEnd, Recorded, Kept, Unblocked, Started, Outcome,
          NoJobs, Return
  <2>a. round' \in [Calls -> {"none", "new", "done", "park", "wait"}]
    <3> SUFFICES ASSUME NEW c \in Calls PROVE Recorded(out)[c] \in {"none", "new", "done", "park", "wait"}
      BY <2>0
    <3> QED
      BY <2>0
  <2>b. jobs' \in [Calls -> {"none", "bg", "wait", "ended"}]
    BY <2>0
  <2>1. Types'
    BY <2>a, <2>b
  <2>2. WaitsForJob'
    OBVIOUS
  <2>3. Unmade'
    OBVIOUS
  <2>4. RunsOK'
    OBVIOUS
  <2>5. Phase'
    OBVIOUS
  <2>6. OneQuestion'
    <3> SUFFICES ASSUME NEW c \in Parked', NEW d \in Parked' PROVE c = d
      OBVIOUS
    <3>1. \A e \in Parked' : e \in Kept(out) \/ (e \in Parked /\ (e \notin runs \/ out[e] \in {"err", "cancelled"}))
      BY <2>0
    <3>2. \A e, f \in Kept(out) : e = f
      BY KeptOne
    <3>3. \A e \in Kept(out), f \in Parked : f \notin runs \/ out[f] \in {"err", "cancelled"} => e = f
      BY <2>0
    <3> QED
      BY <3>1, <3>2, <3>3
  <2>7. ParkHasQuestion'
    OBVIOUS
  <2> QED
    BY <2>1, <2>2, <2>3, <2>4, <2>5, <2>6, <2>7
<1>12. CASE PumpWake
  BY <1>12 DEF PumpWake, HandleRunning, JobEnded, Steer
<1>13. CASE PumpSuspend
  BY <1>13 DEF PumpSuspend
<1>14. CASE PumpDone
  <2> USE <1>14 DEF PumpDone, FailCancelled, CancelJobs, NoJobs, Return, Goto
  <2>1. Types'
    OBVIOUS
  <2>2. WaitsForJob'
    OBVIOUS
  <2>3. Unmade'
    OBVIOUS
  <2>4. RunsOK'
    OBVIOUS
  <2>5. Phase'
    OBVIOUS
  <2>6. OneQuestion'
    OBVIOUS
  <2>7. ParkHasQuestion'
    OBVIOUS
  <2> QED
    BY <2>1, <2>2, <2>3, <2>4, <2>5, <2>6, <2>7
<1>15. CASE CommitInbox
  <2> USE <1>15 DEF CommitInbox, Goto, CommitFails, Fail, Return
  <2>1. Types'
    OBVIOUS
  <2>2. WaitsForJob'
    OBVIOUS
  <2>3. Unmade'
    OBVIOUS
  <2>4. RunsOK'
    OBVIOUS
  <2>5. Phase'
    OBVIOUS
  <2>6. OneQuestion'
    OBVIOUS
  <2>7. ParkHasQuestion'
    OBVIOUS
  <2> QED
    BY <2>1, <2>2, <2>3, <2>4, <2>5, <2>6, <2>7
<1>16. CASE CompleteTurn
  BY <1>16, ZenonT(30) DEF CompleteTurn, Return
<1>17. CASE ContinueTurn
  BY <1>17 DEF ContinueTurn, Goto
<1>18. CASE ReplyCalls
  <2> USE <1>18 DEF ReplyCalls, Goto, Calls
  <2>1. Types'
    OBVIOUS
  <2>2. WaitsForJob'
    OBVIOUS
  <2>3. Unmade'
    OBVIOUS
  <2>4. RunsOK'
    OBVIOUS
  <2>5. Phase'
    OBVIOUS
  <2>6. OneQuestion'
    OBVIOUS
  <2>7. ParkHasQuestion'
    OBVIOUS
  <2> QED
    BY <2>1, <2>2, <2>3, <2>4, <2>5, <2>6, <2>7
<1>19. CASE ReplyDone
  <2> USE <1>19 DEF ReplyDone, Goto, CommitFails, Fail, Return
  <2>1. Types'
    OBVIOUS
  <2>2. WaitsForJob'
    OBVIOUS
  <2>3. Unmade'
    OBVIOUS
  <2>4. RunsOK'
    OBVIOUS
  <2>5. Phase'
    OBVIOUS
  <2>6. OneQuestion'
    OBVIOUS
  <2>7. ParkHasQuestion'
    OBVIOUS
  <2> QED
    BY <2>1, <2>2, <2>3, <2>4, <2>5, <2>6, <2>7
<1>20. CASE TooLong
  <2> USE <1>20 DEF TooLong, Goto, Fail, Return
  <2>1. Types'
    OBVIOUS
  <2>2. WaitsForJob'
    OBVIOUS
  <2>3. Unmade'
    OBVIOUS
  <2>4. RunsOK'
    OBVIOUS
  <2>5. Phase'
    OBVIOUS
  <2>6. OneQuestion'
    OBVIOUS
  <2>7. ParkHasQuestion'
    OBVIOUS
  <2> QED
    BY <2>1, <2>2, <2>3, <2>4, <2>5, <2>6, <2>7
<1>21. CASE InferFails
  BY <1>21 DEF InferFails, Fail, Return
<1>22. CASE InferCancelled
  BY <1>22 DEF InferCancelled, FailCancelled, CancelJobs, NoJobs, Return
<1>23. CASE IdleJob
  BY <1>23 DEF IdleJob, TakeNext, Idle, JobEnded
<1>24. CASE IdleCancel
  BY <1>24 DEF IdleCancel, TakeNext, Idle, CancelJobs, NoJobs
<1>25. CASE SteerParked
  BY <1>25 DEF SteerParked, TakeNext, Idle, Steer
<1>26. CASE IdlePrompt
  BY <1>26, ZenonT(30) DEF IdlePrompt, TakeNext, Idle, StartTurn
<1>27. CASE WorkerPrompt
  BY <1>27 DEF WorkerPrompt, TakeNext, Idle, TaskDone
<1>28. CASE Work
  BY <1>28 DEF Work
<1>29. CASE IdleResume
  BY <1>29 DEF IdleResume, TakeNext, Idle, StartTurn
<1>30. CASE IdleClose
  BY <1>30, ZenonT(30) DEF IdleClose, TakeNext, Idle
<1>31. CASE IdleSuspend
  BY <1>31 DEF IdleSuspend, Idle
<1>32. CASE Restart
  BY <1>32, ZenonT(30) DEF Restart
<1>33. CASE End
  BY <1>33 DEF End, TaskDone
<1>34. CASE Host
  <2>1. UNCHANGED <<pc, flags, locals, data, job, held, closed>>
    BY <1>34 DEF Host, SendPrompt, SendResume, SendCancel, SendClose, Send
  <2> QED
    BY <2>1
<1>35. CASE \E c \in Calls : JobEnds(c) \/ JobEndsAgain(c)
  BY <1>35 DEF JobEnds, JobEndsAgain
<1>36. CASE UNCHANGED vars
  BY <1>36 DEF vars
<1> QED
  BY <1>1, <1>2, <1>3, <1>4, <1>5, <1>6, <1>7, <1>8, <1>9, <1>10, <1>11, <1>12, <1>13, <1>14,
     <1>15, <1>16, <1>17, <1>18, <1>19, <1>20, <1>21, <1>22, <1>23, <1>24, <1>25, <1>26, <1>27,
     <1>28, <1>29, <1>30, <1>31, <1>32, <1>33, <1>34, <1>35, <1>36 DEF Next, Run, Turn
-----------------------------------------------------------------------------
\* Every state a session reaches satisfies the parks' invariant.
LEMMA Invariant == Spec => []IInv
  BY InitInv, StepInv, PTL DEF Spec

\* However many calls of a reply park in one step, a turn keeps one park
\* (State.record), in any session and through any faults; a session that is
\* parked has a question its host was shown and waits on no job: the index
\* drive takes of the parked call is never -1.
THEOREM ParksOnQuestionAlways == Spec => []ParksOnQuestion
<1>1. IInv => ParksOnQuestion
  BY DEF IInv, ParksOnQuestion
<1> QED
  BY <1>1, Invariant, PTL

-----------------------------------------------------------------------------
(* The contract.  Each step of a session is a step of SessionContract or    *)
(* leaves what the host sees as it is.                                      *)

\* A session that starts satisfies the contract's initial condition.
LEMMA ContractInit == Init => Contract!CInit
  BY DEF Init, Contract!CInit, HostState, HostQuestion, HostResult, Running

\* Every step of a session is a step of the contract, or none of its business.
LEMMA ContractStep == IInv /\ IInv' /\ [Next]_vars => [Contract!CNext]_(Contract!cvars)
<1> SUFFICES ASSUME IInv, IInv', [Next]_vars PROVE [Contract!CNext]_(Contract!cvars)
  OBVIOUS
<1> USE DEF IInv, Types, Phase, ParkHasQuestion, OneQuestion, Parked, HostState, HostQuestion,
            HostResult, Running,
            flags, locals, data, job, rest, Contract!cvars, Contract!CNext, Contract!StartTurn,
            Contract!Ask, Contract!EndTurn, Contract!Abort, Contract!Close
<1>1. CASE BeginPrompt
  BY <1>1 DEF BeginPrompt, Goto, CommitFails, Fail, Return
<1>2. CASE BeginResume
  BY <1>2 DEF BeginResume, Goto, Fail, Return
<1>3. CASE CommitRound
  BY <1>3 DEF CommitRound, CommitFails, Fail, Return
<1>4. CASE RefuseAnswer
  BY <1>4 DEF RefuseAnswer, Fail, Return
<1>5. CASE StartCalls
  BY <1>5 DEF StartCalls, Advance, Goto
<1>6. CASE TakeJobEnds
  BY <1>6 DEF TakeJobEnds, Advance, Goto
<1>7. CASE WaitForJobs
  BY <1>7 DEF WaitForJobs, Advance, Goto
<1>8. CASE Park
  BY <1>8 DEF Park, Return
<1>9. CASE Poll
  BY <1>9 DEF Poll, Goto
<1>10. CASE Tools
  BY <1>10 DEF Tools, Goto, Fail, Return
<1>11. CASE ToolsCancelled
  BY <1>11 DEF ToolsCancelled, Return
<1>12. CASE PumpWake
  BY <1>12 DEF PumpWake, HandleRunning
<1>13. CASE PumpSuspend
  BY <1>13 DEF PumpSuspend
<1>14. CASE PumpDone
  BY <1>14 DEF PumpDone, FailCancelled, Return, Goto
<1>15. CASE CommitInbox
  BY <1>15 DEF CommitInbox, Goto, CommitFails, Fail, Return
<1>16. CASE CompleteTurn
  BY <1>16 DEF CompleteTurn, Return
<1>17. CASE ContinueTurn
  BY <1>17 DEF ContinueTurn, Goto
<1>18. CASE ReplyCalls
  BY <1>18 DEF ReplyCalls, Goto
<1>19. CASE ReplyDone
  BY <1>19 DEF ReplyDone, Goto, CommitFails, Fail, Return
<1>20. CASE TooLong
  BY <1>20 DEF TooLong, Goto, Fail, Return
<1>21. CASE InferFails
  BY <1>21 DEF InferFails, Fail, Return
<1>22. CASE InferCancelled
  BY <1>22 DEF InferCancelled, FailCancelled, Return
<1>23. CASE IdleJob
  BY <1>23 DEF IdleJob, TakeNext, Idle
<1>24. CASE IdleCancel
  BY <1>24 DEF IdleCancel, TakeNext, Idle
<1>25. CASE SteerParked
  BY <1>25 DEF SteerParked, TakeNext, Idle
<1>26. CASE IdlePrompt
  BY <1>26 DEF IdlePrompt, TakeNext, Idle, StartTurn
<1>27. CASE WorkerPrompt
  BY <1>27 DEF WorkerPrompt, TakeNext, Idle, TaskDone
<1>28. CASE Work
  BY <1>28 DEF Work
<1>29. CASE IdleResume
  BY <1>29 DEF IdleResume, TakeNext, Idle, StartTurn
<1>30. CASE IdleClose
  BY <1>30 DEF IdleClose, TakeNext, Idle
<1>31. CASE IdleSuspend
  BY <1>31 DEF IdleSuspend, Idle
<1>32. CASE Restart
  BY <1>32 DEF Restart
<1>33. CASE End
  BY <1>33 DEF End, TaskDone
<1>34. CASE Host
  BY <1>34, ZenonT(30) DEF Host, SendPrompt, SendResume, SendCancel, SendClose, Send
<1>35. CASE \E c \in Calls : JobEnds(c) \/ JobEndsAgain(c)
  <2>1. UNCHANGED <<pc, flags, round, closed>>
    BY <1>35 DEF JobEnds, JobEndsAgain
  <2> QED
    BY <2>1
<1>36. CASE UNCHANGED vars
  BY <1>36 DEF vars
<1> QED
  BY <1>1, <1>2, <1>3, <1>4, <1>5, <1>6, <1>7, <1>8, <1>9, <1>10, <1>11, <1>12, <1>13, <1>14,
     <1>15, <1>16, <1>17, <1>18, <1>19, <1>20, <1>21, <1>22, <1>23, <1>24, <1>25, <1>26, <1>27,
     <1>28, <1>29, <1>30, <1>31, <1>32, <1>33, <1>34, <1>35, <1>36 DEF Next, Run, Turn

\* A session keeps the contract of SessionContract, whatever is sent to it
\* and whatever fails: one turn at a time, one question while it is parked.
THEOREM KeepsContractAlways == Spec => KeepsContract
<1>1. IInv /\ IInv' /\ [Next]_vars => [Contract!CNext]_(Contract!cvars)
  BY ContractStep
<1> QED
  BY <1>1, ContractInit, Invariant, PTL DEF Spec, KeepsContract, Contract!CSpec

-----------------------------------------------------------------------------
(* Sequences that keep some of another's elements, in their order.         *)

Within(p, s) ==
  /\ \A i \in DOMAIN p : \E k \in DOMAIN s : p[i] = s[k]
  /\ PickedOrder(p, s, DOMAIN s)

\* x is in s at two places.
Twice(x, s) == \E i, j \in DOMAIN s : i < j /\ s[i] = x /\ s[j] = x

\* A sequence lies within itself.
LEMMA WithinSelf == ASSUME NEW s PROVE Within(s, s)
  BY DEF Within, PickedOrder

\* The empty sequence lies within every other.
LEMMA WithinEmpty == ASSUME NEW s PROVE Within(<<>>, s)
  BY DEF Within, PickedOrder

\* What is left once the head is taken lies within the sequence.
LEMMA WithinTail ==
  ASSUME NEW S, NEW s \in Seq(S), s # <<>>
  PROVE  Tail(s) \in Seq(S) /\ Within(Tail(s), s)
<1>1. PICK t, k : t = Tail(s) /\ k = Len(s)
  OBVIOUS
<1>2. /\ t \in Seq(S) /\ k \in Nat /\ DOMAIN s = 1..k /\ DOMAIN t = 1..(k - 1)
      /\ \A i \in 1..(k - 1) : t[i] = s[i + 1] /\ i + 1 \in 1..k
  BY <1>1
<1>3. \A i, j \in 1..(k - 1) : i < j => i + 1 < j + 1
  BY <1>2
<1>4. Within(t, s)
  <2>1. \A i \in DOMAIN t : \E l \in DOMAIN s : t[i] = s[l]
    BY <1>2
  <2>2. ASSUME NEW i \in DOMAIN t, NEW j \in DOMAIN t, i < j
        PROVE  \E l, m \in DOMAIN s : l < m /\ t[i] = s[l] /\ t[j] = s[m]
    BY <1>2, <1>3, <2>2
  <2> QED
    BY <2>1, <2>2 DEF Within, PickedOrder
<1> QED
  BY <1>1, <1>2, <1>4

\* What a cancel leaves of a queue lies within the queue.
LEMMA WithinPicked ==
  ASSUME NEW S, NEW s \in Seq(S), NEW K \in SUBSET (DOMAIN s)
  PROVE  Picked(s, K) \in Seq(S) /\ Within(Picked(s, K), s)
<1>1. PICK n : n = Len(s)
  OBVIOUS
<1>2. n \in Nat /\ DOMAIN s = 1..n
  BY <1>1
<1>3. \A i \in 1..n : s[i] \in S
  BY <1>1
<1>4. K \in SUBSET (1..n)
  BY <1>2
<1>5. /\ Picked(s, K) \in Seq(S)
      /\ \A i \in DOMAIN Picked(s, K) : \E k \in K : Picked(s, K)[i] = s[k]
      /\ \A k \in K : In(s[k], Picked(s, K))
      /\ PickedOrder(Picked(s, K), s, K)
  BY <1>2, <1>3, <1>4, PickedElements
<1>6. PICK p : p = Picked(s, K)
  OBVIOUS
<1>7. Within(p, s)
  BY <1>2, <1>4, <1>5, <1>6 DEF Within, PickedOrder
<1> QED
  BY <1>5, <1>6, <1>7

\* A sequence that lies within another has no element, and no repeated element,
\* the other has not.
LEMMA WithinElements ==
  ASSUME NEW p, NEW s, Within(p, s)
  PROVE  \A x : (In(x, p) => In(x, s)) /\ (Twice(x, p) => Twice(x, s))
<1>1. \A x : In(x, p) => In(x, s)
  BY DEF In, Within
<1>2. ASSUME NEW x, Twice(x, p) PROVE Twice(x, s)
  <2>1. PICK i, j \in DOMAIN p : i < j /\ p[i] = x /\ p[j] = x
    BY <1>2 DEF Twice
  <2>2. PICK k, l \in DOMAIN s : k < l /\ p[i] = s[k] /\ p[j] = s[l]
    BY <2>1 DEF Within, PickedOrder
  <2> QED
    BY <2>1, <2>2 DEF Twice
<1> QED
  BY <1>1, <1>2

\* An appended element is repeated when it was there already; no other is
\* repeated anew.
LEMMA AppendTwice ==
  ASSUME NEW S, NEW s \in Seq(S), NEW e \in S
  PROVE  \A x : Twice(x, Append(s, e)) <=> Twice(x, s) \/ (In(x, s) /\ x = e)
<1>1. PICK a, k : a = Append(s, e) /\ k = Len(s)
  OBVIOUS
<1>2. /\ k \in Nat /\ DOMAIN s = 1..k /\ DOMAIN a = 1..(k + 1)
      /\ a[k + 1] = e /\ \A i \in 1..k : a[i] = s[i] /\ i < k + 1 /\ i \in 1..(k + 1)
  BY <1>1
<1>3. ASSUME NEW x, Twice(x, a) PROVE Twice(x, s) \/ (In(x, s) /\ x = e)
  <2>1. PICK i, j \in 1..(k + 1) : i < j /\ a[i] = x /\ a[j] = x
    BY <1>2, <1>3 DEF Twice
  <2>2. i \in 1..k /\ s[i] = x
    BY <1>2, <2>1
  <2>3. CASE j = k + 1
    BY <1>2, <2>1, <2>2, <2>3 DEF In
  <2>4. CASE j \in 1..k
    BY <1>2, <2>1, <2>2, <2>4 DEF Twice
  <2> QED
    BY <1>2, <2>3, <2>4
<1>4. ASSUME NEW x, Twice(x, s) \/ (In(x, s) /\ x = e) PROVE Twice(x, a)
  <2>1. CASE Twice(x, s)
    BY <1>2, <2>1 DEF Twice
  <2>2. CASE In(x, s) /\ x = e
    <3>1. PICK i \in 1..k : s[i] = x
      BY <1>2, <2>2 DEF In
    <3>2. i < k + 1 /\ a[i] = x /\ a[k + 1] = x /\ i \in DOMAIN a /\ k + 1 \in DOMAIN a
      BY <1>2, <2>2, <3>1
    <3> QED
      BY <3>2 DEF Twice
  <2> QED
    BY <1>4, <2>1, <2>2
<1> QED
  BY <1>1, <1>3, <1>4

\* What a longer sequence has: the old elements where they were, then the new.
IsJoined(w, s, t) ==
  /\ Len(s) \in Nat /\ Len(t) \in Nat
  /\ DOMAIN s = 1..Len(s) /\ DOMAIN t = 1..Len(t) /\ DOMAIN w = 1..(Len(s) + Len(t))
  /\ \A i \in DOMAIN s : i \in DOMAIN w /\ w[i] = s[i]
  /\ \A i \in DOMAIN t : i + Len(s) \in DOMAIN w /\ w[i + Len(s)] = t[i]
  /\ \A j \in DOMAIN w : j \notin DOMAIN s => \E i \in DOMAIN t : j = i + Len(s)

\* The elements of s \o t are those of s and, behind them, those of t.
LEMMA Joined ==
  ASSUME NEW S, NEW s \in Seq(S), NEW t \in Seq(S), NEW w, w = s \o t
  PROVE  w \in Seq(S) /\ IsJoined(w, s, t)
<1>1. PICK n, k : n = Len(s) /\ k = Len(t)
  OBVIOUS
<1>2. /\ w \in Seq(S) /\ n \in Nat /\ k \in Nat /\ DOMAIN s = 1..n /\ DOMAIN t = 1..k /\ DOMAIN w = 1..(n + k)
      /\ \A i \in 1..(n + k) : w[i] = IF i <= n THEN s[i] ELSE t[i - n]
  BY <1>1
<1>3. \A i \in 1..n : i \in 1..(n + k) /\ w[i] = s[i]
  BY <1>2
<1>4. ASSUME NEW i \in 1..k PROVE i + n \in 1..(n + k) /\ w[i + n] = t[i]
  <2>1. i + n \in 1..(n + k) /\ ~(i + n <= n) /\ (i + n) - n = i
    BY <1>2
  <2> QED
    BY <1>2, <2>1
<1>5. \A j \in 1..(n + k) : j \notin 1..n => (j - n) \in 1..k /\ j = (j - n) + n
  BY <1>2
<1> QED
  BY <1>1, <1>2, <1>3, <1>4, <1>5 DEF IsJoined

-----------------------------------------------------------------------------
(* Types.                                                                  *)

Rounds == [msg : Message \union {W("reply", 0)}, calls : [Calls -> {"none", "result", "cancelled"}]]

\* A sequence that at most grows by one element stays a sequence of those
\* elements.
LEMMA Longer ==
  ASSUME NEW S, NEW s \in Seq(S), NEW e \in S, NEW r, r = s \/ r = Append(s, e)
  PROVE  r \in Seq(S)
  OBVIOUS

\* The rounds a turn may write to the window are rounds.
LEMMA RoundTypes ==
  ASSUME TypeOK
  PROVE  /\ NoRound \in [Calls -> {"none", "result", "cancelled"}]
         /\ CommittedRound \in Rounds /\ ReplyRound \in Rounds /\ Past \in Seq(Rounds)
         /\ \A m \in Message : UserRound(m) \in Rounds
         /\ \A n \in Nat : W("user", n) \in Message
         /\ \A n \in Nat : W("job", n) \in Message
         /\ UserRounds(inbox) \in Seq(Rounds)
         /\ window \in Seq(Rounds)
<1>1. NoRound \in [Calls -> {"none", "result", "cancelled"}]
  BY DEF NoRound
<1>2. CommittedRound \in Rounds
  BY DEF CommittedRound, Rounds, W
<1>3. ReplyRound \in Rounds
  BY <1>1 DEF ReplyRound, Rounds
<1>4. Past \in Seq(Rounds)
  BY <1>2 DEF Past
<1>5. ASSUME NEW m \in Message PROVE UserRound(m) \in Rounds
  BY <1>1, <1>5 DEF UserRound, Rounds
<1>6. \A n \in Nat : W("user", n) \in Message /\ W("job", n) \in Message
  BY DEF W, Message
<1>7. UserRounds(inbox) \in Seq(Rounds)
  <2>1. inbox \in Seq(Message) /\ DOMAIN inbox = 1..Len(inbox) /\ Len(inbox) \in Nat
    BY DEF TypeOK
  <2>2. \A i \in DOMAIN inbox : inbox[i] \in Message
    BY <2>1
  <2>3. \A i \in 1..Len(inbox) : UserRound(inbox[i]) \in Rounds
    BY <1>5, <2>1, <2>2
  <2>4. UserRounds(inbox) = [i \in 1..Len(inbox) |-> UserRound(inbox[i])]
    BY <2>1 DEF UserRounds
  <2> QED
    BY <2>1, <2>3, <2>4
<1>8. window \in Seq(Rounds)
  BY DEF TypeOK, Rounds
<1> QED
  BY <1>1, <1>2, <1>3, <1>4, <1>5, <1>6, <1>7, <1>8

\* A cancel that is taken leaves a part of the mailbox.
LEMMA CancelTaken ==
  ASSUME TypeOK, TakeCancel
  PROVE  /\ mail' \in Seq(Wake) /\ Within(mail', mail)
         /\ \E i \in DOMAIN mail : mail[i].kind = "cancel"
<1>1. PICK K : K = {i \in DOMAIN mail : i > FirstCancel \/ (i < FirstCancel /\ mail[i].kind # "prompt")}
  OBVIOUS
<1>2. K \in SUBSET (DOMAIN mail) /\ mail' = Picked(mail, K)
  BY <1>1 DEF TakeCancel
<1>3. mail \in Seq(Wake)
  BY DEF TypeOK
<1>4. Picked(mail, K) \in Seq(Wake) /\ Within(Picked(mail, K), mail)
  BY <1>2, <1>3, WithinPicked
<1> QED
  BY <1>2, <1>4 DEF TakeCancel

\* A wake that is taken is the first of the held ones or of the mailbox.
LEMMA WakeTaken ==
  ASSUME TypeOK, NEW kind, TakeNext(kind)
  PROVE  /\ NextWake \in Wake
         /\ \/ /\ held # <<>> /\ NextWake = Head(held) /\ held' = Tail(held) /\ mail' = mail
            \/ /\ held = <<>> /\ mail # <<>> /\ NextWake = Head(mail) /\ mail' = Tail(mail) /\ held' = held
         /\ mail' \in Seq(Wake) /\ held' \in Seq(Wake) /\ Within(mail', mail) /\ Within(held', held)
<1>1. mail \in Seq(Wake) /\ held \in Seq(Wake)
  BY DEF TypeOK
<1>2. CASE FromHeld
  <2>1. held # <<>> /\ NextWake = Head(held) /\ held' = Tail(held) /\ mail' = mail
    BY <1>2 DEF TakeNext, FromHeld, NextWake
  <2>2. Head(held) \in Wake /\ Tail(held) \in Seq(Wake) /\ Within(Tail(held), held) /\ Within(mail, mail)
    BY <1>1, <2>1, WithinTail, WithinSelf
  <2> QED
    BY <1>1, <2>1, <2>2
<1>3. CASE ~FromHeld
  <2>1. held = <<>> /\ mail # <<>> /\ NextWake = Head(mail) /\ mail' = Tail(mail) /\ held' = held
    BY <1>3 DEF TakeNext, FromHeld, NextWake
  <2>2. Head(mail) \in Wake /\ Tail(mail) \in Seq(Wake) /\ Within(Tail(mail), mail) /\ Within(held, held)
    BY <1>1, <2>1, WithinTail, WithinSelf
  <2> QED
    BY <1>1, <2>1, <2>2
<1> QED
  BY <1>2, <1>3

\* The types IInv leaves out: those of the flags, and of the rest.
Flags ==
  /\ pc \in {"idle", "begin", "top", "tools", "wait", "drain", "poll", "inbox", "infer",
             "work", "suspended", "ended"}
  /\ finished \in BOOLEAN /\ cancelled \in BOOLEAN /\ refit \in BOOLEAN

Others ==
  /\ session \in Session
  /\ mail \in Seq(Wake) /\ held \in Seq(Wake) /\ inbox \in Seq(Message)
  /\ first \in Nat /\ ans \in Nat /\ ncalls \in 0..MaxCalls
  /\ live \subseteq Calls /\ background \subseteq Calls /\ stopping \subseteq Calls /\ reported \subseteq Calls
  /\ window \in Seq(Rounds)
  /\ sent \in [{"prompt", "resume", "cancel", "close", "before"} -> Nat]
  /\ overtaken \subseteq Nat

\* The parts of the invariant give SessionTurn's type invariant.
LEMMA TypesOK == IInv /\ Flags /\ Others => TypeOK
  BY DEF IInv, Types, TypeOK, Flags, Others, Rounds

\* A session that starts has the types.
LEMMA InitTypes == Init => Flags /\ Others
<1> SUFFICES ASSUME Init PROVE Flags /\ Others
  OBVIOUS
<1>1. session \in Session
  BY DEF Init
<1>2. mail \in Seq(Wake) /\ Len(mail) \in Nat
  <2>1. W("prompt", 1) \in Wake
    BY DEF W, Wake
  <2> QED
    BY <2>1 DEF Init
<1>3. Flags
  BY DEF Init, Flags
<1>4. sent \in [{"prompt", "resume", "cancel", "close", "before"} -> Nat]
  BY <1>2 DEF Init
<1>5. ncalls \in 0..MaxCalls
  BY DEF Init
<1>6. held \in Seq(Wake) /\ inbox \in Seq(Message) /\ window \in Seq(Rounds)
  BY DEF Init
<1> QED
  BY <1>1, <1>2, <1>3, <1>4, <1>5, <1>6 DEF Init, Others

\* A step keeps the types of the flags and counters.
LEMMA StepFlags == IInv /\ Flags /\ [Next]_vars => Flags'
<1> SUFFICES ASSUME IInv, Flags, [Next]_vars PROVE Flags'
  OBVIOUS
<1> USE DEF Flags, flags, locals, data, job, rest, count
<1>1. CASE BeginPrompt
  BY <1>1 DEF BeginPrompt, Goto, CommitFails, Fail, Return
<1>2. CASE BeginResume
  BY <1>2 DEF BeginResume, Goto, Fail, Return
<1>3. CASE CommitRound
  BY <1>3 DEF CommitRound, CommitFails, Fail, Return
<1>4. CASE RefuseAnswer
  BY <1>4 DEF RefuseAnswer, Fail, Return
<1>5. CASE StartCalls
  BY <1>5 DEF StartCalls, Advance, Goto
<1>6. CASE TakeJobEnds
  BY <1>6 DEF TakeJobEnds, Advance, Goto
<1>7. CASE WaitForJobs
  BY <1>7 DEF WaitForJobs, Advance, Goto
<1>8. CASE Park
  BY <1>8 DEF Park, Return
<1>9. CASE Poll
  BY <1>9 DEF Poll, Goto
<1>10. CASE Tools
  BY <1>10 DEF Tools, Goto, Fail, Return
<1>11. CASE ToolsCancelled
  BY <1>11 DEF ToolsCancelled, Return
<1>12. CASE PumpWake
  BY <1>12 DEF PumpWake, HandleRunning
<1>13. CASE PumpSuspend
  BY <1>13 DEF PumpSuspend
<1>14. CASE PumpDone
  BY <1>14 DEF PumpDone, FailCancelled, Return, Goto
<1>15. CASE CommitInbox
  BY <1>15 DEF CommitInbox, Goto, CommitFails, Fail, Return
<1>16. CASE CompleteTurn
  BY <1>16 DEF CompleteTurn, Return
<1>17. CASE ContinueTurn
  BY <1>17 DEF ContinueTurn, Goto
<1>18. CASE ReplyCalls
  BY <1>18 DEF ReplyCalls, Goto
<1>19. CASE ReplyDone
  BY <1>19 DEF ReplyDone, Goto, CommitFails, Fail, Return
<1>20. CASE TooLong
  BY <1>20 DEF TooLong, Goto, Fail, Return
<1>21. CASE InferFails
  BY <1>21 DEF InferFails, Fail, Return
<1>22. CASE InferCancelled
  BY <1>22 DEF InferCancelled, FailCancelled, Return
<1>23. CASE IdleJob
  BY <1>23 DEF IdleJob
<1>24. CASE IdleCancel
  BY <1>24 DEF IdleCancel
<1>25. CASE SteerParked
  BY <1>25 DEF SteerParked
<1>26. CASE IdlePrompt
  BY <1>26 DEF IdlePrompt, StartTurn
<1>27. CASE WorkerPrompt
  BY <1>27 DEF WorkerPrompt
<1>28. CASE Work
  BY <1>28 DEF Work
<1>29. CASE IdleResume
  BY <1>29 DEF IdleResume, StartTurn
<1>30. CASE IdleClose
  BY <1>30 DEF IdleClose
<1>31. CASE IdleSuspend
  BY <1>31 DEF IdleSuspend
<1>32. CASE Restart
  BY <1>32 DEF Restart
<1>33. CASE End
  BY <1>33 DEF End
<1>34. CASE Host
  BY <1>34 DEF Host, SendPrompt, SendResume, SendCancel, SendClose, Send
<1>35. CASE \E c \in Calls : JobEnds(c) \/ JobEndsAgain(c)
  BY <1>35 DEF JobEnds, JobEndsAgain
<1>36. CASE UNCHANGED vars
  BY <1>36 DEF vars
<1> QED
  BY <1>1, <1>2, <1>3, <1>4, <1>5, <1>6, <1>7, <1>8, <1>9, <1>10, <1>11, <1>12, <1>13, <1>14,
     <1>15, <1>16, <1>17, <1>18, <1>19, <1>20, <1>21, <1>22, <1>23, <1>24, <1>25, <1>26, <1>27,
     <1>28, <1>29, <1>30, <1>31, <1>32, <1>33, <1>34, <1>35, <1>36 DEF Next, Run, Turn

\* A step keeps the types of the queues, the window and the round.
LEMMA StepOthers == IInv /\ Flags /\ Others /\ IInv' /\ [Next]_vars => Others'
<1> SUFFICES ASSUME IInv, Flags, Others, IInv', [Next]_vars PROVE Others'
  OBVIOUS
<1>0. Types /\ Types' /\ TypeOK
  BY TypesOK DEF IInv
<1>r. /\ CommittedRound \in Rounds /\ ReplyRound \in Rounds /\ Past \in Seq(Rounds)
      /\ \A m \in Message : UserRound(m) \in Rounds
      /\ \A n \in Nat : W("user", n) \in Message
      /\ \A n \in Nat : W("job", n) \in Message
      /\ UserRounds(inbox) \in Seq(Rounds)
      /\ window \in Seq(Rounds)
  BY <1>0, RoundTypes
<1>s. session' = session
  BY DEF Next, vars
<1> USE <1>0, <1>s DEF Others, Types, flags, locals, data, job, rest, count
<1>1. CASE BeginPrompt
  <2>1. first \in Nat /\ UserRound(W("user", first)) \in Rounds
    BY <1>r
  <2>2. window \o Past \o <<UserRound(W("user", first))>> \in Seq(Rounds)
    BY <1>r, <2>1, Longer
  <2>3. window' = window \/ window' = window \o Past \o <<UserRound(W("user", first))>>
    BY <1>1 DEF BeginPrompt, CommitFails
  <2>4. window' \in Seq(Rounds)
    BY <1>r, <2>2, <2>3
  <2>5. /\ UNCHANGED <<mail, inbox, ncalls, held, live, background, stopping, reported, sent, overtaken>>
        /\ first' \in {0, first} /\ ans' \in {0, ans}
    BY <1>1 DEF BeginPrompt, Goto, CommitFails, Fail, Return
  <2> QED
    BY <2>4, <2>5
<1>2. CASE BeginResume
  BY <1>2 DEF BeginResume, Goto, Fail, Return
<1>3. CASE CommitRound
  <2>1. window' = window \/ window' = Append(window, CommittedRound)
    BY <1>3 DEF CommitRound, CommitFails
  <2>2. window' \in Seq(Rounds)
    BY <1>r, <2>1, Longer
  <2>3. /\ UNCHANGED <<mail, inbox, ncalls, held, live, background, stopping, reported, sent, overtaken>>
        /\ first' \in {0, first} /\ ans' \in {0, ans}
    BY <1>3 DEF CommitRound, CommitFails, Fail, Return
  <2> QED
    BY <2>2, <2>3
<1>4. CASE RefuseAnswer
  BY <1>4 DEF RefuseAnswer, Fail, Return
<1>5. CASE StartCalls
  BY <1>5 DEF StartCalls, Advance, Goto
<1>6. CASE TakeJobEnds
  BY <1>6 DEF TakeJobEnds, Advance, Goto
<1>7. CASE WaitForJobs
  BY <1>7 DEF WaitForJobs, Advance, Goto
<1>8. CASE Park
  BY <1>8 DEF Park, Return
<1>9. CASE Poll
  BY <1>9 DEF Poll, Goto
<1>10. CASE Tools
  BY <1>10 DEF Tools, RunsEnd, StartJobs, Runs, Started, Goto, Fail, Return
<1>11. CASE ToolsCancelled
  <2>1. mail' \in Seq(Wake)
    BY <1>11, CancelTaken DEF ToolsCancelled
  <2> QED
    BY <1>11, <2>1 DEF ToolsCancelled, RunsEnd, Runs, Started, Tracked, Return
<1>12. CASE PumpWake
  <2>1. mail # <<>> /\ Head(mail) \in Wake /\ Tail(mail) \in Seq(Wake) /\ mail' = Tail(mail)
    BY <1>12 DEF PumpWake
  <2>2. held' \in Seq(Wake)
    BY <1>12, <2>1 DEF PumpWake, HandleRunning
  <2>3. Head(mail).n \in Nat
    BY <2>1 DEF Wake
  <2>4. inbox' \in Seq(Message)
    <3>1. inbox' = inbox \/ inbox' = Append(inbox, W("user", Head(mail).n)) \/ inbox' = Append(inbox, W("job", Head(mail).n))
      BY <1>12 DEF PumpWake, HandleRunning, JobEnded, Steer
    <3> QED
      <4>1. W("user", Head(mail).n) \in Message /\ W("job", Head(mail).n) \in Message
        BY <1>r, <2>3
      <4> QED
        BY <3>1, <4>1, Longer
  <2> QED
    BY <1>12, <2>1, <2>2, <2>4 DEF PumpWake, HandleRunning
<1>13. CASE PumpSuspend
  BY <1>13 DEF PumpSuspend
<1>14. CASE PumpDone
  <2>1. /\ UNCHANGED <<mail, ncalls, held, live, background, reported, sent, overtaken, window>>
        /\ first' \in {0, first} /\ ans' \in {0, ans} /\ (inbox' = <<>> \/ inbox' = inbox)
        /\ (stopping' = stopping \/ stopping' = stopping \union Tracked)
    BY <1>14 DEF PumpDone, FailCancelled, CancelJobs, Return, Goto
  <2>2. Tracked \subseteq Calls
    BY DEF Tracked
  <2>3. stopping' \subseteq Calls
    BY <2>1, <2>2
  <2>4. inbox' \in Seq(Message)
    <3>1. <<>> \in Seq(Message)
      OBVIOUS
    <3> QED
      BY <2>1, <3>1, Zenon
  <2> QED
    BY <2>1, <2>3, <2>4
<1>15. CASE CommitInbox
  <2>1. window' = window \/ window' = window \o UserRounds(inbox)
    BY <1>15 DEF CommitInbox, CommitFails
  <2>2. window' \in Seq(Rounds)
    <3>1. CASE window' = window
      BY <3>1
    <3>2. CASE window' = window \o UserRounds(inbox)
      BY <1>r, <3>2
    <3> QED
      BY <2>1, <3>1, <3>2
  <2>3. /\ UNCHANGED <<mail, ncalls, held, live, background, stopping, reported, sent, overtaken>>
        /\ first' \in {0, first} /\ ans' \in {0, ans} /\ inbox' = <<>>
    BY <1>15 DEF CommitInbox, Goto, CommitFails, Fail, Return
  <2> QED
    BY <2>2, <2>3
<1>16. CASE CompleteTurn
  BY <1>16 DEF CompleteTurn, Return
<1>17. CASE ContinueTurn
  BY <1>17 DEF ContinueTurn, Goto
<1>18. CASE ReplyCalls
  <2>1. ncalls' \in 0..MaxCalls
    <3>1. PICK k \in 1..session.reply : ncalls + k <= session.calls /\ ncalls' = ncalls + k
      BY <1>18 DEF ReplyCalls
    <3>2. session.calls \in 0..MaxCalls /\ session.reply \in Nat
      BY DEF Session
    <3> QED
      BY <3>1, <3>2
  <2> QED
    BY <1>18, <2>1 DEF ReplyCalls, Goto
<1>19. CASE ReplyDone
  <2>1. window' = window \/ window' = Append(window, ReplyRound)
    BY <1>19 DEF ReplyDone, CommitFails
  <2>2. window' \in Seq(Rounds)
    BY <1>r, <2>1, Longer
  <2>3. /\ UNCHANGED <<mail, inbox, ncalls, held, live, background, stopping, reported, sent, overtaken>>
        /\ first' \in {0, first} /\ ans' \in {0, ans}
    BY <1>19 DEF ReplyDone, Goto, CommitFails, Fail, Return
  <2> QED
    BY <2>2, <2>3
<1>20. CASE TooLong
  BY <1>20 DEF TooLong, Goto, Fail, Return
<1>21. CASE InferFails
  BY <1>21 DEF InferFails, Fail, Return
<1>22. CASE InferCancelled
  <2>1. mail' \in Seq(Wake)
    BY <1>22, CancelTaken DEF InferCancelled
  <2> QED
    BY <1>22, <2>1 DEF InferCancelled, FailCancelled, CancelJobs, Tracked, Return
<1>23. CASE IdleJob
  <2>1. NextWake \in Wake /\ mail' \in Seq(Wake) /\ held' \in Seq(Wake)
    BY <1>23, WakeTaken DEF IdleJob
  <2>2. NextWake.n \in Nat
    BY <2>1 DEF Wake
  <2>3. inbox' = inbox \/ inbox' = Append(inbox, W("job", NextWake.n))
    BY <1>23 DEF IdleJob, JobEnded
  <2>a. W("job", NextWake.n) \in Message
    BY <1>r, <2>2
  <2>4. inbox' \in Seq(Message)
    BY <2>a, <2>3, Longer
  <2> QED
    BY <1>23, <2>1, <2>4 DEF IdleJob
<1>24. CASE IdleCancel
  <2>1. mail' \in Seq(Wake) /\ held' \in Seq(Wake)
    BY <1>24, WakeTaken DEF IdleCancel
  <2> QED
    BY <1>24, <2>1 DEF IdleCancel, CancelJobs, Tracked
<1>25. CASE SteerParked
  <2>1. NextWake \in Wake /\ mail' \in Seq(Wake) /\ held' \in Seq(Wake)
    BY <1>25, WakeTaken DEF SteerParked
  <2>2. NextWake.n \in Nat
    BY <2>1 DEF Wake
  <2>3. inbox' \in Seq(Message)
    BY <1>25, <1>r, <2>2, Longer DEF SteerParked, Steer
  <2> QED
    BY <1>25, <2>1, <2>3 DEF SteerParked
<1>26. CASE IdlePrompt
  <2>1. NextWake \in Wake /\ mail' \in Seq(Wake) /\ held' \in Seq(Wake)
    BY <1>26, WakeTaken DEF IdlePrompt
  <2>2. NextWake.n \in Nat
    BY <2>1 DEF Wake
  <2>3. overtaken' \subseteq Nat
    <3>1. overtaken \subseteq Nat /\ 1..sent.prompt \subseteq Nat
      OBVIOUS
    <3>2. overtaken' = overtaken \union {n \in 1..sent.prompt : \E i \in DOMAIN inbox : inbox[i] = W("user", n)}
      BY <1>26 DEF IdlePrompt
    <3> QED
      BY <3>1, <3>2, Zenon
  <2> QED
    BY <1>26, <2>1, <2>2, <2>3 DEF IdlePrompt, StartTurn
<1>27. CASE WorkerPrompt
  <2>1. mail' \in Seq(Wake) /\ held' \in Seq(Wake)
    BY <1>27, WakeTaken DEF WorkerPrompt
  <2> QED
    BY <1>27, <2>1 DEF WorkerPrompt
<1>28. CASE Work
  <2>1. mail' \in Seq(Wake)
    BY <1>28, CancelTaken DEF Work
  <2> QED
    BY <1>28, <2>1 DEF Work
<1>29. CASE IdleResume
  <2>1. NextWake \in Wake /\ mail' \in Seq(Wake) /\ held' \in Seq(Wake)
    BY <1>29, WakeTaken DEF IdleResume
  <2>2. NextWake.n \in Nat
    BY <2>1 DEF Wake
  <2> QED
    BY <1>29, <2>1, <2>2 DEF IdleResume, StartTurn
<1>30. CASE IdleClose
  <2>1. mail' \in Seq(Wake) /\ held' \in Seq(Wake)
    BY <1>30, WakeTaken DEF IdleClose
  <2> QED
    BY <1>30, <2>1 DEF IdleClose
<1>31. CASE IdleSuspend
  BY <1>31 DEF IdleSuspend
<1>32. CASE Restart
  BY <1>32 DEF Restart
<1>33. CASE End
  BY <1>33 DEF End, Tracked
<1>34. CASE Host
  <2>1. PICK kind \in {"prompt", "resume", "cancel", "close"}, n \in Nat : \E bound : Send(kind, n, bound)
    BY <1>34 DEF Host, SendPrompt, SendResume, SendCancel, SendClose, Calls
  <2>2. W(kind, n) \in Wake
    BY DEF W, Wake
  <2>3. mail' \in Seq(Wake)
    <3>1. mail' = Append(mail, W(kind, n))
      BY <2>1 DEF Send
    <3> QED
      BY <2>2, <3>1, Longer
  <2>4. sent' \in [{"prompt", "resume", "cancel", "close", "before"} -> Nat]
    <3>1. PICK b : b = (IF kind = "cancel" THEN sent.prompt ELSE sent.before)
      OBVIOUS
    <3>2. b \in Nat /\ sent[kind] + 1 \in Nat
      BY <3>1
    <3>3. sent' = [sent EXCEPT ![kind] = @ + 1, !["before"] = b]
      BY <2>1, <3>1 DEF Send
    <3> QED
      BY <3>2, <3>3
  <2> QED
    BY <2>1, <2>3, <2>4 DEF Send
<1>35. CASE \E c \in Calls : JobEnds(c) \/ JobEndsAgain(c)
  <2>1. PICK c \in Calls : JobEnds(c) \/ JobEndsAgain(c)
    BY <1>35
  <2>2. W("job", c) \in Wake
    BY DEF W, Wake, Calls
  <2>3. mail' \in Seq(Wake)
    BY <2>1, <2>2, Longer DEF JobEnds, JobEndsAgain
  <2> QED
    BY <2>1, <2>3 DEF JobEnds, JobEndsAgain
<1>36. CASE UNCHANGED vars
  BY <1>36 DEF vars
<1> QED
  BY <1>1, <1>2, <1>3, <1>4, <1>5, <1>6, <1>7, <1>8, <1>9, <1>10, <1>11, <1>12, <1>13, <1>14,
     <1>15, <1>16, <1>17, <1>18, <1>19, <1>20, <1>21, <1>22, <1>23, <1>24, <1>25, <1>26, <1>27,
     <1>28, <1>29, <1>30, <1>31, <1>32, <1>33, <1>34, <1>35, <1>36 DEF Next, Run, Turn

-----------------------------------------------------------------------------
(* Prompts.                                                                *)

\* The wakes or messages of one kind in s have rising numbers.
RisingIn(s, k) ==
  \A i, j \in DOMAIN s : i < j /\ s[i].kind = k /\ s[j].kind = k => s[i].n < s[j].n

\* Every prompt of the mailbox m has a number in 1..N, and a later one than n.
Numbered(m, N) == \A i \in DOMAIN m : m[i].kind = "prompt" => m[i].n \in 1..N
Before(n, m)   == \A i \in DOMAIN m : m[i].kind = "prompt" => n < m[i].n

\* The prompt numbers of an inbox and of a window.
Users(b)   == {b[i].n : i \in {k \in DOMAIN b : b[k].kind = "user"}}
Written(w) == {w[i].msg.n : i \in {k \in DOMAIN w : w[k].msg.kind = "user"}}

\* The window w holds the prompts in order, but for those of o.
InOrder(w, o) ==
  \A i, j \in DOMAIN w :
    i < j /\ w[i].msg.kind = "user" /\ w[j].msg.kind = "user"
      => w[i].msg.n < w[j].msg.n \/ (w[j].msg.n \in o /\ w[j].msg.n # w[i].msg.n)

\* How the prompts of a mailbox m, an inbox b, a window w and the prompt f that
\* begins a turn stand to each other, when N were sent and those of o were
\* overtaken.
PromptsStand(m, b, w, f, o, N) ==
  /\ N \in Nat /\ f \in Nat
  /\ RisingIn(m, "prompt") /\ RisingIn(b, "user") /\ Numbered(m, N)
  /\ \A n \in Users(b) \union Written(w) : n \in 1..N /\ Before(n, m)
  /\ f # 0 => /\ f \in 1..N /\ Before(f, m)
              /\ \A n \in Written(w) : n < f
              /\ \A n \in Users(b) : n \in o /\ n # f
  /\ \A n \in Users(b), k \in Written(w) : n # k /\ (k < n \/ n \in o)
  /\ InOrder(w, o)

\* A queue that loses elements keeps its prompts in order and gains none.
LEMMA WithinPrompts ==
  ASSUME NEW p, NEW s, Within(p, s)
  PROVE  /\ \A k : RisingIn(s, k) => RisingIn(p, k)
         /\ \A N : Numbered(s, N) => Numbered(p, N)
         /\ \A n : Before(n, s) => Before(n, p)
         /\ Users(p) \subseteq Users(s)
<1>1. ASSUME NEW k, RisingIn(s, k) PROVE RisingIn(p, k)
  <2> SUFFICES ASSUME NEW i \in DOMAIN p, NEW j \in DOMAIN p, i < j, p[i].kind = k, p[j].kind = k
               PROVE  p[i].n < p[j].n
    BY DEF RisingIn
  <2>1. PICK a, b \in DOMAIN s : a < b /\ p[i] = s[a] /\ p[j] = s[b]
    BY DEF Within, PickedOrder
  <2> QED
    BY <1>1, <2>1 DEF RisingIn
<1>2. ASSUME NEW N, Numbered(s, N) PROVE Numbered(p, N)
  BY <1>2 DEF Numbered, Within
<1>3. ASSUME NEW n, Before(n, s) PROVE Before(n, p)
  BY <1>3 DEF Before, Within
<1>4. Users(p) \subseteq Users(s)
  <2> SUFFICES ASSUME NEW i \in DOMAIN p, p[i].kind = "user" PROVE p[i].n \in Users(s)
    BY DEF Users
  <2>1. PICK k \in DOMAIN s : p[i] = s[k]
    BY DEF Within
  <2> QED
    BY <2>1 DEF Users
<1> QED
  BY <1>1, <1>2, <1>3, <1>4

\* Where an element of a joined sequence comes from, and what order they have.
LEMMA JoinedPairs ==
  ASSUME NEW S, NEW s \in Seq(S), NEW t \in Seq(S), NEW w, w = s \o t,
         NEW i \in DOMAIN w, NEW j \in DOMAIN w, i < j
  PROVE  \/ i \in DOMAIN s /\ j \in DOMAIN s /\ w[i] = s[i] /\ w[j] = s[j]
         \/ i \in DOMAIN s /\ w[i] = s[i] /\ \E l \in DOMAIN t : w[j] = t[l]
         \/ \E k, l \in DOMAIN t : k < l /\ w[i] = t[k] /\ w[j] = t[l]
<1>1. PICK n, k : n = Len(s) /\ k = Len(t)
  OBVIOUS
<1>2. /\ w \in Seq(S) /\ n \in Nat /\ k \in Nat /\ DOMAIN s = 1..n /\ DOMAIN t = 1..k /\ DOMAIN w = 1..(n + k)
      /\ \A x \in 1..(n + k) : w[x] = IF x <= n THEN s[x] ELSE t[x - n]
  BY <1>1
<1>3. CASE j <= n
  <2>1. i \in 1..n /\ j \in 1..n /\ i <= n
    BY <1>2, <1>3
  <2> QED
    BY <1>2, <1>3, <2>1
<1>4. CASE i <= n /\ ~(j <= n)
  <2>1. i \in 1..n /\ j - n \in 1..k
    BY <1>2, <1>4
  <2> QED
    BY <1>2, <1>4, <2>1
<1>5. CASE ~(i <= n) /\ ~(j <= n)
  <2>1. i - n \in 1..k /\ j - n \in 1..k /\ i - n < j - n
    BY <1>2, <1>5
  <2> QED
    BY <1>2, <1>5, <2>1
<1>6. i \in 1..(n + k) /\ j \in 1..(n + k)
  BY <1>2
<1> QED
  BY <1>2, <1>3, <1>4, <1>5, <1>6

\* What a window holds after rounds were added.
LEMMA JoinedWritten ==
  ASSUME NEW s \in Seq(Rounds), NEW t \in Seq(Rounds), NEW w, w = s \o t
  PROVE  \A n : n \in Written(w) <=> n \in Written(s) \/ n \in Written(t)
<1>1. /\ \A i \in DOMAIN s : i \in DOMAIN w /\ w[i] = s[i]
      /\ \A i \in DOMAIN t : i + Len(s) \in DOMAIN w /\ w[i + Len(s)] = t[i]
      /\ \A j \in DOMAIN w : j \notin DOMAIN s => \E i \in DOMAIN t : j = i + Len(s)
  <2>1. IsJoined(w, s, t)
    BY Joined
  <2> QED
    BY <2>1 DEF IsJoined
<1>2. ASSUME NEW n, n \in Written(w) PROVE n \in Written(s) \/ n \in Written(t)
  <2>1. PICK j \in DOMAIN w : w[j].msg.kind = "user" /\ n = w[j].msg.n
    BY <1>2 DEF Written
  <2>2. CASE j \in DOMAIN s
    BY <1>1, <2>1, <2>2 DEF Written
  <2>3. CASE j \notin DOMAIN s
    <3>1. PICK i \in DOMAIN t : j = i + Len(s)
      BY <1>1, <2>3
    <3>2. w[j] = t[i]
      BY <1>1, <3>1
    <3> QED
      BY <2>1, <3>2 DEF Written
  <2> QED
    BY <2>2, <2>3
<1>3. ASSUME NEW n, n \in Written(s) PROVE n \in Written(w)
  BY <1>1, <1>3 DEF Written
<1>4. ASSUME NEW n, n \in Written(t) PROVE n \in Written(w)
  <2>1. PICK i \in DOMAIN t : t[i].msg.kind = "user" /\ n = t[i].msg.n
    BY <1>4 DEF Written
  <2>2. PICK j : j = i + Len(s)
    OBVIOUS
  <2>3. j \in DOMAIN w /\ w[j] = t[i]
    BY <1>1, <2>2
  <2> QED
    BY <2>1, <2>3 DEF Written
<1> QED
  BY <1>2, <1>3, <1>4

\* A window stays in order when what is written behind it holds later prompts
\* only, or earlier ones that were overtaken.
LEMMA JoinedInOrder ==
  ASSUME NEW s \in Seq(Rounds), NEW t \in Seq(Rounds), NEW w, w = s \o t, NEW o,
         InOrder(s, o), InOrder(t, o),
         \A k \in Written(s), n \in Written(t) : k < n \/ (n \in o /\ n # k)
  PROVE  InOrder(w, o)
<1> SUFFICES ASSUME NEW i \in DOMAIN w, NEW j \in DOMAIN w, i < j,
                    w[i].msg.kind = "user", w[j].msg.kind = "user"
             PROVE  w[i].msg.n < w[j].msg.n \/ (w[j].msg.n \in o /\ w[j].msg.n # w[i].msg.n)
  BY DEF InOrder
<1>1. \/ i \in DOMAIN s /\ j \in DOMAIN s /\ w[i] = s[i] /\ w[j] = s[j]
      \/ i \in DOMAIN s /\ w[i] = s[i] /\ \E l \in DOMAIN t : w[j] = t[l]
      \/ \E k, l \in DOMAIN t : k < l /\ w[i] = t[k] /\ w[j] = t[l]
  BY JoinedPairs
<1>2. CASE i \in DOMAIN s /\ j \in DOMAIN s /\ w[i] = s[i] /\ w[j] = s[j]
  BY <1>2 DEF InOrder
<1>3. CASE i \in DOMAIN s /\ w[i] = s[i] /\ \E l \in DOMAIN t : w[j] = t[l]
  <2>1. w[i].msg.n \in Written(s) /\ w[j].msg.n \in Written(t)
    BY <1>3 DEF Written
  <2> QED
    BY <2>1
<1>4. CASE \E k, l \in DOMAIN t : k < l /\ w[i] = t[k] /\ w[j] = t[l]
  BY <1>4 DEF InOrder
<1> QED
  BY <1>1, <1>2, <1>3, <1>4

\* An appended element comes last.
LEMMA Appended ==
  ASSUME NEW S, NEW s \in Seq(S), NEW e \in S
  PROVE  /\ Append(s, e) \in Seq(S)
         /\ \A i \in DOMAIN Append(s, e) : (i \in DOMAIN s /\ Append(s, e)[i] = s[i]) \/ Append(s, e)[i] = e
         /\ \A i, j \in DOMAIN Append(s, e) : i < j => i \in DOMAIN s /\ Append(s, e)[i] = s[i]
<1>1. PICK a, k : a = Append(s, e) /\ k = Len(s)
  OBVIOUS
<1>2. /\ a \in Seq(S) /\ k \in Nat /\ DOMAIN s = 1..k /\ DOMAIN a = 1..(k + 1)
      /\ a[k + 1] = e /\ \A i \in 1..k : a[i] = s[i]
  BY <1>1
<1>3. \A i \in 1..(k + 1) : i \in 1..k \/ i = k + 1
  BY <1>2
<1>4. \A i, j \in 1..(k + 1) : i < j => i \in 1..k
  BY <1>2
<1> QED
  BY <1>1, <1>2, <1>3, <1>4

Lengthened(s, e, a) ==
  /\ \A k : RisingIn(s, k) /\ (e.kind = k => \A i \in DOMAIN s : s[i].kind = k => s[i].n < e.n)
              => RisingIn(a, k)
  /\ \A N : Numbered(s, N) /\ (e.kind = "prompt" => e.n \in 1..N) => Numbered(a, N)
  /\ \A n : Before(n, s) /\ (e.kind = "prompt" => n < e.n) => Before(n, a)
  /\ \A n \in Users(a) : n \in Users(s) \/ (e.kind = "user" /\ n = e.n)

\* The prompts of a queue that grows by one element are those it had and the
\* new one.
LEMMA AppendPrompts ==
  ASSUME NEW S, NEW s \in Seq(S), NEW e \in S, NEW a, a = Append(s, e)
  PROVE  Lengthened(s, e, a)
<1>1. /\ \A i \in DOMAIN a : (i \in DOMAIN s /\ a[i] = s[i]) \/ a[i] = e
      /\ \A i, j \in DOMAIN a : i < j => i \in DOMAIN s /\ a[i] = s[i]
  BY Appended
<1>2. ASSUME NEW k, RisingIn(s, k), e.kind = k => \A i \in DOMAIN s : s[i].kind = k => s[i].n < e.n
      PROVE  RisingIn(a, k)
  <2> SUFFICES ASSUME NEW i \in DOMAIN a, NEW j \in DOMAIN a, i < j, a[i].kind = k, a[j].kind = k
               PROVE  a[i].n < a[j].n
    BY DEF RisingIn
  <2>1. i \in DOMAIN s /\ a[i] = s[i]
    BY <1>1
  <2> QED
    BY <1>1, <1>2, <2>1 DEF RisingIn
<1>3. \A N : Numbered(s, N) /\ (e.kind = "prompt" => e.n \in 1..N) => Numbered(a, N)
  BY <1>1 DEF Numbered
<1>4. \A n : Before(n, s) /\ (e.kind = "prompt" => n < e.n) => Before(n, a)
  BY <1>1 DEF Before
<1>5. \A n \in Users(a) : n \in Users(s) \/ (e.kind = "user" /\ n = e.n)
  BY <1>1 DEF Users
<1> QED
  BY <1>2, <1>3, <1>4, <1>5 DEF Lengthened

\* A step that brings no prompt anywhere.
LEMMA SettleStands ==
  ASSUME NEW m, NEW b, NEW w \in Seq(Rounds), NEW f, NEW o, NEW N, PromptsStand(m, b, w, f, o, N),
         NEW m2, Within(m2, m), NEW b2, Users(b2) \subseteq Users(b), RisingIn(b2, "user"),
         NEW t \in Seq(Rounds), Written(t) = {}, NEW w2, w2 = w \o t, NEW f2, f2 = f \/ f2 = 0
  PROVE  PromptsStand(m2, b2, w2, f2, o, N)
<1>1. \A n : n \in Written(w2) <=> n \in Written(w)
  BY JoinedWritten
<1>2. InOrder(t, o)
  BY DEF InOrder, Written
<1>3. InOrder(w2, o)
  BY <1>2, JoinedInOrder DEF PromptsStand
<1>4. RisingIn(m2, "prompt") /\ Numbered(m2, N) /\ \A n : Before(n, m) => Before(n, m2)
  BY WithinPrompts DEF PromptsStand
<1> QED
  BY <1>1, <1>3, <1>4 DEF PromptsStand

\* A wake that is no prompt moves no prompt.
LEMMA AddStands ==
  ASSUME NEW m \in Seq(Wake), NEW b, NEW w, NEW f, NEW o, NEW N, PromptsStand(m, b, w, f, o, N),
         NEW x \in Wake, x.kind # "prompt"
  PROVE  PromptsStand(Append(m, x), b, w, f, o, N)
<1>1. PICK a : a = Append(m, x)
  OBVIOUS
<1>a. Lengthened(m, x, a)
  BY <1>1, AppendPrompts
<1>2. RisingIn(a, "prompt") /\ Numbered(a, N) /\ \A n : Before(n, m) => Before(n, a)
  BY <1>a DEF PromptsStand, Lengthened
<1> QED
  BY <1>1, <1>2 DEF PromptsStand

\* The host's next prompt has the highest number and takes its place at the end
\* of the mailbox.
LEMMA SendStands ==
  ASSUME NEW m \in Seq(Wake), NEW b, NEW w, NEW f, NEW o, NEW N, PromptsStand(m, b, w, f, o, N)
  PROVE  PromptsStand(Append(m, W("prompt", N + 1)), b, w, f, o, N + 1)
<1>1. PICK x, a, M : x = W("prompt", N + 1) /\ a = Append(m, x) /\ M = N + 1
  OBVIOUS
<1>2. N \in Nat /\ M \in Nat /\ x \in Wake /\ x.kind = "prompt" /\ x.n = M
  BY <1>1 DEF PromptsStand, W, Wake
<1>3. \A n \in 1..N : n < M /\ n \in 1..M
  BY <1>1, <1>2
<1>4. Numbered(m, M) /\ \A i \in DOMAIN m : m[i].kind = "prompt" => m[i].n < x.n
  BY <1>2, <1>3 DEF PromptsStand, Numbered
<1>5. x.n \in 1..M
  BY <1>1, <1>2
<1>a. Lengthened(m, x, a)
  BY <1>1, <1>2, AppendPrompts
<1>6. RisingIn(a, "prompt") /\ Numbered(a, M)
  BY <1>2, <1>4, <1>5, <1>a DEF PromptsStand, Lengthened
<1>7. \A n \in 1..N : Before(n, m) => Before(n, a)
  BY <1>2, <1>3, <1>a DEF Lengthened
<1>8. PromptsStand(a, b, w, f, o, M)
  BY <1>2, <1>3, <1>6, <1>7 DEF PromptsStand
<1> QED
  BY <1>1, <1>8

\* The first of a mailbox, if it is a prompt: it comes before the others.
LEMMA HeadPrompt ==
  ASSUME NEW m \in Seq(Wake), NEW b, NEW w, NEW f, NEW o, NEW N, PromptsStand(m, b, w, f, o, N),
         m # <<>>, Head(m).kind = "prompt"
  PROVE  /\ Head(m).n \in 1..N /\ Before(Head(m).n, Tail(m)) /\ Within(Tail(m), m)
         /\ \A n \in Users(b) \union Written(w) : n < Head(m).n
<1>1. /\ Head(m) = m[1] /\ 1 \in DOMAIN m
      /\ \A i \in DOMAIN Tail(m) : (i + 1) \in DOMAIN m /\ Tail(m)[i] = m[i + 1]
  BY TailElements
<1>2. \A i \in DOMAIN Tail(m) : 1 < i + 1
  OBVIOUS
<1>3. PICK t, h : t = Tail(m) /\ h = m[1]
  OBVIOUS
<1>4. Before(h.n, t)
  BY <1>1, <1>2, <1>3 DEF PromptsStand, Before, RisingIn
<1>5. h.n \in 1..N /\ \A n \in Users(b) \union Written(w) : n < h.n
  BY <1>1, <1>3 DEF PromptsStand, Numbered, Before
<1>6. Within(Tail(m), m)
  BY WithinTail
<1> QED
  BY <1>1, <1>3, <1>4, <1>5, <1>6

\* A prompt read while the turn runs moves from the mailbox to the inbox,
\* behind the earlier ones (turn.go:333-336).
LEMMA SteerStands ==
  ASSUME NEW m \in Seq(Wake), NEW b \in Seq(Message), NEW w, NEW o, NEW N, PromptsStand(m, b, w, 0, o, N),
         m # <<>>, Head(m).kind = "prompt"
  PROVE  PromptsStand(Tail(m), Append(b, W("user", Head(m).n)), w, 0, o, N)
<1>1. PICK t, n, x, a : t = Tail(m) /\ n = Head(m).n /\ x = W("user", n) /\ a = Append(b, x)
  OBVIOUS
<1>2. n \in 1..N /\ Before(n, t) /\ Within(t, m) /\ \A k \in Users(b) \union Written(w) : k < n
  BY <1>1, HeadPrompt
<1>3. n \in Nat /\ N \in Nat /\ \A k \in Users(b) \union Written(w) : k \in 1..N /\ Before(k, m)
  BY <1>2 DEF PromptsStand
<1>4. x \in Message /\ x.kind = "user" /\ x.n = n
  BY <1>1, <1>3 DEF W, Message
<1>5. \A i \in DOMAIN b : b[i].kind = "user" => b[i].n < x.n
  BY <1>2, <1>4 DEF Users
<1>a. Lengthened(b, x, a)
  BY <1>1, <1>4, AppendPrompts
<1>6. RisingIn(a, "user") /\ \A k \in Users(a) : k \in Users(b) \/ k = n
  BY <1>4, <1>5, <1>a DEF PromptsStand, Lengthened
<1>7. RisingIn(t, "prompt") /\ Numbered(t, N) /\ \A k : Before(k, m) => Before(k, t)
  BY <1>2, WithinPrompts DEF PromptsStand
<1>8. \A k \in Written(w) : n # k /\ k < n
  BY <1>2, <1>3
<1>9. PromptsStand(t, a, w, 0, o, N)
  BY <1>2, <1>3, <1>6, <1>7, <1>8 DEF PromptsStand
<1> QED
  BY <1>1, <1>9

\* A prompt that starts a turn overtakes the users' messages a failed turn left
\* in the inbox (turn.go:249-254).
LEMMA BeginStands ==
  ASSUME NEW m \in Seq(Wake), NEW b, NEW w, NEW o, NEW N, PromptsStand(m, b, w, 0, o, N),
         m # <<>>, Head(m).kind = "prompt", NEW o2, o2 = o \union Users(b)
  PROVE  PromptsStand(Tail(m), b, w, Head(m).n, o2, N)
<1>1. PICK t, n : t = Tail(m) /\ n = Head(m).n
  OBVIOUS
<1>2. n \in 1..N /\ Before(n, t) /\ Within(t, m) /\ \A k \in Users(b) \union Written(w) : k < n
  BY <1>1, HeadPrompt
<1>3. n \in Nat /\ N \in Nat /\ \A k \in Users(b) \union Written(w) : k \in 1..N /\ Before(k, m)
  BY <1>2 DEF PromptsStand
<1>4. RisingIn(t, "prompt") /\ Numbered(t, N) /\ \A k : Before(k, m) => Before(k, t)
  BY <1>2, WithinPrompts DEF PromptsStand
<1>5. \A k \in Users(b) : k \in o2 /\ k # n
  BY <1>2, <1>3
<1>6. InOrder(w, o2)
  BY DEF PromptsStand, InOrder
<1>7. PromptsStand(t, b, w, n, o2, N)
  BY <1>2, <1>3, <1>4, <1>5, <1>6 DEF PromptsStand
<1> QED
  BY <1>1, <1>7

\* The prompt that starts a turn is written to the window, before any later
\* one.
LEMMA WriteStands ==
  ASSUME NEW m, NEW b, NEW w \in Seq(Rounds), NEW f, NEW o, NEW N, PromptsStand(m, b, w, f, o, N), f # 0,
         NEW t \in Seq(Rounds), Written(t) \subseteq {f}, InOrder(t, o), NEW w2, w2 = w \o t
  PROVE  PromptsStand(m, b, w2, 0, o, N)
<1>1. \A n : n \in Written(w2) => n \in Written(w) \/ n = f
  BY JoinedWritten
<1>2. \A k \in Written(w) : k < f
  BY DEF PromptsStand
<1>a. InOrder(w, o) /\ \A k \in Written(w), n \in Written(t) : k < n \/ (n \in o /\ n # k)
  BY <1>2 DEF PromptsStand
<1>3. InOrder(w2, o)
  BY <1>a, JoinedInOrder
<1> QED
  BY <1>1, <1>3 DEF PromptsStand

\* A round that commits the inbox writes the steered prompts in the order they
\* came (turn.go:217-226).
LEMMA CommitStands ==
  ASSUME NEW m, NEW b, NEW w \in Seq(Rounds), NEW o, NEW N, PromptsStand(m, b, w, 0, o, N),
         NEW t \in Seq(Rounds), Written(t) \subseteq Users(b), InOrder(t, o), NEW w2, w2 = w \o t
  PROVE  PromptsStand(m, <<>>, w2, 0, o, N)
<1>1. \A n : n \in Written(w2) => n \in Written(w) \/ n \in Users(b)
  BY JoinedWritten
<1>2. \A k \in Written(w), n \in Written(t) : k < n \/ (n \in o /\ n # k)
  BY DEF PromptsStand
<1>3. InOrder(w2, o)
  BY <1>2, JoinedInOrder DEF PromptsStand
<1>4. Users(<<>>) = {} /\ RisingIn(<<>>, "user")
  BY DEF Users, RisingIn
<1> QED
  BY <1>1, <1>3, <1>4 DEF PromptsStand

-----------------------------------------------------------------------------
(* How a step moves the prompts.                                           *)

HeldKinds == \A i \in DOMAIN held : held[i].kind \in {"resume", "close"}
FirstAt   == first # 0 => pc = "begin"

HeldMove ==
  \/ Within(held', held)
  \/ \E w \in Wake : w.kind \in {"resume", "close"} /\ held' = Append(held, w)
FirstMove == first' # 0 => pc' = "begin"

InboxFewer  == inbox' = inbox \/ inbox' = <<>> \/ \E n \in Nat : inbox' = Append(inbox, W("job", n))
WindowReply == window' = window \/ \E r \in {CommittedRound, ReplyRound} : window' = Append(window, r)

\* A step may drop prompts when a Commit fails, when a cancel came, or when
\* the session's work has no inbox.
MayLose ==
  \/ "commit" \in session.faults \/ session.role = "worker" \/ cancelled
  \/ \E i \in DOMAIN mail : mail[i].kind = "cancel"
Loses ==
  MayLose \/ /\ \A n : In(W("prompt", n), mail) => In(W("prompt", n), mail')
             /\ inbox' = inbox \/ \E n \in Nat : inbox' = Append(inbox, W("job", n))
             /\ first' = first

Settles ==
  /\ Within(mail', mail) /\ InboxFewer /\ WindowReply /\ Loses
  /\ (first' = first \/ first' = 0) /\ UNCHANGED <<overtaken, sent>>
Adds ==
  /\ \E x \in Wake : /\ x.kind # "prompt" /\ mail' = Append(mail, x)
                     /\ x.kind = "job" => x.n \in Calls
                     /\ sent'.cancel = 0 => x.kind # "cancel" /\ sent.cancel = 0
  /\ UNCHANGED <<inbox, window, first, overtaken>> /\ sent'.prompt = sent.prompt
Sends ==
  /\ mail' = Append(mail, W("prompt", sent.prompt + 1)) /\ sent'.prompt = sent.prompt + 1
  /\ sent'.cancel = sent.cancel /\ UNCHANGED <<inbox, window, first, overtaken>>
TakesPrompt ==
  /\ mail # <<>> /\ Head(mail).kind = "prompt" /\ mail' = Tail(mail)
  /\ first = 0 /\ UNCHANGED <<window, sent>>
Steers ==
  /\ TakesPrompt /\ inbox' = Append(inbox, W("user", Head(mail).n))
  /\ first' = 0 /\ UNCHANGED overtaken
Begins ==
  /\ TakesPrompt /\ first' = Head(mail).n /\ UNCHANGED inbox
  /\ overtaken' = overtaken \union {n \in 1..sent.prompt : \E i \in DOMAIN inbox : inbox[i] = W("user", n)}
Writes ==
  /\ first # 0 /\ first' = 0
  /\ window' = window \o Past \o <<UserRound(W("user", first))>>
  /\ UNCHANGED <<mail, inbox, overtaken, sent>>
Commits ==
  /\ first = 0 /\ first' = 0 /\ inbox' = <<>>
  /\ window' = window \o UserRounds(inbox)
  /\ UNCHANGED <<mail, overtaken, sent>>

Moves == Settles \/ Adds \/ Sends \/ Steers \/ Begins \/ Writes \/ Commits

\* What settles every step that leaves the mailbox, the inbox and the window.
LEMMA Unmoved ==
  UNCHANGED <<mail, held, inbox, window, overtaken, sent, first>> /\ (first = 0 \/ pc' = pc) /\ FirstAt
    => HeldMove /\ FirstMove /\ Settles
  BY WithinSelf DEF HeldMove, FirstMove, FirstAt, Settles, InboxFewer, WindowReply, Loses

\* Taking the first wake of a mailbox keeps all others.
LEMMA HeadTaken ==
  ASSUME NEW m \in Seq(Wake), m # <<>>
  PROVE  /\ Head(m) \in Wake /\ Tail(m) \in Seq(Wake) /\ Within(Tail(m), m)
         /\ \E i \in DOMAIN m : m[i] = Head(m)
         /\ \A x : In(x, m) => x = Head(m) \/ In(x, Tail(m))
<1>1. /\ \A x : In(x, m) <=> x = Head(m) \/ In(x, Tail(m))
      /\ Head(m) \in Wake /\ Head(m) = m[1] /\ 1 \in DOMAIN m
  BY TailElements
<1> QED
  BY <1>1, WithinTail

\* Taking a wake that is no prompt leaves every prompt in the mailbox.
LEMMA PromptsStay ==
  ASSUME TypeOK, NEW kind, kind # "prompt", TakeNext(kind)
  PROVE  \A n : In(W("prompt", n), mail) => In(W("prompt", n), mail')
<1>1. NextWake.kind # "prompt" /\ \A n : W("prompt", n).kind = "prompt"
  BY DEF TakeNext, W
<1>2. CASE mail' = mail
  BY <1>2
<1>3. CASE mail # <<>> /\ NextWake = Head(mail) /\ mail' = Tail(mail)
  <2>1. \A x : In(x, mail) => x = Head(mail) \/ In(x, mail')
    BY <1>3, HeadTaken DEF TypeOK
  <2> QED
    BY <1>1, <1>3, <2>1
<1> QED
  BY <1>2, <1>3, WakeTaken

\* The cancel a session takes is in the mailbox.
LEMMA CancelHead ==
  ASSUME TypeOK, HeldKinds, TakeNext("cancel")
  PROVE  \E i \in DOMAIN mail : mail[i].kind = "cancel"
<1>1. NextWake.kind = "cancel"
  BY DEF TakeNext
<1>2. held # <<>> => NextWake # Head(held)
  <2>1. held # <<>> => \E i \in DOMAIN held : held[i] = Head(held)
    BY HeadTaken DEF TypeOK
  <2> QED
    BY <1>1, <2>1 DEF HeldKinds
<1>3. mail # <<>> /\ NextWake = Head(mail)
  BY <1>2, WakeTaken
<1>4. \E i \in DOMAIN mail : mail[i] = Head(mail)
  BY <1>3, HeadTaken DEF TypeOK
<1> QED
  BY <1>1, <1>3, <1>4

\* Every step makes one of the moves a prompt can make, and moves prompts
\* nowhere else.
LEMMA PromptMove ==
  ASSUME IInv, Flags, Others, HeldKinds, FirstAt, [Next]_vars
  PROVE  HeldMove /\ FirstMove /\ Moves
<1>0. TypeOK
  BY TypesOK
<1>h. HeldKinds
  OBVIOUS
<1> USE DEF Moves, FirstAt, flags, locals, data, job, rest, count
<1>1. CASE BeginPrompt
  <2>1. CASE window' = window \o Past \o <<UserRound(W("user", first))>> /\ Goto("top") /\ first' = 0
    <3>1. Writes
      BY <1>1, <2>1 DEF BeginPrompt, Writes
    <3>2. held' = held
      BY <1>1 DEF BeginPrompt
    <3> QED
      BY <2>1, <3>1, <3>2, WithinSelf DEF HeldMove, FirstMove
  <2>2. CASE CommitFails
    <3>1. UNCHANGED <<mail, held, inbox, window, overtaken, sent>> /\ first' = 0 /\ MayLose
      BY <1>1, <2>2 DEF BeginPrompt, CommitFails, Fail, Return, MayLose
    <3> QED
      BY <3>1, WithinSelf DEF HeldMove, FirstMove, Settles, InboxFewer, WindowReply, Loses
  <2> QED
    BY <1>1, <2>1, <2>2 DEF BeginPrompt
<1>2. CASE BeginResume
  <2>1. UNCHANGED <<mail, held, inbox, window, overtaken, sent, first>> /\ (first = 0 \/ pc' = pc)
    BY <1>2 DEF BeginResume, Goto, Fail, Return
  <2> QED
    BY <2>1, Unmoved
<1>3. CASE CommitRound
  <2>1. UNCHANGED <<mail, held, inbox, overtaken, sent, first>> /\ first' = 0
    BY <1>3 DEF CommitRound, CommitFails, Fail, Return
  <2>2. WindowReply
    BY <1>3 DEF CommitRound, CommitFails, WindowReply
  <2> QED
    BY <2>1, <2>2, WithinSelf DEF HeldMove, FirstMove, Settles, InboxFewer, Loses
<1>4. CASE RefuseAnswer
  <2>1. UNCHANGED <<mail, held, inbox, window, overtaken, sent, first>> /\ (first = 0 \/ pc' = pc)
    BY <1>4 DEF RefuseAnswer, Fail, Return
  <2> QED
    BY <2>1, Unmoved
<1>5. CASE StartCalls
  <2>1. UNCHANGED <<mail, held, inbox, window, overtaken, sent, first>> /\ (first = 0 \/ pc' = pc)
    BY <1>5 DEF StartCalls, Advance, Goto
  <2> QED
    BY <2>1, Unmoved
<1>6. CASE TakeJobEnds
  <2>1. UNCHANGED <<mail, held, inbox, window, overtaken, sent, first>> /\ (first = 0 \/ pc' = pc)
    BY <1>6 DEF TakeJobEnds, Advance, Goto
  <2> QED
    BY <2>1, Unmoved
<1>7. CASE WaitForJobs
  <2>1. UNCHANGED <<mail, held, inbox, window, overtaken, sent, first>> /\ (first = 0 \/ pc' = pc)
    BY <1>7 DEF WaitForJobs, Advance, Goto
  <2> QED
    BY <2>1, Unmoved
<1>8. CASE Park
  <2>1. UNCHANGED <<mail, held, inbox, window, overtaken, sent, first>> /\ (first = 0 \/ pc' = pc)
    BY <1>8 DEF Park, Return
  <2> QED
    BY <2>1, Unmoved
<1>9. CASE Poll
  <2>1. UNCHANGED <<mail, held, inbox, window, overtaken, sent, first>> /\ (first = 0 \/ pc' = pc)
    BY <1>9 DEF Poll, Goto
  <2> QED
    BY <2>1, Unmoved
<1>10. CASE Tools
  <2>1. UNCHANGED <<mail, held, inbox, window, overtaken, sent, first>> /\ (first = 0 \/ pc' = pc)
    BY <1>10 DEF Tools, Goto, Fail, Return
  <2> QED
    BY <2>1, Unmoved
<1>11. CASE ToolsCancelled
  <2>1. UNCHANGED <<held, window, overtaken, sent>> /\ inbox' = <<>> /\ first' = 0 /\ TakeCancel
    BY <1>11 DEF ToolsCancelled, Return
  <2> QED
    BY <1>0, <2>1, CancelTaken, WithinSelf DEF HeldMove, FirstMove, Settles, InboxFewer,
       WindowReply, Loses, MayLose
<1>12. CASE PumpWake
  <2>1. /\ mail # <<>> /\ mail' = Tail(mail) /\ mail \in Seq(Wake) /\ Head(mail) \in Wake
        /\ Within(mail', mail) /\ UNCHANGED <<window, overtaken, sent>> /\ first = 0 /\ first' = 0
    <3>1. mail # <<>> /\ mail' = Tail(mail) /\ UNCHANGED <<window, overtaken, sent>> /\ first = 0 /\ first' = 0
      BY <1>12 DEF PumpWake
    <3> QED
      BY <3>1, WithinTail DEF Others
  <2>a. \A x : In(x, mail) => x = Head(mail) \/ In(x, mail')
    BY <2>1, HeadTaken
  <2>2. HeldMove
    <3>1. CASE Head(mail).kind \in {"resume", "close"}
      BY <1>12, <2>1, <3>1 DEF PumpWake, HandleRunning, HeldMove
    <3>2. CASE Head(mail).kind \notin {"resume", "close"}
      <4>1. held' = held
        BY <1>12, <3>2 DEF PumpWake, HandleRunning
      <4> QED
        BY <4>1, WithinSelf DEF HeldMove
    <3> QED
      BY <3>1, <3>2
  <2>3. CASE Head(mail).kind = "prompt"
    <3>1. Steers
      BY <1>12, <2>1, <2>3 DEF PumpWake, HandleRunning, Steer, Steers, TakesPrompt
    <3> QED
      BY <2>1, <2>2, <3>1 DEF FirstMove
  <2>4. CASE Head(mail).kind # "prompt"
    <3>1. inbox' = inbox \/ inbox' = Append(inbox, W("job", Head(mail).n))
      BY <1>12, <2>4 DEF PumpWake, HandleRunning, JobEnded
    <3>2. Head(mail).n \in Nat
      BY <2>1 DEF Wake
    <3> QED
      <4>1. Loses
        <5>1. \A n : W("prompt", n) # Head(mail)
          BY <2>4 DEF W
        <5> QED
          BY <2>1, <2>a, <3>1, <3>2, <5>1 DEF Loses
      <4> QED
        BY <2>1, <2>2, <3>1, <3>2, <4>1 DEF FirstMove, Settles, InboxFewer, WindowReply
  <2> QED
    BY <2>3, <2>4
<1>13. CASE PumpSuspend
  <2>1. UNCHANGED <<mail, held, inbox, window, overtaken, sent, first>> /\ (first = 0 \/ pc' = pc)
    BY <1>13 DEF PumpSuspend
  <2> QED
    BY <2>1, Unmoved
<1>14. CASE PumpDone
  <2>1. /\ UNCHANGED <<mail, held, window, overtaken, sent, first>> /\ first' = 0
        /\ (inbox' = <<>> /\ cancelled) \/ inbox' = inbox
    BY <1>14 DEF PumpDone, FailCancelled, Return, Goto
  <2> QED
    BY <2>1, WithinSelf DEF HeldMove, FirstMove, Settles, InboxFewer, WindowReply, Loses, MayLose
<1>15. CASE CommitInbox
  <2>1. CASE window' = window \o UserRounds(inbox) /\ Goto("infer") /\ UNCHANGED locals
    <3>1. Commits /\ held' = held
      BY <1>15, <2>1 DEF CommitInbox, Commits
    <3> QED
      BY <3>1, WithinSelf DEF HeldMove, FirstMove, Commits
  <2>2. CASE CommitFails
    <3>1. UNCHANGED <<mail, held, window, overtaken, sent>> /\ inbox' = <<>> /\ first' = 0 /\ MayLose
      BY <1>15, <2>2 DEF CommitInbox, CommitFails, Fail, Return, MayLose
    <3> QED
      BY <3>1, WithinSelf DEF HeldMove, FirstMove, Settles, InboxFewer, WindowReply, Loses
  <2> QED
    BY <1>15, <2>1, <2>2 DEF CommitInbox
<1>16. CASE CompleteTurn
  <2>1. UNCHANGED <<mail, held, inbox, window, overtaken, sent, first>> /\ (first = 0 \/ pc' = pc)
    BY <1>16 DEF CompleteTurn, Return
  <2> QED
    BY <2>1, Unmoved
<1>17. CASE ContinueTurn
  <2>1. UNCHANGED <<mail, held, inbox, window, overtaken, sent, first>> /\ (first = 0 \/ pc' = pc)
    BY <1>17 DEF ContinueTurn, Goto
  <2> QED
    BY <2>1, Unmoved
<1>18. CASE ReplyCalls
  <2>1. UNCHANGED <<mail, held, inbox, window, overtaken, sent, first>> /\ (first = 0 \/ pc' = pc)
    BY <1>18 DEF ReplyCalls, Goto
  <2> QED
    BY <2>1, Unmoved
<1>19. CASE ReplyDone
  <2>1. UNCHANGED <<mail, held, inbox, overtaken, sent, first>> /\ first' = 0
    BY <1>19 DEF ReplyDone, CommitFails, Fail, Return
  <2>2. WindowReply
    BY <1>19 DEF ReplyDone, CommitFails, WindowReply
  <2> QED
    BY <2>1, <2>2, WithinSelf DEF HeldMove, FirstMove, Settles, InboxFewer, Loses
<1>20. CASE TooLong
  <2>1. UNCHANGED <<mail, held, inbox, window, overtaken, sent, first>> /\ (first = 0 \/ pc' = pc)
    BY <1>20 DEF TooLong, Goto, Fail, Return
  <2> QED
    BY <2>1, Unmoved
<1>21. CASE InferFails
  <2>1. UNCHANGED <<mail, held, inbox, window, overtaken, sent, first>> /\ (first = 0 \/ pc' = pc)
    BY <1>21 DEF InferFails, Fail, Return
  <2> QED
    BY <2>1, Unmoved
<1>22. CASE InferCancelled
  <2>1. UNCHANGED <<held, window, overtaken, sent>> /\ inbox' = <<>> /\ first' = 0 /\ TakeCancel
    BY <1>22 DEF InferCancelled, FailCancelled, Return
  <2> QED
    BY <1>0, <2>1, CancelTaken, WithinSelf DEF HeldMove, FirstMove, Settles, InboxFewer,
       WindowReply, Loses, MayLose
<1>23. CASE IdleJob
  <2>1. NextWake \in Wake /\ Within(mail', mail) /\ Within(held', held)
    BY <1>0, <1>23, WakeTaken DEF IdleJob
  <2>2. NextWake.n \in Nat
    BY <2>1 DEF Wake
  <2>3. inbox' = inbox \/ inbox' = Append(inbox, W("job", NextWake.n))
    BY <1>23 DEF IdleJob, JobEnded
  <2>4. UNCHANGED <<window, overtaken, sent, first>> /\ first' = 0
    BY <1>23 DEF IdleJob, TakeNext, Idle
  <2>5. \A n : In(W("prompt", n), mail) => In(W("prompt", n), mail')
    BY <1>0, <1>23, PromptsStay DEF IdleJob
  <2> QED
    BY <2>1, <2>2, <2>3, <2>4, <2>5 DEF HeldMove, FirstMove, Settles, InboxFewer, WindowReply, Loses
<1>24. CASE IdleCancel
  <2>1. Within(mail', mail) /\ Within(held', held)
    BY <1>0, <1>24, WakeTaken DEF IdleCancel
  <2>2. UNCHANGED <<window, overtaken, sent, first>> /\ inbox' = <<>> /\ first' = 0
    BY <1>24 DEF IdleCancel, TakeNext, Idle
  <2>3. MayLose
    BY <1>0, <1>24, <1>h, CancelHead DEF IdleCancel, MayLose
  <2> QED
    BY <2>1, <2>2, <2>3 DEF HeldMove, FirstMove, Settles, InboxFewer, WindowReply, Loses
<1>25. CASE SteerParked
  <2>1. mail # <<>> /\ NextWake = Head(mail) /\ mail' = Tail(mail) /\ held' = held /\ Head(mail).kind = "prompt"
    <3>1. NextWake.kind = "prompt"
      BY <1>25 DEF SteerParked, TakeNext
    <3>2. held # <<>> => Head(held) = held[1] /\ 1 \in DOMAIN held
      BY TailElements DEF Others
    <3> QED
      BY <1>0, <1>25, <3>1, <3>2, WakeTaken DEF SteerParked, HeldKinds
  <2>2. UNCHANGED <<window, overtaken, sent>> /\ first = 0 /\ first' = 0
    BY <1>25 DEF SteerParked, TakeNext, Idle
  <2>3. inbox' = Append(inbox, W("user", Head(mail).n))
    BY <1>25, <2>1 DEF SteerParked, Steer
  <2> QED
    BY <2>1, <2>2, <2>3, WithinSelf DEF HeldMove, FirstMove, Steers, TakesPrompt
<1>26. CASE IdlePrompt
  <2>1. mail # <<>> /\ NextWake = Head(mail) /\ mail' = Tail(mail) /\ held' = held /\ Head(mail).kind = "prompt"
    <3>1. NextWake.kind = "prompt"
      BY <1>26 DEF IdlePrompt, TakeNext
    <3>2. held # <<>> => Head(held) = held[1] /\ 1 \in DOMAIN held
      BY TailElements DEF Others
    <3> QED
      BY <1>0, <1>26, <3>1, <3>2, WakeTaken DEF IdlePrompt, HeldKinds
  <2>2. UNCHANGED <<window, inbox, sent>> /\ first = 0 /\ first' = Head(mail).n /\ pc' = "begin"
    BY <1>26, <2>1 DEF IdlePrompt, StartTurn, TakeNext, Idle
  <2>3. overtaken' = overtaken \union {n \in 1..sent.prompt : \E i \in DOMAIN inbox : inbox[i] = W("user", n)}
    BY <1>26 DEF IdlePrompt
  <2> QED
    BY <2>1, <2>2, <2>3, WithinSelf DEF HeldMove, FirstMove, Begins, TakesPrompt
<1>27. CASE WorkerPrompt
  <2>1. Within(mail', mail) /\ Within(held', held)
    BY <1>0, <1>27, WakeTaken DEF WorkerPrompt
  <2>2. UNCHANGED <<window, overtaken, sent, first>> /\ inbox' = inbox /\ first' = 0
    BY <1>27 DEF WorkerPrompt, TakeNext, Idle
  <2>3. MayLose
    BY <1>27 DEF WorkerPrompt, MayLose
  <2> QED
    BY <2>1, <2>2, <2>3 DEF HeldMove, FirstMove, Settles, InboxFewer, WindowReply, Loses
<1>28. CASE Work
  <2>1. UNCHANGED <<held, inbox, window, overtaken, sent, first>> /\ first' = 0 /\ (mail' = mail \/ TakeCancel)
    BY <1>28 DEF Work
  <2> QED
    BY <1>0, <2>1, CancelTaken, WithinSelf DEF HeldMove, FirstMove, Settles, InboxFewer,
       WindowReply, Loses, MayLose
<1>29. CASE IdleResume
  <2>1. Within(mail', mail) /\ Within(held', held)
    BY <1>0, <1>29, WakeTaken DEF IdleResume
  <2>2. UNCHANGED <<window, overtaken, sent, first>> /\ inbox' = inbox /\ first' = 0
    BY <1>29 DEF IdleResume, TakeNext, Idle, StartTurn
  <2>3. \A n : In(W("prompt", n), mail) => In(W("prompt", n), mail')
    BY <1>0, <1>29, PromptsStay DEF IdleResume
  <2> QED
    BY <2>1, <2>2, <2>3 DEF HeldMove, FirstMove, Settles, InboxFewer, WindowReply, Loses
<1>30. CASE IdleClose
  <2>1. Within(mail', mail) /\ Within(held', held)
    BY <1>0, <1>30, WakeTaken DEF IdleClose
  <2>2. UNCHANGED <<window, overtaken, sent, first>> /\ inbox' = inbox /\ first' = 0
    BY <1>30 DEF IdleClose, TakeNext, Idle
  <2>3. \A n : In(W("prompt", n), mail) => In(W("prompt", n), mail')
    BY <1>0, <1>30, PromptsStay DEF IdleClose
  <2> QED
    BY <2>1, <2>2, <2>3 DEF HeldMove, FirstMove, Settles, InboxFewer, WindowReply, Loses
<1>31. CASE IdleSuspend
  <2>1. UNCHANGED <<mail, held, inbox, window, overtaken, sent, first>> /\ (first = 0 \/ pc' = pc)
    BY <1>31 DEF IdleSuspend, Idle
  <2> QED
    BY <2>1, Unmoved
<1>32. CASE Restart
  <2>1. UNCHANGED <<mail, held, inbox, window, overtaken, sent, first>> /\ (first = 0 \/ pc' = pc)
    BY <1>32 DEF Restart
  <2> QED
    BY <2>1, Unmoved
<1>33. CASE End
  <2>1. UNCHANGED <<mail, held, inbox, window, overtaken, sent, first>> /\ (first = 0 \/ pc' = pc)
    BY <1>33 DEF End
  <2> QED
    BY <2>1, Unmoved
<1>34. CASE Host
  <2>1. UNCHANGED <<held, inbox, window, overtaken, first, pc>>
    BY <1>34 DEF Host, SendPrompt, SendResume, SendCancel, SendClose, Send
  <2>2. CASE SendPrompt
    <3>1. /\ mail' = Append(mail, W("prompt", sent.prompt + 1)) /\ sent'.prompt = sent.prompt + 1
          /\ sent'.cancel = sent.cancel
      BY <2>2 DEF SendPrompt, Send, Others
    <3> QED
      BY <2>1, <3>1, WithinSelf DEF HeldMove, FirstMove, Sends
  <2>3. CASE SendResume \/ SendCancel \/ SendClose
    <3>1. PICK kind \in {"resume", "cancel", "close"}, n \in Nat : \E bound : Send(kind, n, bound)
      BY <2>3 DEF SendResume, SendCancel, SendClose, IInv, Types, Calls
    <3>2. W(kind, n) \in Wake /\ W(kind, n).kind = kind
      BY DEF W, Wake
    <3>3. mail' = Append(mail, W(kind, n)) /\ sent'.prompt = sent.prompt
      BY <3>1 DEF Send, Others
    <3>4. sent'.cancel = 0 => kind # "cancel" /\ sent.cancel = 0
      <4>1. sent.cancel \in Nat /\ sent'.cancel = (IF kind = "cancel" THEN sent.cancel + 1 ELSE sent.cancel)
        BY <3>1 DEF Send, Others
      <4>2. sent.cancel + 1 # 0
        BY <4>1
      <4> QED
        BY <4>1, <4>2
    <3>5. Adds
      BY <2>1, <3>2, <3>3, <3>4 DEF Adds
    <3> QED
      BY <2>1, <3>5, WithinSelf DEF HeldMove, FirstMove
  <2> QED
    BY <1>34, <2>2, <2>3 DEF Host
<1>35. CASE \E c \in Calls : JobEnds(c) \/ JobEndsAgain(c)
  <2>1. PICK c \in Calls : JobEnds(c) \/ JobEndsAgain(c)
    BY <1>35
  <2>2. W("job", c) \in Wake /\ W("job", c).kind # "prompt" /\ W("job", c).kind # "cancel" /\ W("job", c).n = c
    BY DEF W, Wake, Calls
  <2>3. UNCHANGED <<held, inbox, window, overtaken, sent, first, pc>> /\ (mail' = mail \/ mail' = Append(mail, W("job", c)))
    BY <2>1 DEF JobEnds, JobEndsAgain
  <2>4. CASE mail' = mail
    BY <2>3, <2>4, Unmoved
  <2>5. CASE mail' = Append(mail, W("job", c))
    <3>1. HeldMove /\ FirstMove
      BY <2>3, WithinSelf DEF HeldMove, FirstMove
    <3>2. Adds
      BY <2>2, <2>3, <2>5 DEF Adds
    <3> QED
      BY <3>1, <3>2
  <2> QED
    BY <2>3, <2>4, <2>5
<1>36. CASE UNCHANGED vars
  <2>1. UNCHANGED <<mail, held, inbox, window, overtaken, sent, first, pc>>
    BY <1>36 DEF vars
  <2> QED
    BY <2>1, Unmoved
<1> QED
  BY <1>1, <1>2, <1>3, <1>4, <1>5, <1>6, <1>7, <1>8, <1>9, <1>10, <1>11, <1>12, <1>13, <1>14,
     <1>15, <1>16, <1>17, <1>18, <1>19, <1>20, <1>21, <1>22, <1>23, <1>24, <1>25, <1>26, <1>27,
     <1>28, <1>29, <1>30, <1>31, <1>32, <1>33, <1>34, <1>35, <1>36 DEF Next, Run, Turn

PromptsOK ==
  PromptsStand(mail, inbox, window, first, overtaken, sent.prompt) /\ HeldKinds /\ FirstAt

\* A message or a wake is its kind and its number.
LEMMA MessageIs ==
  /\ \A m \in Message : m = W(m.kind, m.n)
  /\ \A w \in Wake : w = W(w.kind, w.n)
  /\ \A k, n : W(k, n).kind = k /\ W(k, n).n = n
<1>1. \A m \in Message : m = W(m.kind, m.n)
  BY DEF Message, W
<1>2. \A w \in Wake : w = W(w.kind, w.n)
  BY DEF Wake, W
<1>3. \A k, n : W(k, n).kind = k /\ W(k, n).n = n
  BY DEF W
<1> QED
  BY <1>1, <1>2, <1>3

\* An inbox that only loses messages keeps the users' in order.
LEMMA FewerUsers ==
  ASSUME Others, RisingIn(inbox, "user"), InboxFewer
  PROVE  Users(inbox') \subseteq Users(inbox) /\ RisingIn(inbox', "user")
<1>1. PICK b : b = inbox'
  OBVIOUS
<1>2. CASE b = inbox
  BY <1>1, <1>2
<1>3. CASE b = <<>>
  <2>1. Users(<<>>) = {} /\ RisingIn(<<>>, "user")
    BY DEF Users, RisingIn
  <2> QED
    BY <1>1, <1>3, <2>1
<1>4. ASSUME NEW n \in Nat, b = Append(inbox, W("job", n))
      PROVE  Users(b) \subseteq Users(inbox) /\ RisingIn(b, "user")
  <2>1. inbox \in Seq(Message) /\ W("job", n) \in Message /\ W("job", n).kind # "user"
    BY DEF Others, W, Message
  <2>2. Lengthened(inbox, W("job", n), b)
    BY <1>4, <2>1, AppendPrompts
  <2> QED
    BY <2>1, <2>2 DEF Lengthened
<1> QED
  BY <1>1, <1>2, <1>3, <1>4 DEF InboxFewer

\* The window of a step that commits no user message.
Replies(t) == \A i \in DOMAIN t : t[i].msg.kind = "reply"

\* A reply, or a committed round of calls, writes no user's message.
LEMMA NoUser ==
  /\ Written(<<>>) = {} /\ (\A r : r.msg.kind = "reply" => Written(<<r>>) = {} /\ Replies(<<r>>))
  /\ Replies(<<>>)
  /\ CommittedRound.msg.kind = "reply" /\ ReplyRound.msg.kind = "reply"
<1>1. Written(<<>>) = {} /\ \A r : r.msg.kind = "reply" => Written(<<r>>) = {}
  BY DEF Written
<1>3. Replies(<<>>) /\ \A r : r.msg.kind = "reply" => Replies(<<r>>)
  BY DEF Replies
<1>2. CommittedRound.msg.kind = "reply" /\ ReplyRound.msg.kind = "reply"
  BY DEF CommittedRound, ReplyRound, W
<1> QED
  BY <1>1, <1>2, <1>3

\* Nothing written is the empty sequence written.
LEMMA EmptyJoins ==
  ASSUME NEW S, NEW s \in Seq(S)
  PROVE  s = s \o <<>> /\ <<>> \in Seq(S)
  OBVIOUS

\* What a reply writes to the window holds no user's message.
LEMMA ReplyJoins ==
  ASSUME TypeOK, WindowReply
  PROVE  \E t \in Seq(Rounds) : Replies(t) /\ Written(t) = {} /\ window' = window \o t
<1>1. window \in Seq(Rounds) /\ CommittedRound \in Rounds /\ ReplyRound \in Rounds
  BY RoundTypes
<1>2. CASE window' = window
  BY <1>1, <1>2, EmptyJoins, NoUser
<1>3. ASSUME NEW r \in {CommittedRound, ReplyRound}, window' = Append(window, r)
      PROVE  \E t \in Seq(Rounds) : Replies(t) /\ Written(t) = {} /\ window' = window \o t
  <2>1. r \in Rounds /\ Written(<<r>>) = {} /\ Replies(<<r>>)
    BY <1>1, NoUser
  <2>2. <<r>> \in Seq(Rounds) /\ Append(window, r) = window \o <<r>>
    BY <1>1, <2>1
  <2> QED
    BY <1>3, <2>1, <2>2
<1> QED
  BY <1>2, <1>3 DEF WindowReply

\* A session that starts has its prompts in order.
LEMMA InitPrompts == Init => PromptsOK
<1> SUFFICES ASSUME Init PROVE PromptsOK
  OBVIOUS
<1>1. HeldKinds /\ FirstAt
  BY DEF Init, HeldKinds, FirstAt
<1>2. Users(inbox) = {} /\ Written(window) = {} /\ InOrder(window, overtaken) /\ RisingIn(inbox, "user")
  BY DEF Init, Users, Written, InOrder, RisingIn
<1>3. sent.prompt \in Nat /\ RisingIn(mail, "prompt") /\ Numbered(mail, sent.prompt)
  <2>1. CASE mail = <<>>
    <3>1. sent.prompt = 0
      BY <2>1 DEF Init
    <3> QED
      BY <2>1, <3>1 DEF RisingIn, Numbered
  <2>2. CASE mail = <<W("prompt", 1)>>
    <3>1. sent.prompt = 1
      BY <2>2 DEF Init
    <3>2. W("prompt", 1).n = 1
      BY DEF W
    <3> QED
      BY <2>2, <3>1, <3>2 DEF RisingIn, Numbered
  <2> QED
    BY <2>1, <2>2 DEF Init
<1>4. first = 0
  BY DEF Init
<1> QED
  BY <1>1, <1>2, <1>3, <1>4 DEF PromptsOK, PromptsStand

\* A step keeps the prompts in order: one case for each move of PromptMove.
LEMMA StepPrompts ==
  ASSUME IInv, Flags, Others, PromptsOK, [Next]_vars
  PROVE  PromptsOK'
<1>0. TypeOK /\ PromptsStand(mail, inbox, window, first, overtaken, sent.prompt)
  BY TypesOK DEF PromptsOK
<1>1. HeldMove /\ FirstMove /\ Moves
  BY PromptMove DEF PromptsOK
<1>2. HeldKinds'
  <2>1. CASE Within(held', held)
    BY <2>1 DEF PromptsOK, HeldKinds, Within
  <2>2. ASSUME NEW w \in Wake, w.kind \in {"resume", "close"}, held' = Append(held, w) PROVE HeldKinds'
    <3>1. PICK h : h = held'
      OBVIOUS
    <3>2. \A i \in DOMAIN h : (i \in DOMAIN held /\ h[i] = held[i]) \/ h[i] = w
      <4>1. held \in Seq(Wake) /\ h = Append(held, w)
        BY <2>2, <3>1 DEF Others
      <4> QED
        BY <4>1, Appended
    <3> QED
      BY <2>2, <3>1, <3>2 DEF PromptsOK, HeldKinds
  <2> QED
    BY <1>1, <2>1, <2>2 DEF HeldMove
<1>3. FirstAt'
  BY <1>1 DEF FirstMove, FirstAt
<1>4. PICK m, b, w, f, o, N : m = mail' /\ b = inbox' /\ w = window' /\ f = first' /\ o = overtaken' /\ N = sent'.prompt
  OBVIOUS
<1>5. mail \in Seq(Wake) /\ inbox \in Seq(Message) /\ window \in Seq(Rounds) /\ sent.prompt \in Nat /\ first \in Nat
  BY DEF Others
<1>6. CASE Settles
  <2>1. Users(b) \subseteq Users(inbox) /\ RisingIn(b, "user")
    BY <1>0, <1>4, <1>6, FewerUsers DEF Settles, PromptsStand
  <2>2. PICK t \in Seq(Rounds) : Written(t) = {} /\ w = window \o t
    BY <1>0, <1>4, <1>6, ReplyJoins DEF Settles
  <2>3. Within(m, mail) /\ (f = first \/ f = 0) /\ o = overtaken /\ N = sent.prompt
    BY <1>4, <1>6 DEF Settles
  <2>4. PromptsStand(m, b, w, f, overtaken, sent.prompt)
    BY <1>0, <1>5, <2>1, <2>2, <2>3, SettleStands
  <2> QED
    BY <1>2, <1>3, <1>4, <2>3, <2>4 DEF PromptsOK
<1>7. CASE Adds
  <2>1. PICK x \in Wake : x.kind # "prompt" /\ m = Append(mail, x)
    BY <1>4, <1>7 DEF Adds
  <2>2. b = inbox /\ w = window /\ f = first /\ o = overtaken /\ N = sent.prompt
    BY <1>4, <1>7 DEF Adds
  <2>3. PromptsStand(m, inbox, window, first, overtaken, sent.prompt)
    BY <1>0, <1>5, <2>1, AddStands
  <2> QED
    BY <1>2, <1>3, <1>4, <2>2, <2>3 DEF PromptsOK
<1>8. CASE Sends
  <2>1. m = Append(mail, W("prompt", sent.prompt + 1)) /\ N = sent.prompt + 1
    BY <1>4, <1>8 DEF Sends
  <2>2. b = inbox /\ w = window /\ f = first /\ o = overtaken
    BY <1>4, <1>8 DEF Sends
  <2>3. PromptsStand(m, inbox, window, first, overtaken, N)
    BY <1>0, <1>5, <2>1, SendStands
  <2> QED
    BY <1>2, <1>3, <1>4, <2>2, <2>3 DEF PromptsOK
<1>9. CASE Steers
  <2>1. /\ mail # <<>> /\ Head(mail).kind = "prompt" /\ m = Tail(mail) /\ b = Append(inbox, W("user", Head(mail).n))
        /\ w = window /\ first = 0 /\ f = 0 /\ o = overtaken /\ N = sent.prompt
    BY <1>4, <1>9 DEF Steers, TakesPrompt
  <2>2. PromptsStand(mail, inbox, window, 0, overtaken, sent.prompt)
    BY <1>0, <2>1
  <2>3. PromptsStand(m, b, window, 0, overtaken, sent.prompt)
    BY <1>5, <2>1, <2>2, SteerStands
  <2> QED
    BY <1>2, <1>3, <1>4, <2>1, <2>3 DEF PromptsOK
<1>10. CASE Begins
  <2>1. /\ mail # <<>> /\ Head(mail).kind = "prompt" /\ m = Tail(mail) /\ b = inbox
        /\ w = window /\ first = 0 /\ f = Head(mail).n /\ N = sent.prompt
    BY <1>4, <1>10 DEF Begins, TakesPrompt
  <2>2. PromptsStand(mail, inbox, window, 0, overtaken, sent.prompt)
    BY <1>0, <2>1
  <2>3. o = overtaken \union Users(inbox)
    <3>1. \A i \in DOMAIN inbox : inbox[i] \in Message
      BY <1>5
    <3>2. \A n \in Users(inbox) : n \in 1..sent.prompt
      BY <1>0 DEF PromptsStand
    <3>3. \A n : (n \in 1..sent.prompt /\ \E i \in DOMAIN inbox : inbox[i] = W("user", n)) <=> n \in Users(inbox)
      BY <3>1, <3>2, MessageIs DEF Users
    <3>4. o = overtaken \union {n \in 1..sent.prompt : \E i \in DOMAIN inbox : inbox[i] = W("user", n)}
      BY <1>4, <1>10 DEF Begins
    <3> QED
      BY <3>3, <3>4
  <2>4. PromptsStand(m, inbox, window, f, o, sent.prompt)
    BY <1>5, <2>1, <2>2, <2>3, BeginStands
  <2> QED
    BY <1>2, <1>3, <1>4, <2>1, <2>4 DEF PromptsOK
<1>11. CASE Writes
  <2>1. m = mail /\ b = inbox /\ first # 0 /\ f = 0 /\ o = overtaken /\ N = sent.prompt
    BY <1>4, <1>11 DEF Writes
  <2>2. PICK u, t : u = UserRound(W("user", first)) /\ t = Past \o <<u>>
    OBVIOUS
  <2>3. u \in Rounds /\ Past \in Seq(Rounds)
    BY <1>0, <1>5, <2>2, RoundTypes
  <2>4. t \in Seq(Rounds) /\ w = window \o t
    <3>1. w = (window \o Past) \o <<u>>
      BY <1>4, <1>11, <2>2 DEF Writes
    <3>2. <<u>> \in Seq(Rounds) /\ t \in Seq(Rounds)
      BY <2>2, <2>3
    <3>3. (window \o Past) \o <<u>> = window \o (Past \o <<u>>)
      BY <1>5, <2>3, <3>2
    <3> QED
      BY <2>2, <3>1, <3>2, <3>3
  <2>5. Written(t) \subseteq {first} /\ InOrder(t, overtaken)
    <3>1. Written(Past) = {} /\ InOrder(Past, overtaken)
      <4>1. Written(Past) = {}
        BY NoUser DEF Past
      <4> QED
        BY <4>1 DEF InOrder, Written
    <3>2. Written(<<u>>) \subseteq {first} /\ InOrder(<<u>>, overtaken)
      <4>1. u.msg.n = first
        BY <2>2 DEF UserRound, W
      <4> QED
        BY <4>1 DEF Written, InOrder
    <3>3. <<u>> \in Seq(Rounds)
      BY <2>3
    <3>4. \A n : n \in Written(t) <=> n \in Written(Past) \/ n \in Written(<<u>>)
      BY <2>2, <2>3, <3>3, JoinedWritten
    <3>5. \A k \in Written(Past), n \in Written(<<u>>) : k < n \/ (n \in overtaken /\ n # k)
      BY <3>1
    <3>6. InOrder(t, overtaken)
      BY <2>2, <2>3, <3>1, <3>2, <3>3, <3>5, JoinedInOrder
    <3> QED
      BY <3>1, <3>2, <3>4, <3>6
  <2>6. PromptsStand(mail, inbox, w, 0, overtaken, sent.prompt)
    BY <1>0, <1>5, <2>1, <2>4, <2>5, WriteStands
  <2> QED
    BY <1>2, <1>3, <1>4, <2>1, <2>6 DEF PromptsOK
<1>12. CASE Commits
  <2>1. /\ m = mail /\ b = <<>> /\ first = 0 /\ f = 0 /\ o = overtaken /\ N = sent.prompt
        /\ w = window \o UserRounds(inbox)
    BY <1>4, <1>12 DEF Commits
  <2>2. PromptsStand(mail, inbox, window, 0, overtaken, sent.prompt)
    BY <1>0, <2>1
  <2>3. PICK t : t = UserRounds(inbox)
    OBVIOUS
  <2>4. t \in Seq(Rounds) /\ DOMAIN t = DOMAIN inbox /\ \A i \in DOMAIN inbox : t[i].msg = inbox[i]
    BY <1>0, <2>3, RoundTypes DEF UserRounds, UserRound
  <2>5. Written(t) \subseteq Users(inbox)
    BY <2>4 DEF Written, Users
  <2>6. InOrder(t, overtaken)
    BY <2>2, <2>4 DEF PromptsStand, InOrder, RisingIn
  <2>7. PromptsStand(mail, <<>>, w, 0, overtaken, sent.prompt)
    BY <1>5, <2>1, <2>2, <2>3, <2>4, <2>5, <2>6, CommitStands
  <2> QED
    BY <1>2, <1>3, <1>4, <2>1, <2>7 DEF PromptsOK
<1> QED
  BY <1>1, <1>6, <1>7, <1>8, <1>9, <1>10, <1>11, <1>12 DEF Moves

\* The invariant of the prompts gives the first half of PromptsArrive.
LEMMA OrderKept == PromptsOK => PromptsInOrder
  BY DEF PromptsOK, PromptsStand, InOrder, PromptsInOrder

-----------------------------------------------------------------------------
(* Without a cancel, and with every Commit saved, no prompt is lost.       *)

NoCancel == sent.cancel = 0 => ~cancelled /\ \A i \in DOMAIN mail : mail[i].kind # "cancel"

Placed(n) == first = n \/ In(W("prompt", n), mail) \/ n \in Users(inbox) \/ n \in Written(window)

AllPlaced ==
  Reliable /\ sent.cancel = 0 /\ session.role # "worker" => \A n \in 1..sent.prompt : Placed(n)

\* A session has seen a cancel only if one was in its mailbox.
LEMMA CancelSeen ==
  ASSUME IInv, Flags, Others, [Next]_vars, cancelled'
  PROVE  cancelled \/ \E i \in DOMAIN mail : mail[i].kind = "cancel"
<1> USE DEF flags, locals, data, job, rest, count
<1>1. CASE BeginPrompt
  BY <1>1 DEF BeginPrompt, Goto, CommitFails, Fail, Return
<1>2. CASE BeginResume
  BY <1>2 DEF BeginResume, Goto, Fail, Return
<1>3. CASE CommitRound
  BY <1>3 DEF CommitRound, CommitFails, Fail, Return
<1>4. CASE RefuseAnswer
  BY <1>4 DEF RefuseAnswer, Fail, Return
<1>5. CASE StartCalls
  BY <1>5 DEF StartCalls, Advance, Goto
<1>6. CASE TakeJobEnds
  BY <1>6 DEF TakeJobEnds, Advance, Goto
<1>7. CASE WaitForJobs
  BY <1>7 DEF WaitForJobs, Advance, Goto
<1>8. CASE Park
  BY <1>8 DEF Park, Return
<1>9. CASE Poll
  BY <1>9 DEF Poll, Goto
<1>10. CASE Tools
  BY <1>10 DEF Tools, Goto, Fail, Return
<1>11. CASE ToolsCancelled
  BY <1>11 DEF ToolsCancelled, Return
<1>12. CASE PumpWake
  <2>1. mail \in Seq(Wake) /\ mail # <<>> /\ (cancelled \/ Head(mail).kind = "cancel")
    BY <1>12 DEF PumpWake, HandleRunning, Others
  <2>2. \E i \in DOMAIN mail : mail[i] = Head(mail)
    BY <2>1, HeadTaken
  <2> QED
    BY <2>1, <2>2
<1>13. CASE PumpSuspend
  BY <1>13 DEF PumpSuspend
<1>14. CASE PumpDone
  BY <1>14 DEF PumpDone, FailCancelled, Return, Goto
<1>15. CASE CommitInbox
  BY <1>15 DEF CommitInbox, Goto, CommitFails, Fail, Return
<1>16. CASE CompleteTurn
  BY <1>16 DEF CompleteTurn, Return
<1>17. CASE ContinueTurn
  BY <1>17 DEF ContinueTurn, Goto
<1>18. CASE ReplyCalls
  BY <1>18 DEF ReplyCalls, Goto
<1>19. CASE ReplyDone
  BY <1>19 DEF ReplyDone, Goto, CommitFails, Fail, Return
<1>20. CASE TooLong
  BY <1>20 DEF TooLong, Goto, Fail, Return
<1>21. CASE InferFails
  BY <1>21 DEF InferFails, Fail, Return
<1>22. CASE InferCancelled
  BY <1>22 DEF InferCancelled, FailCancelled, Return
<1>23. CASE IdleJob
  BY <1>23 DEF IdleJob, TakeNext, Idle
<1>24. CASE IdleCancel
  BY <1>24 DEF IdleCancel, TakeNext, Idle
<1>25. CASE SteerParked
  BY <1>25 DEF SteerParked, TakeNext, Idle
<1>26. CASE IdlePrompt
  BY <1>26 DEF IdlePrompt, TakeNext, Idle, StartTurn
<1>27. CASE WorkerPrompt
  BY <1>27 DEF WorkerPrompt, TakeNext, Idle
<1>28. CASE Work
  BY <1>28 DEF Work
<1>29. CASE IdleResume
  BY <1>29 DEF IdleResume, TakeNext, Idle, StartTurn
<1>30. CASE IdleClose
  BY <1>30 DEF IdleClose, TakeNext, Idle
<1>31. CASE IdleSuspend
  BY <1>31 DEF IdleSuspend, Idle
<1>32. CASE Restart
  BY <1>32 DEF Restart
<1>33. CASE End
  BY <1>33 DEF End
<1>34. CASE Host
  BY <1>34 DEF Host, SendPrompt, SendResume, SendCancel, SendClose, Send
<1>35. CASE \E c \in Calls : JobEnds(c) \/ JobEndsAgain(c)
  BY <1>35 DEF JobEnds, JobEndsAgain
<1>36. CASE UNCHANGED vars
  BY <1>36 DEF vars
<1> QED
  BY <1>1, <1>2, <1>3, <1>4, <1>5, <1>6, <1>7, <1>8, <1>9, <1>10, <1>11, <1>12, <1>13, <1>14,
     <1>15, <1>16, <1>17, <1>18, <1>19, <1>20, <1>21, <1>22, <1>23, <1>24, <1>25, <1>26, <1>27,
     <1>28, <1>29, <1>30, <1>31, <1>32, <1>33, <1>34, <1>35, <1>36 DEF Next, Run, Turn

\* A session that starts has no cancel and no prompt to place.
LEMMA InitPlaced == Init => NoCancel /\ AllPlaced
<1> SUFFICES ASSUME Init PROVE NoCancel /\ AllPlaced
  OBVIOUS
<1>1. CASE mail = <<>>
  <2>1. sent.prompt = 0 /\ ~cancelled
    BY <1>1 DEF Init
  <2> QED
    BY <1>1, <2>1 DEF NoCancel, AllPlaced
<1>2. CASE mail = <<W("prompt", 1)>>
  <2>1. sent.prompt = 1 /\ ~cancelled
    BY <1>2 DEF Init
  <2>2. In(W("prompt", 1), mail)
    BY <1>2 DEF In
  <2>3. \A n \in 1..sent.prompt : n = 1
    BY <2>1
  <2>4. \A i \in DOMAIN mail : mail[i].kind = "prompt"
    BY <1>2 DEF W
  <2> QED
    BY <2>1, <2>2, <2>3, <2>4 DEF NoCancel, AllPlaced, Placed
<1> QED
  BY <1>1, <1>2 DEF Init

\* A session no cancel was sent to never takes one.
LEMMA StepNoCancel ==
  ASSUME IInv, Flags, Others, PromptsOK, NoCancel, [Next]_vars
  PROVE  NoCancel'
<1> SUFFICES ASSUME sent'.cancel = 0 PROVE ~cancelled' /\ \A i \in DOMAIN mail' : mail'[i].kind # "cancel"
  BY DEF NoCancel
<1>1. Moves
  BY PromptMove DEF PromptsOK
<1>2. mail \in Seq(Wake)
  BY DEF Others
<1>3. PICK m : m = mail'
  OBVIOUS
<1>4. sent.cancel = 0 /\ \A i \in DOMAIN m : (\E k \in DOMAIN mail : m[i] = mail[k]) \/ m[i].kind # "cancel"
  <2>1. CASE Settles
    BY <1>3, <2>1 DEF Settles, Within
  <2>2. CASE Adds
    <3>1. PICK x \in Wake : m = Append(mail, x) /\ x.kind # "cancel" /\ sent.cancel = 0
      BY <1>3, <2>2 DEF Adds
    <3> QED
      BY <1>2, <3>1, Appended
  <2>3. CASE Sends
    <3>1. PICK x : x = W("prompt", sent.prompt + 1)
      OBVIOUS
    <3>2. x \in Wake /\ x.kind # "cancel"
      BY <3>1 DEF W, Wake, Others
    <3>3. m = Append(mail, x) /\ sent.cancel = 0
      BY <1>3, <2>3, <3>1 DEF Sends
    <3> QED
      BY <1>2, <3>2, <3>3, Appended
  <2>4. CASE Steers \/ Begins
    <3>1. m = Tail(mail) /\ mail # <<>> /\ sent.cancel = 0
      BY <1>3, <2>4 DEF Steers, Begins, TakesPrompt
    <3>2. Within(m, mail)
      BY <1>2, <3>1, WithinTail
    <3> QED
      BY <3>1, <3>2 DEF Within
  <2>5. CASE Writes \/ Commits
    <3>1. m = mail /\ sent.cancel = 0
      BY <1>3, <2>5 DEF Writes, Commits
    <3> QED
      BY <3>1
  <2> QED
    BY <1>1, <2>1, <2>2, <2>3, <2>4, <2>5 DEF Moves
<1>5. ~cancelled /\ \A i \in DOMAIN mail : mail[i].kind # "cancel"
  BY <1>4 DEF NoCancel
<1>6. ~cancelled'
  BY <1>5, CancelSeen
<1> QED
  BY <1>3, <1>4, <1>5, <1>6

\* A step loses no prompt that was sent, unless a cancel or a close may drop
\* it.
LEMMA StepPlaced ==
  ASSUME IInv, Flags, Others, PromptsOK, NoCancel, NoCancel', AllPlaced, [Next]_vars
  PROVE  AllPlaced'
<1>s. session' = session
  BY DEF Next, vars
<1> SUFFICES ASSUME Reliable, sent'.cancel = 0, session.role # "worker",
                    NEW n \in 1..sent'.prompt
             PROVE  \/ first' = n \/ In(W("prompt", n), mail')
                    \/ n \in Users(inbox') \/ n \in Written(window')
  BY <1>s DEF AllPlaced, Placed, Reliable
<1>0. TypeOK
  BY TypesOK
<1>1. Moves
  BY PromptMove DEF PromptsOK
<1>2. mail \in Seq(Wake) /\ inbox \in Seq(Message) /\ window \in Seq(Rounds) /\ sent.prompt \in Nat /\ first \in Nat
  BY DEF Others
<1>3. PICK m, b, w, f : m = mail' /\ b = inbox' /\ w = window' /\ f = first'
  OBVIOUS
<1> DEFINE G == f = n \/ In(W("prompt", n), m) \/ n \in Users(b) \/ n \in Written(w)
<1> SUFFICES G
  BY <1>3
<1>4. sent.cancel = 0 /\ n \in 1..sent.prompt => Placed(n)
  BY DEF AllPlaced
<1>5. CASE Settles
  <2>1. sent.cancel = 0 /\ n \in 1..sent.prompt
    BY <1>5 DEF Settles
  <2>2. ~MayLose
    BY <2>1 DEF MayLose, NoCancel, Reliable
  <2>3. /\ \A k : In(W("prompt", k), mail) => In(W("prompt", k), m)
        /\ b = inbox \/ \E k \in Nat : b = Append(inbox, W("job", k))
        /\ f = first
    BY <1>3, <1>5, <2>2 DEF Settles, Loses
  <2>4. PICK t \in Seq(Rounds) : Written(t) = {} /\ w = window \o t
    BY <1>0, <1>3, <1>5, ReplyJoins DEF Settles
  <2>5. \A k : k \in Written(window) => k \in Written(w)
    BY <1>2, <2>4, JoinedWritten
  <2>6. \A k : k \in Users(inbox) => k \in Users(b)
    <3>1. CASE b = inbox
      BY <3>1
    <3>2. ASSUME NEW k \in Nat, b = Append(inbox, W("job", k)) PROVE \A l : l \in Users(inbox) => l \in Users(b)
      <4>1. W("job", k) \in Message
        BY DEF W, Message
      <4>2. \A x : In(x, inbox) => In(x, b)
        BY <1>2, <3>2, <4>1, AppendElements
      <4> QED
        BY <4>2 DEF Users, In
    <3> QED
      BY <2>3, <3>1, <3>2
  <2> QED
    BY <1>4, <2>1, <2>3, <2>5, <2>6 DEF Placed
<1>6. CASE Adds
  <2>1. PICK x \in Wake : m = Append(mail, x)
    BY <1>3, <1>6 DEF Adds
  <2>2. sent.cancel = 0 /\ n \in 1..sent.prompt /\ b = inbox /\ w = window /\ f = first
    BY <1>3, <1>6 DEF Adds
  <2>3. \A y : In(y, mail) => In(y, m)
    BY <1>2, <2>1, AppendElements
  <2> QED
    BY <1>4, <2>2, <2>3 DEF Placed
<1>7. CASE Sends
  <2>1. PICK x : x = W("prompt", sent.prompt + 1)
    OBVIOUS
  <2>2. x \in Wake
    BY <1>2, <2>1 DEF W, Wake
  <2>3. m = Append(mail, x) /\ sent.cancel = 0 /\ b = inbox /\ w = window /\ f = first /\ n \in 1..(sent.prompt + 1)
    BY <1>3, <1>7, <2>1 DEF Sends
  <2>4. \A y : In(y, m) <=> In(y, mail) \/ y = x
    BY <1>2, <2>2, <2>3, AppendElements
  <2>5. n \in 1..sent.prompt \/ n = sent.prompt + 1
    BY <1>2, <2>3
  <2> QED
    BY <1>4, <2>1, <2>3, <2>4, <2>5 DEF Placed
<1>8. CASE Steers \/ Begins
  <2>1. /\ mail # <<>> /\ Head(mail).kind = "prompt" /\ m = Tail(mail) /\ w = window /\ first = 0
        /\ sent.cancel = 0 /\ n \in 1..sent.prompt
    BY <1>3, <1>8 DEF Steers, Begins, TakesPrompt
  <2>2. Head(mail) \in Wake /\ \A x : In(x, mail) => x = Head(mail) \/ In(x, m)
    BY <1>2, <2>1, HeadTaken
  <2>3. n # 0
    BY <2>1
  <2>4. CASE Steers
    <3>1. PICK x : x = W("user", Head(mail).n)
      OBVIOUS
    <3>2. x \in Message /\ x.kind = "user" /\ x.n = Head(mail).n
      BY <2>2, <3>1 DEF W, Message, Wake
    <3>3. b = Append(inbox, x)
      BY <1>3, <2>4, <3>1 DEF Steers
    <3>4. \A y : In(y, b) <=> In(y, inbox) \/ y = x
      BY <1>2, <3>2, <3>3, AppendElements
    <3>5. \A k : k \in Users(inbox) \/ k = Head(mail).n => k \in Users(b)
      BY <3>2, <3>4 DEF Users, In
    <3>6. In(W("prompt", n), mail) => n = Head(mail).n \/ In(W("prompt", n), m)
      BY <2>2, MessageIs
    <3> QED
      BY <1>4, <2>1, <2>3, <3>5, <3>6 DEF Placed
  <2>5. CASE Begins
    <3>1. b = inbox /\ f = Head(mail).n
      BY <1>3, <2>5 DEF Begins
    <3>2. In(W("prompt", n), mail) => n = Head(mail).n \/ In(W("prompt", n), m)
      BY <2>2, MessageIs
    <3> QED
      BY <1>4, <2>1, <2>3, <3>1, <3>2 DEF Placed
  <2> QED
    BY <1>8, <2>4, <2>5
<1>9. CASE Writes
  <2>1. m = mail /\ b = inbox /\ n \in 1..sent.prompt /\ sent.cancel = 0
    BY <1>3, <1>9 DEF Writes
  <2>2. PICK u, t : u = UserRound(W("user", first)) /\ t = window \o Past
    OBVIOUS
  <2>3. u \in Rounds /\ Past \in Seq(Rounds)
    BY <1>0, <1>2, <2>2, RoundTypes
  <2>4. t \in Seq(Rounds) /\ <<u>> \in Seq(Rounds) /\ w = t \o <<u>>
    BY <1>2, <1>3, <1>9, <2>2, <2>3 DEF Writes
  <2>5. \A k : k \in Written(window) => k \in Written(t)
    BY <1>2, <2>2, <2>3, JoinedWritten
  <2>6. \A k : k \in Written(t) \/ k \in Written(<<u>>) => k \in Written(w)
    BY <2>4, JoinedWritten
  <2>7. first \in Written(<<u>>)
    <3>1. u.msg.kind = "user" /\ u.msg.n = first
      BY <2>2 DEF UserRound, W
    <3> QED
      BY <3>1 DEF Written
  <2> QED
    BY <1>4, <2>1, <2>5, <2>6, <2>7 DEF Placed
<1>10. CASE Commits
  <2>1. m = mail /\ first = 0 /\ n \in 1..sent.prompt /\ sent.cancel = 0 /\ w = window \o UserRounds(inbox)
    BY <1>3, <1>10 DEF Commits
  <2>2. PICK t : t = UserRounds(inbox)
    OBVIOUS
  <2>3. t \in Seq(Rounds) /\ DOMAIN t = DOMAIN inbox /\ \A i \in DOMAIN inbox : t[i].msg = inbox[i]
    BY <1>0, <2>2, RoundTypes DEF UserRounds, UserRound
  <2>4. \A k : k \in Written(window) \/ k \in Written(t) => k \in Written(w)
    BY <1>2, <2>1, <2>2, <2>3, JoinedWritten
  <2>5. \A k : k \in Users(inbox) => k \in Written(t)
    BY <2>3 DEF Users, Written
  <2>6. n # 0
    BY <2>1
  <2> QED
    BY <1>4, <2>1, <2>4, <2>5, <2>6 DEF Placed
<1> QED
  BY <1>1, <1>5, <1>6, <1>7, <1>8, <1>9, <1>10 DEF Moves

\* The invariant of the prompts gives PromptsArrive.
LEMMA PromptsArriveOnce == IInv /\ Flags /\ Others /\ PromptsOK /\ AllPlaced => PromptsArrive
<1> SUFFICES ASSUME IInv, Flags, Others, PromptsOK, AllPlaced PROVE PromptsArrive
  OBVIOUS
<1>1. PromptsInOrder
  BY OrderKept
<1>2. inbox \in Seq(Message) /\ window \in Seq(Rounds) /\ sent.prompt \in Nat
  BY DEF Others
<1>3. \A i \in DOMAIN inbox : inbox[i] = W(inbox[i].kind, inbox[i].n) /\ inbox[i].n \in Nat
  <2>1. \A i \in DOMAIN inbox : inbox[i] \in Message
    BY <1>2
  <2>2. \A m \in Message : m.n \in Nat
    BY DEF Message
  <2> QED
    BY <2>1, <2>2, MessageIs
<1>4. \A i \in DOMAIN window : window[i].msg.kind = "user" => window[i].msg = W("user", window[i].msg.n) /\ window[i].msg.n \in Nat
  <2> SUFFICES ASSUME NEW i \in DOMAIN window, window[i].msg.kind = "user"
               PROVE  window[i].msg = W("user", window[i].msg.n) /\ window[i].msg.n \in Nat
    OBVIOUS
  <2>1. window[i].msg \in Message \union {W("reply", 0)}
    <3>1. window[i] \in Rounds
      BY <1>2
    <3> QED
      BY <3>1 DEF Rounds
  <2>2. W("reply", 0).kind = "reply"
    BY DEF W
  <2>3. window[i].msg \in Message
    BY <2>1, <2>2
  <2>4. \A m \in Message : m.n \in Nat
    BY DEF Message
  <2> QED
    BY <2>3, <2>4, MessageIs
<1>5. ASSUME Reliable, sent.cancel = 0, session.role # "worker", NEW n \in 1..sent.prompt PROVE Held(n)
  <2>1. CASE first = n \/ In(W("prompt", n), mail)
    BY <2>1 DEF Held, In
  <2>2. CASE n \in Users(inbox) \/ n \in Written(window)
    <3> DEFINE u == W("user", n)
    <3>0. u.kind = "user" /\ u.n = n
      BY DEF W
    <3>1. Delivered(u) # {}
      <4>1. (\E i \in DOMAIN inbox : inbox[i] = u) \/ (\E i \in DOMAIN window : window[i].msg = u)
        BY <2>2, <1>3, <1>4 DEF Users, Written
      <4>2. ASSUME NEW i \in DOMAIN inbox, inbox[i] = u PROVE <<"inbox", i>> \in Delivered(u)
        BY <4>2 DEF Delivered
      <4>3. ASSUME NEW i \in DOMAIN window, window[i].msg = u PROVE <<"window", i>> \in Delivered(u)
        BY <4>3 DEF Delivered
      <4> QED
        BY <4>1, <4>2, <4>3
    <3>2. ASSUME NEW i \in DOMAIN inbox, NEW j \in DOMAIN inbox, inbox[i] = u, inbox[j] = u PROVE i = j
      <4>1. i \in Nat /\ j \in Nat /\ n \in Nat
        BY <1>2
      <4>2. ~(n < n) /\ (i < j \/ j < i \/ i = j)
        BY <4>1
      <4> QED
        BY <3>0, <3>2, <4>2 DEF PromptsOK, PromptsStand, RisingIn
    <3>3. ASSUME NEW i \in DOMAIN window, NEW j \in DOMAIN window, window[i].msg = u, window[j].msg = u PROVE i = j
      <4>1. i \in Nat /\ j \in Nat /\ n \in Nat
        BY <1>2
      <4>2. ~(n < n) /\ (i < j \/ j < i \/ i = j)
        BY <4>1
      <4> QED
        BY <3>0, <3>3, <4>2 DEF PromptsOK, PromptsStand, InOrder
    <3>4. ASSUME NEW i \in DOMAIN inbox, NEW j \in DOMAIN window, inbox[i] = u, window[j].msg = u PROVE FALSE
      <4>1. n \in Users(inbox) /\ n \in Written(window)
        BY <3>0, <3>4 DEF Users, Written
      <4> QED
        BY <4>1 DEF PromptsOK, PromptsStand
    <3> HIDE DEF u
    <3>5. AtMostOnce(u)
      <4> SUFFICES ASSUME NEW p \in Delivered(u), NEW q \in Delivered(u) PROVE p = q
        BY DEF AtMostOnce
      <4>1. (\E i \in DOMAIN inbox : inbox[i] = u /\ p = <<"inbox", i>>) \/ (\E i \in DOMAIN window : window[i].msg = u /\ p = <<"window", i>>)
        BY DEF Delivered
      <4>2. (\E i \in DOMAIN inbox : inbox[i] = u /\ q = <<"inbox", i>>) \/ (\E i \in DOMAIN window : window[i].msg = u /\ q = <<"window", i>>)
        BY DEF Delivered
      <4> QED
        BY <4>1, <4>2, <3>2, <3>3, <3>4
    <3> QED
      BY <3>1, <3>5 DEF Held, Once, u
  <2> QED
    BY <1>5, <2>1, <2>2 DEF AllPlaced, Placed
<1> QED
  BY <1>1, <1>5 DEF PromptsArrive, PromptsKept

-----------------------------------------------------------------------------
(* How often a message is in an inbox b and a window w.                    *)

ShownIn(x, w)    == \E i \in DOMAIN w : w[i].msg = x
ShownTwice(x, w) == \E i, j \in DOMAIN w : i < j /\ w[i].msg = x /\ w[j].msg = x

Got(x, b, w)      == In(x, b) \/ ShownIn(x, w)
GotTwice(x, b, w) == Twice(x, b) \/ ShownTwice(x, w) \/ (In(x, b) /\ ShownIn(x, w))

\* The places a job's message can be in, counted by the property, are those the
\* invariant speaks of.
LEMMA GotIsDelivered ==
  ASSUME Others, NEW x
  PROVE  /\ Delivered(x) # {} <=> Got(x, inbox, window)
         /\ ~GotTwice(x, inbox, window) => AtMostOnce(x)
<1>1. \A p : p \in Delivered(x) <=> \/ \E i \in DOMAIN inbox : inbox[i] = x /\ p = <<"inbox", i>>
                                    \/ \E i \in DOMAIN window : window[i].msg = x /\ p = <<"window", i>>
  BY DEF Delivered
<1>2. Delivered(x) # {} <=> Got(x, inbox, window)
  <2>1. ASSUME Delivered(x) # {} PROVE Got(x, inbox, window)
    BY <1>1, <2>1 DEF Got, In, ShownIn
  <2>2. ASSUME NEW i \in DOMAIN inbox, inbox[i] = x PROVE <<"inbox", i>> \in Delivered(x)
    BY <2>2 DEF Delivered
  <2>3. ASSUME NEW i \in DOMAIN window, window[i].msg = x PROVE <<"window", i>> \in Delivered(x)
    BY <2>3 DEF Delivered
  <2> QED
    BY <2>1, <2>2, <2>3 DEF Got, In, ShownIn
<1>3. ASSUME ~GotTwice(x, inbox, window) PROVE AtMostOnce(x)
  <2>1. \A i \in DOMAIN inbox, j \in DOMAIN inbox : inbox[i] = x /\ inbox[j] = x => i = j
    <3>1. \A i, j \in DOMAIN inbox : i < j \/ j < i \/ i = j
      BY DEF Others
    <3> QED
      BY <1>3, <3>1 DEF GotTwice, Twice
  <2>2. \A i \in DOMAIN window, j \in DOMAIN window : window[i].msg = x /\ window[j].msg = x => i = j
    <3>1. \A i, j \in DOMAIN window : i < j \/ j < i \/ i = j
      BY DEF Others
    <3> QED
      BY <1>3, <3>1 DEF GotTwice, ShownTwice
  <2>3. \A i \in DOMAIN inbox, j \in DOMAIN window : ~(inbox[i] = x /\ window[j].msg = x)
    BY <1>3 DEF GotTwice, In, ShownIn
  <2> SUFFICES ASSUME NEW p \in Delivered(x), NEW q \in Delivered(x) PROVE p = q
    BY DEF AtMostOnce
  <2>4. (\E i \in DOMAIN inbox : inbox[i] = x /\ p = <<"inbox", i>>) \/ (\E i \in DOMAIN window : window[i].msg = x /\ p = <<"window", i>>)
    BY <1>1
  <2>5. (\E i \in DOMAIN inbox : inbox[i] = x /\ q = <<"inbox", i>>) \/ (\E i \in DOMAIN window : window[i].msg = x /\ q = <<"window", i>>)
    BY <1>1
  <2> QED
    BY <2>1, <2>2, <2>3, <2>4, <2>5
<1> QED
  BY <1>2, <1>3

\* A message is shown twice by a window that grows only if one of the two parts
\* shows it twice, or both show it.
LEMMA JoinedShown ==
  ASSUME NEW s \in Seq(Rounds), NEW t \in Seq(Rounds), NEW w, w = s \o t, NEW x
  PROVE  /\ ShownIn(x, w) <=> ShownIn(x, s) \/ ShownIn(x, t)
         /\ ShownTwice(x, w) => ShownTwice(x, s) \/ ShownTwice(x, t) \/ (ShownIn(x, s) /\ ShownIn(x, t))
<1>1. IsJoined(w, s, t)
  BY Joined
<1>2. ASSUME ShownIn(x, w) PROVE ShownIn(x, s) \/ ShownIn(x, t)
  <2>1. PICK j \in DOMAIN w : w[j].msg = x
    BY <1>2 DEF ShownIn
  <2>2. CASE j \in DOMAIN s
    BY <1>1, <2>1, <2>2 DEF ShownIn, IsJoined
  <2>3. CASE j \notin DOMAIN s
    <3>1. PICK i \in DOMAIN t : j = i + Len(s)
      BY <1>1, <2>3 DEF IsJoined
    <3>2. w[j] = t[i]
      BY <1>1, <3>1 DEF IsJoined
    <3> QED
      BY <2>1, <3>2 DEF ShownIn
  <2> QED
    BY <2>2, <2>3
<1>3. ShownIn(x, s) => ShownIn(x, w)
  BY <1>1 DEF ShownIn, IsJoined
<1>4. ASSUME ShownIn(x, t) PROVE ShownIn(x, w)
  <2>1. PICK i \in DOMAIN t : t[i].msg = x
    BY <1>4 DEF ShownIn
  <2>2. PICK j : j = i + Len(s)
    OBVIOUS
  <2>3. j \in DOMAIN w /\ w[j] = t[i]
    BY <1>1, <2>2 DEF IsJoined
  <2> QED
    BY <2>1, <2>3 DEF ShownIn
<1>5. ASSUME ShownTwice(x, w) PROVE ShownTwice(x, s) \/ ShownTwice(x, t) \/ (ShownIn(x, s) /\ ShownIn(x, t))
  <2>1. PICK i, j \in DOMAIN w : i < j /\ w[i].msg = x /\ w[j].msg = x
    BY <1>5 DEF ShownTwice
  <2>2. \/ i \in DOMAIN s /\ j \in DOMAIN s /\ w[i] = s[i] /\ w[j] = s[j]
        \/ i \in DOMAIN s /\ w[i] = s[i] /\ \E l \in DOMAIN t : w[j] = t[l]
        \/ \E k, l \in DOMAIN t : k < l /\ w[i] = t[k] /\ w[j] = t[l]
    BY <2>1, JoinedPairs
  <2>3. CASE i \in DOMAIN s /\ j \in DOMAIN s /\ w[i] = s[i] /\ w[j] = s[j]
    BY <2>1, <2>3 DEF ShownTwice
  <2>4. CASE i \in DOMAIN s /\ w[i] = s[i] /\ \E l \in DOMAIN t : w[j] = t[l]
    BY <2>1, <2>4 DEF ShownIn
  <2>5. CASE \E k, l \in DOMAIN t : k < l /\ w[i] = t[k] /\ w[j] = t[l]
    BY <2>1, <2>5 DEF ShownTwice
  <2> QED
    BY <2>2, <2>3, <2>4, <2>5
<1> QED
  BY <1>2, <1>3, <1>4, <1>5

\* A step tells the model of a job at most by a message of its own.
LEMMA Telling ==
  ASSUME IInv, Flags, Others, PromptsOK, [Next]_vars, NEW c
  PROVE  LET x == W("job", c) IN
         /\ Got(x, inbox', window') => Got(x, inbox, window) \/ inbox' = Append(inbox, x)
         /\ GotTwice(x, inbox', window') => \/ GotTwice(x, inbox, window)
                                            \/ Got(x, inbox, window) /\ inbox' = Append(inbox, x)
<1>0. TypeOK
  BY TypesOK
<1>1. Moves
  BY PromptMove DEF PromptsOK
<1>2. inbox \in Seq(Message) /\ window \in Seq(Rounds)
  BY DEF Others
<1>3. PICK x, b, w : x = W("job", c) /\ b = inbox' /\ w = window'
  OBVIOUS
<1>4. x.kind = "job" /\ x.n = c
  BY <1>3 DEF W
<1> DEFINE G == /\ Got(x, b, w) => Got(x, inbox, window) \/ b = Append(inbox, x)
                /\ GotTwice(x, b, w) => GotTwice(x, inbox, window) \/ (Got(x, inbox, window) /\ b = Append(inbox, x))
<1> SUFFICES G
  BY <1>3
\* The inbox of a step that commits none of it.
<1>5. ASSUME NEW t \in Seq(Rounds), w = window \o t, ~ShownIn(x, t),
             \/ b = inbox \/ b = <<>> \/ \E y \in Message : b = Append(inbox, y)
      PROVE  G
  <2>1. (ShownIn(x, w) <=> ShownIn(x, window)) /\ (ShownTwice(x, w) => ShownTwice(x, window))
    <3>1. ~ShownTwice(x, t)
      BY <1>5 DEF ShownIn, ShownTwice
    <3> QED
      BY <1>2, <1>5, <3>1, JoinedShown
  <2>2. /\ In(x, b) => In(x, inbox) \/ b = Append(inbox, x)
        /\ Twice(x, b) => Twice(x, inbox) \/ (In(x, inbox) /\ b = Append(inbox, x))
    <3>1. CASE b = inbox
      BY <3>1
    <3>2. CASE b = <<>>
      BY <3>2 DEF In, Twice
    <3>3. ASSUME NEW y \in Message, b = Append(inbox, y)
          PROVE  /\ In(x, b) => In(x, inbox) \/ b = Append(inbox, x)
                 /\ Twice(x, b) => Twice(x, inbox) \/ (In(x, inbox) /\ b = Append(inbox, x))
      <4>1. (In(x, b) <=> In(x, inbox) \/ x = y) /\ (Twice(x, b) <=> Twice(x, inbox) \/ (In(x, inbox) /\ x = y))
        BY <1>2, <3>3, AppendElements, AppendTwice
      <4> QED
        BY <3>3, <4>1
    <3> QED
      BY <1>5, <3>1, <3>2, <3>3
  <2> QED
    BY <2>1, <2>2 DEF Got, GotTwice
<1>6. window = window \o <<>> /\ <<>> \in Seq(Rounds) /\ ~ShownIn(x, <<>>)
  BY <1>2, EmptyJoins DEF ShownIn
<1>7. \A n \in Nat : W("job", n) \in Message /\ W("user", n) \in Message
  BY DEF W, Message
<1>8. CASE Settles
  <2>1. PICK t \in Seq(Rounds) : Replies(t) /\ w = window \o t
    BY <1>0, <1>3, <1>8, ReplyJoins DEF Settles
  <2>2. ~ShownIn(x, t)
    BY <1>4, <2>1 DEF ShownIn, Replies
  <2>3. b = inbox \/ b = <<>> \/ \E y \in Message : b = Append(inbox, y)
    BY <1>3, <1>7, <1>8 DEF Settles, InboxFewer
  <2> QED
    BY <1>5, <2>1, <2>2, <2>3
<1>9. CASE Adds \/ Sends \/ Begins
  <2>1. b = inbox /\ w = window
    BY <1>3, <1>9 DEF Adds, Sends, Begins, TakesPrompt
  <2> QED
    BY <1>6, <2>1, <1>5
<1>10. CASE Steers
  <2>1. w = window /\ mail # <<>> /\ b = Append(inbox, W("user", Head(mail).n))
    BY <1>3, <1>10 DEF Steers, TakesPrompt
  <2>2. Head(mail).n \in Nat
    <3>1. Head(mail) \in Wake
      BY <2>1, HeadTaken DEF Others
    <3> QED
      BY <3>1 DEF Wake
  <2>3. \E y \in Message : b = Append(inbox, y)
    BY <1>7, <2>1, <2>2
  <2> QED
    BY <1>6, <2>1, <2>3, <1>5
<1>11. CASE Writes
  <2>1. PICK u, t : u = UserRound(W("user", first)) /\ t = Past \o <<u>>
    OBVIOUS
  <2>2. u \in Rounds /\ Past \in Seq(Rounds) /\ <<u>> \in Seq(Rounds)
    <3>1. first \in Nat
      BY DEF Others
    <3>2. u \in Rounds /\ Past \in Seq(Rounds)
      BY <1>0, <2>1, <3>1, RoundTypes
    <3> QED
      BY <3>2
  <2>3. t \in Seq(Rounds) /\ w = window \o t /\ b = inbox
    <3>1. w = (window \o Past) \o <<u>> /\ b = inbox
      BY <1>3, <1>11, <2>1 DEF Writes
    <3>2. (window \o Past) \o <<u>> = window \o (Past \o <<u>>)
      BY <1>2, <2>2
    <3> QED
      BY <2>1, <2>2, <3>1, <3>2
  <2>4. ~ShownIn(x, t)
    <3>1. ~ShownIn(x, Past)
      BY <1>4, NoUser DEF Past, ShownIn
    <3>2. ~ShownIn(x, <<u>>)
      <4>1. u.msg.kind = "user"
        BY <2>1 DEF UserRound, W
      <4> QED
        BY <1>4, <4>1 DEF ShownIn
    <3> QED
      BY <2>1, <2>2, <3>1, <3>2, JoinedShown
  <2> QED
    BY <1>5, <2>3, <2>4
<1>12. CASE Commits
  <2>1. b = <<>> /\ w = window \o UserRounds(inbox)
    BY <1>3, <1>12 DEF Commits
  <2>2. PICK t : t = UserRounds(inbox)
    OBVIOUS
  <2>3. t \in Seq(Rounds) /\ DOMAIN t = DOMAIN inbox /\ \A i \in DOMAIN inbox : t[i].msg = inbox[i]
    BY <1>0, <2>2, RoundTypes DEF UserRounds, UserRound
  <2>4. (ShownIn(x, t) <=> In(x, inbox)) /\ (ShownTwice(x, t) <=> Twice(x, inbox))
    BY <2>3 DEF ShownIn, ShownTwice, In, Twice
  <2>5. /\ ShownIn(x, w) <=> ShownIn(x, window) \/ ShownIn(x, t)
        /\ ShownTwice(x, w) => ShownTwice(x, window) \/ ShownTwice(x, t) \/ (ShownIn(x, window) /\ ShownIn(x, t))
    BY <1>2, <2>1, <2>2, <2>3, JoinedShown
  <2>6. ~In(x, b) /\ ~Twice(x, b)
    BY <2>1 DEF In, Twice
  <2> QED
    BY <2>4, <2>5, <2>6 DEF Got, GotTwice
<1> QED
  BY <1>1, <1>8, <1>9, <1>10, <1>11, <1>12 DEF Moves

-----------------------------------------------------------------------------
(* The jobs.                                                               *)

\* A queue that grew differs from the queue it was, and tells which element it
\* grew by.
LEMMA AppendDiffers ==
  ASSUME NEW S, NEW s \in Seq(S), NEW e \in S
  PROVE  /\ Append(s, e) # s /\ Append(s, e) # <<>>
         /\ \A f \in S : Append(s, e) = Append(s, f) => e = f
<1>1. Len(Append(s, e)) = Len(s) + 1 /\ Len(s) \in Nat /\ Len(<<>>) = 0
  OBVIOUS
<1>2. \A f \in S : Append(s, f)[Len(s) + 1] = f
  OBVIOUS
<1> QED
  BY <1>1, <1>2

\* A head that is in the tail too is in the queue twice.
LEMMA TailTwice ==
  ASSUME NEW S, NEW s \in Seq(S), s # <<>>, In(Head(s), Tail(s))
  PROVE  Twice(Head(s), s)
<1>1. PICK i \in DOMAIN Tail(s) : Tail(s)[i] = Head(s)
  BY DEF In
<1>2. (i + 1) \in DOMAIN s /\ s[i + 1] = Head(s) /\ Head(s) = s[1] /\ 1 \in DOMAIN s
  BY <1>1, TailElements
<1>3. 1 < i + 1
  BY <1>1
<1> QED
  BY <1>2, <1>3 DEF Twice

\* What holds of the job of one call: n calls were made; jb and rd are the
\* call's entries in State.Jobs and in the round; its job runs (lv), no call
\* waits on it (bk), it was told to stop (st), it ended (rp) and may be
\* reported again; its wake is in the mailbox once (wk) or twice (w2), and the
\* model was told of it by a message once (td) or twice (t2).
Fits(c, n, jb, rd, lv, bk, st, rp, wk, w2, td, t2) ==
  /\ jb # "none" \/ lv \/ bk \/ st \/ rp \/ wk \/ td => c <= n /\ rd \in {"none", "done", "wait"}
  /\ jb = "bg" => bk /\ rd \in {"none", "done"}
  /\ jb \in {"wait", "ended"} => ~bk
  /\ td => jb = "none" /\ rd \in {"none", "done"} /\ bk
  /\ ~t2
  /\ wk \/ rp => ~lv
  /\ lv => st \/ jb \in {"bg", "wait"}
  /\ rp /\ ~st /\ wk => jb \in {"bg", "wait"}
  /\ rp => ~w2

JobFits(c) ==
  LET x == W("job", c) IN
  Fits(c, ncalls, jobs[c], round[c], c \in live, c \in background, c \in stopping, c \in reported,
       In(x, mail), Twice(x, mail), Got(x, inbox, window), GotTwice(x, inbox, window))

JobsFit == \A c \in Calls : JobFits(c)

\* The calls of a Tools step have no result yet.
RunsFit ==
  /\ pc # "tools" => runs = {}
  /\ \A c \in runs : round[c] \in {"new", "park", "wait"}

\* How a step changes what there is of call c's job.
Quieter(c) ==
  LET x == W("job", c) IN
  /\ In(x, mail') => In(x, mail)
  /\ Twice(x, mail') => Twice(x, mail)
  /\ Got(x, inbox', window') => Got(x, inbox, window)
  /\ GotTwice(x, inbox', window') => GotTwice(x, inbox, window)

SameBut(c) ==
  /\ c \in live' <=> c \in live
  /\ c \in background' <=> c \in background
  /\ c \in reported' <=> c \in reported

Stays(c) ==
  /\ Quieter(c) /\ SameBut(c) /\ ncalls' = ncalls
  /\ jobs'[c] = jobs[c] /\ round'[c] \in {round[c], "none"}
  /\ c \in stopping' <=> c \in stopping
Drops(c) ==
  /\ Quieter(c) /\ SameBut(c) /\ ncalls' = ncalls
  /\ jobs'[c] = "none" /\ round'[c] = round[c]
  /\ jobs[c] \in {"bg", "wait"} => c \in stopping'
  /\ c \in stopping' => c \in stopping \/ jobs[c] # "none"
  /\ c \in stopping => c \in stopping'
Stops(c) ==
  /\ Quieter(c) /\ SameBut(c) /\ ncalls' = ncalls
  /\ jobs'[c] = jobs[c] /\ round'[c] = round[c]
  /\ c \in stopping' => c \in stopping \/ jobs[c] # "none"
  /\ c \in stopping => c \in stopping'
Made(c) ==
  /\ Quieter(c) /\ SameBut(c) /\ ncalls' >= ncalls
  /\ jobs'[c] = jobs[c] /\ (c <= ncalls => round'[c] = "none")
  /\ c \in stopping' <=> c \in stopping
Starts(c) ==
  /\ Quieter(c) /\ ncalls' = ncalls
  /\ round[c] \in {"new", "park"} /\ c \notin reported' /\ c \notin reported /\ c \in live'
  /\ \/ jobs'[c] = "bg" /\ c \in background' /\ (c \in stopping' <=> c \in stopping) /\ round'[c] = "done"
     \/ jobs'[c] = "wait" /\ (c \in background' <=> c \in background) /\ (c \in stopping' <=> c \in stopping) /\ round'[c] = "wait"
     \/ jobs'[c] = "none" /\ c \in stopping' /\ round'[c] \in {"done", "wait"}
RunsOn(c) ==
  /\ Quieter(c) /\ SameBut(c) /\ ncalls' = ncalls
  /\ jobs[c] = "none" /\ jobs'[c] = "none"
  /\ c \in stopping' <=> c \in stopping
  /\ round[c] \in {"new", "park"} \/ (round[c] = "wait" /\ round'[c] \in {"wait", "done"})
Hears(c) ==
  LET x == W("job", c) IN
  /\ SameBut(c) /\ ncalls' = ncalls /\ round'[c] = round[c]
  /\ c \in stopping' <=> c \in stopping
  /\ In(x, mail) /\ (In(x, mail') => Twice(x, mail))
  /\ Twice(x, mail') => Twice(x, mail)
  /\ \/ jobs[c] = "bg" /\ jobs'[c] = "none"
        /\ (GotTwice(x, inbox', window') => GotTwice(x, inbox, window) \/ Got(x, inbox, window))
     \/ /\ \/ jobs[c] = "wait" /\ jobs'[c] = "ended"
           \/ jobs[c] \notin {"bg", "wait"} /\ jobs'[c] = jobs[c]
        /\ Got(x, inbox', window') => Got(x, inbox, window)
        /\ GotTwice(x, inbox', window') => GotTwice(x, inbox, window)
Rings(c) ==
  LET x == W("job", c) IN
  /\ ncalls' = ncalls /\ round'[c] = round[c] /\ jobs'[c] = jobs[c]
  /\ (c \in background' <=> c \in background) /\ (c \in stopping' <=> c \in stopping)
  /\ Got(x, inbox', window') => Got(x, inbox, window)
  /\ GotTwice(x, inbox', window') => GotTwice(x, inbox, window)
  /\ \/ c \in live /\ c \notin live' /\ c \in reported'
        /\ (Twice(x, mail') => In(x, mail)) /\ (pc = "ended" \/ In(x, mail'))
     \/ c \in reported /\ (c \in live' <=> c \in live) /\ c \notin reported' /\ In(x, mail')

JobMove(c) ==
  \/ Stays(c) \/ Drops(c) \/ Stops(c) \/ Made(c) \/ Starts(c) \/ RunsOn(c) \/ Hears(c) \/ Rings(c)

\* Each move a job can make keeps the job's place in the session's books.
LEMMA MoveFits ==
  ASSUME IInv, Others, NEW c \in Calls, JobFits(c), JobMove(c),
         NEW n, n = ncalls', n \in Nat
  PROVE  JobFits(c)'
<1>1. c \in Nat /\ ncalls \in Nat /\ (c > ncalls => round[c] = "none")
  BY DEF Calls, Others, IInv, Unmade
<1> USE <1>1 DEF JobFits, Fits
<1>2. CASE Stays(c)
  BY <1>2 DEF Stays, Quieter, SameBut
<1>3. CASE Drops(c)
  BY <1>3 DEF Drops, Quieter, SameBut
<1>4. CASE Stops(c)
  BY <1>4 DEF Stops, Quieter, SameBut
<1>5. CASE Made(c)
  BY <1>5 DEF Made, Quieter, SameBut
<1>6. CASE Starts(c)
  BY <1>6 DEF Starts, Quieter
<1>7. CASE RunsOn(c)
  BY <1>7 DEF RunsOn, Quieter, SameBut
<1>8. CASE Hears(c)
  BY <1>8 DEF Hears, SameBut
<1>9. CASE Rings(c)
  BY <1>9 DEF Rings
<1> QED
  BY <1>2, <1>3, <1>4, <1>5, <1>6, <1>7, <1>8, <1>9 DEF JobMove

\* A step that puts no wake and no message of call c's job anywhere.
Calm(c) ==
  LET x == W("job", c) IN
  /\ Within(mail', mail) \/ \E y \in Wake : y # x /\ mail' = Append(mail, y)
  /\ inbox' = inbox \/ inbox' = <<>> \/ \E y \in Message : y # x /\ inbox' = Append(inbox, y)

\* A step that adds no message of a job to the inbox delivers none of it.
LEMMA Unheard ==
  ASSUME IInv, Flags, Others, PromptsOK, [Next]_vars, NEW c \in Calls,
         inbox' = inbox \/ inbox' = <<>> \/ \E y \in Message : y # W("job", c) /\ inbox' = Append(inbox, y)
  PROVE  LET x == W("job", c) IN
         /\ Got(x, inbox', window') => Got(x, inbox, window)
         /\ GotTwice(x, inbox', window') => GotTwice(x, inbox, window)
<1>1. PICK x, b : x = W("job", c) /\ b = inbox'
  OBVIOUS
<1>2. inbox \in Seq(Message) /\ x \in Message
  BY <1>1 DEF Others, W, Message, Calls
<1>3. b # Append(inbox, x)
  BY <1>1, <1>2, AppendDiffers
<1> QED
  BY <1>1, <1>3, Telling

\* A step leaves a job nothing happens to where it was.
LEMMA Quieted ==
  ASSUME IInv, Flags, Others, PromptsOK, [Next]_vars, NEW c \in Calls, Calm(c)
  PROVE  Quieter(c)
<1>1. PICK x, m : x = W("job", c) /\ m = mail'
  OBVIOUS
<1>2. mail \in Seq(Wake)
  BY DEF Others
<1>3. (In(x, m) => In(x, mail)) /\ (Twice(x, m) => Twice(x, mail))
  <2>1. CASE Within(m, mail)
    BY <2>1, WithinElements
  <2>2. ASSUME NEW y \in Wake, y # x, m = Append(mail, y)
        PROVE  (In(x, m) => In(x, mail)) /\ (Twice(x, m) => Twice(x, mail))
    <3>1. (In(x, m) <=> In(x, mail) \/ x = y) /\ (Twice(x, m) <=> Twice(x, mail) \/ (In(x, mail) /\ x = y))
      BY <1>2, <2>2, AppendElements, AppendTwice
    <3> QED
      BY <2>2, <3>1
  <2> QED
    BY <1>1, <2>1, <2>2 DEF Calm
<1> QED
  BY <1>1, <1>3, Unheard DEF Calm, Quieter

\* Taking the wake of a job's end.
LEMMA JobHeard ==
  ASSUME IInv, Flags, Others, PromptsOK, [Next]_vars, NEW c \in Calls, mail # <<>>, mail' = Tail(mail),
         Head(mail).kind = "job", JobEnded(Head(mail).n),
         UNCHANGED <<round, ncalls, live, background, stopping, reported, window>>
  PROVE  Hears(c) \/ Stays(c)
<1>1. PICK x, m, b, h : x = W("job", c) /\ m = mail' /\ b = inbox' /\ h = Head(mail)
  OBVIOUS
<1>2. mail \in Seq(Wake) /\ inbox \in Seq(Message) /\ h \in Wake /\ h.n \in Nat /\ h = W("job", h.n) /\ x.n = c
  <2>1. mail \in Seq(Wake) /\ inbox \in Seq(Message) /\ h \in Wake
    BY <1>1 DEF Others
  <2>2. h.n \in Nat
    BY <2>1 DEF Wake
  <2> QED
    BY <1>1, <2>1, <2>2, MessageIs
<1>3. Within(m, mail)
  BY <1>1, <1>2, WithinTail
<1>4. jobs \in [Calls -> {"none", "bg", "wait", "ended"}]
  BY DEF IInv, Types
<1>5. CASE h = x
  <2>1. In(x, mail) /\ (In(x, m) => Twice(x, mail)) /\ (Twice(x, m) => Twice(x, mail))
    BY <1>1, <1>2, <1>3, <1>5, TailElements, TailTwice, WithinElements
  <2>2. h.n = c
    BY <1>2, <1>5
  <2>3. CASE jobs[c] = "bg"
    <3>1. jobs'[c] = "none"
      BY <1>1, <1>4, <2>2, <2>3 DEF JobEnded
    <3>2. GotTwice(x, inbox', window') => GotTwice(x, inbox, window) \/ Got(x, inbox, window)
      BY <1>1, Telling
    <3> QED
      BY <1>1, <2>1, <2>3, <3>1, <3>2 DEF Hears, SameBut
  <2>4. CASE jobs[c] # "bg"
    <3>1. /\ inbox' = inbox
          /\ \/ jobs[c] = "wait" /\ jobs'[c] = "ended"
             \/ jobs[c] \notin {"bg", "wait"} /\ jobs'[c] = jobs[c]
      BY <1>1, <1>4, <2>2, <2>4 DEF JobEnded
    <3>2. /\ Got(x, inbox', window') => Got(x, inbox, window)
          /\ GotTwice(x, inbox', window') => GotTwice(x, inbox, window)
      BY <1>1, <3>1, Unheard
    <3> QED
      BY <1>1, <2>1, <3>1, <3>2 DEF Hears, SameBut
  <2> QED
    BY <2>3, <2>4
<1>6. CASE h # x
  <2>1. h.n # c
    BY <1>1, <1>2, <1>6
  <2>2. jobs'[c] = jobs[c]
    BY <1>1, <1>4, <2>1 DEF JobEnded
  <2>3. inbox' = inbox \/ inbox' = Append(inbox, h)
    BY <1>1, <1>2 DEF JobEnded
  <2>4. h \in Message
    BY <1>2 DEF W, Message
  <2>5. Calm(c)
    BY <1>1, <1>3, <1>6, <2>3, <2>4 DEF Calm
  <2>6. Quieter(c)
    BY <2>5, Quieted
  <2> QED
    BY <2>2, <2>6 DEF Stays, SameBut
<1> QED
  BY <1>5, <1>6

\* A call whose job is to start has no job yet, and does not wait.
LEMMA CanStart ==
  ASSUME NEW c, NEW o \in {"wait", "bg"}, CanEnd(c, o)
  PROVE  round[c] # "wait" /\ c \notin live \union reported
BY DEF CanEnd

\* Every step of the session makes one of the moves of a job, for each call.
LEMMA JobSteps ==
  ASSUME IInv, Flags, Others, PromptsOK, JobsFit, RunsFit, [Next]_vars, NEW c \in Calls
  PROVE  JobMove(c)
<1>0. TypeOK /\ JobFits(c)
  BY TypesOK DEF JobsFit
<1>t. /\ jobs \in [Calls -> {"none", "bg", "wait", "ended"}]
      /\ round \in [Calls -> {"none", "new", "done", "park", "wait"}]
  BY DEF IInv, Types
<1>q. Calm(c) => Quieter(c)
  BY Quieted
<1>w. mail' = mail => Within(mail', mail)
  BY WithinSelf
<1>c. c \in Nat /\ ncalls \in Nat
  BY DEF Calls, Others
<1>x. PICK x : x = W("job", c)
  OBVIOUS
<1> USE DEF flags, locals, data, job, rest, count
<1>1. CASE BeginPrompt
  <2>1. mail' = mail /\ (inbox' = inbox \/ inbox' = <<>>)
    BY <1>1 DEF BeginPrompt, Goto, CommitFails, Fail, Return
  <2>2. Quieter(c)
    BY <1>q, <1>w, <2>1 DEF Calm
  <2>3. UNCHANGED <<jobs, ncalls, live, background, reported, stopping>> /\ (round' = round \/ round' = NoRound)
    BY <1>1 DEF BeginPrompt, Goto, CommitFails, Fail, Return
  <2> QED
    BY <1>t, <2>2, <2>3 DEF JobMove, Stays, SameBut, NoRound
<1>2. CASE BeginResume
  <2>1. mail' = mail /\ (inbox' = inbox \/ inbox' = <<>>)
    BY <1>2 DEF BeginResume, Goto, Fail, Return
  <2>2. Quieter(c)
    BY <1>q, <1>w, <2>1 DEF Calm
  <2>3. UNCHANGED <<jobs, ncalls, live, background, reported, stopping>> /\ (round' = round \/ round' = NoRound)
    BY <1>2 DEF BeginResume, Goto, Fail, Return
  <2> QED
    BY <1>t, <2>2, <2>3 DEF JobMove, Stays, SameBut, NoRound
<1>3. CASE CommitRound
  <2>1. mail' = mail /\ (inbox' = inbox \/ inbox' = <<>>)
    BY <1>3 DEF CommitRound, CommitFails, Fail, Return
  <2>2. Quieter(c)
    BY <1>q, <1>w, <2>1 DEF Calm
  <2>3. UNCHANGED <<jobs, ncalls, live, background, reported, stopping>> /\ (round' = round \/ round' = NoRound)
    BY <1>3 DEF CommitRound, CommitFails, Fail, Return
  <2> QED
    BY <1>t, <2>2, <2>3 DEF JobMove, Stays, SameBut, NoRound
<1>4. CASE RefuseAnswer
  <2>1. mail' = mail /\ (inbox' = inbox \/ inbox' = <<>>)
    BY <1>4 DEF RefuseAnswer, Fail, Return
  <2>2. Quieter(c)
    BY <1>q, <1>w, <2>1 DEF Calm
  <2>3. UNCHANGED <<jobs, ncalls, live, background, reported, stopping>> /\ (round' = round \/ round' = NoRound)
    BY <1>4 DEF RefuseAnswer, Fail, Return
  <2> QED
    BY <1>t, <2>2, <2>3 DEF JobMove, Stays, SameBut, NoRound
<1>5. CASE StartCalls
  <2>1. mail' = mail /\ (inbox' = inbox \/ inbox' = <<>>)
    BY <1>5 DEF StartCalls, Advance, Goto
  <2>2. Quieter(c)
    BY <1>q, <1>w, <2>1 DEF Calm
  <2>3. UNCHANGED <<jobs, ncalls, live, background, reported, stopping>> /\ (round' = round \/ round' = NoRound)
    BY <1>5 DEF StartCalls, Advance, Goto
  <2> QED
    BY <1>t, <2>2, <2>3 DEF JobMove, Stays, SameBut, NoRound
<1>6. CASE TakeJobEnds
  <2>1. mail' = mail /\ inbox' = inbox
    BY <1>6 DEF TakeJobEnds, Advance
  <2>2. Quieter(c)
    BY <1>q, <1>w, <2>1 DEF Calm
  <2>3. /\ UNCHANGED <<ncalls, live, background, reported, stopping, round>>
        /\ jobs'[c] = jobs[c] \/ (jobs[c] = "ended" /\ jobs'[c] = "none")
    BY <1>6 DEF TakeJobEnds, JobRuns, Advance
  <2> QED
    BY <2>2, <2>3 DEF JobMove, Stays, Drops, SameBut
<1>7. CASE WaitForJobs
  <2>1. mail' = mail /\ (inbox' = inbox \/ inbox' = <<>>)
    BY <1>7 DEF WaitForJobs, Advance, Goto
  <2>2. Quieter(c)
    BY <1>q, <1>w, <2>1 DEF Calm
  <2>3. UNCHANGED <<jobs, ncalls, live, background, reported, stopping>> /\ (round' = round \/ round' = NoRound)
    BY <1>7 DEF WaitForJobs, Advance, Goto
  <2> QED
    BY <1>t, <2>2, <2>3 DEF JobMove, Stays, SameBut, NoRound
<1>8. CASE Park
  <2>1. mail' = mail /\ (inbox' = inbox \/ inbox' = <<>>)
    BY <1>8 DEF Park, Return
  <2>2. Quieter(c)
    BY <1>q, <1>w, <2>1 DEF Calm
  <2>3. UNCHANGED <<jobs, ncalls, live, background, reported, stopping>> /\ (round' = round \/ round' = NoRound)
    BY <1>8 DEF Park, Return
  <2> QED
    BY <1>t, <2>2, <2>3 DEF JobMove, Stays, SameBut, NoRound
<1>9. CASE Poll
  <2>1. mail' = mail /\ (inbox' = inbox \/ inbox' = <<>>)
    BY <1>9 DEF Poll, Goto
  <2>2. Quieter(c)
    BY <1>q, <1>w, <2>1 DEF Calm
  <2>3. UNCHANGED <<jobs, ncalls, live, background, reported, stopping>> /\ (round' = round \/ round' = NoRound)
    BY <1>9 DEF Poll, Goto
  <2> QED
    BY <1>t, <2>2, <2>3 DEF JobMove, Stays, SameBut, NoRound
<1>10. CASE Tools
  <2>1. Within(mail', mail) /\ (inbox' = inbox \/ inbox' = <<>>) /\ UNCHANGED <<ncalls, reported>>
    BY <1>10, <1>w DEF Tools
  <2>2. Quieter(c)
    BY <1>q, <2>1 DEF Calm
  <2>3. PICK out \in [runs -> Outcome], killed \in SUBSET Calls :
          /\ RunsEnd(Outcome, out, killed)
          /\ round' = Recorded(out)
          /\ live' = live \union Started(out)
          /\ background' = background \union {d \in runs : out[d] = "bg"}
          /\ stopping' = stopping \union killed
          /\ jobs' = [d \in Calls |-> IF d \in Started(out) THEN out[d] ELSE IF d \in killed THEN "none" ELSE jobs[d]]
    BY <1>10 DEF Tools, StartJobs, Runs
  <2>4. runs \subseteq Calls /\ \A d \in killed : jobs[d] # "none"
    BY <2>3 DEF RunsEnd, IInv, Types
  <2>5. CASE c \notin runs
    <3>1. round'[c] = round[c] /\ (c \in live' <=> c \in live) /\ (c \in background' <=> c \in background) /\ c \notin Started(out)
      BY <2>3, <2>5 DEF Recorded, Started
    <3> QED
      BY <1>t, <2>1, <2>2, <2>3, <2>4, <2>5, <3>1 DEF JobMove, Stays, Drops, SameBut, NoJobs,
         Tracked
  <2>6. CASE c \in runs
    <3>1. jobs[c] = "none" /\ round[c] \in {"new", "park", "wait"} /\ c \notin killed /\ c \notin Tracked
      <4>1. jobs[c] \in {"none", "bg"} /\ pc = "tools"
        BY <1>10, <2>6 DEF Tools, IInv, RunsOK
      <4>2. round[c] \in {"new", "park", "wait"}
        BY <2>6 DEF RunsFit
      <4>3. jobs[c] # "bg"
        BY <1>0, <4>2 DEF JobFits, Fits
      <4> QED
        BY <2>4, <4>1, <4>2, <4>3 DEF Tracked
    <3>2. out[c] \in Outcome /\ CanEnd(c, out[c])
      BY <2>3, <2>6 DEF RunsEnd
    <3>3. CASE out[c] \in {"wait", "bg"}
      <4>1. round[c] \in {"new", "park"} /\ c \notin live \union reported /\ c \in Started(out)
        BY <2>6, <3>1, <3>2, <3>3, CanStart DEF Started
      <4>2. /\ round'[c] = IF out[c] = "bg" THEN "done" ELSE "wait"
            /\ c \in background' <=> c \in background \/ out[c] = "bg"
        BY <2>3, <2>6, <3>3 DEF Recorded
      <4>3. c \in stopping' <=> c \in stopping
        BY <2>3, <3>1, <4>1
      <4>4. jobs'[c] = out[c]
        BY <2>3, <4>1 DEF NoJobs
      <4> QED
        BY <2>1, <2>2, <2>3, <3>3, <4>1, <4>2, <4>3, <4>4 DEF JobMove, Starts
    <3>4. CASE out[c] \notin {"wait", "bg"}
      <4>1. c \notin Started(out) /\ (c \in live' <=> c \in live) /\ (c \in background' <=> c \in background)
        BY <2>3, <3>4 DEF Started
      <4>2. jobs'[c] = "none" /\ (c \in stopping' <=> c \in stopping)
        BY <2>3, <3>1, <4>1 DEF NoJobs
      <4>3. round[c] = "wait" => round'[c] \in {"wait", "done"}
        BY <2>3, <2>6, <3>2, <3>4 DEF Recorded, CanEnd, Outcome
      <4> QED
        BY <2>1, <2>2, <3>1, <4>1, <4>2, <4>3 DEF JobMove, RunsOn, SameBut
    <3> QED
      BY <3>3, <3>4
  <2> QED
    BY <2>5, <2>6
<1>11. CASE ToolsCancelled
  <2>1. Within(mail', mail) /\ (inbox' = inbox \/ inbox' = <<>>) /\ UNCHANGED <<ncalls, reported>>
    BY <1>0, <1>11, CancelTaken DEF ToolsCancelled
  <2>2. Quieter(c)
    BY <1>q, <2>1 DEF Calm
  <2>3. PICK out \in [runs -> Outcome], killed \in SUBSET Calls :
          /\ RunsEnd(Outcome, out, killed)
          /\ round' = Recorded(out)
          /\ live' = live \union Started(out)
          /\ background' = background \union {d \in runs : out[d] = "bg"}
          /\ stopping' = stopping \union Tracked \union Started(out) \union killed
          /\ jobs' = NoJobs
    BY <1>11 DEF ToolsCancelled, Runs
  <2>4. runs \subseteq Calls /\ \A d \in killed : jobs[d] # "none"
    BY <2>3 DEF RunsEnd, IInv, Types
  <2>5. CASE c \notin runs
    <3>1. round'[c] = round[c] /\ (c \in live' <=> c \in live) /\ (c \in background' <=> c \in background) /\ c \notin Started(out)
      BY <2>3, <2>5 DEF Recorded, Started
    <3> QED
      BY <1>t, <2>1, <2>2, <2>3, <2>4, <2>5, <3>1 DEF JobMove, Stays, Drops, SameBut, NoJobs,
         Tracked
  <2>6. CASE c \in runs
    <3>1. jobs[c] = "none" /\ round[c] \in {"new", "park", "wait"} /\ c \notin killed /\ c \notin Tracked
      <4>1. jobs[c] \in {"none", "bg"} /\ pc = "tools"
        BY <1>11, <2>6 DEF ToolsCancelled, IInv, RunsOK
      <4>2. round[c] \in {"new", "park", "wait"}
        BY <2>6 DEF RunsFit
      <4>3. jobs[c] # "bg"
        BY <1>0, <4>2 DEF JobFits, Fits
      <4> QED
        BY <2>4, <4>1, <4>2, <4>3 DEF Tracked
    <3>2. out[c] \in Outcome /\ CanEnd(c, out[c])
      BY <2>3, <2>6 DEF RunsEnd
    <3>3. CASE out[c] \in {"wait", "bg"}
      <4>1. round[c] \in {"new", "park"} /\ c \notin live \union reported /\ c \in Started(out)
        BY <2>6, <3>1, <3>2, <3>3, CanStart DEF Started
      <4>2. /\ round'[c] = IF out[c] = "bg" THEN "done" ELSE "wait"
            /\ c \in background' <=> c \in background \/ out[c] = "bg"
        BY <2>3, <2>6, <3>3 DEF Recorded
      <4>3. c \in stopping' 
        BY <2>3, <3>1, <4>1
      <4>4. jobs'[c] = "none"
        BY <2>3, <4>1 DEF NoJobs
      <4> QED
        BY <2>1, <2>2, <2>3, <3>3, <4>1, <4>2, <4>3, <4>4 DEF JobMove, Starts
    <3>4. CASE out[c] \notin {"wait", "bg"}
      <4>1. c \notin Started(out) /\ (c \in live' <=> c \in live) /\ (c \in background' <=> c \in background)
        BY <2>3, <3>4 DEF Started
      <4>2. jobs'[c] = "none" /\ (c \in stopping' <=> c \in stopping)
        BY <2>3, <3>1, <4>1 DEF NoJobs
      <4>3. round[c] = "wait" => round'[c] \in {"wait", "done"}
        BY <2>3, <2>6, <3>2, <3>4 DEF Recorded, CanEnd, Outcome
      <4> QED
        BY <2>1, <2>2, <3>1, <4>1, <4>2, <4>3 DEF JobMove, RunsOn, SameBut
    <3> QED
      BY <3>3, <3>4
  <2> QED
    BY <2>5, <2>6
<1>12. CASE PumpWake
  <2>1. mail # <<>> /\ mail' = Tail(mail) /\ UNCHANGED <<round, ncalls, live, background, stopping, reported, window>>
    BY <1>12 DEF PumpWake
  <2>2. Within(mail', mail) /\ Head(mail) \in Wake
    BY <1>0, <2>1, HeadTaken DEF TypeOK
  <2>3. CASE Head(mail).kind = "job"
    <3>1. JobEnded(Head(mail).n)
      BY <1>12, <2>3 DEF PumpWake, HandleRunning
    <3> QED
      BY <2>1, <2>3, <3>1, JobHeard DEF JobMove
  <2>4. CASE Head(mail).kind # "job"
    <3>1. jobs' = jobs /\ (inbox' = inbox \/ inbox' = Append(inbox, W("user", Head(mail).n)))
      BY <1>12, <2>4 DEF PumpWake, HandleRunning, Steer
    <3>2. PICK y : y = W("user", Head(mail).n)
      OBVIOUS
    <3>3. y \in Message /\ y # W("job", c)
      <4>1. Head(mail).n \in Nat
        BY <2>2 DEF Wake
      <4> QED
        BY <3>2, <4>1 DEF W, Message
    <3>4. Quieter(c)
      BY <1>q, <2>2, <3>1, <3>2, <3>3 DEF Calm
    <3> QED
      BY <2>1, <3>1, <3>4 DEF JobMove, Stays, SameBut
  <2> QED
    BY <2>3, <2>4
<1>13. CASE PumpSuspend
  <2>1. mail' = mail /\ (inbox' = inbox \/ inbox' = <<>>)
    BY <1>13 DEF PumpSuspend
  <2>2. Quieter(c)
    BY <1>q, <1>w, <2>1 DEF Calm
  <2>3. UNCHANGED <<jobs, ncalls, live, background, reported, stopping>> /\ (round' = round \/ round' = NoRound)
    BY <1>13 DEF PumpSuspend
  <2> QED
    BY <1>t, <2>2, <2>3 DEF JobMove, Stays, SameBut, NoRound
<1>14. CASE PumpDone
  <2>1. mail' = mail /\ (inbox' = inbox \/ inbox' = <<>>)
    BY <1>14 DEF PumpDone, FailCancelled
  <2>2. Quieter(c)
    BY <1>q, <1>w, <2>1 DEF Calm
  <2>3. UNCHANGED <<ncalls, round>>
    BY <1>14 DEF PumpDone
  <2>4. CASE UNCHANGED job
    BY <2>2, <2>3, <2>4 DEF JobMove, Stays, SameBut
  <2>5. CASE CancelJobs
    BY <1>t, <2>2, <2>3, <2>5 DEF CancelJobs, JobMove, Drops, SameBut, Tracked, NoJobs
  <2> QED
    BY <1>14, <2>4, <2>5 DEF PumpDone, FailCancelled
<1>15. CASE CommitInbox
  <2>1. mail' = mail /\ (inbox' = inbox \/ inbox' = <<>>)
    BY <1>15 DEF CommitInbox, Goto, CommitFails, Fail, Return
  <2>2. Quieter(c)
    BY <1>q, <1>w, <2>1 DEF Calm
  <2>3. UNCHANGED <<jobs, ncalls, live, background, reported, stopping>> /\ (round' = round \/ round' = NoRound)
    BY <1>15 DEF CommitInbox, Goto, CommitFails, Fail, Return
  <2> QED
    BY <1>t, <2>2, <2>3 DEF JobMove, Stays, SameBut, NoRound
<1>16. CASE CompleteTurn
  <2>1. mail' = mail /\ (inbox' = inbox \/ inbox' = <<>>)
    BY <1>16 DEF CompleteTurn, Return
  <2>2. Quieter(c)
    BY <1>q, <1>w, <2>1 DEF Calm
  <2>3. UNCHANGED <<jobs, ncalls, live, background, reported, stopping>> /\ (round' = round \/ round' = NoRound)
    BY <1>16 DEF CompleteTurn, Return
  <2> QED
    BY <1>t, <2>2, <2>3 DEF JobMove, Stays, SameBut, NoRound
<1>17. CASE ContinueTurn
  <2>1. mail' = mail /\ (inbox' = inbox \/ inbox' = <<>>)
    BY <1>17 DEF ContinueTurn, Goto
  <2>2. Quieter(c)
    BY <1>q, <1>w, <2>1 DEF Calm
  <2>3. UNCHANGED <<jobs, ncalls, live, background, reported, stopping>> /\ (round' = round \/ round' = NoRound)
    BY <1>17 DEF ContinueTurn, Goto
  <2> QED
    BY <1>t, <2>2, <2>3 DEF JobMove, Stays, SameBut, NoRound
<1>18. CASE ReplyCalls
  <2>1. mail' = mail /\ inbox' = inbox
    BY <1>18 DEF ReplyCalls
  <2>2. Quieter(c)
    BY <1>q, <1>w, <2>1 DEF Calm
  <2>3. UNCHANGED <<live, background, reported, stopping, jobs>>
    BY <1>18 DEF ReplyCalls
  <2>4. ncalls' >= ncalls /\ (c <= ncalls => round'[c] = "none")
    <3>1. PICK k \in 1..session.reply :
            /\ round' = [d \in Calls |-> IF d \in (ncalls + 1)..(ncalls + k) THEN "new" ELSE "none"]
            /\ ncalls' = ncalls + k
      BY <1>18 DEF ReplyCalls
    <3>2. k \in Nat
      BY <3>1 DEF Others, Session
    <3> QED
      BY <1>c, <3>1, <3>2
  <2> QED
    BY <2>2, <2>3, <2>4 DEF JobMove, Made, SameBut
<1>19. CASE ReplyDone
  <2>1. mail' = mail /\ (inbox' = inbox \/ inbox' = <<>>)
    BY <1>19 DEF ReplyDone, Goto, CommitFails, Fail, Return
  <2>2. Quieter(c)
    BY <1>q, <1>w, <2>1 DEF Calm
  <2>3. UNCHANGED <<jobs, ncalls, live, background, reported, stopping>> /\ (round' = round \/ round' = NoRound)
    BY <1>19 DEF ReplyDone, Goto, CommitFails, Fail, Return
  <2> QED
    BY <1>t, <2>2, <2>3 DEF JobMove, Stays, SameBut, NoRound
<1>20. CASE TooLong
  <2>1. mail' = mail /\ (inbox' = inbox \/ inbox' = <<>>)
    BY <1>20 DEF TooLong, Goto, Fail, Return
  <2>2. Quieter(c)
    BY <1>q, <1>w, <2>1 DEF Calm
  <2>3. UNCHANGED <<jobs, ncalls, live, background, reported, stopping>> /\ (round' = round \/ round' = NoRound)
    BY <1>20 DEF TooLong, Goto, Fail, Return
  <2> QED
    BY <1>t, <2>2, <2>3 DEF JobMove, Stays, SameBut, NoRound
<1>21. CASE InferFails
  <2>1. mail' = mail /\ (inbox' = inbox \/ inbox' = <<>>)
    BY <1>21 DEF InferFails, Fail, Return
  <2>2. Quieter(c)
    BY <1>q, <1>w, <2>1 DEF Calm
  <2>3. UNCHANGED <<jobs, ncalls, live, background, reported, stopping>> /\ (round' = round \/ round' = NoRound)
    BY <1>21 DEF InferFails, Fail, Return
  <2> QED
    BY <1>t, <2>2, <2>3 DEF JobMove, Stays, SameBut, NoRound
<1>22. CASE InferCancelled
  <2>1. Within(mail', mail) /\ inbox' = <<>>
    BY <1>0, <1>22, CancelTaken DEF InferCancelled, FailCancelled
  <2>2. Quieter(c)
    BY <1>q, <2>1 DEF Calm
  <2>3. UNCHANGED <<ncalls, live, background, reported, round>> /\ jobs' = NoJobs /\ stopping' = stopping \union Tracked
    BY <1>22 DEF InferCancelled, FailCancelled, CancelJobs
  <2> QED
    BY <1>t, <2>2, <2>3 DEF JobMove, Drops, SameBut, Tracked, NoJobs
<1>23. CASE IdleJob
  <2>1. /\ UNCHANGED <<round, ncalls, live, background, stopping, reported, window>>
        /\ NextWake.kind = "job" /\ JobEnded(NextWake.n)
    BY <1>23 DEF IdleJob, TakeNext
  <2>2. held # <<>> => NextWake # Head(held)
    <3>1. held # <<>> => \E i \in DOMAIN held : held[i] = Head(held)
      BY <1>0, HeadTaken DEF TypeOK
    <3> QED
      BY <2>1, <3>1 DEF PromptsOK, HeldKinds
  <2>3. mail # <<>> /\ NextWake = Head(mail) /\ mail' = Tail(mail)
    BY <1>0, <1>23, <2>2, WakeTaken DEF IdleJob
  <2>4. Head(mail).kind = "job" /\ JobEnded(Head(mail).n)
    BY <2>1, <2>3
  <2> QED
    BY <2>1, <2>3, <2>4, JobHeard DEF JobMove
<1>24. CASE IdleCancel
  <2>1. Within(mail', mail) /\ inbox' = <<>>
    BY <1>0, <1>24, WakeTaken DEF IdleCancel
  <2>2. Quieter(c)
    BY <1>q, <2>1 DEF Calm
  <2>3. UNCHANGED <<ncalls, live, background, reported, round>> /\ jobs' = NoJobs /\ stopping' = stopping \union Tracked
    BY <1>24 DEF IdleCancel, CancelJobs
  <2> QED
    BY <1>t, <2>2, <2>3 DEF JobMove, Drops, SameBut, Tracked, NoJobs
<1>25. CASE SteerParked
  <2>1. NextWake \in Wake /\ Within(mail', mail)
    BY <1>0, <1>25, WakeTaken DEF SteerParked
  <2>2. PICK y : y = W("user", NextWake.n)
    OBVIOUS
  <2>3. y \in Message /\ y # W("job", c) /\ inbox' = Append(inbox, y)
    <3>1. NextWake.n \in Nat
      BY <2>1 DEF Wake
    <3>2. y \in Message /\ y # W("job", c)
      BY <2>2, <3>1 DEF W, Message
    <3> QED
      BY <1>25, <2>2, <3>2 DEF SteerParked, Steer
  <2>4. Quieter(c)
    BY <1>q, <2>1, <2>3 DEF Calm
  <2>5. UNCHANGED <<jobs, ncalls, live, background, reported, stopping, round>>
    BY <1>25 DEF SteerParked
  <2> QED
    BY <2>4, <2>5 DEF JobMove, Stays, SameBut
<1>26. CASE IdlePrompt
  <2>1. NextWake \in Wake /\ Within(mail', mail)
    BY <1>0, <1>26, WakeTaken DEF IdlePrompt
  <2>2. inbox' = inbox \/ inbox' = <<>>
    BY <1>26 DEF IdlePrompt, StartTurn
  <2>3. Quieter(c)
    BY <1>q, <2>1, <2>2 DEF Calm
  <2>4. UNCHANGED <<jobs, ncalls, live, background, reported, stopping, round>>
    BY <1>26 DEF IdlePrompt, StartTurn
  <2> QED
    BY <2>3, <2>4 DEF JobMove, Stays, SameBut
<1>27. CASE WorkerPrompt
  <2>1. NextWake \in Wake /\ Within(mail', mail)
    BY <1>0, <1>27, WakeTaken DEF WorkerPrompt
  <2>2. inbox' = inbox \/ inbox' = <<>>
    BY <1>27 DEF WorkerPrompt
  <2>3. Quieter(c)
    BY <1>q, <2>1, <2>2 DEF Calm
  <2>4. UNCHANGED <<jobs, ncalls, live, background, reported, stopping, round>>
    BY <1>27 DEF WorkerPrompt
  <2> QED
    BY <2>3, <2>4 DEF JobMove, Stays, SameBut
<1>28. CASE Work
  <2>1. Within(mail', mail) /\ inbox' = inbox
    BY <1>0, <1>w, <1>28, CancelTaken DEF Work
  <2>2. Quieter(c)
    BY <1>q, <2>1 DEF Calm
  <2>3. UNCHANGED <<jobs, ncalls, live, background, reported, stopping, round>>
    BY <1>28 DEF Work
  <2> QED
    BY <2>2, <2>3 DEF JobMove, Stays, SameBut
<1>29. CASE IdleResume
  <2>1. NextWake \in Wake /\ Within(mail', mail)
    BY <1>0, <1>29, WakeTaken DEF IdleResume
  <2>2. inbox' = inbox \/ inbox' = <<>>
    BY <1>29 DEF IdleResume, StartTurn
  <2>3. Quieter(c)
    BY <1>q, <2>1, <2>2 DEF Calm
  <2>4. UNCHANGED <<jobs, ncalls, live, background, reported, stopping, round>>
    BY <1>29 DEF IdleResume, StartTurn
  <2> QED
    BY <2>3, <2>4 DEF JobMove, Stays, SameBut
<1>30. CASE IdleClose
  <2>1. NextWake \in Wake /\ Within(mail', mail)
    BY <1>0, <1>30, WakeTaken DEF IdleClose
  <2>2. inbox' = inbox \/ inbox' = <<>>
    BY <1>30 DEF IdleClose
  <2>3. Quieter(c)
    BY <1>q, <2>1, <2>2 DEF Calm
  <2>4. UNCHANGED <<jobs, ncalls, live, background, reported, stopping, round>>
    BY <1>30 DEF IdleClose
  <2> QED
    BY <2>3, <2>4 DEF JobMove, Stays, SameBut
<1>31. CASE IdleSuspend
  <2>1. mail' = mail /\ (inbox' = inbox \/ inbox' = <<>>)
    BY <1>31 DEF IdleSuspend, Idle
  <2>2. Quieter(c)
    BY <1>q, <1>w, <2>1 DEF Calm
  <2>3. UNCHANGED <<jobs, ncalls, live, background, reported, stopping>> /\ (round' = round \/ round' = NoRound)
    BY <1>31 DEF IdleSuspend, Idle
  <2> QED
    BY <1>t, <2>2, <2>3 DEF JobMove, Stays, SameBut, NoRound
<1>32. CASE Restart
  <2>1. mail' = mail /\ (inbox' = inbox \/ inbox' = <<>>)
    BY <1>32 DEF Restart
  <2>2. Quieter(c)
    BY <1>q, <1>w, <2>1 DEF Calm
  <2>3. UNCHANGED <<jobs, ncalls, live, background, reported, stopping>> /\ (round' = round \/ round' = NoRound)
    BY <1>32 DEF Restart
  <2> QED
    BY <1>t, <2>2, <2>3 DEF JobMove, Stays, SameBut, NoRound
<1>33. CASE End
  <2>1. mail' = mail /\ inbox' = inbox
    BY <1>33 DEF End
  <2>2. Quieter(c)
    BY <1>q, <1>w, <2>1 DEF Calm
  <2>3. UNCHANGED <<ncalls, live, background, reported, round, jobs>> /\ stopping' = stopping \union Tracked
    BY <1>33 DEF End
  <2> QED
    BY <2>2, <2>3 DEF JobMove, Stops, SameBut, Tracked
<1>34. CASE Host
  <2>1. PICK kind \in {"prompt", "resume", "cancel", "close"}, n \in Nat : \E bound : Send(kind, n, bound)
    BY <1>34 DEF Host, SendPrompt, SendResume, SendCancel, SendClose, Calls, Others, IInv, Types
  <2>2. PICK y : y = W(kind, n)
    OBVIOUS
  <2>3. y \in Wake /\ y # W("job", c)
    BY <2>2 DEF W, Wake
  <2>4. mail' = Append(mail, y) /\ inbox' = inbox /\ UNCHANGED <<jobs, ncalls, live, background, reported, stopping, round>>
    BY <2>1, <2>2 DEF Send
  <2>5. Quieter(c)
    BY <1>q, <2>3, <2>4 DEF Calm
  <2> QED
    BY <2>4, <2>5 DEF JobMove, Stays, SameBut
<1>35. CASE \E d \in Calls : JobEnds(d) \/ JobEndsAgain(d)
  <2>1. PICK d \in Calls : JobEnds(d) \/ JobEndsAgain(d)
    BY <1>35
  <2>2. PICK y, m : y = W("job", d) /\ m = mail'
    OBVIOUS
  <2>3. y \in Wake /\ mail \in Seq(Wake) /\ (y = x <=> d = c)
    BY <1>x, <2>2 DEF W, Wake, Calls, Others
  <2>4. /\ UNCHANGED <<inbox, jobs, ncalls, background, stopping, round, window>>
        /\ m = mail \/ m = Append(mail, y)
    BY <2>1, <2>2 DEF JobEnds, JobEndsAgain
  <2>5. CASE d # c
    <3>1. Quieter(c)
      BY <1>q, <1>w, <1>x, <2>2, <2>3, <2>4, <2>5 DEF Calm
    <3>2. (c \in live' <=> c \in live) /\ (c \in reported' <=> c \in reported)
      BY <2>1, <2>5 DEF JobEnds, JobEndsAgain
    <3> QED
      BY <2>4, <3>1, <3>2 DEF JobMove, Stays, SameBut
  <2>6. CASE d = c
    <3>1. /\ Got(x, inbox', window') => Got(x, inbox, window)
          /\ GotTwice(x, inbox', window') => GotTwice(x, inbox, window)
      BY <1>x, <2>4, Unheard
    <3>2. Twice(x, m) => In(x, mail)
      <4>1. Twice(x, mail) => In(x, mail)
        BY DEF Twice, In
      <4>2. CASE m = mail
        BY <4>1, <4>2
      <4>3. CASE m = Append(mail, y)
        BY <2>3, <4>1, <4>3, AppendTwice
      <4> QED
        BY <2>4, <4>2, <4>3
    <3>3. \/ c \in live /\ c \notin live' /\ c \in reported' /\ (pc = "ended" \/ m = Append(mail, y))
          \/ c \in reported /\ (c \in live' <=> c \in live) /\ c \notin reported' /\ m = Append(mail, y)
      BY <2>1, <2>2, <2>6 DEF JobEnds, JobEndsAgain
    <3>4. m = Append(mail, y) => In(x, m)
      BY <2>3, <2>6, AppendElements
    <3> QED
      BY <1>x, <2>2, <2>4, <3>1, <3>2, <3>3, <3>4 DEF JobMove, Rings
  <2> QED
    BY <2>5, <2>6
<1>36. CASE UNCHANGED vars
  <2>1. UNCHANGED <<mail, inbox, jobs, ncalls, live, background, reported, stopping, round>>
    BY <1>36 DEF vars
  <2>2. Quieter(c)
    BY <1>q, <1>w, <2>1 DEF Calm
  <2> QED
    BY <2>1, <2>2 DEF JobMove, Stays, SameBut
<1> QED
  BY <1>1, <1>2, <1>3, <1>4, <1>5, <1>6, <1>7, <1>8, <1>9, <1>10, <1>11, <1>12, <1>13, <1>14,
     <1>15, <1>16, <1>17, <1>18, <1>19, <1>20, <1>21, <1>22, <1>23, <1>24, <1>25, <1>26, <1>27,
     <1>28, <1>29, <1>30, <1>31, <1>32, <1>33, <1>34, <1>35, <1>36 DEF Next, Run, Turn

\* A step keeps the calls of a Tools step within the round.
LEMMA StepRunsFit ==
  ASSUME IInv, Flags, Others, RunsFit, [Next]_vars
  PROVE  RunsFit'
<1>t. /\ jobs \in [Calls -> {"none", "bg", "wait", "ended"}]
      /\ round \in [Calls -> {"none", "new", "done", "park", "wait"}]
      /\ WaitsForJob
  BY DEF IInv, Types
<1> USE DEF RunsFit, flags, locals, data, job, rest, count
<1>1. CASE BeginPrompt
  BY <1>1 DEF BeginPrompt, Goto, CommitFails, Fail, Return
<1>2. CASE BeginResume
  BY <1>2 DEF BeginResume, Goto, Fail, Return
<1>3. CASE CommitRound
  BY <1>3 DEF CommitRound, CommitFails, Fail, Return
<1>4. CASE RefuseAnswer
  BY <1>4 DEF RefuseAnswer, Fail, Return
<1>5. CASE StartCalls
  <2>1. runs' = NextRuns /\ pc' = "tools" /\ round' = round
    BY <1>5 DEF StartCalls, Advance, Goto
  <2> QED
    BY <2>1 DEF NextRuns, Parked
<1>6. CASE TakeJobEnds
  <2>1. runs' = JobRuns /\ pc' = "tools" /\ round' = round
    BY <1>6 DEF TakeJobEnds, Advance, Goto
  <2> QED
    BY <1>t, <2>1 DEF JobRuns, InRound, WaitsForJob
<1>7. CASE WaitForJobs
  BY <1>7 DEF WaitForJobs, Advance, Goto
<1>8. CASE Park
  BY <1>8 DEF Park, Return
<1>9. CASE Poll
  BY <1>9 DEF Poll, Goto
<1>10. CASE Tools
  BY <1>10 DEF Tools, Goto, Fail, Return
<1>11. CASE ToolsCancelled
  BY <1>11 DEF ToolsCancelled, Return
<1>12. CASE PumpWake
  BY <1>12 DEF PumpWake, HandleRunning
<1>13. CASE PumpSuspend
  BY <1>13 DEF PumpSuspend
<1>14. CASE PumpDone
  BY <1>14 DEF PumpDone, FailCancelled, Return, Goto
<1>15. CASE CommitInbox
  BY <1>15 DEF CommitInbox, Goto, CommitFails, Fail, Return
<1>16. CASE CompleteTurn
  BY <1>16 DEF CompleteTurn, Return
<1>17. CASE ContinueTurn
  BY <1>17 DEF ContinueTurn, Goto
<1>18. CASE ReplyCalls
  BY <1>18 DEF ReplyCalls, Goto
<1>19. CASE ReplyDone
  BY <1>19 DEF ReplyDone, Goto, CommitFails, Fail, Return
<1>20. CASE TooLong
  BY <1>20 DEF TooLong, Goto, Fail, Return
<1>21. CASE InferFails
  BY <1>21 DEF InferFails, Fail, Return
<1>22. CASE InferCancelled
  BY <1>22 DEF InferCancelled, FailCancelled, Return
<1>23. CASE IdleJob
  BY <1>23 DEF IdleJob, TakeNext, Idle
<1>24. CASE IdleCancel
  BY <1>24 DEF IdleCancel, TakeNext, Idle
<1>25. CASE SteerParked
  BY <1>25 DEF SteerParked, TakeNext, Idle
<1>26. CASE IdlePrompt
  BY <1>26 DEF IdlePrompt, TakeNext, Idle, StartTurn
<1>27. CASE WorkerPrompt
  BY <1>27 DEF WorkerPrompt, TakeNext, Idle
<1>28. CASE Work
  BY <1>28 DEF Work
<1>29. CASE IdleResume
  BY <1>29 DEF IdleResume, TakeNext, Idle, StartTurn
<1>30. CASE IdleClose
  BY <1>30 DEF IdleClose, TakeNext, Idle
<1>31. CASE IdleSuspend
  BY <1>31 DEF IdleSuspend, Idle
<1>32. CASE Restart
  BY <1>32 DEF Restart
<1>33. CASE End
  BY <1>33 DEF End
<1>34. CASE Host
  BY <1>34 DEF Host, SendPrompt, SendResume, SendCancel, SendClose, Send
<1>35. CASE \E c \in Calls : JobEnds(c) \/ JobEndsAgain(c)
  BY <1>35 DEF JobEnds, JobEndsAgain
<1>36. CASE UNCHANGED vars
  BY <1>36 DEF vars
<1> QED
  BY <1>1, <1>2, <1>3, <1>4, <1>5, <1>6, <1>7, <1>8, <1>9, <1>10, <1>11, <1>12, <1>13, <1>14,
     <1>15, <1>16, <1>17, <1>18, <1>19, <1>20, <1>21, <1>22, <1>23, <1>24, <1>25, <1>26, <1>27,
     <1>28, <1>29, <1>30, <1>31, <1>32, <1>33, <1>34, <1>35, <1>36 DEF Next, Run, Turn

\* A session that starts has no job.
LEMMA InitJobs == Init => JobsFit /\ RunsFit
<1> SUFFICES ASSUME Init PROVE JobsFit /\ RunsFit
  OBVIOUS
<1>1. RunsFit
  BY DEF Init, RunsFit
<1>2. ASSUME NEW c \in Calls PROVE JobFits(c)
  <2>1. PICK x : x = W("job", c)
    OBVIOUS
  <2>2. ~In(x, mail) /\ ~Twice(x, mail)
    <3>1. mail = <<>> \/ mail = <<W("prompt", 1)>>
      BY DEF Init
    <3>2. W("prompt", 1) # x
      BY <2>1 DEF W
    <3> QED
      BY <3>1, <3>2 DEF In, Twice
  <2>3. inbox = <<>> /\ window = <<>>
    BY DEF Init
  <2>4. ~Got(x, inbox, window) /\ ~GotTwice(x, inbox, window)
    BY <2>3 DEF Got, GotTwice, In, Twice, ShownIn, ShownTwice
  <2>5. jobs[c] = "none" /\ live = {} /\ background = {} /\ stopping = {} /\ reported = {}
    BY <1>2 DEF Init, NoJobs
  <2> QED
    BY <2>1, <2>2, <2>4, <2>5 DEF JobFits, Fits
<1> QED
  BY <1>1, <1>2 DEF JobsFit

\* A step keeps every job's place.
LEMMA StepJobs ==
  ASSUME IInv, Flags, Others, Others', PromptsOK, JobsFit, RunsFit, [Next]_vars
  PROVE  JobsFit'
<1> SUFFICES ASSUME NEW c \in Calls PROVE JobFits(c)'
  BY DEF JobsFit
<1>1. JobFits(c) /\ JobMove(c)
  BY JobSteps DEF JobsFit
<1>2. PICK n : n = ncalls' /\ n \in Nat
  BY DEF Others
<1> QED
  BY <1>1, <1>2, MoveFits

\* The invariant of the jobs gives NoOrphanJob and JobOnce.
LEMMA JobsReachOnce == IInv /\ Flags /\ Others /\ JobsFit => NoOrphanJob /\ JobOnce
<1> SUFFICES ASSUME IInv, Flags, Others, JobsFit PROVE NoOrphanJob /\ JobOnce
  OBVIOUS
<1>1. NoOrphanJob
  BY DEF JobsFit, JobFits, Fits, NoOrphanJob, Tracked, Others
<1>2. ASSUME NEW c \in Calls
      PROVE  /\ AtMostOnce(W("job", c))
             /\ jobs[c] \in {"wait", "ended"} \/ round[c] = "wait" => Delivered(W("job", c)) = {}
  <2>1. PICK x : x = W("job", c)
    OBVIOUS
  <2>2. /\ ~GotTwice(x, inbox, window)
        /\ jobs[c] \in {"wait", "ended"} \/ round[c] = "wait" => ~Got(x, inbox, window)
    BY <2>1 DEF JobsFit, JobFits, Fits
  <2> QED
    BY <2>1, <2>2, GotIsDelivered
<1> QED
  BY <1>1, <1>2 DEF JobOnce

-----------------------------------------------------------------------------
(* What a turn that completes has answered.                                *)

LastReply(w) == w # <<>> /\ w[Len(w)] = ReplyRound

\* The wakes of jobs are of calls.
JobWakes == \A i \in DOMAIN mail : mail[i].kind = "job" => mail[i].n \in Calls

\* A job's wake in the mailbox is the wake of a call.
LEMMA StepJobWakes ==
  ASSUME IInv, Flags, Others, PromptsOK, JobWakes, [Next]_vars
  PROVE  JobWakes'
<1>1. Moves
  BY PromptMove DEF PromptsOK
<1>2. mail \in Seq(Wake)
  BY DEF Others
<1>3. PICK m : m = mail'
  OBVIOUS
<1>4. \A i \in DOMAIN m : (\E k \in DOMAIN mail : m[i] = mail[k]) \/ (m[i].kind = "job" => m[i].n \in Calls)
  <2>1. CASE Settles
    BY <1>3, <2>1 DEF Settles, Within
  <2>2. CASE Adds
    <3>1. PICK x \in Wake : m = Append(mail, x) /\ (x.kind = "job" => x.n \in Calls)
      BY <1>3, <2>2 DEF Adds
    <3> QED
      BY <1>2, <3>1, Appended
  <2>3. CASE Sends
    <3>1. PICK x : x = W("prompt", sent.prompt + 1)
      OBVIOUS
    <3>2. x \in Wake /\ x.kind # "job"
      BY <3>1 DEF W, Wake, Others
    <3>3. m = Append(mail, x)
      BY <1>3, <2>3, <3>1 DEF Sends
    <3> QED
      BY <1>2, <3>2, <3>3, Appended
  <2>4. CASE Steers \/ Begins
    <3>1. m = Tail(mail) /\ mail # <<>>
      BY <1>3, <2>4 DEF Steers, Begins, TakesPrompt
    <3>2. Within(m, mail)
      BY <1>2, <3>1, WithinTail
    <3> QED
      BY <3>1, <3>2 DEF Within
  <2>5. CASE Writes \/ Commits
    BY <1>3, <2>5 DEF Writes, Commits
  <2> QED
    BY <1>1, <2>1, <2>2, <2>3, <2>4, <2>5 DEF Moves
<1> QED
  BY <1>3, <1>4 DEF JobWakes

\* The end of a job that is taken from the mailbox.
LEMMA JobTaken ==
  ASSUME TypeOK, HeldKinds, JobWakes, TakeNext("job")
  PROVE  /\ mail # <<>> /\ NextWake = Head(mail) /\ mail' = Tail(mail)
         /\ NextWake.kind = "job" /\ NextWake.n \in Calls
<1>1. NextWake.kind = "job"
  BY DEF TakeNext
<1>2. held # <<>> => NextWake # Head(held)
  <2>1. held # <<>> => \E i \in DOMAIN held : held[i] = Head(held)
    BY HeadTaken DEF TypeOK
  <2> QED
    BY <1>1, <2>1 DEF HeldKinds
<1>3. mail # <<>> /\ NextWake = Head(mail) /\ mail' = Tail(mail)
  BY <1>2, WakeTaken
<1>4. \E i \in DOMAIN mail : mail[i] = Head(mail)
  BY <1>3, HeadTaken DEF TypeOK
<1> QED
  BY <1>1, <1>3, <1>4 DEF JobWakes

\* A turn whose model is done ends its window with the last reply, and has no
\* open round; the model is asked with an empty inbox and no open round.
Finishes ==
  /\ finished /\ pc \notin {"idle", "ended", "work"} /\ (pc = "suspended" => suspended) =>
       LastReply(window) /\ ~Open /\ pc \notin {"tools", "infer"} /\ first = 0
  /\ pc \in {"poll", "inbox", "infer"} => ~Open
  /\ pc = "infer" => ~finished /\ inbox = <<>>
  /\ pc = "work" => session.role = "worker"

\* A window whose last round is a reply ends in a reply.
LEMMA Replied == ASSUME Others PROVE LastReply(Append(window, ReplyRound))
<1>1. PICK w, k : w = Append(window, ReplyRound) /\ k = Len(window)
  OBVIOUS
<1>2. k \in Nat /\ Len(w) = k + 1 /\ w[k + 1] = ReplyRound
  BY <1>1 DEF Others
<1>3. w # <<>>
  BY <1>2
<1> QED
  BY <1>1, <1>2, <1>3 DEF LastReply

\* A step keeps the window of a turn that finished ending in a reply, and its
\* round closed.
LEMMA StepFinishes ==
  ASSUME IInv, Flags, Others, PromptsOK, Finishes, [Next]_vars
  PROVE  Finishes'
<1>p. FirstAt /\ Phase
  BY DEF PromptsOK, IInv
<1>s. session' = session
  BY DEF Next, vars
<1> USE <1>p, <1>s DEF Finishes, FirstAt, Phase, Open, InRound, Flags, flags, locals, data, job,
        rest, count
<1>1. CASE BeginPrompt
  BY <1>1 DEF BeginPrompt, Goto, CommitFails, Fail, Return
<1>2. CASE BeginResume
  BY <1>2 DEF BeginResume, Goto, Fail, Return
<1>3. CASE CommitRound
  BY <1>3 DEF CommitRound, CommitFails, Fail, Return
<1>4. CASE RefuseAnswer
  BY <1>4 DEF RefuseAnswer, Fail, Return
<1>5. CASE StartCalls
  BY <1>5 DEF StartCalls, Advance, Goto
<1>6. CASE TakeJobEnds
  BY <1>6 DEF TakeJobEnds, Advance, Goto
<1>7. CASE WaitForJobs
  BY <1>7 DEF WaitForJobs, Advance, Goto
<1>8. CASE Park
  BY <1>8 DEF Park, Return
<1>9. CASE Poll
  BY <1>9 DEF Poll, Goto
<1>10. CASE Tools
  BY <1>10 DEF Tools, Goto, Fail, Return
<1>11. CASE ToolsCancelled
  BY <1>11 DEF ToolsCancelled, Return
<1>12. CASE PumpWake
  BY <1>12 DEF PumpWake, HandleRunning
<1>13. CASE PumpSuspend
  BY <1>13 DEF PumpSuspend
<1>14. CASE PumpDone
  BY <1>14 DEF PumpDone, FailCancelled, Return, Goto
<1>15. CASE CommitInbox
  BY <1>15 DEF CommitInbox, Goto, CommitFails, Fail, Return
<1>16. CASE CompleteTurn
  BY <1>16 DEF CompleteTurn, Return
<1>17. CASE ContinueTurn
  BY <1>17 DEF ContinueTurn, Goto
<1>18. CASE ReplyCalls
  BY <1>18 DEF ReplyCalls, Goto
<1>19. CASE ReplyDone
  <2>1. CASE window' = Append(window, ReplyRound) /\ Goto("top") /\ finished' = TRUE
    <3>1. LastReply(window')
      BY <2>1, Replied
    <3>2. UNCHANGED <<round, first>>
      BY <1>19, <2>1 DEF ReplyDone, CommitFails, Fail, Return
    <3> QED
      BY <1>19, <2>1, <3>1, <3>2 DEF ReplyDone, Goto
  <2>2. CASE CommitFails
    BY <1>19, <2>2 DEF ReplyDone, CommitFails, Fail, Return
  <2> QED
    BY <1>19, <2>1, <2>2 DEF ReplyDone
<1>20. CASE TooLong
  BY <1>20 DEF TooLong, Goto, Fail, Return
<1>21. CASE InferFails
  BY <1>21 DEF InferFails, Fail, Return
<1>22. CASE InferCancelled
  BY <1>22 DEF InferCancelled, FailCancelled, Return
<1>23. CASE IdleJob
  BY <1>23 DEF IdleJob, TakeNext, Idle
<1>24. CASE IdleCancel
  BY <1>24 DEF IdleCancel, TakeNext, Idle
<1>25. CASE SteerParked
  BY <1>25 DEF SteerParked, TakeNext, Idle
<1>26. CASE IdlePrompt
  BY <1>26 DEF IdlePrompt, TakeNext, Idle, StartTurn
<1>27. CASE WorkerPrompt
  BY <1>27 DEF WorkerPrompt, TakeNext, Idle
<1>28. CASE Work
  BY <1>28 DEF Work
<1>29. CASE IdleResume
  BY <1>29 DEF IdleResume, TakeNext, Idle, StartTurn
<1>30. CASE IdleClose
  BY <1>30 DEF IdleClose, TakeNext, Idle
<1>31. CASE IdleSuspend
  BY <1>31 DEF IdleSuspend, Idle
<1>32. CASE Restart
  BY <1>32 DEF Restart
<1>33. CASE End
  BY <1>33 DEF End
<1>34. CASE Host
  <2>1. UNCHANGED <<pc, finished, suspended, window, round, first, inbox>>
    BY <1>34 DEF Host, SendPrompt, SendResume, SendCancel, SendClose, Send
  <2> QED
    BY <2>1
<1>35. CASE \E c \in Calls : JobEnds(c) \/ JobEndsAgain(c)
  BY <1>35 DEF JobEnds, JobEndsAgain
<1>36. CASE UNCHANGED vars
  BY <1>36 DEF vars
<1> QED
  BY <1>1, <1>2, <1>3, <1>4, <1>5, <1>6, <1>7, <1>8, <1>9, <1>10, <1>11, <1>12, <1>13, <1>14,
     <1>15, <1>16, <1>17, <1>18, <1>19, <1>20, <1>21, <1>22, <1>23, <1>24, <1>25, <1>26, <1>27,
     <1>28, <1>29, <1>30, <1>31, <1>32, <1>33, <1>34, <1>35, <1>36 DEF Next, Run, Turn

\* A turn that ends complete has answered every job's message it was given.
LEMMA StepComplete ==
  ASSUME IInv, Flags, Others, PromptsOK, JobWakes, Finishes, CompleteAnswered, [Next]_vars
  PROVE  CompleteAnswered'
<1>p. Phase /\ ParkHasQuestion
  BY DEF IInv
<1>s. session' = session
  BY DEF Next, vars
<1> USE <1>p, <1>s DEF CompleteAnswered, Phase, ParkHasQuestion, Open, InRound, flags, locals,
        data, job, rest, count
<1>1. CASE BeginPrompt
  BY <1>1 DEF BeginPrompt, Goto, CommitFails, Fail, Return
<1>2. CASE BeginResume
  BY <1>2 DEF BeginResume, Goto, Fail, Return
<1>3. CASE CommitRound
  BY <1>3 DEF CommitRound, CommitFails, Fail, Return
<1>4. CASE RefuseAnswer
  BY <1>4 DEF RefuseAnswer, Fail, Return
<1>5. CASE StartCalls
  BY <1>5 DEF StartCalls, Advance, Goto
<1>6. CASE TakeJobEnds
  BY <1>6 DEF TakeJobEnds, Advance, Goto
<1>7. CASE WaitForJobs
  BY <1>7 DEF WaitForJobs, Advance, Goto
<1>8. CASE Park
  BY <1>8 DEF Park, Return
<1>9. CASE Poll
  BY <1>9 DEF Poll, Goto
<1>10. CASE Tools
  BY <1>10 DEF Tools, Goto, Fail, Return
<1>11. CASE ToolsCancelled
  BY <1>11 DEF ToolsCancelled, Return
<1>12. CASE PumpWake
  BY <1>12 DEF PumpWake, HandleRunning
<1>13. CASE PumpSuspend
  BY <1>13 DEF PumpSuspend
<1>14. CASE PumpDone
  BY <1>14 DEF PumpDone, FailCancelled, Return, Goto
<1>15. CASE CommitInbox
  BY <1>15 DEF CommitInbox, Goto, CommitFails, Fail, Return
<1>16. CASE CompleteTurn
  BY <1>16 DEF CompleteTurn, Finishes, LastReply, Return
<1>17. CASE ContinueTurn
  BY <1>17 DEF ContinueTurn, Goto
<1>18. CASE ReplyCalls
  BY <1>18 DEF ReplyCalls, Goto
<1>19. CASE ReplyDone
  BY <1>19 DEF ReplyDone, Goto, CommitFails, Fail, Return
<1>20. CASE TooLong
  BY <1>20 DEF TooLong, Goto, Fail, Return
<1>21. CASE InferFails
  BY <1>21 DEF InferFails, Fail, Return
<1>22. CASE InferCancelled
  BY <1>22 DEF InferCancelled, FailCancelled, Return
<1>23. CASE IdleJob
  <2>1. CASE terminal = "complete" /\ session.role # "worker"
    <3>1. jobs[NextWake.n] = "none"
      <4>1. NextWake.n \in Calls
        BY <1>23, TypesOK, JobTaken DEF IdleJob, PromptsOK
      <4> QED
        BY <2>1, <4>1 DEF NoJobs
    <3>2. jobs' = jobs /\ inbox' = inbox
      BY <1>23, <3>1 DEF IdleJob, JobEnded
    <3> QED
      BY <1>23, <2>1, <3>2 DEF IdleJob
  <2>2. CASE ~(terminal = "complete" /\ session.role # "worker")
    BY <1>23, <2>2 DEF IdleJob
  <2> QED
    BY <2>1, <2>2
<1>24. CASE IdleCancel
  BY <1>24 DEF IdleCancel, CancelJobs
<1>25. CASE SteerParked
  BY <1>25 DEF SteerParked, TakeNext, Idle
<1>26. CASE IdlePrompt
  BY <1>26 DEF IdlePrompt, TakeNext, Idle, StartTurn
<1>27. CASE WorkerPrompt
  BY <1>27 DEF WorkerPrompt, TakeNext, Idle
<1>28. CASE Work
  BY <1>28 DEF Work, Finishes
<1>29. CASE IdleResume
  BY <1>29 DEF IdleResume, TakeNext, Idle, StartTurn
<1>30. CASE IdleClose
  BY <1>30 DEF IdleClose, TakeNext, Idle
<1>31. CASE IdleSuspend
  BY <1>31 DEF IdleSuspend, Idle
<1>32. CASE Restart
  BY <1>32 DEF Restart
<1>33. CASE End
  BY <1>33 DEF End
<1>34. CASE Host
  BY <1>34 DEF Host, SendPrompt, SendResume, SendCancel, SendClose, Send
<1>35. CASE \E c \in Calls : JobEnds(c) \/ JobEndsAgain(c)
  BY <1>35 DEF JobEnds, JobEndsAgain
<1>36. CASE UNCHANGED vars
  BY <1>36 DEF vars
<1> QED
  BY <1>1, <1>2, <1>3, <1>4, <1>5, <1>6, <1>7, <1>8, <1>9, <1>10, <1>11, <1>12, <1>13, <1>14,
     <1>15, <1>16, <1>17, <1>18, <1>19, <1>20, <1>21, <1>22, <1>23, <1>24, <1>25, <1>26, <1>27,
     <1>28, <1>29, <1>30, <1>31, <1>32, <1>33, <1>34, <1>35, <1>36 DEF Next, Run, Turn

\* A session that starts has finished nothing.
LEMMA InitComplete == Init => JobWakes /\ Finishes /\ CompleteAnswered
<1>1. Init => Finishes /\ CompleteAnswered
  BY DEF Init, Finishes, CompleteAnswered, Open, InRound, NoRound
<1>2. Init => JobWakes
  BY DEF Init, JobWakes, W
<1> QED
  BY <1>1, <1>2

-----------------------------------------------------------------------------
(* Where the result of a call is.                                          *)

Has(c, w)    == \E i \in DOMAIN w : w[i].calls[c] # "none"
HasTwo(c, w) == \E i, j \in DOMAIN w : i < j /\ w[i].calls[c] # "none" /\ w[j].calls[c] # "none"

\* A call that was made and is not in the open round is in one round of the
\* window, and no other call is in any.
ResultOf(c) == ~HasTwo(c, window) /\ (Has(c, window) <=> c <= ncalls /\ round[c] = "none")
ResultsOK   == "commit" \notin session.faults => \A c \in Calls : ResultOf(c)

\* A window has two results of a call only if one of its parts has two, or both
\* have one.
LEMMA JoinedHas ==
  ASSUME NEW s \in Seq(Rounds), NEW t \in Seq(Rounds), NEW w, w = s \o t, NEW c
  PROVE  /\ Has(c, w) <=> Has(c, s) \/ Has(c, t)
         /\ HasTwo(c, w) => HasTwo(c, s) \/ HasTwo(c, t) \/ (Has(c, s) /\ Has(c, t))
<1>1. IsJoined(w, s, t)
  BY Joined
<1>2. ASSUME Has(c, w) PROVE Has(c, s) \/ Has(c, t)
  <2>1. PICK j \in DOMAIN w : w[j].calls[c] # "none"
    BY <1>2 DEF Has
  <2>2. CASE j \in DOMAIN s
    BY <1>1, <2>1, <2>2 DEF Has, IsJoined
  <2>3. CASE j \notin DOMAIN s
    <3>1. PICK i \in DOMAIN t : j = i + Len(s)
      BY <1>1, <2>3 DEF IsJoined
    <3>2. w[j] = t[i]
      BY <1>1, <3>1 DEF IsJoined
    <3> QED
      BY <2>1, <3>2 DEF Has
  <2> QED
    BY <2>2, <2>3
<1>3. Has(c, s) => Has(c, w)
  BY <1>1 DEF Has, IsJoined
<1>4. ASSUME Has(c, t) PROVE Has(c, w)
  <2>1. PICK i \in DOMAIN t : t[i].calls[c] # "none"
    BY <1>4 DEF Has
  <2>2. PICK j : j = i + Len(s)
    OBVIOUS
  <2>3. j \in DOMAIN w /\ w[j] = t[i]
    BY <1>1, <2>2 DEF IsJoined
  <2> QED
    BY <2>1, <2>3 DEF Has
<1>5. ASSUME HasTwo(c, w) PROVE HasTwo(c, s) \/ HasTwo(c, t) \/ (Has(c, s) /\ Has(c, t))
  <2>1. PICK i, j \in DOMAIN w : i < j /\ w[i].calls[c] # "none" /\ w[j].calls[c] # "none"
    BY <1>5 DEF HasTwo
  <2>2. \/ i \in DOMAIN s /\ j \in DOMAIN s /\ w[i] = s[i] /\ w[j] = s[j]
        \/ i \in DOMAIN s /\ w[i] = s[i] /\ \E l \in DOMAIN t : w[j] = t[l]
        \/ \E k, l \in DOMAIN t : k < l /\ w[i] = t[k] /\ w[j] = t[l]
    BY <2>1, JoinedPairs
  <2>3. CASE i \in DOMAIN s /\ j \in DOMAIN s /\ w[i] = s[i] /\ w[j] = s[j]
    BY <2>1, <2>3 DEF HasTwo
  <2>4. CASE i \in DOMAIN s /\ w[i] = s[i] /\ \E l \in DOMAIN t : w[j] = t[l]
    BY <2>1, <2>4 DEF Has
  <2>5. CASE \E k, l \in DOMAIN t : k < l /\ w[i] = t[k] /\ w[j] = t[l]
    BY <2>1, <2>5 DEF HasTwo
  <2> QED
    BY <2>2, <2>3, <2>4, <2>5
<1> QED
  BY <1>2, <1>3, <1>4, <1>5


\* Messages hold no result of a call, and a round at most one of each.
LEMMA NoCalls ==
  ASSUME TypeOK
  PROVE  /\ \A c \in Calls : ~Has(c, UserRounds(inbox)) /\ ~HasTwo(c, UserRounds(inbox))
         /\ \A m : \A c \in Calls : ~Has(c, <<UserRound(m)>>) /\ ~HasTwo(c, <<UserRound(m)>>)
         /\ \A c \in Calls : ~Has(c, <<ReplyRound>>) /\ ~HasTwo(c, <<ReplyRound>>)
         /\ \A c : ~Has(c, <<>>) /\ ~HasTwo(c, <<>>)
         /\ \A c \in Calls : (Has(c, <<CommittedRound>>) <=> round[c] # "none") /\ ~HasTwo(c, <<CommittedRound>>)
         /\ \A c \in Calls : (Has(c, Past) <=> round[c] # "none") /\ ~HasTwo(c, Past)
<1>1. \A m : \A c \in Calls : UserRound(m).calls[c] = "none" /\ ReplyRound.calls[c] = "none"
  BY DEF UserRound, ReplyRound, NoRound
<1>2. \A c \in Calls : ~Has(c, UserRounds(inbox)) /\ ~HasTwo(c, UserRounds(inbox))
  <2>1. \A i \in DOMAIN UserRounds(inbox) : UserRounds(inbox)[i] = UserRound(inbox[i])
    BY DEF UserRounds
  <2> QED
    BY <1>1, <2>1 DEF Has, HasTwo
<1>3. /\ \A m : \A c \in Calls : ~Has(c, <<UserRound(m)>>) /\ ~HasTwo(c, <<UserRound(m)>>)
      /\ \A c \in Calls : ~Has(c, <<ReplyRound>>) /\ ~HasTwo(c, <<ReplyRound>>)
  BY <1>1 DEF Has, HasTwo
<1>4. \A c : ~Has(c, <<>>) /\ ~HasTwo(c, <<>>)
  BY DEF Has, HasTwo
<1>5. \A c \in Calls : (Has(c, <<CommittedRound>>) <=> round[c] # "none") /\ ~HasTwo(c, <<CommittedRound>>)
  <2>1. \A c \in Calls : CommittedRound.calls[c] # "none" <=> round[c] # "none"
    BY DEF CommittedRound, InRound
  <2> QED
    BY <2>1 DEF Has, HasTwo
<1>6. \A c \in Calls : (Has(c, Past) <=> round[c] # "none") /\ ~HasTwo(c, Past)
  BY <1>4, <1>5 DEF Past, Open, InRound
<1> QED
  BY <1>2, <1>3, <1>4, <1>5, <1>6

\* How a step moves a call: it stays, with its round it is committed, or the
\* model makes it.
ResultMove(c) ==
  \/ \E t \in Seq(Rounds) :
       /\ window' = window \o t /\ ~Has(c, t) /\ ~HasTwo(c, t)
       /\ (round'[c] = "none" <=> round[c] = "none") /\ ncalls' = ncalls
  \/ \E t \in Seq(Rounds) :
       /\ window' = window \o t /\ (Has(c, t) <=> round[c] # "none") /\ ~HasTwo(c, t)
       /\ round'[c] = "none" /\ ncalls' = ncalls
  \/ /\ UNCHANGED window /\ round[c] = "none"
     /\ (c <= ncalls' /\ round'[c] = "none" <=> c <= ncalls)

\* Each move a round can make keeps a call to at most one result.
LEMMA MoveResults ==
  ASSUME IInv, Others, NEW c \in Calls, ResultOf(c), ResultMove(c)
  PROVE  ResultOf(c)'
<1>1. PICK w, n, r : w = window' /\ n = ncalls' /\ r = round'[c]
  OBVIOUS
<1>2. window \in Seq(Rounds) /\ (round[c] # "none" => c <= ncalls)
  BY DEF Others, IInv, Unmade, Calls
<1>3. ~HasTwo(c, w) /\ (Has(c, w) <=> c <= n /\ r = "none")
  <2>1. ASSUME NEW t \in Seq(Rounds), w = window \o t, ~Has(c, t), ~HasTwo(c, t),
               r = "none" <=> round[c] = "none", n = ncalls
        PROVE  ~HasTwo(c, w) /\ (Has(c, w) <=> c <= n /\ r = "none")
    BY <1>2, <2>1, JoinedHas DEF ResultOf
  <2>2. ASSUME NEW t \in Seq(Rounds), w = window \o t, Has(c, t) <=> round[c] # "none", ~HasTwo(c, t),
               r = "none", n = ncalls
        PROVE  ~HasTwo(c, w) /\ (Has(c, w) <=> c <= n /\ r = "none")
    BY <1>2, <2>2, JoinedHas DEF ResultOf
  <2>3. CASE w = window /\ round[c] = "none" /\ (c <= n /\ r = "none" <=> c <= ncalls)
    BY <2>3 DEF ResultOf
  <2> QED
    BY <1>1, <2>1, <2>2, <2>3 DEF ResultMove
<1> QED
  BY <1>1, <1>3 DEF ResultOf

\* Every step makes one of the moves of a round, for each call.
LEMMA ResultSteps ==
  ASSUME IInv, Flags, Others, Finishes, [Next]_vars, "commit" \notin session.faults, NEW c \in Calls
  PROVE  ResultMove(c)
<1>0. TypeOK
  BY TypesOK
<1>w. window \in Seq(Rounds) /\ <<>> \in Seq(Rounds) /\ window = window \o <<>>
  BY EmptyJoins DEF Others
<1>n. ~Has(c, <<>>) /\ ~HasTwo(c, <<>>)
  BY <1>0, NoCalls
<1>s. window' = window /\ (round'[c] = "none" <=> round[c] = "none") /\ ncalls' = ncalls => ResultMove(c)
  <2> SUFFICES ASSUME window' = window, round'[c] = "none" <=> round[c] = "none", ncalls' = ncalls PROVE ResultMove(c)
    OBVIOUS
  <2>1. window' = window \o <<>>
    BY <1>w
  <2> QED
    BY <1>w, <1>n, <2>1 DEF ResultMove
<1> USE DEF flags, locals, data, job, rest, count
<1>1. CASE BeginPrompt
  <2>1. window' = window \o Past \o <<UserRound(W("user", first))>> /\ round' = NoRound /\ ncalls' = ncalls
    BY <1>1 DEF BeginPrompt, CommitFails
  <2>2. PICK p, u : p = Past /\ u = UserRound(W("user", first))
    OBVIOUS
  <2>3. p \in Seq(Rounds) /\ u \in Rounds
    <3>1. first \in Nat
      BY DEF Others
    <3> QED
      BY <1>0, <2>2, <3>1, RoundTypes
  <2>4. <<u>> \in Seq(Rounds) /\ p \o <<u>> \in Seq(Rounds) /\ window' = window \o (p \o <<u>>)
    BY <1>w, <2>1, <2>2, <2>3
  <2>5. /\ (Has(c, p) <=> round[c] # "none") /\ ~HasTwo(c, p)
        /\ ~Has(c, <<u>>) /\ ~HasTwo(c, <<u>>)
    BY <1>0, <2>2, NoCalls
  <2>6. (Has(c, p \o <<u>>) <=> round[c] # "none") /\ ~HasTwo(c, p \o <<u>>)
    BY <2>3, <2>4, <2>5, JoinedHas
  <2>7. round'[c] = "none"
    BY <2>1 DEF NoRound
  <2> QED
    BY <2>1, <2>4, <2>6, <2>7 DEF ResultMove
<1>2. CASE BeginResume
  <2>1. UNCHANGED <<window, round, ncalls>>
    BY <1>2 DEF BeginResume, Goto, Fail, Return
  <2> QED
    BY <1>s, <2>1
<1>3. CASE CommitRound
  <2>1. window' = Append(window, CommittedRound) /\ round' = NoRound /\ ncalls' = ncalls
    BY <1>3 DEF CommitRound, CommitFails
  <2>2. PICK r : r = CommittedRound
    OBVIOUS
  <2>3. r \in Rounds /\ (Has(c, <<r>>) <=> round[c] # "none") /\ ~HasTwo(c, <<r>>)
    BY <1>0, <2>2, NoCalls, RoundTypes
  <2>4. <<r>> \in Seq(Rounds) /\ window' = window \o <<r>>
    BY <1>w, <2>1, <2>2, <2>3
  <2>5. round'[c] = "none"
    BY <2>1 DEF NoRound
  <2> QED
    BY <2>1, <2>3, <2>4, <2>5 DEF ResultMove
<1>4. CASE RefuseAnswer
  <2>1. UNCHANGED <<window, round, ncalls>>
    BY <1>4 DEF RefuseAnswer, Fail, Return
  <2> QED
    BY <1>s, <2>1
<1>5. CASE StartCalls
  <2>1. UNCHANGED <<window, round, ncalls>>
    BY <1>5 DEF StartCalls, Advance, Goto
  <2> QED
    BY <1>s, <2>1
<1>6. CASE TakeJobEnds
  <2>1. UNCHANGED <<window, round, ncalls>>
    BY <1>6 DEF TakeJobEnds, Advance, Goto
  <2> QED
    BY <1>s, <2>1
<1>7. CASE WaitForJobs
  <2>1. UNCHANGED <<window, round, ncalls>>
    BY <1>7 DEF WaitForJobs, Advance, Goto
  <2> QED
    BY <1>s, <2>1
<1>8. CASE Park
  <2>1. UNCHANGED <<window, round, ncalls>>
    BY <1>8 DEF Park, Return
  <2> QED
    BY <1>s, <2>1
<1>9. CASE Poll
  <2>1. UNCHANGED <<window, round, ncalls>>
    BY <1>9 DEF Poll, Goto
  <2> QED
    BY <1>s, <2>1
<1>10. CASE Tools
  <2>1. window' = window /\ ncalls' = ncalls
    BY <1>10 DEF Tools
  <2>2. PICK out : round' = Recorded(out)
    BY <1>10 DEF Tools
  <2>3. c \in runs => round[c] # "none"
    BY <1>10 DEF Tools, IInv, RunsOK, InRound
  <2>4. round'[c] = "none" <=> round[c] = "none"
    BY <2>2, <2>3 DEF Recorded
  <2> QED
    BY <1>s, <2>1, <2>4
<1>11. CASE ToolsCancelled
  <2>1. window' = window /\ ncalls' = ncalls
    BY <1>11 DEF ToolsCancelled
  <2>2. PICK out : round' = Recorded(out)
    BY <1>11 DEF ToolsCancelled
  <2>3. c \in runs => round[c] # "none"
    BY <1>11 DEF ToolsCancelled, IInv, RunsOK, InRound
  <2>4. round'[c] = "none" <=> round[c] = "none"
    BY <2>2, <2>3 DEF Recorded
  <2> QED
    BY <1>s, <2>1, <2>4
<1>12. CASE PumpWake
  <2>1. UNCHANGED <<window, round, ncalls>>
    BY <1>12 DEF PumpWake, HandleRunning
  <2> QED
    BY <1>s, <2>1
<1>13. CASE PumpSuspend
  <2>1. UNCHANGED <<window, round, ncalls>>
    BY <1>13 DEF PumpSuspend
  <2> QED
    BY <1>s, <2>1
<1>14. CASE PumpDone
  <2>1. UNCHANGED <<window, round, ncalls>>
    BY <1>14 DEF PumpDone, FailCancelled, Return, Goto
  <2> QED
    BY <1>s, <2>1
<1>15. CASE CommitInbox
  <2>1. window' = window \o UserRounds(inbox) /\ round' = round /\ ncalls' = ncalls
    BY <1>15 DEF CommitInbox, CommitFails
  <2>2. PICK t : t = UserRounds(inbox)
    OBVIOUS
  <2>3. t \in Seq(Rounds) /\ ~Has(c, t) /\ ~HasTwo(c, t)
    BY <1>0, <2>2, NoCalls, RoundTypes
  <2> QED
    BY <2>1, <2>2, <2>3 DEF ResultMove
<1>16. CASE CompleteTurn
  <2>1. UNCHANGED <<window, round, ncalls>>
    BY <1>16 DEF CompleteTurn, Return
  <2> QED
    BY <1>s, <2>1
<1>17. CASE ContinueTurn
  <2>1. UNCHANGED <<window, round, ncalls>>
    BY <1>17 DEF ContinueTurn, Goto
  <2> QED
    BY <1>s, <2>1
<1>18. CASE ReplyCalls
  <2>1. window' = window /\ round[c] = "none"
    BY <1>18 DEF ReplyCalls, Finishes, Open, InRound
  <2>2. PICK k \in 1..session.reply :
          /\ round' = [d \in Calls |-> IF d \in (ncalls + 1)..(ncalls + k) THEN "new" ELSE "none"]
          /\ ncalls' = ncalls + k
    BY <1>18 DEF ReplyCalls
  <2>3. k \in Nat /\ c \in Nat /\ ncalls \in Nat
    BY <2>2 DEF Others, Session, Calls
  <2>4. c <= ncalls' /\ round'[c] = "none" <=> c <= ncalls
    BY <2>2, <2>3
  <2> QED
    BY <2>1, <2>4 DEF ResultMove
<1>19. CASE ReplyDone
  <2>1. window' = Append(window, ReplyRound) /\ round' = round /\ ncalls' = ncalls
    BY <1>19 DEF ReplyDone, CommitFails
  <2>2. PICK r : r = ReplyRound
    OBVIOUS
  <2>3. r \in Rounds /\ ~Has(c, <<r>>) /\ ~HasTwo(c, <<r>>)
    BY <1>0, <2>2, NoCalls, RoundTypes
  <2>4. <<r>> \in Seq(Rounds) /\ window' = window \o <<r>>
    BY <1>w, <2>1, <2>2, <2>3
  <2> QED
    BY <2>1, <2>3, <2>4 DEF ResultMove
<1>20. CASE TooLong
  <2>1. UNCHANGED <<window, round, ncalls>>
    BY <1>20 DEF TooLong, Goto, Fail, Return
  <2> QED
    BY <1>s, <2>1
<1>21. CASE InferFails
  <2>1. UNCHANGED <<window, round, ncalls>>
    BY <1>21 DEF InferFails, Fail, Return
  <2> QED
    BY <1>s, <2>1
<1>22. CASE InferCancelled
  <2>1. UNCHANGED <<window, round, ncalls>>
    BY <1>22 DEF InferCancelled, FailCancelled, Return
  <2> QED
    BY <1>s, <2>1
<1>23. CASE IdleJob
  <2>1. UNCHANGED <<window, round, ncalls>>
    BY <1>23 DEF IdleJob
  <2> QED
    BY <1>s, <2>1
<1>24. CASE IdleCancel
  <2>1. UNCHANGED <<window, round, ncalls>>
    BY <1>24 DEF IdleCancel
  <2> QED
    BY <1>s, <2>1
<1>25. CASE SteerParked
  <2>1. UNCHANGED <<window, round, ncalls>>
    BY <1>25 DEF SteerParked
  <2> QED
    BY <1>s, <2>1
<1>26. CASE IdlePrompt
  <2>1. UNCHANGED <<window, round, ncalls>>
    BY <1>26 DEF IdlePrompt, StartTurn
  <2> QED
    BY <1>s, <2>1
<1>27. CASE WorkerPrompt
  <2>1. UNCHANGED <<window, round, ncalls>>
    BY <1>27 DEF WorkerPrompt
  <2> QED
    BY <1>s, <2>1
<1>28. CASE Work
  <2>1. UNCHANGED <<window, round, ncalls>>
    BY <1>28 DEF Work
  <2> QED
    BY <1>s, <2>1
<1>29. CASE IdleResume
  <2>1. UNCHANGED <<window, round, ncalls>>
    BY <1>29 DEF IdleResume, StartTurn
  <2> QED
    BY <1>s, <2>1
<1>30. CASE IdleClose
  <2>1. UNCHANGED <<window, round, ncalls>>
    BY <1>30 DEF IdleClose
  <2> QED
    BY <1>s, <2>1
<1>31. CASE IdleSuspend
  <2>1. UNCHANGED <<window, round, ncalls>>
    BY <1>31 DEF IdleSuspend, Idle
  <2> QED
    BY <1>s, <2>1
<1>32. CASE Restart
  <2>1. UNCHANGED <<window, round, ncalls>>
    BY <1>32 DEF Restart
  <2> QED
    BY <1>s, <2>1
<1>33. CASE End
  <2>1. UNCHANGED <<window, round, ncalls>>
    BY <1>33 DEF End
  <2> QED
    BY <1>s, <2>1
<1>34. CASE Host
  <2>1. UNCHANGED <<window, round, ncalls>>
    BY <1>34 DEF Host, SendPrompt, SendResume, SendCancel, SendClose, Send
  <2> QED
    BY <1>s, <2>1
<1>35. CASE \E d \in Calls : JobEnds(d) \/ JobEndsAgain(d)
  <2>1. UNCHANGED <<window, round, ncalls>>
    BY <1>35 DEF JobEnds, JobEndsAgain
  <2> QED
    BY <1>s, <2>1
<1>36. CASE UNCHANGED vars
  <2>1. UNCHANGED <<window, round, ncalls>>
    BY <1>36 DEF vars
  <2> QED
    BY <1>s, <2>1
<1> QED
  BY <1>1, <1>2, <1>3, <1>4, <1>5, <1>6, <1>7, <1>8, <1>9, <1>10, <1>11, <1>12, <1>13, <1>14,
     <1>15, <1>16, <1>17, <1>18, <1>19, <1>20, <1>21, <1>22, <1>23, <1>24, <1>25, <1>26, <1>27,
     <1>28, <1>29, <1>30, <1>31, <1>32, <1>33, <1>34, <1>35, <1>36 DEF Next, Run, Turn

\* A session that starts has no results.
LEMMA InitResults == Init => ResultsOK
<1> SUFFICES ASSUME Init, NEW c \in Calls PROVE ResultOf(c)
  BY DEF ResultsOK
<1>1. window = <<>> /\ ncalls = 0 /\ c \in Nat /\ ~(c <= 0)
  BY DEF Init, Calls
<1> QED
  BY <1>1 DEF ResultOf, Has, HasTwo

\* A step keeps every call to at most one result.
LEMMA StepResults ==
  ASSUME IInv, Flags, Others, Finishes, ResultsOK, [Next]_vars
  PROVE  ResultsOK'
<1>s. session' = session
  BY DEF Next, vars
<1> SUFFICES ASSUME "commit" \notin session.faults, NEW c \in Calls PROVE ResultOf(c)'
  BY <1>s DEF ResultsOK
<1>1. ResultOf(c)
  BY DEF ResultsOK
<1>2. ResultMove(c)
  BY ResultSteps
<1> QED
  BY <1>1, <1>2, MoveResults

\* The invariant of the results gives OneResultPerCall.
LEMMA ResultsOnce == Others /\ ResultsOK => OneResultPerCall
<1> SUFFICES ASSUME Others, ResultsOK, "commit" \notin session.faults, NEW c \in 1..ncalls,
                    NEW places, places = {i \in DOMAIN window : window[i].calls[c] # "none"}
             PROVE  IF round[c] # "none" THEN places = {} ELSE \E i \in places : places = {i}
  BY DEF OneResultPerCall
<1>1. c \in Calls /\ c <= ncalls /\ window \in Seq(Rounds)
  BY DEF Others, Calls
<1>2. ResultOf(c)
  BY <1>1 DEF ResultsOK
<1>3. CASE round[c] # "none"
  BY <1>2, <1>3 DEF ResultOf, Has
<1>4. CASE round[c] = "none"
  <2>1. PICK i \in DOMAIN window : window[i].calls[c] # "none"
    BY <1>1, <1>2, <1>4 DEF ResultOf, Has
  <2>2. \A j \in DOMAIN window : window[j].calls[c] # "none" => j = i
    <3>1. \A j \in DOMAIN window : j < i \/ i < j \/ j = i
      BY <1>1
    <3> QED
      BY <1>2, <2>1, <3>1 DEF ResultOf, HasTwo
  <2> QED
    BY <1>4, <2>1, <2>2
<1> QED
  BY <1>3, <1>4

-----------------------------------------------------------------------------
(* What waits in the mailbox stays there until it is read.                 *)

\* The wake of call c's job is read.
Reads(c) == mail # <<>> /\ Head(mail) = W("job", c) /\ JobEnded(c) /\ UNCHANGED runs

\* A set of numbers has a least one.
Less == {p \in Nat \X Nat : p[1] < p[2]}

\* A set of numbers that is not empty has a least one.
LEMMA LeastNumber ==
  ASSUME NEW T \in SUBSET Nat, T # {}
  PROVE  \E x \in T : \A y \in T : x <= y
<1>1. IsWellFoundedOn(Less, Nat)
  BY NatLessThanWellFounded DEF OpToRel, Less
<1>2. PICK x \in T : \A y \in T : <<y, x>> \notin Less
  BY <1>1, WFMin
<1>3. \A y \in T : ~(y < x)
  BY <1>2 DEF Less
<1> QED
  BY <1>3

\* Taking a cancel leaves every job's wake in the mailbox.
LEMMA CancelKeeps ==
  ASSUME TypeOK, TakeCancel
  PROVE  \A c : In(W("job", c), mail) => In(W("job", c), mail')
<1>1. PICK K : K = {i \in DOMAIN mail : i > FirstCancel \/ (i < FirstCancel /\ mail[i].kind # "prompt")}
  OBVIOUS
<1>2. K \in SUBSET (DOMAIN mail) /\ mail' = Picked(mail, K) /\ mail \in Seq(Wake)
  BY <1>1 DEF TakeCancel, TypeOK
<1>3. \A k \in K : In(mail[k], Picked(mail, K))
  BY <1>2, PickedAll
<1>4. FirstCancel \in DOMAIN mail /\ mail[FirstCancel].kind = "cancel"
  <2>1. PICK i \in DOMAIN mail : mail[i].kind = "cancel"
    BY DEF TakeCancel
  <2>2. \E j \in DOMAIN mail : mail[j].kind = "cancel" /\ \A k \in 1..(j - 1) : mail[k].kind # "cancel"
    <3>0. {k \in DOMAIN mail : mail[k].kind = "cancel"} \in SUBSET Nat
      BY <1>2
    <3>1. PICK j \in {k \in DOMAIN mail : mail[k].kind = "cancel"} : \A k \in {l \in DOMAIN mail : mail[l].kind = "cancel"} : j <= k
      BY <2>1, <3>0, LeastNumber
    <3>2. j \in Nat
      BY <1>2, <3>1
    <3>3. ASSUME NEW k \in 1..(j - 1) PROVE k \in DOMAIN mail /\ ~(j <= k)
      BY <1>2, <3>1, <3>2
    <3> QED
      BY <3>1, <3>3
  <2> QED
    BY <2>2 DEF FirstCancel
<1>5. ASSUME NEW c, In(W("job", c), mail) PROVE In(W("job", c), mail')
  <2>1. PICK k \in DOMAIN mail : mail[k] = W("job", c)
    BY <1>5 DEF In
  <2>2. mail[k].kind = "job"
    BY <2>1 DEF W
  <2>3. k # FirstCancel
    BY <1>4, <2>2
  <2>4. k \in K
    <3>1. k \in Nat /\ FirstCancel \in Nat
      BY <1>2, <1>4
    <3> QED
      BY <1>1, <2>2, <2>3, <3>1
  <2> QED
    BY <1>2, <1>3, <2>1, <2>4
<1> QED
  BY <1>5

\* Taking a wake that is no job's leaves every job's wake in the mailbox.
LEMMA WakesStay ==
  ASSUME TypeOK, NEW kind, kind # "job", TakeNext(kind)
  PROVE  \A c : In(W("job", c), mail) => In(W("job", c), mail')
<1>1. NextWake.kind # "job" /\ \A c : W("job", c).kind = "job"
  BY DEF TakeNext, W
<1>2. CASE mail' = mail
  BY <1>2
<1>3. CASE mail # <<>> /\ NextWake = Head(mail) /\ mail' = Tail(mail)
  <2>1. \A x : In(x, mail) => x = Head(mail) \/ In(x, mail')
    BY <1>3, HeadTaken DEF TypeOK
  <2> QED
    BY <1>1, <1>3, <2>1
<1> QED
  BY <1>2, <1>3, WakeTaken

\* A job's wake stays in the mailbox until the session reads it; an ended
\* session stays ended.
LEMMA WakesKept ==
  ASSUME IInv, Flags, Others, PromptsOK, JobWakes, [Next]_vars, NEW c \in Calls
  PROVE  /\ In(W("job", c), mail) => In(W("job", c), mail') \/ Reads(c)
         /\ pc = "ended" => pc' = "ended"
<1>0. TypeOK
  BY TypesOK
<1> DEFINE G == /\ In(W("job", c), mail) => In(W("job", c), mail') \/ Reads(c)
                /\ pc = "ended" => pc' = "ended"
<1> SUFFICES G
  OBVIOUS
<1> USE DEF flags, locals, data, job, rest, count
<1>1. CASE BeginPrompt
  <2>1. mail' = mail /\ (pc # "ended" \/ pc' = pc)
    BY <1>1 DEF BeginPrompt, Goto, CommitFails, Fail, Return
  <2> QED
    BY <2>1
<1>2. CASE BeginResume
  <2>1. mail' = mail /\ (pc # "ended" \/ pc' = pc)
    BY <1>2 DEF BeginResume, Goto, Fail, Return
  <2> QED
    BY <2>1
<1>3. CASE CommitRound
  <2>1. mail' = mail /\ (pc # "ended" \/ pc' = pc)
    BY <1>3 DEF CommitRound, CommitFails, Fail, Return
  <2> QED
    BY <2>1
<1>4. CASE RefuseAnswer
  <2>1. mail' = mail /\ (pc # "ended" \/ pc' = pc)
    BY <1>4 DEF RefuseAnswer, Fail, Return
  <2> QED
    BY <2>1
<1>5. CASE StartCalls
  <2>1. mail' = mail /\ (pc # "ended" \/ pc' = pc)
    BY <1>5 DEF StartCalls, Advance, Goto
  <2> QED
    BY <2>1
<1>6. CASE TakeJobEnds
  <2>1. mail' = mail /\ (pc # "ended" \/ pc' = pc)
    BY <1>6 DEF TakeJobEnds, Advance, Goto
  <2> QED
    BY <2>1
<1>7. CASE WaitForJobs
  <2>1. mail' = mail /\ (pc # "ended" \/ pc' = pc)
    BY <1>7 DEF WaitForJobs, Advance, Goto
  <2> QED
    BY <2>1
<1>8. CASE Park
  <2>1. mail' = mail /\ (pc # "ended" \/ pc' = pc)
    BY <1>8 DEF Park, Return
  <2> QED
    BY <2>1
<1>9. CASE Poll
  <2>1. mail' = mail /\ (pc # "ended" \/ pc' = pc)
    BY <1>9 DEF Poll, Goto
  <2> QED
    BY <2>1
<1>10. CASE Tools
  <2>1. mail' = mail /\ (pc # "ended" \/ pc' = pc)
    BY <1>10 DEF Tools, Goto, Fail, Return
  <2> QED
    BY <2>1
<1>11. CASE ToolsCancelled
  <2>1. mail' = mail \/ TakeCancel
    BY <1>11 DEF ToolsCancelled
  <2>2. \A d : In(W("job", d), mail) => In(W("job", d), mail')
    BY <1>0, <2>1, CancelKeeps
  <2>3. pc # "ended"
    BY <1>11 DEF ToolsCancelled
  <2> QED
    BY <2>2, <2>3
<1>12. CASE PumpWake
  <2>1. mail # <<>> /\ mail' = Tail(mail) /\ pc # "ended" /\ UNCHANGED runs
    BY <1>12 DEF PumpWake
  <2>2. \A x : In(x, mail) => x = Head(mail) \/ In(x, mail')
    BY <1>0, <2>1, HeadTaken DEF TypeOK
  <2>3. Head(mail) = W("job", c) => JobEnded(c)
    BY <1>12 DEF PumpWake, HandleRunning, W
  <2> QED
    BY <2>1, <2>2, <2>3 DEF Reads
<1>13. CASE PumpSuspend
  <2>1. mail' = mail /\ (pc # "ended" \/ pc' = pc)
    BY <1>13 DEF PumpSuspend
  <2> QED
    BY <2>1
<1>14. CASE PumpDone
  <2>1. mail' = mail /\ (pc # "ended" \/ pc' = pc)
    BY <1>14 DEF PumpDone, FailCancelled, Return, Goto
  <2> QED
    BY <2>1
<1>15. CASE CommitInbox
  <2>1. mail' = mail /\ (pc # "ended" \/ pc' = pc)
    BY <1>15 DEF CommitInbox, Goto, CommitFails, Fail, Return
  <2> QED
    BY <2>1
<1>16. CASE CompleteTurn
  <2>1. mail' = mail /\ (pc # "ended" \/ pc' = pc)
    BY <1>16 DEF CompleteTurn, Return
  <2> QED
    BY <2>1
<1>17. CASE ContinueTurn
  <2>1. mail' = mail /\ (pc # "ended" \/ pc' = pc)
    BY <1>17 DEF ContinueTurn, Goto
  <2> QED
    BY <2>1
<1>18. CASE ReplyCalls
  <2>1. mail' = mail /\ (pc # "ended" \/ pc' = pc)
    BY <1>18 DEF ReplyCalls, Goto
  <2> QED
    BY <2>1
<1>19. CASE ReplyDone
  <2>1. mail' = mail /\ (pc # "ended" \/ pc' = pc)
    BY <1>19 DEF ReplyDone, Goto, CommitFails, Fail, Return
  <2> QED
    BY <2>1
<1>20. CASE TooLong
  <2>1. mail' = mail /\ (pc # "ended" \/ pc' = pc)
    BY <1>20 DEF TooLong, Goto, Fail, Return
  <2> QED
    BY <2>1
<1>21. CASE InferFails
  <2>1. mail' = mail /\ (pc # "ended" \/ pc' = pc)
    BY <1>21 DEF InferFails, Fail, Return
  <2> QED
    BY <2>1
<1>22. CASE InferCancelled
  <2>1. mail' = mail \/ TakeCancel
    BY <1>22 DEF InferCancelled
  <2>2. \A d : In(W("job", d), mail) => In(W("job", d), mail')
    BY <1>0, <2>1, CancelKeeps
  <2>3. pc # "ended"
    BY <1>22 DEF InferCancelled
  <2> QED
    BY <2>2, <2>3
<1>23. CASE IdleJob
  <2>1. mail # <<>> /\ NextWake = Head(mail) /\ mail' = Tail(mail)
    BY <1>0, <1>23, JobTaken DEF IdleJob, PromptsOK
  <2>2. JobEnded(Head(mail).n) /\ pc # "ended" /\ UNCHANGED runs
    BY <1>23, <2>1 DEF IdleJob, TakeNext, Idle
  <2>3. \A x : In(x, mail) => x = Head(mail) \/ In(x, mail')
    BY <1>0, <2>1, HeadTaken DEF TypeOK
  <2>4. Head(mail) = W("job", c) => JobEnded(c)
    BY <2>2 DEF W
  <2> QED
    BY <2>1, <2>2, <2>3, <2>4 DEF Reads
<1>24. CASE IdleCancel
  <2>1. \A d : In(W("job", d), mail) => In(W("job", d), mail')
    BY <1>0, <1>24, WakesStay DEF IdleCancel
  <2>2. pc # "ended"
    BY <1>24 DEF IdleCancel, TakeNext, Idle
  <2> QED
    BY <2>1, <2>2
<1>25. CASE SteerParked
  <2>1. \A d : In(W("job", d), mail) => In(W("job", d), mail')
    BY <1>0, <1>25, WakesStay DEF SteerParked
  <2>2. pc # "ended"
    BY <1>25 DEF SteerParked, TakeNext, Idle
  <2> QED
    BY <2>1, <2>2
<1>26. CASE IdlePrompt
  <2>1. \A d : In(W("job", d), mail) => In(W("job", d), mail')
    BY <1>0, <1>26, WakesStay DEF IdlePrompt
  <2>2. pc # "ended"
    BY <1>26 DEF IdlePrompt, TakeNext, Idle
  <2> QED
    BY <2>1, <2>2
<1>27. CASE WorkerPrompt
  <2>1. \A d : In(W("job", d), mail) => In(W("job", d), mail')
    BY <1>0, <1>27, WakesStay DEF WorkerPrompt
  <2>2. pc # "ended"
    BY <1>27 DEF WorkerPrompt, TakeNext, Idle
  <2> QED
    BY <2>1, <2>2
<1>28. CASE Work
  <2>1. mail' = mail \/ TakeCancel
    BY <1>28 DEF Work
  <2>2. \A d : In(W("job", d), mail) => In(W("job", d), mail')
    BY <1>0, <2>1, CancelKeeps
  <2>3. pc # "ended"
    BY <1>28 DEF Work
  <2> QED
    BY <2>2, <2>3
<1>29. CASE IdleResume
  <2>1. \A d : In(W("job", d), mail) => In(W("job", d), mail')
    BY <1>0, <1>29, WakesStay DEF IdleResume
  <2>2. pc # "ended"
    BY <1>29 DEF IdleResume, TakeNext, Idle
  <2> QED
    BY <2>1, <2>2
<1>30. CASE IdleClose
  <2>1. \A d : In(W("job", d), mail) => In(W("job", d), mail')
    BY <1>0, <1>30, WakesStay DEF IdleClose
  <2>2. pc # "ended"
    BY <1>30 DEF IdleClose, TakeNext, Idle
  <2> QED
    BY <2>1, <2>2
<1>31. CASE IdleSuspend
  <2>1. mail' = mail /\ (pc # "ended" \/ pc' = pc)
    BY <1>31 DEF IdleSuspend, Idle
  <2> QED
    BY <2>1
<1>32. CASE Restart
  <2>1. mail' = mail /\ (pc # "ended" \/ pc' = pc)
    BY <1>32 DEF Restart
  <2> QED
    BY <2>1
<1>33. CASE End
  <2>1. mail' = mail /\ (pc # "ended" \/ pc' = pc)
    BY <1>33 DEF End
  <2> QED
    BY <2>1
<1>34. CASE Host
  <2>1. PICK kind \in {"prompt", "resume", "cancel", "close"}, n \in Nat : \E bound : Send(kind, n, bound)
    BY <1>34 DEF Host, SendPrompt, SendResume, SendCancel, SendClose, Calls, Others, IInv, Types
  <2>2. W(kind, n) \in Wake /\ mail \in Seq(Wake)
    BY <1>0 DEF W, Wake, TypeOK
  <2>3. mail' = Append(mail, W(kind, n)) /\ pc' = pc
    BY <2>1 DEF Send
  <2> QED
    BY <2>2, <2>3, AppendElements
<1>35. CASE \E d \in Calls : JobEnds(d) \/ JobEndsAgain(d)
  <2>1. PICK d \in Calls : JobEnds(d) \/ JobEndsAgain(d)
    BY <1>35
  <2>2. W("job", d) \in Wake /\ mail \in Seq(Wake)
    BY <1>0 DEF W, Wake, TypeOK, Calls
  <2>3. (mail' = mail \/ mail' = Append(mail, W("job", d))) /\ pc' = pc
    BY <2>1 DEF JobEnds, JobEndsAgain
  <2>4. In(W("job", c), mail) => In(W("job", c), Append(mail, W("job", d)))
    BY <2>2, AppendElements
  <2> QED
    BY <2>3, <2>4
<1>36. CASE UNCHANGED vars
  <2>1. mail' = mail /\ (pc # "ended" \/ pc' = pc)
    BY <1>36 DEF vars
  <2> QED
    BY <2>1
<1> QED
  BY <1>1, <1>2, <1>3, <1>4, <1>5, <1>6, <1>7, <1>8, <1>9, <1>10, <1>11, <1>12, <1>13, <1>14,
     <1>15, <1>16, <1>17, <1>18, <1>19, <1>20, <1>21, <1>22, <1>23, <1>24, <1>25, <1>26, <1>27,
     <1>28, <1>29, <1>30, <1>31, <1>32, <1>33, <1>34, <1>35, <1>36 DEF Next, Run, Turn

\* A job the session tracks runs, or its wake is in the mailbox.
Fed == \A c \in Calls : jobs[c] \in {"bg", "wait"} /\ pc # "ended" => c \in live \/ In(W("job", c), mail)

\* A step keeps every job that was started running, or its wake in the mailbox.
LEMMA StepFed ==
  ASSUME IInv, Flags, Others, PromptsOK, JobWakes, JobsFit, RunsFit, Fed, [Next]_vars
  PROVE  Fed'
<1> SUFFICES ASSUME NEW c \in Calls, jobs'[c] \in {"bg", "wait"}, pc' # "ended"
             PROVE  c \in live' \/ In(W("job", c), mail')
  BY DEF Fed
<1>t. jobs \in [Calls -> {"none", "bg", "wait", "ended"}]
  BY DEF IInv, Types
<1>1. JobMove(c)
  BY JobSteps
<1>2. In(W("job", c), mail) => In(W("job", c), mail') \/ Reads(c)
  BY WakesKept
<1>3. pc # "ended"
  BY WakesKept
<1>4. jobs[c] \in {"bg", "wait"} => c \in live \/ In(W("job", c), mail)
  BY <1>3 DEF Fed
<1>5. jobs[c] \in {"bg", "wait"} => ~Reads(c)
  <2>1. ASSUME jobs[c] \in {"bg", "wait"}, JobEnded(c) PROVE jobs'[c] \in {"none", "ended"}
    BY <1>t, <2>1 DEF JobEnded
  <2> QED
    BY <2>1 DEF Reads
<1>6. CASE Stays(c)
  BY <1>2, <1>4, <1>5, <1>6 DEF Stays, SameBut
<1>7. CASE Drops(c)
  BY <1>7 DEF Drops
<1>8. CASE Stops(c)
  BY <1>2, <1>4, <1>5, <1>8 DEF Stops, SameBut
<1>9. CASE Made(c)
  BY <1>2, <1>4, <1>5, <1>9 DEF Made, SameBut
<1>10. CASE Starts(c)
  BY <1>10 DEF Starts
<1>11. CASE RunsOn(c)
  BY <1>11 DEF RunsOn
<1>12. CASE Hears(c)
  BY <1>t, <1>12 DEF Hears
<1>13. CASE Rings(c)
  BY <1>2, <1>3, <1>4, <1>5, <1>13 DEF Rings
<1> QED
  BY <1>1, <1>6, <1>7, <1>8, <1>9, <1>10, <1>11, <1>12, <1>13 DEF JobMove

\* What runs when a session has ended was told to stop.
Ended == pc = "ended" => live \subseteq stopping

\* Once the session ended, every job that still runs was told to stop.
LEMMA StepEnded ==
  ASSUME IInv, Flags, Others, JobsFit, Ended, [Next]_vars
  PROVE  Ended'
<1> USE DEF Ended, Flags, flags, locals, data, job, rest, count
<1>1. CASE BeginPrompt
  BY <1>1 DEF BeginPrompt, Goto, CommitFails, Fail, Return
<1>2. CASE BeginResume
  BY <1>2 DEF BeginResume, Goto, Fail, Return
<1>3. CASE CommitRound
  BY <1>3 DEF CommitRound, CommitFails, Fail, Return
<1>4. CASE RefuseAnswer
  BY <1>4 DEF RefuseAnswer, Fail, Return
<1>5. CASE StartCalls
  BY <1>5 DEF StartCalls, Advance, Goto
<1>6. CASE TakeJobEnds
  BY <1>6 DEF TakeJobEnds, Advance, Goto
<1>7. CASE WaitForJobs
  BY <1>7 DEF WaitForJobs, Advance, Goto
<1>8. CASE Park
  BY <1>8 DEF Park, Return
<1>9. CASE Poll
  BY <1>9 DEF Poll, Goto
<1>10. CASE Tools
  BY <1>10 DEF Tools, Goto, Fail, Return
<1>11. CASE ToolsCancelled
  BY <1>11 DEF ToolsCancelled, Return
<1>12. CASE PumpWake
  BY <1>12 DEF PumpWake, HandleRunning
<1>13. CASE PumpSuspend
  BY <1>13 DEF PumpSuspend
<1>14. CASE PumpDone
  BY <1>14 DEF PumpDone, FailCancelled, Return, Goto
<1>15. CASE CommitInbox
  BY <1>15 DEF CommitInbox, Goto, CommitFails, Fail, Return
<1>16. CASE CompleteTurn
  BY <1>16 DEF CompleteTurn, Return
<1>17. CASE ContinueTurn
  BY <1>17 DEF ContinueTurn, Goto
<1>18. CASE ReplyCalls
  BY <1>18 DEF ReplyCalls, Goto
<1>19. CASE ReplyDone
  BY <1>19 DEF ReplyDone, Goto, CommitFails, Fail, Return
<1>20. CASE TooLong
  BY <1>20 DEF TooLong, Goto, Fail, Return
<1>21. CASE InferFails
  BY <1>21 DEF InferFails, Fail, Return
<1>22. CASE InferCancelled
  BY <1>22 DEF InferCancelled, FailCancelled, Return
<1>23. CASE IdleJob
  BY <1>23 DEF IdleJob, TakeNext, Idle
<1>24. CASE IdleCancel
  BY <1>24 DEF IdleCancel, TakeNext, Idle
<1>25. CASE SteerParked
  BY <1>25 DEF SteerParked, TakeNext, Idle
<1>26. CASE IdlePrompt
  BY <1>26 DEF IdlePrompt, TakeNext, Idle, StartTurn
<1>27. CASE WorkerPrompt
  BY <1>27 DEF WorkerPrompt, TakeNext, Idle
<1>28. CASE Work
  BY <1>28 DEF Work
<1>29. CASE IdleResume
  BY <1>29 DEF IdleResume, TakeNext, Idle, StartTurn
<1>30. CASE IdleClose
  BY <1>30 DEF IdleClose, TakeNext, Idle
<1>31. CASE IdleSuspend
  BY <1>31 DEF IdleSuspend, Idle
<1>32. CASE Restart
  BY <1>32 DEF Restart
<1>33. CASE End
  <2>1. live \subseteq stopping \union Tracked
    BY DEF JobsFit, JobFits, Fits, Tracked, Others
  <2> QED
    BY <1>33, <2>1 DEF End
<1>34. CASE Host
  BY <1>34 DEF Host, SendPrompt, SendResume, SendCancel, SendClose, Send
<1>35. CASE \E c \in Calls : JobEnds(c) \/ JobEndsAgain(c)
  BY <1>35 DEF JobEnds, JobEndsAgain
<1>36. CASE UNCHANGED vars
  BY <1>36 DEF vars
<1> QED
  BY <1>1, <1>2, <1>3, <1>4, <1>5, <1>6, <1>7, <1>8, <1>9, <1>10, <1>11, <1>12, <1>13, <1>14,
     <1>15, <1>16, <1>17, <1>18, <1>19, <1>20, <1>21, <1>22, <1>23, <1>24, <1>25, <1>26, <1>27,
     <1>28, <1>29, <1>30, <1>31, <1>32, <1>33, <1>34, <1>35, <1>36 DEF Next, Run, Turn

\* A session that starts has no job to wait for.
LEMMA InitFed == Init => Fed /\ Ended
  BY DEF Init, Fed, Ended, NoJobs

-----------------------------------------------------------------------------
(* A job that ended reaches the model.                                     *)

Resulted(c, w) == \E i \in DOMAIN w : w[i].calls[c] = "result"

\* What the window shows it goes on showing.
LEMMA WindowKeeps ==
  ASSUME Others, NEW c, NEW w, w = window \/ \E t \in Seq(Rounds) : w = window \o t
  PROVE  /\ Resulted(c, window) => Resulted(c, w)
         /\ ShownIn(W("job", c), window) => ShownIn(W("job", c), w)
<1>1. \A i \in DOMAIN window : i \in DOMAIN w /\ w[i] = window[i]
  <2>1. CASE w = window
    BY <2>1
  <2>2. ASSUME NEW t \in Seq(Rounds), w = window \o t PROVE \A i \in DOMAIN window : i \in DOMAIN w /\ w[i] = window[i]
    <3>1. IsJoined(w, window, t)
      BY <2>2, Joined DEF Others
    <3> QED
      BY <3>1 DEF IsJoined
  <2> QED
    BY <2>1, <2>2
<1> QED
  BY <1>1 DEF Resulted, ShownIn

\* How a step without a cancel and without a fault leaves call c: an end that
\* was taken becomes the call's run, the run its result, the result a part of
\* the window, and a message of the inbox too.
RoundKeeps(c) ==
  LET x == W("job", c) IN
  /\ jobs[c] = "ended" => jobs'[c] = "ended" \/ c \in runs' \/ c \in stopping'
  /\ c \in runs /\ round[c] = "wait" => c \in runs' \/ round'[c] = "done"
  /\ round[c] = "done" => round'[c] = "done" \/ Resulted(c, window')
  /\ In(x, inbox) => In(x, inbox') \/ ShownIn(x, window')

\* Without cancels, a step takes no round from the session except to commit it.
LEMMA QuietSteps ==
  ASSUME IInv, Flags, Others, PromptsOK, RunsFit, Finishes, JobWakes, Reliable, NoCancel, sent.cancel = 0,
         [Next]_vars, NEW c \in Calls
  PROVE  RoundKeeps(c)
<1>0. TypeOK
  BY TypesOK
<1>f. "commit" \notin session.faults /\ "tool" \notin session.faults /\ "start" \notin session.faults
  BY DEF Reliable
<1>n. ~cancelled /\ ~TakeCancel
  BY DEF NoCancel, TakeCancel
<1>t. /\ jobs \in [Calls -> {"none", "bg", "wait", "ended"}]
      /\ round \in [Calls -> {"none", "new", "done", "park", "wait"}]
  BY DEF IInv, Types
<1>x. PICK x, b : x = W("job", c) /\ b = inbox'
  OBVIOUS
<1>i. inbox \in Seq(Message)
  BY DEF Others
<1>a. ASSUME NEW y \in Message, b = Append(inbox, y) PROVE In(x, inbox) => In(x, b)
  BY <1>a, <1>i, AppendElements
<1>m. \A n \in Nat : W("job", n) \in Message /\ W("user", n) \in Message
  BY DEF W, Message
<1>r. pc # "tools" => runs = {}
  BY DEF RunsFit
<1> USE DEF flags, locals, data, job, rest, count
<1>1. CASE BeginPrompt
  <2>1. UNCHANGED <<jobs, inbox>> /\ pc # "tools"
    BY <1>1 DEF BeginPrompt, CommitFails
  <2>2. round[c] = "done" => Resulted(c, window')
    <3> SUFFICES ASSUME round[c] = "done" PROVE Resulted(c, window')
      OBVIOUS
    <3>1. Past = <<CommittedRound>> /\ CommittedRound.calls[c] = "result"
      BY DEF Past, Open, InRound, CommittedRound
    <3>2. PICK r, u : r = CommittedRound /\ u = UserRound(W("user", first))
      OBVIOUS
    <3>3. window' = window \o <<r>> \o <<u>>
      BY <1>f, <1>1, <3>1, <3>2 DEF BeginPrompt, CommitFails
    <3>4. r \in Rounds /\ u \in Rounds /\ window \in Seq(Rounds)
      <4>1. first \in Nat
        BY DEF Others
      <4> QED
        BY <1>0, <3>2, <4>1, RoundTypes
    <3>5. Len(window) + 1 \in DOMAIN window' /\ window'[Len(window) + 1] = r
      BY <3>3, <3>4
    <3> QED
      BY <3>1, <3>2, <3>5 DEF Resulted
  <2> QED
    BY <1>r, <2>1, <2>2 DEF RoundKeeps
<1>2. CASE BeginResume
  <2>1. UNCHANGED <<jobs, round, inbox>> /\ (runs' = runs \/ pc # "tools")
    BY <1>f, <1>n, <1>2 DEF BeginResume, Goto, Fail, Return
  <2> QED
    BY <1>r, <2>1 DEF RoundKeeps
<1>3. CASE CommitRound
  <2>1. UNCHANGED <<jobs, inbox>> /\ pc # "tools" /\ window' = Append(window, CommittedRound)
    BY <1>f, <1>3 DEF CommitRound, CommitFails
  <2>2. round[c] = "done" => Resulted(c, window')
    <3> SUFFICES ASSUME round[c] = "done" PROVE Resulted(c, window')
      OBVIOUS
    <3>1. CommittedRound.calls[c] = "result"
      BY DEF InRound, CommittedRound
    <3>2. PICK r : r = CommittedRound
      OBVIOUS
    <3>4. r \in Rounds /\ window \in Seq(Rounds)
      BY <1>0, <3>2, RoundTypes
    <3>5. Len(window) + 1 \in DOMAIN window' /\ window'[Len(window) + 1] = r
      BY <2>1, <3>2, <3>4
    <3> QED
      BY <3>1, <3>2, <3>5 DEF Resulted
  <2> QED
    BY <1>r, <2>1, <2>2 DEF RoundKeeps
<1>4. CASE RefuseAnswer
  <2>1. UNCHANGED <<jobs, round, inbox>> /\ (runs' = runs \/ pc # "tools")
    BY <1>f, <1>n, <1>4 DEF RefuseAnswer, Fail, Return
  <2> QED
    BY <1>r, <2>1 DEF RoundKeeps
<1>5. CASE StartCalls
  <2>1. UNCHANGED <<jobs, round, inbox>> /\ (runs' = runs \/ pc # "tools")
    BY <1>f, <1>n, <1>5 DEF StartCalls, Advance, Goto
  <2> QED
    BY <1>r, <2>1 DEF RoundKeeps
<1>6. CASE TakeJobEnds
  <2>1. /\ UNCHANGED <<round, inbox>> /\ pc # "tools" /\ runs' = JobRuns
        /\ jobs'[c] = jobs[c] \/ c \in JobRuns
    BY <1>6 DEF TakeJobEnds, Advance
  <2> QED
    BY <1>r, <2>1 DEF RoundKeeps
<1>7. CASE WaitForJobs
  <2>1. UNCHANGED <<jobs, round, inbox>> /\ (runs' = runs \/ pc # "tools")
    BY <1>f, <1>n, <1>7 DEF WaitForJobs, Advance, Goto
  <2> QED
    BY <1>r, <2>1 DEF RoundKeeps
<1>8. CASE Park
  <2>1. UNCHANGED <<jobs, round, inbox>> /\ (runs' = runs \/ pc # "tools")
    BY <1>f, <1>n, <1>8 DEF Park, Return
  <2> QED
    BY <1>r, <2>1 DEF RoundKeeps
<1>9. CASE Poll
  <2>1. UNCHANGED <<jobs, round, inbox>> /\ (runs' = runs \/ pc # "tools")
    BY <1>f, <1>n, <1>9 DEF Poll, Goto
  <2> QED
    BY <1>r, <2>1 DEF RoundKeeps
<1>10. CASE Tools
  <2>1. PICK out \in [runs -> Outcome \ {"cancelled"}], killed \in SUBSET Calls :
          RunsEnd(Outcome, out, killed) /\ round' = Recorded(out) /\ StartJobs(out, killed)
    BY <1>10 DEF Tools
  <2>2. inbox' = inbox /\ pc = "tools"
    BY <1>10 DEF Tools
  <2>3. jobs[c] = "ended" => jobs'[c] = "ended" \/ c \in stopping'
    <3>1. jobs[c] = "ended" => c \notin Started(out)
      BY <2>2 DEF Started, IInv, RunsOK
    <3> QED
      BY <2>1, <3>1 DEF StartJobs
  <2>4. c \in runs /\ round[c] = "wait" => round'[c] = "done"
    <3> SUFFICES ASSUME c \in runs, round[c] = "wait" PROVE round'[c] = "done"
      OBVIOUS
    <3>1. out[c] \in Outcome \ {"cancelled"} /\ CanEnd(c, out[c])
      BY <2>1 DEF RunsEnd
    <3>2. out[c] = "done"
      BY <1>f, <3>1 DEF CanEnd
    <3> QED
      BY <2>1, <3>2 DEF Recorded
  <2>5. round[c] = "done" => round'[c] = "done"
    <3>1. round[c] = "done" => c \notin runs
      BY DEF RunsFit
    <3> QED
      BY <2>1, <3>1 DEF Recorded
  <2> QED
    BY <2>2, <2>3, <2>4, <2>5 DEF RoundKeeps
<1>11. CASE ToolsCancelled
  BY <1>n, <1>11 DEF ToolsCancelled
<1>12. CASE PumpWake
  <2>1. mail # <<>> /\ Head(mail).n \in Nat /\ UNCHANGED round /\ pc # "tools"
    <3>1. Head(mail) \in Wake /\ mail # <<>> /\ UNCHANGED round /\ pc # "tools"
      BY <1>0, <1>12, HeadTaken DEF PumpWake, TypeOK
    <3> QED
      BY <3>1 DEF Wake
  <2>2. jobs[c] = "ended" => jobs'[c] = "ended"
    BY <1>t, <1>12 DEF PumpWake, HandleRunning, JobEnded
  <2>3. \/ inbox' = inbox \/ inbox' = Append(inbox, W("job", Head(mail).n))
        \/ inbox' = Append(inbox, W("user", Head(mail).n))
    BY <1>12 DEF PumpWake, HandleRunning, JobEnded, Steer
  <2>4. In(x, inbox) => In(x, b)
    BY <1>x, <1>m, <1>a, <2>1, <2>3
  <2> QED
    BY <1>r, <1>x, <2>1, <2>2, <2>4 DEF RoundKeeps
<1>13. CASE PumpSuspend
  <2>1. UNCHANGED <<jobs, round, inbox>> /\ (runs' = runs \/ pc # "tools")
    BY <1>f, <1>n, <1>13 DEF PumpSuspend
  <2> QED
    BY <1>r, <2>1 DEF RoundKeeps
<1>14. CASE PumpDone
  <2>1. UNCHANGED <<jobs, round, inbox>> /\ (runs' = runs \/ pc # "tools")
    BY <1>f, <1>n, <1>14 DEF PumpDone, Goto, Return
  <2> QED
    BY <1>r, <2>1 DEF RoundKeeps
<1>15. CASE CommitInbox
  <2>1. UNCHANGED <<jobs, round>> /\ pc # "tools" /\ window' = window \o UserRounds(inbox)
    BY <1>f, <1>15 DEF CommitInbox, CommitFails
  <2>2. PICK t : t = UserRounds(inbox)
    OBVIOUS
  <2>3. t \in Seq(Rounds) /\ DOMAIN t = DOMAIN inbox /\ \A i \in DOMAIN inbox : t[i].msg = inbox[i]
    BY <1>0, <2>2, RoundTypes DEF UserRounds, UserRound
  <2>4. In(x, inbox) => ShownIn(x, t)
    BY <2>3 DEF ShownIn, In
  <2>5. ShownIn(x, t) => ShownIn(x, window')
    BY <2>1, <2>2, <2>3, JoinedShown DEF Others
  <2> QED
    BY <1>r, <1>x, <2>1, <2>4, <2>5 DEF RoundKeeps
<1>16. CASE CompleteTurn
  <2>1. UNCHANGED <<jobs, round, inbox>> /\ (runs' = runs \/ pc # "tools")
    BY <1>f, <1>n, <1>16 DEF CompleteTurn, Return
  <2> QED
    BY <1>r, <2>1 DEF RoundKeeps
<1>17. CASE ContinueTurn
  <2>1. UNCHANGED <<jobs, round, inbox>> /\ (runs' = runs \/ pc # "tools")
    BY <1>f, <1>n, <1>17 DEF ContinueTurn, Goto
  <2> QED
    BY <1>r, <2>1 DEF RoundKeeps
<1>18. CASE ReplyCalls
  <2>1. UNCHANGED <<jobs, inbox>> /\ pc # "tools" /\ round[c] = "none"
    BY <1>18 DEF ReplyCalls, Finishes, Open, InRound
  <2> QED
    BY <1>r, <2>1 DEF RoundKeeps
<1>19. CASE ReplyDone
  <2>1. UNCHANGED <<jobs, round, inbox>> /\ (runs' = runs \/ pc # "tools")
    BY <1>f, <1>n, <1>19 DEF ReplyDone, Goto, CommitFails, Fail, Return
  <2> QED
    BY <1>r, <2>1 DEF RoundKeeps
<1>20. CASE TooLong
  <2>1. UNCHANGED <<jobs, round, inbox>> /\ (runs' = runs \/ pc # "tools")
    BY <1>f, <1>n, <1>20 DEF TooLong, Goto, Fail, Return
  <2> QED
    BY <1>r, <2>1 DEF RoundKeeps
<1>21. CASE InferFails
  <2>1. UNCHANGED <<jobs, round, inbox>> /\ (runs' = runs \/ pc # "tools")
    BY <1>f, <1>n, <1>21 DEF InferFails, Fail, Return
  <2> QED
    BY <1>r, <2>1 DEF RoundKeeps
<1>22. CASE InferCancelled
  BY <1>n, <1>22 DEF InferCancelled
<1>23. CASE IdleJob
  <2>1. NextWake.n \in Calls /\ UNCHANGED <<round, runs>> /\ JobEnded(NextWake.n)
    BY <1>0, <1>23, JobTaken DEF IdleJob, PromptsOK
  <2>2. jobs[c] = "ended" => jobs'[c] = "ended"
    BY <1>t, <2>1 DEF JobEnded
  <2>3. inbox' = inbox \/ inbox' = Append(inbox, W("job", NextWake.n))
    BY <2>1 DEF JobEnded
  <2>4. In(x, inbox) => In(x, b)
    <3>1. NextWake.n \in Nat
      BY <2>1 DEF Calls
    <3> QED
      BY <1>x, <1>m, <1>a, <2>3, <3>1
  <2> QED
    BY <1>x, <2>1, <2>2, <2>4 DEF RoundKeeps
<1>24. CASE IdleCancel
  <2>1. FALSE
    BY <1>0, <1>24, CancelHead DEF IdleCancel, PromptsOK, NoCancel
  <2> QED
    BY <2>1
<1>25. CASE SteerParked
  <2>1. NextWake \in Wake /\ UNCHANGED <<round, runs, jobs>> /\ inbox' = Append(inbox, W("user", NextWake.n))
    BY <1>0, <1>25, WakeTaken DEF SteerParked, Steer
  <2>2. NextWake.n \in Nat
    BY <2>1 DEF Wake
  <2>3. In(x, inbox) => In(x, b)
    BY <1>x, <1>m, <1>a, <2>1, <2>2
  <2> QED
    BY <1>x, <2>1, <2>3 DEF RoundKeeps
<1>26. CASE IdlePrompt
  <2>1. UNCHANGED <<jobs, round, inbox>> /\ (runs' = runs \/ pc # "tools")
    BY <1>f, <1>n, <1>26 DEF IdlePrompt, TakeNext, Idle, StartTurn
  <2> QED
    BY <1>r, <2>1 DEF RoundKeeps
<1>27. CASE WorkerPrompt
  <2>1. UNCHANGED <<jobs, round, inbox>> /\ (runs' = runs \/ pc # "tools")
    BY <1>f, <1>n, <1>27 DEF WorkerPrompt, TakeNext, Idle
  <2> QED
    BY <1>r, <2>1 DEF RoundKeeps
<1>28. CASE Work
  <2>1. UNCHANGED <<jobs, round, inbox>> /\ (runs' = runs \/ pc # "tools")
    BY <1>f, <1>n, <1>28 DEF Work
  <2> QED
    BY <1>r, <2>1 DEF RoundKeeps
<1>29. CASE IdleResume
  <2>1. UNCHANGED <<jobs, round, inbox>> /\ (runs' = runs \/ pc # "tools")
    BY <1>f, <1>n, <1>29 DEF IdleResume, TakeNext, Idle, StartTurn
  <2> QED
    BY <1>r, <2>1 DEF RoundKeeps
<1>30. CASE IdleClose
  <2>1. UNCHANGED <<jobs, round, inbox>> /\ (runs' = runs \/ pc # "tools")
    BY <1>f, <1>n, <1>30 DEF IdleClose, TakeNext, Idle
  <2> QED
    BY <1>r, <2>1 DEF RoundKeeps
<1>31. CASE IdleSuspend
  <2>1. UNCHANGED <<jobs, round, inbox>> /\ (runs' = runs \/ pc # "tools")
    BY <1>f, <1>n, <1>31 DEF IdleSuspend, Idle
  <2> QED
    BY <1>r, <2>1 DEF RoundKeeps
<1>32. CASE Restart
  <2>1. UNCHANGED <<jobs, round, inbox>> /\ (runs' = runs \/ pc # "tools")
    BY <1>f, <1>n, <1>32 DEF Restart
  <2> QED
    BY <1>r, <2>1 DEF RoundKeeps
<1>33. CASE End
  <2>1. UNCHANGED <<jobs, round, inbox>> /\ (runs' = runs \/ pc # "tools")
    BY <1>f, <1>n, <1>33 DEF End
  <2> QED
    BY <1>r, <2>1 DEF RoundKeeps
<1>34. CASE Host
  <2>1. UNCHANGED <<jobs, round, inbox, runs>>
    BY <1>34 DEF Host, SendPrompt, SendResume, SendCancel, SendClose, Send
  <2> QED
    BY <2>1 DEF RoundKeeps
<1>35. CASE \E d \in Calls : JobEnds(d) \/ JobEndsAgain(d)
  <2>1. UNCHANGED <<jobs, round, inbox, runs>>
    BY <1>35 DEF JobEnds, JobEndsAgain
  <2> QED
    BY <2>1 DEF RoundKeeps
<1>36. CASE UNCHANGED vars
  <2>1. UNCHANGED <<jobs, round, inbox, runs>>
    BY <1>36 DEF vars
  <2> QED
    BY <2>1 DEF RoundKeeps
<1> QED
  BY <1>1, <1>2, <1>3, <1>4, <1>5, <1>6, <1>7, <1>8, <1>9, <1>10, <1>11, <1>12, <1>13, <1>14,
     <1>15, <1>16, <1>17, <1>18, <1>19, <1>20, <1>21, <1>22, <1>23, <1>24, <1>25, <1>26, <1>27,
     <1>28, <1>29, <1>30, <1>31, <1>32, <1>33, <1>34, <1>35, <1>36 DEF Next, Run, Turn

\* A job that ended and was not stopped: its wake is in the mailbox, or its
\* message is on its way, or its call's result is.
Reach(c) ==
  LET x == W("job", c) IN
  \/ In(x, mail)
  \/ c \in background /\ Got(x, inbox, window)
  \/ c \notin background /\ (jobs[c] = "ended" \/ c \in runs \/ round[c] = "done" \/ Resulted(c, window))

Reaches == Reliable /\ sent.cancel = 0 => \A c \in reported \ stopping : Reach(c)

\* The number of cancels sent never falls.
LEMMA CancelsStay ==
  ASSUME IInv, Flags, Others, PromptsOK, [Next]_vars
  PROVE  sent'.cancel = 0 => sent.cancel = 0
<1>1. Moves
  BY PromptMove DEF PromptsOK
<1> QED
  BY <1>1 DEF Moves, Settles, Adds, Sends, Steers, Begins, TakesPrompt, Writes, Commits

\* A step loses no end of a job on its way to the model.
LEMMA StepReaches ==
  ASSUME IInv, Flags, Others, Others', PromptsOK, NoCancel, JobWakes, JobsFit, RunsFit, Finishes, Ended, Reaches, [Next]_vars
  PROVE  Reaches'
<1>s. session' = session
  BY DEF Next, vars
<1> SUFFICES ASSUME Reliable, sent'.cancel = 0, NEW c \in reported' \ stopping' PROVE Reach(c)'
  BY <1>s DEF Reaches, Reliable
<1>1. sent.cancel = 0 /\ c \in Calls
  BY CancelsStay DEF Others
<1>2. RoundKeeps(c)
  BY <1>1, QuietSteps
<1>3. JobMove(c) /\ JobFits(c)
  BY <1>1, JobSteps DEF JobsFit
<1>4. In(W("job", c), mail) => In(W("job", c), mail') \/ Reads(c)
  BY <1>1, WakesKept
<1>5. window' = window \/ \E t \in Seq(Rounds) : window' = window \o t
  BY <1>1, ResultSteps DEF Reliable, ResultMove
<1>6. /\ Resulted(c, window) => Resulted(c, window')
      /\ ShownIn(W("job", c), window) => ShownIn(W("job", c), window')
  BY <1>5, WindowKeeps
<1>7. Got(W("job", c), inbox, window) => Got(W("job", c), inbox', window')
  BY <1>2, <1>6 DEF RoundKeeps, Got
<1>t. jobs \in [Calls -> {"none", "bg", "wait", "ended"}] /\ inbox \in Seq(Message)
  BY DEF IInv, Types, Others
<1>8. ASSUME c \in reported, c \in background' <=> c \in background, c \in stopping => c \in stopping' PROVE Reach(c)'
  <2>1. Reach(c)
    BY <1>1, <1>8 DEF Reaches
  <2>2. CASE In(W("job", c), mail) /\ ~Reads(c)
    BY <1>4, <2>2 DEF Reach
  <2>3. CASE In(W("job", c), mail) /\ Reads(c)
    <3>1. jobs[c] \in {"bg", "wait"}
      BY <1>3, <1>8, <2>3 DEF JobFits, Fits
    <3>2. CASE jobs[c] = "bg"
      <4>1. c \in background /\ inbox' = Append(inbox, W("job", c))
        BY <1>3, <2>3, <3>2 DEF JobFits, Fits, Reads, JobEnded
      <4>2. In(W("job", c), Append(inbox, W("job", c)))
        <5>1. W("job", c) \in Message
          BY <1>1 DEF W, Message, Calls
        <5> QED
          BY <1>t, <5>1, AppendElements
      <4> QED
        BY <1>8, <4>1, <4>2 DEF Reach, Got
    <3>3. CASE jobs[c] = "wait"
      <4>1. c \notin background /\ jobs'[c] = "ended"
        BY <1>1, <1>t, <1>3, <2>3, <3>3 DEF JobFits, Fits, Reads, JobEnded
      <4> QED
        BY <1>8, <4>1 DEF Reach
    <3> QED
      BY <3>1, <3>2, <3>3
  <2>4. CASE c \in background /\ Got(W("job", c), inbox, window)
    BY <1>7, <1>8, <2>4 DEF Reach
  <2>5. CASE c \notin background /\ (jobs[c] = "ended" \/ c \in runs \/ round[c] = "done" \/ Resulted(c, window))
    <3>1. c \in runs => round[c] = "wait"
      BY <1>3, <1>8 DEF JobFits, Fits, RunsFit
    <3> QED
      BY <1>2, <1>6, <1>8, <2>5, <3>1 DEF RoundKeeps, Reach
  <2> QED
    BY <2>1, <2>2, <2>3, <2>4, <2>5 DEF Reach
<1>9. CASE Rings(c)
  <2>1. CASE pc = "ended" /\ c \in live
    BY <1>9, <2>1 DEF Ended, Rings
  <2>2. CASE In(W("job", c), mail')
    BY <2>2 DEF Reach
  <2> QED
    BY <1>9, <2>1, <2>2 DEF Rings
<1>10. CASE ~Rings(c)
  <2>1. c \in reported /\ (c \in background' <=> c \in background) /\ (c \in stopping => c \in stopping')
    BY <1>3, <1>10 DEF JobMove, Stays, Drops, Stops, Made, Starts, RunsOn, Hears, SameBut
  <2> QED
    BY <1>8, <2>1
<1> QED
  BY <1>9, <1>10

\* A session that starts has no end of a job under way.
LEMMA InitReaches == Init => Reaches
  BY DEF Init, Reaches

\* The invariant of the ends under way gives JobReachesModel.
LEMMA JobsReach ==
  ASSUME IInv, Flags, Others, JobsFit, Reaches, Reliable
  PROVE  JobReachesModel
<1> SUFFICES ASSUME sent.cancel = 0, NEW c \in reported \ stopping
             PROVE  \/ \E i \in DOMAIN mail : mail[i] = W("job", c)
                    \/ c \in background /\ Once(W("job", c))
                    \/ c \notin background /\ (jobs[c] = "ended" \/ c \in runs \/ round[c] = "done")
                    \/ c \notin background /\ \E i \in DOMAIN window : window[i].calls[c] = "result"
  BY DEF JobReachesModel
<1>1. Reach(c)
  BY DEF Reaches
<1>2. ~GotTwice(W("job", c), inbox, window)
  BY DEF JobsFit, JobFits, Fits, Others
<1>3. Got(W("job", c), inbox, window) => Once(W("job", c))
  BY <1>2, GotIsDelivered DEF Once
<1> QED
  BY <1>1, <1>3 DEF Reach, In, Resulted

-----------------------------------------------------------------------------
(* What a turn that blocks waits on.                                       *)

\* While only the model fails, an answer is only held by the turn it started,
\* until its first calls run, and a round that is complete commits at once.
AnsPc ==
  Reliable =>
    /\ ans # 0 => pc \in {"begin", "top"} /\ first = 0
    /\ Open /\ Complete => pc = "top" /\ ans = 0
    /\ ans # 0 /\ pc = "top" => Open

\* No turn goes on: the session is idle, or about to write a prompt's turn.
Resting == pc \in {"idle", "ended", "work"} \/ (pc = "suspended" /\ ~suspended) \/ (pc = "begin" /\ first # 0)

\* Call c's job is waited on, or its end is not taken.
Waited(c) == jobs[c] \in {"wait", "ended"}

\* While only the model fails, a job is waited on by a call of a turn that
\* goes on, and no answer comes in between.
JobWaits == Reliable => \A c \in Calls : Waited(c) => round[c] = "wait" /\ ~Resting /\ ans = 0

\* A turn blocks on a call that waits, or on a background job.
Blocks == pc = "wait" => IF Open THEN Waits /\ JobRuns = {} ELSE jobs # NoJobs

\* A step keeps an answer in hand only where the session acts on it.
LEMMA StepAnsPc ==
  ASSUME IInv, Flags, Others, PromptsOK, RunsFit, Finishes, AnsPc, [Next]_vars
  PROVE  AnsPc'
<1>s. session' = session
  BY DEF Next, vars
<1> SUFFICES ASSUME Reliable
             PROVE  /\ ans' # 0 => pc' \in {"begin", "top"} /\ first' = 0
                    /\ Open' /\ Complete' => pc' = "top" /\ ans' = 0
                    /\ ans' # 0 /\ pc' = "top" => Open'
  BY <1>s DEF AnsPc, Reliable
<1>f. "commit" \notin session.faults /\ "tool" \notin session.faults /\ "start" \notin session.faults
  BY DEF Reliable
<1>a. /\ ans # 0 => pc \in {"begin", "top"} /\ first = 0
      /\ Open /\ Complete => pc = "top" /\ ans = 0
      /\ ans # 0 /\ pc = "top" => Open
  BY DEF AnsPc
<1>p. FirstAt
  BY DEF PromptsOK
<1>r. round' = round => (Open' <=> Open) /\ (Complete' <=> Complete)
  BY DEF Open, Complete, InRound
<1>n. round' = NoRound => ~Open'
  BY DEF Open, InRound, NoRound
<1>t. round \in [Calls -> {"none", "new", "done", "park", "wait"}] /\ runs \subseteq Calls
  BY DEF IInv, Types
<1> USE <1>f, <1>a, <1>p, <1>r DEF FirstAt, flags, locals, data, job, rest, count
<1>1. CASE BeginPrompt
  BY <1>n, <1>1 DEF BeginPrompt, Goto, CommitFails, Fail, Return
<1>2. CASE BeginResume
  BY <1>2 DEF BeginResume, Goto, Fail, Return
<1>3. CASE CommitRound
  BY <1>n, <1>3 DEF CommitRound, CommitFails, Fail, Return
<1>4. CASE RefuseAnswer
  BY <1>4 DEF RefuseAnswer, Fail, Return
<1>5. CASE StartCalls
  BY <1>5 DEF StartCalls, Advance, Goto
<1>6. CASE TakeJobEnds
  BY <1>6 DEF TakeJobEnds, Advance, Goto
<1>7. CASE WaitForJobs
  BY <1>7 DEF WaitForJobs, Advance, Goto
<1>8. CASE Park
  BY <1>8 DEF Park, Return
<1>9. CASE Poll
  BY <1>9 DEF Poll, Goto
<1>10. CASE Tools
  <2>1. PICK out \in [runs -> Outcome \ {"cancelled"}], killed \in SUBSET Calls :
          RunsEnd(Outcome, out, killed) /\ round' = Recorded(out) /\ StartJobs(out, killed)
    BY <1>10 DEF Tools
  <2>2. \A d \in runs : out[d] \notin {"err", "badstart"}
    BY <2>1 DEF RunsEnd, CanEnd
  <2>3. pc' = "top" /\ ans' = ans /\ ans = 0 /\ first' = first
    BY <1>10, <2>2 DEF Tools, Goto, RunsEnd, CanEnd
  <2> QED
    BY <2>3
<1>11. CASE ToolsCancelled
  <2>1. PICK out \in [runs -> Outcome] :
          (\E c \in runs : out[c] = "cancelled") /\ round' = Recorded(out)
    BY <1>11 DEF ToolsCancelled
  <2>2. PICK c \in runs : out[c] = "cancelled"
    BY <2>1
  <2>3. round'[c] = round[c] /\ c \in Calls
    BY <1>t, <2>1, <2>2 DEF Recorded
  <2>4. round[c] \in {"new", "park", "wait"}
    BY <1>11, <2>2 DEF ToolsCancelled, RunsFit
  <2>5. ~Complete'
    BY <2>3, <2>4 DEF Complete, InRound
  <2> QED
    BY <1>11, <2>5 DEF ToolsCancelled, Return
<1>12. CASE PumpWake
  BY <1>12 DEF PumpWake, HandleRunning
<1>13. CASE PumpSuspend
  BY <1>13 DEF PumpSuspend
<1>14. CASE PumpDone
  BY <1>14 DEF PumpDone, FailCancelled, Return, Goto
<1>15. CASE CommitInbox
  BY <1>15 DEF CommitInbox, Goto, CommitFails, Fail, Return
<1>16. CASE CompleteTurn
  BY <1>16 DEF CompleteTurn, Return
<1>17. CASE ContinueTurn
  BY <1>17 DEF ContinueTurn, Goto
<1>18. CASE ReplyCalls
  <2>1. pc' = "top" /\ ans' = 0 /\ first' = first /\ first = 0
    BY <1>18 DEF ReplyCalls, Goto
  <2> QED
    BY <2>1
<1>19. CASE ReplyDone
  BY <1>19 DEF ReplyDone, Goto, CommitFails, Fail, Return
<1>20. CASE TooLong
  BY <1>20 DEF TooLong, Goto, Fail, Return
<1>21. CASE InferFails
  BY <1>21 DEF InferFails, Fail, Return
<1>22. CASE InferCancelled
  BY <1>22 DEF InferCancelled, FailCancelled, Return
<1>23. CASE IdleJob
  BY <1>23 DEF IdleJob, TakeNext, Idle
<1>24. CASE IdleCancel
  BY <1>24 DEF IdleCancel, TakeNext, Idle
<1>25. CASE SteerParked
  BY <1>25 DEF SteerParked, TakeNext, Idle
<1>26. CASE IdlePrompt
  BY <1>26 DEF IdlePrompt, TakeNext, Idle, StartTurn
<1>27. CASE WorkerPrompt
  BY <1>27 DEF WorkerPrompt, TakeNext, Idle
<1>28. CASE Work
  BY <1>28 DEF Work
<1>29. CASE IdleResume
  BY <1>29 DEF IdleResume, TakeNext, Idle, StartTurn
<1>30. CASE IdleClose
  BY <1>30 DEF IdleClose, TakeNext, Idle
<1>31. CASE IdleSuspend
  BY <1>31 DEF IdleSuspend, Idle
<1>32. CASE Restart
  BY <1>32 DEF Restart
<1>33. CASE End
  BY <1>33 DEF End
<1>34. CASE Host
  <2>1. UNCHANGED <<ans, pc, first, round>>
    BY <1>34 DEF Host, SendPrompt, SendResume, SendCancel, SendClose, Send
  <2> QED
    BY <2>1
<1>35. CASE \E c \in Calls : JobEnds(c) \/ JobEndsAgain(c)
  <2>1. UNCHANGED <<ans, pc, first, round>>
    BY <1>35 DEF JobEnds, JobEndsAgain
  <2> QED
    BY <2>1
<1>36. CASE UNCHANGED vars
  <2>1. UNCHANGED <<ans, pc, first, round>>
    BY <1>36 DEF vars
  <2> QED
    BY <2>1
<1> QED
  BY <1>1, <1>2, <1>3, <1>4, <1>5, <1>6, <1>7, <1>8, <1>9, <1>10, <1>11, <1>12, <1>13, <1>14,
     <1>15, <1>16, <1>17, <1>18, <1>19, <1>20, <1>21, <1>22, <1>23, <1>24, <1>25, <1>26, <1>27,
     <1>28, <1>29, <1>30, <1>31, <1>32, <1>33, <1>34, <1>35, <1>36 DEF Next, Run, Turn

\* A turn that blocks has a round that waits with nothing to run, or jobs.
LEMMA StepBlocks ==
  ASSUME IInv, Flags, Others, Finishes, Blocks, [Next]_vars
  PROVE  Blocks'
<1>p. Finishes
  OBVIOUS
<1> USE DEF Blocks, flags, locals, data, job, rest, count
<1>1. CASE BeginPrompt
  BY <1>1 DEF BeginPrompt, Goto, CommitFails, Fail, Return
<1>2. CASE BeginResume
  BY <1>2 DEF BeginResume, Goto, Fail, Return
<1>3. CASE CommitRound
  BY <1>3 DEF CommitRound, CommitFails, Fail, Return
<1>4. CASE RefuseAnswer
  BY <1>4 DEF RefuseAnswer, Fail, Return
<1>5. CASE StartCalls
  BY <1>5 DEF StartCalls, Advance, Goto
<1>6. CASE TakeJobEnds
  BY <1>6 DEF TakeJobEnds, Advance, Goto
<1>7. CASE WaitForJobs
  <2>1. Open /\ Waits /\ JobRuns = {} /\ UNCHANGED <<round, jobs>>
    BY <1>7 DEF WaitForJobs, Advance
  <2>2. Open' /\ Waits' /\ JobRuns' = {}
    BY <2>1 DEF Open, InRound, Waits, JobRuns
  <2> QED
    BY <2>2
<1>8. CASE Park
  BY <1>8 DEF Park, Return
<1>9. CASE Poll
  BY <1>9 DEF Poll, Goto
<1>10. CASE Tools
  BY <1>10 DEF Tools, Goto, Fail, Return
<1>11. CASE ToolsCancelled
  BY <1>11 DEF ToolsCancelled, Return
<1>12. CASE PumpWake
  BY <1>12 DEF PumpWake, HandleRunning
<1>13. CASE PumpSuspend
  BY <1>13 DEF PumpSuspend
<1>14. CASE PumpDone
  BY <1>14 DEF PumpDone, FailCancelled, Return, Goto
<1>15. CASE CommitInbox
  BY <1>15 DEF CommitInbox, Goto, CommitFails, Fail, Return
<1>16. CASE CompleteTurn
  BY <1>16 DEF CompleteTurn, Return
<1>17. CASE ContinueTurn
  <2>1. UNCHANGED <<round, jobs>> /\ ~Open /\ (pc' = "wait" => jobs # NoJobs)
    BY <1>17 DEF ContinueTurn, Goto, Finishes
  <2>2. ~Open'
    BY <2>1 DEF Open, InRound
  <2> QED
    BY <2>1, <2>2
<1>18. CASE ReplyCalls
  BY <1>18 DEF ReplyCalls, Goto
<1>19. CASE ReplyDone
  BY <1>19 DEF ReplyDone, Goto, CommitFails, Fail, Return
<1>20. CASE TooLong
  BY <1>20 DEF TooLong, Goto, Fail, Return
<1>21. CASE InferFails
  BY <1>21 DEF InferFails, Fail, Return
<1>22. CASE InferCancelled
  BY <1>22 DEF InferCancelled, FailCancelled, Return
<1>23. CASE IdleJob
  BY <1>23 DEF IdleJob, TakeNext, Idle
<1>24. CASE IdleCancel
  BY <1>24 DEF IdleCancel, TakeNext, Idle
<1>25. CASE SteerParked
  BY <1>25 DEF SteerParked, TakeNext, Idle
<1>26. CASE IdlePrompt
  BY <1>26 DEF IdlePrompt, TakeNext, Idle, StartTurn
<1>27. CASE WorkerPrompt
  BY <1>27 DEF WorkerPrompt, TakeNext, Idle
<1>28. CASE Work
  BY <1>28 DEF Work
<1>29. CASE IdleResume
  BY <1>29 DEF IdleResume, TakeNext, Idle, StartTurn
<1>30. CASE IdleClose
  BY <1>30 DEF IdleClose, TakeNext, Idle
<1>31. CASE IdleSuspend
  BY <1>31 DEF IdleSuspend, Idle
<1>32. CASE Restart
  BY <1>32 DEF Restart
<1>33. CASE End
  BY <1>33 DEF End
<1>34. CASE Host
  <2>1. UNCHANGED <<pc, round, jobs>>
    BY <1>34 DEF Host, SendPrompt, SendResume, SendCancel, SendClose, Send
  <2> QED
    BY <2>1 DEF Open, InRound, Waits, JobRuns
<1>35. CASE \E c \in Calls : JobEnds(c) \/ JobEndsAgain(c)
  <2>1. UNCHANGED <<pc, round, jobs>>
    BY <1>35 DEF JobEnds, JobEndsAgain
  <2> QED
    BY <2>1 DEF Open, InRound, Waits, JobRuns
<1>36. CASE UNCHANGED vars
  <2>1. UNCHANGED <<pc, round, jobs>>
    BY <1>36 DEF vars
  <2> QED
    BY <2>1 DEF Open, InRound, Waits, JobRuns
<1> QED
  BY <1>1, <1>2, <1>3, <1>4, <1>5, <1>6, <1>7, <1>8, <1>9, <1>10, <1>11, <1>12, <1>13, <1>14,
     <1>15, <1>16, <1>17, <1>18, <1>19, <1>20, <1>21, <1>22, <1>23, <1>24, <1>25, <1>26, <1>27,
     <1>28, <1>29, <1>30, <1>31, <1>32, <1>33, <1>34, <1>35, <1>36 DEF Next, Run, Turn

\* A step keeps the call of every job that is waited on in the round.
LEMMA StepJobWaits ==
  ASSUME IInv, Flags, Others, PromptsOK, JobsFit, RunsFit, Finishes, AnsPc, JobWaits, [Next]_vars
  PROVE  JobWaits'
<1>s. session' = session
  BY DEF Next, vars
<1> SUFFICES ASSUME Reliable, NEW c \in Calls, jobs'[c] \in {"wait", "ended"}
             PROVE  round'[c] = "wait" /\ ~Resting' /\ ans' = 0
  BY <1>s DEF JobWaits, Waited, Reliable
<1>f. "commit" \notin session.faults /\ "tool" \notin session.faults /\ "start" \notin session.faults
  BY DEF Reliable
<1>w. jobs[c] \in {"wait", "ended"} => round[c] = "wait" /\ ~Resting /\ ans = 0
  BY DEF JobWaits, Waited
<1>t. /\ jobs \in [Calls -> {"none", "bg", "wait", "ended"}]
      /\ round \in [Calls -> {"none", "new", "done", "park", "wait"}]
  BY DEF IInv, Types
<1>p. FirstAt /\ Phase
  BY DEF PromptsOK, IInv
<1> USE <1>p DEF Phase, FirstAt, AnsPc, Resting, Flags, flags, locals, data, job, rest, count
<1>1. CASE BeginPrompt
  BY <1>f, <1>w, <1>1 DEF BeginPrompt, Goto, CommitFails, Fail, Return
<1>2. CASE BeginResume
  BY <1>f, <1>w, <1>2 DEF BeginResume, Goto, Fail, Return, Finishes, Open, InRound
<1>3. CASE CommitRound
  <2>1. Complete /\ UNCHANGED jobs
    BY <1>3 DEF CommitRound
  <2>2. round[c] \in {"none", "done"}
    BY <1>t, <2>1 DEF Complete, InRound
  <2>3. round[c] = "wait"
    BY <1>w, <2>1
  <2> QED
    BY <2>2, <2>3
<1>4. CASE RefuseAnswer
  BY <1>f, <1>w, <1>4 DEF RefuseAnswer, Fail, Return, BadAnswer
<1>5. CASE StartCalls
  BY <1>f, <1>w, <1>5 DEF StartCalls, Advance, Goto
<1>6. CASE TakeJobEnds
  BY <1>f, <1>w, <1>6 DEF TakeJobEnds, Advance, Goto
<1>7. CASE WaitForJobs
  BY <1>f, <1>w, <1>7 DEF WaitForJobs, Advance, Goto
<1>8. CASE Park
  BY <1>f, <1>w, <1>8 DEF Park, Return, Waits
<1>9. CASE Poll
  BY <1>f, <1>w, <1>9 DEF Poll, Goto
<1>10. CASE Tools
  <2>1. PICK out \in [runs -> Outcome \ {"cancelled"}], killed \in SUBSET Calls :
          RunsEnd(Outcome, out, killed) /\ round' = Recorded(out) /\ StartJobs(out, killed)
    BY <1>10 DEF Tools
  <2>2. \A d \in runs : out[d] \notin {"err", "badstart"}
    BY <1>f, <2>1 DEF RunsEnd, CanEnd
  <2>3. pc' = "top" /\ ans' = ans /\ ans = 0
    BY <1>f, <1>10, <2>2 DEF Tools, Goto, RunsEnd, CanEnd
  <2>4. round'[c] = "wait"
    <3>1. CASE c \in Started(out)
      BY <2>1, <3>1 DEF StartJobs, Started, Recorded
    <3>2. CASE c \notin Started(out)
      <4>1. jobs[c] \in {"wait", "ended"}
        BY <2>1, <3>2 DEF StartJobs
      <4>2. c \notin runs
        BY <1>10, <4>1 DEF Tools, IInv, RunsOK
      <4> QED
        BY <1>w, <2>1, <4>1, <4>2 DEF Recorded
    <3> QED
      BY <3>1, <3>2
  <2> QED
    BY <2>3, <2>4
<1>11. CASE ToolsCancelled
  BY <1>f, <1>w, <1>11 DEF ToolsCancelled, Return, NoJobs
<1>12. CASE PumpWake
  <2>1. jobs[c] \in {"wait", "ended"}
    BY <1>t, <1>12 DEF PumpWake, HandleRunning, JobEnded
  <2> QED
    BY <1>w, <1>12, <2>1 DEF PumpWake, HandleRunning
<1>13. CASE PumpSuspend
  BY <1>f, <1>w, <1>13 DEF PumpSuspend
<1>14. CASE PumpDone
  BY <1>f, <1>w, <1>14 DEF PumpDone, FailCancelled, Return, Goto, CancelJobs, NoJobs
<1>15. CASE CommitInbox
  BY <1>f, <1>w, <1>15 DEF CommitInbox, Goto, CommitFails, Fail, Return
<1>16. CASE CompleteTurn
  BY <1>f, <1>w, <1>16 DEF CompleteTurn, Return, NoJobs
<1>17. CASE ContinueTurn
  BY <1>f, <1>w, <1>17 DEF ContinueTurn, Goto
<1>18. CASE ReplyCalls
  BY <1>f, <1>w, <1>18 DEF ReplyCalls, Goto, Finishes, Open, InRound
<1>19. CASE ReplyDone
  BY <1>f, <1>w, <1>19 DEF ReplyDone, Goto, CommitFails, Fail, Return, Finishes, Open, InRound
<1>20. CASE TooLong
  BY <1>f, <1>w, <1>20 DEF TooLong, Goto, Fail, Return, Finishes, Open, InRound
<1>21. CASE InferFails
  BY <1>f, <1>w, <1>21 DEF InferFails, Fail, Return, Finishes, Open, InRound
<1>22. CASE InferCancelled
  BY <1>f, <1>w, <1>22 DEF InferCancelled, FailCancelled, Return, CancelJobs, NoJobs
<1>23. CASE IdleJob
  <2>1. jobs[c] \in {"wait", "ended"}
    BY <1>t, <1>23 DEF IdleJob, JobEnded
  <2> QED
    BY <1>w, <1>23, <2>1 DEF IdleJob, TakeNext, Idle
<1>24. CASE IdleCancel
  BY <1>f, <1>w, <1>24 DEF IdleCancel, TakeNext, Idle, CancelJobs, NoJobs
<1>25. CASE SteerParked
  BY <1>f, <1>w, <1>25 DEF SteerParked, TakeNext, Idle
<1>26. CASE IdlePrompt
  BY <1>f, <1>w, <1>26 DEF IdlePrompt, TakeNext, Idle, StartTurn
<1>27. CASE WorkerPrompt
  BY <1>f, <1>w, <1>27 DEF WorkerPrompt, TakeNext, Idle
<1>28. CASE Work
  BY <1>f, <1>w, <1>28 DEF Work
<1>29. CASE IdleResume
  BY <1>f, <1>w, <1>29 DEF IdleResume, TakeNext, Idle, StartTurn
<1>30. CASE IdleClose
  BY <1>f, <1>w, <1>30 DEF IdleClose, TakeNext, Idle
<1>31. CASE IdleSuspend
  BY <1>f, <1>w, <1>31 DEF IdleSuspend, Idle
<1>32. CASE Restart
  BY <1>f, <1>w, <1>32 DEF Restart
<1>33. CASE End
  BY <1>f, <1>w, <1>33 DEF End
<1>34. CASE Host
  <2>1. UNCHANGED <<jobs, round, ans, pc, first, suspended>>
    BY <1>34 DEF Host, SendPrompt, SendResume, SendCancel, SendClose, Send
  <2> QED
    BY <1>w, <2>1
<1>35. CASE \E d \in Calls : JobEnds(d) \/ JobEndsAgain(d)
  <2>1. UNCHANGED <<jobs, round, ans, pc, first, suspended>>
    BY <1>35 DEF JobEnds, JobEndsAgain
  <2> QED
    BY <1>w, <2>1
<1>36. CASE UNCHANGED vars
  BY <1>w, <1>36 DEF vars
<1> QED
  BY <1>1, <1>2, <1>3, <1>4, <1>5, <1>6, <1>7, <1>8, <1>9, <1>10, <1>11, <1>12, <1>13, <1>14,
     <1>15, <1>16, <1>17, <1>18, <1>19, <1>20, <1>21, <1>22, <1>23, <1>24, <1>25, <1>26, <1>27,
     <1>28, <1>29, <1>30, <1>31, <1>32, <1>33, <1>34, <1>35, <1>36 DEF Next, Run, Turn

\* A session that starts is not blocked.
LEMMA InitBlocks == Init => AnsPc /\ Blocks /\ JobWaits
  BY DEF Init, AnsPc, Blocks, JobWaits, Waited, NoJobs, NoRound, Open, InRound

-----------------------------------------------------------------------------
(* The answers on their way to the turn.                                   *)

Ask(n)   == W("resume", n)
Asked(n) == In(Ask(n), held) \/ In(Ask(n), mail)

\* A host that answers only what it is asked has one answer on its way at a
\* time, and none while a turn holds one.
OneAsked ==
  Quiet =>
    /\ \A n, m \in Nat : Asked(n) /\ Asked(m) => n = m
    /\ \A n \in Nat : /\ ~Twice(Ask(n), mail) /\ ~Twice(Ask(n), held)
                      /\ ~(In(Ask(n), held) /\ In(Ask(n), mail))
    /\ ans # 0 => \A n \in Nat : ~Asked(n)

\* How a step moves the answers: it brings none, or one that the mailbox held
\* waits for the turn's end, or starts its turn, or the host sends one.
AsksStay ==
  /\ \A n \in Nat :
       /\ In(Ask(n), mail') => In(Ask(n), mail)
       /\ In(Ask(n), held') => In(Ask(n), held)
       /\ Twice(Ask(n), mail') => Twice(Ask(n), mail)
       /\ Twice(Ask(n), held') => Twice(Ask(n), held)
  /\ ans' # 0 => ans # 0
AskWaits ==
  /\ mail # <<>> /\ mail' = Tail(mail)
  /\ \E n \in Nat : Head(mail) = Ask(n) /\ held' = Append(held, Ask(n))
  /\ UNCHANGED ans

\* Queues that only lose wakes answer no more questions.
LEMMA AsksFewer ==
  ASSUME Within(mail', mail), Within(held', held), ans' = 0 \/ ans' = ans
  PROVE  AsksStay
<1>1. \A x : (In(x, mail') => In(x, mail)) /\ (Twice(x, mail') => Twice(x, mail))
  BY WithinElements
<1>2. \A x : (In(x, held') => In(x, held)) /\ (Twice(x, held') => Twice(x, held))
  BY WithinElements
<1> QED
  BY <1>1, <1>2 DEF AsksStay

\* A wake that is no answer answers no question.
LEMMA OtherSent ==
  ASSUME Others, NEW w \in Wake, w.kind # "resume", mail' = Append(mail, w), UNCHANGED <<held, ans>>
  PROVE  AsksStay
<1>1. mail \in Seq(Wake) /\ \A n : w # Ask(n)
  BY DEF Others, Ask, W
<1>2. \A x : In(x, Append(mail, w)) <=> In(x, mail) \/ x = w
  BY <1>1, AppendElements
<1>3. \A x : Twice(x, Append(mail, w)) <=> Twice(x, mail) \/ (In(x, mail) /\ x = w)
  BY <1>1, AppendTwice
<1> QED
  BY <1>1, <1>2, <1>3 DEF AsksStay

\* A wake read in a running turn leaves the mailbox; an answer is held for
\* later.
LEMMA WakeRead ==
  ASSUME Others, mail # <<>>, mail' = Tail(mail), HandleRunning(Head(mail)), UNCHANGED ans
  PROVE  AsksStay \/ AskWaits
<1>1. mail \in Seq(Wake) /\ held \in Seq(Wake)
  BY DEF Others
<1>2. Head(mail) \in Wake /\ Within(mail', mail)
  BY <1>1, HeadTaken
<1>3. \A x : (In(x, mail') => In(x, mail)) /\ (Twice(x, mail') => Twice(x, mail))
  BY <1>2, WithinElements
<1>4. CASE Head(mail).kind = "resume"
  <2>1. Head(mail).n \in Nat /\ Head(mail) = Ask(Head(mail).n)
    BY <1>2, <1>4 DEF Wake, Ask, W
  <2>2. held' = Append(held, Head(mail))
    BY <1>4 DEF HandleRunning
  <2> QED
    BY <2>1, <2>2 DEF AskWaits
<1>5. CASE Head(mail).kind = "close"
  <2>1. held' = Append(held, Head(mail)) /\ \A n : Head(mail) # Ask(n)
    BY <1>5 DEF HandleRunning, Ask, W
  <2>2. \A x : In(x, Append(held, Head(mail))) <=> In(x, held) \/ x = Head(mail)
    BY <1>1, <1>2, AppendElements
  <2>3. \A x : Twice(x, Append(held, Head(mail))) <=> Twice(x, held) \/ (In(x, held) /\ x = Head(mail))
    BY <1>1, <1>2, AppendTwice
  <2> QED
    BY <1>3, <2>1, <2>2, <2>3 DEF AsksStay
<1>6. CASE Head(mail).kind \notin {"resume", "close"}
  <2>1. held' = held
    BY <1>6 DEF HandleRunning
  <2> QED
    BY <1>3, <2>1 DEF AsksStay
<1> QED
  BY <1>4, <1>5, <1>6

\* Every step leaves the answers on their way, takes one, holds one, or is the
\* host sending one.
LEMMA AskMove ==
  ASSUME IInv, Flags, Others, [Next]_vars
  PROVE  AsksStay \/ AskWaits \/ IdleResume \/ SendResume
<1>t. TypeOK
  BY TypesOK
<1>s. Within(mail, mail) /\ Within(held, held)
  BY WithinSelf
<1>k. (\E kind \in {"job", "cancel", "prompt", "close"} : TakeNext(kind)) => Within(mail', mail) /\ Within(held', held)
  <2> SUFFICES ASSUME NEW kind, TakeNext(kind) PROVE Within(mail', mail) /\ Within(held', held)
    OBVIOUS
  <2>1. mail \in Seq(Wake) /\ held \in Seq(Wake)
    BY DEF Others
  <2>2. CASE held # <<>> /\ held' = Tail(held) /\ mail' = mail
    BY <1>s, <2>1, <2>2, WithinTail
  <2>3. CASE mail # <<>> /\ mail' = Tail(mail) /\ held' = held
    BY <1>s, <2>1, <2>3, WithinTail
  <2> QED
    BY <1>t, <2>2, <2>3, WakeTaken
<1>c. TakeCancel => Within(mail', mail)
  BY <1>t, CancelTaken
<1>a. (Within(mail', mail) /\ Within(held', held) /\ (ans' = 0 \/ ans' = ans)) => AsksStay
  BY AsksFewer
<1> USE <1>s DEF flags, locals, data, job, rest, count
<1>1. CASE BeginPrompt
  <2>1. UNCHANGED <<mail, held>> /\ (ans' = 0 \/ ans' = ans)
    BY <1>1 DEF BeginPrompt, Goto, CommitFails, Fail, Return
  <2> QED
    BY <1>a, <2>1
<1>2. CASE BeginResume
  <2>1. UNCHANGED <<mail, held>> /\ (ans' = 0 \/ ans' = ans)
    BY <1>2 DEF BeginResume, Goto, Fail, Return
  <2> QED
    BY <1>a, <2>1
<1>3. CASE CommitRound
  <2>1. UNCHANGED <<mail, held>> /\ (ans' = 0 \/ ans' = ans)
    BY <1>3 DEF CommitRound, CommitFails, Fail, Return
  <2> QED
    BY <1>a, <2>1
<1>4. CASE RefuseAnswer
  <2>1. UNCHANGED <<mail, held>> /\ (ans' = 0 \/ ans' = ans)
    BY <1>4 DEF RefuseAnswer, Fail, Return
  <2> QED
    BY <1>a, <2>1
<1>5. CASE StartCalls
  <2>1. UNCHANGED <<mail, held>> /\ (ans' = 0 \/ ans' = ans)
    BY <1>5 DEF StartCalls, Advance, Goto
  <2> QED
    BY <1>a, <2>1
<1>6. CASE TakeJobEnds
  <2>1. UNCHANGED <<mail, held>> /\ (ans' = 0 \/ ans' = ans)
    BY <1>6 DEF TakeJobEnds, Advance, Goto
  <2> QED
    BY <1>a, <2>1
<1>7. CASE WaitForJobs
  <2>1. UNCHANGED <<mail, held>> /\ (ans' = 0 \/ ans' = ans)
    BY <1>7 DEF WaitForJobs, Advance, Goto
  <2> QED
    BY <1>a, <2>1
<1>8. CASE Park
  <2>1. UNCHANGED <<mail, held>> /\ (ans' = 0 \/ ans' = ans)
    BY <1>8 DEF Park, Return
  <2> QED
    BY <1>a, <2>1
<1>9. CASE Poll
  <2>1. UNCHANGED <<mail, held>> /\ (ans' = 0 \/ ans' = ans)
    BY <1>9 DEF Poll, Goto
  <2> QED
    BY <1>a, <2>1
<1>10. CASE Tools
  <2>1. UNCHANGED <<mail, held>> /\ (ans' = 0 \/ ans' = ans)
    BY <1>10 DEF Tools, Goto, Fail, Return
  <2> QED
    BY <1>a, <2>1
<1>11. CASE ToolsCancelled
  <2>1. TakeCancel /\ held' = held /\ ans' = 0
    BY <1>11 DEF ToolsCancelled, Return, Return
  <2> QED
    BY <1>a, <1>c, <2>1
<1>12. CASE PumpWake
  <2>1. mail # <<>> /\ mail' = Tail(mail) /\ HandleRunning(Head(mail)) /\ ans' = ans
    BY <1>12 DEF PumpWake
  <2> QED
    BY <2>1, WakeRead
<1>13. CASE PumpSuspend
  <2>1. UNCHANGED <<mail, held>> /\ (ans' = 0 \/ ans' = ans)
    BY <1>13 DEF PumpSuspend
  <2> QED
    BY <1>a, <2>1
<1>14. CASE PumpDone
  <2>1. UNCHANGED <<mail, held>> /\ (ans' = 0 \/ ans' = ans)
    BY <1>14 DEF PumpDone, FailCancelled, Return, Goto
  <2> QED
    BY <1>a, <2>1
<1>15. CASE CommitInbox
  <2>1. UNCHANGED <<mail, held>> /\ (ans' = 0 \/ ans' = ans)
    BY <1>15 DEF CommitInbox, Goto, CommitFails, Fail, Return
  <2> QED
    BY <1>a, <2>1
<1>16. CASE CompleteTurn
  <2>1. UNCHANGED <<mail, held>> /\ (ans' = 0 \/ ans' = ans)
    BY <1>16 DEF CompleteTurn, Return
  <2> QED
    BY <1>a, <2>1
<1>17. CASE ContinueTurn
  <2>1. UNCHANGED <<mail, held>> /\ (ans' = 0 \/ ans' = ans)
    BY <1>17 DEF ContinueTurn, Goto
  <2> QED
    BY <1>a, <2>1
<1>18. CASE ReplyCalls
  <2>1. UNCHANGED <<mail, held>> /\ (ans' = 0 \/ ans' = ans)
    BY <1>18 DEF ReplyCalls, Goto
  <2> QED
    BY <1>a, <2>1
<1>19. CASE ReplyDone
  <2>1. UNCHANGED <<mail, held>> /\ (ans' = 0 \/ ans' = ans)
    BY <1>19 DEF ReplyDone, Goto, CommitFails, Fail, Return
  <2> QED
    BY <1>a, <2>1
<1>20. CASE TooLong
  <2>1. UNCHANGED <<mail, held>> /\ (ans' = 0 \/ ans' = ans)
    BY <1>20 DEF TooLong, Goto, Fail, Return
  <2> QED
    BY <1>a, <2>1
<1>21. CASE InferFails
  <2>1. UNCHANGED <<mail, held>> /\ (ans' = 0 \/ ans' = ans)
    BY <1>21 DEF InferFails, Fail, Return
  <2> QED
    BY <1>a, <2>1
<1>22. CASE InferCancelled
  <2>1. TakeCancel /\ held' = held /\ ans' = 0
    BY <1>22 DEF InferCancelled, FailCancelled, Return, Return
  <2> QED
    BY <1>a, <1>c, <2>1
<1>23. CASE IdleJob
  <2>1. TakeNext("job") /\ ans' = ans
    BY <1>23 DEF IdleJob
  <2> QED
    BY <1>a, <1>k, <2>1
<1>24. CASE IdleCancel
  <2>1. TakeNext("cancel") /\ ans' = ans
    BY <1>24 DEF IdleCancel
  <2> QED
    BY <1>a, <1>k, <2>1
<1>25. CASE SteerParked
  <2>1. TakeNext("prompt") /\ ans' = ans
    BY <1>25 DEF SteerParked
  <2> QED
    BY <1>a, <1>k, <2>1
<1>26. CASE IdlePrompt
  <2>1. TakeNext("prompt") /\ ans' = ans
    BY <1>26 DEF IdlePrompt, StartTurn
  <2> QED
    BY <1>a, <1>k, <2>1
<1>27. CASE WorkerPrompt
  <2>1. TakeNext("prompt") /\ ans' = ans
    BY <1>27 DEF WorkerPrompt
  <2> QED
    BY <1>a, <1>k, <2>1
<1>28. CASE Work
  <2>1. (TakeCancel \/ mail' = mail) /\ held' = held /\ ans' = ans
    BY <1>28 DEF Work
  <2> QED
    BY <1>a, <1>c, <2>1
<1>29. CASE IdleResume
  BY <1>29
<1>30. CASE IdleClose
  <2>1. TakeNext("close") /\ ans' = ans
    BY <1>30 DEF IdleClose
  <2> QED
    BY <1>a, <1>k, <2>1
<1>31. CASE IdleSuspend
  <2>1. UNCHANGED <<mail, held>> /\ (ans' = 0 \/ ans' = ans)
    BY <1>31 DEF IdleSuspend, Idle
  <2> QED
    BY <1>a, <2>1
<1>32. CASE Restart
  <2>1. UNCHANGED <<mail, held>> /\ (ans' = 0 \/ ans' = ans)
    BY <1>32 DEF Restart
  <2> QED
    BY <1>a, <2>1
<1>33. CASE End
  <2>1. UNCHANGED <<mail, held>> /\ (ans' = 0 \/ ans' = ans)
    BY <1>33 DEF End
  <2> QED
    BY <1>a, <2>1
<1>34. CASE Host
  <2>1. CASE SendResume
    BY <2>1
  <2>2. ASSUME NEW w \in Wake, w.kind # "resume", mail' = Append(mail, w), UNCHANGED <<held, ans>> PROVE AsksStay
    BY <2>2, OtherSent
  <2>3. CASE SendPrompt
    <3>1. W("prompt", sent.prompt + 1) \in Wake /\ W("prompt", sent.prompt + 1).kind # "resume"
      BY DEF Others, W, Wake
    <3>2. mail' = Append(mail, W("prompt", sent.prompt + 1)) /\ UNCHANGED <<held, ans>>
      BY <2>3 DEF SendPrompt, Send
    <3> QED
      BY <2>2, <3>1, <3>2
  <2>4. CASE SendCancel \/ SendClose
    <3>1. W("cancel", 0) \in Wake /\ W("close", 0) \in Wake /\ W("cancel", 0).kind # "resume" /\ W("close", 0).kind # "resume"
      BY DEF W, Wake
    <3>2. (mail' = Append(mail, W("cancel", 0)) \/ mail' = Append(mail, W("close", 0))) /\ UNCHANGED <<held, ans>>
      BY <2>4 DEF SendCancel, SendClose, Send
    <3> QED
      BY <2>2, <3>1, <3>2
  <2> QED
    BY <1>34, <2>1, <2>3, <2>4 DEF Host
<1>35. CASE \E c \in Calls : JobEnds(c) \/ JobEndsAgain(c)
  <2>1. PICK c \in Calls : JobEnds(c) \/ JobEndsAgain(c)
    BY <1>35
  <2>2. (mail' = mail \/ mail' = Append(mail, W("job", c))) /\ UNCHANGED <<held, ans>>
    BY <2>1 DEF JobEnds, JobEndsAgain
  <2>3. W("job", c) \in Wake /\ W("job", c).kind # "resume"
    BY DEF W, Wake, Calls
  <2> QED
    BY <1>a, <2>2, <2>3, OtherSent
<1>36. CASE UNCHANGED vars
  <2>1. UNCHANGED <<mail, held>> /\ (ans' = 0 \/ ans' = ans)
    BY <1>36 DEF vars
  <2> QED
    BY <1>a, <2>1
<1> QED
  BY <1>1, <1>2, <1>3, <1>4, <1>5, <1>6, <1>7, <1>8, <1>9, <1>10, <1>11, <1>12, <1>13, <1>14,
     <1>15, <1>16, <1>17, <1>18, <1>19, <1>20, <1>21, <1>22, <1>23, <1>24, <1>25, <1>26, <1>27,
     <1>28, <1>29, <1>30, <1>31, <1>32, <1>33, <1>34, <1>35, <1>36 DEF Next, Run, Turn

\* A step keeps a quiet session to one answer on its way.
LEMMA StepOneAsked ==
  ASSUME IInv, Flags, Others, AnsPc, OneAsked, [Next]_vars
  PROVE  OneAsked'
<1>s. session' = session
  BY DEF Next, vars
<1> SUFFICES ASSUME Quiet
             PROVE  /\ \A n, m \in Nat : Asked(n)' /\ Asked(m)' => n = m
                    /\ \A n \in Nat : /\ ~Twice(Ask(n), mail') /\ ~Twice(Ask(n), held')
                                      /\ ~(In(Ask(n), held') /\ In(Ask(n), mail'))
                    /\ ans' # 0 => \A n \in Nat : ~Asked(n)'
  BY <1>s DEF OneAsked, Quiet, Reliable, Ask
<1>o. /\ \A n, m \in Nat : Asked(n) /\ Asked(m) => n = m
      /\ \A n \in Nat : /\ ~Twice(Ask(n), mail) /\ ~Twice(Ask(n), held)
                        /\ ~(In(Ask(n), held) /\ In(Ask(n), mail))
      /\ ans # 0 => \A n \in Nat : ~Asked(n)
  BY DEF OneAsked
<1>t. TypeOK /\ mail \in Seq(Wake) /\ held \in Seq(Wake)
  BY TypesOK DEF Others
<1>w. \A n, m : Ask(n) = Ask(m) => n = m
  BY DEF Ask, W
<1>k. \A n \in Nat : Asked(n)' <=> In(Ask(n), held') \/ In(Ask(n), mail')
  BY DEF Asked, Ask, W
<1>1. CASE AsksStay
  BY <1>o, <1>k, <1>1 DEF AsksStay, Asked
<1>2. CASE AskWaits
  <2>1. PICK n \in Nat : Head(mail) = Ask(n) /\ held' = Append(held, Ask(n))
    BY <1>2 DEF AskWaits
  <2>2. mail # <<>> /\ mail' = Tail(mail) /\ ans' = ans /\ Ask(n) \in Wake
    BY <1>2 DEF AskWaits, Ask, W, Wake
  <2>3. \A x : In(x, mail) <=> x = Head(mail) \/ In(x, mail')
    BY <1>t, <2>2, TailElements
  <2>4. ~In(Ask(n), mail')
    BY <1>o, <1>t, <2>1, <2>2, TailTwice
  <2>5. \A x : In(x, held') <=> In(x, held) \/ x = Ask(n)
    BY <1>t, <2>1, <2>2, AppendElements
  <2>6. \A x : Twice(x, held') <=> Twice(x, held) \/ (In(x, held) /\ x = Ask(n))
    BY <1>t, <2>1, <2>2, AppendTwice
  <2>7. \A x : Twice(x, mail') => Twice(x, mail)
    BY <1>t, <2>2, WithinTail, WithinElements
  <2>8. Asked(n) /\ ~In(Ask(n), held)
    BY <1>o, <2>1, <2>3 DEF Asked
  <2>9. \A m \in Nat : Asked(m)' => m = n
    BY <1>o, <1>w, <1>k, <2>3, <2>5, <2>8 DEF Asked
  <2>10. ans' = 0
    BY <1>o, <2>2, <2>8
  <2>11. ASSUME NEW m \in Nat
         PROVE  /\ ~Twice(Ask(m), mail') /\ ~Twice(Ask(m), held')
                /\ ~(In(Ask(m), held') /\ In(Ask(m), mail'))
    <3>1. m = n \/ ~Asked(m)
      BY <1>o, <2>8
    <3>2. ~Twice(Ask(m), mail') /\ ~Twice(Ask(m), held')
      BY <1>o, <1>w, <2>6, <2>7, <2>8
    <3>3. ~(In(Ask(m), held') /\ In(Ask(m), mail'))
      BY <1>k, <2>4, <2>9
    <3> QED
      BY <3>2, <3>3
  <2> QED
    BY <2>9, <2>10, <2>11
<1>3. CASE IdleResume
  <2>1. NextWake.kind = "resume" /\ TakeNext("resume")
    BY <1>3 DEF IdleResume, TakeNext
  <2>2. NextWake \in Wake /\ NextWake = Ask(NextWake.n) /\ NextWake.n \in Nat
    BY <1>t, <2>1, WakeTaken DEF Ask, W, Wake
  <2>3. PICK n \in Nat : NextWake = Ask(n)
    BY <2>2
  <2>4. \/ /\ held # <<>> /\ Head(held) = Ask(n) /\ held' = Tail(held) /\ mail' = mail
        \/ /\ mail # <<>> /\ Head(mail) = Ask(n) /\ mail' = Tail(mail) /\ held' = held
    BY <1>t, <2>1, <2>3, WakeTaken
  <2>5. /\ \A x : (In(x, mail') => In(x, mail)) /\ (Twice(x, mail') => Twice(x, mail))
        /\ \A x : (In(x, held') => In(x, held)) /\ (Twice(x, held') => Twice(x, held))
    BY <1>t, <2>4, WithinTail, WithinElements
  <2>6. Asked(n) /\ ~In(Ask(n), mail') /\ ~In(Ask(n), held')
    <3>1. CASE held # <<>> /\ Head(held) = Ask(n) /\ held' = Tail(held) /\ mail' = mail
      <4>1. In(Ask(n), held)
        BY <1>t, <3>1, TailElements
      <4>2. ~In(Ask(n), held')
        BY <1>o, <1>t, <3>1, TailTwice
      <4> QED
        BY <1>o, <3>1, <4>1, <4>2 DEF Asked
    <3>2. CASE mail # <<>> /\ Head(mail) = Ask(n) /\ mail' = Tail(mail) /\ held' = held
      <4>1. In(Ask(n), mail)
        BY <1>t, <3>2, TailElements
      <4>2. ~In(Ask(n), mail')
        BY <1>o, <1>t, <3>2, TailTwice
      <4> QED
        BY <1>o, <3>2, <4>1, <4>2 DEF Asked
    <3> QED
      BY <2>4, <3>1, <3>2
  <2>7. \A m \in Nat : ~Asked(m)'
    BY <1>o, <1>k, <2>5, <2>6 DEF Asked
  <2> QED
    BY <1>o, <1>k, <2>5, <2>7
<1>4. CASE SendResume
  <2>1. PICK c \in shown : yielded /\ c \in Parked /\ ~Queued("resume") /\ Send("resume", c, session.resumes)
    BY <1>4 DEF SendResume, Quiet
  <2>2. \A n \in Nat : ~Asked(n)
    <3>1. PICK q : q = held \o mail
      OBVIOUS
    <3>2. \A x : In(x, q) <=> In(x, held) \/ In(x, mail)
      BY <1>t, <3>1, ConcatElements
    <3>3. \A i \in DOMAIN q : q[i].kind # "resume"
      BY <2>1, <3>1 DEF Queued
    <3> QED
      BY <3>2, <3>3 DEF Asked, In, Ask, W
  <2>3. ans = 0
    BY <2>1 DEF AnsPc, Quiet, IInv, Phase
  <2>4. mail' = Append(mail, Ask(c)) /\ UNCHANGED <<held, ans>> /\ c \in Nat /\ Ask(c) \in Wake
    <3>1. mail' = Append(mail, Ask(c)) /\ UNCHANGED <<held, ans>>
      BY <2>1 DEF Send, Ask, locals
    <3>2. c \in Nat
      BY <2>1 DEF Parked, Calls
    <3> QED
      BY <3>1, <3>2 DEF Ask, W, Wake
  <2>5. \A x : In(x, mail') <=> In(x, mail) \/ x = Ask(c)
    BY <1>t, <2>4, AppendElements
  <2>6. \A x : Twice(x, mail') <=> Twice(x, mail) \/ (In(x, mail) /\ x = Ask(c))
    BY <1>t, <2>4, AppendTwice
  <2>7. \A n \in Nat : Asked(n)' => n = c
    BY <1>k, <1>w, <2>2, <2>4, <2>5 DEF Asked
  <2> QED
    BY <1>o, <1>k, <1>w, <2>2, <2>3, <2>4, <2>5, <2>6, <2>7 DEF Asked
<1> QED
  BY <1>1, <1>2, <1>3, <1>4, AskMove

-----------------------------------------------------------------------------
(* What a step does to the open round.                                     *)

\* The turn goes on with its round: no prompt takes it over, and no wrong
\* answer fails it.
Alive == ~Resting /\ ~(pc \in {"begin", "top"} /\ BadAnswer)

\* The round stands, and what waits on a job still waits.
Stands ==
  /\ UNCHANGED <<round, ncalls>>
  /\ Resting => Resting'
  /\ yielded' => yielded \/ Alive
  /\ pc' = "tools" => pc = "tools" /\ runs' = runs
  /\ Alive' => /\ Alive /\ (ans' # 0 => ans # 0) /\ runs \subseteq runs'
               /\ \A c \in Calls : Waited(c) => jobs'[c] \in {"wait", "ended"}

\* The round leaves the state, or the model asks for new calls.
Fresh ==
  /\ ncalls' >= ncalls /\ pc' # "tools"
  /\ \A c \in Calls : round'[c] = "none" \/ (round'[c] = "new" /\ c > ncalls)

\* Every step keeps the round, starts afresh, or is one of the five that work
\* on it.
LEMMA RoundMove ==
  ASSUME IInv, Flags, Others, PromptsOK, RunsFit, AnsPc, Reliable, [Next]_vars
  PROVE  Stands \/ Fresh \/ StartCalls \/ TakeJobEnds \/ Tools \/ ToolsCancelled \/ IdleResume
<1>f. "commit" \notin session.faults /\ "tool" \notin session.faults /\ "start" \notin session.faults
  BY DEF Reliable
<1>a. /\ ans # 0 => pc \in {"begin", "top"} /\ first = 0
      /\ ans # 0 /\ pc = "top" => Open
  BY DEF AnsPc
<1>p. FirstAt /\ Phase /\ HeldKinds
  BY DEF PromptsOK, IInv
<1>n. \A c \in Calls : NoRound[c] = "none"
  BY DEF NoRound
<1>t. ncalls \in Nat /\ first \in Nat /\ ans \in Nat /\ TypeOK
  BY TypesOK DEF Others
<1>r. round' = round => Parked' = Parked
  BY DEF Parked
<1>y. yielded \in BOOLEAN /\ suspended \in BOOLEAN
  BY DEF IInv, Types
<1>u. pc # "tools" => runs = {}
  BY DEF RunsFit
<1> USE <1>f, <1>a, <1>p, <1>r, <1>y, <1>u DEF FirstAt, Phase, Stands, Resting, Alive, BadAnswer,
        Waited, flags, locals, data, job, rest, count
<1>1. CASE BeginPrompt
  <2>1. round' = NoRound /\ ncalls' = ncalls /\ pc' # "tools"
    BY <1>1 DEF BeginPrompt, Goto, CommitFails, Fail, Return
  <2> QED
    BY <1>n, <1>t, <2>1 DEF Fresh
<1>2. CASE BeginResume
  BY <1>2 DEF BeginResume, Goto, Fail, Return
<1>3. CASE CommitRound
  <2>1. round' = NoRound /\ ncalls' = ncalls /\ pc' # "tools"
    BY <1>3 DEF CommitRound, CommitFails, Fail, Return
  <2> QED
    BY <1>n, <1>t, <2>1 DEF Fresh
<1>4. CASE RefuseAnswer
  BY <1>4 DEF RefuseAnswer, Fail, Return
<1>5. CASE StartCalls
  BY <1>5
<1>6. CASE TakeJobEnds
  BY <1>6
<1>7. CASE WaitForJobs
  BY <1>7 DEF WaitForJobs, Advance, Goto
<1>8. CASE Park
  BY <1>8 DEF Park, Return
<1>9. CASE Poll
  BY <1>9 DEF Poll, Goto
<1>10. CASE Tools
  BY <1>10
<1>11. CASE ToolsCancelled
  BY <1>11
<1>12. CASE PumpWake
  <2>1. UNCHANGED <<round, ncalls, yielded, suspended, runs, ans, first>> /\ pc \in {"poll", "wait", "drain"} /\ pc' \in {"poll", "drain"}
    BY <1>12 DEF PumpWake
  <2>2. \A c \in Calls : jobs[c] \in {"wait", "ended"} => jobs'[c] \in {"wait", "ended"}
    BY <1>12 DEF PumpWake, HandleRunning, JobEnded, IInv, Types
  <2> QED
    BY <2>1, <2>2
<1>13. CASE PumpSuspend
  BY <1>13 DEF PumpSuspend
<1>14. CASE PumpDone
  BY <1>14 DEF PumpDone, FailCancelled, Return, Goto
<1>15. CASE CommitInbox
  BY <1>15 DEF CommitInbox, Goto, CommitFails, Fail, Return
<1>16. CASE CompleteTurn
  BY <1>16 DEF CompleteTurn, Return
<1>17. CASE ContinueTurn
  BY <1>17 DEF ContinueTurn, Goto
<1>18. CASE ReplyCalls
  <2>1. PICK k \in 1..session.reply :
          /\ round' = [c \in Calls |-> IF c \in (ncalls + 1)..(ncalls + k) THEN "new" ELSE "none"]
          /\ ncalls' = ncalls + k
    BY <1>18 DEF ReplyCalls
  <2>2. pc' = "top" /\ k \in Nat
    BY <1>18 DEF ReplyCalls, Goto
  <2> QED
    BY <1>t, <2>1, <2>2 DEF Fresh
<1>19. CASE ReplyDone
  BY <1>19 DEF ReplyDone, Goto, CommitFails, Fail, Return
<1>20. CASE TooLong
  BY <1>20 DEF TooLong, Goto, Fail, Return
<1>21. CASE InferFails
  BY <1>21 DEF InferFails, Fail, Return
<1>22. CASE InferCancelled
  BY <1>22 DEF InferCancelled, FailCancelled, Return
<1>23. CASE IdleJob
  BY <1>23 DEF IdleJob, TakeNext, Idle
<1>24. CASE IdleCancel
  BY <1>24 DEF IdleCancel, TakeNext, Idle
<1>25. CASE SteerParked
  BY <1>25 DEF SteerParked, TakeNext, Idle
<1>26. CASE IdlePrompt
  <2>1. first' # 0
    <3>1. TakeNext("prompt") /\ first' = NextWake.n /\ NextWake.kind = "prompt"
      BY <1>26 DEF IdlePrompt, TakeNext
    <3>2. NextWake = Head(mail) /\ mail # <<>>
      <4>1. held # <<>> => \E i \in DOMAIN held : held[i] = Head(held)
        BY <1>t, HeadTaken DEF TypeOK
      <4> QED
        BY <1>t, <3>1, <4>1, WakeTaken DEF HeldKinds
    <3>3. \E i \in DOMAIN mail : mail[i] = Head(mail)
      BY <1>t, <3>2, HeadTaken DEF TypeOK
    <3> QED
      BY <1>t, <3>1, <3>2, <3>3 DEF PromptsOK, PromptsStand, Numbered, TypeOK
  <2> QED
    BY <1>26, <2>1 DEF IdlePrompt, TakeNext, Idle, StartTurn
<1>27. CASE WorkerPrompt
  BY <1>27 DEF WorkerPrompt, TakeNext, Idle
<1>28. CASE Work
  BY <1>28 DEF Work
<1>29. CASE IdleResume
  BY <1>29
<1>30. CASE IdleClose
  BY <1>30 DEF IdleClose, TakeNext, Idle
<1>31. CASE IdleSuspend
  BY <1>31 DEF IdleSuspend, Idle
<1>32. CASE Restart
  BY <1>32 DEF Restart
<1>33. CASE End
  BY <1>33 DEF End
<1>34. CASE Host
  <2>1. UNCHANGED <<round, ncalls, yielded, suspended, pc, runs, ans, first, jobs>>
    BY <1>34 DEF Host, SendPrompt, SendResume, SendCancel, SendClose, Send
  <2> QED
    BY <2>1
<1>35. CASE \E c \in Calls : JobEnds(c) \/ JobEndsAgain(c)
  <2>1. UNCHANGED <<round, ncalls, yielded, suspended, pc, runs, ans, first, jobs>>
    BY <1>35 DEF JobEnds, JobEndsAgain
  <2> QED
    BY <2>1
<1>36. CASE UNCHANGED vars
  <2>1. UNCHANGED <<round, ncalls, yielded, suspended, pc, runs, ans, first, jobs>>
    BY <1>36 DEF vars
  <2> QED
    BY <2>1
<1> QED
  BY <1>1, <1>2, <1>3, <1>4, <1>5, <1>6, <1>7, <1>8, <1>9, <1>10, <1>11, <1>12, <1>13, <1>14,
     <1>15, <1>16, <1>17, <1>18, <1>19, <1>20, <1>21, <1>22, <1>23, <1>24, <1>25, <1>26, <1>27,
     <1>28, <1>29, <1>30, <1>31, <1>32, <1>33, <1>34, <1>35, <1>36 DEF Next, Run, Turn

-----------------------------------------------------------------------------
(* The answers fit the questions.                                          *)

\* An answer on its way is to a call of the session, which no turn runs: the
\* one the round is parked on, of which nothing waits, or one of a round that is
\* over.
AnswersFit ==
  Quiet => \A n \in Nat : Asked(n) =>
    /\ n \in Calls /\ n <= ncalls /\ round[n] \in {"none", "park"}
    /\ round[n] = "park" => Resting /\ ~Waits

\* A step that sends no answer gives no question an answer it did not have.
LEMMA AskedBefore ==
  ASSUME Others, AsksStay \/ AskWaits
  PROVE  \A n \in Nat : Asked(n)' => Asked(n)
<1>w. \A n, m : Ask(n) = Ask(m) => n = m
  BY DEF Ask, W
<1>k. \A n \in Nat : Asked(n)' <=> In(Ask(n), held') \/ In(Ask(n), mail')
  BY DEF Asked, Ask, W
<1>1. CASE AsksStay
  BY <1>k, <1>1 DEF AsksStay, Asked
<1>2. CASE AskWaits
  <2>1. PICK n \in Nat : Head(mail) = Ask(n) /\ held' = Append(held, Ask(n))
    BY <1>2 DEF AskWaits
  <2>2. mail # <<>> /\ mail' = Tail(mail) /\ Ask(n) \in Wake /\ mail \in Seq(Wake) /\ held \in Seq(Wake)
    BY <1>2 DEF AskWaits, Ask, W, Wake, Others
  <2>3. \A x : In(x, mail) <=> x = Head(mail) \/ In(x, mail')
    BY <2>2, TailElements
  <2>4. \A x : In(x, held') <=> In(x, held) \/ x = Ask(n)
    BY <2>1, <2>2, AppendElements
  <2> QED
    BY <1>k, <2>1, <2>3, <2>4 DEF Asked
<1> QED
  BY <1>1, <1>2

\* An answer the host sends is to the question the turn is parked on.
LEMMA AnswerSent ==
  ASSUME IInv, Flags, Others, Quiet, SendResume
  PROVE  /\ yielded /\ Resting /\ ~Waits
         /\ UNCHANGED <<round, ncalls, pc, first, suspended, yielded, ans, runs, jobs>>
         /\ \E c \in Parked : c \in Calls /\ c <= ncalls /\ \A n \in Nat : Asked(n)' => n = c
<1>1. PICK c \in shown : yielded /\ c \in Parked /\ ~Queued("resume") /\ Send("resume", c, session.resumes)
  BY DEF SendResume, Quiet
<1>2. Resting /\ ~Waits
  BY <1>1 DEF IInv, Phase, ParkHasQuestion, Resting, Flags
<1>3. c \in Calls /\ c \in Nat /\ c <= ncalls
  BY <1>1 DEF Parked, Calls, IInv, Unmade, Others
<1>4. mail' = Append(mail, Ask(c)) /\ held' = held
  BY <1>1 DEF Send, Ask
<1>5. UNCHANGED <<round, ncalls, pc, first, suspended, yielded, ans, runs, jobs>>
  BY <1>1 DEF Send, flags, locals, data, job
<1>6. ASSUME NEW n \in Nat, Asked(n)' PROVE n = c
  <2>1. mail \in Seq(Wake) /\ held \in Seq(Wake) /\ Ask(c) \in Wake
    BY <1>3 DEF Others, Ask, W, Wake
  <2>2. \A x : In(x, mail') <=> In(x, mail) \/ x = Ask(c)
    BY <1>4, <2>1, AppendElements
  <2>3. PICK q : q = held \o mail
    OBVIOUS
  <2>4. \A x : In(x, q) <=> In(x, held) \/ In(x, mail)
    BY <2>1, <2>3, ConcatElements
  <2>5. \A i \in DOMAIN q : q[i].kind # "resume"
    BY <1>1, <2>3 DEF Queued
  <2>6. ~In(Ask(n), held) /\ ~In(Ask(n), mail)
    BY <2>4, <2>5 DEF In, Ask, W
  <2>7. In(Ask(n), held') \/ In(Ask(n), mail')
    BY <1>6 DEF Asked, Ask, W
  <2>8. Ask(n) = Ask(c)
    BY <1>4, <2>2, <2>6, <2>7
  <2> QED
    BY <2>8 DEF Ask, W
<1> QED
  BY <1>1, <1>2, <1>3, <1>5, <1>6

\* An answer that starts its turn was on its way, and no other is.
LEMMA AnswerTaken ==
  ASSUME IInv, Flags, Others, Quiet, AnswersFit, OneAsked', session' = session, IdleResume
  PROVE  /\ \E n \in Calls : n # 0 /\ Asked(n) /\ ans' = n
         /\ \A n \in Nat : ~Asked(n)'
<1>1. TakeNext("resume") /\ ans' = NextWake.n /\ NextWake.kind = "resume"
  BY DEF IdleResume, TakeNext
<1>2. NextWake \in Wake /\ (In(NextWake, held) \/ In(NextWake, mail))
  <2>1. mail \in Seq(Wake) /\ held \in Seq(Wake) /\ TypeOK
    BY TypesOK DEF Others
  <2>2. (held # <<>> => In(Head(held), held)) /\ (mail # <<>> => In(Head(mail), mail))
    BY <2>1, TailElements
  <2> QED
    BY <1>1, <2>1, <2>2, WakeTaken
<1>3. NextWake.n \in Nat /\ NextWake = Ask(NextWake.n)
  BY <1>1, <1>2 DEF Wake, Ask, W
<1>4. Asked(NextWake.n)
  BY <1>2, <1>3 DEF Asked
<1>5. NextWake.n \in Calls /\ NextWake.n # 0
  BY <1>3, <1>4 DEF AnswersFit, Calls
<1>6. Quiet'
  BY DEF Quiet, Reliable
<1>7. \A n \in Nat : ~Asked(n)'
  BY <1>1, <1>5, <1>6 DEF OneAsked
<1> QED
  BY <1>1, <1>4, <1>5, <1>7

\* A step keeps every answer on its way to the question the session is parked
\* on, or no longer has.
LEMMA StepAnswersFit ==
  ASSUME IInv, IInv', Flags, Others, PromptsOK, RunsFit, AnsPc, OneAsked, OneAsked', AnswersFit, [Next]_vars
  PROVE  AnswersFit'
<1>s. session' = session
  BY DEF Next, vars
<1>q. Calls' = Calls
  BY DEF Calls
<1> SUFFICES ASSUME Quiet, NEW n \in Nat, Asked(n)'
             PROVE  /\ n \in Calls /\ n <= ncalls' /\ round'[n] \in {"none", "park"}
                    /\ round'[n] = "park" => Resting' /\ ~Waits'
  BY <1>s, <1>q DEF AnswersFit, Quiet, Reliable, Asked, Ask, W
<1>i. ASSUME Asked(n) PROVE /\ n \in Calls /\ n <= ncalls /\ round[n] \in {"none", "park"}
                            /\ round[n] = "park" => Resting /\ ~Waits
  BY <1>i DEF AnswersFit
<1>t. ncalls \in Nat /\ ncalls' \in Nat
  BY DEF IInv, Types
<1>w. round' = round => (Waits' <=> Waits)
  BY DEF Waits
<1>1. CASE SendResume
  <2>1. PICK c \in Parked : c \in Calls /\ c <= ncalls /\ n = c
    BY <1>1, AnswerSent
  <2>2. UNCHANGED <<round, ncalls, pc, first, suspended>> /\ Resting /\ ~Waits
    BY <1>1, AnswerSent
  <2>3. Resting' /\ ~Waits'
    BY <1>w, <2>2 DEF Resting
  <2> QED
    BY <2>1, <2>2, <2>3 DEF Parked
<1>2. CASE IdleResume
  <2>1. ~Asked(n)'
    BY <1>s, <1>2, AnswerTaken
  <2> QED
    BY <2>1
<1>3. CASE AsksStay \/ AskWaits
  <2>0. Asked(n)
    BY <1>3, AskedBefore
  <2>i. /\ n \in Calls /\ n <= ncalls /\ round[n] \in {"none", "park"}
        /\ round[n] = "park" => Resting /\ ~Waits
    BY <1>i, <2>0
  <2>1. CASE Stands
    BY <1>w, <2>i, <2>1 DEF Stands
  <2>2. CASE Fresh
    BY <1>t, <2>i, <2>2 DEF Fresh, Calls
  <2>3. CASE StartCalls \/ TakeJobEnds
    <3>1. pc = "top" /\ round' = round /\ ncalls' = ncalls
      BY <2>3 DEF StartCalls, TakeJobEnds, Advance, data
    <3> QED
      BY <2>i, <3>1 DEF Resting
  <2>4. CASE Tools \/ ToolsCancelled
    <3>1. PICK out \in [runs -> Outcome] : round' = Recorded(out) /\ pc = "tools" /\ ncalls' = ncalls
      <4>1. CASE Tools
        <5>1. PICK out \in [runs -> Outcome \ {"cancelled"}] : round' = Recorded(out)
          BY <4>1 DEF Tools
        <5>2. out \in [runs -> Outcome]
          BY <5>1
        <5> QED
          BY <4>1, <5>1, <5>2 DEF Tools
      <4>2. CASE ToolsCancelled
        BY <4>2 DEF ToolsCancelled
      <4> QED
        BY <2>4, <4>1, <4>2
    <3>2. n \notin runs
      BY <2>i, <3>1 DEF RunsFit, Resting
    <3>3. round'[n] = round[n] /\ round[n] # "park"
      BY <2>i, <3>1, <3>2 DEF Recorded, Resting
    <3> QED
      BY <2>i, <3>1, <3>3
  <2>5. CASE IdleResume
    BY <1>2, <2>5
  <2> QED
    BY <2>1, <2>2, <2>3, <2>4, <2>5, RoundMove DEF Quiet
<1> QED
  BY <1>1, <1>2, <1>3, AskMove

-----------------------------------------------------------------------------
(* The open round of a turn that goes on.                                  *)

\* A call that waits has a job that is waited on, or runs to take its result.
Served == Alive => \A c \in Calls : round[c] = "wait" => Waited(c) \/ c \in runs

\* No call waits while another may start.
Apart == Alive /\ (ans # 0 \/ (Parked = {} /\ \E c \in Calls : round[c] = "new")) => ~Waits

\* The calls a park keeps from running come after the one parked.
Whole  == \A c, d \in Calls : round[c] = "new" /\ round[d] = "park" => d < c
InLine == Alive \/ yielded \/ (\E n \in Parked : Asked(n)) => Whole

\* A step takes the results of jobs, or it runs every call that may run.
StepOf ==
  pc = "tools" =>
    \/ \A c \in runs : round[c] = "wait"
    \/ ~Waits /\ Parked \subseteq runs /\ \A c \in Calls : round[c] = "new" => c \in runs

RoundGood == Quiet => Served /\ Apart /\ InLine /\ StepOf

\* When the calls of a step all ran and some is new, one of them parked, and
\* the new calls come behind it.
LEMMA AllParks ==
  ASSUME IInv, RunsFit, Whole, ~Waits, Parked \subseteq runs, pc = "tools",
         NEW out \in [runs -> Outcome \ {"cancelled", "err"}],
         \A c \in Calls : round[c] = "new" => c \in runs
  PROVE  /\ \A c \in Calls : Recorded(out)[c] = "new" => \E d \in Calls : Recorded(out)[d] = "park"
         /\ \A c, d \in Calls : Recorded(out)[c] = "new" /\ Recorded(out)[d] = "park" => d < c
<1>1. /\ Calls \subseteq Nat /\ runs \subseteq Calls
      /\ round \in [Calls -> {"none", "new", "done", "park", "wait"}]
  BY DEF Calls, IInv, Types
<1>2. \A c \in runs : round[c] \in {"new", "park"}
  BY <1>1 DEF RunsFit, Waits
<1>3. ASSUME NEW c \in runs, out[c] = "park" PROVE c \in Unblocked(out)
  <2>1. ASSUME NEW d \in Parked PROVE d = c \/ (d < c /\ out[d] \notin {"err", "cancelled"})
    <3>1. d \in runs /\ d \in Calls /\ c \in Calls
      BY <1>1
    <3>2. CASE round[c] = "park"
      BY <3>1, <3>2 DEF IInv, OneQuestion, Parked
    <3>3. CASE round[c] = "new"
      <4>1. d < c
        BY <3>1, <3>3 DEF Whole, Parked
      <4> QED
        BY <3>1, <4>1
    <3> QED
      BY <1>2, <3>2, <3>3
  <2> QED
    BY <1>3, <2>1 DEF Unblocked
<1>4. PICK R : R = Recorded(out)
  OBVIOUS
<1>5. \A c \in runs : out[c] \in Outcome /\ out[c] \notin {"cancelled", "err"}
  OBVIOUS
<1>6. ASSUME NEW c \in Calls PROVE /\ R[c] = "new" => c \in runs /\ out[c] = "park" /\ c \notin Kept(out)
                                   /\ R[c] = "park" <=> c \in Kept(out)
  <2>1. CASE c \in runs
    <3>1. out[c] = "park" => R[c] = (IF c \in Kept(out) THEN "park" ELSE "new")
      BY <1>4, <2>1 DEF Recorded
    <3>2. out[c] \in {"wait", "badstart"} => R[c] = "wait"
      BY <1>4, <2>1 DEF Recorded
    <3>3. out[c] \notin {"wait", "badstart", "park"} => R[c] = "done"
      BY <1>4, <1>5, <2>1 DEF Recorded
    <3>4. c \in Kept(out) => out[c] = "park"
      BY DEF Kept, Unblocked
    <3> QED
      BY <2>1, <3>1, <3>2, <3>3, <3>4
  <2>2. CASE c \notin runs
    <3>1. R[c] = round[c]
      BY <1>4, <2>2 DEF Recorded
    <3>2. round[c] \notin {"new", "park"}
      BY <2>2 DEF Parked
    <3>3. c \notin Kept(out)
      BY <2>2 DEF Kept, Unblocked
    <3> QED
      BY <3>1, <3>2, <3>3
  <2> QED
    BY <2>1, <2>2
<1>7. ASSUME NEW c \in Calls, R[c] = "new" PROVE \E d \in Calls : R[d] = "park"
  <2>1. c \in Unblocked(out) /\ Unblocked(out) \in SUBSET Nat
    BY <1>1, <1>3, <1>6, <1>7 DEF Unblocked
  <2>2. PICK d \in Unblocked(out) : \A e \in Unblocked(out) : d <= e
    BY <2>1, LeastNumber
  <2>3. d \in Kept(out) /\ d \in Calls
    BY <1>1, <2>2 DEF Kept, Unblocked
  <2> QED
    BY <1>6, <2>3
<1>8. ASSUME NEW c \in Calls, NEW d \in Calls, R[c] = "new", R[d] = "park" PROVE d < c
  <2>1. c \in Unblocked(out) /\ c \notin Kept(out) /\ d \in Kept(out)
    BY <1>3, <1>6, <1>8
  <2>2. d <= c /\ d # c /\ c \in Nat /\ d \in Nat
    BY <1>1, <2>1 DEF Kept
  <2> QED
    BY <2>2
<1> QED
  BY <1>4, <1>7, <1>8

\* A step keeps the rounds of an undisturbed session whole.
LEMMA StepRoundGood ==
  ASSUME IInv, IInv', Flags, Others, PromptsOK, RunsFit, AnsPc, JobsFit, OneAsked, OneAsked',
         AnswersFit, RoundGood, [Next]_vars
  PROVE  RoundGood'
<1>s. session' = session
  BY DEF Next, vars
<1>q. Calls' = Calls
  BY DEF Calls
<1> SUFFICES ASSUME Quiet PROVE Served' /\ Apart' /\ InLine' /\ StepOf'
  BY <1>s DEF RoundGood, Quiet, Reliable
<1>g. Served /\ Apart /\ InLine /\ StepOf
  BY DEF RoundGood
<1>f. Reliable /\ "commit" \notin session.faults /\ "tool" \notin session.faults /\ "start" \notin session.faults
  BY DEF Quiet, Reliable
<1>r. round' = round => (Parked' = Parked /\ (Waits' <=> Waits) /\ (Whole' <=> Whole))
  BY <1>q DEF Parked, Waits, Whole
<1>u. pc # "tools" => runs = {}
  BY DEF RunsFit
<1>n. Calls \subseteq Nat
  BY DEF Calls
<1>h. \A n \in Nat : Asked(n)' => Asked(n) \/ yielded
  <2>1. CASE IdleResume
    BY <1>s, <2>1, AnswerTaken
  <2>2. CASE SendResume
    BY <2>2, AnswerSent
  <2>3. CASE AsksStay \/ AskWaits
    BY <2>3, AskedBefore
  <2> QED
    BY <2>1, <2>2, <2>3, AskMove
<1>1. CASE Stands
  <2>1. Served'
    BY <1>g, <1>q, <1>1 DEF Stands, Served, Waited
  <2>2. Apart'
    BY <1>g, <1>q, <1>r, <1>1 DEF Stands, Apart
  <2>3. InLine'
    <3>1. ASSUME Alive' \/ yielded' \/ \E n \in Parked' : Asked(n)'
          PROVE  Alive \/ yielded \/ \E n \in Parked : Asked(n)
      <4>1. CASE Alive' \/ yielded'
        BY <1>1, <4>1 DEF Stands
      <4>2. CASE \E n \in Parked' : Asked(n)'
        <5>1. PICK n \in Parked' : Asked(n)'
          BY <4>2
        <5>2. n \in Parked /\ n \in Nat
          BY <1>n, <1>r, <1>1, <5>1 DEF Stands, Parked
        <5> QED
          BY <1>h, <5>1, <5>2
      <4> QED
        BY <3>1, <4>1, <4>2
    <3>2. Whole' <=> Whole
      BY <1>r, <1>1 DEF Stands
    <3> QED
      BY <1>g, <3>1, <3>2 DEF InLine
  <2>4. StepOf'
    BY <1>g, <1>q, <1>r, <1>1 DEF Stands, StepOf
  <2> QED
    BY <2>1, <2>2, <2>3, <2>4
<1>2. CASE Fresh
  <2>1. ~Waits' /\ Parked' = {} /\ Whole' /\ pc' # "tools"
    BY <1>q, <1>2 DEF Fresh, Waits, Parked, Whole
  <2>2. Served'
    BY <1>q, <1>2 DEF Fresh, Served
  <2> QED
    BY <2>1, <2>2 DEF Apart, InLine, StepOf
<1>3. CASE StartCalls \/ TakeJobEnds
  <2>1. /\ pc = "top" /\ Open /\ ~BadAnswer /\ UNCHANGED <<round, first, suspended, yielded>>
        /\ pc' = "tools" /\ ans' = 0 /\ runs = {}
    BY <1>u, <1>3 DEF StartCalls, TakeJobEnds, Advance, Goto, flags, data
  <2>2. Alive
    BY <2>1 DEF Alive, Resting
  <2>3. Parked' = Parked /\ (Waits' <=> Waits) /\ (Whole' <=> Whole) /\ Whole
    BY <1>g, <1>r, <2>1, <2>2 DEF InLine
  <2>4. InLine'
    BY <2>3 DEF InLine
  <2>5. CASE StartCalls
    <3>1. runs' = NextRuns /\ NextRuns # {} /\ UNCHANGED jobs
      BY <2>5 DEF StartCalls, Advance
    <3>2. ~Waits /\ Parked \subseteq runs' /\ \A c \in Calls : round[c] = "new" => c \in runs'
      <4>1. CASE Parked = {}
        <5>1. \A c \in Calls : round[c] = "new" <=> c \in NextRuns
          BY <4>1 DEF NextRuns
        <5>2. \E c \in Calls : round[c] = "new"
          BY <3>1, <4>1 DEF NextRuns
        <5> QED
          BY <1>g, <2>2, <3>1, <4>1, <5>1, <5>2 DEF Apart
      <4>2. CASE Parked # {}
        <5>1. ans \in Parked /\ NextRuns = {c \in Calls : round[c] = "new"} \union {ans}
          BY <3>1, <4>2 DEF NextRuns
        <5>2. ans # 0
          BY <5>1 DEF Parked, Calls
        <5>3. Parked = {ans}
          BY <5>1 DEF IInv, OneQuestion
        <5>4. ~Waits
          BY <1>g, <2>2, <5>2 DEF Apart
        <5> QED
          BY <3>1, <5>1, <5>3, <5>4
      <4> QED
        BY <4>1, <4>2
    <3>3. Served' /\ Apart'
      BY <2>1, <2>3, <3>2 DEF Served, Apart, Waits
    <3>4. StepOf'
      BY <1>q, <2>1, <2>3, <3>2 DEF StepOf
    <3> QED
      BY <2>4, <3>3, <3>4
  <2>6. CASE TakeJobEnds
    <3>1. /\ runs' = JobRuns /\ jobs' = [c \in Calls |-> IF c \in JobRuns THEN "none" ELSE jobs[c]]
          /\ NextRuns = {} /\ Waits
      BY <2>6 DEF TakeJobEnds, Advance
    <3>2. \A c \in JobRuns : c \in Calls /\ round[c] = "wait"
      BY DEF JobRuns, InRound, IInv, WaitsForJob
    <3>3. StepOf'
      BY <2>1, <3>1, <3>2 DEF StepOf
    <3>4. Served'
      BY <1>g, <1>q, <2>1, <2>2, <3>1 DEF Served, Waited
    <3>5. Apart'
      <4>1. ~(ans # 0 \/ (Parked = {} /\ \E c \in Calls : round[c] = "new"))
        BY <1>g, <2>2, <3>1 DEF Apart
      <4> QED
        BY <1>q, <2>1, <2>3, <4>1 DEF Apart
    <3> QED
      BY <2>4, <3>3, <3>4, <3>5
  <2> QED
    BY <1>3, <2>5, <2>6
<1>4. CASE Tools
  <2>1. PICK out \in [runs -> Outcome \ {"cancelled"}], killed \in SUBSET Calls :
          RunsEnd(Outcome, out, killed) /\ round' = Recorded(out) /\ StartJobs(out, killed)
    BY <1>4 DEF Tools
  <2>2. \A c \in runs : out[c] \notin {"err", "badstart"}
    BY <1>f, <2>1 DEF RunsEnd, CanEnd
  <2>3. /\ pc = "tools" /\ pc' = "top" /\ UNCHANGED <<ans, yielded, first, suspended>> /\ ans = 0
        /\ runs \subseteq Calls /\ Alive
    <3>1. pc = "tools" /\ pc' = "top" /\ UNCHANGED <<ans, yielded, first, suspended>>
      BY <1>f, <1>4 DEF Tools, Goto, RunsEnd, CanEnd, flags
    <3>2. ans = 0 /\ runs \subseteq Calls
      BY <1>f, <3>1 DEF AnsPc, IInv, Types
    <3> QED
      BY <3>1, <3>2 DEF Alive, Resting
  <2>4. out \in [runs -> Outcome \ {"cancelled", "err"}]
    BY <2>1, <2>2
  <2>w. Whole
    BY <1>g, <2>3 DEF InLine
  <2>5. CASE \A c \in runs : round[c] = "wait"
    <3>1. \A c \in runs : out[c] = "done"
      BY <2>1, <2>2, <2>5 DEF RunsEnd, CanEnd
    <3>2. \A c \in Calls : round'[c] = IF c \in runs THEN "done" ELSE round[c]
      <4>1. ASSUME NEW c \in Calls, c \in runs PROVE Recorded(out)[c] = "done"
        <5>1. out[c] = "done"
          BY <3>1, <4>1
        <5> QED
          BY <4>1, <5>1 DEF Recorded
      <4>2. ASSUME NEW c \in Calls, c \notin runs PROVE Recorded(out)[c] = round[c]
        BY <4>2 DEF Recorded
      <4> QED
        BY <2>1, <4>1, <4>2
    <3>3. killed = {} /\ Started(out) = {}
      BY <2>1, <3>1 DEF RunsEnd, Started
    <3>4. \A c \in Calls : jobs'[c] = jobs[c]
      BY <2>1, <3>3 DEF StartJobs
    <3>5. Served'
      BY <1>g, <1>q, <2>3, <3>2, <3>4 DEF Served, Waited
    <3>6. Parked' = Parked /\ Whole' /\ (Waits' => Waits)
      BY <1>q, <2>5, <2>w, <3>2 DEF Parked, Whole, Waits
    <3>7. \A c \in Calls : round'[c] = "new" <=> round[c] = "new"
      BY <2>5, <3>2
    <3>8. Apart'
      BY <1>g, <1>q, <2>3, <3>6, <3>7 DEF Apart
    <3> QED
      BY <2>3, <3>5, <3>6, <3>8 DEF InLine, StepOf
  <2>6. CASE ~Waits /\ Parked \subseteq runs /\ \A c \in Calls : round[c] = "new" => c \in runs
    <3>1. PICK R : R = Recorded(out)
      OBVIOUS
    <3>2. /\ \A c \in Calls : R[c] = "new" => \E d \in Calls : R[d] = "park"
          /\ \A c, d \in Calls : R[c] = "new" /\ R[d] = "park" => d < c
      BY <2>3, <2>4, <2>6, <2>w, <3>1, AllParks
    <3>3. round' = R
      BY <2>1, <3>1
    <3>4. Whole' /\ (Parked' = {} => \A c \in Calls : round'[c] # "new")
      BY <1>q, <3>2, <3>3 DEF Whole, Parked
    <3>5. Served'
      <4>1. ASSUME NEW c \in Calls, round'[c] = "wait" PROVE jobs'[c] = "wait"
        <5>1. c \in runs
          BY <2>1, <2>6, <4>1 DEF Recorded, Waits
        <5>2. out[c] = "wait"
          <6>1. out[c] \in Outcome /\ out[c] \notin {"err", "badstart", "cancelled"}
            BY <2>1, <2>2, <5>1
          <6>2. out[c] = "park" => Recorded(out)[c] = (IF c \in Kept(out) THEN "park" ELSE "new")
            BY <5>1 DEF Recorded
          <6>3. out[c] \notin {"wait", "park"} => Recorded(out)[c] = "done"
            BY <5>1, <6>1 DEF Recorded
          <6> QED
            BY <2>1, <4>1, <6>2, <6>3
        <5> QED
          BY <2>1, <5>1, <5>2 DEF StartJobs, Started
      <4> QED
        BY <1>q, <4>1 DEF Served, Waited
    <3>6. Apart'
      BY <1>q, <2>3, <3>4 DEF Apart
    <3> QED
      BY <2>3, <3>4, <3>5, <3>6 DEF InLine, StepOf
  <2> QED
    BY <1>g, <2>3, <2>5, <2>6 DEF StepOf
<1>5. CASE ToolsCancelled
  <2>1. PICK out \in [runs -> Outcome] : round' = Recorded(out)
    BY <1>5 DEF ToolsCancelled
  <2>2. pc = "tools" /\ ~yielded' /\ pc' \in {"idle", "suspended"} /\ ~suspended'
    BY <1>5 DEF ToolsCancelled, Return, IInv, Phase
  <2>3. ~Alive' /\ pc' # "tools"
    BY <2>2 DEF Alive, Resting
  <2>4. \A n \in Parked' : ~Asked(n)'
    <3> SUFFICES ASSUME NEW n \in Parked', Asked(n)' PROVE FALSE
      OBVIOUS
    <3>1. n \in Calls /\ n \in Nat /\ round'[n] = "park"
      BY <1>n, <1>q DEF Parked
    <3>2. Asked(n)
      BY <1>h, <2>2, <3>1 DEF IInv, Phase
    <3>3. round[n] = "none"
      BY <2>2, <3>1, <3>2 DEF AnswersFit, Resting
    <3>4. n \notin runs
      BY <2>2, <3>3 DEF RunsFit
    <3> QED
      BY <2>1, <3>1, <3>3, <3>4 DEF Recorded
  <2> QED
    BY <2>2, <2>3, <2>4 DEF Served, Apart, InLine, StepOf
<1>6. CASE IdleResume
  <2>1. PICK n \in Calls : n # 0 /\ Asked(n) /\ ans' = n
    BY <1>s, <1>6, AnswerTaken
  <2>2. \A m \in Nat : ~Asked(m)'
    BY <1>s, <1>6, AnswerTaken
  <2>3. UNCHANGED round /\ pc' = "begin" /\ yielded' = FALSE
    BY <1>6 DEF IdleResume, StartTurn
  <2>4. Parked' = Parked /\ (Waits' <=> Waits) /\ (Whole' <=> Whole) /\ Parked \subseteq Nat
    BY <1>n, <1>r, <2>3 DEF Parked
  <2>5. Alive' => n \in Parked
    BY <2>1, <2>3, <2>4 DEF Alive, BadAnswer
  <2>6. n \in Parked => ~Waits /\ Whole
    BY <1>g, <1>n, <2>1 DEF AnswersFit, InLine, Parked
  <2>7. Served'
    BY <2>4, <2>5, <2>6 DEF Served, Waits
  <2> QED
    BY <2>2, <2>3, <2>4, <2>5, <2>6, <2>7 DEF Apart, InLine, StepOf
<1> QED
  BY <1>f, <1>1, <1>2, <1>3, <1>4, <1>5, <1>6, RoundMove

\* The parts of the invariant give WaitIsFed, where the host answers only what
\* it is asked.
LEMMA WaitsAreFed ==
  IInv /\ Flags /\ RunsFit /\ AnsPc /\ Blocks /\ JobWaits /\ RoundGood /\ Fed /\ AnswersFit => (Quiet => WaitIsFed)
<1> SUFFICES ASSUME IInv, Flags, RunsFit, AnsPc, Blocks, JobWaits, RoundGood, Fed, Quiet, pc = "wait", mail = <<>>
             PROVE  IF Open THEN \E c \in live : jobs[c] = "wait" /\ round[c] = "wait"
                            ELSE Tracked \intersect live # {}
  BY DEF WaitIsFed
<1>1. Reliable /\ Served /\ runs = {} /\ Alive
  BY DEF Quiet, RoundGood, RunsFit, Alive, Resting
<1>2. \A c \in Calls : jobs[c] \in {"bg", "wait"} => c \in live
  BY DEF Fed, In
<1>3. jobs \in [Calls -> {"none", "bg", "wait", "ended"}]
  BY DEF IInv, Types
<1>4. CASE Open
  <2>1. PICK c \in Calls : round[c] = "wait" /\ jobs[c] # "ended"
    BY <1>4 DEF Blocks, Waits, JobRuns, InRound
  <2>2. jobs[c] = "wait"
    BY <1>1, <2>1 DEF Served, Waited
  <2> QED
    BY <1>2, <1>4, <2>1, <2>2
<1>5. CASE ~Open
  <2>1. PICK c \in Calls : jobs[c] # "none"
    BY <1>3, <1>5 DEF Blocks, NoJobs
  <2>2. jobs[c] \notin {"wait", "ended"}
    BY <1>1, <1>5, <2>1 DEF JobWaits, Waited, Open, InRound
  <2>3. jobs[c] = "bg"
    BY <1>3, <2>1, <2>2
  <2> QED
    BY <1>2, <1>5, <2>3 DEF Tracked
<1> QED
  BY <1>4, <1>5

\* A session that starts has no answer on its way and no round.
LEMMA InitRoundGood == Init => OneAsked /\ AnswersFit /\ RoundGood
<1> SUFFICES ASSUME Init PROVE OneAsked /\ AnswersFit /\ RoundGood
  OBVIOUS
<1>1. \A n : ~Asked(n)
  BY DEF Init, Asked, In, Ask, W
<1>2. \A n : ~Twice(Ask(n), mail) /\ ~Twice(Ask(n), held)
  BY DEF Init, Twice, Ask, W
<1>3. ~Alive /\ ~yielded /\ pc # "tools"
  BY DEF Init, Alive, Resting
<1> QED
  BY <1>1, <1>2, <1>3 DEF OneAsked, AnswersFit, RoundGood, Served, Apart, InLine, StepOf, Asked,
     Init

-----------------------------------------------------------------------------
(* All of it.  Each part is inductive with the ones before it.             *)

\* The inductive invariant: what holds whatever fails, and what holds while
\* only the model fails and the host answers what it is asked.
Sound ==
  /\ IInv /\ Flags /\ Others
  /\ PromptsOK /\ NoCancel /\ AllPlaced
  /\ JobWakes /\ JobsFit /\ RunsFit
  /\ Finishes /\ CompleteAnswered
  /\ ResultsOK
  /\ Fed /\ Ended /\ Reaches
  /\ AnsPc /\ Blocks /\ JobWaits
  /\ OneAsked /\ AnswersFit /\ RoundGood

\* Every reachable state of a session is sound.
LEMMA SoundAlways == Spec => []Sound
<1>1. Init => Sound
  BY InitInv, InitTypes, InitPrompts, InitPlaced, InitJobs, InitComplete, InitResults,
     InitFed, InitReaches, InitBlocks, InitRoundGood DEF Sound
<1>2. Sound /\ [Next]_vars => Sound'
  <2> SUFFICES ASSUME Sound, [Next]_vars PROVE Sound'
    OBVIOUS
  <2>1. /\ IInv /\ Flags /\ Others
        /\ PromptsOK /\ NoCancel /\ AllPlaced
        /\ JobWakes /\ JobsFit /\ RunsFit
        /\ Finishes /\ CompleteAnswered
        /\ ResultsOK
        /\ Fed /\ Ended /\ Reaches
        /\ AnsPc /\ Blocks /\ JobWaits
        /\ OneAsked /\ AnswersFit /\ RoundGood
    BY DEF Sound
  <2>2. IInv'
    BY <2>1, StepInv
  <2>3. Flags'
    BY <2>1, StepFlags
  <2>4. Others'
    BY <2>1, <2>2, StepOthers
  <2>5. PromptsOK'
    BY <2>1, StepPrompts
  <2>6. NoCancel'
    BY <2>1, StepNoCancel
  <2>7. AllPlaced'
    BY <2>1, <2>6, StepPlaced
  <2>8. JobWakes'
    BY <2>1, StepJobWakes
  <2>9. RunsFit'
    BY <2>1, StepRunsFit
  <2>10. JobsFit'
    BY <2>1, <2>4, StepJobs
  <2>11. Finishes'
    BY <2>1, StepFinishes
  <2>12. CompleteAnswered'
    BY <2>1, StepComplete
  <2>13. ResultsOK'
    BY <2>1, StepResults
  <2>14. Fed'
    BY <2>1, StepFed
  <2>15. Ended'
    BY <2>1, StepEnded
  <2>16. Reaches'
    BY <2>1, <2>4, StepReaches
  <2>17. AnsPc'
    BY <2>1, StepAnsPc
  <2>18. Blocks'
    BY <2>1, StepBlocks
  <2>19. JobWaits'
    BY <2>1, StepJobWaits
  <2>20. OneAsked'
    BY <2>1, StepOneAsked
  <2>21. AnswersFit'
    BY <2>1, <2>2, <2>20, StepAnswersFit
  <2>22. RoundGood'
    BY <2>1, <2>2, <2>20, StepRoundGood
  <2> QED
    BY <2>2, <2>3, <2>4, <2>5, <2>6, <2>7, <2>8, <2>9, <2>10, <2>11, <2>12, <2>13, <2>14,
       <2>15, <2>16, <2>17, <2>18, <2>19, <2>20, <2>21, <2>22 DEF Sound
<1> QED
  BY <1>1, <1>2, PTL DEF Spec

\* The host's prompts arrive: while steps run and Commits save, no prompt is
\* lost or taken twice without a cancel, whether it starts a turn, steers one
\* or waits while one is parked; and whatever fails, the window holds them in
\* the order they were sent, but for those a failed turn left behind
\* (State.drive, State.Steer).
THEOREM PromptsArriveAlways == Spec => []PromptsArrive
<1>1. Sound => PromptsArrive
  BY PromptsArriveOnce DEF Sound
<1> QED
  BY <1>1, SoundAlways, PTL

\* Whatever fails, a running job can be stopped, its end reaches the model at
\* most once, the prompts stay in order, and a turn that completes left no
\* message, call or job over (State.jobEnded, startJobs, cancelJobs, drive).
THEOREM FaultsContainedAlways == Spec => []FaultsContained
<1>1. Sound => FaultsContained
  BY TypesOK, JobsReachOnce, OrderKept DEF Sound, FaultsContained
<1> QED
  BY <1>1, SoundAlways, PTL

\* While Commits save, each call the model made is in the open round, or has
\* one result in the window: the first Commit of a prompt's turn writes what a
\* failed turn left (State.drive, State.record).
THEOREM OneResultPerCallAlways == Spec => []OneResultPerCall
<1>1. Sound => OneResultPerCall
  BY ResultsOnce DEF Sound
<1> QED
  BY <1>1, SoundAlways, PTL

\* While only the model fails, a job that ended reaches the model once, and a
\* turn that completes left nothing over; if the host answers only what it is
\* asked, a turn that blocks waits on a job whose end will come (State.drive,
\* State.runs, State.jobRuns).
THEOREM AnsweredAlways == Spec => []Answered
<1>1. Sound => Answered
  <2>1. Sound => (Reliable => JobOnce /\ JobReachesModel /\ CompleteAnswered)
    BY JobsReachOnce, JobsReach DEF Sound
  <2>2. Sound => (Quiet => WaitIsFed)
    BY WaitsAreFed DEF Sound
  <2> QED
    BY <2>1, <2>2 DEF Answered
<1> QED
  BY <1>1, SoundAlways, PTL

=============================================================================
