----------------------------- MODULE ObjectAlarm -----------------------------
(***************************************************************************)
(* What makes a durable object go on: requests, the platform's one alarm,  *)
(* and the retry timer of its outbox (session/durableobject: object.go,    *)
(* runtime.go's busy and idle, outbox.go).  The session is how many wakes  *)
(* wait in its mailbox and how many steps its turn has left; what the      *)
(* steps do is ObjectJournal's and SessionTurn's.                          *)
(*                                                                         *)
(* Time is abstract.  The alarm stands for what it was set for: the        *)
(* watchdog of a running step or the retry of a delivery; when both want   *)
(* it, either may come first.  Setting it may fail, which the object does  *)
(* not notice, any number of times.  The platform retries an alarm whose   *)
(* handler the object did not survive (app.go's alarm waits until the      *)
(* object is idle), and a request comes or does not.  The registry of a    *)
(* process that hosts many objects (registry.go) drops one that is idle at *)
(* will: how many others live, and which streams of it are open, is not    *)
(* this object's state.                                                    *)
(***************************************************************************)
EXTENDS Naturals

CONSTANTS
  MaxWakes,     \* wakes callers send
  Steps,        \* steps of one turn
  MaxLetters,   \* letters the steps post
  MaxCrashes,   \* times the object loses its memory
  MaxFaults,    \* writes of storage that fail
  MaxRefusals   \* deliveries that fail

ASSUME ConstantsOK ==
  /\ MaxWakes \in Nat /\ Steps \in Nat \ {0} /\ MaxLetters \in Nat
  /\ MaxCrashes \in Nat /\ MaxFaults \in Nat /\ MaxRefusals \in Nat

VARIABLES
  (* storage and platform *)
  waiting,     \* wakes in the mailbox that no entry took
  left,        \* steps the turn still has to run (0: no turn)
  letters,     \* letters not yet delivered
  begun,       \* a step began and was not written (for properties)
  alarm,       \* the platform's alarm: "none", "watchdog" or "retry"
  handling,    \* the platform waits for the alarm's handler
  unset,       \* the last SetAlarm failed (for properties)
  (* memory *)
  loaded,      \* an object is live
  run,         \* run(): "off", "start", "run", "step", "idle", "end"
  kick,        \* Object.kick
  ok,          \* the run did not stop on its storage
  watchdog,    \* Object.watchdog is set
  armed,       \* Object.armed: the alarm the object believes is set
  stepArmed,   \* objectRuntime.armed is set
  sending, retry, timer,     \* outbox.sending, outbox.retry, and its AfterFunc
  (* bounds *)
  sent, posted, crashes, faults, refusals

storage == <<waiting, left, letters, begun>>
goes    == <<run, kick, ok, stepArmed>>
outbox  == <<sending, retry, timer>>
alarms  == <<alarm, armed, watchdog, unset>>
bounds  == <<sent, posted, crashes, faults, refusals>>
vars    == <<storage, alarms, handling, loaded, goes, outbox, bounds>>

-----------------------------------------------------------------------------
(* The alarm and the outbox.                                               *)

\* When the alarm should fire.
Wanted(w, r) == IF w /\ r THEN {"watchdog", "retry"}
                ELSE IF w THEN {"watchdog"} ELSE IF r THEN {"retry"} ELSE {"none"}

\* A slip of SetAlarm: the object believes in an alarm that was not set.
SetAlarmBelieved(at) ==
  /\ armed' = at
  /\ \/ alarm' = at /\ unset' = FALSE
     \/ unset' = TRUE /\ UNCHANGED alarm

\* host.SetAlarm: when it fails, the alarm and what is believed of it stay.
SetAlarm(at) ==
  \/ alarm' = at /\ armed' = at /\ unset' = FALSE
  \/ unset' = TRUE /\ UNCHANGED <<alarm, armed>>

\* armLocked, with the watchdog and the retry it is called with.  An alarm for
\* the same need may be for another time, and then is set again.
Arm(w, r) ==
  \E at \in Wanted(w, r) :
    \/ at = armed /\ UNCHANGED <<alarm, armed, unset>>
    \/ (at # armed \/ at # "none") /\ SetAlarm(at)

\* sendLocked: a goroutine delivers, unless one does or nothing waits.
Send(n) == sending' = (sending \/ n # 0)

\* load: a cold object goes on with its letters.
Load ==
  /\ loaded' = TRUE
  /\ IF loaded THEN UNCHANGED sending ELSE Send(letters)

\* start.
Kicked ==
  /\ kick' = TRUE
  /\ run' = IF run = "off" THEN "start" ELSE run

-----------------------------------------------------------------------------
(* Requests and the alarm.                                                 *)

\* Object.Wake: storage, then start.
Wake ==
  /\ sent < MaxWakes
  /\ sent' = sent + 1 /\ waiting' = waiting + 1
  /\ Load /\ Kicked
  /\ UNCHANGED <<left, letters, begun, alarms, handling, ok, stepArmed, retry, timer,
                 posted, crashes, faults, refusals>>

\* A request that only reads (Status, Jobs, Head, Subscribe, Wire).
Read ==
  /\ ~loaded /\ Load
  /\ UNCHANGED <<storage, alarms, handling, goes, retry, timer, bounds>>

\* Object.Alarm: the session runs, and the letters go out.
Alarm ==
  /\ alarm # "none"
  /\ alarm' = "none" /\ armed' = "none"
  /\ handling' = TRUE
  /\ loaded' = TRUE
  /\ Kicked
  /\ Send(letters)
  /\ UNCHANGED <<storage, watchdog, unset, ok, stepArmed, retry, timer, bounds>>

\* The handler returns once the object is idle (Idle).
HandlerReturns ==
  /\ handling /\ run = "off" /\ ~sending
  /\ handling' = FALSE
  /\ UNCHANGED <<storage, alarms, loaded, goes, outbox, bounds>>

-----------------------------------------------------------------------------
(* The run.                                                                *)

RunStarts ==
  /\ run = "start"
  /\ run' = "run" /\ kick' = FALSE /\ stepArmed' = FALSE /\ ok' = TRUE
  /\ UNCHANGED <<storage, alarms, handling, loaded, outbox, bounds>>

\* Next takes a wake, which starts a turn, and Begin: no watchdog yet.
TakeWake ==
  /\ run = "run" /\ left = 0 /\ waiting > 0
  /\ waiting' = waiting - 1 /\ left' = Steps
  /\ UNCHANGED <<letters, begun, alarms, handling, loaded, goes, outbox, bounds>>

\* A step begins: busy sets the watchdog, unless it did lately.
StepStarts ==
  /\ run = "run" /\ left > 0
  /\ run' = "step" /\ begun' = TRUE
  /\ \/ /\ watchdog' = TRUE /\ stepArmed' = TRUE
        /\ Arm(TRUE, retry)
     \/ stepArmed /\ UNCHANGED <<alarms, stepArmed>>
  /\ UNCHANGED <<waiting, left, letters, handling, loaded, kick, ok, outbox, bounds>>

\* A step that lasts renews the watchdog (wait's ticker; a Commit has none).
StepTicks ==
  /\ run = "step"
  /\ watchdog' = TRUE /\ stepArmed' = TRUE
  /\ Arm(TRUE, retry)
  /\ UNCHANGED <<storage, handling, loaded, run, kick, ok, outbox, bounds>>

\* The step's write, with the letters it posts.
StepEnds ==
  /\ run = "step"
  /\ run' = "run" /\ begun' = FALSE /\ left' = left - 1
  /\ \E n \in {0, 1} :
       /\ posted + n <= MaxLetters
       /\ posted' = posted + n /\ letters' = letters + n
       /\ Send(letters')
  /\ UNCHANGED <<waiting, alarms, handling, loaded, kick, ok, stepArmed, retry, timer,
                 sent, crashes, faults, refusals>>

\* Next with nothing to take: idle clears the watchdog this run set.
Idle ==
  /\ run = "run" /\ left = 0 /\ waiting = 0
  /\ run' = "idle" /\ stepArmed' = FALSE
  /\ watchdog' = (watchdog /\ ~stepArmed)
  /\ IF stepArmed THEN Arm(FALSE, retry) ELSE UNCHANGED <<alarm, armed, unset>>
  /\ UNCHANGED <<storage, handling, loaded, kick, ok, outbox, bounds>>

\* The suspend's writes.
Suspend ==
  /\ run = "idle"
  /\ run' = "end"
  /\ UNCHANGED <<storage, alarms, handling, loaded, kick, ok, stepArmed, outbox, bounds>>

\* A run that ends without a look at the mailbox, or at a request meanwhile.
RunEndsDeaf ==
  /\ run = "end"
  /\ run' = "off"
  /\ UNCHANGED <<storage, alarms, handling, loaded, kick, ok, stepArmed, outbox, bounds>>

RunEnds ==
  /\ run = "end"
  /\ run' = IF ~kick /\ (~ok \/ waiting = 0) THEN "off" ELSE "start"
  /\ UNCHANGED <<storage, alarms, handling, loaded, kick, ok, stepArmed, outbox, bounds>>

\* A write fails: the run stops until the alarm or a request.
StorageFails ==
  /\ faults < MaxFaults /\ run \in {"run", "step", "idle"}
  /\ faults' = faults + 1
  /\ run' = "end" /\ ok' = FALSE
  /\ UNCHANGED <<storage, alarms, handling, loaded, kick, stepArmed, outbox,
                 sent, posted, crashes, refusals>>

-----------------------------------------------------------------------------
(* The deliveries.                                                         *)

\* The oldest letter is delivered and deleted.
Deliver ==
  /\ sending /\ letters > 0
  /\ letters' = letters - 1
  /\ UNCHANGED <<waiting, left, begun, alarms, handling, loaded, goes, outbox, bounds>>

\* A failed delivery that waits for the next request.
RefusedForGood ==
  /\ sending /\ letters > 0 /\ refusals < MaxRefusals
  /\ refusals' = refusals + 1
  /\ sending' = FALSE /\ retry' = FALSE /\ timer' = FALSE
  /\ Arm(watchdog, FALSE)
  /\ UNCHANGED <<storage, watchdog, handling, loaded, goes, sent, posted, crashes, faults>>

\* The other object, or the network, fails: the alarm and a timer retry.
Refused ==
  /\ sending /\ letters > 0 /\ refusals < MaxRefusals
  /\ refusals' = refusals + 1
  /\ sending' = FALSE /\ retry' = TRUE /\ timer' = TRUE
  /\ Arm(watchdog, TRUE)
  /\ UNCHANGED <<storage, watchdog, handling, loaded, goes, sent, posted, crashes, faults>>

\* Everything is delivered, and the alarm is only the watchdog's: or, as a
\* plausible slip, nobody's.
AllSentDisarms ==
  /\ sending /\ letters = 0
  /\ sending' = FALSE /\ retry' = FALSE
  /\ Arm(FALSE, FALSE)
  /\ UNCHANGED <<storage, watchdog, handling, loaded, goes, timer, bounds>>

AllSent ==
  /\ sending /\ letters = 0
  /\ sending' = FALSE /\ retry' = FALSE
  /\ Arm(watchdog, FALSE)
  /\ UNCHANGED <<storage, watchdog, handling, loaded, goes, timer, bounds>>

Timer ==
  /\ timer
  /\ timer' = FALSE
  /\ Send(letters)
  /\ UNCHANGED <<storage, alarms, handling, loaded, goes, retry, bounds>>

-----------------------------------------------------------------------------
\* The platform takes the object away.  An alarm whose handler did not return
\* fires again.
Crash ==
  /\ loaded /\ crashes < MaxCrashes
  /\ crashes' = crashes + 1
  /\ alarm' = IF handling /\ alarm = "none" THEN "retry" ELSE alarm
  /\ handling' = FALSE
  /\ loaded' = FALSE /\ run' = "off" /\ kick' = FALSE /\ ok' = FALSE
  /\ watchdog' = FALSE /\ armed' = "none" /\ stepArmed' = FALSE
  /\ sending' = FALSE /\ retry' = FALSE /\ timer' = FALSE
  /\ UNCHANGED <<storage, unset, sent, posted, faults, refusals>>

\* The registry stops an object that runs nothing and serves no request: its
\* memory goes, with its timer, and its alarm stays.  Or, as a plausible slip,
\* it looks at the requests and not at what runs (DropsBusy).
DropsBusy ==
  /\ loaded /\ ~handling
  /\ loaded' = FALSE /\ run' = "off" /\ kick' = FALSE /\ ok' = FALSE
  /\ watchdog' = FALSE /\ armed' = "none" /\ stepArmed' = FALSE
  /\ sending' = FALSE /\ retry' = FALSE /\ timer' = FALSE
  /\ UNCHANGED <<storage, alarm, unset, handling, bounds>>

Drop ==
  /\ loaded /\ ~handling /\ run = "off" /\ ~sending
  /\ loaded' = FALSE /\ kick' = FALSE /\ ok' = FALSE
  /\ watchdog' = FALSE /\ armed' = "none" /\ stepArmed' = FALSE
  /\ retry' = FALSE /\ timer' = FALSE
  /\ UNCHANGED <<storage, alarm, unset, handling, run, sending, bounds>>

Init ==
  /\ waiting = 0 /\ left = 0 /\ letters = 0 /\ begun = FALSE
  /\ alarm = "none" /\ handling = FALSE /\ unset = FALSE
  /\ loaded = FALSE /\ run = "off" /\ kick = FALSE /\ ok = FALSE
  /\ watchdog = FALSE /\ armed = "none" /\ stepArmed = FALSE
  /\ sending = FALSE /\ retry = FALSE /\ timer = FALSE
  /\ sent = 0 /\ posted = 0 /\ crashes = 0 /\ faults = 0 /\ refusals = 0

Runs  == RunStarts \/ TakeWake \/ StepStarts \/ StepEnds \/ Idle \/ Suspend \/ RunEnds
Sends == Deliver \/ AllSent
Fails == StorageFails \/ Refused \/ Crash

Next == Wake \/ Read \/ Alarm \/ HandlerReturns \/ Timer \/ StepTicks \/ Drop \/ Runs \/ Sends \/ Fails

\* The object's goroutines are scheduled, its timer and the platform's alarm
\* fire.  Nobody has to make a request, and nothing has to fail.
Fairness == WF_vars(Runs) /\ WF_vars(Sends) /\ WF_vars(Timer) /\ WF_vars(Alarm) /\ WF_vars(HandlerReturns)

Spec == Init /\ [][Next]_vars /\ Fairness

-----------------------------------------------------------------------------
(* Properties.                                                             *)

Alarms == {"none", "watchdog", "retry"}

\* Types: what is counted, and what is set.
Counts ==
  /\ waiting \in Nat /\ left \in 0..Steps /\ letters \in Nat
  /\ sent \in Nat /\ posted \in Nat /\ crashes \in Nat /\ faults \in Nat /\ refusals \in Nat

Flags ==
  /\ alarm \in Alarms /\ armed \in Alarms
  /\ run \in {"off", "start", "run", "step", "idle", "end"}
  /\ begun \in BOOLEAN /\ unset \in BOOLEAN /\ handling \in BOOLEAN /\ loaded \in BOOLEAN
  /\ kick \in BOOLEAN /\ ok \in BOOLEAN
  /\ watchdog \in BOOLEAN /\ stepArmed \in BOOLEAN
  /\ sending \in BOOLEAN /\ retry \in BOOLEAN /\ timer \in BOOLEAN

TypeOK == Counts /\ Flags

\* While a step runs, the platform has an alarm to restart it with, or waits
\* for the handler of one, whatever deliveries and their retries did with the
\* one alarm they share.  Only when the last SetAlarm failed may there be none,
\* and then the object does not believe that there is (runtime.go busy,
\* outbox.go armLocked, send).
StepHasAlarm == run = "step" => alarm # "none" \/ handling \/ (unset /\ armed = "none")

\* A delivery that failed is retried: a letter waits for a goroutine or a
\* timer, and when the registry drops the object with its timer, the alarm
\* still fires.  Only the letters of an object that the platform stopped, or
\* that was dropped when the last SetAlarm had failed, may have to wait for its
\* next call (outbox.go send, armLocked, registry.go release).
LetterHasSender ==
  letters # 0 => IF loaded THEN sending \/ timer ELSE alarm # "none" \/ crashes > 0 \/ unset

\* In an object that its platform does not stop and whose storage works, every
\* wake is handled and every turn runs to its end, whenever a request comes
\* while a run ends, whenever the registry drops the object, and whether or
\* not the alarm can be set (object.go run, start; registry.go release).
WakesRun == waiting + left > 0 ~> waiting + left = 0 \/ crashes + faults > 0

\* A step that began ends, in an object that crashes at any point: the alarm
\* restarts it, if it could be set, and no delivery and no storage failed
\* (runtime.go busy, wait).
StepRestarts == begun ~> ~begun \/ refusals + faults > 0 \/ unset

\* In an object that its platform does not stop every letter goes out, though
\* deliveries fail, steps post more, and the registry drops the object with its
\* retry timer, unless the alarm could not be set before it does (outbox.go
\* send, armLocked; registry.go release).
LettersGo == letters > 0 ~> letters = 0 \/ crashes > 0 \/ (~loaded /\ unset)

\* All three: whatever stops the object, what it began or was asked goes on.
ObjectGoesOn == WakesRun /\ StepRestarts /\ LettersGo

\* docs/session.md:143, "The alarm that restarts an object that stopped during
\* a step": a step that began ends.
StepsEnd == begun ~> ~begun

\* outbox.go:19, "so none is lost when the object stops": in an object whose
\* platform does not stop it, every letter goes out.
LettersEnd == letters > 0 ~> letters = 0 \/ crashes > 0

\* runtime.go:346, "busy sets the watchdog alarm while a step runs".
StepAlwaysHasAlarm == run = "step" => alarm # "none" \/ handling
=============================================================================
