-------------------------- MODULE ObjectAlarm_proofs --------------------------
(***************************************************************************)
(* Proofs about ObjectAlarm, for any number of wakes, steps, letters,      *)
(* crashes, drops, storage failures, refused deliveries and alarms that    *)
(* could not be set: a running step has an alarm behind it, and a letter a *)
(* sender, unless the last SetAlarm failed, and then nobody believes in an *)
(* alarm that is not there.                                                *)
(***************************************************************************)
EXTENDS ObjectAlarm, TLAPS

-----------------------------------------------------------------------------
(* Type correctness.                                                       *)

\* A step that runs is one of the turn's.
StepLeft == Counts /\ (run = "step" => left > 0)

\* What is counted stays a count: a step, a wake or a letter is only counted
\* down when there is one (object.go run, outbox.go send).
THEOREM CountsAlways == Spec => []Counts
<1>1. Init => StepLeft
  BY ConstantsOK DEF Init, StepLeft, Counts
<1>2. StepLeft /\ [Next]_vars => StepLeft'
  <2> SUFFICES ASSUME StepLeft, [Next]_vars PROVE StepLeft'
    OBVIOUS
  <2> USE ConstantsOK DEF StepLeft, Counts, storage, goes, bounds
  <2>1. CASE Wake
    BY <2>1 DEF Wake, Kicked
  <2>2. CASE Read
    BY <2>2 DEF Read
  <2>3. CASE Alarm
    BY <2>3 DEF Alarm, Kicked
  <2>4. CASE HandlerReturns
    BY <2>4 DEF HandlerReturns
  <2>5. CASE Timer
    BY <2>5 DEF Timer
  <2>6. CASE StepTicks
    BY <2>6 DEF StepTicks
  <2>7. CASE RunStarts
    BY <2>7 DEF RunStarts
  <2>8. CASE TakeWake
    BY <2>8 DEF TakeWake
  <2>9. CASE StepStarts
    BY <2>9 DEF StepStarts
  <2>10. CASE StepEnds
    BY <2>10 DEF StepEnds
  <2>11. CASE Idle
    BY <2>11 DEF Idle
  <2>12. CASE Suspend
    BY <2>12 DEF Suspend
  <2>13. CASE RunEnds
    BY <2>13 DEF RunEnds
  <2>14. CASE Deliver
    BY <2>14 DEF Deliver
  <2>15. CASE AllSent
    BY <2>15 DEF AllSent
  <2>16. CASE StorageFails
    BY <2>16 DEF StorageFails
  <2>17. CASE Refused
    BY <2>17 DEF Refused
  <2>18. CASE Crash
    BY <2>18 DEF Crash
  <2>20. CASE Drop
    BY <2>20 DEF Drop
  <2>19. CASE UNCHANGED vars
    BY <2>19 DEF vars
  <2> QED
    BY <2>1, <2>2, <2>3, <2>4, <2>5, <2>6, <2>7, <2>8, <2>9, <2>10, <2>11, <2>12, <2>13,
       <2>14, <2>15, <2>16, <2>17, <2>18, <2>19, <2>20 DEF Next, Runs, Sends, Fails
<1>3. StepLeft => Counts
  BY DEF StepLeft
<1> QED
  BY <1>1, <1>2, <1>3, PTL DEF Spec

\* Every flag and phase keeps its type.
THEOREM FlagsAlways == Spec => []Flags
<1>1. Init => Flags
  BY Zenon DEF Init, Flags, Alarms
<1>2. Flags /\ [Next]_vars => Flags'
  <2> SUFFICES ASSUME Flags, [Next]_vars PROVE Flags'
    OBVIOUS
  <2> USE DEF Flags, Alarms, storage, goes, outbox, alarms
  <2>1. CASE Wake
    <3>1. sending' = sending \/ sending' = (sending \/ letters # 0)
      BY <2>1 DEF Wake, Load, Send
    <3>2. sending' \in BOOLEAN
      BY <3>1
    <3> QED
      BY <2>1, <3>2 DEF Wake, Load, Kicked
  <2>2. CASE Read
    BY <2>2 DEF Read, Load, Send
  <2>3. CASE Alarm
    BY <2>3 DEF Alarm, Kicked, Send
  <2>4. CASE HandlerReturns
    BY <2>4, ZenonT(30) DEF HandlerReturns
  <2>5. CASE Timer
    <3>1. sending' \in BOOLEAN
      BY <2>5 DEF Timer, Send
    <3>2. timer' \in BOOLEAN
      BY <2>5 DEF Timer
    <3>3. UNCHANGED <<storage, alarms, handling, loaded, goes, retry>>
      BY <2>5 DEF Timer
    <3> QED
      BY <3>1, <3>2, <3>3
  <2>6. CASE StepTicks
    BY <2>6 DEF StepTicks, Arm, SetAlarm, Wanted
  <2>7. CASE RunStarts
    BY <2>7 DEF RunStarts
  <2>8. CASE TakeWake
    BY <2>8 DEF TakeWake
  <2>9. CASE StepStarts
    BY <2>9 DEF StepStarts, Arm, SetAlarm, Wanted
  <2>10. CASE StepEnds
    BY <2>10, ZenonT(30) DEF StepEnds, Send
  <2>11. CASE Idle
    BY <2>11, ZenonT(30) DEF Idle, Arm, SetAlarm, Wanted
  <2>12. CASE Suspend
    BY <2>12 DEF Suspend
  <2>13. CASE RunEnds
    BY <2>13 DEF RunEnds
  <2>14. CASE Deliver
    BY <2>14 DEF Deliver
  <2>15. CASE AllSent
    BY <2>15, ZenonT(30) DEF AllSent, Arm, SetAlarm, Wanted
  <2>16. CASE StorageFails
    BY <2>16, ZenonT(30) DEF StorageFails
  <2>17. CASE Refused
    BY <2>17 DEF Refused, Arm, SetAlarm, Wanted
  <2>18. CASE Crash
    BY <2>18 DEF Crash
  <2>20. CASE Drop
    BY <2>20 DEF Drop
  <2>19. CASE UNCHANGED vars
    BY <2>19 DEF vars
  <2> QED
    BY <2>1, <2>2, <2>3, <2>4, <2>5, <2>6, <2>7, <2>8, <2>9, <2>10, <2>11, <2>12, <2>13,
       <2>14, <2>15, <2>16, <2>17, <2>18, <2>19, <2>20 DEF Next, Runs, Sends, Fails
<1> QED
  BY <1>1, <1>2, PTL DEF Spec

\* Types, for every value of the constants.
THEOREM TypeOKAlways == Spec => []TypeOK
BY CountsAlways, FlagsAlways, PTL DEF TypeOK

-----------------------------------------------------------------------------
(* The alarm behind a step.                                                *)

\* What the object believes of the platform's one alarm, and when it may:
\* an alarm it armed is set (armLocked, Alarm), a run that armed the
\* watchdog keeps it until it idles (busy, idle), and then the alarm is set,
\* for the watchdog or sooner for a delivery, its handler still waits, or
\* it could not be set.
ArmedOK ==
  /\ armed # "none" => alarm # "none"
  /\ stepArmed => watchdog
  /\ stepArmed /\ run \in {"run", "step", "idle"} => armed # "none" \/ handling \/ unset
  /\ run = "step" => stepArmed

\* The inductive step: of the actions that move the alarm, none takes one away
\* when the new one cannot be set (SetAlarm), a delivery's end
\* (Refused, AllSent) keeps it for a watchdog that is set, an alarm that
\* fires is handled until the run is over, and only an idle or a crash
\* takes the watchdog away.
LEMMA ArmedStep == ArmedOK /\ [Next]_vars => ArmedOK'
<1> SUFFICES ASSUME ArmedOK, [Next]_vars PROVE ArmedOK'
  OBVIOUS
<1> USE DEF ArmedOK, goes, alarms
<1>1. CASE Wake
  BY <1>1 DEF Wake, Kicked
<1>2. CASE Read
  BY <1>2 DEF Read
<1>3. CASE Alarm
  BY <1>3 DEF Alarm, Kicked
<1>4. CASE HandlerReturns
  BY <1>4 DEF HandlerReturns
<1>5. CASE Timer
  BY <1>5 DEF Timer
<1>6. CASE StepTicks
  BY <1>6 DEF StepTicks, Arm, SetAlarm, Wanted
<1>7. CASE RunStarts
  BY <1>7 DEF RunStarts
<1>8. CASE TakeWake
  BY <1>8 DEF TakeWake
<1>9. CASE StepStarts
  BY <1>9 DEF StepStarts, Arm, SetAlarm, Wanted
<1>10. CASE StepEnds
  BY <1>10 DEF StepEnds
<1>11. CASE Idle
  BY <1>11 DEF Idle, Arm, SetAlarm, Wanted
<1>12. CASE Suspend
  BY <1>12 DEF Suspend
<1>13. CASE RunEnds
  BY <1>13 DEF RunEnds
<1>14. CASE Deliver
  BY <1>14 DEF Deliver
<1>15. CASE AllSent
  BY <1>15 DEF AllSent, Arm, SetAlarm, Wanted
<1>16. CASE StorageFails
  BY <1>16 DEF StorageFails
<1>17. CASE Refused
  BY <1>17 DEF Refused, Arm, SetAlarm, Wanted
<1>18. CASE Crash
  BY <1>18 DEF Crash
<1>20. CASE Drop
  BY <1>20 DEF Drop
<1>19. CASE UNCHANGED vars
  BY <1>19 DEF vars
<1> QED
  BY <1>1, <1>2, <1>3, <1>4, <1>5, <1>6, <1>7, <1>8, <1>9, <1>10, <1>11, <1>12, <1>13,
     <1>14, <1>15, <1>16, <1>17, <1>18, <1>19, <1>20 DEF Next, Runs, Sends, Fails

\* While a step runs, the platform has an alarm to restart it with or waits
\* for the handler of one, unless the last SetAlarm failed and the object knows
\* of no alarm, for any number of crashes, failures of each kind and letters
\* (runtime.go busy, outbox.go armLocked and send).
THEOREM StepHasAlarmAlways == Spec => []StepHasAlarm
<1>1. Init => ArmedOK
  BY DEF Init, ArmedOK
<1>2. ArmedOK => StepHasAlarm
  BY DEF ArmedOK, StepHasAlarm
<1> QED
  BY <1>1, <1>2, ArmedStep, PTL DEF Spec

-----------------------------------------------------------------------------
(* The sender behind a letter.                                             *)

\* What a letter waits for.  Unless a goroutine delivers it, a delivery failed:
\* the timer is set, and so is the alarm, unless it could not be; armLocked keeps
\* it for the retry whatever steps do with it.  Without the memory there is only
\* that alarm.  An object without memory runs, sends and times nothing.
WaitsOn ==
  /\ sending \/ timer \/ run # "off" => loaded
  /\ loaded /\ letters # 0 /\ ~sending => timer /\ retry /\ (alarm # "none" \/ unset)
  /\ ~loaded /\ letters # 0 => alarm # "none" \/ crashes > 0 \/ unset

\* The inductive step: only an end of a delivery or a fired alarm touches the
\* retry's alarm, and both leave a goroutine or set it again; a step or an
\* idle that arms the alarm finds the retry (armLocked); a drop finds a failed
\* delivery's alarm set, since it waits for the goroutine (idleLocked).
LEMMA WaitsOnStep == Counts /\ ArmedOK /\ WaitsOn /\ [Next]_vars => WaitsOn'
<1> SUFFICES ASSUME Counts, ArmedOK, WaitsOn, [Next]_vars PROVE WaitsOn'
  OBVIOUS
<1> USE DEF WaitsOn, storage, goes, alarms, outbox, bounds
<1>1. CASE Wake
  BY <1>1 DEF Wake, Load, Send, Kicked
<1>2. CASE Read
  BY <1>2 DEF Read, Load, Send
<1>3. CASE Alarm
  BY <1>3 DEF Alarm, Send, Kicked
<1>4. CASE HandlerReturns
  BY <1>4 DEF HandlerReturns
<1>5. CASE Timer
  BY <1>5 DEF Timer, Send
<1>6. CASE StepTicks
  BY <1>6 DEF StepTicks, Arm, SetAlarm, Wanted, ArmedOK
<1>7. CASE RunStarts
  BY <1>7 DEF RunStarts
<1>8. CASE TakeWake
  BY <1>8 DEF TakeWake
<1>9. CASE StepStarts
  BY <1>9 DEF StepStarts, Arm, SetAlarm, Wanted, ArmedOK
<1>10. CASE StepEnds
  BY <1>10 DEF StepEnds, Send
<1>11. CASE Idle
  BY <1>11 DEF Idle, Arm, SetAlarm, Wanted, ArmedOK
<1>12. CASE Suspend
  BY <1>12 DEF Suspend
<1>13. CASE RunEnds
  BY <1>13 DEF RunEnds
<1>14. CASE Deliver
  BY <1>14 DEF Deliver
<1>15. CASE AllSent
  BY <1>15 DEF AllSent
<1>16. CASE StorageFails
  BY <1>16 DEF StorageFails
<1>17. CASE Refused
  BY <1>17 DEF Refused, Arm, SetAlarm, Wanted, ArmedOK
<1>18. CASE Crash
  BY <1>18 DEF Crash, Counts
<1>19. CASE Drop
  BY <1>19 DEF Drop
<1>20. CASE UNCHANGED vars
  BY <1>20 DEF vars
<1> QED
  BY <1>1, <1>2, <1>3, <1>4, <1>5, <1>6, <1>7, <1>8, <1>9, <1>10, <1>11, <1>12, <1>13,
     <1>14, <1>15, <1>16, <1>17, <1>18, <1>19, <1>20 DEF Next, Runs, Sends, Fails

\* A letter is being delivered, waits for the timer of a failed delivery, or,
\* in an object the registry dropped with that timer, for the alarm, unless the
\* last SetAlarm failed, for any number of letters, failures and drops (outbox.go send, sendLocked;
\* registry.go release; runtime.go write).
THEOREM LetterHasSenderAlways == Spec => []LetterHasSender
<1>1. Init => ArmedOK /\ WaitsOn
  BY DEF Init, ArmedOK, WaitsOn
<1>2. WaitsOn => LetterHasSender
  BY DEF WaitsOn, LetterHasSender
<1> QED
  BY <1>1, <1>2, CountsAlways, ArmedStep, WaitsOnStep, PTL DEF Spec
=============================================================================
