-------------------------- MODULE SessionContract --------------------------
(***************************************************************************)
(* What a host may rely on of one session (session.Client and              *)
(* session.Status): a session runs one turn at a time; a turn that runs    *)
(* ends, or asks one question and waits; a parked turn goes on with an     *)
(* answer, is aborted by a cancel, or ends with the session; and nothing   *)
(* happens to a session that is closed.  A suspend, a restart, a steering  *)
(* prompt and every step of a turn are invisible here.                     *)
(***************************************************************************)
CONSTANT Calls      \* the calls that may ask a question

VARIABLES
  state,            \* "idle", "running", "parked" or "closed"
  question,         \* the call whose question waits: {} or one call
  result            \* how the last turn ended: "none", "complete" or "failed"

cvars == <<state, question, result>>

CInit == state = "idle" /\ question = {} /\ result = "none"

\* A prompt, or an answer (which an idle session refuses in a turn that
\* fails).
StartTurn ==
  /\ state \in {"idle", "parked"}
  /\ state' = "running" /\ question' = {} /\ result' = "none"

Ask(c) ==
  /\ state = "running"
  /\ state' = "parked" /\ question' = {c} /\ UNCHANGED result

EndTurn ==
  /\ state = "running"
  /\ state' = "idle" /\ result' \in {"complete", "failed"} /\ UNCHANGED question

\* A cancel aborts a parked turn.
Abort ==
  /\ state = "parked"
  /\ state' = "idle" /\ question' = {} /\ result' = "failed"

Close ==
  /\ state \in {"idle", "parked"}
  /\ state' = "closed" /\ question' = {} /\ UNCHANGED result

CNext == StartTurn \/ (\E c \in Calls : Ask(c)) \/ EndTurn \/ Abort \/ Close

CSpec == CInit /\ [][CNext]_cvars
=============================================================================
