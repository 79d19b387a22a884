----------------------------- MODULE MCSession -----------------------------
(***************************************************************************)
(* The sessions a run of SessionTurn explores.                             *)
(***************************************************************************)
EXTENDS SessionTurn

\* A chat, a task or a worker child whose model may fail or refuse a long
\* window: restarted whenever it waits, steered by prompts, and told of its
\* jobs' ends twice.
Steered(role, prompts, closes) ==
  [role |-> role, calls |-> 1, reply |-> 1,
   prompts |-> prompts, resumes |-> 1, cancels |-> 1, closes |-> closes,
   faults |-> {"infer", "long"}, stale |-> FALSE, repeat |-> TRUE, suspend |-> TRUE]

\* A chat whose replies ask for two calls, any step of which may fail, and
\* whose host answers what nothing asks.
Faulty ==
  [role |-> "chat", calls |-> 2, reply |-> 2,
   prompts |-> 2, resumes |-> 1, cancels |-> 1, closes |-> 0,
   faults |-> {"commit", "infer", "tool", "start", "long"},
   stale |-> TRUE, repeat |-> FALSE, suspend |-> FALSE]

\* A chat of one call, whose step may fail while a prompt waits in the inbox
\* of the parked turn: the third prompt overtakes it.
Overtaking ==
  [role |-> "chat", calls |-> 1, reply |-> 1,
   prompts |-> 3, resumes |-> 1, cancels |-> 1, closes |-> 0,
   faults |-> {"tool"}, stale |-> FALSE, repeat |-> FALSE, suspend |-> FALSE]

\* A session with three prompts, or with two and a close: the two together only
\* make the run longer, save for a worker, which is soon over.
MCSessions ==
  {Steered("chat", 3, 0), Steered("chat", 2, 1),
   Steered("task", 2, 1), Steered("worker", 3, 1), Faulty, Overtaking}
=============================================================================
