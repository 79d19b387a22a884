----------------------------- MODULE SessionInbox -----------------------------
(***************************************************************************)
(* What a durable session promises its callers about the wakes it accepts: *)
(* each is handled once, in the order it was accepted, whatever crashes.   *)
(* The one exception is a cancel that comes while a step runs: it goes     *)
(* first, and the prompts queued before it are dropped with it.            *)
(***************************************************************************)
EXTENDS Picks

CONSTANT Kinds

VARIABLES
  accepted,   \* the kinds of the wakes accepted, in order; a wake is its number
  queue,      \* the accepted wakes not yet handled
  handled,    \* the wakes the session handled, in the order it did
  dropped,    \* a cancel that stopped a step, and the prompts it dropped
  over        \* the session ended, and forgot its queue

vars == <<accepted, queue, handled, dropped, over>>

Init ==
  /\ accepted = <<>> /\ queue = <<>> /\ handled = <<>>
  /\ dropped = {} /\ over = FALSE

Accept(k) ==
  /\ ~over
  /\ accepted' = Append(accepted, k)
  /\ queue' = Append(queue, Len(accepted'))
  /\ UNCHANGED <<handled, dropped, over>>

Handle ==
  /\ queue # <<>>
  /\ handled' = Append(handled, Head(queue))
  /\ queue' = Tail(queue)
  /\ UNCHANGED <<accepted, dropped, over>>

\* The first cancel of the queue, with the prompts before it.
StopStep ==
  \E i \in DOMAIN queue :
    /\ accepted[queue[i]] = "cancel"
    /\ \A j \in 1..(i - 1) : accepted[queue[j]] # "cancel"
    /\ LET before == {j \in 1..(i - 1) : accepted[queue[j]] = "prompt"}
           Out    == {queue[j] : j \in before \union {i}}
       IN  /\ dropped' = dropped \union Out
           /\ queue' = Picked(queue, {j \in DOMAIN queue : queue[j] \notin Out})
    /\ UNCHANGED <<accepted, handled, over>>

End ==
  /\ ~over /\ \E i \in DOMAIN handled : accepted[handled[i]] = "close"
  /\ over' = TRUE /\ queue' = <<>>
  /\ UNCHANGED <<accepted, handled, dropped>>

Next == (\E k \in Kinds : Accept(k)) \/ Handle \/ StopStep \/ End

Spec == Init /\ [][Next]_vars
=============================================================================
