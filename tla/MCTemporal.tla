----------------------------- MODULE MCTemporal -----------------------------
(***************************************************************************)
(* What the run of TemporalSession explores: a short host, of any two wakes, *)
(* whose worker may die, and a long one, of three prompts and cancels and    *)
(* without a fault.  The third is what a cancel needs to find a prompt      *)
(* behind the one that started the turn, or after itself.                   *)
(***************************************************************************)
EXTENDS TemporalSession

CONSTANT ShortWakes  \* bound: wakes of the short host

VARIABLE length  \* of the host: "short" or "long"

\* Past its bound a short host only goes on with a close it began.
Short ==
    /\ length = "short"
    /\ \/ Len(sent) < ShortWakes
       \/ UNCHANGED <<sent, closing>>
       \/ closing # "no" /\ closing' # closing

\* A long host prompts first, and then prompts or cancels the session itself.
Long ==
    /\ length = "long"
    /\ faults' = 0 /\ closing' = "no"
    /\ \A i \in DOMAIN sent' :
        sent'[i].to = Root /\ sent'[i].kind \in (IF i = 1 THEN {"prompt"} ELSE {"prompt", "cancel"})

MCInit == Init /\ length \in {"short", "long"}
MCNext == Next /\ (Short \/ Long) /\ UNCHANGED length
MCSpec == MCInit /\ [][MCNext]_<<vars, length>> /\ Fairness
=============================================================================
