------------------------------ MODULE MCTools ------------------------------
(***************************************************************************)
(* What a run of the tools explores: the calls of a session's replies, from *)
(* their questions to their Commit (ToolCalls), and one file that the tools *)
(* of two sessions edit (FileEdit).  The two share no state: Init chooses    *)
(* the part that moves, and the other one rests in one of its initial       *)
(* states.                                                                  *)
(***************************************************************************)
EXTENDS ToolCalls, TLC

CONSTANTS
    Sessions, None, Backends, MaxEdits, MaxReads, MaxFaults, Blind, Subst,
    MaxTextEdits, \* bound: edits of a text; a Google Doc takes MaxEdits
    MaxDiskReads  \* bound: reads on the local disk; the others take MaxReads

VARIABLES
    part,  \* "calls" or "file"
    backend, file, lastRev, cache, op, handle, acked, seen, foreign, edits, reads, faults

fileVars == <<backend, file, lastRev, cache, op, handle, acked, seen, foreign, edits, reads, faults>>

File == INSTANCE FileEdit

\* Each part has one initial state in which it rests.
CallsRest ==
    /\ runtime = CHOOSE r \in Runtimes : TRUE
    /\ tools = CHOOSE kit \in Kits : TRUE
    /\ granted = {} /\ plan = <<>>
FileRests == backend = CHOOSE b \in Backends : TRUE

MCInit ==
    /\ Init /\ File!Init
    /\ \/ part = "calls" /\ FileRests
       \/ part = "file" /\ CallsRest

\* FileEdit's bounds, for a text: past them nobody edits, or opens the file to edit
\* it, and nobody reads a disk.
TextBound ==
    /\ backend # "doc" =>
        /\ edits' <= MaxTextEdits
        /\ edits < MaxTextEdits \/ \A s \in Sessions : handle'[s].open => handle[s].open
    /\ backend = "local" => reads' <= MaxDiskReads

CallsMove == part = "calls" /\ Next /\ UNCHANGED <<part, fileVars>>
FileMoves == part = "file" /\ File!Next /\ TextBound /\ UNCHANGED <<part, vars>>

MCSpec == MCInit /\ [][CallsMove \/ FileMoves]_<<vars, fileVars, part>>

\* FileEdit's: no edit undoes one that was reported done before it began and that
\* it found in the file, no first try of a Doc's edit drops one, and no agent is
\* told its token is stale when the file is as it left it.
EditsKept == File!EditsKept

\* Sessions are interchangeable; the calls know nothing of them.
Symmetry == Permutations(Sessions)
=============================================================================
