-------------------------- MODULE ToolCalls_proofs --------------------------
(***************************************************************************)
(* Proofs about ToolCalls, for any number of calls, replies and troubles,   *)
(* any sets of tools and either runtime: the handler of a gated tool runs   *)
(* only in a call that had leave, a call with leave is not asked again, the *)
(* "always" answers of a round are the decisions its Commit makes, and the  *)
(* plan is what the committed results told of it.                           *)
(***************************************************************************)
EXTENDS ToolCalls, FiniteSetTheorems, SequenceTheorems, WellFoundedInduction, TLAPS

-----------------------------------------------------------------------------
(* The inductive invariant. *)

CallTypes == [tool : tools \cup {"none"}, at : {"out", "new", "park", "done"},
              asks : Questions \cup {"none"}]
Results   == {"none", "ok", "denied", "locked", "failed"}
Always    == {"none", "allow", "deny"}
BodyTypes == [park : Questions \cup {"none"}, payload : Payloads \cup {"none"},
              layers : SUBSET Questions, always : Always, op : BOOLEAN, result : Results]

Types ==
    /\ round \in [Calls -> CallTypes]
    /\ body \in [Calls -> BodyTypes]
    /\ step \in [Calls -> {"no", "run", "ran", "error"}]
    /\ answer \in [call : Calls \cup {0}, payload : Payloads \cup {"none"}]
    /\ decisions \in [tools -> Always]
    /\ given \in [tools -> Seq(Always)]
    /\ leave \in SUBSET Calls

Run(c)  == step[c] \in {"run", "ran"}
\* The call's body is of its last run, which counts or is about to.
Kept(c) == round[c].at # "new" \/ step[c] = "ran"

\* What a body says of its call: its layers and its "always" answer are those
\* of a call that had leave, and it asks for no permission a second time.
BodyGood(c, b) ==
    LET tool == round[c].tool
    IN  /\ b.result # "none" => b.park = "none" \/ b.payload # "none"
        /\ "permission" \in b.layers => c \in leave
        /\ b.result = "none" /\ b.park = "permission" =>
             b.payload = "none" /\ "permission" \notin b.layers
        /\ b.always = "allow" /\ b.result = "none" => "permission" \in b.layers
        /\ c \in leave /\ b.result = "none" /\ Gated(tool) => "permission" \in b.layers
        /\ b.park = "permission" => Gated(tool)
        /\ Writes(tool) /\ b.result # "locked" => HasActive(plan) \/ round[c].at = "out"

\* The answers a body keeps are of those the round was given.
AlwaysGiven(c) ==
    /\ body[c].always # "none" => round[c].at \in {"park", "done"}
                                  /\ body[c].always \in ToSet(given[round[c].tool])

CallGood(c) ==
    /\ step[c] # "no" => turn = "busy" /\ round[c].at \in {"new", "park"}
    /\ Run(c) /\ round[c].at = "park" => answer.call = c
    /\ answer.call = c => round[c].at = "park" /\ step[c] # "no" /\ answer.payload # "none"
    /\ round[c].at # "out" => round[c].tool \in tools
    /\ round[c].at = "out" => body[c] = NoBody /\ c \notin leave
    /\ c \in leave => body[c].park # "permission"
    /\ Kept(c) => BodyGood(c, body[c])
    /\ AlwaysGiven(c)

OneParked == \A c, d \in Calls : round[c].at = "park" /\ round[d].at = "park" => c = d

GivenKept ==
    \A t \in tools : given[t] # <<>> =>
        \E c \in Calls : round[c].at # "out" /\ round[c].tool = t /\ body[c].always # "none"

IInv == Types /\ (\A c \in Calls : CallGood(c)) /\ OneParked /\ GivenKept

-----------------------------------------------------------------------------
(* A run of a call. *)

\* What a run starts from: the body that was kept, with the answer.
StartsGood(c, b) ==
    LET tool == round[c].tool
    IN  /\ b \in BodyTypes /\ b.result = "none" /\ GoesOn(b)
        /\ b.always = Loaded(c).always
        /\ b.payload # "none" => answer.call = c /\ b.payload = answer.payload /\ b.park = Loaded(c).park
        /\ answer.call = c => b.payload # "none" /\ b.park = Loaded(c).park
        /\ "permission" \in b.layers => c \in leave /\ round[c].at # "new"
        /\ b.park = "permission" => b.payload # "none" /\ "permission" \notin b.layers /\ Gated(tool)
        /\ b.always = "allow" => "permission" \in b.layers
        /\ round[c].at # "new" /\ c \in leave =>
             b.park # "permission" /\ (Gated(tool) => "permission" \in b.layers)
        /\ round[c].at # "new" /\ Writes(tool) => HasActive(plan)
        /\ round[c].at = "new" => b = NoBody

LEMMA NoBodyType == NoBody \in BodyTypes /\ NoBody.park = "none" /\ NoBody.payload = "none"
                    /\ NoBody.layers = {} /\ NoBody.always = "none" /\ NoBody.result = "none"
BY DEF NoBody, BodyTypes, Questions, Payloads, Always, Results

LEMMA RunStarts ==
    ASSUME IInv, NEW c \in Calls, step[c] = "run", Resumable(c)
    PROVE  StartsGood(c, Resumed(c)) /\ round[c].at \in {"new", "park"} /\ round[c].tool \in tools
<1>1. CallGood(c) /\ round[c].at \in {"new", "park"} /\ round[c].tool \in tools
    BY DEF IInv, CallGood
<1>2. body[c] \in BodyTypes /\ c # 0
    BY DEF IInv, Types, Calls
<1>3. CASE round[c].at = "new"
    <2>1. answer.call # c /\ Loaded(c) = NoBody /\ Resumed(c) = NoBody
        BY <1>1, <1>3 DEF CallGood, Resumed, Loaded
    <2> QED
        BY <1>1, <1>3, <2>1, NoBodyType DEF StartsGood, GoesOn
<1>4. CASE round[c].at = "park"
    <2>1. Loaded(c) = body[c] /\ answer.call = c /\ answer.payload # "none" /\ answer.payload \in Payloads
        BY <1>1, <1>4 DEF CallGood, Run, Loaded, IInv, Types
    <2>2. BodyGood(c, body[c]) /\ body[c].park # "none" /\ body[c].payload = "none" /\ body[c].result = "none"
          /\ (c \in leave => body[c].park # "permission")
        BY <1>1, <1>4, <2>1 DEF CallGood, Kept, Resumable, BodyGood
    <2>3. Resumed(c) = [body[c] EXCEPT !.payload = answer.payload]
        BY <2>1 DEF Resumed
    <2> DEFINE b == [body[c] EXCEPT !.payload = answer.payload]
    <2>4. /\ b \in BodyTypes /\ b.park = body[c].park /\ b.payload = answer.payload
          /\ b.layers = body[c].layers /\ b.always = body[c].always /\ b.result = body[c].result
        BY <1>2, <2>1 DEF BodyTypes
    <2> HIDE DEF b
    <2>5. StartsGood(c, b)
        BY <1>1, <1>4, <2>1, <2>2, <2>4 DEF StartsGood, GoesOn, BodyGood
    <2> QED
        BY <1>1, <2>3, <2>5 DEF b
<1> QED
    BY <1>1, <1>3, <1>4

\* The call has leave when its run ends.
LeaveNow(c) == HasLeave(c) \/ (round[c].at # "new" /\ c \in leave)

\* What the layers make of it.
LayersGood(c, d) ==
    LET tool == round[c].tool
    IN  /\ d \in BodyTypes /\ d.result \in {"none", "denied"}
        /\ d.result # "none" => d.park = "none" \/ d.payload # "none"
        /\ "permission" \in d.layers => LeaveNow(c)
        /\ d.result = "none" /\ d.park = "permission" => d.payload = "none" /\ "permission" \notin d.layers
        /\ d.always = "allow" /\ d.result = "none" => "permission" \in d.layers
        /\ LeaveNow(c) => d.park # "permission"
        /\ LeaveNow(c) /\ d.result = "none" /\ Gated(tool) => "permission" \in d.layers
        /\ d.park = "permission" => Gated(tool)
        /\ d.park = "auth" => d.payload # "none"
        /\ Gated(tool) /\ GoesOn(d) => "permission" \in d.layers
        /\ d.always # Loaded(c).always => round[c].at = "park" /\ d.always # "none"

LEMMA PermissionLayer ==
    ASSUME NEW c \in Calls, NEW b, StartsGood(c, b), Gated(round[c].tool), round[c].at \in {"new", "park"},
           Types, round[c].tool \in tools
    PROVE  LayersGood(c, ApplyLayer(b, round[c].tool, "permission"))
<1> DEFINE tool == round[c].tool
           d == ApplyLayer(b, tool, "permission")
<1> USE DEF StartsGood
<1>1. CASE "permission" \in b.layers
    <2>1. d = b
        BY <1>1 DEF ApplyLayer
    <2> QED
        BY <1>1, <2>1 DEF LayersGood, LeaveNow, GoesOn
<1>2. CASE "permission" \notin b.layers /\ Answered(b, "permission")
    <2>1. /\ b \in BodyTypes /\ b.park = "permission" /\ b.payload # "none" /\ answer.call = c
          /\ b.payload = answer.payload /\ Loaded(c).park = "permission" /\ round[c].at = "park"
        <3>1. b.park = "permission" /\ b.payload # "none"
            BY <1>2 DEF Answered
        <3> QED
            BY <3>1, NoBodyType
    <2> DEFINE e == Take(Remember(b))
    <2>2. /\ e \in BodyTypes /\ e.park = "none" /\ e.payload = "none" /\ e.result = "none" /\ e.layers = b.layers
          /\ e.always = b.always \/ e.always # "none"
          /\ e.always = "allow" => Allowed(b.payload) \/ b.always = "allow"
        BY <2>1 DEF Take, Remember, Remembered, Allowed, BodyTypes, Always, Questions
    <2>3. d = FinishLayer(e, "permission", ~Allowed(b.payload))
        BY <1>2 DEF ApplyLayer
    <2> HIDE DEF e
    <2>4. CASE Allowed(b.payload)
        <3>1. LeaveNow(c)
            BY <2>1, <2>4 DEF LeaveNow, HasLeave
        <3>2. d = [e EXCEPT !.layers = @ \cup {"permission"}]
            BY <2>3, <2>4 DEF FinishLayer
        <3>3. /\ d \in BodyTypes /\ d.park = "none" /\ d.result = "none" /\ "permission" \in d.layers
              /\ d.always = e.always
            BY <2>2, <3>2 DEF BodyTypes, Questions
        <3> QED
            BY <2>1, <2>2, <3>1, <3>3 DEF LayersGood
    <2>5. CASE ~Allowed(b.payload)
        <3>1. d = [e EXCEPT !.result = "denied"]
            BY <2>3, <2>5 DEF FinishLayer, Result
        <3>2. /\ d \in BodyTypes /\ d.park = "none" /\ d.result = "denied" /\ d.layers = b.layers
              /\ d.always = e.always
            BY <2>2, <3>1 DEF BodyTypes, Results
        <3> QED
            BY <1>2, <2>1, <2>2, <3>2 DEF LayersGood, GoesOn
    <2> QED
        BY <2>4, <2>5
<1>3. CASE "permission" \notin b.layers /\ ~Answered(b, "permission") /\ Decision(b, tool) # "none"
    <2>1. b.park # "permission" /\ b \in BodyTypes /\ b.always # "allow"
        BY <1>3 DEF Answered
    <2>2. d = FinishLayer(b, "permission", Decision(b, tool) = "deny")
        BY <1>3 DEF ApplyLayer
    <2>3. CASE Decision(b, tool) = "deny"
        <3>1. d = [b EXCEPT !.result = "denied"]
            BY <2>2, <2>3 DEF FinishLayer, Result
        <3>2. /\ d \in BodyTypes /\ d.park = b.park /\ d.result = "denied" /\ d.layers = b.layers
              /\ d.always = b.always /\ d.payload = b.payload
            BY <2>1, <3>1 DEF BodyTypes, Results
        <3> QED
            BY <1>3, <2>1, <3>2 DEF LayersGood, GoesOn
    <2>4. CASE Decision(b, tool) # "deny"
        <3>1. LeaveNow(c)
            BY <1>3, <2>1, <2>4 DEF Decision, LeaveNow, HasLeave, Types, BodyTypes, Always
        <3>2. d = [b EXCEPT !.layers = @ \cup {"permission"}]
            BY <2>2, <2>4 DEF FinishLayer
        <3>3. /\ d \in BodyTypes /\ d.park = b.park /\ d.result = "none" /\ "permission" \in d.layers
              /\ d.always = b.always /\ d.payload = b.payload
            BY <2>1, <3>2 DEF BodyTypes, Questions
        <3> QED
            BY <2>1, <3>1, <3>3 DEF LayersGood, GoesOn
    <2> QED
        BY <2>3, <2>4
<1>4. CASE "permission" \notin b.layers /\ ~Answered(b, "permission") /\ Decision(b, tool) = "none"
    <2>1. b.park # "permission" /\ b \in BodyTypes
        BY <1>4 DEF Answered
    <2>2. d = ParkOn(b, "permission")
        BY <1>4 DEF ApplyLayer
    <2>3. /\ d \in BodyTypes /\ d.park = "permission" /\ d.payload = "none" /\ d.result = "none"
          /\ d.layers = b.layers /\ d.always = b.always
        BY <2>1, <2>2 DEF ParkOn, BodyTypes, Questions
    <2>4. b.always = "none" /\ decisions[tool] = "none" /\ tool \notin granted
        BY <1>4 DEF Decision
    <2>5. ~LeaveNow(c)
        BY <1>4, <2>1, <2>4 DEF LeaveNow, HasLeave
    <2> QED
        BY <1>4, <2>3, <2>4, <2>5 DEF LayersGood, GoesOn
<1> QED
    BY <1>1, <1>2, <1>3, <1>4

LEMMA ChoiceLayer ==
    ASSUME NEW c \in Calls, NEW b, LayersGood(c, b), GoesOn(b), "permission" \in b.layers
    PROVE  /\ LayersGood(c, ApplyLayer(b, round[c].tool, "choice"))
           /\ "permission" \in ApplyLayer(b, round[c].tool, "choice").layers
<1> DEFINE d == ApplyLayer(b, round[c].tool, "choice")
<1>1. b \in BodyTypes /\ b.result = "none" /\ LeaveNow(c)
    BY DEF LayersGood, GoesOn
<1>2. CASE d = b
    BY <1>2
<1>3. CASE d = FinishLayer(Take(b), "choice", FALSE)
    <2>1. d = [Take(b) EXCEPT !.layers = @ \cup {"choice"}]
        BY <1>3 DEF FinishLayer
    <2>2. Take(b) \in BodyTypes /\ Take(b).layers = b.layers /\ Take(b).park = "none" /\ Take(b).always = b.always
          /\ Take(b).result = "none"
        BY <1>1 DEF Take, BodyTypes
    <2>3. /\ d \in BodyTypes /\ d.park = "none" /\ d.result = "none" /\ d.always = b.always
          /\ "permission" \in d.layers
        BY <2>1, <2>2 DEF BodyTypes, Questions
    <2> QED
        BY <1>1, <2>3 DEF LayersGood
<1>4. CASE d = ParkOn(b, "choice")
    <2>1. /\ d \in BodyTypes /\ d.park = "choice" /\ d.payload = "none" /\ d.result = "none"
          /\ d.layers = b.layers /\ d.always = b.always
        BY <1>1, <1>4 DEF ParkOn, BodyTypes, Questions
    <2> QED
        BY <1>1, <2>1 DEF LayersGood
<1> QED
    BY <1>2, <1>3, <1>4 DEF ApplyLayer

\* The layers of a run, and that it passes them only with leave.
LEMMA LayeredGood ==
    ASSUME NEW c \in Calls, NEW b, StartsGood(c, b), round[c].at \in {"new", "park"},
           Types, round[c].tool \in tools
    PROVE  LayersGood(c, Layered(b, round[c].tool))
<1> DEFINE tool == round[c].tool
<1>1. CASE tool = "gate"
    <2>1. Layers(tool) = <<"permission">> /\ Gated(tool)
        BY <1>1 DEF Layers, Gated
    <2>2. Layered(b, tool) = ApplyLayer(b, tool, "permission")
        BY <2>1 DEF Layered, StartsGood
    <2> QED
        BY <2>1, <2>2, PermissionLayer
<1>2. CASE tool = "deploy"
    <2>1. Layers(tool) = <<"permission", "choice">> /\ Gated(tool)
        BY <1>2 DEF Layers, Gated
    <2> DEFINE d == ApplyLayer(b, tool, "permission")
    <2>2. Layered(b, tool) = IF GoesOn(d) THEN ApplyLayer(d, tool, "choice") ELSE d
        BY <2>1 DEF Layered, StartsGood
    <2>3. LayersGood(c, d) /\ (GoesOn(d) => "permission" \in d.layers)
        BY <2>1, PermissionLayer DEF LayersGood
    <2> HIDE DEF d
    <2> QED
        BY <2>2, <2>3, ChoiceLayer
<1>3. CASE tool \notin {"gate", "deploy"}
    <2>1. Layers(tool) = <<>> /\ ~Gated(tool)
        BY <1>3 DEF Layers, Gated
    <2>2. Layered(b, tool) = b
        BY <2>1 DEF Layered
    <2> QED
        BY <2>1, <2>2 DEF StartsGood, LayersGood, LeaveNow, GoesOn
<1> QED
    BY <1>1, <1>2, <1>3

\* What a run leaves in its body, and that its handler ran only with leave.
EndsGood(c, d) ==
    LET tool == round[c].tool
    IN  /\ d \in BodyTypes
        /\ d.result # "none" => d.park = "none" \/ d.payload # "none"
        /\ "permission" \in d.layers => LeaveNow(c)
        /\ d.result = "none" /\ d.park = "permission" => d.payload = "none" /\ "permission" \notin d.layers
        /\ d.always = "allow" /\ d.result = "none" => "permission" \in d.layers
        /\ LeaveNow(c) => d.park # "permission"
        /\ LeaveNow(c) /\ d.result = "none" /\ Gated(tool) => "permission" \in d.layers
        /\ d.park = "permission" => Gated(tool)
        /\ Writes(tool) /\ d.result # "locked" => HasActive(plan)
        /\ d.always # Loaded(c).always => round[c].at = "park" /\ d.always # "none"
        /\ Gated(tool) /\ (d.result = "ok" \/ (d.park = "auth" /\ d.payload = "none")) => LeaveNow(c)

LEMMA RunEnds ==
    ASSUME NEW c \in Calls, NEW b, StartsGood(c, b), round[c].at \in {"new", "park"},
           Types, round[c].tool \in tools
    PROVE  /\ EndsGood(c, Ends(b, round[c].tool))
           /\ Reaches(b, round[c].tool) /\ Gated(round[c].tool) =>
                EndsGood(c, ParkOn(Layered(b, round[c].tool), "auth"))
<1> DEFINE tool == round[c].tool
           l == Layered(b, tool)
           d == Ends(b, tool)
<1>1. LayersGood(c, l) /\ l \in BodyTypes
    BY LayeredGood DEF LayersGood
<1>2. CASE Locked(tool)
    <2>1. d = [b EXCEPT !.result = "locked"] /\ ~Reaches(b, tool)
        BY <1>2 DEF Ends, Reaches, Result
    <2>2. b = NoBody
        BY <1>2 DEF Locked, StartsGood
    <2>3. /\ d \in BodyTypes /\ d.park = "none" /\ d.result = "locked" /\ d.layers = {} /\ d.always = "none"
          /\ Loaded(c).always = "none"
        BY <2>1, <2>2, NoBodyType DEF BodyTypes, Results, StartsGood
    <2> QED
        BY <2>1, <2>3 DEF EndsGood
<1>3. CASE ~Locked(tool) /\ ~GoesOn(l)
    <2>1. d = l /\ ~Reaches(b, tool)
        BY <1>3 DEF Ends, Reaches
    <2>2. EndsGood(c, l)
        BY <1>1, <1>3 DEF EndsGood, LayersGood, Locked
    <2> QED
        BY <2>1, <2>2
<1>4. CASE ~Locked(tool) /\ GoesOn(l)
    <2>1. d = Handler(l, tool)
        BY <1>4 DEF Ends, Reaches
    <2>2. /\ l.result = "none" /\ (l.park = "none" \/ l.payload # "none") /\ l.park # "permission"
          /\ Gated(tool) => LeaveNow(c) /\ "permission" \in l.layers
        BY <1>1, <1>4 DEF LayersGood, GoesOn
    <2>3. Writes(tool) => HasActive(plan)
        BY <1>4 DEF Locked
    <2>4. Gated(tool) => EndsGood(c, ParkOn(l, "auth"))
        <3> DEFINE e == ParkOn(l, "auth")
        <3>1. /\ e \in BodyTypes /\ e.park = "auth" /\ e.payload = "none" /\ e.result = "none"
              /\ e.layers = l.layers /\ e.always = l.always
            BY <1>1, <2>2 DEF ParkOn, BodyTypes, Questions
        <3> HIDE DEF e
        <3>2. Gated(tool) => EndsGood(c, e)
            BY <1>1, <2>2, <2>3, <3>1 DEF EndsGood, LayersGood
        <3> QED
            BY <3>2 DEF e
    <2>5. EndsGood(c, d)
        <3>1. CASE d = Result(Take(l), "ok") /\ ~Gated(tool)
            <4>1. /\ Take(l) \in BodyTypes /\ Take(l).park = "none"
                  /\ Take(l).layers = l.layers /\ Take(l).always = l.always
                BY <1>1 DEF Take, BodyTypes
            <4>2. /\ d \in BodyTypes /\ d.park = "none" /\ d.result = "ok" /\ d.layers = l.layers /\ d.always = l.always
                BY <3>1, <4>1 DEF Result, BodyTypes, Results
            <4> QED
                BY <1>1, <2>3, <3>1, <4>2 DEF EndsGood, LayersGood
        <3>2. CASE d = ParkOn(l, "choice") /\ ~Gated(tool)
            <4>1. /\ d \in BodyTypes /\ d.park = "choice" /\ d.payload = "none" /\ d.result = "none"
                  /\ d.layers = l.layers /\ d.always = l.always
                BY <1>1, <2>2, <3>2 DEF ParkOn, BodyTypes, Questions
            <4> QED
                BY <1>1, <2>2, <2>3, <3>2, <4>1 DEF EndsGood, LayersGood
        <3>3. CASE d = Result(l, "failed")
            <4>1. /\ d \in BodyTypes /\ d.park = l.park /\ d.payload = l.payload /\ d.result = "failed"
                  /\ d.layers = l.layers /\ d.always = l.always
                BY <1>1, <3>3 DEF Result, BodyTypes, Results
            <4> QED
                BY <1>1, <2>2, <2>3, <4>1 DEF EndsGood, LayersGood
        <3>4. CASE d = [Result(l, "ok") EXCEPT !.op = tool \in PlanTools]
            <4>1. /\ Result(l, "ok") \in BodyTypes /\ Result(l, "ok").park = l.park /\ Result(l, "ok").payload = l.payload
                  /\ Result(l, "ok").result = "ok" /\ Result(l, "ok").layers = l.layers /\ Result(l, "ok").always = l.always
                BY <1>1 DEF Result, BodyTypes, Results
            <4> DEFINE r == Result(l, "ok")
                       isPlan == tool \in PlanTools
            <4>2. d = [r EXCEPT !.op = isPlan] /\ isPlan \in BOOLEAN
                BY <3>4
            <4> HIDE DEF r, isPlan
            <4>3. /\ d \in BodyTypes /\ d.park = r.park /\ d.payload = r.payload /\ d.result = r.result
                  /\ d.layers = r.layers /\ d.always = r.always
                BY <4>1, <4>2 DEF BodyTypes, r
            <4> QED
                BY <1>1, <2>2, <2>3, <4>1, <4>3 DEF r, EndsGood, LayersGood
        <3> QED
            BY <2>1, <3>1, <3>2, <3>3, <3>4 DEF Handler, Gated
    <2> QED
        BY <2>4, <2>5
<1> QED
    BY <1>2, <1>3, <1>4

\* What every run of a call brings about.
LEMMA AppendSet ==
    ASSUME NEW S, NEW s \in Seq(S), NEW e \in S
    PROVE  /\ Append(s, e) \in Seq(S) /\ Append(s, e) # <<>>
           /\ e \in ToSet(Append(s, e)) /\ ToSet(s) \subseteq ToSet(Append(s, e))
<1>1. /\ Append(s, e) \in Seq(S) /\ Len(Append(s, e)) = Len(s) + 1 /\ Len(s) \in Nat
      /\ DOMAIN s = 1..Len(s) /\ DOMAIN Append(s, e) = 1..(Len(s) + 1)
      /\ Append(s, e)[Len(s) + 1] = e /\ \A i \in 1..Len(s) : Append(s, e)[i] = s[i]
    OBVIOUS
<1>2. Append(s, e) # <<>>
    BY <1>1, Append(s, e) = <<>> => Len(Append(s, e)) = 0
<1>3. Len(s) + 1 \in 1..(Len(s) + 1) /\ 1..Len(s) \subseteq 1..(Len(s) + 1)
    BY <1>1
<1> QED
    BY <1>1, <1>2, <1>3 DEF ToSet

LEMMA KeepGood ==
    ASSUME IInv, NEW c \in Calls, NEW d, EndsGood(c, d), Keep(c, d),
           round[c].at \in {"new", "park"}, round[c].tool \in tools
    PROVE  IInv' /\ (c \in leave' <=> LeaveNow(c))
<1> DEFINE tool == round[c].tool
<1> USE DEF Keep
<1>1. Types
    BY DEF IInv
<1>2. /\ step[c] = "run" /\ step' = [step EXCEPT ![c] = "ran"] /\ body' = [body EXCEPT ![c] = d]
      /\ round' = round /\ tools' = tools /\ answer' = answer /\ decisions' = decisions /\ plan' = plan /\ turn' = turn
    BY DEF committed
<1>3. c \in leave' <=> LeaveNow(c)
    BY DEF LeaveNow
<1>4. \A k \in Calls : k # c => (k \in leave' <=> k \in leave)
    OBVIOUS
<1>5. /\ given' \in [tools -> Seq(Always)]
      /\ \A t \in tools : ToSet(given[t]) \subseteq ToSet(given'[t])
      /\ \A t \in tools : t # tool => given'[t] = given[t]
      /\ d.always # Loaded(c).always => d.always \in ToSet(given'[tool])
      /\ given'[tool] # <<>> => given[tool] # <<>> \/ d.always # Loaded(c).always
    <2>1. d.always \in Always /\ given \in [tools -> Seq(Always)]
        BY <1>1 DEF EndsGood, BodyTypes, Types
    <2>2. CASE d.always = Loaded(c).always
        BY <2>1, <2>2
    <2>3. CASE d.always # Loaded(c).always
        <3> DEFINE new == Append(given[tool], d.always)
        <3>1. given[tool] \in Seq(Always)
            BY <2>1
        <3>2. new \in Seq(Always) /\ d.always \in ToSet(new) /\ ToSet(given[tool]) \subseteq ToSet(new)
            BY <2>1, <3>1, AppendSet
        <3>3. given' = [given EXCEPT ![tool] = new]
            BY <2>3
        <3> HIDE DEF new
        <3> QED
            BY <2>1, <2>3, <3>2, <3>3
    <2> QED
        BY <2>2, <2>3
<1>6. Types'
    <2>1. d \in BodyTypes
        BY DEF EndsGood
    <2>2. leave' \in SUBSET Calls
        BY <1>1 DEF Types
    <2>3. body' \in [Calls -> BodyTypes] /\ step' \in [Calls -> {"no", "run", "ran", "error"}]
        BY <1>1, <1>2, <2>1 DEF Types
    <2> HIDE DEF Keep
    <2> QED
        BY <1>1, <1>2, <1>5, <2>2, <2>3 DEF Types, CallTypes, BodyTypes
<1> HIDE DEF Keep
<1>7. body'[c] = d /\ step'[c] = "ran" /\ \A k \in Calls : k # c => body'[k] = body[k] /\ step'[k] = step[k]
    BY <1>1, <1>2 DEF Types
<1>8. \A k \in Calls : CallGood(k)
    BY DEF IInv
<1>9. CallGood(c)'
    <2>1. BodyGood(c, d)'
        BY <1>2, <1>3 DEF BodyGood, EndsGood
    <2>2. AlwaysGiven(c)'
        <3>1. d.always # "none" /\ d.always = Loaded(c).always =>
                round[c].at = "park" /\ d.always \in ToSet(given[tool])
            BY <1>8, NoBodyType DEF Loaded, CallGood, AlwaysGiven
        <3>2. d.always # Loaded(c).always => round[c].at = "park" /\ d.always \in ToSet(given'[tool])
            BY <1>5 DEF EndsGood
        <3> QED
            BY <1>2, <1>5, <1>7, <3>1, <3>2 DEF AlwaysGiven
    <2>3. c \in leave' => d.park # "permission"
        BY <1>3 DEF EndsGood
    <2>4. step[c] # "no" /\ Run(c) /\ CallGood(c)
        BY <1>2, <1>8 DEF Run
    <2> QED
        BY <1>2, <1>7, <2>1, <2>2, <2>3, <2>4 DEF CallGood, Run
<1>10. ASSUME NEW k \in Calls, k # c PROVE CallGood(k)'
    <2>1. CallGood(k) /\ body'[k] = body[k] /\ step'[k] = step[k] /\ (k \in leave' <=> k \in leave)
        BY <1>4, <1>7, <1>8, <1>10
    <2>2. Kept(k)' <=> Kept(k)
        BY <1>2, <2>1 DEF Kept
    <2>3. BodyGood(k, body[k])' <=> BodyGood(k, body[k])
        BY <1>2, <2>1 DEF BodyGood
    <2>4. AlwaysGiven(k) => AlwaysGiven(k)'
        <3>1. body[k].always # "none" /\ AlwaysGiven(k) => round[k].tool \in tools
            BY <2>1 DEF AlwaysGiven, CallGood
        <3> QED
            BY <1>2, <1>5, <2>1, <3>1 DEF AlwaysGiven
    <2> QED
        BY <1>2, <2>1, <2>2, <2>3, <2>4 DEF CallGood, Run, BodyGood
<1>11. GivenKept'
    <2> SUFFICES ASSUME NEW t \in tools, given'[t] # <<>>
                 PROVE  \E k \in Calls : round[k].at # "out" /\ round[k].tool = t /\ body'[k].always # "none"
        BY <1>2 DEF GivenKept
    <2>1. CASE given[t] # <<>>
        <3>1. PICK k \in Calls : round[k].at # "out" /\ round[k].tool = t /\ body[k].always # "none"
            BY <2>1 DEF IInv, GivenKept
        <3>2. k = c => d.always # "none"
            BY <1>8, <3>1 DEF CallGood, AlwaysGiven, EndsGood, Loaded
        <3> QED
            BY <1>7, <3>1, <3>2
    <2>2. CASE given[t] = <<>>
        <3>1. t = tool /\ d.always # "none"
            BY <1>5, <2>2 DEF EndsGood
        <3> QED
            BY <1>7, <3>1
    <2> QED
        BY <2>1, <2>2
<1>12. OneParked'
    BY <1>2 DEF IInv, OneParked
<1> QED
    BY <1>3, <1>6, <1>9, <1>10, <1>11, <1>12 DEF IInv

\* A run of a call, and a run that finds its credentials expired.
LEMMA RunGood ==
    ASSUME IInv, NEW c \in Calls, RunCall(c) \/ Expired(c)
    PROVE  /\ IInv' /\ round' = round /\ \A k \in Calls : k # c => step'[k] = step[k]
           /\ HandlerRuns(c) /\ Gated(round[c].tool) => c \in leave'
<1> DEFINE b == Resumed(c)
           tool == round[c].tool
<1>1. step[c] = "run" /\ Resumable(c)
    BY DEF RunCall, Expired, Keep
<1>2. StartsGood(c, b) /\ round[c].at \in {"new", "park"} /\ tool \in tools
    BY <1>1, RunStarts
<1>3. PICK d : Keep(c, d) /\ EndsGood(c, d)
    BY <1>2, RunEnds DEF RunCall, Expired, IInv
<1>4. IInv' /\ (c \in leave' <=> LeaveNow(c))
    BY <1>2, <1>3, KeepGood
<1>5. body'[c] = d /\ round' = round /\ \A k \in Calls : k # c => step'[k] = step[k]
    BY <1>3 DEF Keep, IInv, Types
<1> QED
    BY <1>3, <1>4, <1>5 DEF HandlerRuns, EndsGood

-----------------------------------------------------------------------------
(* The steps of a round. *)

\* A step that writes no body and moves no call of the round.
LEMMA StepsGood ==
    ASSUME IInv, UNCHANGED <<tools, decisions, plan, round, body, given, leave>>,
           step' \in [Calls -> {"no", "run", "ran", "error"}],
           answer' \in [call : Calls \cup {0}, payload : Payloads \cup {"none"}],
           \A c \in Calls :
              /\ step'[c] # "no" => turn' = "busy" /\ round[c].at \in {"new", "park"}
              /\ Run(c)' /\ round[c].at = "park" => answer'.call = c
              /\ answer'.call = c => round[c].at = "park" /\ step'[c] # "no" /\ answer'.payload # "none"
              /\ step'[c] = "ran" => step[c] = "ran"
    PROVE  IInv'
<1>1. Types'
    BY DEF IInv, Types, CallTypes, BodyTypes
<1>2. ASSUME NEW c \in Calls PROVE CallGood(c)'
    <2>1. CallGood(c)
        BY DEF IInv
    <2>2. Kept(c)' => Kept(c)
        BY DEF Kept
    <2>3. BodyGood(c, body[c])' <=> BodyGood(c, body[c])
        BY DEF BodyGood
    <2>4. AlwaysGiven(c)' <=> AlwaysGiven(c)
        BY DEF AlwaysGiven
    <2> QED
        BY <2>1, <2>2, <2>3, <2>4 DEF CallGood
<1>3. OneParked' /\ GivenKept'
    BY DEF IInv, OneParked, GivenKept
<1> QED
    BY <1>1, <1>2, <1>3 DEF IInv

LEMMA NotBusy ==
    ASSUME IInv, Stepping = {} \/ turn # "busy"
    PROVE  \A c \in Calls : step[c] = "no" /\ answer.call # c
BY DEF IInv, CallGood, Stepping

\* The steps of a call that end no run, and those between two steps.
LEMMA OthersGood ==
    ASSUME IInv,
           \/ \E c \in Calls : Refused(c) \/ StepFails(c) \/ AttemptLost(c)
           \/ \E lost \in SUBSET Calls : CancelStep(lost)
           \/ Ask \/ ResumeBare \/ Cancel \/ CommitFails
           \/ \E grants \in SUBSET {t \in tools : Gated(t)} : Redeploy(grants)
    PROVE  /\ IInv' /\ round' = round
           /\ \A c \in Calls : step'[c] = "ran" => step[c] = "ran"
<1> USE DEF committed, history
<1>1. /\ step \in [Calls -> {"no", "run", "ran", "error"}]
      /\ answer \in [call : Calls \cup {0}, payload : Payloads \cup {"none"}]
      /\ \A c \in Calls : CallGood(c)
    BY DEF IInv, Types
<1>2. ASSUME NEW c \in Calls, Refused(c) \/ StepFails(c) \/ AttemptLost(c)
      PROVE  IInv' /\ round' = round /\ \A k \in Calls : step'[k] = "ran" => step[k] = "ran"
    <2>1. /\ UNCHANGED <<tools, decisions, plan, round, body, given, leave, answer, turn>>
          /\ step[c] \in {"run", "ran"}
          /\ \E end \in {"error", "run"} : step' = [step EXCEPT ![c] = end]
        BY <1>2 DEF Refused, StepFails, AttemptLost
    <2>2. PICK end \in {"error", "run"} : step' = [step EXCEPT ![c] = end]
        BY <2>1
    <2>3. /\ step' \in [Calls -> {"no", "run", "ran", "error"}]
          /\ step'[c] = end /\ \A k \in Calls : k # c => step'[k] = step[k]
        BY <1>1, <2>2
    <2>4. \A k \in Calls :
              /\ step'[k] # "no" => turn' = "busy" /\ round[k].at \in {"new", "park"}
              /\ Run(k)' /\ round[k].at = "park" => answer'.call = k
              /\ answer'.call = k => round[k].at = "park" /\ step'[k] # "no" /\ answer'.payload # "none"
              /\ step'[k] = "ran" => step[k] = "ran"
        BY <1>1, <2>1, <2>3 DEF CallGood, Run
    <2> QED
        BY <1>1, <2>1, <2>3, <2>4, StepsGood
<1>3. ASSUME NEW lost \in SUBSET Calls, CancelStep(lost)
      PROVE  IInv' /\ round' = round /\ \A k \in Calls : step'[k] = "ran" => step[k] = "ran"
    <2>1. /\ UNCHANGED <<tools, decisions, plan, round, body, given, leave, answer, turn>>
          /\ step' \in [Calls -> {"no", "run", "ran", "error"}]
          /\ \A k \in Calls : step'[k] = step[k] \/ (step'[k] = "error" /\ step[k] \in {"run", "ran"})
        BY <1>1, <1>3 DEF CancelStep
    <2>2. \A k \in Calls :
              /\ step'[k] # "no" => turn' = "busy" /\ round[k].at \in {"new", "park"}
              /\ Run(k)' /\ round[k].at = "park" => answer'.call = k
              /\ answer'.call = k => round[k].at = "park" /\ step'[k] # "no" /\ answer'.payload # "none"
              /\ step'[k] = "ran" => step[k] = "ran"
        BY <1>1, <2>1 DEF CallGood, Run
    <2> QED
        BY <1>1, <2>1, <2>2, StepsGood
<1>4. CASE \/ Ask \/ ResumeBare \/ Cancel \/ CommitFails
           \/ \E grants \in SUBSET {t \in tools : Gated(t)} : Redeploy(grants)
    <2>1. /\ UNCHANGED <<tools, decisions, plan, round, body, given, leave, answer, step>>
          /\ Stepping = {} \/ turn # "busy"
        BY <1>4 DEF Ask, ResumeBare, Cancel, CommitFails, Redeploy
    <2>2. \A c \in Calls : step[c] = "no" /\ answer.call # c
        BY <2>1, NotBusy
    <2> QED
        BY <1>1, <2>1, <2>2, StepsGood DEF Run
<1> QED
    BY <1>2, <1>3, <1>4

LEMMA StartCallsGood ==
    ASSUME IInv, StartCalls
    PROVE  IInv' /\ round' = round /\ \A c \in Calls : step'[c] # "ran"
<1>1. /\ UNCHANGED <<tools, decisions, plan, round, body, given, leave, answer, turn>> /\ turn = "busy"
      /\ step' = [c \in Calls |-> IF c \in Pending THEN "run" ELSE "no"]
    BY DEF StartCalls, committed, history
<1>2. \A c \in Calls : answer.call # c
    BY NotBusy DEF StartCalls
<1>3. /\ step' \in [Calls -> {"no", "run", "ran", "error"}]
      /\ \A c \in Calls : step'[c] # "no" => step'[c] = "run" /\ round[c].at = "new"
    BY <1>1 DEF Pending
<1>4. answer \in [call : Calls \cup {0}, payload : Payloads \cup {"none"}]
    BY DEF IInv, Types
<1>5. \A c \in Calls :
          /\ step'[c] # "no" => turn' = "busy" /\ round[c].at \in {"new", "park"}
          /\ Run(c)' /\ round[c].at = "park" => answer'.call = c
          /\ answer'.call = c => round[c].at = "park" /\ step'[c] # "no" /\ answer'.payload # "none"
          /\ step'[c] = "ran" => step[c] = "ran"
    BY <1>1, <1>2, <1>3 DEF Run
<1> QED
    BY <1>1, <1>3, <1>4, <1>5, StepsGood

LEMMA ResumeGood ==
    ASSUME IInv, NEW c \in Calls, NEW payload \in Payloads, Resume(c, payload)
    PROVE  IInv' /\ round' = round /\ \A k \in Calls : step'[k] # "ran"
<1>1. /\ UNCHANGED <<tools, decisions, plan, round, body, given, leave>> /\ turn' = "busy"
      /\ step' = [k \in Calls |-> IF k = c \/ k \in Pending THEN "run" ELSE "no"]
      /\ answer' = [call |-> c, payload |-> payload] /\ round[c].at = "park"
    BY DEF Resume, committed, history, Parked
<1>2. /\ step' \in [Calls -> {"no", "run", "ran", "error"}] /\ step'[c] = "run"
      /\ \A k \in Calls : step'[k] # "no" => step'[k] = "run" /\ (k = c \/ round[k].at = "new")
    BY <1>1 DEF Pending
<1>3. /\ answer' \in [call : Calls \cup {0}, payload : Payloads \cup {"none"}]
      /\ answer'.call = c /\ answer'.payload # "none"
    BY <1>1 DEF Payloads
<1>4. \A k \in Calls :
          /\ step'[k] # "no" => turn' = "busy" /\ round[k].at \in {"new", "park"}
          /\ Run(k)' /\ round[k].at = "park" => answer'.call = k
          /\ answer'.call = k => round[k].at = "park" /\ step'[k] # "no" /\ answer'.payload # "none"
          /\ step'[k] = "ran" => step[k] = "ran"
    BY <1>1, <1>2, <1>3 DEF Run
<1> QED
    BY <1>1, <1>2, <1>3, <1>4, StepsGood

\* A reply finds nothing of the last round.
LEMMA TakeReplyGood ==
    ASSUME IInv, NEW r \in ToolReplies, TakeReply(r)
    PROVE  IInv' /\ step' = step /\ InReply = {}
<1>1. /\ UNCHANGED <<tools, decisions, plan, body, given, leave, answer, turn, step>> /\ InReply = {}
      /\ round' = [c \in Calls |-> IF c \in DOMAIN r THEN [NoCall EXCEPT !.tool = r[c], !.at = "new"] ELSE NoCall]
    BY DEF TakeReply, committed, history
<1>2. \A c \in Calls : CallGood(c) /\ round[c].at = "out"
    BY <1>1 DEF InReply, IInv
<1>3. \A c \in Calls : step[c] = "no" /\ answer.call # c /\ body[c] = NoBody /\ c \notin leave
    BY <1>2 DEF CallGood
<1>4. \A i \in DOMAIN r : r[i] \in tools
    BY DEF ToolReplies
<1>5. NoCall \in CallTypes /\ NoCall.at = "out"
    BY DEF NoCall, CallTypes
<1>6. ASSUME NEW t \in tools, NEW n \in CallTypes
      PROVE  LET m == [n EXCEPT !.tool = t, !.at = "new"] IN m \in CallTypes /\ m.at = "new" /\ m.tool = t
    BY DEF CallTypes
<1>7. \A c \in Calls : /\ round'[c].at \in {"out", "new"} /\ round'[c] \in CallTypes
                       /\ round'[c].at = "new" => round'[c].tool \in tools
    <2> SUFFICES ASSUME NEW c \in Calls
                 PROVE  /\ round'[c].at \in {"out", "new"} /\ round'[c] \in CallTypes
                        /\ round'[c].at = "new" => round'[c].tool \in tools
        OBVIOUS
    <2>1. CASE c \in DOMAIN r
        <3>1. round'[c] = [NoCall EXCEPT !.tool = r[c], !.at = "new"] /\ r[c] \in tools
            BY <1>1, <1>4, <2>1
        <3> DEFINE m == [NoCall EXCEPT !.tool = r[c], !.at = "new"]
        <3>2. m \in CallTypes /\ m.at = "new" /\ m.tool = r[c]
            BY <1>5, <1>6, <3>1
        <3> HIDE DEF m
        <3>3. round'[c] = m
            BY <3>1 DEF m
        <3> QED
            BY <3>1, <3>2, <3>3
    <2>2. CASE c \notin DOMAIN r
        <3>1. round'[c] = NoCall
            BY <1>1, <2>2
        <3> QED
            BY <1>5, <3>1
    <2> QED
        BY <2>1, <2>2
<1>8. Types'
    <2>1. round' \in [Calls -> CallTypes]
        BY <1>1, <1>7
    <2>2. Types
        BY DEF IInv
    <2> QED
        BY <1>1, <2>1, <2>2 DEF Types, CallTypes, BodyTypes
<1>9. ASSUME NEW c \in Calls PROVE CallGood(c)'
    <2>1. ~Kept(c)' \/ round'[c].at = "out"
        BY <1>1, <1>3, <1>7 DEF Kept
    <2>2. round'[c].at = "out" => BodyGood(c, body[c])'
        BY <1>1, <1>3, NoBodyType DEF BodyGood
    <2> QED
        BY <1>1, <1>3, <1>7, <2>1, <2>2, NoBodyType DEF CallGood, Run, AlwaysGiven, Kept
<1>10. OneParked'
    BY <1>7 DEF OneParked
<1>11. GivenKept'
    BY <1>1, <1>2 DEF IInv, GivenKept
<1> QED
    BY <1>1, <1>8, <1>9, <1>10, <1>11 DEF IInv

\* record: at most one call parks, and one that was answered counts.
LEMMA RecordGood ==
    ASSUME IInv, Record
    PROVE  IInv' /\ InReply' = InReply /\ \A c \in Calls : step'[c] = "no"
<1>1. /\ UNCHANGED <<tools, decisions, plan, body, given, leave>> /\ answer' = NoAnswer
      /\ step' = [c \in Calls |-> "no"] /\ \A c \in Calls : step[c] # "run"
      /\ round' = Recorded
    BY DEF Record, committed, history
<1>2. \A c \in Calls : CallGood(c)
    BY DEF IInv
<1>3. Types /\ round \in [Calls -> CallTypes]
    BY DEF IInv, Types
<1>4. ASSUME NEW c \in Calls, step[c] = "ran"
      PROVE  /\ round'[c] \in CallTypes /\ round'[c].tool = round[c].tool
             /\ body[c].result # "none" => round'[c].at = "done"
             /\ body[c].result = "none" => round'[c].at = IF Parks(c) THEN "park" ELSE "new"
             /\ round[c].at # "out"
    <2>1. body[c].park \in Questions \cup {"none"} /\ round[c] \in CallTypes
        BY <1>3 DEF Types, BodyTypes
    <2>2. c \in Asking <=> body[c].result = "none"
        BY <1>4 DEF Asking
    <2>3. round[c].at # "out"
        BY <1>2, <1>4 DEF CallGood
    <2>4. \E a \in {"done", "park", "new"}, q \in Questions \cup {"none"} :
            /\ round'[c] = [round[c] EXCEPT !.at = a, !.asks = q]
            /\ a = IF c \notin Asking THEN "done" ELSE IF Parks(c) THEN "park" ELSE "new"
        <3>1. CASE c \notin Asking
            <4>1. round'[c] = [round[c] EXCEPT !.at = "done", !.asks = "none"]
                BY <1>1, <1>4, <3>1 DEF Recorded
            <4> QED
                BY <3>1, <4>1, Zenon
        <3>2. CASE c \in Asking /\ Parks(c)
            <4>1. round'[c] = [round[c] EXCEPT !.at = "park", !.asks = body[c].park]
                BY <1>1, <1>4, <3>2 DEF Recorded
            <4> QED
                BY <2>1, <3>2, <4>1, Zenon
        <3>3. CASE c \in Asking /\ ~Parks(c)
            <4>1. round'[c] = [round[c] EXCEPT !.at = "new", !.asks = "none"]
                BY <1>1, <1>4, <3>3 DEF Recorded
            <4> QED
                BY <3>3, <4>1, Zenon
        <3> QED
            BY <3>1, <3>2, <3>3
    <2>5. PICK a \in {"done", "park", "new"}, q \in Questions \cup {"none"} :
            /\ round'[c] = [round[c] EXCEPT !.at = a, !.asks = q]
            /\ a = IF c \notin Asking THEN "done" ELSE IF Parks(c) THEN "park" ELSE "new"
        BY <2>4
    <2>6. round'[c] \in CallTypes /\ round'[c].tool = round[c].tool /\ round'[c].at = a
        BY <2>1, <2>5 DEF CallTypes
    <2> QED
        BY <2>2, <2>3, <2>5, <2>6
<1>5. \A c \in Calls : step[c] # "ran" => round'[c] = round[c]
    BY <1>1 DEF Recorded
<1>6. \A c \in Calls : /\ round'[c].tool = round[c].tool /\ round'[c] \in CallTypes
                       /\ round'[c].at = "out" <=> round[c].at = "out"
    BY <1>3, <1>4, <1>5
<1>7. ASSUME NEW c \in Calls, round[c].at = "park", step[c] = "ran", body[c].result = "none"
      PROVE  Parks(c)
    <2>1. Parked = {c}
        BY <1>7 DEF Parked, IInv, OneParked
    <2>2. Unblocked = {c}
        BY <1>7, <2>1 DEF Unblocked, Asking
    <2> QED
        BY <2>2 DEF Parks, Calls
<1>8. Types'
    <2>1. round' \in [Calls -> CallTypes]
        BY <1>1, <1>6 DEF Recorded
    <2>2. answer' \in [call : Calls \cup {0}, payload : Payloads \cup {"none"}]
        BY <1>1 DEF NoAnswer
    <2> QED
        BY <1>1, <1>3, <2>1, <2>2 DEF Types, CallTypes, BodyTypes
<1>9. ASSUME NEW c \in Calls PROVE CallGood(c)'
    <2>1. CallGood(c) /\ step'[c] = "no" /\ answer'.call # c /\ body'[c] = body[c]
        BY <1>1, <1>2 DEF NoAnswer, Calls
    <2>2. Kept(c)' => Kept(c)
        BY <1>5, <2>1 DEF Kept
    <2>3. BodyGood(c, body[c]) => BodyGood(c, body[c])'
        BY <1>1, <1>6 DEF BodyGood
    <2>4. AlwaysGiven(c)'
        BY <1>1, <1>4, <1>5, <1>6, <1>7, <2>1 DEF AlwaysGiven, CallGood
    <2> QED
        BY <1>1, <1>6, <2>1, <2>2, <2>3, <2>4 DEF CallGood, Run
<1>10. OneParked'
    <2> SUFFICES ASSUME NEW c \in Calls, NEW d \in Calls, round'[c].at = "park", round'[d].at = "park", c # d
                 PROVE  FALSE
        BY DEF OneParked
    <2>1. \A k \in Calls : step[k] = "ran" /\ round'[k].at = "park" => Parks(k)
        BY <1>4
    <2>2. \A k, m \in Calls : Parks(k) /\ step[m] # "ran" /\ round[m].at = "park" => m = k
        BY DEF Parks, Unblocked, Parked
    <2>3. CASE Parks(c) /\ Parks(d)
        BY <2>3 DEF Parks, Calls
    <2>4. CASE step[c] # "ran" /\ step[d] # "ran"
        BY <1>5, <2>4 DEF IInv, OneParked
    <2> QED
        BY <1>5, <2>1, <2>2, <2>3, <2>4
<1>11. GivenKept'
    BY <1>1, <1>6 DEF IInv, GivenKept
<1>12. InReply' = InReply
    BY <1>6 DEF InReply
<1> QED
    BY <1>1, <1>8, <1>9, <1>10, <1>11, <1>12 DEF IInv

-----------------------------------------------------------------------------
(* The end of a round. *)

Below == {p \in Nat \X Nat : p[1] < p[2]}

LEMMA LastCall ==
    ASSUME NEW S \in SUBSET Calls, S # {}
    PROVE  \E c \in S : \A d \in S : d <= c
<1> DEFINE T == {MaxCalls - c : c \in S}
<1>1. T \subseteq Nat /\ T # {}
    <2>1. \A c \in S : MaxCalls - c \in Nat
        BY CallsAssumption DEF Calls
    <2> QED
        BY <2>1
<1> HIDE DEF T
<1>2. IsWellFoundedOn(Below, Nat)
    BY NatLessThanWellFounded DEF OpToRel, Below
<1>3. PICK x \in T : \A y \in T : ~(<<y, x>> \in Below)
    BY <1>1, <1>2, WFMin, Zenon
<1>4. \A y \in T : ~(y < x)
    BY <1>1, <1>3 DEF Below
<1>5. PICK c \in S : x = MaxCalls - c
    BY DEF T
<1>6. \A d \in S : MaxCalls - d \in T
    BY DEF T
<1> QED
    BY <1>4, <1>5, <1>6, CallsAssumption DEF Calls

\* What Decided takes is an answer of a call that decides.
LEMMA DecidedGood ==
    ASSUME IInv, NEW t \in tools
    PROVE  IF Deciding(t) = {} THEN Decided[t] = decisions[t]
           ELSE \E c \in Deciding(t) : Decided[t] = body[c].always
<1>1. Deciding(t) \in SUBSET Calls
    BY DEF Deciding
<1>2. CASE Deciding(t) # {}
    <2> DEFINE last == CHOOSE c \in Deciding(t) : \A d \in Deciding(t) : d <= c
    <2>1. last \in Deciding(t)
        BY <1>1, <1>2, LastCall
    <2>2. Decided[t] = body[last].always
        BY <1>2 DEF Decided
    <2> QED
        BY <1>2, <2>1, <2>2
<1> QED
    BY <1>2 DEF Decided

LEMMA OverGood ==
    ASSUME IInv, RoundOver, UNCHANGED <<tools, step, answer>>, \A c \in Calls : step[c] = "no" /\ answer.call # c,
           decisions' \in [tools -> Always]
    PROVE  IInv'
<1>1. /\ \A c \in Calls : round'[c] = NoCall /\ body'[c] = NoBody
      /\ leave' = {} /\ given' = [t \in tools |-> <<>>]
    BY DEF RoundOver, Nothing
<1>2. NoCall \in CallTypes /\ NoCall.at = "out"
    BY DEF NoCall, CallTypes
<1>3. Types'
    <2>1. round' \in [Calls -> CallTypes] /\ body' \in [Calls -> BodyTypes]
        BY <1>2, NoBodyType DEF RoundOver
    <2>2. given' \in [tools -> Seq(Always)]
        BY <1>1
    <2> QED
        BY <1>1, <2>1, <2>2 DEF IInv, Types, CallTypes, BodyTypes
<1>4. ASSUME NEW c \in Calls PROVE CallGood(c)'
    <2>1. BodyGood(c, body[c])' /\ AlwaysGiven(c)'
        BY <1>1, <1>2, NoBodyType DEF BodyGood, AlwaysGiven
    <2> QED
        BY <1>1, <1>2, <2>1 DEF CallGood, Run
<1>5. OneParked' /\ GivenKept'
    BY <1>1, <1>2 DEF OneParked, GivenKept
<1> QED
    BY <1>3, <1>4, <1>5 DEF IInv

\* The round's "always" answers are what it commits.
LEMMA EndsRound ==
    ASSUME IInv, Commit \/ Prompt \/ PromptFails
    PROVE  IInv' /\ AnswersCommit /\ step' = step
<1>1. /\ UNCHANGED <<tools, step, answer>> /\ RoundOver /\ (Stepping = {} \/ turn # "busy")
      /\ decisions' = Decided \/ (decisions' = decisions /\ turn' # "busy")
    BY DEF Commit, Prompt, PromptFails, CommitRound, committed
<1>2. \A c \in Calls : step[c] = "no" /\ answer.call # c
    BY <1>1, NotBusy
<1>3. Types /\ \A c \in Calls : CallGood(c)
    BY DEF IInv
<1>4. Decided \in [tools -> Always]
    <2>1. \A t \in tools : Decided[t] \in Always
        BY <1>3, DecidedGood, SMTT(30) DEF Deciding, Types, BodyTypes
    <2> QED
        BY <2>1 DEF Decided
<1>5. IInv'
    <2>1. decisions' \in [tools -> Always]
        BY <1>1, <1>3, <1>4 DEF Types
    <2> QED
        BY <1>1, <1>2, <2>1, OverGood
<1>6. ASSUME NEW t \in tools, decisions' = Decided
      PROVE  IF given[t] = <<>> THEN decisions'[t] = decisions[t] ELSE decisions'[t] \in ToSet(given[t])
    <2>1. \A c \in Deciding(t) : body[c].always \in ToSet(given[t])
        BY <1>3 DEF Deciding, CallGood, AlwaysGiven
    <2>2. CASE given[t] = <<>>
        <3>1. ToSet(given[t]) = {}
            BY <2>2 DEF ToSet
        <3> QED
            BY <1>6, <2>1, <2>2, <3>1, DecidedGood
    <2>3. CASE given[t] # <<>>
        <3>1. PICK c \in Calls : round[c].at # "out" /\ round[c].tool = t /\ body[c].always # "none"
            BY <2>3 DEF IInv, GivenKept
        <3>2. c \in Deciding(t)
            BY <1>3, <3>1 DEF Deciding, Commits, CallGood, AlwaysGiven
        <3> QED
            BY <1>6, <2>1, <2>3, <3>2, DecidedGood
    <2> QED
        BY <2>2, <2>3
<1>7. AnswersCommit
    <2> SUFFICES ASSUME RoundCommits, NEW t \in tools
                 PROVE  IF given[t] = <<>> THEN decisions'[t] = decisions[t] ELSE decisions'[t] \in ToSet(given[t])
        BY DEF AnswersCommit
    <2>1. decisions' = Decided
        BY <1>1 DEF RoundCommits
    <2> QED
        BY <1>6, <2>1
<1> QED
    BY <1>1, <1>5, <1>7

-----------------------------------------------------------------------------
(* The theorems. *)

LEMMA Start == Init => IInv
<1> SUFFICES ASSUME Init PROVE IInv
    OBVIOUS
<1>1. \A c \in Calls : round[c] = NoCall /\ body[c] = NoBody /\ step[c] = "no" /\ answer.call # c
    BY DEF Init, NoAnswer, Calls
<1>2. NoCall \in CallTypes /\ NoCall.at = "out"
    BY DEF NoCall, CallTypes
<1>3. Types
    <2>1. round \in [Calls -> CallTypes] /\ body \in [Calls -> BodyTypes]
        BY <1>2, NoBodyType DEF Init
    <2>2. given \in [tools -> Seq(Always)] /\ decisions \in [tools -> Always]
        BY DEF Init, Nothing, Always
    <2>3. answer \in [call : Calls \cup {0}, payload : Payloads \cup {"none"}]
        BY DEF Init, NoAnswer
    <2>4. step \in [Calls -> {"no", "run", "ran", "error"}] /\ leave \in SUBSET Calls
        BY DEF Init
    <2> QED
        BY <2>1, <2>2, <2>3, <2>4 DEF Types
<1>4. ASSUME NEW c \in Calls PROVE CallGood(c)
    <2>1. BodyGood(c, body[c]) /\ AlwaysGiven(c) /\ c \notin leave
        BY <1>1, <1>2, NoBodyType DEF BodyGood, AlwaysGiven, Init
    <2> QED
        BY <1>1, <1>2, <2>1 DEF CallGood, Run
<1>5. OneParked /\ GivenKept
    BY <1>1, <1>2 DEF OneParked, GivenKept, Init, Nothing
<1> QED
    BY <1>3, <1>4, <1>5 DEF IInv

\* What each step keeps, and the two action properties of it.
LEMMA Steps ==
    ASSUME IInv, [Next]_vars
    PROVE  /\ IInv'
           /\ \A c \in Calls : HandlerRuns(c) /\ Gated(round[c].tool) => c \in leave'
           /\ AnswersCommit
<1> DEFINE Leave == \A c \in Calls : HandlerRuns(c) /\ Gated(round[c].tool) => c \in leave'
<1>1. (\A c \in Calls : step'[c] = "ran" => step[c] = "ran") => Leave
    BY DEF HandlerRuns
<1>2. InReply' = InReply \/ InReply = {} => AnswersCommit
    BY DEF AnswersCommit, RoundCommits
<1>3. round' = round => InReply' = InReply
    BY DEF InReply
<1>4. ASSUME NEW c \in Calls, RunCall(c) \/ Expired(c)
      PROVE  IInv' /\ Leave /\ AnswersCommit
    BY <1>2, <1>3, <1>4, RunGood DEF HandlerRuns
<1>5. CASE \/ \E c \in Calls : Refused(c) \/ StepFails(c) \/ AttemptLost(c)
           \/ \E lost \in SUBSET Calls : CancelStep(lost)
           \/ Ask \/ ResumeBare \/ Cancel \/ CommitFails
           \/ \E grants \in SUBSET {t \in tools : Gated(t)} : Redeploy(grants)
    BY <1>1, <1>2, <1>3, <1>5, OthersGood
<1>6. CASE StartCalls
    BY <1>1, <1>2, <1>3, <1>6, StartCallsGood
<1>7. ASSUME NEW c \in Calls, NEW payload \in Payloads, Resume(c, payload)
      PROVE  IInv' /\ Leave /\ AnswersCommit
    BY <1>1, <1>2, <1>3, <1>7, ResumeGood
<1>8. ASSUME NEW r \in ToolReplies, TakeReply(r)
      PROVE  IInv' /\ Leave /\ AnswersCommit
    BY <1>1, <1>2, <1>8, TakeReplyGood
<1>9. CASE Record
    BY <1>1, <1>2, <1>9, RecordGood
<1>10. CASE Commit \/ Prompt \/ PromptFails
    BY <1>1, <1>10, EndsRound
<1>11. CASE UNCHANGED vars
    <2>1. UNCHANGED <<tools, decisions, plan, turn, round, body, step, answer, given, leave>>
        BY <1>11 DEF vars, committed, history
    <2>2. IInv'
        BY <2>1, StepsGood DEF IInv, Types, CallGood, Run
    <2> QED
        BY <1>1, <1>2, <1>3, <2>1, <2>2
<1> QED
    BY <1>4, <1>5, <1>6, <1>7, <1>8, <1>9, <1>10, <1>11 DEF Next

LEMMA Always_IInv == Spec => []IInv
<1>1. IInv /\ [Next]_vars => IInv'
    BY Steps
<1> QED
    BY <1>1, Start, PTL DEF Spec

\* However the calls of a round park beside each other, run again, lose their
\* answers or find other grants, the handler of a tool that asks for permission
\* runs only in a call that had leave in this round.
THEOREM LeaveGivenAlways == Spec => LeaveGiven
<1>1. IInv /\ [Next]_vars => [\A c \in Calls : HandlerRuns(c) /\ Gated(round[c].tool) => c \in leave']_vars
    BY Steps
<1> QED
    BY <1>1, Always_IInv, PTL DEF Spec, LeaveGiven

\* The "always" answers of a round are the decisions its Commit makes, and no
\* others; a call that had leave does not ask for permission again.
THEOREM AnswersKeptAlways == Spec => AnswersKept
<1>1. IInv /\ [Next]_vars => [AnswersCommit /\ AsksOnce]_vars
    <2>1. IInv' => AsksOnce
        BY DEF IInv, Types, CallGood, AsksOnce
    <2> QED
        BY <2>1, Steps
<1> QED
    BY <1>1, Always_IInv, PTL DEF Spec, AnswersKept

-----------------------------------------------------------------------------
(* The plan: what a call changes in it, and what the results told of it.    *)

Statuses == {"pending", "in_progress", "completed"}

\* The plans there are: none, a new one with its todos at any status, and one
\* whose second todo was deleted.
PlanShape(p) ==
    \/ p = <<>>
    \/ \E s \in Statuses : p = <<Todo(1, s)>>
    \/ \E s, r \in Statuses : p = <<Todo(1, s), Todo(2, r)>>

\* The plan completed what was told, and no more; what was told and is not in
\* the plan was deleted.
Agrees(p, told) == Done(p) \subseteq told /\ \A t \in told : t \in Done(p) \/ Titled(p, t) = {}

\* No todo is in no plan.
LEMMA NoTodos ==
    /\ Open(<<>>) = {} /\ Done(<<>>) = {} /\ \A t : Titled(<<>>, t) = {}
BY DEF Open, Done, Titled

\* The todos of a plan of one.
LEMMA OneTodo ==
    ASSUME NEW s \in Statuses, NEW p, p = <<Todo(1, s)>>
    PROVE  /\ p # <<>> /\ DOMAIN p = {1} /\ p[1] = Todo(1, s)
           /\ Titled(p, 1) = {1} /\ \A t : t # 1 => Titled(p, t) = {}
           /\ Open(p) = IF s = "completed" THEN {} ELSE {1}
           /\ Done(p) = IF s = "completed" THEN {1} ELSE {}
<1>1. p # <<>> /\ DOMAIN p = {1} /\ p[1] = Todo(1, s) /\ Todo(1, s).title = 1 /\ Todo(1, s).status = s
    BY DEF Todo
<1>2. Titled(p, 1) = {1} /\ \A t : t # 1 => Titled(p, t) = {}
    BY <1>1 DEF Titled
<1>3. Open(p) = IF s = "completed" THEN {} ELSE {1}
    BY <1>1 DEF Open
<1>4. Done(p) = IF s = "completed" THEN {1} ELSE {}
    BY <1>1, <1>3 DEF Done
<1> QED
    BY <1>1, <1>2, <1>3, <1>4

\* The todos of a plan of two.
LEMMA TwoTodos ==
    ASSUME NEW s \in Statuses, NEW r \in Statuses, NEW p, p = <<Todo(1, s), Todo(2, r)>>
    PROVE  /\ p # <<>> /\ DOMAIN p = {1, 2} /\ p[1] = Todo(1, s) /\ p[2] = Todo(2, r)
           /\ Titled(p, 1) = {1} /\ Titled(p, 2) = {2} /\ \A t : t \notin {1, 2} => Titled(p, t) = {}
           /\ 1 \in Open(p) <=> s # "completed"
           /\ 2 \in Open(p) <=> r # "completed"
           /\ Open(p) \subseteq {1, 2}
           /\ 1 \in Done(p) <=> s = "completed"
           /\ 2 \in Done(p) <=> r = "completed"
           /\ Done(p) \subseteq {1, 2}
<1>1. /\ p # <<>> /\ DOMAIN p = {1, 2} /\ p[1] = Todo(1, s) /\ p[2] = Todo(2, r)
      /\ Todo(1, s).title = 1 /\ Todo(1, s).status = s /\ Todo(2, r).title = 2 /\ Todo(2, r).status = r
    BY DEF Todo
<1>2. Titled(p, 1) = {1} /\ Titled(p, 2) = {2} /\ \A t : t \notin {1, 2} => Titled(p, t) = {}
    BY <1>1 DEF Titled
<1>3. /\ 1 \in Open(p) <=> s # "completed"
      /\ 2 \in Open(p) <=> r # "completed"
      /\ Open(p) \subseteq {1, 2}
    BY <1>1 DEF Open
<1>4. /\ 1 \in Done(p) <=> s = "completed"
      /\ 2 \in Done(p) <=> r = "completed"
      /\ Done(p) \subseteq {1, 2}
    BY <1>1, <1>3 DEF Done
<1> QED
    BY <1>1, <1>2, <1>3, <1>4

\* complete_todo on a plan of one.
LEMMA CompletesOne ==
    ASSUME NEW s \in Statuses, NEW p, p = <<Todo(1, s)>>, s # "completed"
    PROVE  CompleteTodo(p, 1) = <<Todo(1, "completed")>>
<1>1. DOMAIN p = {1} /\ Titled(p, 1) = {1}
    BY OneTodo
<1>2. (CHOOSE k \in Titled(p, 1) : TRUE) = 1
    BY <1>1
<1>3. CompleteTodo(p, 1) = [j \in {1} |-> Todo(1, "completed")]
    BY <1>1, <1>2 DEF CompleteTodo
<1>4. {1} = 1..1
    OBVIOUS
<1> QED
    BY <1>3, <1>4

\* complete_todo on a plan of two: the first todo starts the second.
LEMMA CompletesTwo ==
    ASSUME NEW s \in Statuses, NEW r \in Statuses, NEW p, p = <<Todo(1, s), Todo(2, r)>>
    PROVE  /\ \E n \in Statuses : /\ CompleteTodo(p, 1) = <<Todo(1, "completed"), Todo(2, n)>>
                                  /\ n = "completed" <=> r = "completed"
           /\ CompleteTodo(p, 2) = <<Todo(1, s), Todo(2, "completed")>>
<1>1. DOMAIN p = {1, 2} /\ Titled(p, 1) = {1} /\ Titled(p, 2) = {2} /\ Open(p) \subseteq {1, 2}
      /\ p[1] = Todo(1, s) /\ p[2] = Todo(2, r) /\ (2 \in Open(p) <=> r # "completed")
      /\ Todo(2, r).title = 2
    BY TwoTodos DEF Todo
<1>2. (CHOOSE k \in Titled(p, 1) : TRUE) = 1 /\ (CHOOSE k \in Titled(p, 2) : TRUE) = 2
    BY <1>1
<1>3. {1, 2} = 1..2
    OBVIOUS
<1>4. CompleteTodo(p, 2) = <<Todo(1, s), Todo(2, "completed")>>
    <2>1. {j \in Open(p) : j > 2} = {}
        BY <1>1
    <2>2. CompleteTodo(p, 2) = [j \in 1..2 |-> IF j = 2 THEN Todo(2, "completed") ELSE p[j]]
        BY <1>1, <1>2, <1>3, <2>1 DEF CompleteTodo
    <2> QED
        BY <1>1, <2>2
<1>5. CASE r = "completed"
    <2>1. {j \in Open(p) : j > 1} = {}
        BY <1>1, <1>5
    <2>2. CompleteTodo(p, 1) = [j \in 1..2 |-> IF j = 1 THEN Todo(1, "completed") ELSE p[j]]
        BY <1>1, <1>2, <1>3, <2>1 DEF CompleteTodo
    <2>3. CompleteTodo(p, 1) = <<Todo(1, "completed"), Todo(2, r)>>
        BY <1>1, <2>2
    <2> QED
        BY <1>4, <1>5, <2>3
<1>6. CASE r # "completed"
    <2>1. {j \in Open(p) : j > 1} = {2}
        BY <1>1, <1>6
    <2>2. CompleteTodo(p, 1) = [j \in 1..2 |-> IF j = 1 THEN Todo(1, "completed") ELSE Todo(2, "in_progress")]
        BY <1>1, <1>2, <1>3, <2>1 DEF CompleteTodo
    <2>3. CompleteTodo(p, 1) = <<Todo(1, "completed"), Todo(2, "in_progress")>>
        BY <2>2
    <2> QED
        BY <1>4, <1>6, <2>3 DEF Statuses
<1> QED
    BY <1>5, <1>6

\* edit_plan deletes the second of two todos.
LEMMA EditsTwo ==
    ASSUME NEW s \in Statuses, NEW r \in Statuses, NEW p, p = <<Todo(1, s), Todo(2, r)>>
    PROVE  Change("edit_plan", p) = <<Todo(1, s)>>
<1>1. Titled(p, 2) = {2} /\ p[1] = Todo(1, s)
    BY TwoTodos
<1>2. (CHOOSE i \in Titled(p, 2) : TRUE) = 2
    BY <1>1
<1>3. Change("edit_plan", p) = RemoveAt(p, 2)
    BY <1>2 DEF Change, Completes
<1> DEFINE S == {Todo(1, s), Todo(2, r)}
<1>4. p \in Seq(S) /\ Len(p) = 2
    OBVIOUS
<1>5. SubSeq(p, 1, 1) \in Seq(S) /\ Len(SubSeq(p, 1, 1)) = 1 /\ SubSeq(p, 1, 1)[1] = p[1]
    <2> HIDE DEF S
    <2>1. \A i \in 1..1 : p[i] \in S
        BY <1>4
    <2>2. /\ SubSeq(p, 1, 1) \in Seq(S)
          /\ Len(SubSeq(p, 1, 1)) = IF 1 <= 1 THEN 1 - 1 + 1 ELSE 0
          /\ \A i \in 1..(1 - 1 + 1) : SubSeq(p, 1, 1)[i] = p[1 + i - 1]
        BY <2>1, SubSeqProperties
    <2>3. 1 - 1 + 1 = 1 /\ 1 + 1 - 1 = 1 /\ 1 \in 1..1
        OBVIOUS
    <2>4. Len(SubSeq(p, 1, 1)) = 1 /\ SubSeq(p, 1, 1)[1] = p[1]
        BY <2>2, <2>3
    <2> QED
        BY <2>2, <2>4
<1>6. SubSeq(p, 1, 1) = <<Todo(1, s)>>
    <2> DEFINE q == SubSeq(p, 1, 1)
    <2> HIDE DEF S, q
    <2>1. q \in Seq(S) /\ Len(q) = 1 /\ q[1] = Todo(1, s)
        BY <1>1, <1>5 DEF q
    <2>2. DOMAIN q = 1..1 /\ q = [i \in 1..1 |-> q[i]]
        BY <2>1
    <2>3. q = <<Todo(1, s)>>
        BY <2>1, <2>2
    <2> QED
        BY <2>3 DEF q
<1>7. SubSeq(p, 3, 2) = <<>>
    BY SubSeqEmpty
<1>8. RemoveAt(p, 2) = <<Todo(1, s)>> \o <<>>
    <2>1. RemoveAt(p, 2) = SubSeq(p, 1, 2 - 1) \o SubSeq(p, 2 + 1, 2)
        BY <1>4 DEF RemoveAt
    <2>2. 2 - 1 = 1 /\ 2 + 1 = 3
        OBVIOUS
    <2> QED
        BY <1>6, <1>7, <2>1, <2>2
<1> QED
    BY <1>3, <1>8

\* A plan tool's change keeps the plan and what was told of it in agreement;
\* one that no longer applies changes nothing.
LEMMA CompletesAgrees ==
    ASSUME NEW p, PlanShape(p), NEW told, Agrees(p, told), NEW tool \in DOMAIN Completes
    PROVE  /\ PlanShape(Replay(tool, p)) /\ (Replay(tool, p) = <<>> <=> p = <<>>)
           /\ Agrees(Replay(tool, p), told \cup {Completes[tool]})
<1> DEFINE n == Completes[tool]
           q == Replay(tool, p)
<1>1. /\ tool \in {"complete_1", "complete_2"}
      /\ tool = "complete_1" => n = 1
      /\ tool = "complete_2" => n = 2
    BY DEF Completes
<1>2. q = IF Titled(p, n) \cap Open(p) # {} THEN CompleteTodo(p, n) ELSE p
    BY <1>1 DEF Replay, Applies, Change
<1>3. CASE Titled(p, n) \cap Open(p) = {}
    <2>1. q = p
        BY <1>2, <1>3
    <2>2. n \in Done(p) \/ Titled(p, n) = {}
        BY <1>3 DEF Done, Titled
    <2> QED
        BY <2>1, <2>2 DEF Agrees
<1>4. CASE p = <<>>
    BY <1>3, <1>4, NoTodos
<1>5. ASSUME NEW s \in Statuses, p = <<Todo(1, s)>>, Titled(p, n) \cap Open(p) # {}
      PROVE  PlanShape(q) /\ (q = <<>> <=> p = <<>>) /\ Agrees(q, told \cup {n})
    <2>1. n = 1 /\ s # "completed"
        BY <1>1, <1>5, OneTodo
    <2>2. q = <<Todo(1, "completed")>> /\ "completed" \in Statuses
        BY <1>2, <1>5, <2>1, CompletesOne DEF Statuses
    <2>3. /\ q # <<>> /\ Done(q) = {1} /\ \A t : t # 1 => Titled(q, t) = {}
        BY <2>2, OneTodo
    <2>4. /\ p # <<>> /\ Done(p) = {} /\ \A t : t # 1 => Titled(p, t) = {}
        BY <1>5, <2>1, OneTodo
    <2> QED
        BY <2>1, <2>2, <2>3, <2>4 DEF PlanShape, Agrees
<1>6. ASSUME NEW s \in Statuses, NEW r \in Statuses, p = <<Todo(1, s), Todo(2, r)>>,
             Titled(p, n) \cap Open(p) # {}
      PROVE  PlanShape(q) /\ (q = <<>> <=> p = <<>>) /\ Agrees(q, told \cup {n})
    <2>1. "completed" \in Statuses /\ q = CompleteTodo(p, n)
        BY <1>2, <1>6 DEF Statuses
    <2>2. PICK x \in Statuses, y \in Statuses :
             /\ q = <<Todo(1, x), Todo(2, y)>>
             /\ n = 1 => x = "completed" /\ (y = "completed" <=> r = "completed")
             /\ n = 2 => x = s /\ y = "completed"
        <3>1. CASE n = 1
            <4>1. PICK y \in Statuses : /\ CompleteTodo(p, 1) = <<Todo(1, "completed"), Todo(2, y)>>
                                        /\ y = "completed" <=> r = "completed"
                BY <1>6, CompletesTwo
            <4> QED
                BY <2>1, <3>1, <4>1
        <3>2. CASE n = 2
            BY <1>6, <2>1, <3>2, CompletesTwo
        <3> QED
            BY <1>1, <3>1, <3>2
    <2>3. /\ q # <<>> /\ \A t : t \notin {1, 2} => Titled(q, t) = {}
          /\ 1 \in Done(q) <=> x = "completed"
          /\ 2 \in Done(q) <=> y = "completed"
          /\ Done(q) \subseteq {1, 2}
        BY <2>2, TwoTodos
    <2>4. /\ p # <<>> /\ Titled(p, 1) = {1} /\ Titled(p, 2) = {2}
          /\ 1 \in Done(p) <=> s = "completed"
          /\ 2 \in Done(p) <=> r = "completed"
          /\ Done(p) \subseteq {1, 2}
        BY <1>6, TwoTodos
    <2>5. PlanShape(q)
        BY <2>2 DEF PlanShape
    <2>6. Agrees(q, told \cup {n})
        <3>1. Done(q) \subseteq Done(p) \cup {n} /\ Done(p) \cup {n} \subseteq Done(q)
            BY <1>1, <2>2, <2>3, <2>4
        <3>2. \A t \in told : t \in Done(p) \/ (t \notin {1, 2} /\ Titled(q, t) = {})
            BY <2>3, <2>4 DEF Agrees
        <3> QED
            BY <3>1, <3>2 DEF Agrees
    <2> QED
        BY <2>3, <2>4, <2>5, <2>6
<1> QED
    BY <1>3, <1>4, <1>5, <1>6 DEF PlanShape

\* edit_plan: what it deletes was not told of, as it was open.
LEMMA EditsAgrees ==
    ASSUME NEW p, PlanShape(p), NEW told, Agrees(p, told)
    PROVE  /\ PlanShape(Replay("edit_plan", p)) /\ (Replay("edit_plan", p) = <<>> <=> p = <<>>)
           /\ Agrees(Replay("edit_plan", p), told)
<1> DEFINE q == Replay("edit_plan", p)
<1>1. q = IF Titled(p, 2) \cap Open(p) # {} THEN Change("edit_plan", p) ELSE p
    BY DEF Replay, Applies, Completes
<1>2. CASE Titled(p, 2) \cap Open(p) = {}
    BY <1>1, <1>2
<1>3. ASSUME NEW s \in Statuses, NEW r \in Statuses, p = <<Todo(1, s), Todo(2, r)>>,
             Titled(p, 2) \cap Open(p) # {}
      PROVE  PlanShape(q) /\ (q = <<>> <=> p = <<>>) /\ Agrees(q, told)
    <2>1. q = <<Todo(1, s)>>
        BY <1>1, <1>3, EditsTwo
    <2>2. /\ q # <<>> /\ \A t : t # 1 => Titled(q, t) = {}
          /\ Done(q) = IF s = "completed" THEN {1} ELSE {}
        BY <2>1, OneTodo
    <2>3. /\ p # <<>> /\ 2 \notin Done(p) /\ Titled(p, 1) = {1} /\ Titled(p, 2) = {2} /\ Done(p) \subseteq {1, 2}
          /\ 1 \in Done(p) <=> s = "completed"
        BY <1>3, TwoTodos
    <2>4. Done(q) \subseteq told /\ \A t \in told : t \in Done(q) \/ Titled(q, t) = {}
        BY <2>2, <2>3 DEF Agrees
    <2> QED
        BY <2>1, <2>2, <2>3, <2>4 DEF PlanShape, Agrees
<1>4. CASE p = <<>>
    BY <1>2, <1>4, NoTodos
<1>5. ASSUME NEW s \in Statuses, p = <<Todo(1, s)>> PROVE Titled(p, 2) = {}
    BY <1>5, OneTodo
<1> QED
    BY <1>2, <1>3, <1>4, <1>5 DEF PlanShape

\* create_plan: nothing of the new plan is done.
LEMMA CreatesPlan ==
    /\ PlanShape(NewPlan) /\ NewPlan # <<>> /\ Agrees(NewPlan, {})
    /\ \A p : Replay("create_plan", p) = IF p = <<>> THEN NewPlan ELSE p
<1>1. NewPlan = <<Todo(1, "in_progress"), Todo(2, "pending")>> /\ "in_progress" \in Statuses /\ "pending" \in Statuses
    BY DEF NewPlan, Statuses
<1>2. NewPlan # <<>> /\ Done(NewPlan) = {}
    BY <1>1, TwoTodos
<1>3. \A p : Replay("create_plan", p) = IF p = <<>> THEN NewPlan ELSE p
    BY DEF Replay, Applies, Change, HasActive, Completes
<1> QED
    BY <1>1, <1>2, <1>3 DEF PlanShape, Agrees

-----------------------------------------------------------------------------
(* What the calls of a round do to the plan, one after the other.           *)

\* A set of numbers that is not empty has a least one.
LEMMA LeastNumber ==
    ASSUME NEW T \in SUBSET Nat, T # {}
    PROVE  \E x \in T : \A y \in T : x <= y
<1>1. IsWellFoundedOn(Below, Nat)
    BY NatLessThanWellFounded DEF OpToRel, Below
<1>2. PICK x \in T : \A y \in T : ~(<<y, x>> \in Below)
    BY <1>1, WFMin, Zenon
<1>3. x \in Nat /\ \A y \in T : y \in Nat /\ ~(y < x)
    BY <1>2 DEF Below
<1> QED
    BY <1>2, <1>3

\* The definition of PlanAfter has a value: a function up to each call.
LEMMA PlanAfterEach ==
    /\ PlanAfter[0] = plan
    /\ \A c \in Calls : PlanAfter[c] = ApplyCall(PlanAfter[c - 1], c)
<1> DEFINE UpTo(f, n) == f = [c \in 0..n |-> IF c = 0 THEN plan ELSE ApplyCall(f[c - 1], c)]
           None == {n \in 0..MaxCalls : ~\E f : UpTo(f, n)}
<1>0. MaxCalls \in Nat
    BY CallsAssumption
<1>1. \E f : UpTo(f, 0)
    <2> DEFINE g == [c \in 0..0 |-> plan]
    <2>1. \A c \in 0..0 : c = 0
        OBVIOUS
    <2>2. UpTo(g, 0)
        BY <2>1
    <2> QED
        BY <2>2
<1>2. ASSUME NEW n \in 1..MaxCalls, NEW f, UpTo(f, n - 1) PROVE \E g : UpTo(g, n)
    <2> DEFINE g == [c \in 0..n |-> IF c = n THEN ApplyCall(f[n - 1], n) ELSE f[c]]
    <2>1. \A c \in 0..n : c # n => c \in 0..(n - 1)
        BY <1>0
    <2>2. \A c \in 0..(n - 1) : f[c] = IF c = 0 THEN plan ELSE ApplyCall(f[c - 1], c)
        BY <1>2
    <2>3. \A c \in 0..n : c # 0 => g[c - 1] = f[c - 1]
        BY <1>0
    <2>4. \A c \in 0..n : g[c] = IF c = 0 THEN plan ELSE ApplyCall(g[c - 1], c)
        <3> SUFFICES ASSUME NEW c \in 0..n PROVE g[c] = IF c = 0 THEN plan ELSE ApplyCall(g[c - 1], c)
            OBVIOUS
        <3>1. CASE c = n
            BY <1>0, <2>3, <3>1
        <3>2. CASE c # n
            <4>1. g[c] = f[c]
                BY <3>2
            <4> QED
                BY <2>1, <2>2, <2>3, <3>2, <4>1
        <3> QED
            BY <3>1, <3>2
    <2>5. g = [c \in 0..n |-> IF c = 0 THEN plan ELSE ApplyCall(g[c - 1], c)]
        BY <2>4
    <2> HIDE DEF g
    <2> QED
        BY <2>5
<1>3. None = {}
    <2> SUFFICES ASSUME None # {} PROVE FALSE
        OBVIOUS
    <2>1. None \in SUBSET Nat
        OBVIOUS
    <2>2. PICK n \in None : \A m \in None : n <= m
        <3> HIDE DEF None
        <3> QED
            BY <2>1, LeastNumber
    <2>3. n \in 1..MaxCalls /\ n - 1 \in 0..MaxCalls /\ ~(n <= n - 1)
        <3>1. n \in 0..MaxCalls /\ ~\E f : UpTo(f, n)
            BY <2>2
        <3> HIDE DEF UpTo
        <3>2. n # 0
            BY <1>1, <3>1
        <3> QED
            BY <1>0, <3>1, <3>2
    <2>4. \E f : UpTo(f, n - 1)
        BY <2>2, <2>3
    <2>5. \E f : UpTo(f, n)
        BY <1>2, <2>3, <2>4
    <2> QED
        BY <2>2, <2>5
<1>4. \E f : UpTo(f, MaxCalls)
    <2>1. MaxCalls \in 0..MaxCalls
        BY <1>0
    <2> HIDE DEF UpTo
    <2> QED
        BY <1>3, <2>1
<1>5. PlanAfter = CHOOSE f : UpTo(f, MaxCalls)
    BY DEF PlanAfter
<1>6. UpTo(PlanAfter, MaxCalls)
    BY <1>4, <1>5
<1>7. \A c \in 0..MaxCalls : PlanAfter[c] = IF c = 0 THEN plan ELSE ApplyCall(PlanAfter[c - 1], c)
    BY <1>6
<1> QED
    BY <1>0, <1>7 DEF Calls

-----------------------------------------------------------------------------
(* The plan while a round is open.                                          *)

\* A call that changes the plan is a plan tool's that applied to the plan of
\* the round; it never parks, and its result says what it changed.
PlanCall(c) ==
    LET tool == round[c].tool
    IN  /\ tool \in PlanTools => round[c].at # "park"
        /\ round[c].at = "park" <=> round[c].asks \in Questions
        /\ Kept(c) =>
             /\ body[c].op => tool \in PlanTools /\ body[c].result = "ok" /\ Applies(tool, plan)
             /\ tool \in PlanTools /\ body[c].result = "ok" => body[c].op
             /\ round[c].at # "out" /\ body[c].result = "none" =>
                  body[c].park # "none" /\ tool \notin PlanTools

Counted ==
    /\ runtime \in Runtimes /\ tools \in Kits /\ granted \subseteq tools
    /\ turn \in {"busy", "parked", "failed"}
    /\ replies \in 0..MaxReplies /\ troubles \in 0..MaxTroubles

PlanInv ==
    /\ Counted
    /\ PlanShape(plan) /\ Agrees(plan, reported)
    /\ \A c \in Calls : PlanCall(c)

\* A layer does not touch a call's plan change.
LEMMA LayerKeepsOp ==
    ASSUME NEW b \in BodyTypes, NEW tool, NEW type \in Questions
    PROVE  ApplyLayer(b, tool, type) \in BodyTypes /\ ApplyLayer(b, tool, type).op = b.op
<1> DEFINE d == ApplyLayer(b, tool, type)
<1>1. \A e \in BodyTypes, denied \in BOOLEAN :
        FinishLayer(e, type, denied) \in BodyTypes /\ FinishLayer(e, type, denied).op = e.op
    BY DEF FinishLayer, Result, BodyTypes, Results
<1>2. Remember(b) \in BodyTypes /\ Remember(b).op = b.op
    BY DEF Remember, Remembered, BodyTypes, Always
<1>3. \A e \in BodyTypes : Take(e) \in BodyTypes /\ Take(e).op = e.op
    BY DEF Take, BodyTypes
<1>4. ParkOn(b, type) \in BodyTypes /\ ParkOn(b, type).op = b.op
    BY DEF ParkOn, BodyTypes
<1>5. \/ d = b \/ d = ParkOn(b, type)
      \/ \E e \in {b, Take(b), Take(Remember(b))}, denied \in BOOLEAN : d = FinishLayer(e, type, denied)
    <2>1. CASE type \in b.layers
        BY <2>1 DEF ApplyLayer
    <2>2. CASE type \notin b.layers /\ Answered(b, type)
        <3> DEFINE e == Take(IF type = "permission" THEN Remember(b) ELSE b)
                   denied == type = "permission" /\ ~Allowed(b.payload)
        <3>1. d = FinishLayer(e, type, denied)
            BY <2>2 DEF ApplyLayer
        <3>2. e \in {b, Take(b), Take(Remember(b))} /\ denied \in BOOLEAN
            BY DEF Allowed
        <3> HIDE DEF e, denied
        <3> QED
            BY <3>1, <3>2
    <2>3. CASE type \notin b.layers /\ ~Answered(b, type) /\ type = "permission" /\ Decision(b, tool) # "none"
        <3> DEFINE denied == Decision(b, tool) = "deny"
        <3>1. d = FinishLayer(b, type, denied) /\ denied \in BOOLEAN
            BY <2>3 DEF ApplyLayer
        <3> HIDE DEF denied
        <3> QED
            BY <3>1
    <2>4. CASE type \notin b.layers /\ ~Answered(b, type) /\ ~(type = "permission" /\ Decision(b, tool) # "none")
        BY <2>4 DEF ApplyLayer
    <2> QED
        BY <2>1, <2>2, <2>3, <2>4
<1> QED
    BY <1>1, <1>2, <1>3, <1>4, <1>5

\* Nor do all of them; a plan tool has none.
LEMMA LayeredKeepsOp ==
    ASSUME NEW b \in BodyTypes, NEW tool
    PROVE  /\ Layered(b, tool) \in BodyTypes /\ Layered(b, tool).op = b.op
           /\ tool \in PlanTools => Layered(b, tool) = b /\ ~Gated(tool) /\ ~Locked(tool)
<1> DEFINE Layer(e, i) == IF i \in DOMAIN Layers(tool) /\ GoesOn(e)
                          THEN ApplyLayer(e, tool, Layers(tool)[i]) ELSE e
<1>1. \A i \in DOMAIN Layers(tool) : Layers(tool)[i] \in Questions
    BY DEF Layers, Questions
<1>2. ASSUME NEW e \in BodyTypes, NEW i PROVE Layer(e, i) \in BodyTypes /\ Layer(e, i).op = e.op
    BY <1>1, <1>2, LayerKeepsOp
<1>3. Layered(b, tool) = Layer(Layer(b, 1), 2)
    BY DEF Layered
<1>4. ASSUME tool \in PlanTools PROVE Layered(b, tool) = b /\ ~Gated(tool) /\ ~Locked(tool)
    <2>1. tool \notin {"gate", "deploy"}
        BY <1>4 DEF PlanTools
    <2>2. Layers(tool) = <<>>
        BY <2>1 DEF Layers
    <2> QED
        BY <2>1, <2>2 DEF Layered, Gated, Locked, Writes
<1> HIDE DEF Layer
<1>5. Layer(b, 1) \in BodyTypes /\ Layer(b, 1).op = b.op
    BY <1>2
<1> QED
    BY <1>2, <1>3, <1>4, <1>5

\* What a run leaves of the call's plan change.
PlanEnds(c, d) ==
    LET tool == round[c].tool
    IN  /\ d.op => tool \in PlanTools /\ d.result = "ok" /\ Applies(tool, plan)
        /\ tool \in PlanTools /\ d.result = "ok" => d.op
        /\ d.result = "none" => d.park # "none" /\ tool \notin PlanTools

\* A run of a plan tool's call tries its change; any other changes no plan.
LEMMA RunPlans ==
    ASSUME IInv, PlanInv, NEW c \in Calls, step[c] = "run", Resumable(c)
    PROVE  /\ PlanEnds(c, Ends(Resumed(c), round[c].tool))
           /\ Gated(round[c].tool) => PlanEnds(c, ParkOn(Layered(Resumed(c), round[c].tool), "auth"))
<1> DEFINE tool == round[c].tool
           b == Resumed(c)
           l == Layered(b, tool)
<1> SUFFICES PlanEnds(c, Ends(b, tool)) /\ (Gated(tool) => PlanEnds(c, ParkOn(l, "auth")))
    OBVIOUS
<1>1. StartsGood(c, b) /\ round[c].at \in {"new", "park"}
    BY RunStarts
<1>2. b \in BodyTypes /\ b.result = "none" /\ GoesOn(b) /\ (round[c].at = "new" => b = NoBody)
    BY <1>1 DEF StartsGood
<1>3. PlanCall(c)
    BY DEF PlanInv
<1>4. ~b.op
    <2>1. CASE round[c].at = "new"
        BY <1>2, <2>1 DEF NoBody
    <2>2. CASE round[c].at = "park"
        <3>1. ~body[c].op
            BY <1>3, <2>2 DEF PlanCall, Kept
        <3>2. body[c] \in BodyTypes /\ Loaded(c) = body[c]
            BY <2>2 DEF IInv, Types, Loaded
        <3>3. b = body[c] \/ b = [body[c] EXCEPT !.payload = answer.payload]
            BY <3>2 DEF Resumed
        <3> QED
            BY <3>1, <3>2, <3>3 DEF BodyTypes
    <2> QED
        BY <1>1, <2>1, <2>2
<1> HIDE DEF b
<1>5. /\ l \in BodyTypes /\ ~l.op
      /\ tool \in PlanTools => l = b /\ ~Gated(tool) /\ ~Locked(tool)
    BY <1>2, <1>4, LayeredKeepsOp
<1> HIDE DEF l
<1>6. CASE tool \in PlanTools
    <2>1. ~Locked(tool) /\ l = b /\ ~Gated(tool) /\ Ends(b, tool) = Handler(b, tool) /\ tool # "ask_user_choice"
        BY <1>2, <1>5, <1>6 DEF Ends, Reaches, PlanTools, l
    <2> DEFINE d == Handler(b, tool)
    <2>2. CASE ~Applies(tool, plan)
        <3>1. Handler(b, tool) = [b EXCEPT !.result = "failed"]
            BY <1>6, <2>1, <2>2 DEF Handler, Result
        <3>2. Handler(b, tool).result = "failed" /\ ~Handler(b, tool).op
            BY <1>2, <1>4, <3>1 DEF BodyTypes
        <3> HIDE DEF d
        <3>3. PlanEnds(c, d)
            <4>1. d.result = "failed" /\ ~d.op
                BY <3>2 DEF d
            <4> QED
                BY <4>1 DEF PlanEnds
        <3> QED
            BY <2>1, <3>3 DEF d
    <2>3. CASE Applies(tool, plan)
        <3>1. Handler(b, tool) = [[b EXCEPT !.result = "ok"] EXCEPT !.op = TRUE]
            BY <1>6, <2>1, <2>3 DEF Handler, Result
        <3>2. Handler(b, tool).result = "ok" /\ Handler(b, tool).op
            BY <1>2, <3>1 DEF BodyTypes
        <3> HIDE DEF d
        <3>3. d.result = "ok" /\ d.op
            BY <3>2 DEF d
        <3>4. PlanEnds(c, d)
            BY <1>6, <2>3, <3>3 DEF PlanEnds
        <3> QED
            BY <2>1, <3>4 DEF d
    <2> QED
        BY <2>1, <2>2, <2>3
<1>7. CASE tool \notin PlanTools
    <2>1. \A d \in BodyTypes : ~d.op /\ (d.result # "none" \/ d.park # "none") => PlanEnds(c, d)
        BY <1>7 DEF PlanEnds
    <2> HIDE DEF tool
    <2>2. PlanEnds(c, ParkOn(l, "auth"))
        <3>1. ParkOn(l, "auth") = [l EXCEPT !.park = "auth", !.payload = "none"]
            BY DEF ParkOn
        <3>2. ParkOn(l, "auth") \in BodyTypes /\ ~ParkOn(l, "auth").op /\ ParkOn(l, "auth").park = "auth"
            BY <1>5, <3>1 DEF BodyTypes, Questions
        <3> QED
            BY <2>1, <3>2
    <2> SUFFICES PlanEnds(c, Ends(b, tool))
        BY <2>2
    <2>3. CASE Locked(tool)
        <3>1. Ends(b, tool) = [b EXCEPT !.result = "locked"]
            BY <2>3 DEF Ends, Result
        <3>2. Ends(b, tool) \in BodyTypes /\ ~Ends(b, tool).op /\ Ends(b, tool).result = "locked"
            BY <1>2, <1>4, <3>1 DEF BodyTypes, Results
        <3> QED
            BY <2>1, <3>2
    <2>4. CASE ~Locked(tool) /\ ~GoesOn(l)
        <3>1. Ends(b, tool) = l /\ (l.result # "none" \/ l.park # "none")
            BY <2>4 DEF Ends, Reaches, GoesOn, l
        <3> QED
            BY <1>5, <2>1, <3>1
    <2>5. CASE ~Locked(tool) /\ GoesOn(l)
        <3>1. Ends(b, tool) = Handler(l, tool)
            BY <2>5 DEF Ends, Reaches, l
        <3>2. CASE tool = "ask_user_choice" /\ Answered(l, "choice")
            <4>1. Handler(l, tool) = [Take(l) EXCEPT !.result = "ok"]
                BY <1>7, <3>2 DEF Handler, Result
            <4>2. Take(l) \in BodyTypes /\ ~Take(l).op
                BY <1>5 DEF Take, BodyTypes
            <4>3. Handler(l, tool) \in BodyTypes /\ ~Handler(l, tool).op /\ Handler(l, tool).result = "ok"
                BY <4>1, <4>2 DEF BodyTypes, Results
            <4> QED
                BY <2>1, <3>1, <4>3
        <3>3. CASE tool = "ask_user_choice" /\ ~Answered(l, "choice")
            <4>1. Handler(l, tool) = [l EXCEPT !.park = "choice", !.payload = "none"]
                BY <1>7, <3>3 DEF Handler, ParkOn
            <4>2. Handler(l, tool) \in BodyTypes /\ ~Handler(l, tool).op /\ Handler(l, tool).park = "choice"
                BY <1>5, <4>1 DEF BodyTypes, Questions
            <4> QED
                BY <2>1, <3>1, <4>2
        <3>4. CASE tool # "ask_user_choice"
            <4>1. Handler(l, tool) = [[l EXCEPT !.result = "ok"] EXCEPT !.op = tool \in PlanTools]
                BY <1>7, <3>4 DEF Handler, Result
            <4>2. Handler(l, tool) \in BodyTypes /\ ~Handler(l, tool).op /\ Handler(l, tool).result = "ok"
                <5> DEFINE e == [l EXCEPT !.result = "ok"]
                           at == tool \in PlanTools
                <5>1. e \in BodyTypes /\ e.result = "ok"
                    BY <1>5 DEF BodyTypes, Results
                <5>2. at \in BOOLEAN /\ ~at
                    BY <1>7
                <5>3. \A x \in BodyTypes, f \in BOOLEAN :
                         LET y == [x EXCEPT !.op = f]
                         IN  y \in BodyTypes /\ y.op = f /\ y.result = x.result
                    BY DEF BodyTypes
                <5>4. Handler(l, tool) = [e EXCEPT !.op = at]
                    BY <4>1
                <5> HIDE DEF e, at
                <5> QED
                    BY <5>1, <5>2, <5>3, <5>4
            <4> QED
                BY <2>1, <3>1, <4>2
        <3> QED
            BY <3>2, <3>3, <3>4
    <2> QED
        BY <2>3, <2>4, <2>5
<1> QED
    BY <1>5, <1>6, <1>7 DEF b, l

\* No step leaves the counters, the tools and the turn out of bounds.
LEMMA StepCounted ==
    ASSUME Counted, [Next]_vars
    PROVE  Counted'
<1> USE CallsAssumption DEF Counted, committed, history
<1>t. Trouble => troubles' \in 0..MaxTroubles
    BY DEF Trouble
<1>1. ASSUME NEW c \in Calls, \/ RunCall(c) \/ Expired(c) \/ Refused(c) \/ StepFails(c) \/ AttemptLost(c)
                              \/ \E payload \in Payloads : Resume(c, payload)
      PROVE  Counted'
    BY <1>1, <1>t DEF RunCall, Expired, Refused, StepFails, AttemptLost, Resume, Keep
<1>2. CASE \/ \E lost \in SUBSET Calls : CancelStep(lost)
           \/ StartCalls \/ Ask \/ ResumeBare \/ Cancel
    BY <1>2, <1>t DEF CancelStep, StartCalls, Ask, ResumeBare, Cancel
<1>3. CASE Record
    BY <1>3 DEF Record
<1>4. CASE Commit \/ CommitFails \/ Prompt \/ PromptFails
    BY <1>4, <1>t DEF Commit, CommitFails, Prompt, PromptFails
<1>5. CASE \E r \in ToolReplies : TakeReply(r)
    <2>1. /\ UNCHANGED <<runtime, tools, granted, turn, troubles>>
          /\ replies < MaxReplies /\ replies' = replies + 1
        BY <1>5 DEF TakeReply
    <2> QED
        BY <2>1
<1>6. CASE \E grants \in SUBSET {t \in tools : Gated(t)} : Redeploy(grants)
    BY <1>6, <1>t DEF Redeploy
<1>7. CASE UNCHANGED vars
    BY <1>7 DEF vars
<1> QED
    BY <1>1, <1>2, <1>3, <1>4, <1>5, <1>6, <1>7 DEF Next

\* A run's end leaves the other calls alone.
LEMMA RunPlanned ==
    ASSUME IInv, PlanInv, Counted', NEW c \in Calls, RunCall(c) \/ Expired(c)
    PROVE  PlanInv'
<1> DEFINE tool == round[c].tool
<1>1. step[c] = "run" /\ Resumable(c)
    BY DEF RunCall, Expired, Keep
<1>2. PICK d : Keep(c, d) /\ PlanEnds(c, d)
    BY <1>1, RunPlans DEF RunCall, Expired
<1>3. /\ UNCHANGED <<round, plan, reported>>
      /\ step' = [step EXCEPT ![c] = "ran"] /\ body' = [body EXCEPT ![c] = d]
    BY <1>2 DEF Keep, committed
<1>4. body'[c] = d /\ \A k \in Calls : k # c => body'[k] = body[k] /\ step'[k] = step[k]
    BY <1>3 DEF IInv, Types
<1>5. ASSUME NEW k \in Calls PROVE PlanCall(k)'
    <2>1. PlanCall(k)
        BY DEF PlanInv
    <2>2. CASE k = c
        BY <1>2, <1>3, <1>4, <2>1, <2>2 DEF PlanCall, PlanEnds
    <2>3. CASE k # c
        <3>1. Kept(k)' => Kept(k)
            BY <1>3, <1>4, <2>3 DEF Kept
        <3> QED
            BY <1>3, <1>4, <2>1, <2>3, <3>1 DEF PlanCall
    <2> QED
        BY <2>2, <2>3
<1> QED
    BY <1>3, <1>5 DEF PlanInv

\* A step that writes no body keeps what the bodies say.
LEMMA PlanStays ==
    ASSUME IInv, PlanInv, Counted', UNCHANGED <<round, plan, reported, body>>,
           \A c \in Calls : step'[c] = "ran" => step[c] = "ran"
    PROVE  PlanInv'
<1>1. ASSUME NEW c \in Calls PROVE PlanCall(c)'
    <2>1. PlanCall(c)
        BY DEF PlanInv
    <2>2. Kept(c)' => Kept(c)
        BY DEF Kept
    <2> QED
        BY <2>1, <2>2 DEF PlanCall
<1> QED
    BY <1>1 DEF PlanInv

\* A reply's calls have changed nothing yet.
LEMMA ReplyPlanned ==
    ASSUME IInv, PlanInv, Counted', NEW r \in ToolReplies, TakeReply(r)
    PROVE  PlanInv'
<1>1. /\ UNCHANGED <<plan, reported, body, step>> /\ InReply = {}
      /\ round' = [c \in Calls |-> IF c \in DOMAIN r THEN [NoCall EXCEPT !.tool = r[c], !.at = "new"] ELSE NoCall]
    BY DEF TakeReply, committed
<1>2. ASSUME NEW c \in Calls PROVE PlanCall(c)'
    <2>1. round[c].at = "out" /\ CallGood(c)
        BY <1>1 DEF InReply, IInv
    <2>2. step'[c] = "no" /\ body'[c] = NoBody
        BY <1>1, <2>1 DEF CallGood
    <2>3. round'[c].at \in {"out", "new"} /\ round'[c].asks = "none"
        <3>1. CASE c \in DOMAIN r
            BY <1>1, <3>1 DEF NoCall
        <3>2. CASE c \notin DOMAIN r
            BY <1>1, <3>2 DEF NoCall
        <3> QED
            BY <3>1, <3>2
    <2>4. Kept(c)' => round'[c].at = "out"
        BY <2>2, <2>3 DEF Kept
    <2> QED
        BY <2>2, <2>3, <2>4 DEF PlanCall, NoBody, Questions
<1> QED
    BY <1>1, <1>2 DEF PlanInv

\* record: a plan tool's call is done, and one that parks asks something.
LEMMA RecordPlanned ==
    ASSUME IInv, PlanInv, Counted', Record
    PROVE  PlanInv'
<1>1. /\ UNCHANGED <<plan, reported, body>> /\ round' = Recorded
      /\ step' = [c \in Calls |-> "no"]
    BY DEF Record, committed
<1>2. ASSUME NEW c \in Calls PROVE PlanCall(c)'
    <2>1. PlanCall(c) /\ CallGood(c) /\ round[c] \in CallTypes /\ body[c].park \in Questions \cup {"none"}
          /\ step'[c] = "no" /\ body'[c] = body[c]
        BY <1>1 DEF PlanInv, IInv, Types, BodyTypes
    <2>2. CASE step[c] # "ran"
        <3>1. round'[c] = round[c]
            BY <1>1, <2>2 DEF Recorded
        <3>2. Kept(c)' => Kept(c)
            BY <2>1, <3>1 DEF Kept
        <3> QED
            BY <1>1, <2>1, <3>1, <3>2 DEF PlanCall
    <2>3. CASE step[c] = "ran" /\ c \notin Asking
        <3>1. round'[c] = [round[c] EXCEPT !.at = "done", !.asks = "none"]
            BY <1>1, <2>3 DEF Recorded
        <3>2. round'[c].at = "done" /\ round'[c].asks = "none" /\ round'[c].tool = round[c].tool
            BY <2>1, <3>1 DEF CallTypes
        <3>3. Kept(c) /\ body[c].result # "none"
            BY <2>3 DEF Kept, Asking
        <3> QED
            BY <1>1, <2>1, <3>2, <3>3 DEF PlanCall, Questions
    <2>4. CASE step[c] = "ran" /\ c \in Asking /\ Parks(c)
        <3>1. round'[c] = [round[c] EXCEPT !.at = "park", !.asks = body[c].park]
            BY <1>1, <2>4 DEF Recorded
        <3>2. round'[c].at = "park" /\ round'[c].asks = body[c].park /\ round'[c].tool = round[c].tool
            BY <2>1, <3>1 DEF CallTypes
        <3>3. Kept(c) /\ body[c].result = "none" /\ round[c].at # "out"
            BY <2>1, <2>4 DEF Kept, Asking, CallGood
        <3>4. body[c].park \in Questions /\ round[c].tool \notin PlanTools
            BY <2>1, <3>3 DEF PlanCall
        <3> QED
            BY <1>1, <2>1, <3>2, <3>3, <3>4 DEF PlanCall
    <2>5. CASE step[c] = "ran" /\ c \in Asking /\ ~Parks(c)
        <3>1. round'[c] = [round[c] EXCEPT !.at = "new", !.asks = "none"]
            BY <1>1, <2>5 DEF Recorded
        <3>2. round'[c].at = "new" /\ round'[c].asks = "none" /\ round'[c].tool = round[c].tool
            BY <2>1, <3>1 DEF CallTypes
        <3>3. ~Kept(c)'
            BY <2>1, <3>2 DEF Kept
        <3> QED
            BY <3>2, <3>3 DEF PlanCall, Questions
    <2> QED
        BY <2>2, <2>3, <2>4, <2>5
<1> QED
    BY <1>1, <1>2 DEF PlanInv

\* The calls whose plan changes a Commit applies.
Works(c) == Commits(c) /\ body[c].op

\* They are the plan tools' calls whose result says they did.
LEMMA WorksTold ==
    ASSUME IInv, PlanInv, NEW c \in Calls, round[c].tool \in PlanTools
    PROVE  Works(c) <=> c \in Ended /\ body[c].result = "ok"
<1>1. PlanCall(c) /\ CallGood(c)
    BY DEF PlanInv, IInv
<1>2. round[c].at # "park" /\ round[c].at \in {"out", "new", "park", "done"}
    BY <1>1 DEF PlanCall, IInv, Types, CallTypes
<1>3. round[c].at = "done" => Kept(c)
    BY DEF Kept
<1> QED
    BY <1>1, <1>2, <1>3 DEF Works, Commits, Ended, PlanCall

\* And no other call's.
LEMMA WorksPlan ==
    ASSUME IInv, PlanInv, NEW c \in Calls, Works(c)
    PROVE  round[c].tool \in PlanTools /\ Applies(round[c].tool, plan)
<1>1. PlanCall(c) /\ Kept(c)
    BY DEF PlanInv, Works, Commits, Kept
<1> QED
    BY <1>1 DEF PlanCall, Works

\* On no plan only create_plan worked, and what is left is the new plan.
LEMMA CommitsNew ==
    ASSUME IInv, PlanInv, plan = <<>>
    PROVE  PlanShape(Applied) /\ Agrees(Applied, Told)
<1> DEFINE Made(n) == \E c \in 1..n : Works(c)
           Wrong == {n \in 0..MaxCalls : PlanAfter[n] # IF Made(n) THEN NewPlan ELSE <<>>}
<1>0. MaxCalls \in Nat
    BY CallsAssumption
<1>1. \A c \in Calls : Works(c) => round[c].tool = "create_plan"
    <2> SUFFICES ASSUME NEW c \in Calls, Works(c) PROVE round[c].tool = "create_plan"
        OBVIOUS
    <2>1. round[c].tool \in PlanTools /\ Applies(round[c].tool, <<>>)
        BY WorksPlan
    <2>2. round[c].tool # "create_plan" => Titled(<<>>, 2) \cap Open(<<>>) # {}
                                           \/ Titled(<<>>, Completes[round[c].tool]) \cap Open(<<>>) # {}
        BY <2>1 DEF Applies
    <2> QED
        BY <2>2, NoTodos
<1>2. Wrong = {}
    <2> SUFFICES ASSUME Wrong # {} PROVE FALSE
        OBVIOUS
    <2>1. PICK n \in Wrong : \A m \in Wrong : n <= m
        <3>1. Wrong \in SUBSET Nat
            OBVIOUS
        <3> HIDE DEF Wrong
        <3> QED
            BY <3>1, LeastNumber
    <2>2. n # 0
        <3>1. ~Made(0)
            OBVIOUS
        <3> QED
            BY <2>1, <3>1, PlanAfterEach
    <2>3. n \in Calls /\ n - 1 \in 0..MaxCalls /\ ~(n <= n - 1)
        BY <1>0, <2>1, <2>2 DEF Calls
    <2>4. PlanAfter[n - 1] = IF Made(n - 1) THEN NewPlan ELSE <<>>
        BY <2>1, <2>3
    <2>5. Made(n) <=> Made(n - 1) \/ Works(n)
        <3>1. \A c : c \in 1..n <=> c \in 1..(n - 1) \/ c = n
            BY <1>0, <2>3 DEF Calls
        <3> QED
            BY <3>1
    <2> HIDE DEF Made
    <2>6. PlanAfter[n] = IF Works(n) THEN Replay("create_plan", PlanAfter[n - 1]) ELSE PlanAfter[n - 1]
        BY <1>1, <2>3, PlanAfterEach DEF ApplyCall, Works
    <2>7. PlanAfter[n] = IF Made(n) THEN NewPlan ELSE <<>>
        BY <2>4, <2>5, <2>6, CreatesPlan
    <2> QED
        BY <2>1, <2>7
<1>3. Applied = IF Made(MaxCalls) THEN NewPlan ELSE <<>>
    BY <1>0, <1>2 DEF Applied
<1>4. Agrees(plan, reported)
    BY DEF PlanInv
<1> DEFINE ok == {round[c].tool : c \in {k \in Ended : body[k].result = "ok"}}
<1>5. \A t \in PlanTools : t \in ok <=> \E c \in Calls : Works(c) /\ round[c].tool = t
    BY WorksTold DEF Ended
<1>6. DOMAIN Completes \subseteq PlanTools /\ "create_plan" \in PlanTools /\ "create_plan" \notin DOMAIN Completes
    BY DEF Completes, PlanTools
<1>7. ok \cap DOMAIN Completes = {} /\ ("create_plan" \in ok <=> \E c \in Calls : Works(c))
    BY <1>1, <1>5, <1>6
<1>8. Told = (IF "create_plan" \in ok THEN {} ELSE reported) \cup {Completes[t] : t \in ok \cap DOMAIN Completes}
    BY DEF Told
<1> HIDE DEF ok
<1>9. Told = IF Made(MaxCalls) THEN {} ELSE reported
    BY <1>7, <1>8 DEF Calls
<1> HIDE DEF Made
<1>10. PlanShape(<<>>)
    BY DEF PlanShape
<1> QED
    BY <1>3, <1>4, <1>9, <1>10, CreatesPlan

\* On a plan each change keeps it in agreement with what is told so far.
LEMMA CommitsOld ==
    ASSUME IInv, PlanInv, plan # <<>>
    PROVE  PlanShape(Applied) /\ Agrees(Applied, Told)
<1> DEFINE Ending(n) == {c \in 1..n : Works(c) /\ round[c].tool \in DOMAIN Completes}
           ToldBy(n) == reported \cup {Completes[round[c].tool] : c \in Ending(n)}
           Right(n) == PlanShape(PlanAfter[n]) /\ PlanAfter[n] # <<>> /\ Agrees(PlanAfter[n], ToldBy(n))
           Wrong == {n \in 0..MaxCalls : ~Right(n)}
<1>0. MaxCalls \in Nat
    BY CallsAssumption
<1>1. \A c \in Calls : Works(c) => round[c].tool \in (DOMAIN Completes) \cup {"edit_plan"}
    <2> SUFFICES ASSUME NEW c \in Calls, Works(c) PROVE round[c].tool \in (DOMAIN Completes) \cup {"edit_plan"}
        OBVIOUS
    <2>1. round[c].tool \in PlanTools /\ Applies(round[c].tool, plan)
        BY WorksPlan
    <2>2. round[c].tool # "create_plan"
        BY <2>1 DEF Applies, HasActive, Completes
    <2> QED
        BY <2>1, <2>2 DEF PlanTools, Completes
<1>2. Wrong = {}
    <2> SUFFICES ASSUME Wrong # {} PROVE FALSE
        OBVIOUS
    <2>1. PICK n \in Wrong : \A m \in Wrong : n <= m
        <3>1. Wrong \in SUBSET Nat
            OBVIOUS
        <3> HIDE DEF Wrong
        <3> QED
            BY <3>1, LeastNumber
    <2>2. n # 0
        <3>1. Ending(0) = {}
            OBVIOUS
        <3>2. ToldBy(0) = reported
            BY <3>1
        <3>3. Right(0)
            BY <3>2, PlanAfterEach DEF PlanInv
        <3> QED
            BY <2>1, <3>3
    <2>3. n \in Calls /\ n - 1 \in 0..MaxCalls /\ ~(n <= n - 1)
        BY <1>0, <2>1, <2>2 DEF Calls
    <2>4. Right(n - 1)
        BY <2>1, <2>3
    <2>5. Ending(n) = Ending(n - 1) \cup (IF Works(n) /\ round[n].tool \in DOMAIN Completes THEN {n} ELSE {})
        <3>1. \A c : c \in 1..n <=> c \in 1..(n - 1) \/ c = n
            BY <1>0, <2>3 DEF Calls
        <3> QED
            BY <3>1
    <2>6. ToldBy(n) = IF Works(n) /\ round[n].tool \in DOMAIN Completes
                      THEN ToldBy(n - 1) \cup {Completes[round[n].tool]} ELSE ToldBy(n - 1)
        <3> HIDE DEF Ending
        <3> QED
            BY <2>5
    <2>7. PlanAfter[n] = IF Works(n) THEN Replay(round[n].tool, PlanAfter[n - 1]) ELSE PlanAfter[n - 1]
        BY <2>3, PlanAfterEach DEF ApplyCall, Works
    <2> DEFINE p == PlanAfter[n - 1]
    <2>8. PlanShape(p) /\ p # <<>> /\ Agrees(p, ToldBy(n - 1))
        BY <2>4
    <2> HIDE DEF ToldBy, p
    <2>9. Right(n)
        <3>1. CASE ~Works(n)
            BY <2>6, <2>7, <2>8, <3>1 DEF p
        <3>2. CASE Works(n) /\ round[n].tool \in DOMAIN Completes
            <4> DEFINE tool == round[n].tool
                       told == ToldBy(n - 1)
            <4>1. tool \in DOMAIN Completes /\ Agrees(p, told)
                BY <2>8, <3>2
            <4> HIDE DEF tool, told
            <4>2. /\ PlanShape(Replay(tool, p)) /\ Replay(tool, p) # <<>>
                  /\ Agrees(Replay(tool, p), told \cup {Completes[tool]})
                BY <2>8, <4>1, CompletesAgrees
            <4>3. PlanAfter[n] = Replay(tool, p) /\ ToldBy(n) = told \cup {Completes[tool]}
                BY <2>6, <2>7, <3>2 DEF p, tool, told
            <4> QED
                BY <4>2, <4>3
        <3>3. CASE Works(n) /\ round[n].tool = "edit_plan"
            <4>1. "edit_plan" \notin DOMAIN Completes
                BY DEF Completes
            <4> QED
                BY <2>6, <2>7, <2>8, <3>3, <4>1, EditsAgrees DEF p
        <3> QED
            BY <1>1, <2>3, <3>1, <3>2, <3>3
    <2> HIDE DEF Right
    <2> QED
        BY <2>1, <2>9
<1>3. Right(MaxCalls)
    <2>1. MaxCalls \in 0..MaxCalls
        BY <1>0
    <2> HIDE DEF Right
    <2> QED
        BY <1>2, <2>1
<1> DEFINE ok == {round[c].tool : c \in {k \in Ended : body[k].result = "ok"}}
<1>4. \A t \in PlanTools : t \in ok <=> \E c \in Calls : Works(c) /\ round[c].tool = t
    BY WorksTold DEF Ended
<1>5. DOMAIN Completes \subseteq PlanTools /\ "create_plan" \in PlanTools /\ "create_plan" \notin DOMAIN Completes
      /\ "create_plan" # "edit_plan"
    BY DEF Completes, PlanTools
<1>6. "create_plan" \notin ok
    BY <1>1, <1>4, <1>5
<1>7. Told = reported \cup {Completes[t] : t \in ok \cap DOMAIN Completes}
    BY <1>6 DEF Told
<1> HIDE DEF ok
<1>8. ToldBy(MaxCalls) = Told
    <2>1. \A c : c \in Ending(MaxCalls) <=> c \in Calls /\ Works(c) /\ round[c].tool \in DOMAIN Completes
        BY DEF Calls
    <2>2. \A t : t \in ok \cap DOMAIN Completes <=> \E c \in Ending(MaxCalls) : round[c].tool = t
        BY <1>4, <1>5, <2>1
    <2> HIDE DEF Ending
    <2> QED
        BY <1>7, <2>2
<1> HIDE DEF ToldBy
<1> QED
    BY <1>3, <1>8 DEF Applied

\* The end of a round: the plan it leaves agrees with what its results told.
LEMMA OverPlanned ==
    ASSUME IInv, PlanInv, Counted', Commit \/ Prompt \/ PromptFails
    PROVE  PlanInv'
<1>1. RoundOver /\ step' = step /\ (Stepping = {} \/ turn # "busy")
      /\ (UNCHANGED <<plan, reported>> \/ CommitRound)
    BY DEF Commit, Prompt, PromptFails, committed
<1>2. \A c \in Calls : round'[c] = NoCall /\ body'[c] = NoBody
    BY <1>1 DEF RoundOver
<1>3. \A c \in Calls : PlanCall(c)'
    BY <1>2 DEF PlanCall, NoCall, NoBody, PlanTools, Questions
<1>4. PlanShape(plan') /\ Agrees(plan', reported')
    <2>1. CASE UNCHANGED <<plan, reported>>
        BY <2>1 DEF PlanInv
    <2>2. CASE CommitRound
        <3>1. plan' = Applied /\ reported' = Told
            BY <2>2 DEF CommitRound
        <3>2. PlanShape(Applied) /\ Agrees(Applied, Told)
            BY CommitsNew, CommitsOld
        <3> QED
            BY <3>1, <3>2
    <2> QED
        BY <1>1, <2>1, <2>2
<1> QED
    BY <1>3, <1>4 DEF PlanInv

\* A session starts without a plan, or with a new one, of which nothing is told.
LEMMA StartPlanned == Init => PlanInv
<1> SUFFICES ASSUME Init PROVE PlanInv
    OBVIOUS
<1>1. Counted
    BY CallsAssumption DEF Init, Counted
<1>2. PlanShape(plan) /\ Agrees(plan, reported)
    <2>1. PlanShape(<<>>) /\ Agrees(<<>>, {})
        BY NoTodos DEF PlanShape, Agrees
    <2> QED
        BY <2>1, CreatesPlan DEF Init
<1>3. ASSUME NEW c \in Calls PROVE PlanCall(c)
    <2>1. round[c] = NoCall /\ body[c] = NoBody
        BY DEF Init
    <2> QED
        BY <2>1 DEF PlanCall, NoCall, NoBody, PlanTools, Questions
<1> QED
    BY <1>1, <1>2, <1>3 DEF PlanInv

\* Each step keeps the plan in agreement with what is told.
LEMMA StepPlanned ==
    ASSUME IInv, PlanInv, [Next]_vars
    PROVE  PlanInv'
<1>1. Counted'
    BY StepCounted DEF PlanInv
<1>2. ASSUME NEW c \in Calls, RunCall(c) \/ Expired(c) PROVE PlanInv'
    BY <1>1, <1>2, RunPlanned
<1>3. CASE \/ \E c \in Calls : Refused(c) \/ StepFails(c) \/ AttemptLost(c)
           \/ \E lost \in SUBSET Calls : CancelStep(lost)
           \/ Ask \/ ResumeBare \/ Cancel \/ CommitFails
           \/ \E grants \in SUBSET {t \in tools : Gated(t)} : Redeploy(grants)
    <2>1. UNCHANGED <<plan, reported, body>>
        BY <1>3 DEF Refused, StepFails, AttemptLost, CancelStep, Ask, ResumeBare, Cancel, CommitFails,
                    Redeploy, committed
    <2>2. round' = round /\ \A c \in Calls : step'[c] = "ran" => step[c] = "ran"
        BY <1>3, OthersGood
    <2> QED
        BY <1>1, <2>1, <2>2, PlanStays
<1>4. CASE StartCalls
    <2>1. UNCHANGED <<plan, reported, body>>
        BY <1>4 DEF StartCalls, committed
    <2> QED
        BY <1>1, <1>4, <2>1, StartCallsGood, PlanStays
<1>5. ASSUME NEW c \in Calls, NEW payload \in Payloads, Resume(c, payload) PROVE PlanInv'
    <2>1. UNCHANGED <<plan, reported, body>>
        BY <1>5 DEF Resume, committed
    <2> QED
        BY <1>1, <1>5, <2>1, ResumeGood, PlanStays
<1>6. ASSUME NEW r \in ToolReplies, TakeReply(r) PROVE PlanInv'
    BY <1>1, <1>6, ReplyPlanned
<1>7. CASE Record
    BY <1>1, <1>7, RecordPlanned
<1>8. CASE Commit \/ Prompt \/ PromptFails
    BY <1>1, <1>8, OverPlanned
<1>9. CASE UNCHANGED vars
    <2>1. UNCHANGED <<round, plan, reported, body, step>>
        BY <1>9 DEF vars, committed
    <2> QED
        BY <1>1, <2>1, PlanStays
<1> QED
    BY <1>2, <1>3, <1>4, <1>5, <1>6, <1>7, <1>8, <1>9 DEF Next

\* One question of a round is open.
LEMMA OneAsks == IInv => Cardinality(Parked) <= 1
<1> SUFFICES ASSUME IInv PROVE Cardinality(Parked) <= 1
    OBVIOUS
<1>1. CASE Parked = {}
    BY <1>1, FS_EmptySet
<1>2. CASE Parked # {}
    <2>1. PICK c \in Parked : TRUE
        BY <1>2
    <2>2. Parked = {c}
        BY <2>1 DEF Parked, IInv, OneParked
    <2>3. Cardinality(Parked) = 1
        BY <2>2, FS_Singleton
    <2> QED
        BY <2>3
<1> QED
    BY <1>1, <1>2

\* The two invariants give the types.
LEMMA Typed == IInv /\ PlanInv => TypeOK
<1> SUFFICES ASSUME IInv, PlanInv PROVE TypeOK
    OBVIOUS
<1>1. \A i \in DOMAIN plan : plan[i].status \in Statuses
    <2>1. CASE plan = <<>>
        BY <2>1
    <2>2. ASSUME NEW s \in Statuses, plan = <<Todo(1, s)>> PROVE \A i \in DOMAIN plan : plan[i].status \in Statuses
        BY <2>2, OneTodo DEF Todo
    <2>3. ASSUME NEW s \in Statuses, NEW r \in Statuses, plan = <<Todo(1, s), Todo(2, r)>>
          PROVE  \A i \in DOMAIN plan : plan[i].status \in Statuses
        BY <2>3, TwoTodos DEF Todo
    <2> QED
        BY <2>1, <2>2, <2>3 DEF PlanInv, PlanShape
<1>2. ASSUME NEW c \in Calls
      PROVE  /\ round[c].tool \in tools \cup {"none"} /\ round[c].at \in {"out", "new", "park", "done"}
             /\ round[c].at = "park" <=> round[c].asks \in Questions
             /\ body[c].park \in Questions \cup {"none"} /\ body[c].layers \subseteq Questions
             /\ body[c].result \in {"none", "ok", "denied", "locked", "failed"}
             /\ step[c] \in {"no", "run", "ran", "error"}
    <2>1. round[c] \in CallTypes /\ body[c] \in BodyTypes /\ step[c] \in {"no", "run", "ran", "error"}
        BY DEF IInv, Types
    <2>2. PlanCall(c)
        BY DEF PlanInv
    <2> QED
        BY <2>1, <2>2 DEF CallTypes, BodyTypes, Results, PlanCall
<1>3. answer.call \in Calls \cup {0} /\ decisions \in [tools -> {"none", "allow", "deny"}]
    BY DEF IInv, Types, Always
<1> QED
    BY <1>1, <1>2, <1>3, OneAsks DEF TypeOK, PlanInv, Counted, Statuses

\* However the plan changes of one reply meet, run again, fail or are moved
\* past, the plan completed exactly what committed results told of, but for
\* what was deleted (replayPlanOp, commitReplyRound).
THEOREM DoneAsReportedAlways == Spec => []DoneAsReported
<1>1. IInv /\ PlanInv => DoneAsReported
    BY Typed DEF DoneAsReported, PlanInv, Agrees
<1>2. IInv /\ PlanInv /\ [Next]_vars => PlanInv'
    BY StepPlanned
<1> QED
    BY <1>1, <1>2, StartPlanned, Always_IInv, PTL DEF Spec
=============================================================================
