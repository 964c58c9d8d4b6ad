----------------------------- MODULE MCNavigation -----------------------------
(***************************************************************************)
(* The parts of the navigation that share no state, checked in one run: a  *)
(* behaviour is a behaviour of one of them.                                *)
(***************************************************************************)
EXTENDS Planners, SwathTurn, RsController, DriveArc, ToolSlider, OneLine,
        ToolFollower, LineNav, FieldLines, TLC

VARIABLE part

RsLimits == {[value |-> 0, percent |-> FALSE], [value |-> 1, percent |-> FALSE],
             [value |-> 3, percent |-> FALSE], [value |-> 1, percent |-> TRUE]}
ToolLimits == {[value |-> 0, percent |-> FALSE], [value |-> 2, percent |-> TRUE]}
PlanBends == {0, 1}
LinesOfFiles == "long" :> <<1, 2, 3>> @@ "short" :> <<4>> @@ "bad" :> <<>>

\* Three lines, two lines that do not end, a file that breaks off, an empty one
\* and one that is not there.
Line(id, side) == [id |-> id, turn |-> side]
FieldFiles ==
    "a" :> [lines |-> <<Line("a1", "left"), Line("a2", "right"), Line("a3", "end")>>,
            parsed |-> 3, offsets |-> {0, 5}]
    @@ "b" :> [lines |-> <<Line("b1", "right"), Line("b2", "left")>>, parsed |-> 2, offsets |-> {1}]
    @@ "torn" :> [lines |-> <<Line("t1", "left"), Line("t2", "end")>>, parsed |-> 1, offsets |-> {}]
    @@ "empty" :> [lines |-> <<>>, parsed |-> 0, offsets |-> {}]
    @@ "gone" :> [lines |-> <<Line("g1", "end")>>, parsed |-> -1, offsets |-> {0}]
SwathEnds == {[x |-> 0, y |-> 0, h |-> 1], [x |-> 1, y |-> 0, h |-> 2]}

vars == <<part, planVars, turnVars, rsVars, arcVars, sliderVars, olVars, tfVars, lnVars, flVars>>

\* A part that is not checked stands still in one state.
Init ==
    /\ part \in {"planners", "turn", "rs", "arc", "slider", "oneLine", "tool", "line", "field"}
    /\ PlanInit /\ TurnInit /\ RsInit /\ ArcInit /\ SliderInit /\ OneLineInit
    /\ ToolFollowerInit /\ LineNavInit /\ FieldLinesInit
    /\ part # "turn" => swath = robot

InPlanners(A) == part = "planners" /\ A
    /\ UNCHANGED <<part, turnVars, rsVars, arcVars, sliderVars, olVars, tfVars, lnVars, flVars>>
InTurn(A) == part = "turn" /\ A
    /\ UNCHANGED <<part, planVars, rsVars, arcVars, sliderVars, olVars, tfVars, lnVars, flVars>>
InRs(A) == part = "rs" /\ A
    /\ UNCHANGED <<part, planVars, turnVars, arcVars, sliderVars, olVars, tfVars, lnVars, flVars>>
InArc(A) == part = "arc" /\ A
    /\ UNCHANGED <<part, planVars, turnVars, rsVars, sliderVars, olVars, tfVars, lnVars, flVars>>
InSlider(A) == part = "slider" /\ A
    /\ UNCHANGED <<part, planVars, turnVars, rsVars, arcVars, olVars, tfVars, lnVars, flVars>>
InOneLine(A) == part = "oneLine" /\ A
    /\ UNCHANGED <<part, planVars, turnVars, rsVars, arcVars, sliderVars, tfVars, lnVars, flVars>>
InTool(A) == part = "tool" /\ A
    /\ UNCHANGED <<part, planVars, turnVars, rsVars, arcVars, sliderVars, olVars, lnVars, flVars>>
InLine(A) == part = "line" /\ A
    /\ UNCHANGED <<part, planVars, turnVars, rsVars, arcVars, sliderVars, olVars, tfVars, flVars>>
InField(A) == part = "field" /\ A
    /\ UNCHANGED <<part, planVars, turnVars, rsVars, arcVars, sliderVars, olVars, tfVars, lnVars>>

Next ==
    \/ InPlanners(PlanNext)
    \/ InTurn(TurnNext)
    \/ InRs(RsNext)
    \/ InArc(ArcNext)
    \/ InSlider(SliderNext)
    \/ InOneLine(OneLineNext)
    \/ InTool(ToolFollowerNext)
    \/ InLine(LineNavNext)
    \/ InField(FieldLinesNext)

\* The nodes of the slider, the behaviour server and the controller server run.
Fairness ==
    /\ WF_vars(InArc(ArcTask))
    /\ WF_vars(InSlider(Watchdog)) /\ WF_vars(InSlider(BarCommand)) /\ WF_vars(InSlider(BarMoves))
    /\ RsFair

Spec == Init /\ [][Next]_vars /\ Fairness

\* The nodes stay within their types, each with the bound its code gives it: the
\* commands of the tool bar and the turning rate are clamped, indices stay
\* within their paths, windup within ki_clamp.
NavTypeOK ==
    /\ PlanTypeOK /\ TurnTypeOK /\ RsTypeOK /\ ArcTypeOK /\ SliderTypeOK
    /\ OneLineTypeOK /\ ToolFollowerTypeOK /\ LineNavTypeOK
=============================================================================
