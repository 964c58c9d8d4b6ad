----------------------------- MODULE ToolSlider -----------------------------
(***************************************************************************)
(* The tool bar that follows the plant row: the detector of the            *)
(* simulation, the controller that turns its offsets into commands and     *)
(* freezes them when the row is lost, and the simulated actuator.          *)
(*                                                                         *)
(* Positions are small integers; time counts watchdog periods.             *)
(***************************************************************************)
EXTENDS Integers, Sequences, FiniteSetsExt

CONSTANTS
    SliderLimit,    \* slider_limit_m of both nodes
    CalOffset,      \* cal_offset_m
    LostTimeout,    \* row_lost_timeout_s in watchdog periods
    SliderDepth     \* depth of the command topic

ASSUME SliderAssumption ==
    {SliderLimit, LostTimeout, SliderDepth} \subseteq Nat \ {0} /\ CalOffset \in Int

VARIABLES
    lastCmd,        \* last_cmd_
    rowLost,        \* row_lost_
    rowTopic,       \* the last message on /tool_slider/row_lost
    msgAge,         \* periods since last_msg_time_
    detects,        \* what the detector sees
    cmdTopic,       \* commands on their way to the actuator
    barCmd,         \* cmd_ of the actuator
    bar             \* actual_

sliderVars == <<lastCmd, rowLost, rowTopic, msgAge, detects, cmdTopic, barCmd, bar>>

Offsets == -(SliderLimit + 1) .. SliderLimit + 1
Lost == SliderLimit + 2         \* NaN
Silent == SliderLimit + 3       \* no message
Bar == -SliderLimit .. SliderLimit

\* Mutant: without a limit.
MutClamp(x) == x
Clamp(x) == Max({-SliderLimit, Min({SliderLimit, x})})

\* The topics keep the last few messages.
Kept(q) == IF Len(q) > SliderDepth THEN Tail(q) ELSE q
PublishCmd(c) == cmdTopic' = Kept(Append(cmdTopic, c))

SliderInit ==
    /\ lastCmd = 0 /\ rowLost = FALSE /\ rowTopic = FALSE /\ msgAge = 0
    /\ detects = 0 /\ cmdTopic = <<>> /\ barCmd = 0 /\ bar = 0

\* The row wanders, is lost to the camera, or the detector stops.
RowChanges ==
    /\ detects' \in Offsets \cup {Lost, Silent}
    /\ UNCHANGED <<lastCmd, rowLost, rowTopic, msgAge, cmdTopic, barCmd, bar>>

\* Mutant: the command is forgotten with the row.
MutHandleRowLost == rowLost' = TRUE /\ rowTopic' = TRUE /\ PublishCmd(0) /\ lastCmd' = 0

\* Told once; the last command is sent again.
HandleRowLost ==
    /\ rowLost' = TRUE /\ rowTopic' = TRUE
    /\ PublishCmd(lastCmd) /\ UNCHANGED lastCmd

\* tick of the detector, and cb_offset with what it published.
Detect ==
    /\ detects # Silent /\ msgAge' = 0
    /\ IF detects = Lost THEN HandleRowLost
       ELSE /\ lastCmd' = Clamp(detects + CalOffset)
            /\ rowLost' = FALSE
            /\ rowTopic' = (rowTopic /\ ~rowLost)
            /\ PublishCmd(lastCmd')
    /\ UNCHANGED <<detects, barCmd, bar>>

\* A watchdog period passes.
Watchdog ==
    /\ msgAge' = Min({msgAge + 1, LostTimeout + 1})
    /\ IF ~rowLost /\ msgAge' > LostTimeout THEN HandleRowLost
       ELSE UNCHANGED <<lastCmd, rowLost, rowTopic, cmdTopic>>
    /\ UNCHANGED <<detects, barCmd, bar>>

BarCommand ==
    /\ cmdTopic # <<>> /\ barCmd' = Head(cmdTopic) /\ cmdTopic' = Tail(cmdTopic)
    /\ UNCHANGED <<lastCmd, rowLost, rowTopic, msgAge, detects, bar>>

\* tick of the actuator: a part of the way, then the mechanical limit.
BarMoves ==
    /\ bar # barCmd
    /\ bar' = Clamp(IF bar < barCmd THEN bar + 1 ELSE bar - 1)
    /\ UNCHANGED <<lastCmd, rowLost, rowTopic, msgAge, detects, cmdTopic, barCmd>>

\* The timers and subscriptions are served.
SliderTask == Watchdog \/ BarCommand \/ BarMoves
SliderNext == RowChanges \/ Detect \/ SliderTask

-----------------------------------------------------------------------------
SliderTypeOK ==
    /\ lastCmd \in Bar /\ barCmd \in Bar /\ bar \in Bar
    /\ rowLost \in BOOLEAN /\ rowTopic \in BOOLEAN /\ msgAge \in 0 .. LostTimeout + 1
    /\ detects \in Offsets \cup {Lost, Silent}
    /\ cmdTopic \in Seq(Bar) /\ Len(cmdTopic) <= SliderDepth

\* The listeners know whether the row is lost, and it counts as lost no later
\* than the timeout after the last offset.
RowLostTold == rowTopic = rowLost /\ (msgAge > LostTimeout => rowLost)

\* While the row stays lost the bar is held: the command of the last row seen
\* stands, and nothing else is on its way to the actuator after it.
BarFrozen ==
    /\ [][rowLost' => lastCmd' = lastCmd]_sliderVars
    /\ [](rowLost => lastCmd = IF cmdTopic = <<>> THEN barCmd ELSE cmdTopic[Len(cmdTopic)])

\* A detector that stays silent leaves the bar at the last command, and still.
BarComesToRest == <>[](detects = Silent) => <>[](rowLost /\ bar = lastCmd)

\* The bar holds its place for as long as there is no row to follow, and the
\* listeners know.
BarHolds == []RowLostTold /\ BarFrozen /\ BarComesToRest
=============================================================================
