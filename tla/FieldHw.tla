------------------------------- MODULE FieldHw -------------------------------
(***************************************************************************)
(* The robot's field tree, field_nav_hw.xml: drive to the swath, lower the *)
(* implement, start the planter, drive the swath, stop, raise, turn, next  *)
(* line.  One action per leaf that runs over several ticks; the leaves     *)
(* that return at once belong to the action of the leaf before them.       *)
(*                                                                         *)
(* A reactive sequence ticks the pause guard before the line: when it      *)
(* hears a pause it halts the running leaf, stops the planter, saves and   *)
(* waits, and the line starts over from what the blackboard says.          *)
(***************************************************************************)
EXTENDS FieldMission

VARIABLES
    lift,       \* the implement, "up" or "down"
    planter,    \* "off", "on", or "stuck": on although a stop was asked for
    slipped     \* history: the last mission took "Field complete" because
                \*   moving to the next line failed

hwVars == <<lift, planter, slipped>>
vars == <<fieldVars, hwVars>>

Legs == {"approach", "lower", "start", "swath", "stop", "raise", "turn"}
Nodes == Legs \cup {"idle", "tick", "halt", "wait"}

TypeOK ==
    /\ node \in Nodes /\ line \in Lines /\ stage \in Stages /\ map \in Lines
    /\ file \in Files /\ paused \in BOOLEAN /\ outcome \in Outcomes
    /\ worked \subseteq Lines /\ from \in Lines
    /\ lift \in {"up", "down"} /\ planter \in {"off", "on", "stuck"}
    /\ slipped \in BOOLEAN

Init == FieldInit /\ lift = "up" /\ planter = "off" /\ slipped = FALSE

\* A planter service that fails or is away is ignored (ForceSuccess).
Refused(p) == IF "planter" \in Faults THEN {p} ELSE {}
Started == {"on"} \cup Refused(planter)

\* Mutant: the planter is not told to stop.
MutStopped == {planter}

Stopped == {"off"} \cup Refused(IF planter = "off" THEN "off" ELSE "stuck")

\* Where the implement and the planter may be when a leaf is halted: its
\* service call may have been carried out or not.
Interrupted ==
    /\ lift' \in {lift} \cup (IF node = "lower" THEN {"down"}
                              ELSE IF node = "raise" THEN {"up"} ELSE {})
    /\ planter' \in {planter} \cup (IF node = "start" THEN {"on"}
                                    ELSE IF node \in {"stop", "halt"} THEN {"off"} ELSE {})

-----------------------------------------------------------------------------
\* The guard passes and the line starts at the stage the blackboard names;
\* the last line has no turn, so its turn stage completes the field.
TraverseLine ==
    /\ node \in {"tick", "wait"} /\ ~paused
    /\ IF stage = "turn" /\ CheckSkipTurn(line)
       THEN FieldComplete
       ELSE /\ node' = IF CheckStagePast(stage, "swath") THEN "turn"
                       ELSE IF CheckStagePast(stage, "approach") THEN "lower"
                       ELSE "approach"
            /\ UNCHANGED <<file, outcome>>
    /\ UNCHANGED <<boardVars, paused, worked, from, hwVars>>

ApproachDone ==
    /\ node = "approach" /\ ~paused
    /\ stage' = "swath" /\ node' = "lower"
    /\ UNCHANGED <<line, map, file, paused, outcome, worked, from, hwVars>>

LiftDown ==
    /\ node = "lower" /\ ~paused
    /\ lift' = "down" /\ node' = "start"
    /\ UNCHANGED <<boardVars, file, paused, outcome, worked, from, planter, slipped>>

StartPlanter ==
    /\ node = "start" /\ ~paused
    /\ planter' \in Started /\ node' = "swath"
    /\ UNCHANGED <<boardVars, file, paused, outcome, worked, from, lift, slipped>>

\* RunSwathAction succeeds: the line the map points belong to is worked.
SwathDone ==
    /\ node = "swath" /\ ~paused
    /\ worked' = worked \cup {map} /\ node' = "stop"
    /\ UNCHANGED <<boardVars, file, paused, outcome, from, hwVars>>

StopPlanter ==
    /\ node = "stop" /\ ~paused
    /\ planter' \in Stopped /\ node' = "raise"
    /\ UNCHANGED <<boardVars, file, paused, outcome, worked, from, lift, slipped>>

\* The implement is up: the stage becomes "turn", the progress is saved, and
\* the same tick goes on to the turn or, on the last line, to the end.
LiftUp ==
    /\ node = "raise" /\ ~paused
    /\ lift' = "up" /\ stage' = "turn"
    /\ \E w \in SaveResults(line, "turn") :
          \/ w.ret = "ok" /\ CheckSkipTurn(line) /\ FieldComplete
          \/ /\ w.ret = "ok" /\ ~CheckSkipTurn(line)
             /\ file' = w.file /\ node' = "turn" /\ UNCHANGED outcome
          \/ w.ret = "refused" /\ file' = w.file /\ End("failed")
          \/ w.ret = "crashed" /\ file' = w.file /\ End("crashed")
    /\ UNCHANGED <<line, map, paused, worked, from, planter, slipped>>

\* MoveSequence succeeds: next line, stage approach, save, convert.  A save
\* or a conversion that fails makes "Move to next line" fail, and the fallback
\* goes on to its other branch, "Field complete".
TurnDone ==
    /\ node = "turn" /\ ~paused
    /\ line' = line + 1 /\ stage' = "approach"
    /\ \E w \in SaveResults(line', "approach"), converted \in ConvertResults :
          \/ /\ w.ret = "ok" /\ converted
             /\ file' = w.file /\ map' = line' /\ node' = "tick"
             /\ UNCHANGED <<outcome, slipped>>
          \/ /\ w.ret = "refused" \/ (w.ret = "ok" /\ ~converted)
             /\ FieldComplete /\ slipped' = TRUE /\ UNCHANGED map
          \/ /\ w.ret = "crashed"
             /\ file' = w.file /\ End("crashed") /\ UNCHANGED <<map, slipped>>
    /\ UNCHANGED <<paused, worked, from, lift, planter>>

\* A leg's action or service fails: the line fails, the loop ends, and
\* field_complete is still 0.
LegFailed ==
    /\ node \in {"approach", "lower", "swath", "raise", "turn"} /\ ~paused
    /\ End("failed") /\ Interrupted
    /\ UNCHANGED <<boardVars, file, paused, worked, from, slipped>>

\* The guard hears the pause: the running leaf is halted, StopPlanter called.
PauseSeen ==
    /\ node \in Legs \cup {"tick"} /\ paused
    /\ node' = "halt" /\ Interrupted
    /\ UNCHANGED <<boardVars, file, paused, outcome, worked, from, slipped>>

\* The rest of "Save and wait"; a save that fails fails the guard.
SaveAndWait ==
    /\ node = "halt"
    /\ planter' \in Stopped
    /\ \E w \in SaveResults(line, stage) :
          /\ file' = w.file
          /\ \/ w.ret = "ok" /\ node' = "wait" /\ UNCHANGED outcome
             \/ w.ret = "refused" /\ End("failed")
             \/ w.ret = "crashed" /\ End("crashed")
    /\ UNCHANGED <<boardVars, paused, worked, from, lift, slipped>>

\* The operator cancels the goal, or the process dies.
Stop(o) ==
    /\ node # "idle" /\ End(o) /\ Interrupted
    /\ UNCHANGED <<boardVars, file, paused, worked, from, slipped>>

Goal ==
    /\ \E k \in -1 .. NLines : GoalReceived(k)
    /\ slipped' = FALSE /\ UNCHANGED <<lift, planter>>

PauseTopic ==
    /\ Pause \/ Unpause
    /\ UNCHANGED <<node, boardVars, file, outcome, worked, from, hwVars>>

Tree == TraverseLine \/ ApproachDone \/ LiftDown \/ StartPlanter \/ SwathDone
        \/ StopPlanter \/ LiftUp \/ TurnDone \/ LegFailed \/ PauseSeen \/ SaveAndWait
Next == Tree \/ Goal \/ PauseTopic \/ Stop("cancelled") \/ Stop("crashed")

\* The tree is ticked for as long as a mission runs, and its action and
\* service clients return sooner or later, with success or failure.
Spec == Init /\ [][Next]_vars /\ WF_vars(Tree)

-----------------------------------------------------------------------------
(***************************************************************************)
(* Properties.                                                             *)
(***************************************************************************)

\* Whatever pauses, cancels and crashes came before, the blackboard of a
\* running mission and the progress file never point past a line that was
\* not worked: no swath is passed over.
NoSwathSkipped ==
    /\ node # "idle" => Behind(line, stage)
    /\ file.kind = "saved" => Behind(file.line, file.stage)

\* The robot turns on the headland with the implement up, and with the planter
\* off unless a stop was refused; also when the turn is resumed from the file
\* after a mission that ended with the implement in the ground.
TurnsClear == node = "turn" => lift = "up" /\ planter # "on"

\* While the file is readable, a line whose end it records is never lowered
\* into again: neither a pause nor a resumed mission plants it twice.
NotWorkedTwice == node \in {"lower", "start", "swath"} => ~Recorded(line)

\* The progress a resume depends on only moves forward, until the file is
\* removed or torn: a pause never saves less than what was saved before.
ProgressAdvances ==
    [][file.kind = "saved" /\ file'.kind = "saved" =>
          \/ file'.line > file.line
          \/ file'.line = file.line /\ Order[file'.stage] >= Order[file.stage]]_vars

\* The tree works the field in order and reports completion only when all of
\* it was worked, but for the missions that slipped into "Field complete".
Order_ == INSTANCE FieldOrder WITH reported <- outcome = "succeeded" /\ ~slipped
ImplementsOrder == Order_!Spec

\* KeepRunningUntilFailure terminates: once the pauses are over every mission
\* ends, finished or failed.
MissionEnds == <>[](~paused) => []<>(node = "idle")

\* field_nav_hw.xml:169 calls the branch "Last line completed": a mission is
\* reported complete only when every line from its first one on was worked.
CompletedMeansWorked == outcome = "succeeded" => AllWorked
=============================================================================
