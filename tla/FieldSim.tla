------------------------------ MODULE FieldSim ------------------------------
(***************************************************************************)
(* The simulator's field tree, field_nav_sim.xml.  There is no implement;  *)
(* the headland turn has two legs, an arc into the headland and a hop to   *)
(* the next swath, and the line advances between them.  A pause halts the  *)
(* line without saving, and progress is saved at the end of the hop only.  *)
(***************************************************************************)
EXTENDS FieldMission

VARIABLE hopPaused  \* history: a pause halted a hop in this pass over the field

vars == <<fieldVars, hopPaused>>

Legs == {"approach", "swath", "arc", "hop"}
Nodes == Legs \cup {"idle", "tick", "wait"}

TypeOK ==
    /\ node \in Nodes /\ line \in Lines /\ stage \in Stages /\ map \in Lines
    /\ file \in Files /\ paused \in BOOLEAN /\ outcome \in Outcomes
    /\ worked \subseteq Lines /\ from \in Lines /\ hopPaused \in BOOLEAN

Init == FieldInit /\ hopPaused = FALSE

-----------------------------------------------------------------------------
\* The guard passes and the line starts at the stage the blackboard names.
TraverseLine ==
    /\ node \in {"tick", "wait"} /\ ~paused
    /\ IF stage = "turn" /\ CheckSkipTurn(line)
       THEN FieldComplete
       ELSE /\ node' = IF CheckStagePast(stage, "swath") THEN "arc"
                       ELSE IF CheckStagePast(stage, "approach") THEN "swath"
                       ELSE "approach"
            /\ UNCHANGED <<file, outcome>>
    /\ UNCHANGED <<boardVars, paused, worked, from, hopPaused>>

ApproachDone ==
    /\ node = "approach" /\ ~paused
    /\ stage' = "swath" /\ node' = "swath"
    /\ UNCHANGED <<line, map, file, paused, outcome, worked, from, hopPaused>>

\* The line the map points belong to is worked; the stage becomes "turn", and
\* the last line completes the field.
SwathDone ==
    /\ node = "swath" /\ ~paused
    /\ worked' = worked \cup {map} /\ stage' = "turn"
    /\ IF CheckSkipTurn(line) THEN FieldComplete
       ELSE node' = "arc" /\ UNCHANGED <<file, outcome>>
    /\ UNCHANGED <<line, map, paused, from, hopPaused>>

\* Mutant: the hop starts without the next line's points.
MutArcDone ==
    /\ node = "arc" /\ ~paused
    /\ line' = line + 1 /\ node' = "hop"
    /\ UNCHANGED <<stage, map, file, paused, outcome, worked, from, hopPaused>>

\* The arc is driven: the next line's points become the hop's goal, while the
\* stage stays "turn".
ArcDone ==
    /\ node = "arc" /\ ~paused
    /\ line' = line + 1
    /\ \E converted \in ConvertResults :
          \/ converted /\ map' = line' /\ node' = "hop" /\ UNCHANGED outcome
          \/ ~converted /\ End("failed") /\ UNCHANGED map
    /\ UNCHANGED <<stage, file, paused, worked, from, hopPaused>>

\* The hop is driven: stage approach, save, and the loop starts over.
HopDone ==
    /\ node = "hop" /\ ~paused
    /\ stage' = "approach"
    /\ \E w \in SaveResults(line, "approach") :
          /\ file' = w.file
          /\ \/ w.ret = "ok" /\ node' = "tick" /\ UNCHANGED outcome
             \/ w.ret = "refused" /\ End("failed")
             \/ w.ret = "crashed" /\ End("crashed")
    /\ UNCHANGED <<line, map, paused, worked, from, hopPaused>>

\* A planner or a controller fails, and the mission with it.
LegFailed ==
    /\ node \in Legs /\ ~paused /\ End("failed")
    /\ UNCHANGED <<boardVars, file, paused, worked, from, hopPaused>>

\* The guard hears the pause and the running leg is halted.
PauseSeen ==
    /\ node \in Legs \cup {"tick"} /\ paused
    /\ node' = "wait" /\ hopPaused' = (hopPaused \/ node = "hop")
    /\ UNCHANGED <<boardVars, file, paused, outcome, worked, from>>

\* The operator cancels the goal, or the process dies.
Stop(o) ==
    /\ node # "idle" /\ End(o)
    /\ UNCHANGED <<boardVars, file, paused, worked, from, hopPaused>>

Goal ==
    /\ \E k \in -1 .. NLines : GoalReceived(k)
    /\ hopPaused' = (hopPaused /\ file'.kind = "saved")

PauseTopic ==
    /\ Pause \/ Unpause
    /\ UNCHANGED <<node, boardVars, file, outcome, worked, from, hopPaused>>

Tree == TraverseLine \/ ApproachDone \/ SwathDone \/ ArcDone \/ HopDone
        \/ LegFailed \/ PauseSeen
Next == Tree \/ Goal \/ PauseTopic \/ Stop("cancelled") \/ Stop("crashed")
Spec == Init /\ [][Next]_vars /\ WF_vars(Tree)

-----------------------------------------------------------------------------
(***************************************************************************)
(* Properties.                                                             *)
(***************************************************************************)

\* Unless a pause fell into a hop, whatever crashes, failures and resumed
\* missions came before: the robot drives towards and along a swath only when
\* every line before it was worked, the file points at no later one, and a
\* field reported complete was worked in full.
OrderUnlessHopPaused ==
    ~hopPaused =>
       /\ node # "idle" => Behind(line, IF node = "hop" THEN "approach" ELSE stage)
       /\ file.kind = "saved" => Behind(file.line, file.stage)
       /\ outcome = "succeeded" => AllWorked

\* The map points always belong to the line the blackboard names when a leg
\* is driven: what is planted is the line the progress file will record.
DrivesItsLine == node \in Legs => map = line

\* Once the pauses are over every mission ends, finished or failed.
MissionEnds == <>[](~paused) => []<>(node = "idle")

\* field_nav_sim.xml:19-20 says that advancing inside the turn avoids "the
\* double-advance bug that skipped swath 1": the line index leaves a line only
\* when its swath was driven.
NoDoubleAdvance == [][node = "arc" /\ line' > line => line \in worked]_vars
=============================================================================
