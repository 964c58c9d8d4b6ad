----------------------------- MODULE FieldProofs -----------------------------
(***************************************************************************)
(* FieldHw's safety, for any number of lines and any set of faults.        *)
(*                                                                         *)
(* NoSwathSkipped is not inductive by itself: that a line is worked when   *)
(* its stage becomes "turn" depends on which leaf runs at which stage, and *)
(* that a resumed turn is clear depends on how far the file may lag behind *)
(* the blackboard.  Inv adds these facts, one named part each.             *)
(***************************************************************************)
EXTENDS FieldHw, TLAPS

\* The leaf that runs fits the stage, the points are the line's, and a swath
\* that was driven to its end is worked.
LeafFitsStage ==
    node # "idle" =>
        /\ map = line /\ outcome = "running"
        /\ node = "approach" => stage = "approach"
        /\ node \in {"lower", "start", "swath", "stop", "raise"} => stage = "swath"
        /\ node \in {"stop", "raise"} => line \in worked
        /\ node = "turn" => stage = "turn" /\ line # NLines - 1

\* Stage "turn", on the blackboard or on disk, means a raised implement and a
\* planter that is not left on; the planter was stopped before raising.
RaisedAtTurn ==
    /\ node = "raise" => planter # "on"
    /\ node # "idle" /\ stage = "turn" => lift = "up" /\ planter # "on"
    /\ file.kind = "saved" /\ file.stage = "turn" => lift = "up" /\ planter # "on"

\* During a mission a readable file names the line on the blackboard, at its
\* stage or an earlier one.
FileLags ==
    node # "idle" /\ file.kind = "saved" =>
        file.line = line /\ Order[file.stage] <= Order[stage]

Inv == TypeOK /\ NoSwathSkipped /\ LeafFitsStage /\ RaisedAtTurn /\ FileLags

-----------------------------------------------------------------------------
\* The stages and their order, as check_stage.cpp numbers them.
LEMMA StageOrder ==
    /\ Stages = {"approach", "swath", "turn"}
    /\ Order["approach"] = 0 /\ Order["swath"] = 1 /\ Order["turn"] = 2
BY DEF Stages, Order

\* A readable file holds a line and a stage; the others read as line 0.
LEMMA FileShapes ==
    ASSUME NEW f \in Files
    PROVE  /\ f.line \in Lines /\ f.stage \in Stages
           /\ f.kind # "saved" => f.line = 0 /\ f.stage = "approach"
<1>1. 0 \in Lines /\ "approach" \in Stages
  BY FieldAssumption, StageOrder DEF Lines
<1> QED  BY <1>1 DEF Files, NoFile, Torn

\* Fields of the files the model builds.
LEMMA BuiltFiles ==
    /\ NoFile.kind # "saved" /\ Torn.kind # "saved"
    /\ NoFile \in Files /\ Torn \in Files
    /\ \A l \in Lines, s \in Stages :
          /\ Saved(l, s) \in Files
          /\ Saved(l, s).kind = "saved" /\ Saved(l, s).line = l /\ Saved(l, s).stage = s
BY DEF NoFile, Torn, Saved, Files

\* What a save leaves on disk: what was asked for, what was there, or a file
\* that does not parse.
LEMMA SaveLeaves ==
    ASSUME NEW l \in Lines, NEW s \in Stages, NEW w \in SaveResults(l, s)
    PROVE  /\ w.file \in {Saved(l, s), file, Torn}
           /\ w.ret \in {"ok", "refused", "crashed"}
           /\ w.ret # "refused" => w.file \in {Saved(l, s), Torn}
           /\ w.ret = "refused" => w.file = file
           /\ w.ret = "crashed" => w.file = Torn
<1>1. \/ w = [ret |-> "ok", file |-> Saved(l, s)]
      \/ w = [ret |-> "refused", file |-> file]
      \/ w \in [ret : {"ok", "crashed"}, file : {Torn}]
  BY DEF SaveResults
<1> QED  BY <1>1

\* The initial state is one in which no mission runs and no file exists.
LEMMA InitInv == Init => Inv
<1> SUFFICES ASSUME Init PROVE Inv
  OBVIOUS
<1>1. 0 \in Lines
  BY FieldAssumption DEF Lines
<1>2. TypeOK
  BY <1>1, BuiltFiles, StageOrder DEF Init, FieldInit, TypeOK, Nodes, Outcomes
<1> QED  BY <1>2, BuiltFiles DEF Init, FieldInit, Inv, NoSwathSkipped, LeafFitsStage, RaisedAtTurn, FileLags

-----------------------------------------------------------------------------
(* One lemma per action: it preserves Inv.                                  *)

\* The guard passes: the leaf is chosen by the stage, or the field completes.
LEMMA TraverseLineInv == Inv /\ TraverseLine => Inv'
<1> SUFFICES ASSUME Inv, TraverseLine PROVE Inv'
  OBVIOUS
<1> USE StageOrder, BuiltFiles DEF Inv, Legs, TraverseLine, boardVars, hwVars, FieldComplete, End
<1>1. TypeOK'
  BY DEF TypeOK, Nodes, Legs, Outcomes
<1>2. NoSwathSkipped'
  BY DEF TypeOK, NoSwathSkipped, Behind
<1>3. LeafFitsStage'
  BY DEF TypeOK, LeafFitsStage, CheckStagePast, CheckSkipTurn
<1>4. RaisedAtTurn'
  BY DEF TypeOK, RaisedAtTurn
<1>5. FileLags'
  BY DEF TypeOK, FileLags
<1> QED  BY <1>1, <1>2, <1>3, <1>4, <1>5

\* The stage moves on to the swath, ahead of the file.
LEMMA ApproachDoneInv == Inv /\ ApproachDone => Inv'
<1> SUFFICES ASSUME Inv, ApproachDone PROVE Inv'
  OBVIOUS
<1> USE StageOrder, BuiltFiles DEF Inv, ApproachDone, boardVars, hwVars
<1>1. TypeOK'
  BY DEF TypeOK, Nodes, Legs, Outcomes
<1>2. NoSwathSkipped'
  BY DEF TypeOK, NoSwathSkipped, LeafFitsStage, Behind
<1>3. LeafFitsStage'
  BY DEF TypeOK, LeafFitsStage
<1>4. RaisedAtTurn'
  BY DEF TypeOK, RaisedAtTurn, LeafFitsStage, FileLags
<1>5. FileLags'
  BY FileShapes DEF TypeOK, FileLags, LeafFitsStage
<1> QED  BY <1>1, <1>2, <1>3, <1>4, <1>5

\* The implement goes down at stage swath, when no file says turn.
LEMMA LiftDownInv == Inv /\ LiftDown => Inv'
<1> SUFFICES ASSUME Inv, LiftDown PROVE Inv'
  OBVIOUS
<1> USE StageOrder, BuiltFiles DEF Inv, LiftDown, boardVars, hwVars
<1>1. TypeOK'
  BY DEF TypeOK, Nodes, Legs, Outcomes
<1>2. NoSwathSkipped'
  BY DEF TypeOK, NoSwathSkipped, LeafFitsStage, Behind
<1>3. LeafFitsStage'
  BY DEF TypeOK, LeafFitsStage
<1>4. RaisedAtTurn'
  BY DEF TypeOK, RaisedAtTurn, LeafFitsStage, FileLags
<1>5. FileLags'
  BY DEF TypeOK, FileLags, LeafFitsStage
<1> QED  BY <1>1, <1>2, <1>3, <1>4, <1>5

\* The planter starts at stage swath, when no file says turn.
LEMMA StartPlanterInv == Inv /\ StartPlanter => Inv'
<1> SUFFICES ASSUME Inv, StartPlanter PROVE Inv'
  OBVIOUS
<1> USE StageOrder, BuiltFiles DEF Inv, StartPlanter, boardVars, hwVars, Started, Refused
<1>1. TypeOK'
  BY DEF TypeOK, Nodes, Legs, Outcomes
<1>2. NoSwathSkipped'
  BY DEF TypeOK, NoSwathSkipped, LeafFitsStage, Behind
<1>3. LeafFitsStage'
  BY DEF TypeOK, LeafFitsStage
<1>4. RaisedAtTurn'
  BY DEF TypeOK, RaisedAtTurn, LeafFitsStage, FileLags
<1>5. FileLags'
  BY DEF TypeOK, FileLags, LeafFitsStage
<1> QED  BY <1>1, <1>2, <1>3, <1>4, <1>5

\* The points are the line's own, so it is the line that is worked.
LEMMA SwathDoneInv == Inv /\ SwathDone => Inv'
<1> SUFFICES ASSUME Inv, SwathDone PROVE Inv'
  OBVIOUS
<1> USE StageOrder, BuiltFiles DEF Inv, SwathDone, boardVars, hwVars
<1>1. TypeOK'
  BY DEF TypeOK, Nodes, Legs, Outcomes
<1>2. NoSwathSkipped'
  BY DEF TypeOK, NoSwathSkipped, LeafFitsStage, Behind
<1>3. LeafFitsStage'
  BY DEF TypeOK, LeafFitsStage
<1>4. RaisedAtTurn'
  BY DEF TypeOK, RaisedAtTurn, LeafFitsStage, FileLags
<1>5. FileLags'
  BY DEF TypeOK, FileLags, LeafFitsStage
<1> QED  BY <1>1, <1>2, <1>3, <1>4, <1>5

\* A stop leaves the planter off or stuck, never on.
LEMMA StopPlanterInv == Inv /\ StopPlanter => Inv'
<1> SUFFICES ASSUME Inv, StopPlanter PROVE Inv'
  OBVIOUS
<1> USE StageOrder, BuiltFiles DEF Inv, StopPlanter, boardVars, hwVars, Stopped, Refused
<1>1. TypeOK'
  BY DEF TypeOK, Nodes, Legs, Outcomes
<1>2. NoSwathSkipped'
  BY DEF TypeOK, NoSwathSkipped, LeafFitsStage, Behind
<1>3. LeafFitsStage'
  BY DEF TypeOK, LeafFitsStage
<1>4. RaisedAtTurn'
  BY DEF TypeOK, RaisedAtTurn, LeafFitsStage, FileLags
<1>5. FileLags'
  BY DEF TypeOK, FileLags, LeafFitsStage
<1> QED  BY <1>1, <1>2, <1>3, <1>4, <1>5

\* A leg that fails ends the mission and leaves the file alone.
LEMMA LegFailedInv == Inv /\ LegFailed => Inv'
<1> SUFFICES ASSUME Inv, LegFailed PROVE Inv'
  OBVIOUS
<1> USE StageOrder, BuiltFiles DEF Inv, LegFailed, boardVars, hwVars, Interrupted, End
<1>1. TypeOK'
  BY DEF TypeOK, Nodes, Legs, Outcomes
<1>2. NoSwathSkipped'
  BY DEF TypeOK, NoSwathSkipped, LeafFitsStage, Behind
<1>3. LeafFitsStage'
  BY DEF TypeOK, LeafFitsStage
<1>4. RaisedAtTurn'
  BY DEF TypeOK, RaisedAtTurn, LeafFitsStage, FileLags
<1>5. FileLags'
  BY DEF TypeOK, FileLags, LeafFitsStage
<1> QED  BY <1>1, <1>2, <1>3, <1>4, <1>5

\* A halted leaf leaves the stage and the file alone.
LEMMA PauseSeenInv == Inv /\ PauseSeen => Inv'
<1> SUFFICES ASSUME Inv, PauseSeen PROVE Inv'
  OBVIOUS
<1> USE StageOrder, BuiltFiles DEF Inv, PauseSeen, Legs, boardVars, hwVars, Interrupted
<1>1. TypeOK'
  BY DEF TypeOK, Nodes, Legs, Outcomes
<1>2. NoSwathSkipped'
  BY DEF TypeOK, NoSwathSkipped, LeafFitsStage, Behind
<1>3. LeafFitsStage'
  BY DEF TypeOK, LeafFitsStage
<1>4. RaisedAtTurn'
  BY DEF TypeOK, RaisedAtTurn, LeafFitsStage, FileLags
<1>5. FileLags'
  BY DEF TypeOK, FileLags, LeafFitsStage
<1> QED  BY <1>1, <1>2, <1>3, <1>4, <1>5

\* The implement is up before the stage or the file says turn, and the line
\* it says it of was worked.
LEMMA LiftUpInv == Inv /\ LiftUp => Inv'
<1> SUFFICES ASSUME Inv, LiftUp PROVE Inv'
  OBVIOUS
<1> USE StageOrder, BuiltFiles DEF Inv, LiftUp, FieldComplete, End
<1>1. node = "raise" /\ stage = "swath" /\ line \in Lines /\ line \in worked /\ map = line
  BY DEF LeafFitsStage, TypeOK
<1>2. planter \in {"off", "on", "stuck"} /\ planter' = planter /\ lift' = "up" /\ stage' = "turn"
  BY DEF TypeOK
<1>3. PICK w \in SaveResults(line, "turn") :
          \/ w.ret = "ok" /\ CheckSkipTurn(line) /\ FieldComplete
          \/ /\ w.ret = "ok" /\ ~CheckSkipTurn(line)
             /\ file' = w.file /\ node' = "turn" /\ UNCHANGED outcome
          \/ w.ret = "refused" /\ file' = w.file /\ End("failed")
          \/ w.ret = "crashed" /\ file' = w.file /\ End("crashed")
  OBVIOUS
<1>4. /\ w.file \in {Saved(line, "turn"), file, Torn}
      /\ w.ret # "refused" => w.file \in {Saved(line, "turn"), Torn}
      /\ w.ret = "refused" => w.file = file
  BY <1>1, SaveLeaves
<1>5. /\ file' \in {Saved(line, "turn"), Torn, NoFile, file}
      /\ node' \in {"idle", "turn"} /\ outcome' \in Outcomes
      /\ node' = "turn" => /\ file' \in {Saved(line, "turn"), Torn}
                           /\ line # NLines - 1 /\ outcome' = "running"
  BY <1>1, <1>3, <1>4 DEF Outcomes, LeafFitsStage, CheckSkipTurn
<1>6. file.kind = "saved" => file.line = line /\ file.stage # "turn"
  BY <1>1, FileShapes DEF FileLags, TypeOK
<1>7. TypeOK'
  BY <1>1, <1>2, <1>5 DEF TypeOK, Nodes, Legs
<1>8. NoSwathSkipped'
  BY <1>1, <1>5 DEF NoSwathSkipped, Behind, TypeOK
<1>9. LeafFitsStage'
  BY <1>1, <1>5 DEF LeafFitsStage
<1>10. RaisedAtTurn'
  BY <1>1, <1>2, <1>5, <1>6 DEF RaisedAtTurn
<1>11. FileLags'
  BY <1>1, <1>5 DEF FileLags
<1> QED  BY <1>7, <1>8, <1>9, <1>10, <1>11

\* The next line is reached with this one worked; the save puts the file at
\* the same place, and a failure ends the mission.
LEMMA TurnDoneInv == Inv /\ TurnDone => Inv'
<1> SUFFICES ASSUME Inv, TurnDone PROVE Inv'
  OBVIOUS
<1> USE StageOrder, BuiltFiles DEF Inv, TurnDone, FieldComplete, End
<1>1. node = "turn" /\ stage = "turn" /\ map = line /\ outcome = "running"
  BY DEF LeafFitsStage
<1>2. line \in worked /\ line' = line + 1 /\ line' \in Lines /\ stage' = "approach"
  BY <1>1, FieldAssumption DEF LeafFitsStage, NoSwathSkipped, Behind, TypeOK, Lines
<1>3. /\ Behind(line', "approach") /\ UNCHANGED <<worked, from, lift, planter, paused>>
  BY <1>1, <1>2 DEF NoSwathSkipped, Behind, TypeOK, Lines
<1>4. PICK w \in SaveResults(line', "approach"), converted \in ConvertResults :
          \/ /\ w.ret = "ok" /\ converted
             /\ file' = w.file /\ map' = line' /\ node' = "tick"
             /\ UNCHANGED <<outcome, slipped>>
          \/ /\ w.ret = "refused" \/ (w.ret = "ok" /\ ~converted)
             /\ FieldComplete /\ slipped' = TRUE /\ UNCHANGED map
          \/ /\ w.ret = "crashed"
             /\ file' = w.file /\ End("crashed") /\ UNCHANGED <<map, slipped>>
  OBVIOUS
<1>5. w.ret # "refused" => w.file \in {Saved(line', "approach"), Torn}
  BY <1>2, SaveLeaves
<1>6. /\ file' \in {Saved(line', "approach"), Torn, NoFile}
      /\ node' \in {"idle", "tick"} /\ outcome' \in Outcomes
      /\ map' \in {map, line'} /\ slipped' \in {slipped, TRUE}
      /\ node' = "tick" => map' = line' /\ outcome' = "running"
  BY <1>1, <1>4, <1>5 DEF Outcomes
<1> HIDE DEF TurnDone
<1>7. TypeOK'
  <2>1. paused' \in BOOLEAN /\ slipped' \in BOOLEAN
    BY <1>3, <1>6, Zenon DEF TypeOK
  <2>2. file' \in Files /\ map' \in Lines /\ stage' \in Stages
    BY <1>2, <1>6 DEF TypeOK
  <2>3. /\ worked' \subseteq Lines /\ from' \in Lines
        /\ lift' \in {"up", "down"} /\ planter' \in {"off", "on", "stuck"}
    BY <1>3 DEF TypeOK
  <2> QED  BY <1>2, <1>6, <2>1, <2>2, <2>3 DEF TypeOK, Nodes
<1>8. NoSwathSkipped'
  BY <1>2, <1>3, <1>6 DEF NoSwathSkipped, Behind
<1>9. LeafFitsStage'
  BY <1>6 DEF LeafFitsStage
<1>10. RaisedAtTurn'
  BY <1>2, <1>6 DEF RaisedAtTurn
<1>11. FileLags'
  BY <1>2, <1>6 DEF FileLags
<1> QED  BY <1>7, <1>8, <1>9, <1>10, <1>11

\* The pause saves the line and stage of the blackboard, after a stop.
LEMMA SaveAndWaitInv == Inv /\ SaveAndWait => Inv'
<1> SUFFICES ASSUME Inv, SaveAndWait PROVE Inv'
  OBVIOUS
<1> USE StageOrder, BuiltFiles DEF Inv, SaveAndWait, boardVars, End
<1>1. /\ node = "halt" /\ outcome = "running" /\ map = line
      /\ UNCHANGED <<line, stage, map, paused, worked, from, lift, slipped>>
  BY DEF LeafFitsStage
<1>2. planter' \in {"off", "stuck"}
  BY DEF TypeOK, Stopped, Refused
<1>3. file' \in {Saved(line, stage), file, Torn} /\ node' \in {"wait", "idle"}
      /\ outcome' \in Outcomes /\ (node' = "wait" => outcome' = "running")
      /\ (node' = "wait" => file' \in {Saved(line, stage), Torn})
  BY <1>1, SaveLeaves DEF TypeOK, Outcomes
<1> HIDE DEF SaveAndWait
<1>4. TypeOK'
  BY <1>1, <1>2, <1>3 DEF TypeOK, Nodes
<1>5. NoSwathSkipped'
  BY <1>1, <1>3 DEF NoSwathSkipped, Behind, TypeOK
<1>6. LeafFitsStage'
  BY <1>1, <1>3 DEF LeafFitsStage
<1>7. RaisedAtTurn'
  BY <1>1, <1>2, <1>3 DEF RaisedAtTurn, TypeOK
<1>8. FileLags'
  BY <1>1, <1>3 DEF FileLags, TypeOK
<1> QED  BY <1>4, <1>5, <1>6, <1>7, <1>8

\* A cancelled or crashed mission leaves the blackboard and the file alone.
LEMMA StopInv ==
    ASSUME NEW o \in {"cancelled", "crashed"}, Inv, Stop(o)
    PROVE  Inv'
<1> USE StageOrder, BuiltFiles DEF Inv, Stop, boardVars, Interrupted, End
<1>1. TypeOK'
  BY DEF TypeOK, Nodes, Outcomes
<1>2. NoSwathSkipped'
  BY DEF NoSwathSkipped, Behind
<1>3. LeafFitsStage' /\ FileLags'
  BY DEF LeafFitsStage, FileLags
<1>4. RaisedAtTurn'
  BY DEF TypeOK, RaisedAtTurn, LeafFitsStage, FileLags
<1> QED  BY <1>1, <1>2, <1>3, <1>4

\* A goal starts where the file says, or with nothing worked and no file read.
LEMMA GoalInv == Inv /\ Goal => Inv'
<1> SUFFICES ASSUME Inv, Goal PROVE Inv'
  OBVIOUS
<1> USE StageOrder, BuiltFiles DEF Inv, Goal, End
<1>1. PICK k \in -1 .. NLines : GoalReceived(k)
  OBVIOUS
<1>2. 0 \in Lines /\ StartLine(k) \in Lines
  BY FieldAssumption DEF Lines, StartLine
<1>3. /\ file' \in {file, NoFile} /\ UNCHANGED <<lift, planter, paused>> /\ slipped' = FALSE
      /\ node = "idle" /\ node' \in {"idle", "tick"}
      /\ map' \in {map, line'} /\ outcome' \in Outcomes
      /\ node' = "tick" => map' = line' /\ outcome' = "running"
  BY <1>1 DEF GoalReceived, Outcomes
<1>4. \/ /\ file' = file /\ file.kind = "saved" /\ line' = file.line /\ stage' = file.stage
         /\ worked' = worked /\ from' = from
      \/ /\ file'.kind # "saved" /\ stage' = "approach"
         /\ line' = StartLine(k) /\ from' = StartLine(k) /\ worked' = {}
  BY <1>1 DEF GoalReceived
<1>5. TypeOK'
  <2>1. paused' \in BOOLEAN /\ slipped' \in BOOLEAN
    BY <1>3, Zenon DEF TypeOK
  <2>2. file' \in Files /\ line' \in Lines /\ stage' \in Stages /\ map' \in Lines
    BY <1>2, <1>3, <1>4, FileShapes DEF TypeOK
  <2>3. /\ worked' \subseteq Lines /\ from' \in Lines
        /\ lift' \in {"up", "down"} /\ planter' \in {"off", "on", "stuck"}
    BY <1>2, <1>3, <1>4 DEF TypeOK
  <2> QED  BY <1>3, <2>1, <2>2, <2>3 DEF TypeOK, Nodes
<1>6. NoSwathSkipped'
  BY <1>2, <1>3, <1>4 DEF NoSwathSkipped, Behind, Lines
<1>7. LeafFitsStage'
  BY <1>3 DEF LeafFitsStage
<1>8. RaisedAtTurn'
  BY <1>3, <1>4 DEF RaisedAtTurn
<1>9. FileLags'
  BY <1>3, <1>4, FileShapes DEF FileLags, TypeOK
<1> QED  BY <1>5, <1>6, <1>7, <1>8, <1>9

-----------------------------------------------------------------------------
\* Pausing and resuming the topic touches nothing else.
LEMMA PauseTopicInv == Inv /\ PauseTopic => Inv'
<1> SUFFICES ASSUME Inv, PauseTopic PROVE Inv'
  OBVIOUS
<1> USE DEF Inv, PauseTopic, Pause, Unpause, boardVars, hwVars
<1>1. TypeOK'
  BY DEF TypeOK
<1>2. NoSwathSkipped' /\ LeafFitsStage'
  BY DEF NoSwathSkipped, Behind, LeafFitsStage
<1>3. RaisedAtTurn' /\ FileLags'
  BY DEF RaisedAtTurn, FileLags
<1> QED  BY <1>1, <1>2, <1>3

\* A step that leaves every variable alone.
LEMMA StutterInv == Inv /\ UNCHANGED vars => Inv'
BY DEF vars, fieldVars, hwVars, Inv, TypeOK, NoSwathSkipped, Behind, LeafFitsStage, RaisedAtTurn, FileLags

LEMMA NextInv == Inv /\ [Next]_vars => Inv'
<1> SUFFICES ASSUME Inv, [Next]_vars PROVE Inv'
  OBVIOUS
<1>1. CASE Tree
  BY <1>1, TraverseLineInv, ApproachDoneInv, LiftDownInv, StartPlanterInv, SwathDoneInv,
     StopPlanterInv, LiftUpInv, TurnDoneInv, LegFailedInv, PauseSeenInv, SaveAndWaitInv DEF Tree
<1>2. CASE Goal
  BY <1>2, GoalInv
<1>3. CASE PauseTopic
  BY <1>3, PauseTopicInv
<1>4. CASE Stop("cancelled")
  BY <1>4, StopInv
<1>5. CASE Stop("crashed")
  BY <1>5, StopInv
<1>6. CASE UNCHANGED vars
  BY <1>6, StutterInv
<1> QED  BY <1>1, <1>2, <1>3, <1>4, <1>5, <1>6 DEF Next

\* Inv holds in every reachable state of the hardware tree.
THEOREM HwInv == Spec => []Inv
BY InitInv, NextInv, PTL DEF Spec

\* Every variable keeps its type: the line never leaves the field, so neither
\* goalReceived nor NextFieldLine indexes field_lines out of range.
THEOREM HwTypeOK == Spec => []TypeOK
<1>1. Inv => TypeOK
  BY DEF Inv
<1> QED  BY <1>1, HwInv, PTL

\* No pause, cancel, crash, failure or resumed mission passes over a swath.
THEOREM HwNoSwathSkipped == Spec => []NoSwathSkipped
<1>1. Inv => NoSwathSkipped
  BY DEF Inv
<1> QED  BY <1>1, HwInv, PTL

\* The headland is driven with the implement up and the planter not left on.
THEOREM HwTurnsClear == Spec => []TurnsClear
<1>1. Inv => TurnsClear
  BY DEF Inv, LeafFitsStage, RaisedAtTurn, TurnsClear
<1> QED  BY <1>1, HwInv, PTL

\* The implement is not lowered into a line the file records as worked.
THEOREM HwNotWorkedTwice == Spec => []NotWorkedTwice
<1>1. Inv => NotWorkedTwice
  BY StageOrder DEF Inv, TypeOK, Lines, LeafFitsStage, FileLags, NotWorkedTwice, Recorded
<1> QED  BY <1>1, HwInv, PTL

-----------------------------------------------------------------------------
\* A readable file that stays readable moves forward only.
LEMMA FileStep == Inv /\ [Next]_vars =>
                     [file.kind = "saved" /\ file'.kind = "saved" =>
                        \/ file'.line > file.line
                        \/ file'.line = file.line /\ Order[file'.stage] >= Order[file.stage]]_vars
<1> SUFFICES ASSUME Inv, Next, file.kind = "saved", file'.kind = "saved"
             PROVE  \/ file'.line > file.line
                    \/ file'.line = file.line /\ Order[file'.stage] >= Order[file.stage]
  BY DEF vars
<1>1. /\ file.line \in Lines /\ file.stage \in Stages /\ line \in Lines /\ stage \in Stages
      /\ node # "idle" => file.line = line /\ Order[file.stage] <= Order[stage]
  BY FileShapes DEF Inv, TypeOK, FileLags
<1>2. file' = file => Order[file'.stage] >= Order[file.stage] /\ file'.line = file.line
  BY <1>1, StageOrder
<1>3. CASE LiftUp
  <2>1. file' \in {Saved(line, "turn"), file, Torn, NoFile} /\ node # "idle"
    BY <1>1, <1>3, SaveLeaves, StageOrder DEF LiftUp, FieldComplete
  <2> QED  BY <1>1, <1>2, <2>1, BuiltFiles, StageOrder
<1>4. CASE TurnDone
  <2>1. line' = line + 1 /\ line' \in Lines /\ node # "idle"
    BY <1>4, NextInv DEF TurnDone, Inv, TypeOK
  <2>2. file' \in {Saved(line', "approach"), Torn, NoFile}
    BY <1>4, <2>1, SaveLeaves, StageOrder DEF TurnDone, FieldComplete
  <2> QED  BY <1>1, <2>1, <2>2, BuiltFiles, StageOrder DEF Lines
<1>5. CASE SaveAndWait
  <2>1. file' \in {Saved(line, stage), file, Torn} /\ node # "idle"
    BY <1>1, <1>5, SaveLeaves DEF SaveAndWait
  <2> QED  BY <1>1, <1>2, <2>1, BuiltFiles, StageOrder
<1>6. CASE Goal
  BY <1>2, <1>6, BuiltFiles DEF Goal, GoalReceived
<1>7. CASE TraverseLine
  BY <1>2, <1>7, BuiltFiles DEF TraverseLine, FieldComplete
<1>8. CASE \/ ApproachDone \/ LiftDown \/ StartPlanter \/ SwathDone \/ StopPlanter
           \/ LegFailed \/ PauseSeen \/ PauseTopic \/ Stop("cancelled") \/ Stop("crashed")
  BY <1>2, <1>8 DEF ApproachDone, LiftDown, StartPlanter, SwathDone, StopPlanter, LegFailed,
     PauseSeen, PauseTopic, Stop
<1> QED  BY <1>3, <1>4, <1>5, <1>6, <1>7, <1>8 DEF Next, Tree

\* The record a resume depends on never moves back while it is readable.
THEOREM HwProgressAdvances == Spec => ProgressAdvances
<1>1. Inv /\ [Next]_vars =>
        [file.kind = "saved" /\ file'.kind = "saved" =>
           \/ file'.line > file.line
           \/ file'.line = file.line /\ Order[file'.stage] >= Order[file.stage]]_vars
  BY FileStep
<1> QED  BY <1>1, HwInv, PTL DEF Spec, ProgressAdvances

-----------------------------------------------------------------------------
(***************************************************************************)
(* The tree implements FieldOrder: driving a swath is Work, completing the *)
(* field is Report, a goal is Begin, everything else stutters.             *)
(***************************************************************************)
LEMMA OrderInit == Init => Order_!Init
BY DEF Init, FieldInit, Order_!Init

\* At the end of the last line's swath every line was worked.
LEMMA LastLineCompletes ==
    ASSUME Inv, line = NLines - 1, Behind(line, "turn")
    PROVE  \A j \in Lines : j >= from => j \in worked
BY FieldAssumption DEF Inv, TypeOK, Lines, Behind

LEMMA OrderStep == Inv /\ [Next]_vars => [Order_!Next]_(Order_!vars)
<1> SUFFICES ASSUME Inv, [Next]_vars PROVE Order_!Next \/ UNCHANGED Order_!vars
  OBVIOUS
<1> USE DEF Order_!Next, Order_!vars
<1>1. node # "idle" => /\ outcome = "running" /\ map = line /\ Behind(line, stage)
                       /\ node = "raise" => line \in worked
  BY DEF Inv, LeafFitsStage, NoSwathSkipped
<1>2. CASE SwathDone
  <2>1. map \in Lines /\ outcome = "running" /\ \A j \in Lines : j \in from .. map - 1 => j \in worked
    BY <1>1, <1>2 DEF SwathDone, Inv, TypeOK, Behind
  <2>2. worked' = worked \cup {map} /\ UNCHANGED <<from, outcome, slipped>>
    BY <1>2 DEF SwathDone, hwVars
  <2>3. Order_!Work(map)
    BY <2>1, <2>2 DEF Order_!Work, Order_!Lines, Lines
  <2> QED  BY <2>1, <2>3 DEF Order_!Lines, Lines
<1>3. CASE TraverseLine
  <2>1. CASE stage = "turn" /\ CheckSkipTurn(line)
    <3>1. \A j \in Lines : j >= from => j \in worked
      BY <1>1, <1>3, <2>1, LastLineCompletes DEF TraverseLine, CheckSkipTurn
    <3>2. UNCHANGED <<from, worked, slipped>> /\ outcome' = "succeeded"
      BY <1>3, <2>1 DEF TraverseLine, FieldComplete, End, hwVars
    <3>3. CASE slipped
      BY <1>1, <1>3, <3>2, <3>3 DEF TraverseLine
    <3>4. CASE ~slipped
      BY <3>1, <3>2, <3>4 DEF Order_!Report, Order_!Lines, Lines
    <3> QED  BY <3>3, <3>4
  <2>2. CASE ~(stage = "turn" /\ CheckSkipTurn(line))
    BY <1>3, <2>2 DEF TraverseLine, hwVars
  <2> QED  BY <2>1, <2>2
<1>4. CASE LiftUp
  <2>1. UNCHANGED <<from, worked, slipped>> /\ node = "raise"
    BY <1>4 DEF LiftUp
  <2>2. CASE outcome' = "succeeded"
    <3>1. line = NLines - 1
      BY <1>1, <1>4, <2>2 DEF LiftUp, CheckSkipTurn, End
    <3>2. Behind(line, "turn")
      BY <1>1, <2>1 DEF Behind
    <3>3. \A j \in Lines : j >= from => j \in worked
      BY <3>1, <3>2, LastLineCompletes
    <3>4. CASE slipped
      BY <1>1, <2>1, <3>4
    <3>5. CASE ~slipped
      BY <2>1, <2>2, <3>3, <3>5 DEF Order_!Report, Order_!Lines, Lines
    <3> QED  BY <3>4, <3>5
  <2>3. CASE outcome' # "succeeded"
    BY <1>1, <2>1, <2>3
  <2> QED  BY <2>2, <2>3
<1>5. CASE TurnDone
  <2>1. UNCHANGED <<from, worked>> /\ outcome # "succeeded"
    BY <1>1, <1>5 DEF TurnDone
  <2>2. outcome' = "succeeded" => slipped'
    BY <1>1, <1>5 DEF TurnDone, FieldComplete, End
  <2> QED  BY <2>1, <2>2
<1>6. CASE Goal
  <2>1. outcome' # "succeeded"
    BY <1>6 DEF Goal, GoalReceived
  <2>2. UNCHANGED <<from, worked>> \/ (from' \in Lines /\ worked' = {})
    BY <1>6, FieldAssumption DEF Goal, GoalReceived, StartLine, Lines
  <2> QED  BY <2>1, <2>2 DEF Order_!Begin, Order_!Lines, Lines
<1>7. CASE LegFailed \/ SaveAndWait \/ Stop("cancelled") \/ Stop("crashed")
  <2>1. UNCHANGED <<from, worked, slipped>> /\ node # "idle"
    BY <1>7 DEF LegFailed, SaveAndWait, Stop
  <2>2. outcome' \in {"failed", "crashed", "cancelled", outcome}
    BY <1>7 DEF LegFailed, SaveAndWait, Stop, End
  <2> QED  BY <1>1, <2>1, <2>2
<1>8. CASE ApproachDone \/ LiftDown \/ StartPlanter \/ StopPlanter \/ PauseSeen \/ PauseTopic
  BY <1>8 DEF ApproachDone, LiftDown, StartPlanter, StopPlanter, PauseSeen, PauseTopic, hwVars
<1>9. CASE UNCHANGED vars
  BY <1>9 DEF vars, fieldVars, hwVars
<1> QED  BY <1>2, <1>3, <1>4, <1>5, <1>6, <1>7, <1>8, <1>9 DEF Next, Tree

\* The hardware tree implements the abstract field order, for any field.
THEOREM HwImplementsOrder == Spec => ImplementsOrder
<1>1. Init => Order_!Init
  BY OrderInit
<1>2. Inv /\ [Next]_vars => [Order_!Next]_(Order_!vars)
  BY OrderStep
<1> QED  BY <1>1, <1>2, HwInv, PTL DEF Spec, ImplementsOrder, Order_!Spec

=============================================================================
