SPECIFICATION Spec
CONSTANTS
    MaxSegments = 3
    MaxSteps = 2
    Leadout = 1
    Resolution = 2
    Reach = 4
    MaxRsPoses = 4
    Ahead = 3
    Back = 2
    DesiredV = 2
    MinApproach = 1
    ApproachDist = 3
    MinLook = 2
    MaxLook = 4
    SpeedLimits <- RsLimits
    HalfTurn = 5
    MaxAngle = 5
    MaxTurn = 2
    Allowance = 6
    SliderLimit = 1
    CalOffset = 1
    LostTimeout = 1
    SliderDepth = 2
    Lines = {"a", "b"}
    Nowhere = "zero"
    Sides = {"", "left", "up"}
    SwathLengths = {3}
    Bends <- PlanBends
    MaxSide = 2
    KpNear = 1
    KpMid = 2
    KpFar = 2
    Ki = 1
    Kd = 1
    KiClamp = 2
    EntryIgnore = 1
    NearLine = 1
    MidLine = 2
    LineV = 4
    LineMinV = 2
    SlowDist = 2
    SlowV = 3
    MaxAngular = 4
    LineLimits <- ToolLimits
    MaxGap = 2
    LineFiles <- LinesOfFiles
    PauseDepth = 1
    Fields <- FieldFiles
    EndPoses <- SwathEnds
INVARIANTS NavTypeOK PlansReachGoalOrMirror SwathsAlternate DrivesOwnLine FieldLinesOK
PROPERTIES TurnJoins FollowsSegments ArcIsDriven BarHolds ToolIsSteered
