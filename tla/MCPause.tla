------------------------------- MODULE MCPause -------------------------------
(* Two conditions of the drive and one operator.  The drive's GPS condition *)
(* is the one drive.py reports; "critical" is a report of another component *)
(* under the same id, which a report's severity field allows.               *)
EXTENDS PauseManager

DriveReports ==
    {[id |-> "gps", severity |-> MEDIUM, auto |-> TRUE],
     [id |-> "gps", severity |-> CRITICAL, auto |-> FALSE],
     [id |-> "wheel", severity |-> HIGH, auto |-> TRUE],
     [id |-> "wheel", severity |-> LOW, auto |-> TRUE]}

DriveMatches == [p \in {"gps", "drive*"} |-> IF p = "gps" THEN {"gps"} ELSE {"gps", "wheel"}]

DriveFilters == {{"gps", "wheel", "operator"}, {"wheel"}}
=============================================================================
