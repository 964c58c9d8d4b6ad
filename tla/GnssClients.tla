---------------------------- MODULE GnssClients -----------------------------
(***************************************************************************)
(* The two nodes beside the GNSS driver: the NTRIP client, whose thread    *)
(* streams corrections from a caster until the node is destroyed, and the  *)
(* node that joins the driver's position, covariance and status into one   *)
(* fix.                                                                    *)
(***************************************************************************)
EXTENDS Integers, Sequences

CONSTANTS DesiredCount, \* desiredCount, after which a stream is cut
          NedCovs,      \* covariances, as 3 x 3 matrices in north, east, down
          FixTypes      \* fix types of the receiver -> whether they are a fix

ASSUME ClientsAssumption ==
    /\ DesiredCount \in Nat \ {0}
    /\ \A c \in NedCovs : \A i, j \in 1 .. 3 : c[i][j] \in Int /\ c[i][j] = c[j][i]

VARIABLES
    node,          \* the NTRIP node: "runs", "destroyed" (in its destructor) or "joined"
    streamingExit, \* streaming_exit_
    streaming,     \* DoStreaming(): at its loop's condition, performing, asleep or over
    recordCount,   \* recordCount of WriteCallback(), which outlives a stream
    enuPosCov,     \* enu_pos_cov_
    haveCov,       \* have_recd_enu_pos_cov_
    navStat,       \* nav_sat_stat_
    fix,           \* the fix published last
    lastCov,       \* the covariance received last (not a variable of the code)
    lastStatus     \* and the status (neither)

ntripVars == <<node, streamingExit, streaming, recordCount>>
fixVars == <<enuPosCov, haveCov, navStat, fix, lastCov, lastStatus>>
clientVars == <<ntripVars, fixVars>>

Zero == [i \in 1 .. 3 |-> [j \in 1 .. 3 |-> 0]]

ClientsInit ==
    /\ node = "runs" /\ streamingExit = FALSE /\ streaming = "loop" /\ recordCount = 0
    /\ enuPosCov = Zero /\ haveCov = FALSE /\ navStat = "unset"
    /\ fix = [cov |-> Zero, known |-> FALSE, status |-> "unset"]
    /\ lastCov = Zero /\ lastStatus = <<>>

-----------------------------------------------------------------------------
(* The NTRIP client. *)

\* Mutant: the thread streams for ever.
MutKeepsStreaming == TRUE

KeepsStreaming == ~streamingExit

StreamLoop ==
    /\ streaming = "loop"
    /\ streaming' = IF KeepsStreaming THEN "perform" ELSE "over"
    /\ UNCHANGED <<node, streamingExit, recordCount, fixVars>>

\* WriteCallback(): a record is published; the last that is desired cuts the stream.
WriteCallback ==
    /\ streaming = "perform"
    /\ IF recordCount + 1 >= DesiredCount
       THEN recordCount' = 0 /\ streaming' = "asleep"
       ELSE recordCount' = recordCount + 1 /\ UNCHANGED streaming
    /\ UNCHANGED <<node, streamingExit, fixVars>>

\* The stream fails, or the caster closes it: then the next starts at once.
StreamFails ==
    /\ streaming = "perform" /\ streaming' = "asleep"
    /\ UNCHANGED <<node, streamingExit, recordCount, fixVars>>

StreamCloses ==
    /\ streaming = "perform" /\ streaming' = "loop"
    /\ UNCHANGED <<node, streamingExit, recordCount, fixVars>>

Wakes ==
    /\ streaming = "asleep" /\ streaming' = "loop"
    /\ UNCHANGED <<node, streamingExit, recordCount, fixVars>>

Destructor ==
    /\ node = "runs" /\ node' = "destroyed" /\ streamingExit' = TRUE
    /\ UNCHANGED <<streaming, recordCount, fixVars>>

Joins ==
    /\ node = "destroyed" /\ streaming = "over" /\ node' = "joined"
    /\ UNCHANGED <<streamingExit, streaming, recordCount, fixVars>>

StreamTask == StreamLoop \/ Wakes \/ Joins

-----------------------------------------------------------------------------
(* The fix. *)

\* nav_cov_callback()
Enu(c) == << <<c[2][2], c[1][2], -c[2][3]>>,
             <<c[1][2], c[1][1], -c[1][3]>>,
             <<-c[2][3], -c[1][3], c[3][3]>> >>

NavCovCallback ==
    /\ \E c \in NedCovs : enuPosCov' = Enu(c) /\ lastCov' = c
    /\ haveCov' = TRUE
    /\ UNCHANGED <<ntripVars, navStat, fix, lastStatus>>

NavStatusCallback ==
    /\ \E t \in DOMAIN FixTypes, diffSoln \in BOOLEAN :
         /\ navStat' = IF FixTypes[t] THEN IF diffSoln THEN "sbas" ELSE "fix" ELSE "none"
         /\ lastStatus' = <<t, diffSoln>>
    /\ UNCHANGED <<ntripVars, enuPosCov, haveCov, fix, lastCov>>

\* nav_hp_pos_llh_callback()
NavHpPosCallback ==
    /\ fix' = [cov |-> enuPosCov, known |-> haveCov, status |-> navStat]
    /\ UNCHANGED <<ntripVars, enuPosCov, haveCov, navStat, lastCov, lastStatus>>

-----------------------------------------------------------------------------
ClientsNext ==
    \/ StreamLoop \/ WriteCallback \/ StreamFails \/ StreamCloses \/ Wakes \/ Destructor \/ Joins
    \/ NavCovCallback \/ NavStatusCallback \/ NavHpPosCallback

ClientsTypeOK ==
    /\ node \in {"runs", "destroyed", "joined"} /\ streamingExit \in BOOLEAN
    /\ streaming \in {"loop", "perform", "asleep", "over"} /\ recordCount \in 0 .. DesiredCount - 1
    /\ haveCov \in BOOLEAN /\ navStat \in {"unset", "none", "fix", "sbas"}

\* The product of two matrices, and the turn from north, east, down to east,
\* north, up.
Times(a, b) == [i \in 1 .. 3 |-> [j \in 1 .. 3 |->
                  a[i][1] * b[1][j] + a[i][2] * b[2][j] + a[i][3] * b[3][j]]]
Turn == << <<0, 1, 0>>, <<1, 0, 0>>, <<0, 0, -1>> >>

\* A fix that says that its covariance is known carries, in whatever order the
\* three topics come, the covariance received last turned as a matrix, and says
\* that there is a fix only when the receiver did.
FixesHold ==
    /\ haveCov => enuPosCov = Times(Times(Turn, lastCov), Turn)
    /\ fix.known => haveCov /\ \E c \in NedCovs : fix.cov = Times(Times(Turn, c), Turn)
    /\ ~fix.known => fix.cov = Zero
    /\ navStat \in {"fix", "sbas"} => FixTypes[lastStatus[1]] /\ (navStat = "sbas") = lastStatus[2]

\* The destructor of the NTRIP client ends: the thread notices the exit flag
\* however the streams end, for as long as they do.  (Only the end of the
\* destructor leaves "destroyed".)
NtripStops == []<>(node # "destroyed")
=============================================================================
