----------------------------- MODULE GnssFrames -----------------------------
(***************************************************************************)
(* The way of a message through the GNSS driver: libusb's thread sorts the *)
(* transfers it receives into two queues, and two timers take them out,    *)
(* check them and publish them.  The fields of a message are left out (see *)
(* UbxDecode): a message has a name and a number of repeated blocks.       *)
(***************************************************************************)
EXTENDS Naturals, Sequences

CONSTANTS UsbTransfers, \* sequences of frames that the receiver can send in one transfer
          Polls,        \* UBX messages that the driver can send
          MaxTransfers, \* bounds on what the receiver
          MaxPolls      \* and the driver send

\* The messages that have a topic and no repeated blocks, those that have both,
\* and those that have no topic.
Plain == {"nav_vel_ecef", "nav_vel_ned", "nav_time_utc", "nav_rel_pos_ned",
          "nav_pvt", "nav_pos_llh", "nav_pos_ecef", "nav_odo",
          "nav_hp_pos_llh", "nav_hp_pos_ecef", "nav_status", "nav_svin",
          "nav_eoe", "nav_dop", "nav_cov", "nav_clock", "rxm_cor", "rxm_rtcm", "rxm_spartn"}
Repeating == {"nav_orb", "nav_sat", "nav_sig", "rxm_measx", "rxm_rawx", "rxm_spartnkey",
              "esf_status", "esf_meas", "sec_sig", "sec_siglog", "mon_comms"}
Silent == {"nav_resetodo", "rxm_sfrbx", "mon_ver", "sec_uniqid", "ack_ack", "ack_nak",
           "inf_notice", "unknown"}

\* A frame: what it starts with, its message, its blocks and its checksum.
FrameRecords ==
    [form : {"nmea", "ubx", "rtcm", "other"}, msg : STRING, blocks : Nat, sum : Nat]

ASSUME FramesAssumption ==
    /\ UsbTransfers \subseteq Seq(FrameRecords) \ {<<>>} /\ Polls \subseteq FrameRecords
    /\ \A t \in UsbTransfers : t[1].form = "ubx" =>
         /\ t[1].msg \in Plain \union Repeating \union Silent \union {"sec_sig_v1"}
         /\ t[1].msg \in Plain => t[1].blocks = 0
    /\ {MaxTransfers, MaxPolls} \subseteq Nat

VARIABLES
    usbConnected, \* driver_state() is CONNECTED
    keepRunning,  \* keep_running_
    ubxQueue,     \* ubx_queue_
    rtcmQueue,    \* rtcm_queue_
    ubxTimer,     \* ubx_timer_callback() is outside its loop, or about to handle or to pop
    rtcmTimer,    \* the same of rtcm_timer_callback()
    shown,        \* read-only parameters that show what the receiver has said
    published,    \* what has been published of UBX messages
    relayed,      \* and of RTCM messages (the transfers they hold)
    arrived,      \* all transfers received (not a variable of the code)
    polled        \* how many messages the driver has sent (neither)

frameVars == <<usbConnected, keepRunning, ubxQueue, rtcmQueue, ubxTimer, rtcmTimer, shown,
               published, relayed, arrived, polled>>

FramesInit ==
    /\ usbConnected = FALSE /\ keepRunning = TRUE
    /\ ubxQueue = <<>> /\ rtcmQueue = <<>>
    /\ ubxTimer = "idle" /\ rtcmTimer = "idle"
    /\ shown = {} /\ published = <<>> /\ relayed = <<>>
    /\ arrived = <<>> /\ polled = 0

-----------------------------------------------------------------------------
(* libusb's thread. *)

\* The receiver comes and goes; what is queued stays queued.
Plugged ==
    /\ keepRunning /\ usbConnected' = ~usbConnected
    /\ UNCHANGED <<keepRunning, ubxQueue, rtcmQueue, ubxTimer, rtcmTimer, shown, published,
                   relayed, arrived, polled>>

\* An entry of a queue: the frames of a transfer and when it came.
Entry(frames, type, ts) == [frames |-> frames, type |-> type, ts |-> ts]

\* ublox_in_callback(): the first frame tells what the transfer is taken for.
InCallback ==
    /\ keepRunning /\ usbConnected /\ Len(arrived) < MaxTransfers
    /\ \E t \in UsbTransfers :
         LET queued == <<Entry(t, "in", Len(arrived) + 1)>>
         IN  /\ arrived' = Append(arrived, t)
             /\ ubxQueue' = ubxQueue \o IF t[1].form = "ubx" THEN queued ELSE <<>>
             /\ rtcmQueue' = rtcmQueue \o IF t[1].form = "rtcm" THEN queued ELSE <<>>
    /\ UNCHANGED <<usbConnected, keepRunning, ubxTimer, rtcmTimer, shown, published, relayed, polled>>

\* ublox_out_callback(): what was sent is queued as well.
OutCallback ==
    /\ keepRunning /\ usbConnected /\ polled < MaxPolls
    /\ \E f \in Polls : ubxQueue' = Append(ubxQueue, Entry(<<f>>, "out", Len(arrived)))
    /\ polled' = polled + 1
    /\ UNCHANGED <<usbConnected, keepRunning, rtcmQueue, ubxTimer, rtcmTimer, shown, published,
                   relayed, arrived>>

-----------------------------------------------------------------------------
(* What becomes of a frame. *)

\* from_buf_build() takes the length of the first frame and the checksum at the
\* end of the buffer, which is that of the last.
ChecksumOk(e) == e.frames[1].sum = e.frames[Len(e.frames)].sum

\* What is published for a frame: its topic, its time and its blocks.
Message(topic, ts, blocks) == <<[topic |-> topic, ts |-> ts, blocks |-> blocks]>>

Velocities(f, ts) ==
    IF f.msg \in {"nav_vel_ecef", "nav_vel_ned", "nav_time_utc", "nav_rel_pos_ned"}
    THEN Message(f.msg, ts, 0) ELSE <<>>

Fixes(f, ts) ==
    IF f.msg \in {"nav_pvt", "nav_pos_llh", "nav_pos_ecef", "nav_odo"} THEN Message(f.msg, ts, 0) ELSE <<>>

Satellites(f, ts) ==
    IF f.msg \in {"nav_orb", "nav_sat", "nav_sig"} THEN Message(f.msg, ts, f.blocks) ELSE <<>>

PreciseFixes(f, ts) ==
    IF f.msg \in {"nav_hp_pos_llh", "nav_hp_pos_ecef", "nav_status", "nav_svin"}
    THEN Message(f.msg, ts, 0) ELSE <<>>

Accuracies(f, ts) ==
    IF f.msg \in {"nav_eoe", "nav_dop", "nav_cov", "nav_clock"} THEN Message(f.msg, ts, 0) ELSE <<>>

Corrections(f, ts) ==
    IF f.msg \in {"rxm_cor", "rxm_rtcm"} THEN Message(f.msg, ts, 0) ELSE <<>>

Keys(f, ts) ==
    IF f.msg = "rxm_spartn" THEN Message(f.msg, ts, 0)
    ELSE IF f.msg = "rxm_spartnkey" THEN Message(f.msg, ts, f.blocks) ELSE <<>>

RawData(f, ts) == IF f.msg \in {"rxm_measx", "rxm_rawx"} THEN Message(f.msg, ts, f.blocks) ELSE <<>>

Sensors(f, ts) == IF f.msg \in {"esf_status", "esf_meas"} THEN Message(f.msg, ts, f.blocks) ELSE <<>>

\* Only version 2 of the state of the signals has blocks.
Security(f, ts) ==
    IF f.msg \in {"sec_sig", "sec_siglog"} THEN Message(f.msg, ts, f.blocks)
    ELSE IF f.msg = "sec_sig_v1" THEN Message("sec_sig", ts, 0) ELSE <<>>

Ports(f, ts) == IF f.msg = "mon_comms" THEN Message(f.msg, ts, f.blocks) ELSE <<>>

\* ubx_nav_in_frame() and the others of its kind: the class of a message picks
\* one, its identity what is published.
NavFrame(f, ts) ==
    Velocities(f, ts) \o Fixes(f, ts) \o Satellites(f, ts) \o PreciseFixes(f, ts) \o Accuracies(f, ts)
RxmFrame(f, ts) == Corrections(f, ts) \o RawData(f, ts) \o Keys(f, ts)
EsfFrame(f, ts) == Sensors(f, ts)
SecFrame(f, ts) == Security(f, ts)
MonFrame(f, ts) == Ports(f, ts)

\* Acknowledgements, refusals and the receiver's texts are only logged, an
\* unknown message is caught.
QueueFrameIn(f, ts) ==
    NavFrame(f, ts) \o RxmFrame(f, ts) \o EsfFrame(f, ts) \o SecFrame(f, ts) \o MonFrame(f, ts)

\* The version and the identity of the receiver become parameters.
ShownBy(f) ==
    CASE f.msg = "mon_ver" -> {"sw_version", "hw_version", "version_extension"}
      [] f.msg = "sec_uniqid" -> {"unique_id"}
      [] OTHER -> {}

-----------------------------------------------------------------------------
(* The UBX timer: handle the front of the queue, pop it, until it is empty. *)

UbxTick ==
    /\ ubxTimer = "idle" /\ keepRunning /\ ubxQueue # <<>>
    /\ ubxTimer' = "handle"
    /\ UNCHANGED <<usbConnected, keepRunning, ubxQueue, rtcmQueue, rtcmTimer, shown, published,
                   relayed, arrived, polled>>

UbxHandle ==
    /\ ubxTimer = "handle" /\ ubxTimer' = "pop"
    /\ LET e == Head(ubxQueue)
           wanted == e.type = "in" /\ ChecksumOk(e)
       IN  /\ published' = published \o IF wanted THEN QueueFrameIn(e.frames[1], e.ts) ELSE <<>>
           /\ shown' = shown \union IF wanted THEN ShownBy(e.frames[1]) ELSE {}
    /\ UNCHANGED <<usbConnected, keepRunning, ubxQueue, rtcmQueue, rtcmTimer, relayed, arrived, polled>>

\* Mutant: the last entry is popped.
MutPopped(queue) == SubSeq(queue, 1, Len(queue) - 1)

Popped(queue) == Tail(queue)

UbxPop ==
    /\ ubxTimer = "pop"
    /\ ubxQueue' = Popped(ubxQueue)
    /\ ubxTimer' = IF ubxQueue' = <<>> THEN "idle" ELSE "handle"
    /\ UNCHANGED <<usbConnected, keepRunning, rtcmQueue, rtcmTimer, shown, published, relayed,
                   arrived, polled>>

UbxTask == UbxTick \/ UbxHandle \/ UbxPop

(* The RTCM timer, which starts only while a receiver is connected. *)

RtcmTick ==
    /\ rtcmTimer = "idle" /\ keepRunning /\ usbConnected /\ rtcmQueue # <<>>
    /\ rtcmTimer' = "handle"
    /\ UNCHANGED <<usbConnected, keepRunning, ubxQueue, rtcmQueue, ubxTimer, shown, published,
                   relayed, arrived, polled>>

RtcmHandle ==
    /\ rtcmTimer = "handle" /\ rtcmTimer' = "pop"
    /\ relayed' = Append(relayed, Head(rtcmQueue).ts)
    /\ UNCHANGED <<usbConnected, keepRunning, ubxQueue, rtcmQueue, ubxTimer, shown, published,
                   arrived, polled>>

RtcmPop ==
    /\ rtcmTimer = "pop"
    /\ rtcmQueue' = Popped(rtcmQueue)
    /\ rtcmTimer' = IF rtcmQueue' = <<>> THEN "idle" ELSE "handle"
    /\ UNCHANGED <<usbConnected, keepRunning, ubxQueue, ubxTimer, shown, published, relayed,
                   arrived, polled>>

RtcmTask == RtcmTick \/ RtcmHandle \/ RtcmPop

\* The destructor: both timers are cancelled at their next tick.
StopRunning ==
    /\ keepRunning /\ keepRunning' = FALSE
    /\ UNCHANGED <<usbConnected, ubxQueue, rtcmQueue, ubxTimer, rtcmTimer, shown, published,
                   relayed, arrived, polled>>

FramesNext == Plugged \/ InCallback \/ OutCallback \/ UbxTask \/ RtcmTask \/ StopRunning

-----------------------------------------------------------------------------
FramesTypeOK ==
    /\ {usbConnected, keepRunning} \subseteq BOOLEAN
    /\ \A e \in {ubxQueue[i] : i \in DOMAIN ubxQueue} \union {rtcmQueue[i] : i \in DOMAIN rtcmQueue} :
         e.frames \in UsbTransfers \union {<<f>> : f \in Polls} /\ e.ts \in 0 .. MaxTransfers
    /\ {ubxTimer, rtcmTimer} \subseteq {"idle", "handle", "pop"}
    /\ shown \subseteq {"sw_version", "hw_version", "version_extension", "unique_id"}
    /\ arrived \in Seq(UsbTransfers) /\ polled \in 0 .. MaxPolls

\* The transfers of a queue that are still to be handled.
Waiting(queue, timer) ==
    {queue[i].ts : i \in {j \in DOMAIN queue : queue[j].type = "in" /\ (timer = "pop" => j > 1)}}

Increasing(seq) == \A i, j \in DOMAIN seq : i < j => seq[i] < seq[j]

\* Whatever the timers, the receiver and the stop interleave to: a message that
\* comes in a transfer of its own is published exactly once, in the order of
\* arrival and with all its blocks, and so is every correction; frames that
\* share a transfer never put another message in the place of the first.
GnssFramesOK ==
    LET publishedAt == [i \in DOMAIN published |-> published[i].ts]
    IN  /\ Increasing(publishedAt) /\ Increasing(relayed)
        /\ \A i \in DOMAIN published :
             LET f == arrived[publishedAt[i]][1]
             IN  /\ f.form = "ubx" /\ f.msg \notin Silent
                 /\ \/ published[i].topic = f.msg /\ published[i].blocks = f.blocks
                    \/ f.msg = "sec_sig_v1" /\ published[i].blocks = 0
        /\ \A n \in DOMAIN arrived :
             LET f == arrived[n][1]
             IN  /\ Len(arrived[n]) = 1 /\ f.form = "ubx" /\ f.msg \notin Silent
                    => (\E i \in DOMAIN published : publishedAt[i] = n) # (n \in Waiting(ubxQueue, ubxTimer))
                 /\ f.form = "rtcm"
                    => (\E i \in DOMAIN relayed : relayed[i] = n) # (n \in Waiting(rtcmQueue, rtcmTimer))
=============================================================================
