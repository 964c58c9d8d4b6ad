----------------------------- MODULE GnssProofs -----------------------------
(***************************************************************************)
(* The safety of five parts of the GNSS driver, for any transfers, queues  *)
(* of any length, any receivers, parameters, files and covariances.        *)
(*                                                                         *)
(* The frames.  That a message is published once and in its order says     *)
(* nothing of the queues.  FramesInv adds that a queue holds transfers of  *)
(* its form in the order of arrival, that what was passed on came before   *)
(* all that still waits, and that every message of its own is in one of    *)
(* the two places.                                                         *)
(*                                                                         *)
(* The configuration.  That the cache shows the receiver's RAM layer once  *)
(* nothing is due says nothing of the way there.  ParamsInv follows each   *)
(* value on it: a request for a default is followed by one for the RAM     *)
(* layer; the last answer about an item is the RAM's or another request is *)
(* under way; a value in the cache that is not the RAM's is due to be      *)
(* replaced, or of a receiver that left.  A start argument that no user    *)
(* has changed keeps its value and its status, so it is never asked for,   *)
(* and all that is sent of it is its value.                                *)
(*                                                                         *)
(* The connection.  UsbInv adds that a connection that is not attached has *)
(* no transfers; that no more than two reads are outstanding needs those   *)
(* that the timer and the callback are still to ask for.                   *)
(***************************************************************************)
EXTENDS GnssFrames, GnssParams, GnssUsb, GnssStart, GnssClients, TLAPS

-----------------------------------------------------------------------------
(* The frames. *)

\* The driver's way of a message alone.
FramesSpec == FramesInit /\ [][FramesNext]_frameVars

\* What the entries of a queue hold.
Entries == [frames : Seq(FrameRecords) \ {<<>>}, type : {"in", "out"}, ts : Nat]

\* The received transfers of a queue are those of its form that came, in the
\* order in which they came.
Orderly(queue, form, all) ==
    /\ queue \in Seq(Entries)
    /\ \A i \in DOMAIN queue : queue[i].type = "in" =>
         /\ queue[i].ts \in DOMAIN all /\ queue[i].frames = all[queue[i].ts]
         /\ all[queue[i].ts][1].form = form
         /\ \A j \in DOMAIN queue : queue[j].type = "in" /\ i < j => queue[i].ts < queue[j].ts

\* What has been passed on came before what is still to be handled.
Behind(times, waiting, all) ==
    /\ times \in Seq(DOMAIN all) /\ Increasing(times)
    /\ \A i \in DOMAIN times, n \in waiting : times[i] < n

\* No transfer is lost.
Accounted(times, waiting, n) == n \in waiting \/ \E i \in DOMAIN times : times[i] = n

PublishedAt(pub) == [i \in DOMAIN pub |-> pub[i].ts]

Messages == [topic : Plain \union Repeating, ts : Nat, blocks : Nat]

\* A message is published for a transfer as it was received.
Faithful(message, all) ==
    LET f == all[message.ts][1]
    IN  /\ f.form = "ubx" /\ f.msg \notin Silent
        /\ \/ message.topic = f.msg /\ message.blocks = f.blocks
           \/ f.msg = "sec_sig_v1" /\ message.blocks = 0

Lonely(t) == Len(t) = 1 /\ t[1].form = "ubx" /\ t[1].msg \notin Silent

UbxFlows ==
    /\ ubxTimer \in {"idle", "handle", "pop"}
    /\ ubxTimer # "idle" => ubxQueue # <<>>
    /\ Orderly(ubxQueue, "ubx", arrived)
    /\ published \in Seq(Messages)
    /\ Behind(PublishedAt(published), Waiting(ubxQueue, ubxTimer), arrived)
    /\ \A n \in DOMAIN arrived : Lonely(arrived[n])
         => Accounted(PublishedAt(published), Waiting(ubxQueue, ubxTimer), n)
    /\ \A i \in DOMAIN published : Faithful(published[i], arrived)

RtcmFlows ==
    /\ rtcmTimer \in {"idle", "handle", "pop"}
    /\ rtcmTimer # "idle" => rtcmQueue # <<>>
    /\ Orderly(rtcmQueue, "rtcm", arrived)
    /\ \A i \in DOMAIN rtcmQueue : rtcmQueue[i].type = "in"
    /\ Behind(relayed, Waiting(rtcmQueue, rtcmTimer), arrived)
    /\ \A n \in DOMAIN arrived : arrived[n][1].form = "rtcm"
         => Accounted(relayed, Waiting(rtcmQueue, rtcmTimer), n)

FramesInv == arrived \in Seq(UsbTransfers) /\ UbxFlows /\ RtcmFlows

-----------------------------------------------------------------------------
LEMMA AddsNothing ==
    ASSUME NEW S, NEW s \in Seq(S)
    PROVE  <<>> \o s = s /\ s \o <<>> = s
OBVIOUS

\* A message has at most one topic, and its blocks are those of the frame.
LEMMA PublishedFor ==
    ASSUME NEW f, NEW ts
    PROVE  /\ f.msg \in Plain => QueueFrameIn(f, ts) = Message(f.msg, ts, 0)
           /\ f.msg \in Repeating => QueueFrameIn(f, ts) = Message(f.msg, ts, f.blocks)
           /\ f.msg \in Silent => QueueFrameIn(f, ts) = <<>>
           /\ f.msg = "sec_sig_v1"
              => QueueFrameIn(f, ts) = Message("sec_sig", ts, 0)
<1> DEFINE plain == Message(f.msg, ts, 0)
           full == Message(f.msg, ts, f.blocks)
           old == Message("sec_sig", ts, 0)
           S == {plain[1], full[1], old[1]}
           msg == f.msg
<1>1. plain \in Seq(S) /\ full \in Seq(S) /\ old \in Seq(S) /\ <<>> \in Seq(S)
  BY DEF Message
<1>2. /\ \A s \in Seq(S) : <<>> \o s = s /\ s \o <<>> = s
      /\ <<>> \o <<>> = <<>>
  BY AddsNothing, <<>> \in Seq(S)
<1> HIDE DEF S
<1>3. /\ Velocities(f, ts) = IF msg \in {"nav_vel_ecef", "nav_vel_ned", "nav_time_utc", "nav_rel_pos_ned"}
                             THEN plain ELSE <<>>
      /\ Fixes(f, ts) = IF msg \in {"nav_pvt", "nav_pos_llh", "nav_pos_ecef", "nav_odo"} THEN plain ELSE <<>>
      /\ Satellites(f, ts) = IF msg \in {"nav_orb", "nav_sat", "nav_sig"} THEN full ELSE <<>>
      /\ PreciseFixes(f, ts) = IF msg \in {"nav_hp_pos_llh", "nav_hp_pos_ecef", "nav_status", "nav_svin"}
                               THEN plain ELSE <<>>
      /\ Accuracies(f, ts) = IF msg \in {"nav_eoe", "nav_dop", "nav_cov", "nav_clock"} THEN plain ELSE <<>>
      /\ Corrections(f, ts) = IF msg \in {"rxm_cor", "rxm_rtcm"} THEN plain ELSE <<>>
      /\ Keys(f, ts) = IF msg = "rxm_spartn" THEN plain ELSE IF msg = "rxm_spartnkey" THEN full ELSE <<>>
      /\ RawData(f, ts) = IF msg \in {"rxm_measx", "rxm_rawx"} THEN full ELSE <<>>
      /\ Sensors(f, ts) = IF msg \in {"esf_status", "esf_meas"} THEN full ELSE <<>>
      /\ Security(f, ts) = IF msg \in {"sec_sig", "sec_siglog"} THEN full
                           ELSE IF msg = "sec_sig_v1" THEN old ELSE <<>>
      /\ Ports(f, ts) = IF msg = "mon_comms" THEN full ELSE <<>>
  BY DEF Velocities, Fixes, Satellites, PreciseFixes, Accuracies, Corrections, Keys, RawData,
         Sensors, Security, Ports
<1> DEFINE nav == NavFrame(f, ts)
           rxm == RxmFrame(f, ts)
<1> HIDE DEF plain, full, old
<1>4. nav = IF msg \in {"nav_vel_ecef", "nav_vel_ned", "nav_time_utc", "nav_rel_pos_ned",
                        "nav_pvt", "nav_pos_llh", "nav_pos_ecef", "nav_odo",
                        "nav_hp_pos_llh", "nav_hp_pos_ecef", "nav_status", "nav_svin",
                        "nav_eoe", "nav_dop", "nav_cov", "nav_clock"}
            THEN plain
            ELSE IF msg \in {"nav_orb", "nav_sat", "nav_sig"} THEN full ELSE <<>>
  <2>1. NavFrame(f, ts) = Velocities(f, ts) \o Fixes(f, ts) \o Satellites(f, ts)
                             \o PreciseFixes(f, ts) \o Accuracies(f, ts)
    BY DEF NavFrame
  <2>2. CASE msg \in {"nav_orb", "nav_sat", "nav_sig"}
    <3>1. Velocities(f, ts) = <<>> /\ Fixes(f, ts) = <<>> /\ Satellites(f, ts) = full
          /\ PreciseFixes(f, ts) = <<>> /\ Accuracies(f, ts) = <<>>
      BY <1>3, <2>2
    <3> QED  BY <1>1, <1>2, <2>1, <2>2, <3>1 DEF nav
  <2>3. CASE msg \in {"nav_vel_ecef", "nav_vel_ned", "nav_time_utc", "nav_rel_pos_ned"}
    <3>1. Velocities(f, ts) = plain /\ Fixes(f, ts) = <<>> /\ Satellites(f, ts) = <<>>
          /\ PreciseFixes(f, ts) = <<>> /\ Accuracies(f, ts) = <<>>
      BY <1>3, <2>3
    <3> QED  BY <1>1, <1>2, <2>1, <2>3, <3>1 DEF nav
  <2>4. CASE msg \in {"nav_pvt", "nav_pos_llh", "nav_pos_ecef", "nav_odo"}
    <3>1. Velocities(f, ts) = <<>> /\ Fixes(f, ts) = plain /\ Satellites(f, ts) = <<>>
          /\ PreciseFixes(f, ts) = <<>> /\ Accuracies(f, ts) = <<>>
      BY <1>3, <2>4
    <3> QED  BY <1>1, <1>2, <2>1, <2>4, <3>1 DEF nav
  <2>5. CASE msg \in {"nav_hp_pos_llh", "nav_hp_pos_ecef", "nav_status", "nav_svin"}
    <3>1. Velocities(f, ts) = <<>> /\ Fixes(f, ts) = <<>> /\ Satellites(f, ts) = <<>>
          /\ PreciseFixes(f, ts) = plain /\ Accuracies(f, ts) = <<>>
      BY <1>3, <2>5
    <3> QED  BY <1>1, <1>2, <2>1, <2>5, <3>1 DEF nav
  <2>6. CASE msg \in {"nav_eoe", "nav_dop", "nav_cov", "nav_clock"}
    <3>1. Velocities(f, ts) = <<>> /\ Fixes(f, ts) = <<>> /\ Satellites(f, ts) = <<>>
          /\ PreciseFixes(f, ts) = <<>> /\ Accuracies(f, ts) = plain
      BY <1>3, <2>6
    <3> QED  BY <1>1, <1>2, <2>1, <2>6, <3>1 DEF nav
  <2>7. CASE msg \notin
        {"nav_vel_ecef", "nav_vel_ned", "nav_time_utc", "nav_rel_pos_ned",
         "nav_pvt", "nav_pos_llh", "nav_pos_ecef", "nav_odo", "nav_orb", "nav_sat", "nav_sig",
         "nav_hp_pos_llh", "nav_hp_pos_ecef", "nav_status", "nav_svin",
         "nav_eoe", "nav_dop", "nav_cov", "nav_clock"}
    <3>1. Velocities(f, ts) = <<>> /\ Fixes(f, ts) = <<>> /\ Satellites(f, ts) = <<>>
          /\ PreciseFixes(f, ts) = <<>> /\ Accuracies(f, ts) = <<>>
      BY <1>3, <2>7
    <3> QED  BY <1>1, <1>2, <2>1, <2>7, <3>1 DEF nav
  <2> QED  BY <2>2, <2>3, <2>4, <2>5, <2>6, <2>7
<1>5. rxm = IF msg \in {"rxm_cor", "rxm_rtcm", "rxm_spartn"} THEN plain
            ELSE IF msg \in {"rxm_measx", "rxm_rawx", "rxm_spartnkey"} THEN full ELSE <<>>
  BY <1>1, <1>2, <1>3 DEF RxmFrame
<1> HIDE DEF nav, rxm
<1>6. QueueFrameIn(f, ts) = nav \o rxm \o Sensors(f, ts) \o Security(f, ts) \o Ports(f, ts)
  BY DEF QueueFrameIn, nav, rxm, EsfFrame, SecFrame, MonFrame
<1>7. ASSUME msg \in Plain PROVE QueueFrameIn(f, ts) = plain
  BY <1>1, <1>2, <1>3, <1>4, <1>5, <1>6, <1>7 DEF Plain
<1>8. ASSUME msg \in Repeating PROVE QueueFrameIn(f, ts) = full
  <2>1. CASE msg \in {"nav_orb", "nav_sat", "nav_sig"}
    <3>1. /\ nav = full /\ rxm = <<>>
          /\ Sensors(f, ts) = <<>> /\ Security(f, ts) = <<>> /\ Ports(f, ts) = <<>>
      BY <1>3, <1>4, <1>5, <2>1
    <3> QED  BY <1>1, <1>2, <1>6, <3>1
  <2>2. CASE msg \in {"rxm_measx", "rxm_rawx", "rxm_spartnkey"}
    <3>1. /\ nav = <<>> /\ rxm = full
          /\ Sensors(f, ts) = <<>> /\ Security(f, ts) = <<>> /\ Ports(f, ts) = <<>>
      BY <1>3, <1>4, <1>5, <2>2
    <3> QED  BY <1>1, <1>2, <1>6, <3>1
  <2>3. CASE msg \in {"esf_status", "esf_meas", "sec_sig", "sec_siglog", "mon_comms"}
    <3>1. nav = <<>> /\ rxm = <<>>
      BY <1>4, <1>5, <2>3
    <3>2. QueueFrameIn(f, ts) = Sensors(f, ts) \o Security(f, ts) \o Ports(f, ts)
      BY <1>1, <1>2, <1>3, <1>6, <3>1
    <3> QED  BY <1>1, <1>2, <1>3, <2>3, <3>2
  <2> QED  BY <1>8, <2>1, <2>2, <2>3 DEF Repeating
<1>9. ASSUME msg \in Silent PROVE QueueFrameIn(f, ts) = <<>>
  BY <1>1, <1>2, <1>3, <1>4, <1>5, <1>6, <1>9 DEF Silent
<1>10. ASSUME msg = "sec_sig_v1" PROVE QueueFrameIn(f, ts) = old
  BY <1>1, <1>2, <1>3, <1>4, <1>5, <1>6, <1>10
<1> QED  BY <1>7, <1>8, <1>9, <1>10 DEF plain, full, old

\* The two functions that fill a queue keep it in order: one appends the transfer
\* that has just come, the other a message that the driver has sent.
WithTransfer(q, t, ts) == q \o <<Entry(t, "in", ts)>>
WithMessage(q, f, ts) == Append(q, Entry(<<f>>, "out", ts))

LEMMA EnqueueIn ==
    ASSUME NEW q, NEW form, NEW all \in Seq(UsbTransfers), NEW timer,
           NEW t \in UsbTransfers, t[1].form = form, NEW at, at = Len(all) + 1,
           Orderly(q, form, all), timer = "pop" => q # <<>>,
           NEW more, more = WithTransfer(q, t, at)
    PROVE  /\ Orderly(more, form, Append(all, t)) /\ more # <<>>
           /\ Waiting(more, timer) = Waiting(q, timer) \union {at}
<1> USE DEF WithTransfer
<1> DEFINE e == Entry(t, "in", at)
           n == Len(q)
           after == Append(all, t)
<1>1. q \in Seq(Entries) /\ n \in Nat /\ DOMAIN q = 1 .. n /\ Len(all) \in Nat
  BY DEF Orderly
<1>2. e \in Entries /\ e.type = "in" /\ e.frames = t /\ e.ts = at /\ at = Len(all) + 1
  BY <1>1, FramesAssumption DEF Entry, Entries
<1> HIDE DEF e
<1>3. /\ more \in Seq(Entries) /\ DOMAIN more = 1 .. (n + 1) /\ more[n + 1] = e
      /\ \A i \in 1 .. n : more[i] = q[i]
  BY <1>1, <1>2 DEF e
<1>4. /\ DOMAIN all = 1 .. Len(all) /\ DOMAIN after = 1 .. (Len(all) + 1)
      /\ after[Len(all) + 1] = t /\ \A k \in DOMAIN all : after[k] = all[k]
  OBVIOUS
<1> HIDE DEF after
<1>5. ASSUME NEW i \in DOMAIN more, more[i].type = "in"
      PROVE  /\ more[i].ts \in DOMAIN after /\ more[i].frames = after[more[i].ts]
             /\ after[more[i].ts][1].form = form
             /\ \A j \in DOMAIN more : more[j].type = "in" /\ i < j => more[i].ts < more[j].ts
  <2>1. CASE i = n + 1
    BY <1>1, <1>2, <1>3, <1>4, <2>1
  <2>2. CASE i \in 1 .. n
    <3>1. /\ q[i].type = "in" /\ more[i] = q[i]
          /\ q[i].ts \in DOMAIN all /\ q[i].frames = all[q[i].ts] /\ all[q[i].ts][1].form = form
          /\ \A j \in DOMAIN q : q[j].type = "in" /\ i < j => q[i].ts < q[j].ts
      BY <1>1, <1>3, <1>5, <2>2 DEF Orderly
    <3> QED  BY <1>1, <1>2, <1>3, <1>4, <3>1
  <2> QED  BY <1>1, <1>3, <2>1, <2>2
<1>6. Orderly(more, form, after) /\ more # <<>>
  BY <1>1, <1>3, <1>5 DEF Orderly
<1>7. Waiting(more, timer) = Waiting(q, timer) \union {at}
  <2>1. n + 1 \in {j \in DOMAIN more : more[j].type = "in" /\ (timer = "pop" => j > 1)}
    BY <1>1, <1>2, <1>3
  <2>2. \A i \in 1 .. n : more[i] = q[i]
    BY <1>3
  <2> QED  BY <1>1, <1>2, <1>3, <2>1, <2>2 DEF Waiting
<1> QED  BY <1>6, <1>7 DEF after

LEMMA EnqueueOut ==
    ASSUME NEW q, NEW form, NEW all \in Seq(UsbTransfers), NEW timer,
           NEW f \in Polls, Orderly(q, form, all), NEW at \in Nat,
           NEW more, more = WithMessage(q, f, at)
    PROVE  Orderly(more, form, all) /\ more # <<>> /\ Waiting(more, timer) = Waiting(q, timer)
<1> USE DEF WithMessage
<1> DEFINE e == Entry(<<f>>, "out", at)
           n == Len(q)
<1>1. q \in Seq(Entries) /\ n \in Nat /\ DOMAIN q = 1 .. n
  BY DEF Orderly
<1>2. e \in Entries /\ e.type # "in"
  BY FramesAssumption DEF Entry, Entries
<1> HIDE DEF e
<1>3. /\ more \in Seq(Entries) /\ DOMAIN more = 1 .. (n + 1) /\ more[n + 1] = e
      /\ \A i \in 1 .. n : more[i] = q[i]
  BY <1>1, <1>2 DEF e
<1>4. Orderly(more, form, all) /\ more # <<>>
  <2>1. ASSUME NEW i \in DOMAIN more, more[i].type = "in" PROVE i \in 1 .. n /\ more[i] = q[i]
    BY <1>1, <1>2, <1>3, <2>1
  <2>2. ASSUME NEW i \in DOMAIN more, more[i].type = "in"
        PROVE  /\ more[i].ts \in DOMAIN all /\ more[i].frames = all[more[i].ts]
               /\ all[more[i].ts][1].form = form
               /\ \A j \in DOMAIN more : more[j].type = "in" /\ i < j => more[i].ts < more[j].ts
    <3>1. /\ q[i].ts \in DOMAIN all /\ q[i].frames = all[q[i].ts] /\ all[q[i].ts][1].form = form
          /\ \A j \in DOMAIN q : q[j].type = "in" /\ i < j => q[i].ts < q[j].ts
      BY <1>1, <2>1, <2>2 DEF Orderly
    <3> QED  BY <1>1, <2>1, <2>2, <3>1
  <2> QED  BY <1>3, <2>2 DEF Orderly
<1>5. Waiting(more, timer) = Waiting(q, timer)
  BY <1>1, <1>2, <1>3 DEF Waiting
<1> QED  BY <1>4, <1>5

\* A transfer that comes meanwhile leaves the entries of the others alone.
LEMMA OtherArrives ==
    ASSUME NEW q, NEW form, NEW all \in Seq(UsbTransfers), NEW t \in UsbTransfers,
           Orderly(q, form, all)
    PROVE  Orderly(q, form, Append(all, t))
<1>1. /\ DOMAIN all = 1 .. Len(all) /\ DOMAIN Append(all, t) = 1 .. (Len(all) + 1)
      /\ \A k \in DOMAIN all : Append(all, t)[k] = all[k] /\ k \in DOMAIN Append(all, t)
  OBVIOUS
<1>2. ASSUME NEW after, after = Append(all, t) PROVE Orderly(q, form, after)
  BY <1>1, <1>2 DEF Orderly
<1> QED  BY <1>2

\* The front of the queue counts as handled before it is taken out.
LEMMA FrontTaken ==
    ASSUME NEW q, NEW form, NEW all \in Seq(UsbTransfers), q # <<>>, Orderly(q, form, all),
           NEW timer, timer # "pop"
    PROVE  /\ Orderly(Popped(q), form, all)
           /\ Waiting(Popped(q), timer) = Waiting(q, "pop")
<1> DEFINE n == Len(q)
           rest == Tail(q)
<1>1. q \in Seq(Entries) /\ n \in Nat \ {0} /\ DOMAIN q = 1 .. n
  BY DEF Orderly
<1>2. rest \in Seq(Entries) /\ DOMAIN rest = 1 .. (n - 1) /\ \A i \in 1 .. (n - 1) : rest[i] = q[i + 1]
  BY <1>1
<1> HIDE DEF rest
<1>3. Orderly(rest, form, all)
  <2>1. ASSUME NEW i \in DOMAIN rest, rest[i].type = "in"
        PROVE  /\ rest[i].ts \in DOMAIN all /\ rest[i].frames = all[rest[i].ts]
               /\ all[rest[i].ts][1].form = form
               /\ \A j \in DOMAIN rest : rest[j].type = "in" /\ i < j => rest[i].ts < rest[j].ts
    <3>1. i \in 1 .. (n - 1) /\ i + 1 \in DOMAIN q /\ rest[i] = q[i + 1]
      BY <1>1, <1>2
    <3>2. /\ q[i + 1].ts \in DOMAIN all /\ q[i + 1].frames = all[q[i + 1].ts]
          /\ all[q[i + 1].ts][1].form = form
          /\ \A j \in DOMAIN q : q[j].type = "in" /\ i + 1 < j => q[i + 1].ts < q[j].ts
      BY <2>1, <3>1 DEF Orderly
    <3>3. \A j \in 1 .. (n - 1) : j + 1 \in DOMAIN q /\ rest[j] = q[j + 1] /\ (i < j => i + 1 < j + 1)
      BY <1>1, <1>2, <3>1
    <3> QED  BY <1>2, <3>1, <3>2, <3>3
  <2> QED  BY <1>2, <2>1 DEF Orderly
<1>4. ASSUME NEW x \in Waiting(rest, timer) PROVE x \in Waiting(q, "pop")
  <2>1. PICK i \in 1 .. (n - 1) : rest[i].type = "in" /\ x = rest[i].ts
    BY <1>2 DEF Waiting
  <2>2. i + 1 \in DOMAIN q /\ q[i + 1].type = "in" /\ i + 1 > 1 /\ x = q[i + 1].ts
    BY <1>1, <1>2, <2>1
  <2> QED  BY <2>2 DEF Waiting
<1>5. ASSUME NEW x \in Waiting(q, "pop") PROVE x \in Waiting(rest, timer)
  <2>1. PICK i \in DOMAIN q : q[i].type = "in" /\ i > 1 /\ x = q[i].ts
    BY DEF Waiting
  <2>2. i - 1 \in DOMAIN rest /\ rest[i - 1] = q[i]
    BY <1>1, <1>2, <2>1
  <2> QED  BY <2>1, <2>2 DEF Waiting
<1> QED  BY <1>3, <1>4, <1>5 DEF Popped, rest

\* Handling the front leaves what came later.
LEMMA FrontHandled ==
    ASSUME NEW q, NEW form, NEW all \in Seq(UsbTransfers), q # <<>>, Orderly(q, form, all)
    PROVE  LET e == Head(q) IN
           /\ e \in Entries /\ e = q[1] /\ 1 \in DOMAIN q
           /\ e.type # "in" => Waiting(q, "pop") = Waiting(q, "handle")
           /\ e.type = "in" =>
                /\ e.ts \in DOMAIN all /\ e.frames = all[e.ts] /\ all[e.ts][1].form = form
                /\ Waiting(q, "handle") = Waiting(q, "pop") \union {e.ts}
                /\ \A n \in Waiting(q, "pop") : e.ts < n
<1> DEFINE e == Head(q)
           n == Len(q)
<1>1. q \in Seq(Entries) /\ n \in Nat \ {0} /\ DOMAIN q = 1 .. n /\ e = q[1] /\ e \in Entries
  BY DEF Orderly
<1> HIDE DEF e
<1>2. ASSUME e.type # "in" PROVE Waiting(q, "pop") = Waiting(q, "handle")
  <2>1. \A j \in DOMAIN q : q[j].type = "in" => j > 1
    BY <1>1, <1>2
  <2> QED  BY <2>1 DEF Waiting
<1>3. ASSUME e.type = "in"
      PROVE  /\ e.ts \in DOMAIN all /\ e.frames = all[e.ts] /\ all[e.ts][1].form = form
             /\ \A k \in Waiting(q, "pop") : e.ts < k
             /\ Waiting(q, "handle") = Waiting(q, "pop") \union {e.ts}
  <2>1. /\ e.ts \in DOMAIN all /\ e.frames = all[e.ts] /\ all[e.ts][1].form = form
        /\ \A j \in DOMAIN q : q[j].type = "in" /\ 1 < j => e.ts < q[j].ts
    BY <1>1, <1>3 DEF Orderly
  <2>2. \A k \in Waiting(q, "pop") : e.ts < k
    BY <1>1, <2>1 DEF Waiting
  <2>3. \A j \in DOMAIN q : j = 1 \/ j > 1
    BY <1>1
  <2>4. Waiting(q, "handle") = Waiting(q, "pop") \union {e.ts}
    BY <1>1, <1>3, <2>3 DEF Waiting
  <2> QED  BY <2>1, <2>2, <2>4
<1> QED  BY <1>1, <1>2, <1>3 DEF e

\* What is still to be handled has come.
LEMMA WaitingCame ==
    ASSUME NEW q, NEW form, NEW all \in Seq(UsbTransfers), NEW timer, Orderly(q, form, all)
    PROVE  Waiting(q, timer) \subseteq 1 .. Len(all) /\ DOMAIN all = 1 .. Len(all) /\ Len(all) \in Nat
<1>1. DOMAIN all = 1 .. Len(all) /\ Len(all) \in Nat
  OBVIOUS
<1> QED  BY <1>1 DEF Orderly, Waiting

\* What is passed on next is newer than all before, and older than what waits.
LEMMA LogGrows ==
    ASSUME NEW all \in Seq(UsbTransfers), NEW times, NEW rest, NEW h \in DOMAIN all,
           Behind(times, rest \union {h}, all), \A n \in rest : h < n
    PROVE  Behind(Append(times, h), rest, all)
<1> DEFINE more == Append(times, h)
           k == Len(times)
<1>1. /\ times \in Seq(DOMAIN all) /\ k \in Nat /\ DOMAIN times = 1 .. k
      /\ \A i \in DOMAIN times : times[i] \in DOMAIN all
  BY DEF Behind
<1>2. /\ more \in Seq(DOMAIN all) /\ DOMAIN more = 1 .. (k + 1) /\ more[k + 1] = h
      /\ \A i \in 1 .. k : more[i] = times[i]
  BY <1>1
<1> HIDE DEF more
<1>3. \A i \in 1 .. k : times[i] < h
  BY <1>1 DEF Behind
<1>4. Increasing(more)
  <2>1. \A i, j \in 1 .. k : i < j => times[i] < times[j]
    BY <1>1 DEF Behind, Increasing
  <2>2. ASSUME NEW i \in DOMAIN more, NEW j \in DOMAIN more, i < j PROVE more[i] < more[j]
    <3>1. i \in 1 .. k /\ (j \in 1 .. k \/ j = k + 1)
      BY <1>1, <1>2, <2>2
    <3> QED  BY <1>2, <1>3, <2>1, <2>2, <3>1
  <2> QED  BY <2>2 DEF Increasing
<1>5. \A i \in DOMAIN more, n \in rest : more[i] < n
  <2>1. \A i \in 1 .. k, n \in rest : times[i] < n
    BY <1>1 DEF Behind
  <2> QED  BY <1>1, <1>2, <2>1
<1>6. Behind(more, rest, all)
  BY <1>2, <1>4, <1>5 DEF Behind
<1> QED  BY <1>6 DEF more

\* Fewer wait.
LEMMA BehindFewer ==
    ASSUME NEW all, NEW times, NEW waiting, NEW rest \in SUBSET waiting, Behind(times, waiting, all)
    PROVE  Behind(times, rest, all)
BY DEF Behind

\* What comes is newer than all that has been passed on.
LEMMA BehindArrival ==
    ASSUME NEW all \in Seq(UsbTransfers), NEW times, NEW waiting, NEW t \in UsbTransfers,
           Behind(times, waiting, all),
           NEW more, more = waiting \/ more = waiting \union {Len(all) + 1}
    PROVE  Behind(times, more, Append(all, t))
<1> DEFINE after == Append(all, t)
<1>1. DOMAIN all = 1 .. Len(all) /\ Len(all) \in Nat /\ DOMAIN after = 1 .. (Len(all) + 1)
  OBVIOUS
<1> HIDE DEF after
<1>2. times \in Seq(DOMAIN all) /\ \A i \in DOMAIN times : times[i] \in 1 .. Len(all)
  BY <1>1 DEF Behind
<1>3. times \in Seq(DOMAIN after)
  BY <1>1, <1>2
<1>4. \A i \in DOMAIN times, n \in more : times[i] < n
  <2>1. \A i \in DOMAIN times : times[i] < Len(all) + 1
    BY <1>1, <1>2
  <2> QED  BY <2>1 DEF Behind
<1>5. Behind(times, more, after)
  BY <1>3, <1>4 DEF Behind
<1> QED  BY <1>5 DEF after

\* The times of what is published follow it.
WithOneMore(pub, m) == pub \o <<m>>

LEMMA PublishedGrows ==
    ASSUME NEW pub \in Seq(Messages), NEW m \in Messages, NEW more, more = WithOneMore(pub, m)
    PROVE  /\ more \in Seq(Messages) /\ DOMAIN more = 1 .. (Len(pub) + 1) /\ Len(pub) \in Nat
           /\ DOMAIN pub = 1 .. Len(pub)
           /\ more[Len(pub) + 1] = m /\ \A i \in DOMAIN pub : more[i] = pub[i]
           /\ PublishedAt(more) = Append(PublishedAt(pub), m.ts)
<1> USE DEF WithOneMore
<1> DEFINE k == Len(pub)
           times == PublishedAt(pub)
<1>1. /\ more \in Seq(Messages) /\ k \in Nat /\ DOMAIN pub = 1 .. k /\ DOMAIN more = 1 .. (k + 1)
      /\ more[k + 1] = m /\ \A i \in 1 .. k : more[i] = pub[i] /\ pub[i].ts \in Nat
  <2>1. k \in Nat /\ DOMAIN pub = 1 .. k /\ \A i \in 1 .. k : pub[i] \in Messages
    OBVIOUS
  <2>2. \A i \in 1 .. k : pub[i].ts \in Nat
    BY <2>1 DEF Messages
  <2>3. more \in Seq(Messages) /\ DOMAIN more = 1 .. (k + 1)
    OBVIOUS
  <2>4. more[k + 1] = m /\ \A i \in 1 .. k : more[i] = pub[i]
    OBVIOUS
  <2> QED  BY <2>1, <2>2, <2>3, <2>4
<1>2. times = [i \in 1 .. k |-> pub[i].ts]
  BY <1>1 DEF PublishedAt
<1>3. times \in Seq(Nat) /\ Len(times) = k
  BY <1>1, <1>2
<1>4. /\ Append(times, m.ts) \in Seq(Nat) /\ DOMAIN Append(times, m.ts) = 1 .. (k + 1)
      /\ Append(times, m.ts)[k + 1] = m.ts /\ \A i \in 1 .. k : Append(times, m.ts)[i] = pub[i].ts
  <2>1. m.ts \in Nat /\ \A i \in 1 .. k : times[i] = pub[i].ts
    BY <1>2 DEF Messages
  <2> HIDE DEF times, k
  <2> QED  BY <1>1, <1>3, <2>1
<1>5. PublishedAt(more) = [i \in 1 .. (k + 1) |-> more[i].ts]
  BY <1>1 DEF PublishedAt
<1>6. Append(times, m.ts) = [i \in 1 .. (k + 1) |-> Append(times, m.ts)[i]]
  <2> HIDE DEF times, k
  <2> QED  BY <1>1, <1>4
<1>7. \A i \in 1 .. (k + 1) : more[i].ts = Append(times, m.ts)[i]
  <2> HIDE DEF times
  <2> QED  BY <1>1, <1>4
<1> QED  BY <1>1, <1>5, <1>6, <1>7

\* What is accounted for stays so while what has been passed on grows.
LEMMA StaysAccounted ==
    ASSUME NEW times, NEW waiting, NEW n, Accounted(times, waiting, n),
           NEW h, NEW rest, waiting \subseteq rest \union {h},
           NEW S, times \in Seq(S), h \in S,
           NEW more, more = Append(times, h)
    PROVE  Accounted(more, rest, n)
<1>1. /\ DOMAIN times = 1 .. Len(times) /\ Len(times) \in Nat
      /\ DOMAIN more = 1 .. (Len(times) + 1) /\ more[Len(times) + 1] = h
      /\ \A i \in DOMAIN times : more[i] = times[i]
  OBVIOUS
<1>2. CASE n = h
  BY <1>1, <1>2 DEF Accounted
<1>3. CASE n # h
  BY <1>1, <1>3 DEF Accounted
<1> QED  BY <1>2, <1>3

\* Only handling the front makes a difference to what waits.
LEMMA WaitingIdle ==
    ASSUME NEW q
    PROVE  Waiting(q, "idle") = Waiting(q, "handle")
BY DEF Waiting

LEMMA ArrivalKeeps ==
    ASSUME NEW all \in Seq(UsbTransfers), NEW t \in UsbTransfers
    PROVE  /\ Append(all, t) \in Seq(UsbTransfers)
           /\ DOMAIN all = 1 .. Len(all) /\ Len(all) \in Nat
           /\ DOMAIN Append(all, t) = 1 .. (Len(all) + 1)
           /\ Append(all, t)[Len(all) + 1] = t
           /\ \A n \in DOMAIN all : Append(all, t)[n] = all[n] /\ n \in DOMAIN Append(all, t)
OBVIOUS

\* A transfer comes: what waits grows by it when it goes into the queue.
LEMMA UbxArrival ==
    ASSUME arrived \in Seq(UsbTransfers), UbxFlows, InCallback
    PROVE  UbxFlows' /\ arrived' \in Seq(UsbTransfers)
<1>1. PICK t \in UsbTransfers :
        /\ arrived' = Append(arrived, t)
        /\ ubxQueue' = ubxQueue \o (IF t[1].form = "ubx" THEN <<Entry(t, "in", Len(arrived) + 1)>> ELSE <<>>)
        /\ UNCHANGED <<ubxTimer, published>>
  BY DEF InCallback
<1>2. /\ Orderly(ubxQueue, "ubx", arrived) /\ (ubxTimer # "idle" => ubxQueue # <<>>)
      /\ ubxTimer \in {"idle", "handle", "pop"} /\ published \in Seq(Messages)
      /\ Behind(PublishedAt(published), Waiting(ubxQueue, ubxTimer), arrived)
      /\ \A n \in DOMAIN arrived : Lonely(arrived[n])
           => Accounted(PublishedAt(published), Waiting(ubxQueue, ubxTimer), n)
      /\ \A i \in DOMAIN published : Faithful(published[i], arrived)
  BY DEF UbxFlows
<1>3. /\ arrived' \in Seq(UsbTransfers) /\ DOMAIN arrived' = DOMAIN arrived \union {Len(arrived) + 1}
      /\ arrived'[Len(arrived) + 1] = t
      /\ \A n \in DOMAIN arrived : arrived'[n] = arrived[n] /\ n \in DOMAIN arrived'
  BY <1>1, ArrivalKeeps
<1>4. \A i \in DOMAIN published : Faithful(published[i], arrived')
  <2> TAKE i \in DOMAIN published
  <2>1. published[i].ts \in DOMAIN arrived
    <3>1. PublishedAt(published) \in Seq(DOMAIN arrived)
          /\ i \in DOMAIN PublishedAt(published) /\ PublishedAt(published)[i] = published[i].ts
      BY <1>2 DEF Behind, PublishedAt
    <3> HIDE DEF PublishedAt
    <3> QED  BY <3>1
  <2> QED  BY <1>2, <1>3, <2>1 DEF Faithful
<1>5. CASE t[1].form = "ubx"
  <2>1. /\ Orderly(ubxQueue', "ubx", arrived') /\ ubxQueue' # <<>>
        /\ Waiting(ubxQueue', ubxTimer) = Waiting(ubxQueue, ubxTimer) \union {Len(arrived) + 1}
    <3> DEFINE at == Len(arrived) + 1
    <3>1. ubxQueue' = WithTransfer(ubxQueue, t, at)
      BY <1>1, <1>5 DEF WithTransfer
    <3>2. at = Len(arrived) + 1
      OBVIOUS
    <3> HIDE DEF at
    <3>3. /\ Orderly(ubxQueue', "ubx", Append(arrived, t)) /\ ubxQueue' # <<>>
          /\ Waiting(ubxQueue', ubxTimer) = Waiting(ubxQueue, ubxTimer) \union {at}
      BY <1>2, <1>5, <3>1, <3>2, EnqueueIn
    <3> QED  BY <1>1, <3>2, <3>3
  <2>2. Behind(PublishedAt(published), Waiting(ubxQueue', ubxTimer), arrived')
    BY <1>1, <1>2, <2>1, BehindArrival
  <2>3. \A n \in DOMAIN arrived' : Lonely(arrived'[n])
           => Accounted(PublishedAt(published), Waiting(ubxQueue', ubxTimer), n)
    BY <1>2, <1>3, <2>1 DEF Accounted
  <2> QED  BY <1>1, <1>2, <1>3, <1>4, <2>1, <2>2, <2>3 DEF UbxFlows
<1>6. CASE t[1].form # "ubx"
  <2>1. ubxQueue' = ubxQueue
    BY <1>1, <1>2, <1>6, AddsNothing DEF Orderly
  <2>2. Orderly(ubxQueue, "ubx", arrived')
    BY <1>1, <1>2, OtherArrives
  <2>3. Behind(PublishedAt(published), Waiting(ubxQueue, ubxTimer), arrived')
    BY <1>1, <1>2, BehindArrival
  <2>4. \A n \in DOMAIN arrived' : Lonely(arrived'[n])
           => Accounted(PublishedAt(published), Waiting(ubxQueue, ubxTimer), n)
    BY <1>2, <1>3, <1>6 DEF Lonely
  <2> QED  BY <1>1, <1>2, <1>3, <1>4, <2>1, <2>2, <2>3, <2>4 DEF UbxFlows
<1> QED  BY <1>5, <1>6

\* A message that is not for the receiver's transfers changes nothing.
LEMMA UbxSent ==
    ASSUME arrived \in Seq(UsbTransfers), UbxFlows, OutCallback
    PROVE  UbxFlows'
<1>1. PICK f \in Polls :
        /\ ubxQueue' = Append(ubxQueue, Entry(<<f>>, "out", Len(arrived)))
        /\ UNCHANGED <<ubxTimer, published, arrived>>
  BY DEF OutCallback
<1>2. Orderly(ubxQueue, "ubx", arrived) /\ Len(arrived) \in Nat
  BY DEF UbxFlows
<1>3. /\ Orderly(ubxQueue', "ubx", arrived) /\ ubxQueue' # <<>>
      /\ Waiting(ubxQueue', ubxTimer) = Waiting(ubxQueue, ubxTimer)
  <2>1. ubxQueue' = WithMessage(ubxQueue, f, Len(arrived))
    BY <1>1 DEF WithMessage
  <2> QED  BY <1>2, <2>1, EnqueueOut
<1> QED  BY <1>1, <1>3 DEF UbxFlows

\* The front that is taken out has been handled.
LEMMA UbxPopped ==
    ASSUME arrived \in Seq(UsbTransfers), UbxFlows, UbxPop
    PROVE  UbxFlows'
<1>1. /\ ubxTimer = "pop" /\ ubxQueue' = Popped(ubxQueue)
      /\ ubxTimer' = IF ubxQueue' = <<>> THEN "idle" ELSE "handle"
      /\ UNCHANGED <<published, arrived>>
  BY DEF UbxPop
<1>2. Orderly(ubxQueue, "ubx", arrived) /\ ubxQueue # <<>>
  BY <1>1 DEF UbxFlows
<1>3. ubxTimer' # "pop" /\ ubxTimer' \in {"idle", "handle"} /\ (ubxTimer' # "idle" => ubxQueue' # <<>>)
  BY <1>1
<1>4. /\ Orderly(ubxQueue', "ubx", arrived)
      /\ Waiting(ubxQueue', ubxTimer') = Waiting(ubxQueue, ubxTimer)
  BY <1>1, <1>2, <1>3, FrontTaken
<1> QED  BY <1>1, <1>3, <1>4 DEF UbxFlows

\* The front is published as it was received, when it is a message with a topic
\* and its checksum is right.
LEMMA UbxHandled ==
    ASSUME arrived \in Seq(UsbTransfers), UbxFlows, UbxHandle
    PROVE  UbxFlows'
<1> DEFINE e == Head(ubxQueue)
           rest == Waiting(ubxQueue, "pop")
           chosen == e.type = "in" /\ ChecksumOk(e)
           new == QueueFrameIn(e.frames[1], e.ts)
           times == PublishedAt(published)
<1>1. /\ ubxTimer = "handle" /\ ubxTimer' = "pop"
      /\ published' = published \o (IF chosen THEN new ELSE <<>>)
      /\ UNCHANGED <<ubxQueue, arrived>>
  BY DEF UbxHandle
<1>2. /\ Orderly(ubxQueue, "ubx", arrived) /\ ubxQueue # <<>> /\ published \in Seq(Messages)
      /\ Behind(times, Waiting(ubxQueue, "handle"), arrived)
      /\ \A n \in DOMAIN arrived : Lonely(arrived[n])
           => Accounted(times, Waiting(ubxQueue, "handle"), n)
      /\ \A i \in DOMAIN published : Faithful(published[i], arrived)
  BY <1>1 DEF UbxFlows
<1>3. /\ e \in Entries
      /\ e.type # "in" => rest = Waiting(ubxQueue, "handle")
      /\ e.type = "in" =>
           /\ e.ts \in DOMAIN arrived /\ e.frames = arrived[e.ts] /\ arrived[e.ts][1].form = "ubx"
           /\ Waiting(ubxQueue, "handle") = rest \union {e.ts}
           /\ \A n \in rest : e.ts < n
  BY <1>2, FrontHandled
<1> HIDE DEF e, new, times, rest, chosen
<1>4. rest \subseteq Waiting(ubxQueue, "handle")
  BY <1>3
<1> DEFINE f == e.frames[1]
<1> HIDE DEF f
<1>5. /\ e.frames \in Seq(FrameRecords) /\ e.frames # <<>> /\ e.ts \in Nat
      /\ f \in FrameRecords /\ f.msg \in STRING /\ f.blocks \in Nat
  <2>1. e.frames \in Seq(FrameRecords) /\ e.frames # <<>> /\ e.ts \in Nat
    BY <1>3 DEF Entries
  <2>2. f \in FrameRecords
    BY <2>1 DEF f
  <2> QED  BY <2>1, <2>2 DEF FrameRecords
<1>6. CASE chosen /\ f.msg \notin Silent
  <2>1. /\ e.type = "in" /\ e.ts \in DOMAIN arrived /\ f = arrived[e.ts][1] /\ f.form = "ubx"
        /\ Waiting(ubxQueue, "handle") = rest \union {e.ts} /\ \A n \in rest : e.ts < n
    BY <1>3, <1>6 DEF chosen, f
  <2>2. arrived[e.ts] \in UsbTransfers
    BY <2>1
  <2>3. /\ f.msg \in Plain \union Repeating \union {"sec_sig_v1"}
        /\ f.msg \in Plain => f.blocks = 0
    BY <1>6, <2>1, <2>2, FramesAssumption
  <2>4. PICK m \in Messages : new = <<m>> /\ m.ts = e.ts /\ Faithful(m, arrived)
    <3>1. CASE f.msg \in Plain
      <4> DEFINE m == [topic |-> f.msg, ts |-> e.ts, blocks |-> 0]
      <4>1. new = <<m>>
        BY <3>1, PublishedFor DEF Message, new, f
      <4>2. m \in Messages /\ m.ts = e.ts /\ Faithful(m, arrived)
        BY <1>5, <1>6, <2>1, <2>3, <3>1 DEF Messages, Faithful
      <4> QED  BY <4>1, <4>2
    <3>2. CASE f.msg \in Repeating
      <4> DEFINE m == [topic |-> f.msg, ts |-> e.ts, blocks |-> f.blocks]
      <4>1. new = <<m>>
        BY <3>2, PublishedFor DEF Message, new, f
      <4>2. m \in Messages /\ m.ts = e.ts /\ Faithful(m, arrived)
        <5>1. m \in Messages
          BY <1>5, <3>2 DEF Messages
        <5>2. m.topic = f.msg /\ m.blocks = f.blocks /\ m.ts = e.ts
          OBVIOUS
        <5> HIDE DEF m
        <5> QED  BY <1>6, <2>1, <5>1, <5>2 DEF Faithful
      <4> QED  BY <4>1, <4>2
    <3>3. CASE f.msg = "sec_sig_v1"
      <4> DEFINE m == [topic |-> "sec_sig", ts |-> e.ts, blocks |-> 0]
      <4>1. new = <<m>>
        BY <3>3, PublishedFor DEF Message, new, f
      <4>2. "sec_sig" \in Plain \union Repeating
        BY DEF Repeating
      <4>3. m \in Messages /\ m.ts = e.ts /\ m.blocks = 0
        BY <1>5, <4>2 DEF Messages
      <4>4. Faithful(m, arrived)
        BY <1>6, <2>1, <3>3, <4>3 DEF Faithful
      <4> QED  BY <4>1, <4>3, <4>4
    <3> QED  BY <2>3, <3>1, <3>2, <3>3
  <2>5. published' = published \o <<m>>
    BY <1>1, <1>6, <2>4
  <2>6. /\ published' \in Seq(Messages) /\ DOMAIN published' = 1 .. (Len(published) + 1)
        /\ DOMAIN published = 1 .. Len(published) /\ Len(published) \in Nat
        /\ published'[Len(published) + 1] = m /\ \A i \in DOMAIN published : published'[i] = published[i]
        /\ PublishedAt(published') = Append(times, e.ts)
    <3> DEFINE more == WithOneMore(published, m)
    <3>1. published' = more
      BY <2>5 DEF WithOneMore
    <3>2. /\ more \in Seq(Messages) /\ DOMAIN more = 1 .. (Len(published) + 1)
          /\ DOMAIN published = 1 .. Len(published) /\ Len(published) \in Nat
          /\ more[Len(published) + 1] = m /\ \A i \in DOMAIN published : more[i] = published[i]
          /\ PublishedAt(more) = Append(PublishedAt(published), m.ts)
      <4>1. published \in Seq(Messages) /\ m \in Messages
        BY <1>2, <2>4
      <4>2. more \in Seq(Messages)
        BY ONLY <4>1, PublishedGrows
      <4>3. DOMAIN more = 1 .. (Len(published) + 1)
        BY ONLY <4>1, PublishedGrows
      <4>4. more[Len(published) + 1] = m /\ \A i \in DOMAIN published : more[i] = published[i]
        BY ONLY <4>1, PublishedGrows
      <4>5. PublishedAt(more) = Append(PublishedAt(published), m.ts)
        BY ONLY <4>1, PublishedGrows
      <4> QED  BY <4>2, <4>3, <4>4, <4>5
    <3> HIDE DEF more
    <3>3. PublishedAt(more) = Append(times, e.ts)
      BY <2>4, <3>2 DEF times
    <3> QED  BY <3>1, <3>2, <3>3
  <2>7. Behind(PublishedAt(published'), rest, arrived)
    BY <1>2, <2>1, <2>6, LogGrows
  <2>8. \A n \in DOMAIN arrived : Lonely(arrived[n]) => Accounted(PublishedAt(published'), rest, n)
    <3>1. times \in Seq(DOMAIN arrived)
      BY <1>2 DEF Behind
    <3> QED  BY <1>2, <2>1, <2>6, <3>1, StaysAccounted
  <2>9. \A i \in DOMAIN published' : Faithful(published'[i], arrived)
    BY <1>2, <2>4, <2>6
  <2> QED  BY <1>1, <1>2, <2>6, <2>7, <2>8, <2>9 DEF UbxFlows, rest
<1>7. CASE ~(chosen /\ f.msg \notin Silent)
  <2>1. published' = published
    <3>1. chosen => new = <<>>
      BY <1>7, PublishedFor DEF new, f
    <3> QED  BY <1>1, <1>2, <3>1, AddsNothing
  <2>2. e.type = "in" => ~Lonely(arrived[e.ts])
    <3>1. ASSUME e.type = "in", Lonely(arrived[e.ts]) PROVE FALSE
      BY <1>3, <1>7, <3>1 DEF Lonely, chosen, f, ChecksumOk
    <3> QED  BY <3>1
  <2>3. \A n \in DOMAIN arrived : Lonely(arrived[n]) => Accounted(times, rest, n)
    BY <1>2, <1>3, <2>2 DEF Accounted
  <2>4. Behind(times, rest, arrived)
    BY <1>2, <1>4, BehindFewer
  <2> QED  BY <1>1, <1>2, <2>1, <2>3, <2>4 DEF UbxFlows, rest, times
<1> QED  BY <1>6, <1>7

\* The RTCM queue: only transfers, each relayed.
LEMMA RtcmArrival ==
    ASSUME arrived \in Seq(UsbTransfers), RtcmFlows, InCallback
    PROVE  RtcmFlows'
<1>1. PICK t \in UsbTransfers :
        /\ arrived' = Append(arrived, t)
        /\ rtcmQueue' = rtcmQueue \o (IF t[1].form = "rtcm" THEN <<Entry(t, "in", Len(arrived) + 1)>> ELSE <<>>)
        /\ UNCHANGED <<rtcmTimer, relayed>>
  BY DEF InCallback
<1>2. /\ Orderly(rtcmQueue, "rtcm", arrived) /\ (rtcmTimer # "idle" => rtcmQueue # <<>>)
      /\ rtcmTimer \in {"idle", "handle", "pop"} /\ rtcmQueue \in Seq(Entries)
      /\ \A i \in DOMAIN rtcmQueue : rtcmQueue[i].type = "in"
      /\ Behind(relayed, Waiting(rtcmQueue, rtcmTimer), arrived)
      /\ \A n \in DOMAIN arrived : arrived[n][1].form = "rtcm"
           => Accounted(relayed, Waiting(rtcmQueue, rtcmTimer), n)
  BY DEF RtcmFlows, Orderly
<1>3. /\ arrived' \in Seq(UsbTransfers) /\ DOMAIN arrived' = DOMAIN arrived \union {Len(arrived) + 1}
      /\ arrived'[Len(arrived) + 1] = t
      /\ \A n \in DOMAIN arrived : arrived'[n] = arrived[n] /\ n \in DOMAIN arrived'
  BY <1>1, ArrivalKeeps
<1>4. CASE t[1].form = "rtcm"
  <2> DEFINE at == Len(arrived) + 1
  <2>1. rtcmQueue' = WithTransfer(rtcmQueue, t, at)
    BY <1>1, <1>4 DEF WithTransfer
  <2>2. at = Len(arrived) + 1
    OBVIOUS
  <2> HIDE DEF at
  <2>3. /\ Orderly(rtcmQueue', "rtcm", Append(arrived, t)) /\ rtcmQueue' # <<>>
        /\ Waiting(rtcmQueue', rtcmTimer) = Waiting(rtcmQueue, rtcmTimer) \union {at}
    BY <1>2, <1>4, <2>1, <2>2, EnqueueIn
  <2>4. \A i \in DOMAIN rtcmQueue' : rtcmQueue'[i].type = "in"
    <3> DEFINE e == Entry(t, "in", at)
    <3>1. e \in Entries /\ e.type = "in"
      BY <2>2, FramesAssumption DEF Entry, Entries
    <3> HIDE DEF e
    <3>2. rtcmQueue' = rtcmQueue \o <<e>>
      BY <2>1 DEF WithTransfer, e
    <3> QED  BY <1>2, <3>1, <3>2
  <2>5. Behind(relayed, Waiting(rtcmQueue', rtcmTimer), arrived')
    BY <1>1, <1>2, <2>2, <2>3, BehindArrival
  <2>6. \A n \in DOMAIN arrived' : arrived'[n][1].form = "rtcm"
           => Accounted(relayed, Waiting(rtcmQueue', rtcmTimer), n)
    BY <1>2, <1>3, <2>2, <2>3 DEF Accounted
  <2> QED  BY <1>1, <1>2, <2>3, <2>4, <2>5, <2>6 DEF RtcmFlows
<1>5. CASE t[1].form # "rtcm"
  <2>1. rtcmQueue' = rtcmQueue
    BY <1>1, <1>2, <1>5, AddsNothing
  <2>2. Orderly(rtcmQueue, "rtcm", arrived')
    BY <1>1, <1>2, OtherArrives
  <2>3. Behind(relayed, Waiting(rtcmQueue, rtcmTimer), arrived')
    BY <1>1, <1>2, BehindArrival
  <2>4. \A n \in DOMAIN arrived' : arrived'[n][1].form = "rtcm"
           => Accounted(relayed, Waiting(rtcmQueue, rtcmTimer), n)
    BY <1>2, <1>3, <1>5
  <2> QED  BY <1>1, <1>2, <2>1, <2>2, <2>3, <2>4 DEF RtcmFlows
<1> QED  BY <1>4, <1>5

LEMMA RtcmPopped ==
    ASSUME arrived \in Seq(UsbTransfers), RtcmFlows, RtcmPop
    PROVE  RtcmFlows'
<1>1. /\ rtcmTimer = "pop" /\ rtcmQueue' = Popped(rtcmQueue)
      /\ rtcmTimer' = IF rtcmQueue' = <<>> THEN "idle" ELSE "handle"
      /\ UNCHANGED <<relayed, arrived>>
  BY DEF RtcmPop
<1>2. /\ Orderly(rtcmQueue, "rtcm", arrived) /\ rtcmQueue # <<>> /\ rtcmQueue \in Seq(Entries)
      /\ \A i \in DOMAIN rtcmQueue : rtcmQueue[i].type = "in"
  BY <1>1 DEF RtcmFlows, Orderly
<1>3. rtcmTimer' # "pop" /\ rtcmTimer' \in {"idle", "handle"} /\ (rtcmTimer' # "idle" => rtcmQueue' # <<>>)
  BY <1>1
<1>4. /\ Orderly(rtcmQueue', "rtcm", arrived)
      /\ Waiting(rtcmQueue', rtcmTimer') = Waiting(rtcmQueue, rtcmTimer)
  BY <1>1, <1>2, <1>3, FrontTaken
<1>5. \A i \in DOMAIN rtcmQueue' : rtcmQueue'[i].type = "in"
  BY <1>1, <1>2 DEF Popped
<1> QED  BY <1>1, <1>3, <1>4, <1>5 DEF RtcmFlows

LEMMA RtcmHandled ==
    ASSUME arrived \in Seq(UsbTransfers), RtcmFlows, RtcmHandle
    PROVE  RtcmFlows'
<1> DEFINE e == Head(rtcmQueue)
           rest == Waiting(rtcmQueue, "pop")
<1>1. /\ rtcmTimer = "handle" /\ rtcmTimer' = "pop"
      /\ relayed' = Append(relayed, e.ts)
      /\ UNCHANGED <<rtcmQueue, arrived>>
  BY DEF RtcmHandle
<1>2. /\ Orderly(rtcmQueue, "rtcm", arrived) /\ rtcmQueue # <<>>
      /\ \A i \in DOMAIN rtcmQueue : rtcmQueue[i].type = "in"
      /\ Behind(relayed, Waiting(rtcmQueue, "handle"), arrived)
      /\ \A n \in DOMAIN arrived : arrived[n][1].form = "rtcm"
           => Accounted(relayed, Waiting(rtcmQueue, "handle"), n)
  BY <1>1 DEF RtcmFlows
<1>3. /\ e = rtcmQueue[1] /\ 1 \in DOMAIN rtcmQueue
      /\ e.type = "in" =>
           /\ e.ts \in DOMAIN arrived
           /\ Waiting(rtcmQueue, "handle") = rest \union {e.ts}
           /\ \A n \in rest : e.ts < n
  BY <1>2, FrontHandled
<1> HIDE DEF e, rest
<1>4. e.ts \in DOMAIN arrived /\ Waiting(rtcmQueue, "handle") = rest \union {e.ts} /\ \A n \in rest : e.ts < n
  BY <1>2, <1>3
<1>5. Behind(Append(relayed, e.ts), rest, arrived)
  BY <1>2, <1>4, LogGrows
<1>6. \A n \in DOMAIN arrived : arrived[n][1].form = "rtcm" => Accounted(Append(relayed, e.ts), rest, n)
  <2>1. relayed \in Seq(DOMAIN arrived)
    BY <1>2 DEF Behind
  <2> QED  BY <1>2, <1>4, <2>1, StaysAccounted
<1> QED  BY <1>1, <1>2, <1>5, <1>6 DEF RtcmFlows, rest

-----------------------------------------------------------------------------
\* Nothing has come yet.
LEMMA FramesStart == FramesInit => FramesInv
<1> SUFFICES ASSUME FramesInit PROVE FramesInv
  OBVIOUS
<1>1. /\ ubxQueue = <<>> /\ rtcmQueue = <<>> /\ ubxTimer = "idle" /\ rtcmTimer = "idle"
      /\ published = <<>> /\ relayed = <<>> /\ arrived = <<>>
  BY DEF FramesInit
<1>2. DOMAIN <<>> = {} /\ \A S : <<>> \in Seq(S)
  OBVIOUS
<1>3. PublishedAt(published) = <<>>
  BY <1>1, <1>2 DEF PublishedAt
<1>4. Orderly(ubxQueue, "ubx", arrived) /\ Orderly(rtcmQueue, "rtcm", arrived)
  BY <1>1, <1>2 DEF Orderly
<1>5. /\ Behind(PublishedAt(published), Waiting(ubxQueue, ubxTimer), arrived)
      /\ Behind(relayed, Waiting(rtcmQueue, rtcmTimer), arrived)
  BY <1>1, <1>2, <1>3 DEF Behind, Increasing
<1>6. UbxFlows
  BY <1>1, <1>2, <1>4, <1>5 DEF UbxFlows
<1>7. RtcmFlows
  BY <1>1, <1>2, <1>4, <1>5 DEF RtcmFlows
<1> QED  BY <1>1, <1>2, <1>6, <1>7 DEF FramesInv

\* Steps that leave a queue, its timer, its log and the transfers alone.
LEMMA FlowsStand ==
    /\ UbxFlows /\ UNCHANGED <<ubxQueue, ubxTimer, published, arrived>> => UbxFlows'
    /\ RtcmFlows /\ UNCHANGED <<rtcmQueue, rtcmTimer, relayed, arrived>> => RtcmFlows'
BY DEF UbxFlows, RtcmFlows

LEMMA FramesStep == FramesInv /\ [FramesNext]_frameVars => FramesInv'
<1> SUFFICES ASSUME FramesInv, [FramesNext]_frameVars PROVE FramesInv'
  OBVIOUS
<1> USE DEF FramesInv
<1>1. CASE InCallback
  BY <1>1, UbxArrival, RtcmArrival
<1>2. CASE OutCallback
  <2>1. UNCHANGED <<rtcmQueue, rtcmTimer, relayed, arrived>>
    BY <1>2 DEF OutCallback
  <2> QED  BY <1>2, <2>1, UbxSent, FlowsStand
<1>3. CASE UbxTick
  <2>1. /\ ubxTimer = "idle" /\ ubxTimer' = "handle" /\ ubxQueue # <<>>
        /\ UNCHANGED <<ubxQueue, published, arrived, rtcmQueue, rtcmTimer, relayed>>
    BY <1>3 DEF UbxTick
  <2>2. UbxFlows'
    BY <2>1, WaitingIdle DEF UbxFlows
  <2> QED  BY <2>1, <2>2, FlowsStand
<1>4. CASE UbxHandle
  <2>1. UNCHANGED <<rtcmQueue, rtcmTimer, relayed, arrived>>
    BY <1>4 DEF UbxHandle
  <2> QED  BY <1>4, <2>1, UbxHandled, FlowsStand
<1>5. CASE UbxPop
  <2>1. UNCHANGED <<rtcmQueue, rtcmTimer, relayed, arrived>>
    BY <1>5 DEF UbxPop
  <2> QED  BY <1>5, <2>1, UbxPopped, FlowsStand
<1>6. CASE RtcmTick
  <2>1. /\ rtcmTimer = "idle" /\ rtcmTimer' = "handle" /\ rtcmQueue # <<>>
        /\ UNCHANGED <<rtcmQueue, relayed, arrived, ubxQueue, ubxTimer, published>>
    BY <1>6 DEF RtcmTick
  <2>2. RtcmFlows'
    BY <2>1, WaitingIdle DEF RtcmFlows
  <2> QED  BY <2>1, <2>2, FlowsStand
<1>7. CASE RtcmHandle
  <2>1. UNCHANGED <<ubxQueue, ubxTimer, published, arrived>>
    BY <1>7 DEF RtcmHandle
  <2> QED  BY <1>7, <2>1, RtcmHandled, FlowsStand
<1>8. CASE RtcmPop
  <2>1. UNCHANGED <<ubxQueue, ubxTimer, published, arrived>>
    BY <1>8 DEF RtcmPop
  <2> QED  BY <1>8, <2>1, RtcmPopped, FlowsStand
<1>9. CASE Plugged \/ StopRunning \/ UNCHANGED frameVars
  <2>1. UNCHANGED <<ubxQueue, ubxTimer, published, arrived, rtcmQueue, rtcmTimer, relayed>>
    BY <1>9 DEF Plugged, StopRunning, frameVars
  <2> QED  BY <2>1, FlowsStand
<1> QED
  BY <1>1, <1>2, <1>3, <1>4, <1>5, <1>6, <1>7, <1>8, <1>9 DEF FramesNext, UbxTask, RtcmTask

\* What flows so is published exactly once, in order and as it was.
LEMMA FlowsAreRight == FramesInv => GnssFramesOK
<1> SUFFICES ASSUME FramesInv PROVE GnssFramesOK
  OBVIOUS
<1> DEFINE times == PublishedAt(published)
           toPublish == Waiting(ubxQueue, ubxTimer)
           toRelay == Waiting(rtcmQueue, rtcmTimer)
<1>1. times = [i \in DOMAIN published |-> published[i].ts] /\ DOMAIN times = DOMAIN published
  BY DEF PublishedAt
<1>2. /\ Increasing(times) /\ \A i \in DOMAIN times, n \in toPublish : times[i] < n
      /\ times \in Seq(DOMAIN arrived)
      /\ \A i \in DOMAIN published : Faithful(published[i], arrived)
      /\ \A n \in DOMAIN arrived : Lonely(arrived[n]) => Accounted(times, toPublish, n)
  BY DEF FramesInv, UbxFlows, Behind
<1>3. /\ Increasing(relayed) /\ \A i \in DOMAIN relayed, n \in toRelay : relayed[i] < n
      /\ relayed \in Seq(DOMAIN arrived)
      /\ \A n \in DOMAIN arrived : arrived[n][1].form = "rtcm" => Accounted(relayed, toRelay, n)
  BY DEF FramesInv, RtcmFlows, Behind
<1>4. DOMAIN arrived \subseteq Nat
  BY DEF FramesInv
<1>5. \A n \in DOMAIN arrived : ~(n < n)
  BY <1>4
<1> HIDE DEF times, toPublish, toRelay
<1>6. ASSUME NEW i \in DOMAIN published
      PROVE  LET f == arrived[times[i]][1]
             IN  /\ f.form = "ubx" /\ f.msg \notin Silent
                 /\ \/ published[i].topic = f.msg /\ published[i].blocks = f.blocks
                    \/ f.msg = "sec_sig_v1" /\ published[i].blocks = 0
  BY <1>1, <1>2 DEF Faithful
<1>7. ASSUME NEW n \in DOMAIN arrived, Lonely(arrived[n])
      PROVE  (\E i \in DOMAIN published : times[i] = n) # (n \in toPublish)
  BY <1>1, <1>2, <1>5, <1>7, Zenon DEF Accounted
<1>8. ASSUME NEW n \in DOMAIN arrived, arrived[n][1].form = "rtcm"
      PROVE  (\E i \in DOMAIN relayed : relayed[i] = n) # (n \in toRelay)
  BY <1>3, <1>5, <1>8, Zenon DEF Accounted
<1> QED
  BY <1>1, <1>2, <1>3, <1>6, <1>7, <1>8, Zenon DEF GnssFramesOK, Lonely, times, toPublish, toRelay

\* Whatever the callbacks, the timers, the plug and the stop interleave to, each
\* message that comes in a transfer of its own is published exactly once, in the
\* order of arrival and with its blocks, and each correction is relayed once.
THEOREM FramesPassOn == FramesSpec => []GnssFramesOK
BY FramesStart, FramesStep, FlowsAreRight, PTL DEF FramesSpec

\* What the queues hold, and the other variables.
Transported(f) == f \in UsbTransfers \union {<<p>> : p \in Polls}
Queued(queue) == \A i \in DOMAIN queue : Transported(queue[i].frames) /\ queue[i].ts \in 0 .. MaxTransfers

FramesRest ==
    /\ usbConnected \in BOOLEAN /\ keepRunning \in BOOLEAN
    /\ Queued(ubxQueue) /\ Queued(rtcmQueue)
    /\ shown \subseteq {"sw_version", "hw_version", "version_extension", "unique_id"}
    /\ Len(arrived) <= MaxTransfers /\ polled \in 0 .. MaxPolls

\* An entry joins the queue; the front is taken out of it.
LEMMA QueuedMore ==
    ASSUME NEW q \in Seq(Entries), Queued(q), NEW e \in Entries,
           Transported(e.frames), e.ts \in 0 .. MaxTransfers
    PROVE  Queued(q \o <<e>>) /\ Queued(Append(q, e)) /\ Queued(q \o <<>>)
<1>1. \A i \in DOMAIN (q \o <<e>>) :
         (i \in DOMAIN q /\ (q \o <<e>>)[i] = q[i]) \/ (q \o <<e>>)[i] = e
  OBVIOUS
<1>2. Append(q, e) = q \o <<e>> /\ q \o <<>> = q
  OBVIOUS
<1> QED  BY <1>1, <1>2 DEF Queued

LEMMA QueuedFewer ==
    ASSUME NEW q \in Seq(Entries), Queued(q), q # <<>>
    PROVE  Queued(Popped(q))
<1>1. \A i \in DOMAIN Tail(q) : i + 1 \in DOMAIN q /\ Tail(q)[i] = q[i + 1]
  OBVIOUS
<1> QED  BY <1>1 DEF Queued, Popped

\* Each step keeps what it queues and counts in its bounds.
LEMMA FramesRestStep ==
    ASSUME FramesInv, FramesRest, [FramesNext]_frameVars
    PROVE  FramesRest'
<1>0. /\ ubxQueue \in Seq(Entries) /\ rtcmQueue \in Seq(Entries) /\ arrived \in Seq(UsbTransfers)
      /\ ubxTimer # "idle" => ubxQueue # <<>>
      /\ rtcmTimer # "idle" => rtcmQueue # <<>>
      /\ MaxTransfers \in Nat /\ MaxPolls \in Nat /\ Len(arrived) \in Nat
  BY FramesAssumption DEF FramesInv, UbxFlows, RtcmFlows, Orderly
<1>1. CASE Plugged
  <2>1. usbConnected' \in BOOLEAN
    BY <1>1, Zenon DEF Plugged
  <2>2. UNCHANGED <<keepRunning, ubxQueue, rtcmQueue, shown, arrived, polled>>
    BY <1>1 DEF Plugged
  <2> QED  BY <2>1, <2>2 DEF FramesRest
<1>2. CASE InCallback
  <2>1. PICK t \in UsbTransfers :
          LET queued == <<Entry(t, "in", Len(arrived) + 1)>>
          IN  /\ arrived' = Append(arrived, t)
              /\ ubxQueue' = ubxQueue \o IF t[1].form = "ubx" THEN queued ELSE <<>>
              /\ rtcmQueue' = rtcmQueue \o IF t[1].form = "rtcm" THEN queued ELSE <<>>
    BY <1>2 DEF InCallback
  <2> DEFINE e == Entry(t, "in", Len(arrived) + 1)
  <2>2. Len(arrived) < MaxTransfers /\ UNCHANGED <<usbConnected, keepRunning, shown, polled>>
    BY <1>2 DEF InCallback
  <2>3. e \in Entries /\ Transported(e.frames) /\ e.ts \in 0 .. MaxTransfers
    BY <1>0, <2>2, FramesAssumption DEF Entry, Entries, Transported
  <2>4. /\ ubxQueue' \in {ubxQueue \o <<e>>, ubxQueue \o <<>>}
        /\ rtcmQueue' \in {rtcmQueue \o <<e>>, rtcmQueue \o <<>>}
    BY <2>1
  <2>5. Len(arrived') = Len(arrived) + 1
    BY <1>0, <2>1
  <2> HIDE DEF e
  <2>6. Queued(ubxQueue)' /\ Queued(rtcmQueue)'
    BY <1>0, <2>3, <2>4, QueuedMore DEF FramesRest
  <2> QED  BY <1>0, <2>2, <2>5, <2>6 DEF FramesRest
<1>3. CASE OutCallback
  <2>1. PICK f \in Polls : ubxQueue' = Append(ubxQueue, Entry(<<f>>, "out", Len(arrived)))
    BY <1>3 DEF OutCallback
  <2> DEFINE e == Entry(<<f>>, "out", Len(arrived))
  <2>2. /\ polled < MaxPolls /\ polled' = polled + 1
        /\ UNCHANGED <<usbConnected, keepRunning, rtcmQueue, shown, arrived>>
    BY <1>3 DEF OutCallback
  <2>3. e \in Entries /\ Transported(e.frames) /\ e.ts \in 0 .. MaxTransfers
    BY <1>0, FramesAssumption DEF Entry, Entries, Transported, FramesRest
  <2> HIDE DEF e
  <2>4. Queued(ubxQueue)'
    BY <1>0, <2>1, <2>3, QueuedMore DEF FramesRest, e
  <2>5. polled' \in 0 .. MaxPolls
    BY <1>0, <2>2 DEF FramesRest
  <2> QED  BY <2>2, <2>4, <2>5 DEF FramesRest
<1>4. CASE UbxTick \/ RtcmTick \/ RtcmHandle
  BY <1>4 DEF UbxTick, RtcmTick, RtcmHandle, FramesRest
<1>5. CASE UbxHandle
  <2>1. shown' \subseteq {"sw_version", "hw_version", "version_extension", "unique_id"}
    BY <1>5 DEF UbxHandle, ShownBy, FramesRest
  <2>2. UNCHANGED <<usbConnected, keepRunning, ubxQueue, rtcmQueue, arrived, polled>>
    BY <1>5 DEF UbxHandle
  <2> QED  BY <2>1, <2>2 DEF FramesRest
<1>6. CASE UbxPop
  <2>1. Queued(ubxQueue)'
    BY <1>0, <1>6, QueuedFewer DEF UbxPop, FramesRest
  <2> QED  BY <1>6, <2>1 DEF UbxPop, FramesRest
<1>7. CASE RtcmPop
  <2>1. Queued(rtcmQueue)'
    BY <1>0, <1>7, QueuedFewer DEF RtcmPop, FramesRest
  <2> QED  BY <1>7, <2>1 DEF RtcmPop, FramesRest
<1>8. CASE StopRunning
  BY <1>8 DEF StopRunning, FramesRest
<1>9. CASE UNCHANGED frameVars
  BY <1>9 DEF frameVars, FramesRest
<1> QED
  BY <1>1, <1>2, <1>3, <1>4, <1>5, <1>6, <1>7, <1>8, <1>9 DEF FramesNext, UbxTask, RtcmTask

\* The queues hold nothing but what the receiver has sent and what the driver has.
THEOREM FramesTyped == FramesSpec => []FramesTypeOK
<1>1. FramesInit => FramesRest
  <2> SUFFICES ASSUME FramesInit PROVE FramesRest
    OBVIOUS
  <2>1. usbConnected \in BOOLEAN /\ keepRunning \in BOOLEAN
    BY Zenon DEF FramesInit
  <2> QED  BY <2>1, FramesAssumption DEF FramesInit, FramesRest, Queued
<1>2. FramesInv /\ FramesRest => FramesTypeOK
  <2> SUFFICES ASSUME FramesInv, FramesRest PROVE FramesTypeOK
    OBVIOUS
  <2>1. \A e \in {ubxQueue[i] : i \in DOMAIN ubxQueue} \union {rtcmQueue[i] : i \in DOMAIN rtcmQueue} :
          e.frames \in UsbTransfers \union {<<f>> : f \in Polls} /\ e.ts \in 0 .. MaxTransfers
    BY DEF FramesRest, Queued, Transported
  <2>2. {ubxTimer, rtcmTimer} \subseteq {"idle", "handle", "pop"} /\ arrived \in Seq(UsbTransfers)
    BY DEF FramesInv, UbxFlows, RtcmFlows
  <2>3. {usbConnected, keepRunning} \subseteq BOOLEAN
    BY Zenon DEF FramesRest
  <2> QED  BY <2>1, <2>2, <2>3, Zenon DEF FramesRest, FramesTypeOK
<1> QED  BY <1>1, <1>2, FramesStart, FramesStep, FramesRestStep, PTL DEF FramesSpec

-----------------------------------------------------------------------------
(* The configuration. *)

\* The driver's handling of the configuration alone.
ParamsSpec == ParamsInit /\ [][ParamsNext]_cfgVars

\* What a parameter, a message and an answer hold.
ParamValues == CfgValues \union {Unset}
ParamStates == [value : ParamValues, source : {"unknown", "start", "user", "device"},
                status : {"initial", "user", "valset", "valget", "loaded"}, send : BOOLEAN]
Configs == UNION {[ps -> CfgValues] : ps \in SUBSET Params}
\* A request for values names its items; it holds none of their values.
Polled == UNION {[ps -> {0}] : ps \in SUBSET Params}
Requests == [op : {"set"}, cfg : Configs] \union [op : {"ram", "default"}, cfg : Polled]
Answers == [fresh : BOOLEAN, cfg : Configs]

\* Everything has its type, what a user has set has a value, and what is on its
\* way to a receiver is lost with it.
ParamsShape ==
    /\ cache \in [Params -> ParamStates] /\ chipRam \in [Params -> CfgValues]
    /\ \A p \in Params : cache[p].status = "user" => cache[p].value \in CfgValues
    /\ wire \in Seq(Requests) /\ answers \in Seq(Answers)
    /\ mirrored = <<>> \/ \E p \in Params, v \in CfgValues : mirrored = <<p, v>>
    /\ batch.items \subseteq Params
    /\ ~conn => wire = <<>> /\ ~ready

Mentions(seq, p) == \E i \in DOMAIN seq : p \in Items(seq[i])
Mirroring(p) == mirrored # <<>> /\ mirrored[1] = p

\* A start argument keeps its value; all that is sent of it is that value, and
\* the receiver holds it once that is taken in.
KeepsArg(p) ==
    /\ cache[p] = ParamState(StartArgs[p], "start", "user", FALSE)
    /\ p \notin batch.items /\ ~Mentions(answers, p) /\ ~Mirroring(p)
    /\ \A i \in DOMAIN wire : p \in Items(wire[i]) => wire[i].op = "set" /\ wire[i].cfg[p] = StartArgs[p]
    /\ conn /\ ready /\ p \notin refused /\ ~Mentions(wire, p) => chipRam[p] = StartArgs[p]

\* Other items that no user has set are asked for and never sent.
OnlyFetched(p) ==
    /\ cache[p].status # "user" /\ p \notin batch.items
    /\ Mirroring(p) => cache[p].value = Unset \/ cache[p].source = "device"
    /\ \A i \in DOMAIN wire : p \in Items(wire[i]) => wire[i].op # "set"

\* Another value is to come; a value is the RAM layer's.
Due(p) == Mentions(wire, p) \/ Mentions(answers, p)
FromChip(p, v) == v = LowByte(chipRam[p])

\* The RAM layer is always asked for last.
RamLast(p) ==
    \A i \in DOMAIN wire : p \in Items(wire[i]) /\ wire[i].op # "ram" =>
        \E j \in DOMAIN wire : i < j /\ p \in Items(wire[j]) /\ wire[j].op = "ram"

\* The last answer of the receiver is the RAM layer's, unless another is to come.
AnswersRight(p) ==
    \A i \in DOMAIN answers : p \in Items(answers[i]) /\ answers[i].fresh =>
        \/ FromChip(p, answers[i].cfg[p]) \/ Mentions(wire, p)
        \/ \E j \in DOMAIN answers : i < j /\ p \in Items(answers[j])

\* So is what is loaded or about to be shown, unless it is of a receiver that left.
CacheRight(p) ==
    p \notin stale =>
      /\ cache[p].status = "loaded" => FromChip(p, cache[p].value) \/ Due(p) \/ Mirroring(p)
      /\ Mirroring(p) => FromChip(p, mirrored[2]) \/ Due(p)

\* Without a receiver, all that is loaded is of one that left.
GoneIsStale(p) ==
    ~conn => /\ cache[p].status = "loaded" \/ Mirroring(p) => p \in stale
             /\ \A i \in DOMAIN answers : ~answers[i].fresh

\* A refused request excuses its items.
FetchedRight(p) == p \notin refused => RamLast(p) /\ AnswersRight(p) /\ CacheRight(p)

\* The inductive invariant.
ArgsKept == \A p \in DOMAIN StartArgs \ touched : KeepsArg(p)
RestRight == \A p \in Params \ (DOMAIN StartArgs \union touched) :
                OnlyFetched(p) /\ FetchedRight(p) /\ GoneIsStale(p)

ParamsInv == ParamsShape /\ ArgsKept /\ RestRight

\* The constants hold the values that states hold.
LEMMA ConstantValues ==
    /\ CfgValues \subseteq ParamValues /\ UserValues \subseteq CfgValues /\ Unset \in ParamValues
    /\ \A v \in CfgValues : LowByte(v) \in CfgValues
    /\ \A c \in Receivers \union {Factory} : c \in [Params -> CfgValues]
    /\ DOMAIN StartArgs \subseteq Params
    /\ \A p \in DOMAIN StartArgs : StartArgs[p] \in CfgValues /\ StartArgs[p] \in ParamValues
<1>1. CfgValues \subseteq Nat /\ Byte \in Nat \ {0} /\ CfgValues \subseteq ParamValues /\ Unset \in ParamValues
  BY ParamsAssumption DEF ParamValues
<1>2. ASSUME NEW v \in CfgValues PROVE LowByte(v) \in CfgValues
  BY ParamsAssumption DEF LowByte
<1>3. UserValues \subseteq CfgValues /\ \A c \in Receivers \union {Factory} : c \in [Params -> CfgValues]
  BY ParamsAssumption
<1>4. /\ DOMAIN StartArgs \subseteq Params
      /\ \A p \in DOMAIN StartArgs : StartArgs[p] \in CfgValues /\ StartArgs[p] \in ParamValues
  BY <1>1, ParamsAssumption
<1> QED  BY <1>1, <1>2, <1>3, <1>4

\* What a state of a parameter holds.
LEMMA StateFields ==
    ASSUME NEW v, NEW src, NEW status, NEW send
    PROVE  /\ ParamState(v, src, status, send).value = v
           /\ ParamState(v, src, status, send).source = src
           /\ ParamState(v, src, status, send).status = status
           /\ ParamState(v, src, status, send).send = send
BY Zenon DEF ParamState

LEMMA StateTyped ==
    ASSUME NEW v \in ParamValues, NEW src \in {"unknown", "start", "user", "device"},
           NEW status \in {"initial", "user", "valset", "valget", "loaded"}, NEW send \in BOOLEAN
    PROVE  ParamState(v, src, status, send) \in ParamStates
BY Zenon DEF ParamState, ParamStates

LEMMA StateShape ==
    ASSUME NEW p \in Params, cache \in [Params -> ParamStates]
    PROVE  /\ cache[p] \in ParamStates /\ cache[p].value \in ParamValues
           /\ cache[p].source \in {"unknown", "start", "user", "device"}
           /\ cache[p].status \in {"initial", "user", "valset", "valget", "loaded"}
           /\ cache[p].send \in BOOLEAN
<1>1. cache[p] \in ParamStates
  OBVIOUS
<1> QED  BY <1>1, Zenon DEF ParamStates

\* The front of a sequence is taken off.
LEMMA TailShape ==
    ASSUME NEW S, NEW s \in Seq(S), s # <<>>
    PROVE  /\ Len(s) \in Nat \ {0} /\ DOMAIN s = 1 .. Len(s)
           /\ Head(s) \in S /\ Head(s) = s[1] /\ 1 \in DOMAIN s
           /\ Tail(s) \in Seq(S) /\ DOMAIN Tail(s) = 1 .. (Len(s) - 1)
           /\ \A i \in DOMAIN Tail(s) : i + 1 \in DOMAIN s /\ Tail(s)[i] = s[i + 1]
           /\ \A i \in DOMAIN s : i = 1 \/ (i - 1 \in DOMAIN Tail(s) /\ Tail(s)[i - 1] = s[i])
<1>1. /\ Len(s) \in Nat \ {0} /\ DOMAIN s = 1 .. Len(s)
      /\ Head(s) \in S /\ Head(s) = s[1] /\ 1 \in DOMAIN s
      /\ Tail(s) \in Seq(S) /\ DOMAIN Tail(s) = 1 .. (Len(s) - 1)
  OBVIOUS
<1>2. \A i \in DOMAIN Tail(s) : i + 1 \in DOMAIN s /\ Tail(s)[i] = s[i + 1]
  BY <1>1
<1>3. \A i \in DOMAIN s : i = 1 \/ (i - 1 \in DOMAIN Tail(s) /\ Tail(s)[i - 1] = s[i])
  BY <1>1
<1> QED  BY <1>1, <1>2, <1>3

LEMMA JoinShape ==
    ASSUME NEW S, NEW s \in Seq(S), NEW t \in Seq(S)
    PROVE  /\ s \o t \in Seq(S) /\ Len(s) \in Nat /\ Len(t) \in Nat
           /\ DOMAIN s = 1 .. Len(s) /\ DOMAIN t = 1 .. Len(t)
           /\ DOMAIN (s \o t) = 1 .. (Len(s) + Len(t))
           /\ \A i \in DOMAIN s : (s \o t)[i] = s[i]
           /\ \A i \in DOMAIN t : Len(s) + i \in DOMAIN (s \o t) /\ (s \o t)[Len(s) + i] = t[i]
           /\ \A i \in DOMAIN (s \o t) : i \in DOMAIN s \/ (i - Len(s) \in DOMAIN t /\ (s \o t)[i] = t[i - Len(s)])
<1>1. /\ Len(s) \in Nat /\ Len(t) \in Nat /\ DOMAIN s = 1 .. Len(s) /\ DOMAIN t = 1 .. Len(t)
      /\ s \o t \in Seq(S) /\ DOMAIN (s \o t) = 1 .. (Len(s) + Len(t))
  OBVIOUS
<1>2. \A i \in DOMAIN s : (s \o t)[i] = s[i]
  BY <1>1
<1>3. \A i \in DOMAIN t : Len(s) + i \in DOMAIN (s \o t) /\ (s \o t)[Len(s) + i] = t[i]
  BY <1>1
<1>4. ASSUME NEW i \in DOMAIN (s \o t), i \notin DOMAIN s
      PROVE  i - Len(s) \in DOMAIN t /\ (s \o t)[i] = t[i - Len(s)]
  BY <1>1, <1>4
<1> QED  BY <1>1, <1>2, <1>3, <1>4

LEMMA ParamsStart == ParamsInit => ParamsShape /\ ArgsKept /\ RestRight
<1> SUFFICES ASSUME ParamsInit PROVE ParamsShape /\ ArgsKept /\ RestRight
  OBVIOUS
<1>1. /\ cache = [p \in Params |-> Initial(p)] /\ chipRam = Factory
      /\ wire = <<>> /\ answers = <<>> /\ mirrored = <<>> /\ ~conn /\ ~ready
      /\ batch = [step |-> "idle", items |-> {}]
      /\ touched = {} /\ stale = {} /\ refused = {}
  BY DEF ParamsInit
<1>2. DOMAIN <<>> = {} /\ \A S : <<>> \in Seq(S)
  OBVIOUS
<1>3. \A p \in Params : Initial(p) \in ParamStates
  <2>1. FALSE \in BOOLEAN
    BY Zenon
  <2> TAKE p \in Params
  <2>2. CASE p \in DOMAIN StartArgs
    <3>1. Initial(p) = ParamState(StartArgs[p], "start", "user", FALSE) /\ StartArgs[p] \in ParamValues
      BY <2>2, ConstantValues DEF Initial
    <3> QED  BY <2>1, <3>1, StateTyped, Zenon
  <2>3. CASE p \notin DOMAIN StartArgs
    <3>1. Initial(p) = ParamState(Unset, "unknown", "initial", FALSE) /\ Unset \in ParamValues
      BY <2>3, ConstantValues DEF Initial
    <3> QED  BY <2>1, <3>1, StateTyped, Zenon
  <2> QED  BY <2>2, <2>3
<1>4. batch.items = {}
  BY <1>1
<1>5. ParamsShape
  <2>1. cache \in [Params -> ParamStates]
    BY <1>1, <1>3
  <2>2. chipRam \in [Params -> CfgValues]
    BY <1>1, ConstantValues
  <2>3. ASSUME NEW p \in Params, cache[p].status = "user" PROVE cache[p].value \in CfgValues
    <3>1. CASE p \in DOMAIN StartArgs
      <4>1. cache[p] = ParamState(StartArgs[p], "start", "user", FALSE) /\ StartArgs[p] \in CfgValues
        BY <1>1, <3>1, ConstantValues DEF Initial
      <4>2. ParamState(StartArgs[p], "start", "user", FALSE).value = StartArgs[p]
        BY Zenon DEF ParamState
      <4> QED  BY <4>1, <4>2, Zenon
    <3>2. CASE p \notin DOMAIN StartArgs
      <4>1. cache[p] = ParamState(Unset, "unknown", "initial", FALSE)
        BY <1>1, <3>2 DEF Initial
      <4>2. ParamState(Unset, "unknown", "initial", FALSE).status = "initial"
        BY Zenon DEF ParamState
      <4>3. cache[p].status = "initial"
        BY <4>1, <4>2, Zenon
      <4> QED  BY <2>3, <4>3
    <3> QED  BY <3>1, <3>2
  <2> QED  BY <1>1, <1>2, <1>4, <2>1, <2>2, <2>3 DEF ParamsShape
<1>6. ASSUME NEW p \in DOMAIN StartArgs \ touched PROVE KeepsArg(p)
  <2>1. cache[p] = ParamState(StartArgs[p], "start", "user", FALSE)
    BY <1>1, ConstantValues DEF Initial
  <2> QED  BY <1>1, <1>2, <1>4, <2>1 DEF KeepsArg, Mentions, Mirroring
<1>7. ASSUME NEW p \in Params \ (DOMAIN StartArgs \union touched)
      PROVE  OnlyFetched(p) /\ FetchedRight(p) /\ GoneIsStale(p)
  <2>1. cache[p] = ParamState(Unset, "unknown", "initial", FALSE)
    BY <1>1 DEF Initial
  <2>2. cache[p].status = "initial"
    <3>1. ParamState(Unset, "unknown", "initial", FALSE).status = "initial"
      BY Zenon DEF ParamState
    <3> QED  BY <2>1, <3>1, Zenon
  <2>3. OnlyFetched(p)
    BY <1>1, <1>2, <1>4, <2>2 DEF OnlyFetched, Mirroring
  <2>4. RamLast(p) /\ AnswersRight(p)
    BY <1>1, <1>2 DEF RamLast, AnswersRight
  <2>5. CacheRight(p) /\ GoneIsStale(p)
    BY <1>1, <1>2, <2>2 DEF CacheRight, GoneIsStale, Mirroring
  <2> QED  BY <2>3, <2>4, <2>5 DEF FetchedRight
<1> QED  BY <1>5, <1>6, <1>7 DEF ArgsKept, RestRight

\* The other variables of the invariant.
others == <<cache, conn, ready, chipRam, answers, mirrored, touched, stale, refused>>

\* What no user has set is not marked as set by one.
LEMMA NotByUser ==
    ASSUME ParamsInv, NEW p \in Params \ touched, p \in WithStatus("user")
    PROVE  /\ p \in DOMAIN StartArgs /\ cache[p] = ParamState(StartArgs[p], "start", "user", FALSE)
           /\ cache[p].value = StartArgs[p] /\ ~cache[p].send
<1>1. p \in DOMAIN StartArgs
  BY DEF ParamsInv, RestRight, OnlyFetched, WithStatus
<1>2. cache[p] = ParamState(StartArgs[p], "start", "user", FALSE)
  BY <1>1 DEF ParamsInv, ArgsKept, KeepsArg
<1>3. /\ ParamState(StartArgs[p], "start", "user", FALSE).value = StartArgs[p]
      /\ ~ParamState(StartArgs[p], "start", "user", FALSE).send
  BY Zenon DEF ParamState
<1> QED  BY <1>1, <1>2, <1>3, Zenon

\* Nothing changes but the timer's batch.
LEMMA BatchStands ==
    ASSUME ParamsInv, UNCHANGED <<wire, others>>, batch'.items \subseteq Params,
           batch'.items \subseteq batch.items \union touched
    PROVE  ParamsInv'
<1>1. ParamsShape'
  BY DEF ParamsInv, others, ParamsShape
<1>2. ASSUME NEW p \in DOMAIN StartArgs \ touched PROVE KeepsArg(p)'
  <2>1. KeepsArg(p)
    BY DEF ParamsInv, ArgsKept
  <2> QED  BY <2>1 DEF others, KeepsArg, Mentions, Mirroring
<1>3. ASSUME NEW p \in Params \ (DOMAIN StartArgs \union touched)
      PROVE  OnlyFetched(p)' /\ FetchedRight(p)' /\ GoneIsStale(p)'
  <2>1. OnlyFetched(p) /\ FetchedRight(p) /\ GoneIsStale(p)
    BY DEF ParamsInv, RestRight
  <2>2. OnlyFetched(p)'
    BY <2>1 DEF others, OnlyFetched, Mirroring
  <2>3. FetchedRight(p)'
    BY <2>1 DEF others, FetchedRight, RamLast, AnswersRight, CacheRight, Mentions, Mirroring, Due, FromChip
  <2>4. GoneIsStale(p)'
    BY <2>1 DEF others, GoneIsStale, Mirroring
  <2> QED  BY <2>2, <2>3, <2>4
<1>4. touched' = touched
  BY DEF others
<1> QED  BY <1>1, <1>2, <1>3, <1>4 DEF ParamsInv, ArgsKept, RestRight

\* A message that sets items.
LEMMA SetMessage ==
    ASSUME ParamsShape, NEW ps \in SUBSET Params, NEW m, m = ValSet(ps),
           \A p \in ps : cache[p].value \in CfgValues
    PROVE  /\ m \in Requests /\ m.op = "set" /\ Items(m) = ps
           /\ \A p \in ps : m.cfg[p] = cache[p].value
<1> DEFINE cfg == [p \in ps |-> cache[p].value]
<1>1. cfg \in [ps -> CfgValues]
  OBVIOUS
<1>2. cfg \in Configs
  BY <1>1 DEF Configs
<1>3. DOMAIN cfg = ps /\ \A p \in ps : cfg[p] = cache[p].value
  OBVIOUS
<1>4. m = [op |-> "set", cfg |-> cfg]
  BY DEF ValSet
<1> HIDE DEF cfg
<1>5. m \in Requests /\ m.op = "set" /\ m.cfg = cfg
  BY <1>2, <1>4 DEF Requests
<1> QED  BY <1>3, <1>5 DEF Items

\* ParamValues are sent: those of start arguments, or of items a user has set.
LEMMA SetSent ==
    ASSUME ParamsInv, NEW ps \in SUBSET Params, Sent(<<ValSet(ps)>>, ps),
           UNCHANGED <<cache, conn, chipRam, answers, mirrored, touched, stale, refused>>,
           batch'.items \subseteq batch.items,
           ps \subseteq touched \union DOMAIN StartArgs, \A p \in ps : cache[p].value \in CfgValues,
           ready' = ready \/ (ready' = conn /\ DOMAIN StartArgs \ touched \subseteq ps)
    PROVE  ParamsInv'
<1> DEFINE m == ValSet(ps)
           k == Len(wire)
<1>1. ParamsShape /\ ArgsKept /\ RestRight /\ wire \in Seq(Requests)
  BY DEF ParamsInv, ParamsShape
<1>2. /\ m \in Requests /\ m.op = "set" /\ Items(m) = ps /\ \A p \in ps : m.cfg[p] = cache[p].value
  BY <1>1, SetMessage
<1> HIDE DEF m
<1>3. \/ wire' = wire /\ (ps = {} \/ ~conn)
      \/ wire' = wire \o <<m>> /\ conn
  BY DEF Sent, m
<1>4. /\ k \in Nat /\ DOMAIN wire = 1 .. k
      /\ wire \o <<m>> \in Seq(Requests) /\ DOMAIN (wire \o <<m>>) = 1 .. (k + 1)
      /\ (wire \o <<m>>)[k + 1] = m /\ \A i \in 1 .. k : (wire \o <<m>>)[i] = wire[i]
  BY <1>1, <1>2
<1> HIDE DEF k
<1>5. wire' \in Seq(Requests)
  BY <1>1, <1>3, <1>4
<1>6. \A i \in DOMAIN wire' :
        \/ i \in DOMAIN wire /\ wire'[i] = wire[i]
        \/ i = k + 1 /\ wire'[i] = m
  BY <1>3, <1>4
<1>7. \A i \in DOMAIN wire : i \in DOMAIN wire' /\ wire'[i] = wire[i]
  BY <1>3, <1>4
<1>8. ParamsShape'
  BY <1>1, <1>3, <1>5 DEF ParamsShape
<1>9. ASSUME NEW p \in DOMAIN StartArgs \ touched PROVE KeepsArg(p)'
  <2>1. KeepsArg(p)
    BY <1>1, <1>9 DEF ArgsKept
  <2>2. cache[p].value = StartArgs[p]
    <3>1. ParamState(StartArgs[p], "start", "user", FALSE).value = StartArgs[p]
      BY Zenon DEF ParamState
    <3> QED  BY <2>1, <3>1, Zenon DEF KeepsArg
  <2>3. \A i \in DOMAIN wire' : p \in Items(wire'[i]) => wire'[i].op = "set" /\ wire'[i].cfg[p] = StartArgs[p]
    BY <1>2, <1>6, <2>1, <2>2 DEF KeepsArg
  <2>4. ASSUME conn', ready', p \notin refused', ~Mentions(wire', p) PROVE chipRam'[p] = StartArgs[p]
    <3>1. ~Mentions(wire, p)
      BY <1>7, <2>4 DEF Mentions
    <3>2. ready
      <4>1. CASE wire' = wire \o <<m>>
        <5>1. p \notin ps
          <6>1. k + 1 \in DOMAIN wire' /\ wire'[k + 1] = m
            BY <1>4, <4>1
          <6>2. p \notin Items(wire'[k + 1])
            BY <2>4, <6>1 DEF Mentions
          <6> QED  BY <1>2, <6>1, <6>2
        <5> QED  BY <2>4, <5>1
      <4>2. CASE wire' = wire /\ (ps = {} \/ ~conn)
        BY <2>4, <4>2
      <4> QED  BY <1>3, <4>1, <4>2
    <3> QED  BY <2>1, <2>4, <3>1, <3>2 DEF KeepsArg
  <2>5. /\ cache'[p] = ParamState(StartArgs[p], "start", "user", FALSE)
        /\ p \notin batch'.items /\ ~Mentions(answers', p) /\ ~Mirroring(p)'
    BY <2>1 DEF KeepsArg, Mirroring
  <2> QED  BY <2>3, <2>4, <2>5 DEF KeepsArg, Mentions
<1>10. ASSUME NEW p \in Params \ (DOMAIN StartArgs \union touched)
      PROVE  OnlyFetched(p)' /\ FetchedRight(p)' /\ GoneIsStale(p)'
  <2>1. OnlyFetched(p) /\ FetchedRight(p) /\ GoneIsStale(p) /\ p \notin ps
    BY <1>1 DEF RestRight
  <2>2. \A i \in DOMAIN wire' : p \in Items(wire'[i]) => i \in DOMAIN wire /\ wire'[i] = wire[i]
    BY <1>2, <1>6, <2>1
  <2>3. OnlyFetched(p)'
    BY <2>1, <2>2 DEF OnlyFetched, Mirroring
  <2>4. Mentions(wire, p) => Mentions(wire', p)
    BY <1>7 DEF Mentions
  <2>5. FetchedRight(p)'
    <3> SUFFICES ASSUME p \notin refused PROVE RamLast(p)' /\ AnswersRight(p)' /\ CacheRight(p)'
      BY DEF FetchedRight
    <3>1. RamLast(p) /\ AnswersRight(p) /\ CacheRight(p)
      BY <2>1 DEF FetchedRight
    <3>2. RamLast(p)'
      BY <1>7, <2>2, <3>1 DEF RamLast
    <3>3. AnswersRight(p)'
      BY <2>4, <3>1 DEF AnswersRight, Mentions, FromChip
    <3>4. CacheRight(p)'
      BY <2>4, <3>1 DEF CacheRight, Due, Mentions, Mirroring, FromChip
    <3> QED  BY <3>2, <3>3, <3>4
  <2>6. GoneIsStale(p)'
    BY <2>1 DEF GoneIsStale, Mirroring
  <2> QED  BY <2>3, <2>5, <2>6
<1>11. touched' = touched
  OBVIOUS
<1> QED  BY <1>8, <1>9, <1>10, <1>11 DEF ParamsInv, ArgsKept, RestRight

LEMMA TimerKeeps ==
    ASSUME ParamsInv, ParamTask \/ Elapse \/ SendUserParams
    PROVE  ParamsInv'
<1> USE DEF BatchStep
<1>1. CASE Collect
  <2> DEFINE pending == {p \in WithStatus("user") : cache[p].send}
  <2>1. batch'.items = pending /\ UNCHANGED <<wire, others>>
    BY <1>1 DEF Collect, channel, ghosts, others
  <2>2. pending \subseteq Params /\ pending \subseteq touched
    BY NotByUser DEF WithStatus
  <2> QED  BY <2>1, <2>2, BatchStands
<1>2. CASE CheckFetch
  <2>1. batch'.items = {} /\ UNCHANGED <<wire, others>>
    BY <1>2 DEF CheckFetch, channel, ghosts, others
  <2> QED  BY <2>1, BatchStands
<1>3. CASE Elapse
  <2>1. batch' = batch /\ UNCHANGED <<wire, others>> /\ batch.items \subseteq Params
    BY <1>3 DEF Elapse, channel, ghosts, others, ParamsInv, ParamsShape
  <2> QED  BY <2>1, BatchStands
<1>4. CASE SendBatch
  <2>1. UNCHANGED others /\ batch'.items \subseteq batch.items /\ batch.items \subseteq Params
    BY <1>4 DEF SendBatch, ghosts, others, ParamsInv, ParamsShape
  <2> DEFINE ps == Convertible(batch.items)
  <2>2. ps \subseteq batch.items
    BY DEF Convertible
  <2>3. ps \subseteq touched \union DOMAIN StartArgs
    BY <2>1, <2>2 DEF ParamsInv, RestRight, OnlyFetched
  <2>4. wire' = wire \/ Sent(<<ValSet(ps)>>, ps)
    BY <1>4 DEF SendBatch
  <2>7. \A p \in ps : cache[p].value \in CfgValues
    <3>1. cache \in [Params -> ParamStates]
      BY DEF ParamsInv, ParamsShape
    <3>2. \A p \in ps : cache[p].value \in ParamValues /\ cache[p].value # Unset
      BY <2>1, <3>1, StateShape DEF Convertible
    <3> QED  BY <3>2 DEF ParamValues
  <2> HIDE DEF ps
  <2>5. CASE wire' = wire
    BY <2>1, <2>5, BatchStands
  <2>6. CASE Sent(<<ValSet(ps)>>, ps)
    BY <2>1, <2>2, <2>3, <2>6, <2>7, SetSent DEF others
  <2> QED  BY <2>4, <2>5, <2>6
<1>5. CASE SendUserParams
  <2> DEFINE ps == WithStatus("user")
  <2>1. ps \subseteq Params /\ ps \subseteq touched \union DOMAIN StartArgs
    BY NotByUser DEF WithStatus
  <2>2. DOMAIN StartArgs \ touched \subseteq ps
    <3>1. ASSUME NEW p \in DOMAIN StartArgs \ touched PROVE p \in ps
      <4>1. cache[p] = ParamState(StartArgs[p], "start", "user", FALSE) /\ p \in Params
        BY ConstantValues DEF ParamsInv, ArgsKept, KeepsArg
      <4>2. ParamState(StartArgs[p], "start", "user", FALSE).status = "user"
        BY Zenon DEF ParamState
      <4>3. cache[p].status = "user"
        BY <4>1, <4>2, Zenon
      <4> QED  BY <4>1, <4>3 DEF WithStatus
    <3> QED  BY <3>1
  <2>3. /\ Sent(<<ValSet(ps)>>, ps) /\ ready' = conn /\ batch' = batch
        /\ UNCHANGED <<cache, conn, chipRam, answers, mirrored, touched, stale, refused>>
    BY <1>5 DEF SendUserParams, ghosts
  <2>4. \A p \in ps : cache[p].value \in CfgValues
    BY DEF ParamsInv, ParamsShape, WithStatus
  <2> HIDE DEF ps
  <2> QED  BY <2>1, <2>2, <2>3, <2>4, SetSent
<1>6. CASE MarkBatch
  <2>1. /\ batch.items \subseteq Params /\ cache \in [Params -> ParamStates]
        /\ batch'.items = {} /\ UNCHANGED <<conn, ready, wire, chipRam, answers, mirrored, touched, stale, refused>>
        /\ cache' = [p \in Params |-> IF p \in batch.items
                                      THEN ParamState(cache[p].value, cache[p].source, "valset", FALSE)
                                      ELSE cache[p]]
    BY <1>6 DEF MarkBatch, channel, ghosts, ParamsInv, ParamsShape
  <2>2. \A p \in Params : ParamState(cache[p].value, cache[p].source, "valset", FALSE) \in ParamStates
    BY <2>1, StateShape, StateTyped, Zenon
  <2>3. cache' \in [Params -> ParamStates]
    BY <2>1, <2>2
  <2>4. \A p \in Params \ touched : cache'[p] = cache[p]
    <3> TAKE p \in Params \ touched
    <3>1. p \notin batch.items
      BY DEF ParamsInv, ArgsKept, KeepsArg, RestRight, OnlyFetched
    <3> QED  BY <2>1, <3>1
  <2>5. ParamsShape'
    <3>1. ASSUME NEW p \in Params, cache'[p].status = "user" PROVE cache'[p].value \in CfgValues
      <4>1. ParamState(cache[p].value, cache[p].source, "valset", FALSE).status = "valset"
        BY Zenon DEF ParamState
      <4>2. cache'[p] = cache[p] \/ cache'[p] = ParamState(cache[p].value, cache[p].source, "valset", FALSE)
        BY <2>1
      <4>3. CASE cache'[p] = cache[p]
        BY <3>1, <4>3 DEF ParamsInv, ParamsShape
      <4>4. CASE cache'[p] = ParamState(cache[p].value, cache[p].source, "valset", FALSE)
        <5>1. cache'[p].status = "valset"
          BY <4>1, <4>4, Zenon
        <5> QED  BY <3>1, <5>1
      <4> QED  BY <4>2, <4>3, <4>4
    <3> QED  BY <2>1, <2>3, <3>1 DEF ParamsInv, ParamsShape
  <2>6. ASSUME NEW p \in DOMAIN StartArgs \ touched PROVE KeepsArg(p)'
    <3>1. KeepsArg(p) /\ cache'[p] = cache[p]
      BY <2>4, ConstantValues DEF ParamsInv, ArgsKept
    <3> QED  BY <2>1, <3>1 DEF KeepsArg, Mentions, Mirroring
  <2>7. ASSUME NEW p \in Params \ (DOMAIN StartArgs \union touched)
        PROVE  OnlyFetched(p)' /\ FetchedRight(p)' /\ GoneIsStale(p)'
    <3>1. OnlyFetched(p) /\ FetchedRight(p) /\ GoneIsStale(p) /\ cache'[p] = cache[p]
      BY <2>4 DEF ParamsInv, RestRight
    <3>2. OnlyFetched(p)'
      BY <2>1, <3>1 DEF OnlyFetched, Mirroring
    <3>3. FetchedRight(p)'
      BY <2>1, <3>1 DEF FetchedRight, RamLast, AnswersRight, CacheRight, Mentions, Mirroring, Due, FromChip
    <3>4. GoneIsStale(p)'
      BY <2>1, <3>1 DEF GoneIsStale, Mirroring
    <3> QED  BY <3>2, <3>3, <3>4
  <2> QED  BY <2>1, <2>5, <2>6, <2>7 DEF ParamsInv, ArgsKept, RestRight
<1> QED  BY <1>1, <1>2, <1>3, <1>4, <1>5, <1>6 DEF ParamTask

\* The initialisation asks for what it does not know, the RAM layer last.
LEMMA FetchKeeps ==
    ASSUME ParamsInv, FetchDeviceParams
    PROVE  ParamsInv'
<1> DEFINE ps == WithStatus("initial")
           poll == [p \in ps |-> 0]
           d == [op |-> "default", cfg |-> poll]
           r == [op |-> "ram", cfg |-> poll]
           k == Len(wire)
<1>1. /\ ParamsShape /\ ArgsKept /\ RestRight /\ wire \in Seq(Requests) /\ cache \in [Params -> ParamStates]
      /\ UNCHANGED <<conn, ready, chipRam, answers, mirrored, batch, touched, stale, refused>>
      /\ cache' = [p \in Params |->
                     IF cache[p].status = "initial"
                     THEN ParamState(cache[p].value, cache[p].source, "valget", cache[p].send)
                     ELSE cache[p]]
  BY DEF ParamsInv, ParamsShape, FetchDeviceParams, ghosts
<1>2. wire' = wire \/ (wire' = wire \o <<d, r>> /\ conn)
  BY DEF FetchDeviceParams, Sent, AllLayers
<1>3. ps \subseteq Params
  BY DEF WithStatus
<1> HIDE DEF ps
<1>4. DOMAIN poll = ps /\ poll \in Polled
  <2>1. poll \in [ps -> {0}] /\ DOMAIN poll = ps
    OBVIOUS
  <2> QED  BY <1>3, <2>1 DEF Polled
<1> HIDE DEF poll
<1>5. /\ d \in Requests /\ r \in Requests /\ Items(d) = ps /\ Items(r) = ps
      /\ d.op = "default" /\ r.op = "ram"
  BY <1>4 DEF Requests, Items
<1> HIDE DEF d, r
<1>6. /\ k \in Nat /\ DOMAIN wire = 1 .. k
      /\ wire \o <<d, r>> \in Seq(Requests) /\ DOMAIN (wire \o <<d, r>>) = 1 .. (k + 2)
      /\ (wire \o <<d, r>>)[k + 1] = d /\ (wire \o <<d, r>>)[k + 2] = r
      /\ \A i \in 1 .. k : (wire \o <<d, r>>)[i] = wire[i]
  BY <1>1, <1>5
<1> HIDE DEF k
<1>7. wire' \in Seq(Requests)
  BY <1>1, <1>2, <1>6
<1>8. \A i \in DOMAIN wire' :
        \/ i \in DOMAIN wire /\ wire'[i] = wire[i]
        \/ /\ i \in {k + 1, k + 2} /\ Items(wire'[i]) = ps /\ wire'[i].op # "set"
           /\ k + 2 \in DOMAIN wire' /\ Items(wire'[k + 2]) = ps /\ wire'[k + 2].op = "ram"
           /\ i = k + 2 => wire'[i].op = "ram"
  <2>1. CASE wire' = wire
    BY <2>1
  <2>2. CASE wire' = wire \o <<d, r>>
    <3>1. DOMAIN wire' = 1 .. (k + 2) /\ wire'[k + 1] = d /\ wire'[k + 2] = r
          /\ \A i \in 1 .. k : wire'[i] = wire[i]
      BY <1>6, <2>2
    <3>2. \A i \in DOMAIN wire' : i \in 1 .. k \/ i = k + 1 \/ i = k + 2
      BY <1>6, <3>1
    <3>3. k + 2 \in DOMAIN wire'
      BY <1>6, <3>1
    <3> QED  BY <1>5, <1>6, <3>1, <3>2, <3>3
  <2> QED  BY <1>2, <2>1, <2>2
<1>9. \A i \in DOMAIN wire : i \in DOMAIN wire' /\ wire'[i] = wire[i]
  BY <1>2, <1>6
<1>10. \A p \in Params : cache[p] \in ParamStates /\
          ParamState(cache[p].value, cache[p].source, "valget", cache[p].send) \in ParamStates
  BY <1>1, StateShape, StateTyped, Zenon
<1>11. \A p \in Params : \/ cache'[p] = cache[p]
                         \/ /\ p \in ps /\ cache[p].status = "initial"
                            /\ cache'[p] = ParamState(cache[p].value, cache[p].source, "valget", cache[p].send)
  BY <1>1 DEF WithStatus, ps
<1>12. ParamsShape'
  <2>1. cache' \in [Params -> ParamStates]
    BY <1>1, <1>10
  <2>2. ~conn => wire' = wire
    BY <1>2
  <2>3. ASSUME NEW p \in Params, cache'[p].status = "user" PROVE cache'[p].value \in CfgValues
    <3>1. CASE cache'[p] = cache[p]
      BY <1>1, <2>3, <3>1 DEF ParamsShape
    <3>2. CASE cache'[p] = ParamState(cache[p].value, cache[p].source, "valget", cache[p].send)
      <4>1. ParamState(cache[p].value, cache[p].source, "valget", cache[p].send).status = "valget"
        BY Zenon DEF ParamState
      <4>2. cache'[p].status = "valget"
        BY <3>2, <4>1, Zenon
      <4> QED  BY <2>3, <4>2
    <3> QED  BY <1>11, <3>1, <3>2
  <2> QED  BY <1>1, <1>7, <2>1, <2>2, <2>3 DEF ParamsShape
<1>13. ASSUME NEW p \in DOMAIN StartArgs \ touched PROVE KeepsArg(p)'
  <2>1. KeepsArg(p) /\ p \in Params
    BY <1>1, ConstantValues DEF ArgsKept
  <2>2. cache[p].status # "initial"
    <3>1. ParamState(StartArgs[p], "start", "user", FALSE).status # "initial"
      <4>1. ParamState(StartArgs[p], "start", "user", FALSE).status = "user"
        BY Zenon DEF ParamState
      <4> QED  BY <4>1, Zenon
    <3> QED  BY <2>1, <3>1, Zenon DEF KeepsArg
  <2>3. cache'[p] = cache[p] /\ p \notin ps
    BY <1>11, <2>1, <2>2 DEF ps, WithStatus
  <2>4. \A i \in DOMAIN wire' : p \in Items(wire'[i]) => i \in DOMAIN wire /\ wire'[i] = wire[i]
    BY <1>8, <2>3
  <2>5. Mentions(wire, p) => Mentions(wire', p)
    BY <1>9 DEF Mentions
  <2> QED  BY <1>1, <2>1, <2>3, <2>4, <2>5 DEF KeepsArg, Mentions, Mirroring
<1>14. ASSUME NEW p \in Params \ (DOMAIN StartArgs \union touched)
       PROVE  OnlyFetched(p)' /\ FetchedRight(p)' /\ GoneIsStale(p)'
  <2>1. OnlyFetched(p) /\ FetchedRight(p) /\ GoneIsStale(p)
    BY <1>1 DEF RestRight
  <2>2. /\ cache'[p].value = cache[p].value /\ cache'[p].source = cache[p].source
        /\ cache'[p].status = cache[p].status \/ cache'[p].status = "valget"
    <3> DEFINE new == ParamState(cache[p].value, cache[p].source, "valget", cache[p].send)
    <3>1. new.value = cache[p].value /\ new.source = cache[p].source /\ new.status = "valget"
      BY Zenon DEF ParamState
    <3>2. cache'[p] = cache[p] \/ cache'[p] = new
      BY <1>11
    <3> HIDE DEF new
    <3> QED  BY <3>1, <3>2
  <2>3. OnlyFetched(p)'
    BY <1>1, <1>8, <2>1, <2>2 DEF OnlyFetched, Mirroring
  <2>4. Mentions(wire, p) => Mentions(wire', p)
    BY <1>9 DEF Mentions
  <2>5. FetchedRight(p)'
    <3> SUFFICES ASSUME p \notin refused PROVE RamLast(p)' /\ AnswersRight(p)' /\ CacheRight(p)'
      BY <1>1 DEF FetchedRight
    <3>1. RamLast(p) /\ AnswersRight(p) /\ CacheRight(p)
      BY <2>1 DEF FetchedRight
    <3>2. RamLast(p)'
      <4>1. ASSUME NEW i \in DOMAIN wire', p \in Items(wire'[i]), wire'[i].op # "ram"
            PROVE  \E j \in DOMAIN wire' : i < j /\ p \in Items(wire'[j]) /\ wire'[j].op = "ram"
        <5>1. CASE i \in DOMAIN wire /\ wire'[i] = wire[i]
          BY <1>9, <3>1, <4>1, <5>1 DEF RamLast
        <5>2. CASE ~(i \in DOMAIN wire /\ wire'[i] = wire[i])
          <6>1. /\ i = k + 1 /\ Items(wire'[i]) = ps
                /\ k + 2 \in DOMAIN wire' /\ Items(wire'[k + 2]) = ps /\ wire'[k + 2].op = "ram"
            BY <1>8, <4>1, <5>2
          <6>2. i < k + 2
            BY <1>6, <6>1
          <6> QED  BY <4>1, <6>1, <6>2
        <5> QED  BY <5>1, <5>2
      <4> QED  BY <4>1 DEF RamLast
    <3>3. AnswersRight(p)'
      BY <1>1, <2>4, <3>1 DEF AnswersRight, Mentions, FromChip
    <3>4. CacheRight(p)'
      BY <1>1, <2>2, <2>4, <3>1 DEF CacheRight, Due, Mentions, Mirroring, FromChip
    <3> QED  BY <3>2, <3>3, <3>4
  <2>6. GoneIsStale(p)'
    BY <1>1, <2>1, <2>2 DEF GoneIsStale, Mirroring
  <2> QED  BY <2>3, <2>5, <2>6
<1> QED  BY <1>1, <1>12, <1>13, <1>14 DEF ParamsInv, ArgsKept, RestRight

\* A message leaves the wire: what the others say stays.
LEMMA WireTail ==
    ASSUME NEW w \in Seq(Requests), w # <<>>
    PROVE  /\ Tail(w) \in Seq(Requests) /\ Head(w) \in Requests
           /\ 1 \in DOMAIN w /\ Head(w) = w[1]
           /\ \A p : p \notin Items(Head(w)) /\ Mentions(w, p) => Mentions(Tail(w), p)
           /\ \A p : Mentions(Tail(w), p) => Mentions(w, p)
<1>1. /\ Len(w) \in Nat \ {0} /\ DOMAIN w = 1 .. Len(w)
      /\ Head(w) \in Requests /\ Head(w) = w[1] /\ 1 \in DOMAIN w
      /\ Tail(w) \in Seq(Requests) /\ DOMAIN Tail(w) = 1 .. (Len(w) - 1)
      /\ \A i \in DOMAIN Tail(w) : i + 1 \in DOMAIN w /\ Tail(w)[i] = w[i + 1]
      /\ \A i \in DOMAIN w : i = 1 \/ (i - 1 \in DOMAIN Tail(w) /\ Tail(w)[i - 1] = w[i])
  BY TailShape
<1>2. ASSUME NEW p, p \notin Items(Head(w)), Mentions(w, p) PROVE Mentions(Tail(w), p)
  <2>1. PICK i \in DOMAIN w : p \in Items(w[i])
    BY <1>2 DEF Mentions
  <2>2. i # 1
    BY <1>1, <1>2, <2>1
  <2>3. i - 1 \in DOMAIN Tail(w) /\ p \in Items(Tail(w)[i - 1])
    BY <1>1, <2>1, <2>2
  <2> QED  BY <2>3 DEF Mentions
<1>3. ASSUME NEW p, Mentions(Tail(w), p) PROVE Mentions(w, p)
  <2>1. PICK i \in DOMAIN Tail(w) : p \in Items(Tail(w)[i])
    BY <1>3 DEF Mentions
  <2>2. i + 1 \in DOMAIN w /\ p \in Items(w[i + 1])
    BY <1>1, <2>1
  <2> QED  BY <2>2 DEF Mentions
<1> QED  BY <1>1, <1>2, <1>3

\* What holds of the order on the wire holds of its tail.
LEMMA WireOrder ==
    ASSUME NEW p, wire \in Seq(Requests), wire # <<>>, wire' = Tail(wire), RamLast(p)
    PROVE  /\ RamLast(p)'
           /\ p \in Items(Head(wire)) /\ Head(wire).op # "ram" => Mentions(wire', p)
           /\ (\A i \in DOMAIN wire : p \in Items(wire[i]) => wire[i].op # "set")
              => \A i \in DOMAIN wire' : p \in Items(wire'[i]) => wire'[i].op # "set"
<1>1. /\ Len(wire) \in Nat \ {0} /\ DOMAIN wire = 1 .. Len(wire)
      /\ Head(wire) = wire[1] /\ 1 \in DOMAIN wire
      /\ DOMAIN wire' = 1 .. (Len(wire) - 1)
      /\ \A i \in DOMAIN wire' : i + 1 \in DOMAIN wire /\ wire'[i] = wire[i + 1]
      /\ \A i \in DOMAIN wire : i = 1 \/ (i - 1 \in DOMAIN wire' /\ wire'[i - 1] = wire[i])
  BY TailShape
<1>2. ASSUME NEW i \in DOMAIN wire', p \in Items(wire'[i]), wire'[i].op # "ram"
      PROVE  \E j \in DOMAIN wire' : i < j /\ p \in Items(wire'[j]) /\ wire'[j].op = "ram"
  <2>1. i + 1 \in DOMAIN wire /\ wire'[i] = wire[i + 1]
    BY <1>1
  <2>2. PICK j \in DOMAIN wire : i + 1 < j /\ p \in Items(wire[j]) /\ wire[j].op = "ram"
    BY <1>2, <2>1 DEF RamLast
  <2>3. j - 1 \in DOMAIN wire' /\ wire'[j - 1] = wire[j] /\ i < j - 1
    BY <1>1, <2>2
  <2> QED  BY <2>2, <2>3
<1>3. ASSUME p \in Items(Head(wire)), Head(wire).op # "ram" PROVE Mentions(wire', p)
  <2>1. PICK j \in DOMAIN wire : 1 < j /\ p \in Items(wire[j])
    BY <1>1, <1>3 DEF RamLast
  <2>2. j - 1 \in DOMAIN wire' /\ p \in Items(wire'[j - 1])
    BY <1>1, <2>1
  <2> QED  BY <2>2 DEF Mentions
<1>4. (\A i \in DOMAIN wire : p \in Items(wire[i]) => wire[i].op # "set")
      => \A i \in DOMAIN wire' : p \in Items(wire'[i]) => wire'[i].op # "set"
  BY <1>1
<1> QED  BY <1>2, <1>3, <1>4 DEF RamLast

\* The receiver sets what it is told, and answers from the layer it is asked for.
LEMMA ServeKeeps ==
    ASSUME ParamsInv, Serve
    PROVE  ParamsInv'
<1> DEFINE m == Head(wire)
           k == Len(answers)
           told(p) == m.op = "set" /\ p \in Items(m)
           reply == [p \in Items(m) |-> LowByte(IF m.op = "default" THEN Factory[p] ELSE chipRam[p])]
           a == Answer(TRUE, reply)
<1>1. /\ ParamsShape /\ ArgsKept /\ RestRight
      /\ wire \in Seq(Requests) /\ chipRam \in [Params -> CfgValues] /\ answers \in Seq(Answers)
  BY DEF ParamsInv, ParamsShape
<1>2. /\ conn /\ wire # <<>> /\ wire' = Tail(wire)
      /\ chipRam' = [p \in Params |-> IF m.op = "set" /\ p \in Items(m) THEN m.cfg[p] ELSE chipRam[p]]
      /\ answers' = IF m.op = "set" THEN answers ELSE answers \o <<a>>
      /\ UNCHANGED <<cache, conn, ready, mirrored, batch, touched, stale, refused>>
  BY DEF Serve, ghosts
<1>3. /\ m \in Requests /\ m.op \in {"set", "ram", "default"}
      /\ m.cfg \in Configs \union Polled /\ (m.op = "set" => m.cfg \in Configs)
  BY <1>1, <1>2, WireTail DEF Requests
<1>4. Items(m) \subseteq Params /\ (m.op = "set" => \A p \in Items(m) : m.cfg[p] \in CfgValues)
  BY <1>3 DEF Configs, Polled, Items
<1>5. chipRam' \in [Params -> CfgValues]
  BY <1>1, <1>2, <1>4
<1>6. a \in Answers /\ a.fresh /\ Items(a) = Items(m) /\ \A p \in Items(m) : a.cfg[p] = reply[p]
  <2>1. ASSUME NEW p \in Items(m)
        PROVE  LowByte(IF m.op = "default" THEN Factory[p] ELSE chipRam[p]) \in CfgValues
    <3>1. Factory[p] \in CfgValues /\ chipRam[p] \in CfgValues
      BY <1>1, <1>4, ConstantValues
    <3> QED  BY <3>1, ConstantValues
  <2>2. reply \in [Items(m) -> CfgValues]
    BY <2>1
  <2>3. reply \in Configs /\ DOMAIN reply = Items(m)
    BY <1>4, <2>2 DEF Configs
  <2> HIDE DEF reply
  <2>4. TRUE \in BOOLEAN
    BY Zenon
  <2>5. a \in Answers /\ a.fresh /\ a.cfg = reply
    BY <2>3, <2>4, Zenon DEF Answer, Answers
  <2> QED  BY <2>3, <2>5 DEF Items
<1>7. \A p \in Items(m) : m.op = "ram" => a.cfg[p] = LowByte(chipRam[p])
  BY <1>6
<1> HIDE DEF m, a, reply
<1>8. /\ k \in Nat /\ DOMAIN answers = 1 .. k
      /\ answers \o <<a>> \in Seq(Answers) /\ DOMAIN (answers \o <<a>>) = 1 .. (k + 1)
      /\ (answers \o <<a>>)[k + 1] = a /\ \A i \in 1 .. k : (answers \o <<a>>)[i] = answers[i]
  BY <1>1, <1>6
<1> HIDE DEF k
<1>9. /\ answers' \in Seq(Answers)
      /\ \A i \in DOMAIN answers : i \in DOMAIN answers' /\ answers'[i] = answers[i]
      /\ \A i \in DOMAIN answers' : (i \in DOMAIN answers /\ answers'[i] = answers[i])
                                    \/ (i = k + 1 /\ answers'[i] = a /\ m.op # "set")
      /\ m.op # "set" => k + 1 \in DOMAIN answers' /\ answers'[k + 1] = a /\ \A i \in DOMAIN answers : i < k + 1
  <2>1. CASE m.op = "set"
    BY <1>1, <1>2, <2>1
  <2>2. CASE m.op # "set"
    BY <1>2, <1>8, <2>2
  <2> QED  BY <2>1, <2>2
<1>10. /\ wire' \in Seq(Requests) /\ 1 \in DOMAIN wire /\ m = wire[1]
       /\ \A p : p \notin Items(m) /\ Mentions(wire, p) => Mentions(wire', p)
       /\ \A i \in DOMAIN wire' : i + 1 \in DOMAIN wire /\ wire'[i] = wire[i + 1]
  BY <1>1, <1>2, WireTail, TailShape DEF m
<1>11. ParamsShape'
  BY <1>1, <1>2, <1>5, <1>9, <1>10 DEF ParamsShape
<1>12. \A p \in Params : chipRam'[p] = IF m.op = "set" /\ p \in Items(m) THEN m.cfg[p] ELSE chipRam[p]
  BY <1>2 DEF m
<1>13. ASSUME NEW p \in DOMAIN StartArgs \ touched PROVE KeepsArg(p)'
  <2>1. KeepsArg(p) /\ p \in Params
    BY <1>1, ConstantValues DEF ArgsKept
  <2>2. p \in Items(m) => m.op = "set" /\ m.cfg[p] = StartArgs[p]
    BY <1>10, <2>1 DEF KeepsArg
  <2>3. ~Mentions(answers', p)
    BY <1>6, <1>9, <2>1, <2>2 DEF KeepsArg, Mentions
  <2>4. \A i \in DOMAIN wire' : p \in Items(wire'[i]) => wire'[i].op = "set" /\ wire'[i].cfg[p] = StartArgs[p]
    BY <1>10, <2>1 DEF KeepsArg
  <2>5. ASSUME conn, ready, p \notin refused, ~Mentions(wire', p) PROVE chipRam'[p] = StartArgs[p]
    <3>1. CASE p \in Items(m)
      BY <1>12, <2>1, <2>2, <3>1
    <3>2. CASE p \notin Items(m)
      <4>1. ~Mentions(wire, p)
        BY <1>10, <2>5, <3>2
      <4> QED  BY <1>12, <2>1, <2>5, <3>2, <4>1 DEF KeepsArg
    <3> QED  BY <3>1, <3>2
  <2>6. cache'[p] = ParamState(StartArgs[p], "start", "user", FALSE) /\ p \notin batch'.items /\ ~Mirroring(p)'
    BY <1>2, <2>1 DEF KeepsArg, Mirroring
  <2> QED  BY <1>2, <2>3, <2>4, <2>5, <2>6 DEF KeepsArg, Mentions
<1>14. ASSUME NEW p \in Params \ (DOMAIN StartArgs \union touched)
       PROVE  OnlyFetched(p)' /\ FetchedRight(p)' /\ GoneIsStale(p)'
  <2>1. OnlyFetched(p) /\ FetchedRight(p) /\ GoneIsStale(p)
    BY <1>1 DEF RestRight
  <2>2. p \in Items(m) => m.op # "set"
    BY <1>10, <2>1 DEF OnlyFetched
  <2>3. chipRam'[p] = chipRam[p]
    BY <1>12, <2>2
  <2>4. OnlyFetched(p)'
    <3>1. \A i \in DOMAIN wire' : p \in Items(wire'[i]) => wire'[i].op # "set"
      BY <1>10, <2>1 DEF OnlyFetched
    <3> QED  BY <1>2, <2>1, <3>1 DEF OnlyFetched, Mirroring
  <2>5. GoneIsStale(p)'
    BY <1>2 DEF GoneIsStale
  <2>6. ASSUME p \notin refused PROVE RamLast(p)' /\ AnswersRight(p)' /\ CacheRight(p)'
    <3>1. RamLast(p) /\ AnswersRight(p) /\ CacheRight(p)
      BY <2>1, <2>6 DEF FetchedRight
    <3>2. RamLast(p)' /\ (p \in Items(m) /\ m.op # "ram" => Mentions(wire', p))
      BY <1>1, <1>2, <3>1, WireOrder DEF m
    <3>3. Mentions(wire, p) => \/ Mentions(wire', p)
                               \/ /\ k + 1 \in DOMAIN answers' /\ p \in Items(answers'[k + 1])
                                  /\ \A i \in DOMAIN answers : i < k + 1
      BY <1>6, <1>9, <1>10, <2>2, <3>2
    <3>4. AnswersRight(p)'
      <4>1. ASSUME NEW i \in DOMAIN answers', p \in Items(answers'[i]), answers'[i].fresh
            PROVE  \/ answers'[i].cfg[p] = LowByte(chipRam'[p]) \/ Mentions(wire', p)
                   \/ \E j \in DOMAIN answers' : i < j /\ p \in Items(answers'[j])
        <5>1. CASE i \in DOMAIN answers /\ answers'[i] = answers[i]
          <6>1. \/ answers[i].cfg[p] = LowByte(chipRam[p]) \/ Mentions(wire, p)
                \/ \E j \in DOMAIN answers : i < j /\ p \in Items(answers[j])
            BY <3>1, <4>1, <5>1 DEF AnswersRight, FromChip
          <6> QED  BY <1>9, <2>3, <3>3, <5>1, <6>1
        <5>2. CASE i = k + 1 /\ answers'[i] = a /\ m.op # "set"
          <6>1. p \in Items(m)
            BY <1>6, <4>1, <5>2
          <6>2. CASE m.op = "ram"
            BY <1>7, <2>3, <5>2, <6>1, <6>2
          <6>3. CASE m.op # "ram"
            BY <3>2, <6>1, <6>3
          <6> QED  BY <6>2, <6>3
        <5> QED  BY <1>9, <5>1, <5>2
      <4> QED  BY <4>1 DEF AnswersRight, FromChip, Mentions
    <3>5. Mentions(answers, p) => Mentions(answers', p)
      BY <1>9 DEF Mentions
    <3>6. Due(p) => Mentions(wire', p) \/ Mentions(answers', p)
      BY <3>3, <3>5 DEF Due, Mentions
    <3>7. CacheRight(p)'
      BY <1>2, <2>3, <3>1, <3>6 DEF CacheRight, Due, Mentions, Mirroring, FromChip
    <3> QED  BY <3>2, <3>4, <3>7
  <2> QED  BY <1>2, <2>4, <2>5, <2>6 DEF FetchedRight
<1> QED  BY <1>2, <1>11, <1>13, <1>14 DEF ParamsInv, ArgsKept, RestRight

\* A message that the receiver refuses excuses its items.
LEMMA RefuseKeeps ==
    ASSUME ParamsInv, Refuse
    PROVE  ParamsInv'
<1>1. /\ ParamsShape /\ ArgsKept /\ RestRight
      /\ wire \in Seq(Requests) /\ wire # <<>> /\ wire' = Tail(wire) /\ conn
      /\ refused' = refused \union Items(Head(wire))
      /\ UNCHANGED <<cache, conn, ready, chipRam, answers, mirrored, batch, touched, stale>>
  BY DEF ParamsInv, ParamsShape, Refuse
<1>2. /\ wire' \in Seq(Requests)
      /\ \A p : p \notin Items(Head(wire)) /\ Mentions(wire, p) => Mentions(wire', p)
      /\ \A i \in DOMAIN wire' : i + 1 \in DOMAIN wire /\ wire'[i] = wire[i + 1]
  BY <1>1, WireTail, TailShape
<1>3. ParamsShape'
  BY <1>1, <1>2 DEF ParamsShape
<1>4. ASSUME NEW p \in DOMAIN StartArgs \ touched PROVE KeepsArg(p)'
  <2>1. KeepsArg(p)
    BY <1>1 DEF ArgsKept
  <2>2. \A i \in DOMAIN wire' : p \in Items(wire'[i]) => wire'[i].op = "set" /\ wire'[i].cfg[p] = StartArgs[p]
    BY <1>2, <2>1 DEF KeepsArg
  <2>3. ASSUME conn, ready, p \notin refused', ~Mentions(wire', p) PROVE chipRam[p] = StartArgs[p]
    <3>1. p \notin refused /\ ~Mentions(wire, p)
      BY <1>1, <1>2, <2>3
    <3> QED  BY <2>1, <2>3, <3>1 DEF KeepsArg
  <2>4. /\ cache'[p] = ParamState(StartArgs[p], "start", "user", FALSE) /\ p \notin batch'.items
        /\ ~Mirroring(p)' /\ ~Mentions(answers', p)
    BY <1>1, <2>1 DEF KeepsArg, Mirroring, Mentions
  <2> QED  BY <1>1, <2>2, <2>3, <2>4 DEF KeepsArg, Mentions
<1>5. ASSUME NEW p \in Params \ (DOMAIN StartArgs \union touched)
      PROVE  OnlyFetched(p)' /\ FetchedRight(p)' /\ GoneIsStale(p)'
  <2>1. OnlyFetched(p) /\ FetchedRight(p) /\ GoneIsStale(p)
    BY <1>1 DEF RestRight
  <2>2. OnlyFetched(p)'
    BY <1>1, <1>2, <2>1 DEF OnlyFetched, Mirroring
  <2>3. GoneIsStale(p)'
    BY <1>1 DEF GoneIsStale
  <2>4. ASSUME p \notin refused' PROVE RamLast(p)' /\ AnswersRight(p)' /\ CacheRight(p)'
    <3>1. /\ RamLast(p) /\ AnswersRight(p) /\ CacheRight(p)
          /\ Mentions(wire, p) => Mentions(wire', p)
      BY <1>1, <1>2, <2>1, <2>4 DEF FetchedRight
    <3>2. RamLast(p)'
      BY <1>1, <3>1, WireOrder
    <3>3. AnswersRight(p)'
      BY <1>1, <3>1 DEF AnswersRight, FromChip, Mentions
    <3>4. CacheRight(p)'
      BY <1>1, <3>1 DEF CacheRight, Due, Mentions, Mirroring, FromChip
    <3> QED  BY <3>2, <3>3, <3>4
  <2> QED  BY <2>2, <2>3, <2>4 DEF FetchedRight
<1> QED  BY <1>1, <1>3, <1>4, <1>5 DEF ParamsInv, ArgsKept, RestRight

\* A receiver comes, the same or another.
LEMMA ConnectKeeps ==
    ASSUME ParamsInv, Connect
    PROVE  ParamsInv'
<1>1. /\ ParamsShape /\ ArgsKept /\ RestRight /\ ~conn /\ ~ready /\ wire = <<>> /\ conn'
      /\ chipRam' \in Receivers \union {chipRam}
      /\ UNCHANGED <<cache, ready, wire, answers, mirrored, batch, touched, stale, refused>>
  BY DEF ParamsInv, ParamsShape, Connect
<1>2. chipRam' \in [Params -> CfgValues]
  BY <1>1, ConstantValues DEF ParamsShape
<1>3. ParamsShape'
  BY <1>1, <1>2 DEF ParamsShape
<1>4. ASSUME NEW p \in DOMAIN StartArgs \ touched PROVE KeepsArg(p)'
  <2>1. KeepsArg(p)
    BY <1>1 DEF ArgsKept
  <2> QED  BY <1>1, <2>1 DEF KeepsArg, Mentions, Mirroring
<1>5. ASSUME NEW p \in Params \ (DOMAIN StartArgs \union touched)
      PROVE  OnlyFetched(p)' /\ FetchedRight(p)' /\ GoneIsStale(p)'
  <2>1. OnlyFetched(p) /\ FetchedRight(p) /\ GoneIsStale(p)
    BY <1>1 DEF RestRight
  <2>2. /\ cache[p].status = "loaded" \/ Mirroring(p) => p \in stale
        /\ \A i \in DOMAIN answers : ~answers[i].fresh
    BY <1>1, <2>1 DEF GoneIsStale
  <2>3. OnlyFetched(p)'
    BY <1>1, <2>1 DEF OnlyFetched, Mirroring
  <2>4. GoneIsStale(p)'
    BY <1>1 DEF GoneIsStale
  <2>5. RamLast(p)'
    <3>1. DOMAIN wire' = {}
      BY <1>1
    <3> QED  BY <3>1 DEF RamLast
  <2>6. AnswersRight(p)'
    BY <1>1, <2>2 DEF AnswersRight
  <2>7. CacheRight(p)'
    BY <1>1, <2>2 DEF CacheRight, Mirroring
  <2> QED  BY <2>3, <2>4, <2>5, <2>6, <2>7 DEF FetchedRight
<1> QED  BY <1>1, <1>3, <1>4, <1>5 DEF ParamsInv, ArgsKept, RestRight

\* The receiver goes: what it has said is forgotten, or stale.
LEMMA DisconnectKeeps ==
    ASSUME ParamsInv, Disconnect
    PROVE  ParamsInv'
<1> DEFINE new == ParamState(Unset, "unknown", "initial", FALSE)
<1>1. /\ ParamsShape /\ ArgsKept /\ RestRight /\ ~conn' /\ ~ready' /\ wire' = <<>>
      /\ cache \in [Params -> ParamStates] /\ answers \in Seq(Answers)
      /\ cache' = [p \in Params |-> Forgotten(p)]
      /\ answers' = [i \in DOMAIN answers |-> Answer(FALSE, answers[i].cfg)]
      /\ stale' = IF mirrored = <<>> THEN {} ELSE {mirrored[1]}
      /\ UNCHANGED <<chipRam, mirrored, batch, touched, refused>>
  BY DEF ParamsInv, ParamsShape, Disconnect
<1>2. new.value = Unset /\ new.status = "initial"
  BY Zenon DEF ParamState
<1>3. new \in ParamStates
  <2>1. Unset \in ParamValues /\ FALSE \in BOOLEAN
    BY ConstantValues, Zenon
  <2> QED  BY <2>1, StateTyped, Zenon
<1> HIDE DEF new
<1>4. \A p \in Params : IF cache[p].status = "user" THEN cache'[p] = cache[p] ELSE cache'[p] = new
  BY <1>1 DEF Forgotten, new
<1>5. cache' \in [Params -> ParamStates]
  <2>1. \A p \in Params : cache'[p] = Forgotten(p)
    BY <1>1
  <2>2. ASSUME NEW p \in Params PROVE Forgotten(p) \in ParamStates
    <3>1. cache[p] \in ParamStates
      BY <1>1
    <3>2. Forgotten(p) = cache[p] \/ Forgotten(p) = new
      BY <1>4, <2>1
    <3> QED  BY <1>3, <3>1, <3>2
  <2>3. cache' = [p \in Params |-> Forgotten(p)]
    BY <1>1
  <2> QED  BY ONLY <2>2, <2>3
<1>6. /\ answers' \in Seq(Answers) /\ DOMAIN answers' = DOMAIN answers
      /\ \A i \in DOMAIN answers' : ~answers'[i].fresh /\ Items(answers'[i]) = Items(answers[i])
  <2>1. \A i \in DOMAIN answers : /\ Answer(FALSE, answers[i].cfg) \in Answers
                                  /\ ~Answer(FALSE, answers[i].cfg).fresh
                                  /\ Answer(FALSE, answers[i].cfg).cfg = answers[i].cfg
    <3> TAKE i \in DOMAIN answers
    <3>1. answers[i] \in Answers
      BY <1>1
    <3>2. answers[i].cfg \in Configs
      BY <3>1 DEF Answers
    <3>3. FALSE \in BOOLEAN
      BY Zenon
    <3> QED  BY <3>2, <3>3, Zenon DEF Answer, Answers
  <2>2. DOMAIN answers = 1 .. Len(answers) /\ Len(answers) \in Nat
    BY <1>1
  <2>3. DOMAIN answers' = DOMAIN answers /\ \A i \in DOMAIN answers : answers'[i] = Answer(FALSE, answers[i].cfg)
    BY <1>1
  <2>4. answers' \in Seq(Answers)
    <3>1. answers' \in [1 .. Len(answers) -> Answers]
      <4>1. answers' = [i \in DOMAIN answers |-> Answer(FALSE, answers[i].cfg)]
        BY <1>1
      <4>2. \A i \in DOMAIN answers : Answer(FALSE, answers[i].cfg) \in Answers
        BY <2>1
      <4>3. answers' \in [DOMAIN answers -> Answers]
        BY ONLY <4>1, <4>2
      <4> QED  BY <2>2, <4>3
    <3> QED  BY ONLY <2>2, <3>1
  <2> QED  BY <2>1, <2>3, <2>4 DEF Items
<1>7. ParamsShape'
  <2>1. \A p \in Params : cache'[p].status = "user" => cache'[p].value \in CfgValues
    BY <1>1, <1>2, <1>4 DEF ParamsShape
  <2>2. wire' \in Seq(Requests)
    BY <1>1
  <2> QED  BY <1>1, <1>5, <1>6, <2>1, <2>2 DEF ParamsShape
<1>8. \A p : Mentions(answers', p) <=> Mentions(answers, p)
  BY <1>6 DEF Mentions
<1>9. DOMAIN wire' = {}
  BY <1>1
<1>10. ASSUME NEW p \in DOMAIN StartArgs \ touched PROVE KeepsArg(p)'
  <2>1. KeepsArg(p) /\ p \in Params
    BY <1>1, ConstantValues DEF ArgsKept
  <2>2. cache[p].status = "user"
    <3>1. ParamState(StartArgs[p], "start", "user", FALSE).status = "user"
      BY Zenon DEF ParamState
    <3> QED  BY <2>1, <3>1, Zenon DEF KeepsArg
  <2>3. cache'[p] = cache[p]
    BY <1>4, <2>1, <2>2
  <2>4. ~Mentions(answers', p)
    BY <1>8, <2>1 DEF KeepsArg
  <2> QED  BY <1>1, <1>9, <2>1, <2>3, <2>4 DEF KeepsArg, Mentions, Mirroring
<1>11. ASSUME NEW p \in Params \ (DOMAIN StartArgs \union touched)
       PROVE  OnlyFetched(p)' /\ FetchedRight(p)' /\ GoneIsStale(p)'
  <2>1. OnlyFetched(p)
    BY <1>1 DEF RestRight
  <2>2. cache'[p].value = Unset /\ cache'[p].status = "initial"
    BY <1>2, <1>4, <2>1 DEF OnlyFetched
  <2>3. Mirroring(p)' => p \in stale'
    BY <1>1 DEF Mirroring
  <2>4. OnlyFetched(p)'
    BY <1>1, <1>9, <2>1, <2>2 DEF OnlyFetched
  <2>5. GoneIsStale(p)'
    BY <1>6, <2>2, <2>3 DEF GoneIsStale
  <2>6. RamLast(p)' /\ AnswersRight(p)'
    BY <1>6, <1>9 DEF RamLast, AnswersRight
  <2>7. CacheRight(p)'
    BY <2>2, <2>3 DEF CacheRight
  <2> QED  BY <2>4, <2>5, <2>6, <2>7 DEF FetchedRight
<1> QED  BY <1>1, <1>7, <1>10, <1>11 DEF ParamsInv, ArgsKept, RestRight

\* Only an item that a user has set counts as touched.
LEMMA UserKeeps ==
    ASSUME ParamsInv, UserSet
    PROVE  ParamsInv'
<1>1. PICK q \in Params \ touched, v \in UserValues :
        cache' = [cache EXCEPT ![q] = OnSet(q, v)] /\ touched' = touched \union {q}
  BY DEF UserSet
<1>2. /\ ParamsShape /\ ArgsKept /\ RestRight /\ cache \in [Params -> ParamStates]
      /\ UNCHANGED <<conn, ready, wire, chipRam, answers, mirrored, batch, stale, refused>>
  BY DEF ParamsInv, ParamsShape, UserSet, channel
<1>3. v \in CfgValues /\ v \in ParamValues
  BY ConstantValues
<1>4. /\ OnSet(q, v) \in ParamStates
      /\ OnSet(q, v).value = v
  <2>1. cache[q].source \in {"unknown", "start", "user", "device"}
    BY <1>2, StateShape
  <2>2. TRUE \in BOOLEAN /\ FALSE \in BOOLEAN
    BY Zenon
  <2>3. ParamState(v, cache[q].source, "loaded", FALSE) \in ParamStates
    BY <1>3, <2>1, <2>2, StateTyped, Zenon
  <2>4. ParamState(v, "user", "user", TRUE) \in ParamStates
    BY <1>3, <2>2, StateTyped, Zenon
  <2>5. /\ ParamState(v, cache[q].source, "loaded", FALSE).value = v
        /\ ParamState(v, "user", "user", TRUE).value = v
    BY Zenon DEF ParamState
  <2>6. \/ OnSet(q, v) = ParamState(v, cache[q].source, "loaded", FALSE)
        \/ OnSet(q, v) = ParamState(v, "user", "user", TRUE)
    BY Zenon DEF OnSet
  <2> QED  BY <2>3, <2>4, <2>5, <2>6, Zenon
<1>5. cache' \in [Params -> ParamStates] /\ cache'[q] = OnSet(q, v)
      /\ \A p \in Params \ {q} : cache'[p] = cache[p]
  BY <1>1, <1>2, <1>4
<1>6. ParamsShape'
  <2>1. \A p \in Params : cache'[p].status = "user" => cache'[p].value \in CfgValues
    BY <1>2, <1>3, <1>4, <1>5 DEF ParamsShape
  <2> QED  BY <1>2, <1>5, <2>1 DEF ParamsShape
<1>7. ASSUME NEW p \in DOMAIN StartArgs \ touched' PROVE KeepsArg(p)'
  <2>1. KeepsArg(p) /\ cache'[p] = cache[p]
    BY <1>1, <1>2, <1>5, ConstantValues DEF ArgsKept
  <2> QED  BY <1>2, <2>1 DEF KeepsArg, Mentions, Mirroring
<1>8. ASSUME NEW p \in Params \ (DOMAIN StartArgs \union touched')
      PROVE  OnlyFetched(p)' /\ FetchedRight(p)' /\ GoneIsStale(p)'
  <2>1. OnlyFetched(p) /\ FetchedRight(p) /\ GoneIsStale(p) /\ cache'[p] = cache[p]
    BY <1>1, <1>2, <1>5 DEF RestRight
  <2>2. OnlyFetched(p)'
    BY <1>2, <2>1 DEF OnlyFetched, Mirroring
  <2>3. FetchedRight(p)'
    BY <1>2, <2>1 DEF FetchedRight, RamLast, AnswersRight, CacheRight, Mentions, Mirroring, Due, FromChip
  <2>4. GoneIsStale(p)'
    BY <1>2, <2>1 DEF GoneIsStale, Mirroring
  <2> QED  BY <2>2, <2>3, <2>4
<1> QED  BY <1>6, <1>7, <1>8 DEF ParamsInv, ArgsKept, RestRight

\* The parameter follows the cache, and is not taken for a user's.
LEMMA MirrorParameterKeeps ==
    ASSUME ParamsInv, MirrorParameter
    PROVE  ParamsInv'
<1>1. /\ ParamsShape /\ ArgsKept /\ RestRight /\ cache \in [Params -> ParamStates]
      /\ mirrored # <<>> /\ mirrored' = <<>>
      /\ cache' = [cache EXCEPT ![mirrored[1]] = OnSet(mirrored[1], mirrored[2])]
      /\ UNCHANGED <<conn, ready, wire, chipRam, answers, batch, touched, stale, refused>>
  BY DEF ParamsInv, ParamsShape, MirrorParameter, ghosts
<1>2. PICK q \in Params, v \in CfgValues : mirrored = <<q, v>>
  BY <1>1 DEF ParamsShape
<1>3. mirrored[1] = q /\ mirrored[2] = v /\ v \in ParamValues /\ \A p : Mirroring(p) <=> p = q
  BY <1>1, <1>2, ConstantValues DEF Mirroring
<1> DEFINE fetched == ParamState(v, cache[q].source, "loaded", FALSE)
           users == ParamState(v, "user", "user", TRUE)
           new == OnSet(q, v)
<1>4. /\ fetched.value = v /\ fetched.status = "loaded" /\ users.value = v
      /\ fetched \in ParamStates /\ users \in ParamStates
  <2>1. cache[q].source \in {"unknown", "start", "user", "device"} /\ TRUE \in BOOLEAN /\ FALSE \in BOOLEAN
    <3>1. TRUE \in BOOLEAN /\ FALSE \in BOOLEAN
      BY Zenon
    <3>2. cache[q].source \in {"unknown", "start", "user", "device"}
      BY <1>1, StateShape
    <3> QED  BY <3>1, <3>2, Zenon
  <2>2. fetched.value = v /\ fetched.status = "loaded" /\ users.value = v
    BY Zenon DEF ParamState
  <2>3. fetched \in ParamStates
    BY <1>3, <2>1, StateTyped, Zenon
  <2>4. users \in ParamStates
    BY <1>3, <2>1, StateTyped, Zenon
  <2> QED  BY <2>2, <2>3, <2>4
<1>5. /\ new = fetched \/ new = users
      /\ cache[q].value = Unset \/ cache[q].source = "device" => new = fetched
  BY Zenon DEF OnSet
<1> HIDE DEF fetched, users, new
<1>6. new \in ParamStates /\ new.value = v
  BY <1>4, <1>5
<1>7. /\ cache' \in [Params -> ParamStates] /\ cache'[q] = new
      /\ \A p \in Params \ {q} : cache'[p] = cache[p]
  BY <1>1, <1>3, <1>6 DEF new
<1>8. ParamsShape'
  <2>1. \A p \in Params : cache'[p].status = "user" => cache'[p].value \in CfgValues
    BY <1>1, <1>6, <1>7 DEF ParamsShape
  <2> QED  BY <1>1, <1>7, <2>1 DEF ParamsShape
<1>9. \A p : ~Mirroring(p)'
  BY <1>1 DEF Mirroring
<1>10. ASSUME NEW p \in DOMAIN StartArgs \ touched PROVE KeepsArg(p)'
  <2>1. KeepsArg(p) /\ p \in Params
    BY <1>1, ConstantValues DEF ArgsKept
  <2>2. p # q
    BY <1>3, <2>1 DEF KeepsArg
  <2>3. cache'[p] = cache[p]
    BY <1>7, <2>1, <2>2
  <2> QED  BY <1>1, <1>9, <2>1, <2>3 DEF KeepsArg, Mentions
<1>11. ASSUME NEW p \in Params \ (DOMAIN StartArgs \union touched)
       PROVE  OnlyFetched(p)' /\ FetchedRight(p)' /\ GoneIsStale(p)'
  <2>1. OnlyFetched(p) /\ FetchedRight(p) /\ GoneIsStale(p)
    BY <1>1 DEF RestRight
  <2>2. CASE p # q
    <3>1. cache'[p] = cache[p] /\ ~Mirroring(p)
      BY <1>3, <1>7, <2>2
    <3>2. OnlyFetched(p)'
      BY <1>1, <1>9, <2>1, <3>1 DEF OnlyFetched
    <3>3. FetchedRight(p)'
      BY <1>1, <1>9, <2>1, <3>1
      DEF FetchedRight, RamLast, AnswersRight, CacheRight, Mentions, Due, FromChip
    <3>4. GoneIsStale(p)'
      BY <1>1, <1>9, <2>1, <3>1 DEF GoneIsStale
    <3> QED  BY <3>2, <3>3, <3>4
  <2>3. CASE p = q
    <3>1. Mirroring(p) /\ cache'[p] = new
      BY <1>3, <1>7, <2>3
    <3>2. new = fetched /\ cache'[p].value = v /\ cache'[p].status = "loaded"
      BY <1>4, <1>5, <2>1, <2>3, <3>1 DEF OnlyFetched
    <3>3. OnlyFetched(p)'
      BY <1>1, <1>9, <2>1, <3>2 DEF OnlyFetched
    <3>4. GoneIsStale(p)'
      BY <1>1, <1>9, <2>1, <3>1 DEF GoneIsStale
    <3>5. ASSUME p \notin refused PROVE RamLast(p)' /\ AnswersRight(p)' /\ CacheRight(p)'
      <4>1. RamLast(p) /\ AnswersRight(p) /\ CacheRight(p)
        BY <2>1, <3>5 DEF FetchedRight
      <4>2. RamLast(p)' /\ AnswersRight(p)'
        BY <1>1, <4>1 DEF RamLast, AnswersRight, FromChip, Mentions
      <4>3. p \notin stale => FromChip(p, v) \/ Due(p)
        BY <1>3, <3>1, <4>1 DEF CacheRight
      <4>4. CacheRight(p)'
        BY <1>1, <1>9, <3>2, <4>3 DEF CacheRight, FromChip, Due, Mentions
      <4> QED  BY <4>2, <4>4
    <3> QED  BY <1>1, <3>3, <3>4, <3>5 DEF FetchedRight
  <2> QED  BY <2>2, <2>3
<1> QED  BY <1>1, <1>8, <1>10, <1>11 DEF ParamsInv, ArgsKept, RestRight

\* The answer a is what is left of b, the answer at place j, without q's value in front.
LeftOf(a, b, j, q) ==
    /\ a.fresh = b.fresh
    /\ \A p \in Items(a) : p \in Items(b) /\ a.cfg[p] = b.cfg[p] /\ (p # q \/ j > 1)

\* What followed place j of old follows place i of new.
Follows(new, i, old, j) == \A k \in DOMAIN old : k > j => \E l \in DOMAIN new : l > i /\ new[l] = old[k]

\* The answers without q's value in front.
Without(q) ==
    LET left == Items(Head(answers)) \ {q}
    IN  IF left = {} THEN Tail(answers)
        ELSE <<Answer(Head(answers).fresh, [p \in left |-> Head(answers).cfg[p]])>> \o Tail(answers)

\* One value of the front answer is taken out; the others stay in their order.
LEMMA FrontTakenOut ==
    ASSUME NEW q, answers \in Seq(Answers), answers # <<>>, NEW new, new = Without(q)
    PROVE  /\ new \in Seq(Answers)
           /\ \A i \in DOMAIN answers : \A p \in Items(answers[i]) : i > 1 \/ p # q => Mentions(new, p)
           /\ \A i \in DOMAIN new : \E j \in DOMAIN answers :
                LeftOf(new[i], answers[j], j, q) /\ Follows(new, i, answers, j)
<1> DEFINE n == Len(answers)
           h == Head(answers)
           left == Items(h) \ {q}
           cut == [p \in left |-> h.cfg[p]]
           front == Answer(h.fresh, cut)
           rest == Tail(answers)
<1>1. /\ n \in Nat \ {0} /\ DOMAIN answers = 1 .. n
      /\ h \in Answers /\ h = answers[1] /\ 1 \in DOMAIN answers
      /\ rest \in Seq(Answers) /\ DOMAIN rest = 1 .. (n - 1) /\ Len(rest) = n - 1
      /\ \A i \in DOMAIN rest : i + 1 \in DOMAIN answers /\ rest[i] = answers[i + 1]
      /\ \A i \in DOMAIN answers : i = 1 \/ (i - 1 \in DOMAIN rest /\ rest[i - 1] = answers[i])
  BY TailShape
<1>2. h.fresh \in BOOLEAN /\ h.cfg \in Configs
  BY <1>1, Zenon DEF Answers
<1>3. \A p \in Items(h) : h.cfg[p] \in CfgValues /\ p \in Params
  BY <1>2 DEF Configs, Items
<1>4. DOMAIN cut = left /\ cut \in Configs /\ \A p \in left : cut[p] = h.cfg[p]
  <2>1. cut \in [left -> CfgValues] /\ left \subseteq Params
    BY <1>3
  <2> QED  BY <2>1 DEF Configs
<1>5. IF left = {} THEN new = rest ELSE new = <<front>> \o rest
  BY DEF Without
<1> HIDE DEF cut, rest, h
<1>6. front \in Answers /\ front.fresh = h.fresh /\ front.cfg = cut
  BY <1>2, <1>4, Zenon DEF Answer, Answers
<1>7. Items(front) = left
  BY <1>4, <1>6 DEF Items
<1> HIDE DEF front, n
<1>8. CASE left = {}
  <2>1. new = rest /\ \A p \in Items(h) : p = q
    BY <1>5, <1>8
  <2> HIDE DEF left
  <2>2. \A i \in DOMAIN answers : i > 1 => i - 1 \in DOMAIN new /\ new[i - 1] = answers[i]
    BY <1>1, <2>1
  <2>3. ASSUME NEW i \in DOMAIN answers, NEW p \in Items(answers[i]), i > 1 \/ p # q
        PROVE  Mentions(new, p)
    <3>1. i > 1
      BY <1>1, <2>1, <2>3
    <3> QED  BY <2>2, <2>3, <3>1 DEF Mentions
  <2>4. ASSUME NEW i \in DOMAIN new
        PROVE  \E j \in DOMAIN answers : LeftOf(new[i], answers[j], j, q) /\ Follows(new, i, answers, j)
    <3>1. i + 1 \in DOMAIN answers /\ new[i] = answers[i + 1] /\ i \in Nat /\ i + 1 > 1
      BY <1>1, <2>1
    <3>2. ASSUME NEW k \in DOMAIN answers, k > i + 1
          PROVE  k - 1 \in DOMAIN new /\ k - 1 > i /\ new[k - 1] = answers[k]
      <4>1. k > 1 /\ k - 1 > i
        BY <1>1, <3>1, <3>2
      <4> QED  BY <2>2, <4>1
    <3>3. Follows(new, i, answers, i + 1)
      BY <3>2 DEF Follows
    <3>4. LeftOf(new[i], answers[i + 1], i + 1, q)
      BY <3>1 DEF LeftOf
    <3> QED  BY <3>1, <3>3, <3>4
  <2> QED  BY <1>1, <2>1, <2>3, <2>4
<1>9. CASE left # {}
  <2>1. /\ new \in Seq(Answers) /\ DOMAIN new = 1 .. n /\ new[1] = front
        /\ \A i \in 1 .. n : i > 1 => new[i] = answers[i]
    <3>1. new = <<front>> \o rest
      BY <1>5, <1>9
    <3>2. <<front>> \in Seq(Answers) /\ Len(<<front>>) = 1 /\ <<front>>[1] = front
      BY <1>6
    <3>3. /\ <<front>> \o rest \in Seq(Answers) /\ DOMAIN (<<front>> \o rest) = 1 .. n
          /\ (<<front>> \o rest)[1] = front
          /\ \A i \in 1 .. (n - 1) : (<<front>> \o rest)[1 + i] = rest[i]
      BY <1>1, <3>2
    <3>4. ASSUME NEW i \in 1 .. n, i > 1 PROVE (<<front>> \o rest)[i] = answers[i]
      <4>1. i - 1 \in 1 .. (n - 1) /\ 1 + (i - 1) = i
        BY <1>1, <3>4
      <4>2. (<<front>> \o rest)[1 + (i - 1)] = rest[i - 1]
        BY <3>3, <4>1
      <4>3. rest[i - 1] = answers[i]
        <5>1. i \in DOMAIN answers /\ i # 1
          BY <1>1, <3>4
        <5>2. \A k \in DOMAIN answers : k = 1 \/ rest[k - 1] = answers[k]
          BY <1>1
        <5> QED  BY <5>1, <5>2
      <4> QED  BY <4>1, <4>2, <4>3
    <3> QED  BY <3>1, <3>3, <3>4
  <2>2. ASSUME NEW i \in DOMAIN answers, NEW p \in Items(answers[i]), i > 1 \/ p # q
        PROVE  Mentions(new, p)
    <3>1. CASE i > 1
      <4>1. i \in DOMAIN new /\ new[i] = answers[i]
        BY <1>1, <2>1, <3>1
      <4> QED  BY <2>2, <4>1 DEF Mentions
    <3>2. CASE ~(i > 1)
      <4>1. i = 1
        BY <1>1, <3>2
      <4>2. p \in Items(h) /\ p # q
        BY <1>1, <2>2, <4>1
      <4>3. 1 \in DOMAIN new /\ p \in Items(new[1])
        BY <1>1, <1>7, <2>1, <4>2
      <4> QED  BY <4>3 DEF Mentions
    <3> QED  BY <3>1, <3>2
  <2>3. ASSUME NEW i \in DOMAIN new
        PROVE  \E j \in DOMAIN answers : LeftOf(new[i], answers[j], j, q) /\ Follows(new, i, answers, j)
    <3>1. i \in DOMAIN answers /\ i \in Nat
      BY <1>1, <2>1
    <3>2. \A k \in DOMAIN answers : k > i => k \in DOMAIN new /\ new[k] = answers[k]
      BY <1>1, <2>1, <3>1
    <3>3. Follows(new, i, answers, i)
      BY <3>2 DEF Follows
    <3>4. LeftOf(new[i], answers[i], i, q)
      <4>1. CASE i = 1
        <5>1. new[i] = front /\ answers[i] = h
          BY <1>1, <2>1, <4>1
        <5>2. LeftOf(front, h, i, q)
          BY <1>4, <1>6, <1>7 DEF LeftOf
        <5> QED  BY <5>1, <5>2
      <4>2. CASE i # 1
        <5>1. new[i] = answers[i] /\ i > 1
          BY <1>1, <2>1, <3>1, <4>2
        <5> QED  BY <5>1 DEF LeftOf
      <4> QED  BY <4>1, <4>2
    <3> QED  BY <3>1, <3>3, <3>4
  <2> QED  BY <2>1, <2>2, <2>3
<1> QED  BY <1>8, <1>9

\* A value of the receiver goes into the cache.
LEMMA MirrorCacheKeeps ==
    ASSUME ParamsInv, MirrorCache
    PROVE  ParamsInv'
<1>1. /\ ParamsShape /\ ArgsKept /\ RestRight /\ cache \in [Params -> ParamStates]
      /\ answers \in Seq(Answers) /\ answers # <<>> /\ mirrored = <<>>
      /\ UNCHANGED <<conn, ready, wire, chipRam, batch, touched, refused>>
  BY DEF ParamsInv, ParamsShape, MirrorCache
<1>2. PICK q \in Items(Head(answers)) :
        /\ cache' = [cache EXCEPT ![q] = ParamState(Head(answers).cfg[q], "device", "loaded", FALSE)]
        /\ mirrored' = <<q, Head(answers).cfg[q]>>
        /\ stale' = IF Head(answers).fresh THEN stale \ {q} ELSE stale \union {q}
        /\ answers' = Without(q)
  BY DEF MirrorCache, Without
<1> DEFINE h == Head(answers)
           v == h.cfg[q]
           new == ParamState(v, "device", "loaded", FALSE)
<1>3. h \in Answers /\ h = answers[1] /\ 1 \in DOMAIN answers
  BY <1>1, TailShape
<1>4. q \in Params /\ v \in CfgValues /\ v \in ParamValues
  <2>1. h.cfg \in Configs
    BY <1>3, Zenon DEF Answers
  <2>2. q \in Params /\ v \in CfgValues
    BY <1>2, <2>1 DEF Configs, Items
  <2> QED  BY <2>2, ConstantValues
<1>5. /\ answers' \in Seq(Answers)
      /\ \A i \in DOMAIN answers : \A p \in Items(answers[i]) : i > 1 \/ p # q => Mentions(answers', p)
      /\ \A i \in DOMAIN answers' : \E j \in DOMAIN answers :
            LeftOf(answers'[i], answers[j], j, q) /\ Follows(answers', i, answers, j)
  BY <1>1, <1>2, FrontTakenOut
<1>6. /\ mirrored'[1] = q /\ mirrored'[2] = v /\ mirrored' = <<q, v>>
      /\ \A p : Mirroring(p)' <=> p = q
  BY <1>2 DEF Mirroring
<1>7. new.value = v /\ new.source = "device" /\ new.status = "loaded"
  BY Zenon DEF ParamState
<1>8. new \in ParamStates
  <2>1. FALSE \in BOOLEAN
    BY Zenon
  <2> QED  BY <1>4, <2>1, StateTyped, Zenon
<1>9. cache' = [cache EXCEPT ![q] = new] /\ stale' = IF h.fresh THEN stale \ {q} ELSE stale \union {q}
  BY <1>2
<1> HIDE DEF new, v, h
<1>10. /\ cache' \in [Params -> ParamStates] /\ cache'[q] = new
       /\ \A p \in Params \ {q} : cache'[p] = cache[p]
  BY <1>1, <1>4, <1>8, <1>9
<1>11. ParamsShape'
  <2>1. \A p \in Params : cache'[p].status = "user" => cache'[p].value \in CfgValues
    BY <1>1, <1>7, <1>10 DEF ParamsShape
  <2>2. \E p \in Params, w \in CfgValues : mirrored' = <<p, w>>
    BY <1>4, <1>6
  <2> QED  BY <1>1, <1>5, <1>10, <2>1, <2>2 DEF ParamsShape
<1>12. \A p : Mentions(answers', p) => Mentions(answers, p)
  BY <1>5 DEF Mentions, LeftOf
<1>13. ASSUME NEW p, p # q, Mentions(answers, p) PROVE Mentions(answers', p)
  <2>1. PICK i \in DOMAIN answers : p \in Items(answers[i])
    BY <1>13 DEF Mentions
  <2> QED  BY <1>5, <1>13, <2>1
<1>14. ASSUME NEW p \in DOMAIN StartArgs \ touched PROVE KeepsArg(p)'
  <2>1. KeepsArg(p) /\ p \in Params
    BY <1>1, ConstantValues DEF ArgsKept
  <2>2. p # q
    <3>1. q \in Items(answers[1])
      BY <1>2, <1>3 DEF h
    <3> QED  BY <1>3, <2>1, <3>1 DEF KeepsArg, Mentions
  <2>3. cache'[p] = cache[p] /\ ~Mirroring(p)' /\ ~Mentions(answers', p)
    BY <1>6, <1>10, <1>12, <2>1, <2>2 DEF KeepsArg
  <2> QED  BY <1>1, <2>1, <2>3 DEF KeepsArg, Mentions
<1>15. ASSUME NEW p \in Params \ (DOMAIN StartArgs \union touched)
       PROVE  OnlyFetched(p)' /\ FetchedRight(p)' /\ GoneIsStale(p)'
  <2>1. OnlyFetched(p) /\ FetchedRight(p) /\ GoneIsStale(p) /\ ~Mirroring(p)
    BY <1>1 DEF RestRight, Mirroring
  <2>2. OnlyFetched(p)'
    <3>1. cache'[p].status # "user" /\ (Mirroring(p)' => cache'[p].source = "device")
      BY <1>6, <1>7, <1>10, <2>1 DEF OnlyFetched
    <3> QED  BY <1>1, <2>1, <3>1 DEF OnlyFetched
  <2>3. GoneIsStale(p)'
    <3> SUFFICES ASSUME ~conn PROVE /\ cache'[p].status = "loaded" \/ Mirroring(p)' => p \in stale'
                                   /\ \A i \in DOMAIN answers' : ~answers'[i].fresh
      BY <1>1 DEF GoneIsStale
    <3>1. /\ cache[p].status = "loaded" => p \in stale
          /\ \A i \in DOMAIN answers : ~answers[i].fresh
      BY <2>1 DEF GoneIsStale
    <3>2. \A i \in DOMAIN answers' : ~answers'[i].fresh
      BY <1>5, <3>1 DEF LeftOf
    <3>3. stale' = stale \union {q}
      BY <1>3, <1>9, <3>1
    <3> QED  BY <1>6, <1>10, <3>1, <3>2, <3>3
  <2>4. ASSUME p \notin refused PROVE RamLast(p)' /\ AnswersRight(p)' /\ CacheRight(p)'
    <3>1. RamLast(p) /\ AnswersRight(p) /\ CacheRight(p)
      BY <2>1, <2>4 DEF FetchedRight
    <3>2. RamLast(p)'
      BY <1>1, <3>1 DEF RamLast
    <3>3. AnswersRight(p)'
      <4> SUFFICES ASSUME NEW i \in DOMAIN answers', p \in Items(answers'[i]), answers'[i].fresh
                   PROVE  \/ FromChip(p, answers'[i].cfg[p]) \/ Mentions(wire, p)
                          \/ \E l \in DOMAIN answers' : i < l /\ p \in Items(answers'[l])
        BY <1>1 DEF AnswersRight, FromChip, Mentions
      <4>1. PICK j \in DOMAIN answers : LeftOf(answers'[i], answers[j], j, q) /\ Follows(answers', i, answers, j)
        BY <1>5
      <4>2. p \in Items(answers[j]) /\ answers[j].fresh /\ answers'[i].cfg[p] = answers[j].cfg[p]
        BY <4>1 DEF LeftOf
      <4>3. \/ FromChip(p, answers[j].cfg[p]) \/ Mentions(wire, p)
            \/ \E k \in DOMAIN answers : j < k /\ p \in Items(answers[k])
        BY <3>1, <4>2 DEF AnswersRight
      <4>4. CASE \E k \in DOMAIN answers : j < k /\ p \in Items(answers[k])
        <5>1. PICK k \in DOMAIN answers : j < k /\ p \in Items(answers[k])
          BY <4>4
        <5>2. \E l \in DOMAIN answers' : l > i /\ answers'[l] = answers[k]
          <6>1. k \in Nat /\ j \in Nat
            BY <1>1
          <6> QED  BY <4>1, <5>1, <6>1 DEF Follows
        <5> QED  BY <1>5, <5>1, <5>2
      <4> QED  BY <4>2, <4>3, <4>4
    <3>4. CacheRight(p)'
      <4> SUFFICES ASSUME p \notin stale'
                   PROVE  /\ cache'[p].status = "loaded" => FromChip(p, cache[p].value)' \/ Due(p)' \/ Mirroring(p)'
                          /\ Mirroring(p)' => FromChip(p, mirrored[2])' \/ Due(p)'
        BY DEF CacheRight
      <4>1. CASE p = q
        <5>1. h.fresh /\ answers[1].cfg[p] = v /\ p \in Items(answers[1])
          BY <1>2, <1>3, <1>9, <4>1 DEF h, v
        <5>2. \/ FromChip(p, v) \/ Mentions(wire, p)
              \/ \E j \in DOMAIN answers : 1 < j /\ p \in Items(answers[j])
          BY <1>3, <3>1, <5>1 DEF AnswersRight
        <5>3. (\E j \in DOMAIN answers : 1 < j /\ p \in Items(answers[j])) => Mentions(answers', p)
          <6> SUFFICES ASSUME NEW j \in DOMAIN answers, 1 < j, p \in Items(answers[j])
                       PROVE  Mentions(answers', p)
            OBVIOUS
          <6>1. j > 1
            BY <1>1
          <6> QED  BY <1>5, <6>1
        <5>4. FromChip(p, v) \/ Due(p)'
          BY <1>1, <5>2, <5>3 DEF Due, Mentions
        <5> QED  BY <1>1, <1>6, <1>7, <1>10, <4>1, <5>4 DEF FromChip
      <4>2. CASE p # q
        <5>1. cache'[p] = cache[p] /\ ~Mirroring(p)' /\ p \notin stale
          BY <1>6, <1>9, <1>10, <4>2
        <5>2. Due(p) => Due(p)'
          BY <1>1, <1>13, <4>2 DEF Due, Mentions
        <5>3. cache[p].status = "loaded" => FromChip(p, cache[p].value) \/ Due(p)
          BY <2>1, <3>1, <5>1 DEF CacheRight
        <5>4. cache'[p].status = "loaded" => FromChip(p, cache[p].value)' \/ Due(p)'
          BY <1>1, <5>1, <5>2, <5>3 DEF FromChip
        <5> QED  BY <5>1, <5>4
      <4> QED  BY <4>1, <4>2
    <3> QED  BY <3>2, <3>3, <3>4
  <2> QED  BY <1>1, <2>2, <2>3, <2>4 DEF FetchedRight
<1> QED  BY <1>1, <1>11, <1>14, <1>15 DEF ParamsInv, ArgsKept, RestRight

\* Every step keeps the invariant.
LEMMA ParamsStep == ParamsInv /\ [ParamsNext]_cfgVars => ParamsInv'
<1> SUFFICES ASSUME ParamsInv, [ParamsNext]_cfgVars PROVE ParamsInv'
  OBVIOUS
<1>1. CASE Connect
  BY <1>1, ConnectKeeps
<1>2. CASE Disconnect
  BY <1>2, DisconnectKeeps
<1>3. CASE Serve
  BY <1>3, ServeKeeps
<1>4. CASE Refuse
  BY <1>4, RefuseKeeps
<1>5. CASE FetchDeviceParams
  BY <1>5, FetchKeeps
<1>6. CASE ParamTask \/ Elapse \/ SendUserParams
  BY <1>6, TimerKeeps
<1>7. CASE MirrorCache
  BY <1>7, MirrorCacheKeeps
<1>8. CASE MirrorParameter
  BY <1>8, MirrorParameterKeeps
<1>9. CASE UserSet
  BY <1>9, UserKeeps
<1>10. CASE UNCHANGED cfgVars
  <2>1. UNCHANGED <<wire, others>> /\ batch' = batch /\ batch.items \subseteq Params
    BY <1>10 DEF cfgVars, others, ParamsInv, ParamsShape
  <2> QED  BY <2>1, BatchStands
<1> QED  BY <1>1, <1>2, <1>3, <1>4, <1>5, <1>6, <1>7, <1>8, <1>9, <1>10 DEF ParamsNext, Initialisation

\* Once nothing is due, the cache shows the receiver's RAM layer.
LEMMA CacheIsRight == ParamsInv => GnssParamsOK
<1> SUFFICES ASSUME ParamsInv PROVE GnssParamsOK
  OBVIOUS
<1>1. StartArgsHold
  <2> SUFFICES ASSUME conn, ready, NEW p \in DOMAIN StartArgs \ touched, p \notin refused,
                      \A i \in DOMAIN wire : p \notin Items(wire[i])
               PROVE  chipRam[p] = StartArgs[p]
    BY DEF StartArgsHold
  <2>1. KeepsArg(p)
    BY DEF ParamsInv, ArgsKept
  <2> QED  BY <2>1 DEF KeepsArg, Mentions
<1>2. Mirrors
  <2> SUFFICES ASSUME NEW p \in Params \ (touched \union stale \union refused), cache[p].status = "loaded",
                      mirrored = <<>>, answers = <<>>, wire = <<>>
               PROVE  cache[p].value = LowByte(chipRam[p])
    BY DEF Mirrors
  <2>1. p \notin DOMAIN StartArgs
    <3> SUFFICES ASSUME p \in DOMAIN StartArgs PROVE FALSE
      OBVIOUS
    <3>1. cache[p] = ParamState(StartArgs[p], "start", "user", FALSE)
      BY DEF ParamsInv, ArgsKept, KeepsArg
    <3>2. ParamState(StartArgs[p], "start", "user", FALSE).status = "user"
      BY Zenon DEF ParamState
    <3>3. cache[p].status = "user"
      BY <3>1, <3>2, Zenon
    <3> QED  BY <3>3
  <2>2. CacheRight(p)
    BY <2>1 DEF ParamsInv, RestRight, FetchedRight
  <2>3. ~Due(p) /\ ~Mirroring(p)
    BY DEF Due, Mentions, Mirroring
  <2> QED  BY <2>2, <2>3 DEF CacheRight, FromChip
<1> QED  BY <1>1, <1>2 DEF GnssParamsOK

\* However often receivers come, go, refuse a message or are exchanged, and
\* wherever the fetch is: the receiver that is connected gets the start arguments,
\* and what the cache shows as loaded is, once nothing is due, in its RAM layer.
THEOREM ParamsAgree == ParamsSpec => []GnssParamsOK
<1>1. ParamsInit => ParamsInv
  BY ParamsStart DEF ParamsInv
<1>2. ParamsInv /\ [ParamsNext]_cfgVars => ParamsInv'
  BY ParamsStep
<1>3. ParamsInv => GnssParamsOK
  BY CacheIsRight
<1> QED  BY <1>1, <1>2, <1>3, PTL DEF ParamsSpec

\* The steps of the initialisation and of the timer, and the flags.
ParamsRest ==
    /\ initStep \in {"idle", "send", "fetch"} /\ batch.step \in {"idle", "send", "mark", "check"}
    /\ conn \in BOOLEAN /\ ready \in BOOLEAN /\ fetching \in BOOLEAN /\ late \in BOOLEAN

\* A step of the timer is the one it says it is.
LEMMA BatchFields ==
    ASSUME NEW step, NEW items, BatchStep(step, items)
    PROVE  batch'.step = step
BY Zenon DEF BatchStep

\* They are kept by the timer, the initialisation, the receiver and the user.
LEMMA ParamsRestStep ==
    ASSUME ParamsRest, [ParamsNext]_cfgVars
    PROVE  ParamsRest'
<1> USE DEF ParamsRest
<1>1. CASE Connect \/ Disconnect \/ SendUserParams \/ FetchDeviceParams
  <2>1. conn' \in BOOLEAN /\ ready' \in BOOLEAN /\ fetching' \in BOOLEAN /\ late' \in BOOLEAN
    BY <1>1, Zenon DEF Connect, Disconnect, SendUserParams, FetchDeviceParams, ghosts
  <2>2. batch' = batch /\ initStep' \in {"idle", "send", "fetch"}
    BY <1>1 DEF Connect, Disconnect, SendUserParams, FetchDeviceParams, ghosts
  <2> QED  BY <2>1, <2>2
<1>2. CASE Serve \/ Refuse \/ MirrorCache \/ MirrorParameter \/ UserSet \/ UNCHANGED cfgVars
  <2>1. UNCHANGED <<conn, initStep, ready, batch, fetching, late>>
    BY <1>2 DEF Serve, Refuse, MirrorCache, MirrorParameter, UserSet, cfgVars
  <2> QED  BY <2>1
<1>3. CASE Collect
  <2>1. \E ps : BatchStep("check", ps) \/ BatchStep("send", ps)
    BY <1>3, Zenon DEF Collect
  <2>2. batch'.step \in {"check", "send"}
    BY <2>1, BatchFields, Zenon
  <2> QED  BY <1>3, <2>2, Zenon DEF Collect
<1>4. CASE SendBatch
  <2>1. \E ps : BatchStep("mark", ps) \/ BatchStep("check", ps)
    BY <1>4, Zenon DEF SendBatch
  <2>2. batch'.step \in {"mark", "check"}
    BY <2>1, BatchFields, Zenon
  <2> QED  BY <1>4, <2>2, Zenon DEF SendBatch
<1>5. CASE MarkBatch
  <2>1. batch'.step = "check"
    BY <1>5, BatchFields, Zenon DEF MarkBatch
  <2> QED  BY <1>5, <2>1, Zenon DEF MarkBatch
<1>6. CASE CheckFetch
  <2>1. batch'.step = "idle"
    BY <1>6, BatchFields, Zenon DEF CheckFetch
  <2>2. fetching' \in BOOLEAN
    BY <1>6, Zenon DEF CheckFetch
  <2> QED  BY <1>6, <2>1, <2>2, Zenon DEF CheckFetch
<1>7. CASE Elapse
  <2>1. late' \in BOOLEAN
    BY <1>7, Zenon DEF Elapse
  <2> QED  BY <1>7, <2>1, Zenon DEF Elapse
<1> QED
  BY <1>1, <1>2, <1>3, <1>4, <1>5, <1>6, <1>7 DEF ParamsNext, Initialisation, ParamTask

\* The cache and the receiver hold nothing but values of items, whoever sets them
\* and however often they are sent, answered and mirrored.
THEOREM ParamsTyped == ParamsSpec => []ParamsTypeOK
<1>1. ParamsInit => ParamsInv /\ ParamsRest
  <2>1. ASSUME ParamsInit PROVE ParamsRest
    <3>1. conn \in BOOLEAN /\ ready \in BOOLEAN /\ fetching \in BOOLEAN /\ late \in BOOLEAN
      BY <2>1, Zenon DEF ParamsInit
    <3>2. batch.step = "idle" /\ initStep = "idle"
      BY <2>1, Zenon DEF ParamsInit
    <3> QED  BY <3>1, <3>2 DEF ParamsRest
  <2> QED  BY <2>1, ParamsStart DEF ParamsInv
<1>2. ParamsInv /\ ParamsRest => ParamsTypeOK
  <2> SUFFICES ASSUME ParamsInv, ParamsRest PROVE ParamsTypeOK
    OBVIOUS
  <2>1. /\ cache \in [Params -> ParamStates] /\ chipRam \in [Params -> CfgValues]
        /\ mirrored = <<>> \/ \E p \in Params, v \in CfgValues : mirrored = <<p, v>>
        /\ batch.items \subseteq Params
    BY DEF ParamsInv, ParamsShape
  <2>2. Len(mirrored) \in {0, 2}
    BY <2>1
  <2>3. {conn, ready, fetching, late} \subseteq BOOLEAN
    BY Zenon DEF ParamsRest
  <2> QED  BY <2>1, <2>2, <2>3, Zenon DEF ParamsRest, ParamsTypeOK, ParamStates, ParamValues
<1> QED  BY <1>1, <1>2, ParamsStep, ParamsRestStep, PTL DEF ParamsSpec

-----------------------------------------------------------------------------
(* The connection. *)

\* The connection alone; safety needs no fairness.
UsbSpec == UsbInit /\ [][UsbNext]_usbVars

\* Before the first tick no event was reported and nothing has been asked for.
NothingBefore == initTimer = "new" => hot = "idle" /\ plugEvents = <<>> /\ ~served

\* A connection that is not attached has no transfers, and only one that is not
\* is being opened.
NoneUnattached == "cut" \notin flaws /\ ~attached => reads = 0 /\ stuck = 0
OpensUnattached == hot = "opening" => ~attached

\* As long as the receiver is there, no read that has ended counts as outstanding.
NoneStuck == "cut" \notin flaws /\ attached /\ link => stuck = 0

UsbInv ==
    /\ reads \in Nat /\ stuck \in Nat /\ writes \in Nat
    /\ NothingBefore /\ NoneUnattached /\ OpensUnattached /\ NoneStuck /\ KeepsReading

-----------------------------------------------------------------------------
LEMMA UsbStart == UsbInit => UsbInv
BY DEF UsbInit, UsbInv, NothingBefore, NoneUnattached, OpensUnattached, NoneStuck, KeepsReading

\* A step that changes none of the transfers, or forgets them all.
LEMMA PlugKeeps == UsbInv /\ (Plug \/ Unplug) => UsbInv'
<1> SUFFICES ASSUME UsbInv, Plug \/ Unplug PROVE UsbInv'
  OBVIOUS
<1>1. /\ UNCHANGED <<attached, hot, reads, stuck, writes, served, flaws, initTimer>>
      /\ link' = link \/ ~link'
      /\ initTimer = "new" => plugEvents' = plugEvents
  BY DEF Plug, Unplug, Reports, transfers
<1> QED
  BY <1>1 DEF UsbInv, NothingBefore, NoneUnattached, OpensUnattached, NoneStuck, KeepsReading

\* A read that is asked for.
LEMMA SubmitKeeps ==
    ASSUME UsbInv, Submits, initTimer' # "new", hot' # "opening"
    PROVE  UsbInv'
<1>1. /\ attached /\ link /\ UNCHANGED <<attached, link, stuck, writes, flaws>>
      /\ reads' = reads + 1
  BY DEF Submits
<1> QED
  BY <1>1 DEF UsbInv, NothingBefore, NoneUnattached, OpensUnattached, NoneStuck, KeepsReading

\* Nothing is transferred, and what is attached, reported or opened stays so.
LEMMA NothingMoves ==
    ASSUME UsbInv, UNCHANGED <<link, attached, transfers, served>>,
           initTimer' # "new", hot' # "opening" \/ hot' = hot,
           "cut" \in flaws => "cut" \in flaws'
    PROVE  UsbInv'
BY DEF UsbInv, NothingBefore, NoneUnattached, OpensUnattached, NoneStuck, KeepsReading, transfers

LEMMA InitTimerKeeps == UsbInv /\ TimerTask => UsbInv'
<1> SUFFICES ASSUME UsbInv, TimerTask PROVE UsbInv'
  OBVIOUS
<1>1. CASE TimerInit
  <2>1. initTimer = "new" /\ initTimer' = "idle" /\ hot' = hot /\ hot = "idle" /\ ~served
    BY <1>1 DEF TimerInit, UsbInv, NothingBefore
  <2>2. CASE UNCHANGED <<link, attached, transfers, served, flaws>>
    BY <2>1, <2>2, NothingMoves
  <2>3. CASE ~attached /\ link' = TRUE /\ attached' = TRUE /\ UNCHANGED <<transfers, served, flaws>>
    BY <2>1, <2>3 DEF UsbInv, NothingBefore, NoneUnattached, OpensUnattached, NoneStuck, KeepsReading, transfers
  <2> QED  BY <1>1, <2>2, <2>3 DEF TimerInit, Fatal
<1>2. CASE TimerCheck
  BY <1>2, NothingMoves DEF TimerCheck
<1>3. CASE TimerSubmit
  <2>1. initTimer' = "off" /\ hot' = hot
    BY <1>3 DEF TimerSubmit
  <2>2. CASE Submits
    <3>1. hot' # "opening"
      BY <2>1, <2>2 DEF Submits, UsbInv, OpensUnattached
    <3> QED  BY <2>1, <2>2, <3>1, SubmitKeeps
  <2>3. CASE ~Submits
    <3>1. UNCHANGED <<link, attached, transfers, served>> /\ ("cut" \in flaws => "cut" \in flaws')
      BY <1>3, <2>3 DEF TimerSubmit, Fatal
    <3> QED  BY <2>1, <3>1, NothingMoves
  <2> QED  BY <2>2, <2>3
<1> QED  BY <1>1, <1>2, <1>3 DEF TimerTask

LEMMA HotKeeps == UsbInv /\ HotTask => UsbInv'
<1> SUFFICES ASSUME UsbInv, HotTask PROVE UsbInv'
  OBVIOUS
<1> DEFINE Flawed == "cut" \in flaws => "cut" \in flaws'
<1>1. CASE HotArrived
  <2>1. initTimer # "new" /\ UNCHANGED <<attached, initTimer, served>> /\ hot = "idle" /\ Flawed
    BY <1>1 DEF HotArrived, Handles, UsbInv, NothingBefore
  <2>2. CASE attached
    BY <1>1, <2>1, <2>2, NothingMoves DEF HotArrived
  <2>3. CASE ~attached
    <3>1. Orphaned
      BY <1>1, <2>3 DEF HotArrived
    <3> QED
      BY <2>1, <2>3, <3>1 DEF Orphaned, UsbInv, NothingBefore, NoneUnattached, OpensUnattached, NoneStuck,
         KeepsReading
  <2> QED  BY <2>2, <2>3
<1>2. CASE HotFails
  <2>1. initTimer # "new"
    BY <1>2 DEF HotFails, UsbInv, NothingBefore
  <2> QED  BY <1>2, <2>1, NothingMoves DEF HotFails
<1>3. CASE HotAttached
  <2>1. /\ hot = "opening" /\ hot' # "opening" /\ initTimer' = initTimer /\ served' = FALSE
        /\ UNCHANGED <<link, transfers, flaws>> /\ attached' = TRUE
    BY <1>3 DEF HotAttached, AfterAttach
  <2> QED
    BY <2>1 DEF UsbInv, NothingBefore, NoneUnattached, OpensUnattached, NoneStuck, KeepsReading, transfers
<1>4. CASE HotInit
  <2>1. hot = "init" /\ hot' = "idle" /\ initTimer # "new" /\ initTimer' \in {"off", initTimer}
    BY <1>4 DEF HotInit, UsbInv, NothingBefore
  <2>2. CASE Submits
    BY <2>1, <2>2, SubmitKeeps
  <2>3. CASE ~Submits
    BY <1>4, <2>1, <2>3, NothingMoves DEF HotInit, Fatal
  <2> QED  BY <2>2, <2>3
<1>5. CASE HotLeft
  <2>1. hot = "idle" /\ initTimer # "new" /\ UNCHANGED <<initTimer, hot, flaws>>
    BY <1>5 DEF HotLeft, Handles, UsbInv, NothingBefore
  <2>2. CASE attached
    <3>1. reads' = 0 /\ stuck' = 0 /\ writes' = 0 /\ served' = FALSE /\ attached' = FALSE
      BY <1>5, <2>2 DEF HotLeft, Closed, NoTransfers
    <3> QED
      BY <2>1, <3>1 DEF UsbInv, NothingBefore, NoneUnattached, OpensUnattached, NoneStuck, KeepsReading
  <2>3. CASE ~attached
    BY <1>5, <2>1, <2>3, NothingMoves DEF HotLeft
  <2> QED  BY <2>2, <2>3
<1> QED  BY <1>1, <1>2, <1>3, <1>4, <1>5 DEF HotTask

LEMMA TransferKeeps == UsbInv /\ (NoDevice \/ InDone \/ InNoDevice \/ OutDone \/ OutFails \/ Write) => UsbInv'
<1> SUFFICES ASSUME UsbInv, NoDevice \/ InDone \/ InNoDevice \/ OutDone \/ OutFails \/ Write PROVE UsbInv'
  OBVIOUS
<1>1. CASE NoDevice
  <2>1. "cut" \in flaws' /\ served' = FALSE /\ hot' = "idle"
        /\ UNCHANGED <<initTimer, plugEvents, transfers>>
    BY <1>1 DEF NoDevice, device
  <2> QED
    BY <2>1 DEF UsbInv, NothingBefore, NoneUnattached, OpensUnattached, NoneStuck, KeepsReading, transfers
<1>2. CASE InDone \/ InNoDevice \/ OutDone \/ OutFails \/ Write
  <2>1. UNCHANGED <<plugEvents, link, attached, initTimer, hot, served, flaws>>
    BY <1>2 DEF InDone, InNoDevice, OutDone, OutFails, Write, device
  <2>2. /\ reads' \in Nat /\ stuck' \in Nat /\ writes' \in Nat
        /\ "cut" \notin flaws /\ ~attached => reads' = 0 /\ stuck' = 0
        /\ "cut" \notin flaws /\ attached /\ link => stuck' = 0
        /\ KeepsReading'
    <3>1. CASE InDone
      BY <3>1, <2>1 DEF InDone, Requeued, Outstanding, UsbInv, NoneUnattached, NoneStuck, KeepsReading
    <3>2. CASE InNoDevice
      BY <3>2, <2>1 DEF InNoDevice, UsbInv, NoneUnattached, NoneStuck, KeepsReading
    <3>3. CASE OutDone
      BY <3>3, <2>1 DEF OutDone, Requeued, Outstanding, UsbInv, NoneUnattached, NoneStuck, KeepsReading
    <3>4. CASE OutFails \/ Write
      BY <3>4, <2>1 DEF OutFails, Write, UsbInv, NoneUnattached, NoneStuck, KeepsReading
    <3> QED  BY <1>2, <3>1, <3>2, <3>3, <3>4
  <2> QED  BY <2>1, <2>2 DEF UsbInv, NothingBefore, NoneUnattached, OpensUnattached, NoneStuck
<1> QED  BY <1>1, <1>2

LEMMA UsbStep == UsbInv /\ [UsbNext]_usbVars => UsbInv'
<1> SUFFICES ASSUME UsbInv, [UsbNext]_usbVars PROVE UsbInv'
  OBVIOUS
<1>1. CASE UNCHANGED usbVars
  BY <1>1 DEF usbVars, UsbInv, NothingBefore, NoneUnattached, OpensUnattached, NoneStuck, KeepsReading
<1> QED  BY <1>1, PlugKeeps, InitTimerKeeps, HotKeeps, TransferKeeps DEF UsbNext

\* A receiver that is attached and was asked for data always has a read
\* outstanding, through any order of plugging in and out, any transfers that
\* fail, and however many.  This is the safety part of GnssReads.
THEOREM ReadsOn == UsbSpec => []KeepsReading
<1>1. UsbInv => KeepsReading
  BY DEF UsbInv
<1> QED  BY UsbStart, UsbStep, <1>1, PTL DEF UsbSpec

\* The Boolean variables, the timer, the callback, the events and the flaws.
UsbFlags ==
    /\ plugged \in BOOLEAN /\ link \in BOOLEAN /\ devh \in BOOLEAN /\ attached \in BOOLEAN
    /\ before \in BOOLEAN /\ up \in BOOLEAN /\ served \in BOOLEAN

UsbQueue ==
    /\ plugEvents \in Seq({"arrived", "left"}) /\ Len(plugEvents) <= MaxPlugEvents
    /\ initTimer \in {"new", "idle", "submit", "off"} /\ hot \in {"idle", "opening", "init"}
    /\ flaws \subseteq {"garbage", "failed", "silent", "cut"} /\ writes \in 0 .. MaxWrites

\* Reads that are still to be asked for: by the timer, by the hot plug callback.
FromTimer == IF initTimer = "off" THEN 0 ELSE 1
FromHotPlug == IF hot = "idle" THEN 0 ELSE 1

\* A connection that is closed forgets its reads; the one that is cut without
\* being closed, of which there is one, leaves its own behind.
ReadsBounded ==
    /\ reads + FromTimer + FromHotPlug <= 2
    /\ "cut" \notin flaws => reads + stuck + FromTimer + FromHotPlug <= 2
    /\ reads + stuck + FromTimer + FromHotPlug <= 4
    /\ "cut" \in flaws /\ ~attached => reads + stuck + FromTimer <= 2

\* The flags stay flags.
LEMMA UsbFlagsStep ==
    ASSUME UsbFlags, [UsbNext]_usbVars
    PROVE  UsbFlags'
<1> USE DEF UsbFlags
<1>1. CASE Plug \/ Unplug
  BY <1>1, Zenon DEF Plug, Unplug
<1>2. CASE TimerInit \/ TimerCheck \/ TimerSubmit
  BY <1>2, Zenon DEF TimerInit, TimerCheck, TimerSubmit, Fatal, Submits, device
<1>3. CASE HotArrived
  BY <1>3, Zenon DEF HotArrived, Handles
<1>4. CASE HotFails \/ HotAttached
  BY <1>4, Zenon DEF HotFails, HotAttached, device
<1>5. CASE HotInit
  BY <1>5, Zenon DEF HotInit, Submits, Fatal, device
<1>6. CASE HotLeft
  BY <1>6, Zenon DEF HotLeft, Handles, Closed
<1>7. CASE NoDevice \/ InDone \/ InNoDevice \/ OutDone \/ OutFails \/ Write
  BY <1>7, Zenon DEF NoDevice, InDone, InNoDevice, OutDone, OutFails, Write, device
<1>8. CASE UNCHANGED usbVars
  BY <1>8, Zenon DEF usbVars
<1> QED  BY <1>1, <1>2, <1>3, <1>4, <1>5, <1>6, <1>7, <1>8, Zenon DEF UsbNext, TimerTask, HotTask

\* The events, the timer, the callback and the writes keep to their bounds.
LEMMA UsbQueueStep ==
    ASSUME UsbQueue, UsbInv, [UsbNext]_usbVars
    PROVE  UsbQueue'
<1> USE UsbAssumption DEF UsbQueue
<1>1. CASE Plug \/ Unplug
  <2>1. UNCHANGED <<initTimer, hot, flaws, writes>> /\ Len(plugEvents) < MaxPlugEvents
    BY <1>1 DEF Plug, Unplug, transfers
  <2>2. PICK e \in {"arrived", "left"} : plugEvents' = plugEvents \/ plugEvents' = Append(plugEvents, e)
    BY <1>1 DEF Plug, Unplug, Reports
  <2> QED  BY <2>1, <2>2
<1>2. CASE TimerInit \/ TimerCheck \/ TimerSubmit
  <2>1. UNCHANGED <<plugEvents, hot, writes>> /\ initTimer' \in {"idle", "submit", "off"}
    BY <1>2, Zenon DEF TimerInit, TimerCheck, TimerSubmit, Fatal, Submits, device, transfers
  <2>2. flaws' \in {flaws, flaws \union {"silent"}}
    BY <1>2, Zenon DEF TimerInit, TimerCheck, TimerSubmit, Fatal, Submits
  <2> QED  BY <2>1, <2>2
<1>3. CASE HotArrived
  <2>1. plugEvents # <<>> /\ plugEvents' = Tail(plugEvents) /\ initTimer' = initTimer
    BY <1>3 DEF HotArrived, Handles
  <2>2. writes' \in {0, writes} /\ flaws' \in {flaws, flaws \union {"failed"}} /\ hot' \in {hot, "opening"}
    BY <1>3 DEF HotArrived, Orphaned, transfers
  <2> QED  BY <2>1, <2>2
<1>4. CASE HotFails \/ HotAttached \/ HotInit
  <2>1. UNCHANGED <<plugEvents, writes>> /\ initTimer' \in {initTimer, "off"} /\ hot' \in {"idle", "init"}
    BY <1>4 DEF HotFails, HotAttached, AfterAttach, HotInit, Submits, Fatal, device, transfers
  <2>2. flaws' \in {flaws, flaws \union {"failed"}}
    BY <1>4 DEF HotFails, HotAttached, HotInit, Submits, Fatal
  <2> QED  BY <2>1, <2>2
<1>5. CASE HotLeft
  <2>1. /\ plugEvents # <<>> /\ plugEvents' = Tail(plugEvents) /\ UNCHANGED <<initTimer, hot, flaws>>
    BY <1>5 DEF HotLeft, Handles
  <2>2. writes' \in {0, writes}
    BY <1>5 DEF HotLeft, Closed, NoTransfers, transfers
  <2> QED  BY <2>1, <2>2
<1>6. CASE NoDevice
  <2>1. UNCHANGED <<plugEvents, initTimer, hot, writes>> /\ flaws' = flaws \union {"cut"}
    BY <1>6 DEF NoDevice, device, transfers
  <2> QED  BY <2>1
<1>7. CASE InDone \/ InNoDevice \/ OutDone \/ OutFails \/ Write
  <2>1. UNCHANGED <<plugEvents, initTimer, hot, flaws>>
    BY <1>7 DEF InDone, InNoDevice, OutDone, OutFails, Write, device
  <2>2. writes' \in 0 .. MaxWrites
    BY <1>7 DEF InDone, InNoDevice, OutDone, OutFails, Write
  <2> QED  BY <2>1, <2>2
<1>8. CASE UNCHANGED usbVars
  BY <1>8 DEF usbVars
<1> QED  BY <1>1, <1>2, <1>3, <1>4, <1>5, <1>6, <1>7, <1>8 DEF UsbNext, TimerTask, HotTask

\* A read that is asked for was still to be asked for; one that completes is
\* asked for again only when none is left.
LEMMA UsbReadsStep ==
    ASSUME ReadsBounded, UsbInv, UsbInv', UsbQueue, [UsbNext]_usbVars
    PROVE  ReadsBounded'
<1>0. /\ reads \in Nat /\ stuck \in Nat /\ reads' \in Nat /\ stuck' \in Nat
      /\ FromTimer \in 0 .. 1 /\ FromHotPlug \in 0 .. 1 /\ FromTimer' \in 0 .. 1 /\ FromHotPlug' \in 0 .. 1
  BY DEF UsbInv, FromTimer, FromHotPlug
<1>t. /\ initTimer' = initTimer => FromTimer' = FromTimer
      /\ hot' = hot => FromHotPlug' = FromHotPlug
      /\ initTimer' = "off" => FromTimer' = 0
      /\ initTimer # "off" => FromTimer = 1
      /\ hot' = "idle" => FromHotPlug' = 0
      /\ hot = "idle" => FromHotPlug = 0
      /\ hot # "idle" => FromHotPlug = 1
  BY DEF FromTimer, FromHotPlug
\* Nothing is transferred and nobody begins to ask.
<1>a. ASSUME UNCHANGED <<reads, stuck, attached>>, FromTimer' <= FromTimer, FromHotPlug' <= FromHotPlug,
             "cut" \in flaws <=> "cut" \in flaws'
      PROVE  ReadsBounded'
  BY <1>0, <1>a DEF ReadsBounded, FromTimer, FromHotPlug
<1>1. CASE Plug \/ Unplug \/ UNCHANGED usbVars
  <2>1. UNCHANGED <<reads, stuck, attached, initTimer, hot, flaws>>
    BY <1>1 DEF Plug, Unplug, usbVars, transfers
  <2> QED  BY <1>0, <1>a, <1>t, <2>1 DEF FromTimer, FromHotPlug
\* A read is asked for.
<1>b. ASSUME Submits, FromTimer' + FromHotPlug' <= FromTimer + FromHotPlug - 1
      PROVE  ReadsBounded'
  <2>1. attached' /\ reads' = reads + 1 /\ stuck' = stuck /\ flaws' = flaws
    BY <1>b DEF Submits
  <2> QED  BY <1>0, <1>b, <2>1 DEF ReadsBounded, FromTimer, FromHotPlug
<1>2. CASE TimerInit
  <2>1. /\ initTimer = "new" /\ initTimer' = "idle" /\ UNCHANGED <<reads, stuck, hot, flaws>>
        /\ attached' = attached \/ attached'
    BY <1>2 DEF TimerInit, Fatal, transfers
  <2>2. FromTimer' = 1 /\ FromTimer = 1 /\ FromHotPlug' = FromHotPlug
    BY <2>1 DEF FromTimer, FromHotPlug
  <2> QED  BY <1>0, <2>1, <2>2 DEF ReadsBounded, FromTimer, FromHotPlug
<1>3. CASE TimerCheck
  <2>1. UNCHANGED <<reads, stuck, attached, hot, flaws>> /\ initTimer # "off"
    BY <1>3 DEF TimerCheck, transfers
  <2> QED  BY <1>0, <1>a, <1>t, <2>1 DEF FromTimer, FromHotPlug
<1>4. CASE TimerSubmit
  <2>1. initTimer # "off" /\ initTimer' = "off" /\ hot' = hot
    BY <1>4 DEF TimerSubmit
  <2>2. \/ Submits
        \/ UNCHANGED <<reads, stuck, attached>> /\ flaws' \in {flaws, flaws \union {"silent"}}
    BY <1>4, Zenon DEF TimerSubmit, Fatal, transfers
  <2> QED  BY <1>0, <1>a, <1>b, <2>1, <2>2 DEF FromTimer, FromHotPlug
<1>5. CASE HotArrived
  <2>1. hot = "idle" /\ UNCHANGED <<attached, initTimer>> /\ ("cut" \in flaws <=> "cut" \in flaws')
    BY <1>5 DEF HotArrived, Handles
  <2>2. CASE attached
    <3>1. UNCHANGED <<reads, stuck, hot, flaws>>
      BY <1>5, <2>2 DEF HotArrived, transfers
    <3> QED  BY <1>0, <1>a, <1>t, <2>1, <3>1
  <2>3. CASE ~attached
    <3>1. reads' = 0 /\ stuck' = stuck + reads
      BY <1>5, <2>3 DEF HotArrived, Orphaned
    <3>2. "cut" \notin flaws => reads = 0 /\ stuck = 0
      BY <2>3 DEF UsbInv, NoneUnattached
    <3>3. FromTimer' = FromTimer /\ FromHotPlug = 0
      BY <2>1 DEF FromTimer, FromHotPlug
    <3> QED  BY <1>0, <2>1, <2>3, <3>1, <3>2, <3>3 DEF ReadsBounded, FromTimer, FromHotPlug
  <2> QED  BY <2>2, <2>3
<1>6. CASE HotFails
  <2>1. /\ hot' = "idle" /\ UNCHANGED <<reads, stuck, attached, initTimer>>
        /\ ("cut" \in flaws <=> "cut" \in flaws')
    BY <1>6 DEF HotFails, transfers
  <2> QED  BY <1>0, <1>a, <1>t, <2>1 DEF FromTimer, FromHotPlug
<1>7. CASE HotAttached
  <2>1. /\ hot # "idle" /\ attached' = TRUE /\ UNCHANGED <<reads, stuck, initTimer, flaws>>
    BY <1>7 DEF HotAttached, transfers
  <2>2. FromTimer' = FromTimer /\ FromHotPlug' <= FromHotPlug
    BY <2>1 DEF FromTimer, FromHotPlug
  <2> QED  BY <1>0, <2>1, <2>2 DEF ReadsBounded, FromTimer, FromHotPlug
<1>8. CASE HotInit
  <2>1. hot # "idle" /\ hot' = "idle" /\ initTimer' \in {initTimer, "off"}
    BY <1>8 DEF HotInit
  <2>2. Submits \/ UNCHANGED <<reads, stuck, attached, flaws>>
    BY <1>8 DEF HotInit, Fatal, transfers
  <2> QED  BY <1>0, <1>a, <1>b, <2>1, <2>2 DEF FromTimer, FromHotPlug
<1>9. CASE HotLeft
  <2>1. hot = "idle" /\ UNCHANGED <<initTimer, hot, flaws>>
    BY <1>9 DEF HotLeft, Handles
  <2>2. \/ reads' = 0 /\ stuck' = 0
        \/ UNCHANGED <<reads, stuck, attached>>
    BY <1>9 DEF HotLeft, Closed, NoTransfers, transfers
  <2>3. FromTimer' = FromTimer /\ FromHotPlug' = 0 /\ FromHotPlug = 0
    BY <2>1 DEF FromTimer, FromHotPlug
  <2>4. CASE reads' = 0 /\ stuck' = 0
    BY <1>0, <2>3, <2>4 DEF ReadsBounded, FromTimer, FromHotPlug
  <2> QED  BY <1>0, <1>a, <2>1, <2>2, <2>3, <2>4
<1>10. CASE NoDevice
  <2>1. /\ hot = "idle" /\ "cut" \notin flaws /\ UNCHANGED <<reads, stuck, initTimer, hot>>
    BY <1>10 DEF NoDevice, transfers
  <2>2. UNCHANGED <<FromTimer, FromHotPlug>>
    BY <2>1 DEF FromTimer, FromHotPlug
  <2> QED  BY <1>0, <2>1, <2>2 DEF ReadsBounded, FromTimer, FromHotPlug
<1>11. CASE InDone \/ InNoDevice \/ OutDone \/ OutFails \/ Write
  <2>1. UNCHANGED <<attached, initTimer, hot, flaws>>
    BY <1>11 DEF InDone, InNoDevice, OutDone, OutFails, Write
  <2>2. UNCHANGED <<FromTimer, FromHotPlug>>
    BY <2>1 DEF FromTimer, FromHotPlug
  <2>3. \/ reads' + stuck' <= reads + stuck /\ reads' <= reads
        \/ reads' = 1 /\ stuck' = 0 /\ hot = "idle" /\ attached
    <3>1. CASE InDone
      BY <1>0, <3>1 DEF InDone, Requeued, Outstanding
    <3>2. CASE InNoDevice
      BY <1>0, <3>2 DEF InNoDevice
    <3>3. CASE OutDone
      BY <1>0, <3>3 DEF OutDone, Requeued, Outstanding
    <3>4. CASE OutFails \/ Write
      <4>1. reads' = reads /\ stuck' = stuck
        BY <3>4 DEF OutFails, Write
      <4> QED  BY <1>0, <4>1
    <3> QED  BY <1>11, <3>1, <3>2, <3>3, <3>4
  <2>4. CASE reads' + stuck' <= reads + stuck /\ reads' <= reads
    <3>1. UNCHANGED <<attached, initTimer, hot>> /\ ("cut" \in flaws <=> "cut" \in flaws')
      BY <2>1
    <3>2. FromTimer' = FromTimer /\ FromHotPlug' = FromHotPlug
      BY <3>1 DEF FromTimer, FromHotPlug
    <3>3. FromTimer \in Nat /\ FromHotPlug \in Nat
      BY DEF FromTimer, FromHotPlug
    <3>4. /\ reads + FromTimer + FromHotPlug <= 2 => reads' + FromTimer + FromHotPlug <= 2
          /\ reads + stuck + FromTimer + FromHotPlug <= 2 => reads' + stuck' + FromTimer + FromHotPlug <= 2
          /\ reads + stuck + FromTimer + FromHotPlug <= 4 => reads' + stuck' + FromTimer + FromHotPlug <= 4
          /\ reads + stuck + FromTimer <= 2 => reads' + stuck' + FromTimer <= 2
      <4>1. reads \in Nat /\ stuck \in Nat /\ reads' \in Nat /\ stuck' \in Nat
        BY <1>0
      <4>2. reads' <= reads
        BY <2>4
      <4>3. reads' + stuck' <= reads + stuck
        BY <2>4
      <4>4. PICK q \in Nat, u \in Nat : q = reads' /\ u = stuck'
        BY <4>1
      <4>5. q <= reads /\ q + u <= reads + stuck
        BY <4>2, <4>3, <4>4
      <4>6. PICK t \in Nat, h \in Nat : t = FromTimer /\ h = FromHotPlug
        BY <3>3
      <4>7. /\ reads + t + h <= 2 => q + t + h <= 2
            /\ reads + stuck + t + h <= 2 => q + u + t + h <= 2
            /\ reads + stuck + t + h <= 4 => q + u + t + h <= 4
            /\ reads + stuck + t <= 2 => q + u + t <= 2
        BY <4>1, <4>5
      <4> QED  BY <4>4, <4>6, <4>7
    <3> QED  BY <3>1, <3>2, <3>4 DEF ReadsBounded
  <2>5. CASE reads' = 1 /\ stuck' = 0 /\ hot = "idle" /\ attached
    BY <1>0, <1>t, <2>1, <2>2, <2>5 DEF ReadsBounded, FromTimer, FromHotPlug
  <2> QED  BY <2>3, <2>4, <2>5
<1> QED
  BY <1>1, <1>2, <1>3, <1>4, <1>5, <1>6, <1>7, <1>8, <1>9, <1>10, <1>11 DEF UsbNext, TimerTask, HotTask

\* The connection keeps its types: no more than two reads are ever outstanding,
\* the timer's and the callback's, and no more than four are left uncounted, even
\* when a connection is cut without being closed.
THEOREM ConnectionTyped == UsbSpec => []UsbTypeOK
<1>1. UsbInit => UsbFlags /\ UsbQueue /\ ReadsBounded
  <2> SUFFICES ASSUME UsbInit PROVE UsbFlags /\ UsbQueue /\ ReadsBounded
    OBVIOUS
  <2>1. UsbFlags
    BY Zenon DEF UsbInit, UsbFlags
  <2>2. UsbQueue
    BY UsbAssumption DEF UsbInit, UsbQueue
  <2>3. ReadsBounded
    BY DEF UsbInit, ReadsBounded, FromTimer, FromHotPlug
  <2> QED  BY <2>1, <2>2, <2>3
<1>2. UsbInv /\ UsbFlags /\ UsbQueue /\ ReadsBounded => UsbTypeOK
  <2> SUFFICES ASSUME UsbInv, UsbFlags, UsbQueue, ReadsBounded PROVE UsbTypeOK
    OBVIOUS
  <2>1. reads \in 0 .. 2 /\ stuck \in 0 .. 4
    BY DEF UsbInv, ReadsBounded, FromTimer, FromHotPlug
  <2>2. {plugged, link, devh, attached, before, up, served} \subseteq BOOLEAN
    BY Zenon DEF UsbFlags
  <2> QED  BY <2>1, <2>2, Zenon DEF UsbQueue, UsbTypeOK
<1>3. UsbInv /\ UsbFlags /\ UsbQueue /\ ReadsBounded /\ [UsbNext]_usbVars
        => UsbInv' /\ UsbFlags' /\ UsbQueue' /\ ReadsBounded'
  BY UsbStep, UsbFlagsStep, UsbQueueStep, UsbReadsStep
<1> QED  BY <1>1, <1>2, <1>3, UsbStart, PTL DEF UsbSpec

-----------------------------------------------------------------------------
(* The start. *)

\* The start alone.
StartSpec == StartInit /\ [][StartNext]_startVars

\* The serial number asked for is looked for from the first step on.
SearchesWanted == startStep # "family" /\ wanted # NoSerial => serialStr = wanted

\* What is loaded stands, and what has not been reached is empty.
NotYet == startStep # "running" => startItems = {} /\ opened = <<>>

StartInv ==
    /\ family \in {"F9P", "F9R", "X20P"}
    /\ startStep \in {"family", "load", "validate", "running"}
    /\ SearchesWanted /\ NotYet /\ StartsConfigured

-----------------------------------------------------------------------------
\* The priorities: the user's file first when there is one, the file of the
\* default family last, and the family's own between them.
LEMMA PrioritiesAre ==
    /\ customFile => DOMAIN Priorities = 1 .. 3 /\ Priorities[1] = "custom" /\ Priorities[2] = family
                     /\ Priorities[3] = "F9P"
    /\ ~customFile => DOMAIN Priorities = 1 .. 2 /\ Priorities[1] = family /\ Priorities[2] = "F9P"
<1>1. CASE customFile
  <2>1. Priorities = <<"custom">> \o <<family, "F9P">>
    BY <1>1, Zenon DEF Priorities
  <2> QED  BY <1>1, <2>1
<1>2. CASE ~customFile
  <2>1. Priorities = <<>> \o <<family, "F9P">>
    BY <1>2, Zenon DEF Priorities
  <2> QED  BY <1>2, <2>1
<1> QED  BY <1>1, <1>2

\* What is loaded: a usable file, with all files before it unusable, or the
\* static map when none is usable.
LEMMA LoadKeeps == StartInv /\ LoadConfig => StartInv'
<1> SUFFICES ASSUME StartInv, LoadConfig PROVE StartInv'
  OBVIOUS
<1>1. startStep = "load" /\ startStep' = "validate" /\ UNCHANGED <<files, customFile, wanted, family, startItems>>
      /\ UNCHANGED <<serialStr, opened>>
  BY DEF LoadConfig, inputs, usbOpen
<1>2. startItems = {} /\ opened = <<>>
  BY <1>1 DEF StartInv, NotYet
<1>3. ASSUME NEW f, Usable(f) PROVE Loads(files[f])
  BY <1>3 DEF Usable, Loads
<1>4. /\ itemMap' \subseteq StaticItems /\ Cardinality(itemMap') >= MinItems
      /\ customFile /\ Usable("custom") => source' = "custom"
      /\ source' \in {"F9P", "static"} /\ family # "F9P" => ~Usable(family)
  <2>1. CASE \A i \in DOMAIN Priorities : ~Loads(files[Priorities[i]])
    <3>1. ~Usable(family)
      BY <2>1, <1>3, PrioritiesAre
    <3>2. customFile => ~Usable("custom")
      BY <2>1, <1>3, PrioritiesAre
    <3>3. itemMap' = StaticItems
      BY <2>1 DEF LoadConfig
    <3> QED  BY <3>1, <3>2, <3>3, StartAssumption
  <2>2. CASE \E i \in DOMAIN Priorities : Loads(files[Priorities[i]])
    <3>1. PICK i \in DOMAIN Priorities :
            /\ Loads(files[Priorities[i]])
            /\ \A j \in 1 .. i - 1 : ~Loads(files[Priorities[j]])
            /\ itemMap' = files[Priorities[i]] /\ source' = Priorities[i]
      BY <2>2 DEF LoadConfig
    <3>2. itemMap' \subseteq StaticItems /\ Cardinality(itemMap') >= MinItems
      BY <3>1 DEF Loads
    <3>3. ASSUME customFile, Usable("custom") PROVE source' = "custom"
      <4>1. Loads(files[Priorities[1]])
        BY <3>3, <1>3, PrioritiesAre
      <4>2. i = 1
        BY <4>1, <3>1, <3>3, PrioritiesAre
      <4> QED  BY <4>2, <3>1, <3>3, PrioritiesAre
    <3>4. ASSUME source' \in {"F9P", "static"}, family # "F9P" PROVE ~Usable(family)
      <4>1. PICK n \in 1 .. 2 : /\ DOMAIN Priorities = 1 .. n + 1 /\ Priorities[n] = family
                                /\ Priorities[n + 1] = "F9P"
                                /\ n = 2 => Priorities[1] = "custom"
        BY PrioritiesAre
      <4>2. i = n + 1
        BY <3>1, <3>4, <4>1 DEF StartInv
      <4>3. ~Loads(files[family])
        BY <3>1, <4>1, <4>2
      <4> QED  BY <4>3, <1>3
    <3> QED  BY <3>2, <3>3, <3>4
  <2> QED  BY <2>1, <2>2
<1>5. Usable("custom")' = Usable("custom") /\ Usable(family)' = Usable(family)
  BY <1>1 DEF Usable
<1> QED
  BY <1>1, <1>2, <1>4, <1>5 DEF StartInv, SearchesWanted, NotYet, StartsConfigured

LEMMA DeviceKeeps == StartInv /\ (OpenDevice \/ OpenFails) => StartInv'
<1> SUFFICES ASSUME StartInv, OpenDevice \/ OpenFails PROVE StartInv'
  OBVIOUS
<1>1. /\ startStep = "running" /\ UNCHANGED <<startStep, files, customFile, wanted, family, startItems>>
      /\ UNCHANGED <<itemMap, source>>
  BY DEF OpenDevice, OpenFails, inputs, loaded
<1>2. /\ wanted # NoSerial => serialStr' = wanted
      /\ \A i \in DOMAIN opened' : /\ opened'[i].product \in Products[family]
                                   /\ wanted # NoSerial => opened'[i].serial = wanted
  <2>1. CASE OpenFails
    BY <1>1, <2>1 DEF OpenFails, StartInv, SearchesWanted
  <2>2. CASE OpenDevice
    <3>1. PICK d :
            /\ Matches(d)
            /\ opened' \in IF d.product \in FactorySerial THEN {<<>>} ELSE {<<d>>, <<>>}
            /\ serialStr' = IF family = "X20P" /\ d.product \in FactorySerial THEN d.serial ELSE serialStr
      BY <2>2, Zenon DEF OpenDevice
    <3>2. d.product \in Products[family] /\ (wanted # NoSerial => d.serial = wanted /\ serialStr = wanted)
      BY <1>1, <3>1 DEF Matches, StartInv, SearchesWanted
    <3>3. opened' = <<>> \/ opened' = <<d>>
      BY <3>1, Zenon
    <3>4. serialStr' = serialStr \/ serialStr' = d.serial
      BY <3>1, Zenon
    <3> QED  BY <3>2, <3>3, <3>4
  <2> QED  BY <2>1, <2>2
<1>3. Usable("custom")' = Usable("custom") /\ Usable(family)' = Usable(family)
  BY <1>1 DEF Usable
<1>4. StartsConfigured'
  <2>1. /\ itemMap \subseteq StaticItems /\ Cardinality(itemMap) >= MinItems
        /\ startItems \subseteq itemMap
        /\ customFile /\ Usable("custom") => source = "custom"
        /\ source \in {"F9P", "static"} /\ family # "F9P" => ~Usable(family)
    BY <1>1 DEF StartInv, StartsConfigured
  <2> HIDE DEF Usable
  <2> QED  BY <1>1, <1>2, <1>3, <2>1 DEF StartsConfigured
<1> QED
  BY <1>1, <1>2, <1>4 DEF StartInv, SearchesWanted, NotYet

LEMMA StartStep == StartInv /\ [StartNext]_startVars => StartInv'
<1> SUFFICES ASSUME StartInv, [StartNext]_startVars PROVE StartInv'
  OBVIOUS
<1>1. CASE CheckFamily
  <2>1. /\ startStep = "family" /\ startStep' = "load" /\ serialStr' = wanted
        /\ UNCHANGED <<wanted, startItems, opened>>
    BY <1>1 DEF CheckFamily, inputs
  <2>2. family' \in {"F9P", "F9R", "X20P"}
    BY <1>1 DEF CheckFamily, Products
  <2> QED  BY <2>1, <2>2 DEF StartInv, SearchesWanted, NotYet, StartsConfigured
<1>2. CASE ValidateArgs
  <2>1. /\ startStep = "validate" /\ startStep' = "running" /\ startItems' \subseteq itemMap
        /\ UNCHANGED <<files, customFile, wanted, family, itemMap, source, serialStr, opened>>
    BY <1>2 DEF ValidateArgs, inputs, loaded, usbOpen
  <2>2. Usable("custom")' = Usable("custom") /\ Usable(family)' = Usable(family)
    BY <2>1 DEF Usable
  <2> QED  BY <2>1, <2>2 DEF StartInv, SearchesWanted, NotYet, StartsConfigured
<1>3. CASE UNCHANGED startVars
  BY <1>3 DEF startVars, loaded, inputs, usbOpen, StartInv, SearchesWanted, NotYet, StartsConfigured, Usable, Products
<1> QED  BY <1>1, <1>2, <1>3, LoadKeeps, DeviceKeeps DEF StartNext

\* Whichever files there are, the driver starts with items that it can
\* translate, prefers the user's file and the family's, and opens only a
\* receiver of the family with the serial number asked for.
THEOREM StartIsConfigured == StartSpec => []StartsConfigured
<1>1. StartInit => StartInv
  BY DEF StartInit, StartInv, SearchesWanted, NotYet, StartsConfigured
<1>2. StartInv => StartsConfigured
  BY DEF StartInv
<1> QED  BY <1>1, <1>2, StartStep, PTL DEF StartSpec

\* The argument that was given, and where the serial number looked for comes from.
StartRest ==
    /\ wanted \in SerialArgs
    /\ source \in {"none", "custom", "static"} \union DOMAIN Products
    /\ serialStr \in SerialArgs \union UNION {{list[i].serial : i \in DOMAIN list} : list \in UsbLists}

\* They are kept by a start and by every receiver that is opened.
LEMMA StartRestStep ==
    ASSUME StartInv, StartRest, [StartNext]_startVars
    PROVE  StartRest'
<1>0. DOMAIN Products = {"F9P", "F9R", "X20P"}
  BY DEF Products
<1>1. CASE CheckFamily
  BY <1>1 DEF CheckFamily, inputs, loaded, StartRest
<1>2. CASE LoadConfig
  <2>1. UNCHANGED <<wanted, serialStr>>
    BY <1>2 DEF LoadConfig, inputs, usbOpen
  <2>2. source' \in {"none", "custom", "static"} \union DOMAIN Products
    <3>1. source' = "static" \/ \E i \in DOMAIN Priorities : source' = Priorities[i]
      BY <1>2, Zenon DEF LoadConfig
    <3>2. \A i \in DOMAIN Priorities : Priorities[i] \in {"custom", family, "F9P"}
      BY PrioritiesAre
    <3> QED  BY <1>0, <3>1, <3>2 DEF StartInv
  <2> QED  BY <2>1, <2>2 DEF StartRest
<1>3. CASE ValidateArgs \/ OpenFails \/ UNCHANGED startVars
  <2>1. UNCHANGED <<wanted, source, serialStr>>
    BY <1>3 DEF ValidateArgs, OpenFails, startVars, inputs, loaded, usbOpen
  <2> QED  BY <2>1 DEF StartRest
<1>4. CASE OpenDevice
  <2>1. PICK list \in UsbLists : \E i \in DOMAIN list : serialStr' \in {serialStr, list[i].serial}
    BY <1>4 DEF OpenDevice
  <2>2. UNCHANGED <<wanted, source>>
    BY <1>4 DEF OpenDevice, inputs, loaded
  <2> QED  BY <2>1, <2>2 DEF StartRest
<1> QED  BY <1>1, <1>2, <1>3, <1>4 DEF StartNext

\* The driver's family is one it knows, and the serial number it looks for was
\* given or is that of a receiver it has seen.
THEOREM StartTyped == StartSpec => []StartTypeOK
<1>1. StartInit => StartInv /\ StartRest
  BY StartAssumption DEF StartInit, StartInv, StartRest, SearchesWanted, NotYet, StartsConfigured
<1>2. StartInv /\ StartRest => StartTypeOK
  BY DEF StartInv, StartRest, StartTypeOK, Products
<1> QED  BY <1>1, <1>2, StartStep, StartRestStep, PTL DEF StartSpec

-----------------------------------------------------------------------------
(* The fix. *)

\* The clients alone; safety needs no fairness.
ClientsSpec == ClientsInit /\ [][ClientsNext]_clientVars

\* A covariance in north, east, down, turned as a matrix.
Turned(c) == Times(Times(Turn, c), Turn)

\* The covariance that was turned is the one received last.
FixInv ==
    /\ haveCov \in BOOLEAN /\ (haveCov => lastCov \in NedCovs)
    /\ ~haveCov => enuPosCov = Zero
    /\ fix.known \in BOOLEAN
    /\ FixesHold

\* One factor on the left swaps north and east, and turns down.
LEMMA TurnLeft ==
    ASSUME NEW c, \A i, j \in 1 .. 3 : c[i][j] \in Int
    PROVE  Times(Turn, c) = [i \in 1 .. 3 |-> [j \in 1 .. 3 |->
              IF i = 1 THEN c[2][j] ELSE IF i = 2 THEN c[1][j] ELSE -c[3][j]]]
<1>1. Turn[1] = <<0, 1, 0>> /\ Turn[2] = <<1, 0, 0>> /\ Turn[3] = <<0, 0, -1>>
  BY DEF Turn
<1>2. /\ Turn[1][1] = 0 /\ Turn[1][2] = 1 /\ Turn[1][3] = 0
      /\ Turn[2][1] = 1 /\ Turn[2][2] = 0 /\ Turn[2][3] = 0
      /\ Turn[3][1] = 0 /\ Turn[3][2] = 0 /\ Turn[3][3] = -1
  BY <1>1
<1>3. ASSUME NEW i \in 1 .. 3, NEW j \in 1 .. 3
      PROVE  Turn[i][1] * c[1][j] + Turn[i][2] * c[2][j] + Turn[i][3] * c[3][j]
                = IF i = 1 THEN c[2][j] ELSE IF i = 2 THEN c[1][j] ELSE -c[3][j]
  <2>1. c[1][j] \in Int /\ c[2][j] \in Int /\ c[3][j] \in Int
    OBVIOUS
  <2> HIDE DEF Turn
  <2>2. CASE i = 1
    BY ONLY <1>2, <2>1, <2>2
  <2>3. CASE i = 2
    BY ONLY <1>2, <2>1, <2>3
  <2>4. CASE i = 3
    BY ONLY <1>2, <2>1, <2>4
  <2> QED  BY <2>2, <2>3, <2>4
<1> HIDE DEF Turn
<1> QED  BY <1>3 DEF Times

LEMMA TurnRight ==
    ASSUME NEW c, \A i, j \in 1 .. 3 : c[i][j] \in Int
    PROVE  Times(c, Turn) = [i \in 1 .. 3 |-> [j \in 1 .. 3 |->
              IF j = 1 THEN c[i][2] ELSE IF j = 2 THEN c[i][1] ELSE -c[i][3]]]
<1>1. Turn[1] = <<0, 1, 0>> /\ Turn[2] = <<1, 0, 0>> /\ Turn[3] = <<0, 0, -1>>
  BY DEF Turn
<1>2. /\ Turn[1][1] = 0 /\ Turn[1][2] = 1 /\ Turn[1][3] = 0
      /\ Turn[2][1] = 1 /\ Turn[2][2] = 0 /\ Turn[2][3] = 0
      /\ Turn[3][1] = 0 /\ Turn[3][2] = 0 /\ Turn[3][3] = -1
  BY <1>1
<1>3. ASSUME NEW i \in 1 .. 3, NEW j \in 1 .. 3
      PROVE  c[i][1] * Turn[1][j] + c[i][2] * Turn[2][j] + c[i][3] * Turn[3][j]
                = IF j = 1 THEN c[i][2] ELSE IF j = 2 THEN c[i][1] ELSE -c[i][3]
  <2>1. c[i][1] \in Int /\ c[i][2] \in Int /\ c[i][3] \in Int
    OBVIOUS
  <2> HIDE DEF Turn
  <2>2. CASE j = 1
    BY ONLY <1>2, <2>1, <2>2
  <2>3. CASE j = 2
    BY ONLY <1>2, <2>1, <2>3
  <2>4. CASE j = 3
    BY ONLY <1>2, <2>1, <2>4
  <2> QED  BY <2>2, <2>3, <2>4
<1> HIDE DEF Turn
<1> QED  BY <1>3 DEF Times

\* nav_cov_callback() turns a symmetric matrix as a matrix.
LEMMA EnuTurns == ASSUME NEW c \in NedCovs PROVE Enu(c) = Turned(c)
<1>1. \A i, j \in 1 .. 3 : c[i][j] \in Int /\ c[i][j] = c[j][i]
  BY ClientsAssumption
<1> DEFINE d == Times(Turn, c)
<1>2. d = [i \in 1 .. 3 |-> [j \in 1 .. 3 |->
              IF i = 1 THEN c[2][j] ELSE IF i = 2 THEN c[1][j] ELSE -c[3][j]]]
  BY <1>1, TurnLeft
<1> HIDE DEF d
<1>3. \A i, j \in 1 .. 3 : d[i][j] = IF i = 1 THEN c[2][j] ELSE IF i = 2 THEN c[1][j] ELSE -c[3][j]
  BY <1>2
<1>4. \A i, j \in 1 .. 3 : d[i][j] \in Int
  BY <1>1, <1>3
<1>5. Times(d, Turn) = [i \in 1 .. 3 |-> [j \in 1 .. 3 |->
              IF j = 1 THEN d[i][2] ELSE IF j = 2 THEN d[i][1] ELSE -d[i][3]]]
  BY <1>4, TurnRight
<1> DEFINE Row(i) == <<IF i = 1 THEN c[2][2] ELSE IF i = 2 THEN c[1][2] ELSE -c[3][2],
                       IF i = 1 THEN c[2][1] ELSE IF i = 2 THEN c[1][1] ELSE -c[3][1],
                       -(IF i = 1 THEN c[2][3] ELSE IF i = 2 THEN c[1][3] ELSE -c[3][3])>>
<1>6. ASSUME NEW i \in 1 .. 3 PROVE Times(d, Turn)[i] = Row(i)
  BY <1>3, <1>5
<1>7. Times(d, Turn) = <<Row(1), Row(2), Row(3)>>
  BY <1>5, <1>6
<1>8. /\ c[2][1] = c[1][2] /\ c[3][2] = c[2][3] /\ c[3][1] = c[1][3]
      /\ -(-c[3][3]) = c[3][3]
  BY <1>1
<1>9. Row(1) = <<c[2][2], c[1][2], -c[2][3]>>
  BY <1>8
<1>10. Row(2) = <<c[1][2], c[1][1], -c[1][3]>>
  BY <1>8
<1>11. Row(3) = <<-c[2][3], -c[1][3], c[3][3]>>
  BY <1>8
<1> HIDE DEF Row
<1> QED  BY <1>7, <1>9, <1>10, <1>11 DEF Enu, Turned, d

LEMMA FixStep == FixInv /\ [ClientsNext]_clientVars => FixInv'
<1> SUFFICES ASSUME FixInv, [ClientsNext]_clientVars PROVE FixInv'
  OBVIOUS
<1> USE DEF Turned
<1>1. CASE NavCovCallback
  <2>1. PICK c \in NedCovs : enuPosCov' = Enu(c) /\ lastCov' = c
    BY <1>1 DEF NavCovCallback
  <2>2. haveCov' = TRUE
    BY <1>1 DEF NavCovCallback
  <2>3. enuPosCov' = Turned(lastCov')
    BY <2>1, EnuTurns
  <2>4. UNCHANGED <<navStat, fix, lastStatus>>
    BY <1>1 DEF NavCovCallback
  <2> HIDE DEF Times
  <2> QED  BY <2>1, <2>2, <2>3, <2>4 DEF FixInv, FixesHold
<1>2. CASE NavStatusCallback
  <2>1. UNCHANGED <<enuPosCov, haveCov, fix, lastCov>>
    BY <1>2 DEF NavStatusCallback
  <2>2. navStat' \in {"fix", "sbas"} => FixTypes[lastStatus'[1]] /\ (navStat' = "sbas") = lastStatus'[2]
    <3>1. PICK t \in DOMAIN FixTypes : \E diffSoln \in BOOLEAN :
            /\ navStat' = IF FixTypes[t] THEN IF diffSoln THEN "sbas" ELSE "fix" ELSE "none"
            /\ lastStatus' = <<t, diffSoln>>
      BY <1>2, Zenon DEF NavStatusCallback
    <3>2. PICK diffSoln \in BOOLEAN :
            /\ navStat' = IF FixTypes[t] THEN IF diffSoln THEN "sbas" ELSE "fix" ELSE "none"
            /\ lastStatus' = <<t, diffSoln>>
      BY <3>1, Zenon
    <3>3. lastStatus'[1] = t /\ lastStatus'[2] = diffSoln
      BY <3>2
    <3>4. navStat' \in {"fix", "sbas"} => FixTypes[t] /\ (navStat' = "sbas" <=> diffSoln)
      BY <3>2
    <3>5. (navStat' = "sbas") \in BOOLEAN
      OBVIOUS
    <3> QED  BY <3>3, <3>4, <3>5, Zenon
  <2> QED  BY <2>1, <2>2 DEF FixInv, FixesHold
<1>3. CASE NavHpPosCallback
  <2>1. /\ fix' = [cov |-> enuPosCov, known |-> haveCov, status |-> navStat]
        /\ UNCHANGED <<enuPosCov, haveCov, navStat, lastCov, lastStatus>>
    BY <1>3 DEF NavHpPosCallback
  <2>2. fix'.cov = enuPosCov /\ fix'.known = haveCov
    BY <2>1, Zenon
  <2> QED  BY <2>1, <2>2 DEF FixInv, FixesHold
<1>4. CASE UNCHANGED fixVars
  BY <1>4 DEF fixVars, FixInv, FixesHold
<1> QED
  BY <1>1, <1>2, <1>3, <1>4 DEF ClientsNext, StreamLoop, WriteCallback, StreamFails, StreamCloses, Wakes,
     Destructor, Joins, clientVars

\* In whatever order the three topics come, the joined fix carries a covariance
\* of the receiver's, turned as a matrix, and a status that the receiver had.
THEOREM FixesJoin == ClientsSpec => []FixesHold
<1>1. ClientsInit => FixInv
  <2> SUFFICES ASSUME ClientsInit PROVE FixInv
    OBVIOUS
  <2>1. ~haveCov /\ haveCov \in BOOLEAN /\ enuPosCov = Zero /\ navStat = "unset"
    BY Zenon DEF ClientsInit
  <2>2. fix.cov = Zero /\ ~fix.known /\ fix.known \in BOOLEAN
    BY Zenon DEF ClientsInit
  <2> QED  BY <2>1, <2>2 DEF FixInv, FixesHold
<1>2. FixInv => FixesHold
  BY DEF FixInv
<1> QED  BY <1>1, <1>2, FixStep, PTL DEF ClientsSpec

\* No step of the two nodes leaves the types, however many records a stream has.
LEMMA ClientsStep == ClientsTypeOK /\ [ClientsNext]_clientVars => ClientsTypeOK'
<1> SUFFICES ASSUME ClientsTypeOK, [ClientsNext]_clientVars PROVE ClientsTypeOK'
  OBVIOUS
<1> USE ClientsAssumption DEF ClientsTypeOK
<1>1. CASE StreamLoop \/ StreamFails \/ StreamCloses \/ Wakes
  BY <1>1 DEF StreamLoop, StreamFails, StreamCloses, Wakes, fixVars
<1>2. CASE WriteCallback
  BY <1>2 DEF WriteCallback, fixVars
<1>3. CASE Destructor \/ Joins
  <2>1. streamingExit' \in BOOLEAN /\ haveCov' \in BOOLEAN
    BY <1>3, Zenon DEF Destructor, Joins, fixVars
  <2> QED  BY <1>3, <2>1 DEF Destructor, Joins, fixVars
<1>4. CASE NavCovCallback
  <2>1. streamingExit' \in BOOLEAN /\ haveCov' \in BOOLEAN
    BY <1>4, Zenon DEF NavCovCallback, ntripVars
  <2> QED  BY <1>4, <2>1 DEF NavCovCallback, ntripVars
<1>5. CASE NavStatusCallback
  <2>1. navStat' \in {"fix", "sbas", "none"}
    BY <1>5 DEF NavStatusCallback
  <2> QED  BY <1>5, <2>1 DEF NavStatusCallback, ntripVars
<1>6. CASE NavHpPosCallback \/ UNCHANGED clientVars
  BY <1>6 DEF NavHpPosCallback, clientVars, ntripVars, fixVars
<1> QED  BY <1>1, <1>2, <1>3, <1>4, <1>5, <1>6 DEF ClientsNext

\* The NTRIP client's count of records stays below the one that cuts the stream.
THEOREM ClientsTyped == ClientsSpec => []ClientsTypeOK
<1>1. ClientsInit => ClientsTypeOK
  <2> SUFFICES ASSUME ClientsInit PROVE ClientsTypeOK
    OBVIOUS
  <2>1. streamingExit \in BOOLEAN /\ haveCov \in BOOLEAN
    BY Zenon DEF ClientsInit
  <2> QED  BY <2>1, ClientsAssumption DEF ClientsInit, ClientsTypeOK
<1> QED  BY <1>1, ClientsStep, PTL DEF ClientsSpec
=============================================================================
