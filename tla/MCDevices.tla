------------------------------ MODULE MCDevices ------------------------------
(***************************************************************************)
(* The parts of the firmware and of the GNSS driver that share no state,   *)
(* checked in one run: a behaviour is a behaviour of one of them.          *)
(***************************************************************************)
EXTENDS Actuator, Switches, BoardNet, BoardV2,
        GnssUsb, GnssParams, GnssFrames, GnssClients, GnssStart, UbxDecode, TLC

VARIABLE part

ActLimits == {<<1, 3>>, <<3, 2>>}
Chargers == {[valid |-> 0, on |-> 2, full |-> 3], [valid |-> 1, on |-> 3, full |-> 3]}

\* Configuration items "a", a start argument, and "b".
ArgValues == "a" :> 2
Chips == {"a" :> 1 @@ "b" :> 3}
Defaults == "a" :> 0 @@ "b" :> 0

\* Transfers: a message for each group of topics and some without, the other
\* forms, and frames that share a transfer.
Frame(form, msg, blocks, sum) == [form |-> form, msg |-> msg, blocks |-> blocks, sum |-> sum]
Alone == {"nav_vel_ned", "nav_pvt", "nav_hp_pos_llh", "nav_cov", "rxm_rtcm", "mon_ver", "sec_uniqid"}
WithBlocks == {"nav_sat", "rxm_spartnkey", "rxm_rawx", "esf_meas", "sec_sig_v1", "mon_comms"}
Pvt == Frame("ubx", "nav_pvt", 0, 1)
Rtcm == Frame("rtcm", "rtcm", 0, 0)
Received ==
    {<<Frame("ubx", msg, 0, 0)>> : msg \in Alone} \union {<<Frame("ubx", msg, 2, 0)>> : msg \in WithBlocks}
    \union {<<Rtcm>>, <<Frame("nmea", "nmea", 0, 0)>>}
    \union {<<Pvt, Pvt>>, <<Pvt, Frame("ubx", "nav_eoe", 0, 0)>>}
Sendable == {Frame("ubx", "mon_ver", 0, 0)}

Covs == { << <<4, 1, 2>>, <<1, 5, 3>>, <<2, 3, 6>> >>, << <<1, 0, -1>>, <<0, 2, 1>>, <<-1, 1, 3>> >> }
Types == [none |-> FALSE, fix3d |-> TRUE]

\* Files, and receivers as libusb lists them.
Contents == {Broken, {"a", "b"}, {"a", "x"}}
Receiver(product, serial) == [product |-> product, serial |-> serial]
Lists == {<<Receiver("01a9", "s1"), Receiver("01a9", "s2")>>,
          <<Receiver("01ab", NoSerial), Receiver("050c", "s1"), Receiver("050d", "s1")>>,
          <<Receiver("050c", "s2"), Receiver("01a9", NoSerial)>>,
          <<Receiver("050c", NoSerial), Receiver("050d", "s1")>>}

vars == <<part, actVars, swVars, netVars, v2Vars, usbVars, cfgVars, frameVars, clientVars, startVars>>

\* A part that is not checked stands still in one state.
Init ==
    /\ part \in {"actuator", "switches", "network", "charger", "usb", "params", "frames", "clients", "start"}
    /\ ActInit /\ SwInit /\ NetInit /\ V2Init
    /\ UsbInit /\ ParamsInit /\ FramesInit /\ ClientsInit /\ StartInit
    /\ part # "actuator" => ~invert /\ enabled /\ limits = <<1, 3>>
    /\ part # "switches" => ~busBad
    /\ part # "network" => /\ ~wifiUp /\ ~brokerUp /\ flash.wifi = "bad" /\ flash.broker = "bad"
                           /\ flash.act = flash.power /\ flash.act = CHOOSE v \in Settings : TRUE
    /\ part # "charger" => pvCfg = CHOOSE c \in PvConfigs : TRUE
    /\ part # "usb" => ~plugged /\ ~attached
    /\ part # "start" => ~customFile /\ wanted = NoSerial /\ \A f \in DOMAIN files : files[f] = Broken

InActuator(A) == /\ part = "actuator" /\ A
                 /\ UNCHANGED <<part, swVars, netVars, v2Vars, usbVars, cfgVars, frameVars, clientVars, startVars>>
InSwitches(A) == /\ part = "switches" /\ A
                 /\ UNCHANGED <<part, actVars, netVars, v2Vars, usbVars, cfgVars, frameVars, clientVars, startVars>>
InNetwork(A) == /\ part = "network" /\ A
                /\ UNCHANGED <<part, actVars, swVars, v2Vars, usbVars, cfgVars, frameVars, clientVars, startVars>>
InCharger(A) == /\ part = "charger" /\ A
                /\ UNCHANGED <<part, actVars, swVars, netVars, usbVars, cfgVars, frameVars, clientVars, startVars>>
InUsb(A) == /\ part = "usb" /\ A
            /\ UNCHANGED <<part, actVars, swVars, netVars, v2Vars, cfgVars, frameVars, clientVars, startVars>>
InParams(A) == /\ part = "params" /\ A
               /\ UNCHANGED <<part, actVars, swVars, netVars, v2Vars, usbVars, frameVars, clientVars, startVars>>
InFrames(A) == /\ part = "frames" /\ A
               /\ UNCHANGED <<part, actVars, swVars, netVars, v2Vars, usbVars, cfgVars, clientVars, startVars>>
InClients(A) == /\ part = "clients" /\ A
                /\ UNCHANGED <<part, actVars, swVars, netVars, v2Vars, usbVars, cfgVars, frameVars, startVars>>
InStart(A) == /\ part = "start" /\ A
              /\ UNCHANGED <<part, actVars, swVars, netVars, v2Vars, usbVars, cfgVars, frameVars, clientVars>>

Next ==
    \/ InActuator(ActNext)
    \/ InSwitches(SwNext)
    \/ InNetwork(NetNext)
    \/ InCharger(V2Next)
    \/ InUsb(UsbNext)
    \/ InParams(ParamsNext)
    \/ InFrames(FramesNext)
    \/ InClients(ClientsNext)
    \/ InStart(StartNext)

\* The tasks and timers run, libusb's thread handles its events, and while the
\* NTRIP client streams the caster sends.  Only one part moves, so the fairness of
\* its first task and of its second stand in one condition for all the parts.
FirstTask ==
    \/ InSwitches(PowerTask) \/ InNetwork(Task) \/ InCharger(V2Task)
    \/ InUsb(up /\ TimerTask) \/ InParams(ParamTask) \/ InClients(StreamTask)

SecondTask ==
    \/ InSwitches(ControlTask) \/ InUsb(up /\ HotTask) \/ InParams(Elapse)
    \/ InClients(WriteCallback)

Fairness == WF_vars(FirstTask) /\ WF_vars(SecondTask)

Spec == Init /\ [][Next]_vars /\ Fairness

-----------------------------------------------------------------------------
DevTypeOK ==
    /\ ActTypeOK /\ SwTypeOK /\ NetTypeOK /\ V2TypeOK
    /\ UsbTypeOK /\ ParamsTypeOK /\ FramesTypeOK /\ ClientsTypeOK /\ StartTypeOK

\* What the GNSS nodes begin they end: the fetch of a receiver's configuration
\* and the destructor that waits for the stream of corrections.
GnssTasksEnd == FetchEnds /\ NtripStops

\* What the driver starts with and what it passes on fit: its configuration, the
\* receiver it opens, the fields it decodes and the fixes made of them.
GnssDataOK == StartsConfigured /\ DecodesInside /\ FixesHold
=============================================================================
