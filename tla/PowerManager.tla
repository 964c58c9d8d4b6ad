---------------------------- MODULE PowerManager ----------------------------
(***************************************************************************)
(* The battery and PV power policy of the ESP32 firmware                   *)
(* (embedded/solbot_main/firmware/src/power.cpp), class PowerManager.      *)
(*                                                                         *)
(* One step of the power task (10 Hz) is PowerManager::update: measure,    *)
(* protect, smartSwap, discharge, charge, in this order and under the      *)
(* firmware's lock, so Update is one action.  MQTT commands change modes   *)
(* and clear faults between two updates; an ESP32 reset forgets everything *)
(* but the switch positions, which the I/O expander keeps.                 *)
(*                                                                         *)
(* Voltages and currents are integers on a scale chosen by the constants.  *)
(* The code's "x_since" timestamps (0: not running) are ages counted in    *)
(* updates, NotRunning or 0 .. limit + 1: the code only asks whether       *)
(* now - x_since exceeds the limit.                                        *)
(***************************************************************************)
EXTENDS Integers, FiniteSets, Functions

CONSTANTS
  NPack,        \* number of pack channels
  Cells,        \* cells in series of each pack, 0: not installed
  VChg, VChgLow, VOv, VUv, VUvReconnect, VCrit,  \* per-cell limits
  DvPar,        \* per-cell OCV difference below which packs may be paralleled
  VMin,         \* a pack below this voltage is not there (5 V)
  RInt,         \* internal resistance of a cell
  IDisMax, IChgMax,      \* per-pack current limits
  ICharging, ISurplus,   \* net pack current that counts as charging, as surplus
  OcTicks, UvTicks, PvOffTicks, SwapTicks,  \* time limits, in updates
  SmartSwap,    \* is the optional smart swap configured?
  Volts, Amps, BusVolts, PvAmps, Suns, Temps, \* what the inputs may read
  PackModes, PvModes   \* the modes that are commanded over MQTT

NotRunning == -1
Pack == 1 .. NPack
Mode == {"auto", "on", "off"}
PackFault == {"none", "oc_discharge", "oc_charge", "overvoltage", "undervoltage"}
Overcurrent == {"oc_discharge", "oc_charge"}

(* Classes of the PV current (amperes beyond -1.0, beyond -0.3, normal,    *)
(* above i_pv_max) and of the board temperature (above t_max, within 5     *)
(* degrees below it, cooler).                                              *)
PvAmp == {"hard_reverse", "reverse", "normal", "over"}
Temp == {"hot", "warm", "cool"}

ASSUME PackAssumption ==
  /\ NPack \in Nat \ {0}
  /\ Cells \in [Pack -> Nat]

ASSUME LimitAssumption ==
  /\ {VChg, VChgLow, VOv, VUv, VUvReconnect, VCrit, DvPar, VMin, RInt} \subseteq Nat
  /\ VCrit < VUv /\ VUv < VUvReconnect /\ VUvReconnect < VChgLow
  /\ VChgLow < VChg /\ VChg < VOv
  /\ {IDisMax, IChgMax, ICharging, ISurplus} \subseteq Nat
  /\ {OcTicks, UvTicks, PvOffTicks, SwapTicks} \subseteq Nat
  /\ SmartSwap \in BOOLEAN

ASSUME InputAssumption ==
  /\ Volts \subseteq Nat /\ BusVolts \subseteq Nat
  /\ Amps \subseteq Int /\ 0 \in Amps
  /\ PvAmps \subseteq PvAmp /\ "normal" \in PvAmps
  /\ Suns \subseteq BOOLEAN /\ Temps \subseteq Temp
  /\ PackModes \subseteq Mode /\ PvModes \subseteq Mode

VARIABLES
  on,          \* packs whose switch is wanted closed (PackState::on)
  mode,        \* mode of each pack
  fault,       \* fault of each pack
  ocAge,       \* age of PackState::oc_since
  uvAge,       \* age of PackState::uv_since
  pvOn,        \* PV switch wanted closed
  pvMode,
  pvOffAge,    \* age of PvState::off_since
  pvOcAge,     \* age of PvState::oc_since
  overtemp,
  surplusAge,  \* age of surplusSince_
  first,       \* first_: the next update only measures
  meas,        \* the sample the last update worked on
  tripped      \* history: packs an over-current has opened since their last reset

policyVars == <<mode, pvMode>>
vars == <<on, mode, fault, ocAge, uvAge, pvOn, pvMode, pvOffAge, pvOcAge,
          overtemp, surplusAge, first, meas, tripped>>

Ages(limit) == {NotRunning} \cup 0 .. limit + 1

(* A timer that is running (or is started) when cond holds.                *)
Running(age, cond, limit) ==
  IF ~cond THEN NotRunning
  ELSE IF age = NotRunning THEN 0
  ELSE IF age > limit THEN limit + 1 ELSE age + 1

-----------------------------------------------------------------------------
(* measure(): an open switch carries no current, and an open PV switch     *)
(* reads no PV current; with the PV switch closed the panel sits at the    *)
(* bus voltage, so sun (pv.v > bus_v + 1) can only be seen with it open.   *)
Sample ==
  {m \in [v : [Pack -> Volts], i : [Pack -> Amps], busV : BusVolts,
          pvI : PvAmps, sun : Suns, temp : Temps] :
     /\ \A k \in Pack \ on : m.i[k] = 0
     /\ IF pvOn THEN ~m.sun ELSE m.pvI = "normal"}

Installed == {k \in Pack : Cells[k] > 0}
Ocv(m) == [k \in Pack |-> m.v[k] + m.i[k] * Cells[k] * RInt]
Hot(m) == m.temp = "hot" \/ (m.temp = "warm" /\ overtemp)

(* What one pack reads, against its limits.                                *)
OcDis(m, k) == m.i[k] > IDisMax
OcChg(m, k) == -m.i[k] > IChgMax
OverV(m, k) == m.v[k] > Cells[k] * VOv
UnderV(m, k) == m.v[k] < Cells[k] * VUv
Critical(m, k) == m.v[k] < Cells[k] * VCrit

(* busOcv(): mean OCV of the connected packs S, the bus voltage if none.   *)
(* Near(m, S, k): the OCV of pack k is within dv_par of it.                *)
BusSum(m, S) == FoldFunctionOnSet(+, 0, Ocv(m), S)
Below(m, S, k) ==
  IF S = {} THEN Ocv(m)[k] < m.busV - Cells[k] * DvPar
  ELSE Cardinality(S) * (Ocv(m)[k] + Cells[k] * DvPar) < BusSum(m, S)
Near(m, S, k) ==
  LET n == Cardinality(S)
      d == n * Ocv(m)[k] - BusSum(m, S)
  IN  -n * Cells[k] * DvPar < d /\ d < n * Cells[k] * DvPar

NetPackAmps(m) == FoldFunctionOnSet(+, 0, m.i, Pack)

-----------------------------------------------------------------------------
(* protect().  The loop visits the packs in index order: a pack sees the   *)
(* PV switch as the packs before it left it, and counts as the last one    *)
(* only when those before it have already been opened.  Its tests run      *)
(* over-current, over-voltage, under-voltage, and the fault of a later one *)
(* overwrites that of an earlier.                                          *)
Guarded == on \cap Installed

OcAge(m, k) == Running(ocAge[k], k \in Guarded /\ (OcDis(m, k) \/ OcChg(m, k)), OcTicks)
UvAge(m, k) == Running(uvAge[k], k \in Guarded /\ UnderV(m, k), UvTicks)

DropsPv(m, k) == OcChg(m, k) \/ OverV(m, k)
PvSeenBy(m, k) == pvOn /\ \A j \in Guarded : j < k => ~DropsPv(m, j)

OcTrips(m) ==
  {k \in Guarded : /\ OcAge(m, k) > OcTicks
                   /\ OcDis(m, k) \/ (OcChg(m, k) /\ ~PvSeenBy(m, k))}

(* Of packs 1 .. n, those the under-voltage test opens, given those that   *)
(* the over-current test opens.                                            *)
UvTrips(m, oc) ==
  LET trips[n \in 0 .. NPack] ==
        IF n = 0 THEN {}
        ELSE LET opened == (1 .. n) \cap (oc \cup trips[n - 1] \cup (Pack \ Installed))
                 last == Cardinality(on \ opened) <= 1
             IN  IF n \in Guarded /\ UvAge(m, n) > UvTicks /\ (~last \/ Critical(m, n))
                 THEN trips[n - 1] \cup {n}
                 ELSE trips[n - 1]
  IN  trips[NPack]

Recovered(m, k) ==
  /\ k \in Installed \ on
  /\ \/ fault[k] = "undervoltage" /\ m.v[k] > Cells[k] * VUvReconnect
     \/ fault[k] = "overvoltage" /\ m.v[k] < Cells[k] * VChg

FaultProtected(m, k, oc, uv) ==
  IF k \in uv THEN "undervoltage"
  ELSE IF k \in Guarded /\ OverV(m, k) THEN "overvoltage"
  ELSE IF k \in oc THEN IF OcDis(m, k) THEN "oc_discharge" ELSE "oc_charge"
  ELSE IF Recovered(m, k) THEN "none"
  ELSE fault[k]

PvBeforeReverse(m) == pvOn /\ \A k \in Guarded : ~DropsPv(m, k)
PvOcAge(m) == Running(pvOcAge, PvBeforeReverse(m) /\ m.pvI # "normal", OcTicks)

(* What protect() hands on: the packs still connected, the faults, the PV  *)
(* switch.                                                                 *)
Protected(m) ==
  LET oc == OcTrips(m)
      uv == UvTrips(m, oc)
  IN  [on |-> Guarded \ (oc \cup uv),
       fault |-> [k \in Pack |-> FaultProtected(m, k, oc, uv)],
       pv |-> PvBeforeReverse(m) /\ m.pvI # "hard_reverse" /\ PvOcAge(m) <= OcTicks]

-----------------------------------------------------------------------------
(* smartSwap(): after SwapTicks of surplus the bus moves onto the lowest   *)
(* pack that could not join; only packs in auto mode are opened for it.    *)
LowestOf(f, S) == {k \in S : \A j \in S : f[k] < f[j] \/ (f[k] = f[j] /\ k <= j)}
HighestOf(f, S) == {k \in S : \A j \in S : f[k] > f[j] \/ (f[k] = f[j] /\ k <= j)}

SurplusAge(m, p) ==
  Running(surplusAge, SmartSwap /\ p.pv /\ -NetPackAmps(m) >= ISurplus, SwapTicks)

SwapTarget(m, p) ==
  IF SurplusAge(m, p) < SwapTicks THEN {}
  ELSE LowestOf(Ocv(m), {k \in Installed \ p.on : /\ mode[k] = "auto" /\ p.fault[k] = "none"
                                                 /\ Below(m, p.on, k)
                                                 /\ m.v[k] > Cells[k] * VUv})

Swapped(m, p, target) ==
  IF target = {} THEN p
  ELSE [p EXCEPT !.on = {k \in p.on : mode[k] # "auto"} \cup target]

(* discharge(): manual modes first; then, on a dead bus, one anchor pack;  *)
(* on a live bus, the packs that are close enough to it join.              *)
OnManual(s) ==
  {k \in s.on : mode[k] # "off"}
    \cup {k \in Installed : mode[k] = "on" /\ s.fault[k] \notin Overcurrent}

\* Mutant: a latched over-current still counts as usable.
MutUsable(s) == {k \in Installed : mode[k] = "auto" /\ s.fault[k] # "undervoltage"}

Usable(s) ==
  {k \in Installed : mode[k] = "auto" /\ s.fault[k] \in {"none", "overvoltage"}}

\* Mutant: the last resort asks for the under-voltage limit.
MutLastResort(m, s) ==
  {k \in Installed : /\ mode[k] = "auto" /\ s.fault[k] = "undervoltage"
                     /\ m.v[k] > Cells[k] * VUv}

LastResort(m, s) ==
  {k \in Installed : /\ mode[k] = "auto" /\ s.fault[k] = "undervoltage"
                     /\ m.v[k] > Cells[k] * VCrit}

Anchor(m, s) ==
  {k \in HighestOf(m.v, IF Usable(s) # {} THEN Usable(s) ELSE LastResort(m, s)) : m.v[k] > VMin}

Charging(m, s) == s.pv /\ -NetPackAmps(m) >= ICharging

\* Mutant: a pack joins whatever the bus voltage is.
MutJoiners(m, s, bus) ==
  {k \in Installed \ bus :
     mode[k] = "auto" /\ (k \in Usable(s) \/ (s.fault[k] = "undervoltage" /\ Charging(m, s)))}

Joiners(m, s, bus) ==
  {k \in Installed \ bus :
     /\ mode[k] = "auto"
     /\ k \in Usable(s) \/ (s.fault[k] = "undervoltage" /\ Charging(m, s))
     /\ Near(m, bus, k)}

Discharged(m, s) ==
  LET bus == OnManual(s)
      joiners == Joiners(m, s, bus)
  IN  IF bus = {} THEN [s EXCEPT !.on = Anchor(m, s)]
      ELSE [s EXCEPT !.on = bus \cup joiners,
                     !.fault = [k \in Pack |-> IF k \in joiners /\ s.fault[k] = "undervoltage"
                                               THEN "none" ELSE s.fault[k]]]

(* charge(): the PV switch, given the packs d that discharge() connected.  *)
Full(m, d) == \E k \in d.on : m.v[k] >= Cells[k] * VChg \/ d.fault[k] = "overvoltage"
Low(m, d) == \A k \in d.on : m.v[k] < Cells[k] * VChgLow
PvOffAged == Running(pvOffAge, pvOffAge # NotRunning, PvOffTicks)
Rested == PvOffAged = NotRunning \/ PvOffAged > PvOffTicks

\* Mutant: charge() works on the PV switch as it was before protect().
MutPvCharge(m, d) ==
  /\ pvMode # "off" /\ ~Full(m, d)
  /\ \/ pvMode = "on"
     \/ d.on # {} /\ ~Hot(m) /\ (pvOn \/ (Rested /\ Low(m, d) /\ m.sun))

PvCharge(m, d) ==
  /\ pvMode # "off" /\ ~Full(m, d)
  /\ \/ pvMode = "on"
     \/ /\ d.on # {} /\ ~Hot(m)
        \* protect() has just restarted the off time if it opened the switch
        /\ d.pv \/ (~pvOn /\ Rested /\ Low(m, d) /\ m.sun)

(* off_since restarts when protect() or charge() opens the switch; turning *)
(* the mode to off does not restart it.                                    *)
PvOffAge(m, d) ==
  IF pvOn /\ (~d.pv \/ (pvMode # "off" /\ ~PvCharge(m, d))) THEN 0 ELSE PvOffAged

-----------------------------------------------------------------------------
(* update(): the first one after a start only measures.                    *)
UpdateWith(m) ==
  /\ meas' = m
  /\ overtemp' = Hot(m)
  /\ first' = FALSE
  /\ UNCHANGED policyVars
  /\ IF first
     THEN UNCHANGED <<on, fault, ocAge, uvAge, pvOn, pvOffAge, pvOcAge, surplusAge, tripped>>
     ELSE LET p == Protected(m)
              target == SwapTarget(m, p)
              d == Discharged(m, Swapped(m, p, target))
          IN  /\ on' = d.on
              /\ fault' = d.fault
              /\ ocAge' = [k \in Pack |-> OcAge(m, k)]
              /\ uvAge' = [k \in Pack |-> UvAge(m, k)]
              /\ pvOcAge' = PvOcAge(m)
              /\ surplusAge' = IF target = {} THEN SurplusAge(m, p) ELSE NotRunning
              /\ pvOn' = PvCharge(m, d)
              /\ pvOffAge' = PvOffAge(m, d)
              /\ tripped' = tripped \cup OcTrips(m)

Update == \E m \in Sample : UpdateWith(m)

SetPackMode(k, md) ==
  /\ mode' = [mode EXCEPT ![k] = md]
  /\ UNCHANGED <<on, fault, ocAge, uvAge, pvOn, pvMode, pvOffAge, pvOcAge,
                 overtemp, surplusAge, first, meas, tripped>>

SetPvMode(md) ==
  /\ pvMode' = md
  /\ UNCHANGED <<on, mode, fault, ocAge, uvAge, pvOn, pvOffAge, pvOcAge,
                 overtemp, surplusAge, first, meas, tripped>>

ResetFaults ==
  /\ fault' = [k \in Pack |-> "none"]
  /\ ocAge' = [k \in Pack |-> NotRunning]
  /\ uvAge' = [k \in Pack |-> NotRunning]
  /\ tripped' = {}
  /\ UNCHANGED <<on, mode, pvOn, pvMode, pvOffAge, pvOcAge,
                 overtemp, surplusAge, first, meas>>

(* A freshly constructed PowerManager, whose packs are as the expander     *)
(* holds them (adoptSwitchStates in main.cpp's setup); PV_EN starts low.   *)
Boot(adopted) ==
  [on |-> adopted,
   mode |-> [k \in Pack |-> "auto"], fault |-> [k \in Pack |-> "none"],
   age |-> [k \in Pack |-> NotRunning],
   meas |-> [v |-> [k \in Pack |-> 0], i |-> [k \in Pack |-> 0], busV |-> 0,
             pvI |-> "normal", sun |-> FALSE, temp |-> "cool"]]

Init ==
  /\ on = {} /\ mode = Boot({}).mode /\ fault = Boot({}).fault
  /\ ocAge = Boot({}).age /\ uvAge = Boot({}).age
  /\ pvOn = FALSE /\ pvMode = "auto" /\ pvOffAge = NotRunning /\ pvOcAge = NotRunning
  /\ overtemp = FALSE /\ surplusAge = NotRunning /\ first = TRUE
  /\ meas = Boot({}).meas
  /\ tripped = {}

\* Mutant: the loop that adopts the expander's switches runs a pack too far.
MutRestart ==
  /\ on' = on \cup {NPack + 1}
  /\ mode' = Boot(on).mode /\ fault' = Boot(on).fault
  /\ ocAge' = Boot(on).age /\ uvAge' = Boot(on).age
  /\ pvOn' = FALSE /\ pvMode' = "auto" /\ pvOffAge' = NotRunning /\ pvOcAge' = NotRunning
  /\ overtemp' = FALSE /\ surplusAge' = NotRunning /\ first' = TRUE
  /\ meas' = Boot(on).meas
  /\ tripped' = {}

(* An ESP32 reset while the expander stays powered.                        *)
Restart ==
  /\ mode' = Boot(on).mode /\ fault' = Boot(on).fault
  /\ ocAge' = Boot(on).age /\ uvAge' = Boot(on).age
  /\ pvOn' = FALSE /\ pvMode' = "auto" /\ pvOffAge' = NotRunning /\ pvOcAge' = NotRunning
  /\ overtemp' = FALSE /\ surplusAge' = NotRunning /\ first' = TRUE
  /\ meas' = Boot(on).meas
  /\ tripped' = {}
  /\ UNCHANGED on

Next ==
  \/ Update
  \/ \E k \in Pack, md \in PackModes : SetPackMode(k, md)
  \/ \E md \in PvModes : SetPvMode(md)
  \/ ResetFaults
  \/ Restart

Spec == Init /\ [][Next]_vars

-----------------------------------------------------------------------------
(* Properties.                                                             *)

TypeOK ==
  /\ on \subseteq Pack
  /\ mode \in [Pack -> Mode] /\ pvMode \in Mode
  /\ fault \in [Pack -> PackFault]
  /\ ocAge \in [Pack -> Ages(OcTicks)] /\ uvAge \in [Pack -> Ages(UvTicks)]
  /\ pvOcAge \in Ages(OcTicks) /\ pvOffAge \in Ages(PvOffTicks)
  /\ surplusAge \in Ages(SwapTicks)
  /\ {pvOn, overtemp, first} \subseteq BOOLEAN
  /\ meas \in [v : [Pack -> Nat], i : [Pack -> Int], busV : Nat,
               pvI : PvAmp, sun : BOOLEAN, temp : Temp]
  /\ tripped \subseteq Pack

(* A pack that carries an over-current fault is open: no mode command,     *)
(* anchoring, joining, swapping or reset of the controller closes it while *)
(* the fault stands.                                                       *)
OcFaultOpen == \A k \in Pack : fault[k] \in Overcurrent => k \notin on

(* test_logic.cpp: "OC fault must latch".  A pack opened by an             *)
(* over-current stays open until the faults are reset.                     *)
OcTripLatches == tripped \cap on = {}

(* An update leaves the loads without any pack only if no pack left to the *)
(* policy could feed them: each is latched open by an over-current, dead,  *)
(* or out of charge - down to its critical voltage, unless a dead pack     *)
(* that carries no fault stands in the way of the last resort.             *)
BusServed ==
  [][(~first /\ on' = {} /\ UpdateWith(meas')) =>
       LET left == {k \in Installed : mode[k] = "auto" /\ fault'[k] \notin Overcurrent}
           empty == {k \in left : fault'[k] = "undervoltage"}
       IN  \A k \in left :
              \/ meas'.v[k] <= VMin
              \/ k \in empty /\ (meas'.v[k] <= Cells[k] * VCrit \/ left # empty)]_vars

(* README: packs are never paralleled across a large voltage step.  A pack *)
(* that comes onto the bus by itself is within DvPar of the bus it finds   *)
(* (the packs protection and manual modes leave connected), and two that   *)
(* come in the same update are within twice that of each other.            *)
JoinNear ==
  [][LET newcomers == {k \in on' \ on : mode[k] = "auto"}
         held == {k \in on' : mode[k] = "on" \/ k \in Protected(meas').on}
     IN  /\ \A k \in newcomers : held # {} => Near(meas', held, k)
         /\ \A j, k \in newcomers :
              j # k => Ocv(meas')[j] - Ocv(meas')[k] < (Cells[j] + Cells[k]) * DvPar]_vars

(* In auto mode the PV switch is closed after an update only onto packs    *)
(* that may be charged and never on an overheated board, and it does not   *)
(* stay closed through a charge over-current of a connected pack or a      *)
(* reverse current.                                                        *)
PvGuarded ==
  [][(~first /\ pvMode = "auto" /\ pvOn' /\ UpdateWith(meas')) =>
       /\ on' # {} /\ ~overtemp'
       /\ \A k \in on' : meas'.v[k] < Cells[k] * VChg
       /\ pvOn => /\ \A k \in on \cap Installed : ~OcChg(meas', k)
                  /\ meas'.pvI # "hard_reverse"]_vars

(* README: PV is back on below cells * (v_chg - v_chg_hyst) after the      *)
(* minimum off time, when there is sun, a pack to charge and no overheat.  *)
PvResumes ==
  [][(/\ ~first /\ pvMode = "auto" /\ ~pvOn
      /\ pvOffAge > PvOffTicks /\ meas'.sun /\ ~overtemp' /\ on' # {}
      /\ \A k \in on' : meas'.v[k] < Cells[k] * VChgLow
      /\ UpdateWith(meas')) => pvOn']_vars
=============================================================================
