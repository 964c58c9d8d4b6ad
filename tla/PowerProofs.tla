----------------------------- MODULE PowerProofs -----------------------------
(***************************************************************************)
(* Theorems about PowerManager, for any number of packs, any limits that   *)
(* satisfy the assumptions and any inputs.                                 *)
(***************************************************************************)
EXTENDS PowerManager, TLAPS, FiniteSetTheorems, WellFoundedInduction

(* A timer stays between NotRunning and its limit + 1.                     *)
LEMMA RunningType ==
  ASSUME NEW limit \in Nat, NEW age \in Ages(limit), NEW cond
  PROVE  Running(age, cond, limit) \in Ages(limit)
BY DEF Running, Ages, NotRunning

(* protect() hands on a well-formed state: connected packs are installed   *)
(* ones that were connected, every fault is one of the five.               *)
LEMMA ProtectedType ==
  ASSUME TypeOK, NEW m
  PROVE  /\ Protected(m).on \subseteq Pack
         /\ Protected(m).fault \in [Pack -> PackFault]
         /\ Protected(m).pv \in BOOLEAN
<1> DEFINE oc == OcTrips(m)
           uv == UvTrips(m, oc)
<1>1. ASSUME NEW k \in Pack
      PROVE  FaultProtected(m, k, oc, uv) \in PackFault
  <2> HIDE DEF oc, uv
  <2> QED BY <1>1 DEF FaultProtected, PackFault, TypeOK
<1>2. PvBeforeReverse(m) \in BOOLEAN
  BY DEF PvBeforeReverse, TypeOK
<1> QED
  BY <1>1, <1>2 DEF Protected, Guarded, Installed, TypeOK

(* protect() leaves no pack connected that carries an over-current fault.  *)
LEMMA ProtectedOpens ==
  ASSUME TypeOK, OcFaultOpen, NEW m, NEW k \in Pack,
         Protected(m).fault[k] \in Overcurrent
  PROVE  k \notin Protected(m).on
<1> DEFINE oc == OcTrips(m)
           uv == UvTrips(m, oc)
<1>1. FaultProtected(m, k, oc, uv) \in Overcurrent
  BY DEF Protected
<1>2. k \in oc \/ fault[k] \in Overcurrent
  <2> HIDE DEF oc, uv
  <2> QED BY <1>1 DEF FaultProtected, Overcurrent
<1>3. CASE k \in oc
  BY <1>3 DEF Protected
<1>4. CASE fault[k] \in Overcurrent
  BY <1>4 DEF OcFaultOpen, Protected, Guarded
<1> QED BY <1>2, <1>3, <1>4

(* The states that are handed from one phase of an update to the next.     *)
PhaseState == [on : SUBSET Pack, fault : [Pack -> PackFault], pv : BOOLEAN]
OcOpenIn(s) == \A k \in Pack : s.fault[k] \in Overcurrent => k \notin s.on

LEMMA ProtectedPhase ==
  ASSUME TypeOK, OcFaultOpen, NEW m
  PROVE  Protected(m) \in PhaseState /\ OcOpenIn(Protected(m))
<1>1. Protected(m) = [on |-> Protected(m).on, fault |-> Protected(m).fault,
                      pv |-> Protected(m).pv]
  BY DEF Protected
<1>2. Protected(m) \in PhaseState
  BY <1>1, ProtectedType DEF PhaseState
<1> QED BY <1>2, ProtectedOpens DEF OcOpenIn

(* The smart swap only opens packs, or closes one that carries no fault.   *)
LEMMA SwappedPhase ==
  ASSUME NEW m, NEW p \in PhaseState, OcOpenIn(p)
  PROVE  /\ Swapped(m, p, SwapTarget(m, p)) \in PhaseState
         /\ OcOpenIn(Swapped(m, p, SwapTarget(m, p)))
<1> DEFINE target == SwapTarget(m, p)
<1>1. \A k \in target : k \in Pack /\ p.fault[k] = "none"
  BY DEF SwapTarget, LowestOf, Installed
<1> HIDE DEF target
<1>2. {k \in p.on : mode[k] # "auto"} \cup target \in SUBSET Pack
  BY <1>1 DEF PhaseState
<1>3. Swapped(m, p, target) \in PhaseState
  BY <1>2 DEF Swapped, PhaseState
<1>4. OcOpenIn(Swapped(m, p, target))
  BY <1>1 DEF Swapped, PhaseState, OcOpenIn, Overcurrent
<1> QED BY <1>3, <1>4 DEF target

(* discharge() closes no pack that carries an over-current fault: neither  *)
(* the manual mode, nor the anchor, nor joining does.                      *)
LEMMA DischargedPhase ==
  ASSUME NEW m, NEW s \in PhaseState, OcOpenIn(s)
  PROVE  Discharged(m, s) \in PhaseState /\ OcOpenIn(Discharged(m, s))
<1> DEFINE bus == OnManual(s)
           joiners == Joiners(m, s, bus)
           anchor == Anchor(m, s)
           cleared == [k \in Pack |-> IF k \in joiners /\ s.fault[k] = "undervoltage"
                                      THEN "none" ELSE s.fault[k]]
<1>1. bus \in SUBSET Pack /\ \A k \in bus : s.fault[k] \notin Overcurrent
  BY DEF OnManual, Installed, PhaseState, OcOpenIn
<1>2. joiners \in SUBSET Pack /\ \A k \in joiners : s.fault[k] \notin Overcurrent
  BY DEF Joiners, Usable, Installed, Overcurrent
<1>3. anchor \in SUBSET Pack /\ \A k \in anchor : s.fault[k] \notin Overcurrent
  BY DEF Anchor, HighestOf, Usable, LastResort, Installed, Overcurrent
<1>4. Discharged(m, s) = IF bus = {} THEN [s EXCEPT !.on = anchor]
                         ELSE [s EXCEPT !.on = bus \cup joiners, !.fault = cleared]
  BY DEF Discharged
<1>5. cleared \in [Pack -> PackFault] /\ \A k \in Pack : cleared[k] \in {"none", s.fault[k]}
  BY DEF PhaseState, PackFault
<1> HIDE DEF bus, joiners, anchor, cleared
<1>6. CASE bus = {}
  <2>1. Discharged(m, s) = [s EXCEPT !.on = anchor]
    BY <1>4, <1>6
  <2>2. Discharged(m, s) \in PhaseState
    BY <2>1, <1>3 DEF PhaseState
  <2>3. Discharged(m, s).on = anchor /\ Discharged(m, s).fault = s.fault
    BY <2>1 DEF PhaseState
  <2> QED BY <2>2, <2>3, <1>3 DEF OcOpenIn
<1>7. CASE bus # {}
  <2>1. Discharged(m, s) = [s EXCEPT !.on = bus \cup joiners, !.fault = cleared]
    BY <1>4, <1>7
  <2>2. Discharged(m, s) \in PhaseState
    BY <2>1, <1>1, <1>2, <1>5 DEF PhaseState
  <2>3. Discharged(m, s).on = bus \cup joiners /\ Discharged(m, s).fault = cleared
    BY <2>1 DEF PhaseState
  <2>4. ASSUME NEW k \in Pack, cleared[k] \in Overcurrent PROVE k \notin bus \cup joiners
    BY <2>4, <1>1, <1>2, <1>5 DEF Overcurrent
  <2> QED BY <2>2, <2>3, <2>4 DEF OcOpenIn
<1> QED BY <1>6, <1>7

-----------------------------------------------------------------------------
IInv == TypeOK /\ OcFaultOpen

(* What a freshly constructed PowerManager holds is well-typed.            *)
LEMMA BootType ==
  ASSUME NEW S
  PROVE  /\ Boot(S).mode \in [Pack -> Mode]
         /\ Boot(S).fault = [k \in Pack |-> "none"]
         /\ Boot(S).age \in [Pack -> {NotRunning}]
         /\ Boot(S).meas \in [v : [Pack -> Nat], i : [Pack -> Int], busV : Nat,
                              pvI : PvAmp, sun : BOOLEAN, temp : Temp]
<1>1. [k \in Pack |-> 0] \in [Pack -> Nat] /\ [k \in Pack |-> 0] \in [Pack -> Int]
  OBVIOUS
<1>2. Boot(S).meas = [v |-> [k \in Pack |-> 0], i |-> [k \in Pack |-> 0], busV |-> 0,
                      pvI |-> "normal", sun |-> FALSE, temp |-> "cool"]
  BY DEF Boot
<1>3. Boot(S).meas \in [v : [Pack -> Nat], i : [Pack -> Int], busV : Nat,
                        pvI : PvAmp, sun : BOOLEAN, temp : Temp]
  <2> DEFINE zero == [k \in Pack |-> 0]
  <2> HIDE DEF zero
  <2> QED BY <1>1, <1>2 DEF PvAmp, Temp, zero
<1> QED BY <1>3 DEF Boot, Mode

LEMMA InitIInv == Init => IInv
<1> SUFFICES ASSUME Init PROVE IInv
  OBVIOUS
<1>1. TypeOK
  <2>1. /\ fault \in [Pack -> PackFault]
        /\ ocAge \in [Pack -> Ages(OcTicks)] /\ uvAge \in [Pack -> Ages(UvTicks)]
    BY BootType DEF Init, PackFault, Ages
  <2>2. pvOcAge \in Ages(OcTicks) /\ pvOffAge \in Ages(PvOffTicks) /\ surplusAge \in Ages(SwapTicks)
    BY DEF Init, Ages
  <2> QED BY <2>1, <2>2, BootType DEF Init, TypeOK, Mode
<1>2. OcFaultOpen
  BY DEF Init, OcFaultOpen
<1> QED BY <1>1, <1>2 DEF IInv

LEMMA UpdateIInv ==
  ASSUME IInv, NEW m \in Sample, UpdateWith(m)
  PROVE  IInv'
<1> DEFINE p == Protected(m)
           target == SwapTarget(m, p)
           s == Swapped(m, p, target)
           d == Discharged(m, s)
<1>1. p \in PhaseState /\ OcOpenIn(p)
  BY ProtectedPhase DEF IInv
<1>2. s \in PhaseState /\ OcOpenIn(s)
  BY <1>1, SwappedPhase
<1>3. d \in PhaseState /\ OcOpenIn(d)
  BY <1>2, DischargedPhase
<1>4. meas' \in [v : [Pack -> Nat], i : [Pack -> Int], busV : Nat,
                 pvI : PvAmp, sun : BOOLEAN, temp : Temp]
  BY InputAssumption DEF UpdateWith, Sample
<1>5. /\ mode' \in [Pack -> Mode] /\ pvMode' \in Mode
      /\ {overtemp', first'} \subseteq BOOLEAN
  BY DEF UpdateWith, policyVars, IInv, TypeOK, Hot
<1>6. CASE first
  BY <1>4, <1>5, <1>6 DEF UpdateWith, IInv, TypeOK, OcFaultOpen
<1>7. CASE ~first
  <2>1. /\ on' = d.on /\ fault' = d.fault
        /\ ocAge' = [k \in Pack |-> OcAge(m, k)]
        /\ uvAge' = [k \in Pack |-> UvAge(m, k)]
        /\ pvOcAge' = PvOcAge(m)
        /\ surplusAge' = IF target = {} THEN SurplusAge(m, p) ELSE NotRunning
        /\ pvOn' = PvCharge(m, d) /\ pvOffAge' = PvOffAge(m, d)
        /\ tripped' = tripped \cup OcTrips(m)
    BY <1>7 DEF UpdateWith
  <2> HIDE DEF p, target, s, d
  <2>2. on' \in SUBSET Pack /\ fault' \in [Pack -> PackFault] /\ OcFaultOpen'
    BY <2>1, <1>3 DEF PhaseState, OcOpenIn, OcFaultOpen
  <2>3. ocAge' \in [Pack -> Ages(OcTicks)] /\ uvAge' \in [Pack -> Ages(UvTicks)]
    <3>1. ASSUME NEW k \in Pack
          PROVE  OcAge(m, k) \in Ages(OcTicks) /\ UvAge(m, k) \in Ages(UvTicks)
      BY RunningType, LimitAssumption DEF OcAge, UvAge, IInv, TypeOK
    <3> QED BY <2>1, <3>1
  <2>4. pvOcAge' \in Ages(OcTicks)
    BY <2>1, RunningType, LimitAssumption DEF PvOcAge, IInv, TypeOK
  <2>5. surplusAge' \in Ages(SwapTicks)
    <3>1. SurplusAge(m, p) \in Ages(SwapTicks)
      BY RunningType, LimitAssumption DEF SurplusAge, IInv, TypeOK
    <3> QED BY <2>1, <3>1 DEF Ages
  <2>6. pvOffAge' \in Ages(PvOffTicks)
    <3>1. PvOffAged \in Ages(PvOffTicks)
      BY RunningType, LimitAssumption DEF PvOffAged, IInv, TypeOK
    <3>2. 0 \in Ages(PvOffTicks)
      BY LimitAssumption DEF Ages
    <3> QED BY <2>1, <3>1, <3>2 DEF PvOffAge
  <2>7. pvOn' \in BOOLEAN
    BY <2>1 DEF PvCharge
  <2>8. tripped' \subseteq Pack
    BY <2>1 DEF OcTrips, Guarded, Installed, IInv, TypeOK
  <2> QED BY <1>4, <1>5, <2>2, <2>3, <2>4, <2>5, <2>6, <2>7, <2>8 DEF IInv, TypeOK
<1> QED BY <1>6, <1>7 DEF IInv, TypeOK

LEMMA NextIInv == IInv /\ [Next]_vars => IInv'
<1> SUFFICES ASSUME IInv, [Next]_vars PROVE IInv'
  OBVIOUS
<1> USE DEF IInv
<1>1. CASE Update
  BY <1>1, UpdateIInv DEF Update
<1>2. CASE \E k \in Pack, md \in PackModes : SetPackMode(k, md)
  BY <1>2, InputAssumption DEF SetPackMode, TypeOK, OcFaultOpen
<1>3. CASE \E md \in PvModes : SetPvMode(md)
  BY <1>3, InputAssumption DEF SetPvMode, TypeOK, OcFaultOpen
<1>4. CASE ResetFaults
  BY <1>4, LimitAssumption DEF ResetFaults, TypeOK, OcFaultOpen, PackFault, Overcurrent, Ages
<1>5. CASE Restart
  <2>1. TypeOK'
    <3>1. /\ fault' \in [Pack -> PackFault]
          /\ ocAge' \in [Pack -> Ages(OcTicks)] /\ uvAge' \in [Pack -> Ages(UvTicks)]
      BY <1>5, BootType DEF Restart, PackFault, Ages
    <3>2. pvOcAge' \in Ages(OcTicks) /\ pvOffAge' \in Ages(PvOffTicks) /\ surplusAge' \in Ages(SwapTicks)
      BY <1>5 DEF Restart, Ages
    <3> QED BY <1>5, <3>1, <3>2, BootType DEF Restart, TypeOK, Mode
  <2>2. OcFaultOpen'
    BY <1>5 DEF Restart, Boot, OcFaultOpen, Overcurrent
  <2> QED BY <2>1, <2>2
<1>6. CASE UNCHANGED vars
  BY <1>6 DEF vars, TypeOK, OcFaultOpen
<1> QED BY <1>1, <1>2, <1>3, <1>4, <1>5, <1>6 DEF Next

(* The state is always well-typed, and a pack that carries an over-current *)
(* fault is open.                                                          *)
THEOREM PolicyTypeOK == Spec => []TypeOK
<1>1. IInv => TypeOK
  BY DEF IInv
<1> QED BY InitIInv, NextIInv, <1>1, PTL DEF Spec

THEOREM PolicyOcFaultOpen == Spec => []OcFaultOpen
<1>1. IInv => OcFaultOpen
  BY DEF IInv
<1> QED BY InitIInv, NextIInv, <1>1, PTL DEF Spec

(* In auto mode no update closes PV onto a pack that must not be charged,  *)
(* and none leaves it closed through a charge over-current or a reverse    *)
(* current: charge() does not undo what protect() did.                     *)
THEOREM PolicyPvGuarded == Spec => PvGuarded
<1>1. ASSUME TypeOK, TypeOK', ~first, pvMode = "auto", pvOn', UpdateWith(meas')
      PROVE  /\ on' # {} /\ ~overtemp'
             /\ \A k \in on' : meas'.v[k] < Cells[k] * VChg
             /\ pvOn => /\ \A k \in on \cap Installed : ~OcChg(meas', k)
                        /\ meas'.pvI # "hard_reverse"
  <2> DEFINE m == meas'
             p == Protected(m)
             s == Swapped(m, p, SwapTarget(m, p))
             d == Discharged(m, s)
  <2>1. on' = d.on /\ overtemp' = Hot(m) /\ PvCharge(m, d)
    BY <1>1 DEF UpdateWith
  <2>2. d.pv = p.pv
    <3>1. p = [on |-> p.on, fault |-> p.fault, pv |-> p.pv]
      BY DEF Protected
    <3>2. s \in {p, [p EXCEPT !.on = s.on]}
      BY <3>1 DEF Swapped
    <3> QED BY <3>1, <3>2 DEF Discharged
  <2>3. d.on # {} /\ ~Hot(m) /\ ~Full(m, d) /\ (pvOn => d.pv)
    BY <1>1, <2>1 DEF PvCharge
  <2>4. pvOn => PvBeforeReverse(m) /\ m.pvI # "hard_reverse"
    BY <2>2, <2>3 DEF Protected
  <2> HIDE DEF d
  <2>5. ASSUME NEW k \in on' PROVE m.v[k] < Cells[k] * VChg
    <3>1. ~(m.v[k] >= Cells[k] * VChg)
      BY <2>1, <2>3, <2>5 DEF Full
    <3>2. m.v[k] \in Nat /\ Cells[k] * VChg \in Nat
      BY <1>1, <2>5, PackAssumption, LimitAssumption DEF TypeOK
    <3> QED BY <3>1, <3>2
  <2> QED BY <2>1, <2>3, <2>4, <2>5 DEF PvBeforeReverse, DropsPv, Guarded
<1>2. TypeOK /\ TypeOK' /\ [Next]_vars =>
        [(~first /\ pvMode = "auto" /\ pvOn' /\ UpdateWith(meas')) =>
           /\ on' # {} /\ ~overtemp'
           /\ \A k \in on' : meas'.v[k] < Cells[k] * VChg
           /\ pvOn => /\ \A k \in on \cap Installed : ~OcChg(meas', k)
                      /\ meas'.pvI # "hard_reverse"]_vars
  BY <1>1
<1> QED BY PolicyTypeOK, <1>2, PTL DEF Spec, PvGuarded

-----------------------------------------------------------------------------
(* A set of numbers that is not empty has a least one: an induction is a  *)
(* proof that its set of counterexamples has no least member.              *)
LEMMA LeastNat ==
    ASSUME NEW T \in SUBSET Nat, T # {}
    PROVE  \E n \in T : \A m \in T : n <= m
<1>1. IsWellFoundedOn(OpToRel(<, Nat), Nat)  BY NatLessThanWellFounded
<1>2. PICK n \in T : \A m \in T : ~(<<m, n>> \in OpToRel(<, Nat))  BY <1>1, WFMin
<1>3. \A m \in T : ~(m < n)  BY <1>2 DEF OpToRel
<1> QED BY <1>3

(* HighestOf picks a pack out of every set that has one, by induction on   *)
(* the highest index in the set.                                           *)
LEMMA HighestExists ==
  ASSUME NEW f \in [Pack -> Int], NEW S \in SUBSET Pack, S # {}
  PROVE  HighestOf(f, S) # {}
<1> DEFINE Has(R) == \E k \in R : \A j \in R : f[k] > f[j] \/ (f[k] = f[j] /\ k <= j)
           T == {n \in Nat : \E R \in SUBSET Pack : R # {} /\ R \subseteq 1 .. n /\ ~Has(R)}
<1> HIDE DEF Has
<1>1. T = {}
  <2>1. SUFFICES ASSUME T # {} PROVE FALSE
    OBVIOUS
  <2>2. PICK n \in T : \A m \in T : n <= m
    BY <2>1, LeastNat
  <2>3. PICK R \in SUBSET Pack : R # {} /\ R \subseteq 1 .. n /\ ~Has(R)
    BY <2>2
  <2>4. n \in Nat \ {0} /\ n - 1 \in Nat /\ n - 1 \notin T
    <3>1. n # 0
      <4>1. 1 .. 0 = {}
        OBVIOUS
      <4> QED
        BY <2>3, <4>1
    <3>2. n \in Nat /\ ~(n <= n - 1)
      BY <2>2
    <3> HIDE DEF T
    <3> QED
      BY <2>2, <3>1, <3>2
  <2>5. \A Q \in SUBSET Pack : Q # {} /\ Q \subseteq 1 .. n - 1 => Has(Q)
    BY <2>4
  <2> DEFINE Q == R \ {n}
  <2>6. Q \in SUBSET Pack /\ Q \subseteq 1 .. n - 1
    BY <2>3, <2>4
  <2>7. CASE Q = {}
    <3>0. R = {n}
      BY <2>3, <2>7, Zenon
    <3>1. R = {n} /\ n \in Pack
      BY <2>3, <3>0, Zenon
    <3>2. f[n] \in Int
      BY <3>1
    <3>3. f[n] = f[n] /\ n <= n
      BY <2>4
    <3>4. Has({n})
      BY <3>3 DEF Has
    <3> QED
      BY <2>3, <3>1, <3>4
  <2>8. CASE Q # {}
    <3>1. PICK k \in Q : \A j \in Q : f[k] > f[j] \/ (f[k] = f[j] /\ k <= j)
      BY <2>5, <2>6, <2>8 DEF Has
    <3>2. n \in R
      <4>1. n \notin R => Q = R
        BY <2>3
      <4> QED
        BY <2>3, <2>5, <2>6, <2>8, <4>1, Zenon
    <3>3. /\ \A j \in R : f[j] \in Int /\ j \in Int /\ (j \in Q \/ j = n)
          /\ k \in R /\ k < n
      BY <2>3, <2>6, <3>1 DEF Pack
    <3>4. CASE f[n] > f[k]
      <4>1. \A j \in R : f[n] > f[j] \/ (f[n] = f[j] /\ n <= j)
        BY <3>1, <3>2, <3>3, <3>4
      <4> QED
        BY <2>3, <3>2, <4>1 DEF Has
    <3>5. CASE ~(f[n] > f[k])
      <4>1. \A j \in R : f[k] > f[j] \/ (f[k] = f[j] /\ k <= j)
        BY <3>1, <3>2, <3>3, <3>5
      <4> QED
        BY <2>3, <3>3, <4>1 DEF Has
    <3> QED
      BY <3>4, <3>5
  <2> QED
    BY <2>7, <2>8
<1>2. NPack \in Nat /\ S \subseteq 1 .. NPack
  BY PackAssumption DEF Pack
<1>3. Has(S)
  BY <1>1, <1>2
<1> QED
  BY <1>3 DEF HighestOf, Has

(* An update that leaves the bus dead found no anchor above VMin: neither  *)
(* among the usable packs nor, when there is none, in the last resort.     *)
LEMMA ServedStep ==
  ASSUME TypeOK, TypeOK', OcFaultOpen, ~first, on' = {}, UpdateWith(meas')
  PROVE  LET left == {k \in Installed : mode[k] = "auto" /\ fault'[k] \notin Overcurrent}
             empty == {k \in left : fault'[k] = "undervoltage"}
         IN  \A k \in left :
                \/ meas'.v[k] <= VMin
                \/ k \in empty /\ (meas'.v[k] <= Cells[k] * VCrit \/ left # empty)
<1> DEFINE m == meas'
           p == Protected(m)
           s == Swapped(m, p, SwapTarget(m, p))
           d == Discharged(m, s)
           left == {k \in Installed : mode[k] = "auto" /\ fault'[k] \notin Overcurrent}
           empty == {k \in left : fault'[k] = "undervoltage"}
<1>1. d.on = {} /\ fault' = d.fault
  BY DEF UpdateWith
<1>2. s \in PhaseState
  BY ProtectedPhase, SwappedPhase
<1>3. VMin \in Int /\ m.v \in [Pack -> Int] /\ \A k \in Pack : Cells[k] * VCrit \in Int
  BY LimitAssumption, PackAssumption DEF TypeOK
<1> HIDE DEF p, s, m
<1>4. OnManual(s) = {}
  <2>1. SUFFICES ASSUME OnManual(s) # {} PROVE FALSE
    OBVIOUS
  <2>2. d.on = OnManual(s) \cup Joiners(m, s, OnManual(s))
    BY <1>2, <2>1 DEF Discharged, PhaseState
  <2> QED
    BY <1>1, <2>1, <2>2
<1>5. d.on = Anchor(m, s) /\ d.fault = s.fault
  BY <1>2, <1>4 DEF Discharged, PhaseState
<1>6. fault' = s.fault /\ Anchor(m, s) = {}
  BY <1>1, <1>5
<1> HIDE DEF d
<1> DEFINE best == IF Usable(s) # {} THEN Usable(s) ELSE LastResort(m, s)
<1>7. Usable(s) \in SUBSET Pack /\ LastResort(m, s) \in SUBSET Pack
  BY DEF Usable, LastResort, Installed
<1>8. \A k \in best : m.v[k] <= VMin
  <2>1. SUFFICES ASSUME best # {} PROVE \A k \in best : m.v[k] <= VMin
    OBVIOUS
  <2>2. PICK h : h \in HighestOf(m.v, best)
    BY <1>3, <1>7, <2>1, HighestExists
  <2>3. ~(m.v[h] > VMin)
    BY <1>6, <2>2 DEF Anchor
  <2>4. h \in Pack /\ \A j \in best : j \in Pack /\ (m.v[h] > m.v[j] \/ m.v[h] = m.v[j])
    BY <1>7, <2>2 DEF HighestOf
  <2> QED
    BY <1>3, <2>3, <2>4
<1>9. \A k \in Installed : k \in Pack /\ s.fault[k] \in PackFault
  BY <1>2 DEF Installed, PhaseState
<1>10. left = Usable(s) \cup empty
  BY <1>6, <1>9 DEF Usable, PackFault, Overcurrent
<1>11. ASSUME NEW k \in left
       PROVE  \/ m.v[k] <= VMin
              \/ k \in empty /\ (m.v[k] <= Cells[k] * VCrit \/ left # empty)
  <2>1. CASE k \in best
    BY <1>8, <2>1
  <2>2. CASE k \notin best /\ Usable(s) # {}
    <3>1. k \in empty
      BY <1>10, <2>2
    <3>2. \A j \in Usable(s) : j \in left /\ j \notin empty
      BY <1>6, <1>10 DEF Usable
    <3> QED
      BY <2>2, <3>1, <3>2
  <2>3. CASE k \notin best /\ Usable(s) = {}
    <3>1. k \in empty /\ k \notin LastResort(m, s)
      BY <1>10, <2>3
    <3>2. k \in Pack /\ ~(m.v[k] > Cells[k] * VCrit)
      BY <1>6, <1>9, <3>1 DEF LastResort
    <3> QED
      BY <1>3, <3>1, <3>2
  <2> QED
    BY <2>1, <2>2, <2>3
<1> QED
  BY <1>11 DEF m

(* The loads lose their last pack only when no pack left to the policy      *)
(* could feed them: latched, dead, or empty with nothing below it to spare. *)
THEOREM PolicyBusServed == Spec => BusServed
<1>1. ASSUME IInv, IInv', ~first, on' = {}, UpdateWith(meas')
      PROVE  LET left == {k \in Installed : mode[k] = "auto" /\ fault'[k] \notin Overcurrent}
                 empty == {k \in left : fault'[k] = "undervoltage"}
             IN  \A k \in left :
                    \/ meas'.v[k] <= VMin
                    \/ k \in empty /\ (meas'.v[k] <= Cells[k] * VCrit \/ left # empty)
  BY <1>1, ServedStep DEF IInv
<1>2. IInv /\ IInv' /\ [Next]_vars =>
        [(~first /\ on' = {} /\ UpdateWith(meas')) =>
           LET left == {k \in Installed : mode[k] = "auto" /\ fault'[k] \notin Overcurrent}
               empty == {k \in left : fault'[k] = "undervoltage"}
           IN  \A k \in left :
                  \/ meas'.v[k] <= VMin
                  \/ k \in empty /\ (meas'.v[k] <= Cells[k] * VCrit \/ left # empty)]_vars
  BY <1>1
<1>3. Spec => []IInv
  BY InitIInv, NextIInv, PTL DEF Spec
<1> QED BY <1>2, <1>3, PTL DEF Spec, BusServed

-----------------------------------------------------------------------------
(* The recursion behind BusSum: h sums f over the sets of D, each from the *)
(* sum over one member less.                                               *)
Some(s) == CHOOSE x \in s : TRUE
UpTo(S, n) == {s \in SUBSET S : Cardinality(s) <= n}
SumOf(f, h, s) == IF s = {} THEN 0 ELSE f[Some(s)] + h[s \ {Some(s)}]
Sums(f, D, h) == h = [s \in D |-> SumOf(f, h, s)]

(* Taking a member out of a finite set leaves one of one member less.      *)
LEMMA SmallerSets ==
  ASSUME NEW S, IsFiniteSet(S), NEW s \in SUBSET S
  PROVE  /\ Cardinality(s) \in Nat
         /\ s = {} <=> Cardinality(s) = 0
         /\ s # {} => /\ Some(s) \in s /\ s \ {Some(s)} \in SUBSET S
                      /\ Cardinality(s \ {Some(s)}) = Cardinality(s) - 1
<1>1. IsFiniteSet(s)
  BY FS_Subset
<1>2. Cardinality(s) \in Nat /\ (s = {} <=> Cardinality(s) = 0)
  BY <1>1, FS_CardinalityType, FS_EmptySet
<1>3. s # {} => Some(s) \in s
  BY DEF Some
<1>4. s # {} => Cardinality(s \ {Some(s)}) = Cardinality(s) - 1
  BY <1>1, <1>3, FS_RemoveElement
<1> QED
  BY <1>2, <1>3, <1>4

(* There is such a function over all subsets of a finite set...            *)
LEMMA SumsExist ==
  ASSUME NEW f, NEW S, IsFiniteSet(S)
  PROVE  \E h : Sums(f, SUBSET S, h)
<1> DEFINE T == {n \in Nat : ~ \E h : Sums(f, UpTo(S, n), h)}
<1>1. T = {}
  <2>1. SUFFICES ASSUME T # {} PROVE FALSE
    OBVIOUS
  <2>2. PICK n \in T : \A m \in T : n <= m
    BY <2>1, LeastNat
  <2>3. CASE n = 0
    <3>0. ASSUME NEW s \in SUBSET S PROVE Cardinality(s) <= 0 <=> s = {}
      <4>1. Cardinality(s) \in Nat /\ (s = {} <=> Cardinality(s) = 0)
        BY SmallerSets
      <4> QED
        BY <4>1
    <3>1. UpTo(S, 0) = {{}}
      BY <3>0 DEF UpTo
    <3>2. Sums(f, UpTo(S, 0), [s \in {{}} |-> 0])
      BY <3>1 DEF Sums, SumOf
    <3> QED
      BY <2>2, <2>3, <3>2
  <2>4. CASE n # 0
    <3>1. n \in Nat /\ n - 1 \in Nat /\ ~(n <= n - 1)
      BY <2>2, <2>4
    <3>2. n - 1 \notin T
      BY <2>2, <3>1
    <3>3. PICK h : Sums(f, UpTo(S, n - 1), h)
      BY <3>1, <3>2
    <3> DEFINE g == [s \in UpTo(S, n) |-> SumOf(f, h, s)]
    <3>0. \A s \in SUBSET S : Cardinality(s) \in Nat
      BY SmallerSets
    <3>4. UpTo(S, n - 1) \subseteq UpTo(S, n)
      BY <3>0, <3>1 DEF UpTo
    <3>5. \A s \in UpTo(S, n - 1) : g[s] = h[s]
      BY <3>3, <3>4 DEF Sums
    <3>6. ASSUME NEW s \in UpTo(S, n) PROVE SumOf(f, g, s) = SumOf(f, h, s)
      <4>0. s \in SUBSET S /\ Cardinality(s) <= n
        BY DEF UpTo
      <4>2. s # {} => /\ s \ {Some(s)} \in SUBSET S
                      /\ Cardinality(s \ {Some(s)}) = Cardinality(s) - 1
        BY <4>0, SmallerSets
      <4>1. s # {} => s \ {Some(s)} \in UpTo(S, n - 1)
        BY <3>0, <3>1, <4>0, <4>2 DEF UpTo
      <4> HIDE DEF g
      <4> QED
        BY <3>5, <4>1, Zenon DEF SumOf
    <3>7. Sums(f, UpTo(S, n), g)
      <4>1. \A s \in UpTo(S, n) : g[s] = SumOf(f, g, s)
        BY <3>6
      <4>2. g = [s \in UpTo(S, n) |-> g[s]]
        OBVIOUS
      <4> HIDE DEF g
      <4> QED
        BY <4>1, <4>2, Zenon DEF Sums
    <3> QED
      BY <2>2, <3>7
  <2> QED
    BY <2>3, <2>4
<1>2. Cardinality(S) \in Nat
  BY FS_CardinalityType
<1>3. UpTo(S, Cardinality(S)) = SUBSET S
  BY FS_Subset DEF UpTo
<1> QED
  BY <1>1, <1>2, <1>3

(* ... and whichever it is, it sums integers to an integer.                *)
LEMMA SumsAreInt ==
  ASSUME NEW f, NEW S, IsFiniteSet(S), \A k \in S : f[k] \in Int,
         NEW h, Sums(f, SUBSET S, h)
  PROVE  h[S] \in Int
<1> DEFINE T == {n \in Nat : \E s \in SUBSET S : Cardinality(s) = n /\ h[s] \notin Int}
<1>1. T = {}
  <2>1. SUFFICES ASSUME T # {} PROVE FALSE
    OBVIOUS
  <2>2. PICK n \in T : \A m \in T : n <= m
    BY <2>1, LeastNat
  <2>3. PICK s \in SUBSET S : Cardinality(s) = n /\ h[s] \notin Int
    BY <2>2
  <2>4. h[s] = SumOf(f, h, s)
    BY DEF Sums
  <2>5. CASE s = {}
    BY <2>3, <2>4, <2>5 DEF SumOf
  <2>6. CASE s # {}
    <3> DEFINE r == s \ {Some(s)}
    <3>1. /\ Some(s) \in S /\ r \in SUBSET S /\ n \in Nat \ {0} /\ Cardinality(r) = n - 1
      BY <2>2, <2>3, <2>6, SmallerSets
    <3>2. n - 1 \in Nat /\ ~(n <= n - 1)
      BY <3>1
    <3>3. n - 1 \notin T
      BY <2>2, <3>2
    <3>4. h[r] \in Int
      BY <3>1, <3>2, <3>3
    <3>5. h[s] = f[Some(s)] + h[r]
      BY <2>4, <2>6 DEF SumOf
    <3> QED
      BY <2>3, <3>1, <3>4, <3>5
  <2> QED
    BY <2>5, <2>6
<1>2. Cardinality(S) \in Nat
  BY FS_CardinalityType
<1> QED
  BY <1>1, <1>2

(* So the sum of the open-circuit voltages on the bus is a voltage.        *)
LEMMA BusSumType ==
  ASSUME NEW m, NEW S, IsFiniteSet(S), \A k \in S : Ocv(m)[k] \in Int
  PROVE  BusSum(m, S) \in Int
<1> DEFINE f == Ocv(m)
           h == CHOOSE g : Sums(f, SUBSET S, g)
<1> HIDE DEF f
<1>1. Sums(f, SUBSET S, h)
  BY SumsExist, Zenon
<1>2. BusSum(m, S) = h[S]
  BY Zenon DEF BusSum, FoldFunctionOnSet, MapThenFoldSet, Sums, SumOf, Some, f
<1> HIDE DEF h
<1> QED
  BY <1>1, <1>2, SumsAreInt DEF f

(* A comparison that was multiplied through by a count of packs.           *)
LEMMA DivideOut ==
  ASSUME NEW n \in Nat \ {0}, NEW a \in Int, NEW b \in Int, n * a < n * b
  PROVE  a < b
<1>1. SUFFICES ASSUME a >= b PROVE FALSE
  OBVIOUS
<1>2. a - b \in Nat /\ n * (a - b) = n * a - n * b
  BY <1>1
<1>3. n * (a - b) >= 0
  BY <1>2
<1> QED
  BY <1>2, <1>3

(* Two packs near the mean of the bus are near each other.                 *)
LEMMA NearBoth ==
  ASSUME NEW m, NEW S, IsFiniteSet(S), S # {}, S \subseteq Pack,
         \A k \in Pack : Ocv(m)[k] \in Int,
         NEW j \in Pack, NEW k \in Pack, Near(m, S, j), Near(m, S, k)
  PROVE  Ocv(m)[j] - Ocv(m)[k] < (Cells[j] + Cells[k]) * DvPar
<1> DEFINE n == Cardinality(S)
           B == BusSum(m, S)
           Oj == Ocv(m)[j]
           Ok == Ocv(m)[k]
           Cj == Cells[j]
           Ck == Cells[k]
<1>1. n \in Nat \ {0} /\ B \in Int /\ Oj \in Int /\ Ok \in Int
  BY FS_CardinalityType, FS_EmptySet, BusSumType
<1>2. Cj \in Nat /\ Ck \in Nat /\ DvPar \in Nat
  BY PackAssumption, LimitAssumption
<1>3. n * Oj - B < n * Cj * DvPar /\ -n * Ck * DvPar < n * Ok - B
  BY DEF Near
<1> HIDE DEF n, B, Oj, Ok, Cj, Ck
<1>4. /\ n * (Oj - Ok) = n * Oj - n * Ok
      /\ n * ((Cj + Ck) * DvPar) = n * Cj * DvPar + n * Ck * DvPar
      /\ -n * Ck * DvPar = -(n * Ck * DvPar)
  BY <1>1, <1>2
<1>5. n * Oj \in Int /\ n * Ok \in Int /\ n * Cj * DvPar \in Int /\ n * Ck * DvPar \in Int
  BY <1>1, <1>2
<1>6. n * (Oj - Ok) < n * ((Cj + Ck) * DvPar)
  BY <1>1, <1>3, <1>4, <1>5
<1>7. Oj - Ok \in Int /\ (Cj + Ck) * DvPar \in Int
  BY <1>1, <1>2
<1>8. Oj - Ok < (Cj + Ck) * DvPar
  BY <1>1, <1>6, <1>7, DivideOut
<1> QED
  BY <1>8 DEF Oj, Ok, Cj, Ck

(* What JoinNear says of a step.                                           *)
NewNear ==
  LET newcomers == {k \in on' \ on : mode[k] = "auto"}
      held == {k \in on' : mode[k] = "on" \/ k \in Protected(meas').on}
  IN  /\ \A k \in newcomers : held # {} => Near(meas', held, k)
      /\ \A j, k \in newcomers :
           j # k => Ocv(meas')[j] - Ocv(meas')[k] < (Cells[j] + Cells[k]) * DvPar

(* Without the smart swap protect() hands its packs straight to            *)
(* discharge().                                                            *)
LEMMA NoSwap ==
  ASSUME SmartSwap = FALSE, NEW m, NEW p
  PROVE  Swapped(m, p, SwapTarget(m, p)) = p
<1>1. SurplusAge(m, p) = NotRunning
  BY DEF SurplusAge, Running
<1>2. NotRunning < SwapTicks
  BY LimitAssumption DEF NotRunning
<1> QED
  BY <1>1, <1>2 DEF SwapTarget, Swapped

(* The readings of a sample are integers, and so is what is computed of    *)
(* them.                                                                   *)
LEMMA SampleType ==
  ASSUME NEW m \in Sample, NEW k \in Pack
  PROVE  m.v[k] \in Int /\ m.i[k] \in Int
<1>1. m.v \in [Pack -> Volts] /\ m.i \in [Pack -> Amps]
  BY DEF Sample
<1>2. m.v[k] \in Volts /\ m.i[k] \in Amps
  BY <1>1
<1>3. Volts \subseteq Int /\ Amps \subseteq Int
  BY InputAssumption
<1> QED
  BY <1>2, <1>3

LEMMA OcvType ==
  ASSUME NEW m \in Sample, NEW k \in Pack
  PROVE  Ocv(m)[k] \in Int
<1>1. m.v[k] \in Int /\ m.i[k] \in Int
  BY SampleType
<1>2. Cells[k] \in Int /\ RInt \in Int
  BY PackAssumption, LimitAssumption
<1> QED
  BY <1>1, <1>2 DEF Ocv

(* A dead bus gets one pack, its anchor; onto a live one only packs near   *)
(* the packs that protection and manual modes left on it.                  *)
LEMMA JoinStep ==
  ASSUME TypeOK, OcFaultOpen, SmartSwap = FALSE, ~first,
         NEW m \in Sample, UpdateWith(m)
  PROVE  NewNear
<1> DEFINE p == Protected(m)
           d == Discharged(m, p)
           bus == OnManual(p)
           joiners == Joiners(m, p, bus)
           newcomers == {k \in on' \ on : mode[k] = "auto"}
           held == {k \in on' : mode[k] = "on" \/ k \in p.on}
<1>1. meas' = m /\ on' = d.on
  <2>1. Swapped(m, p, SwapTarget(m, p)) = p
    BY NoSwap
  <2>2. meas' = m /\ on' = Discharged(m, Swapped(m, p, SwapTarget(m, p))).on
    BY DEF UpdateWith
  <2> QED
    BY <2>1, <2>2
<1>2. p \in PhaseState /\ p.on \subseteq on
  BY ProtectedPhase DEF Protected, Guarded
<1>3. IsFiniteSet(Pack)
  BY PackAssumption, FS_Interval DEF Pack
<1> HIDE DEF p
<1>4. CASE bus = {}
  <2>1. on' = Anchor(m, p)
    BY <1>1, <1>2, <1>4 DEF Discharged, PhaseState
  <2>2. \A k \in Anchor(m, p) : k \in Pack /\ mode[k] = "auto"
    BY DEF Anchor, HighestOf, Usable, LastResort, Installed
  <2>3. \A j, k \in Anchor(m, p) : j = k
    <3>1. ASSUME NEW j \in Anchor(m, p), NEW k \in Anchor(m, p) PROVE j = k
      <4>0. j \in Pack /\ k \in Pack
        BY <2>2
      <4>1. m.v[j] \in Int /\ m.v[k] \in Int /\ j \in Int /\ k \in Int
        BY <4>0, SampleType DEF Pack
      <4>2. /\ m.v[j] > m.v[k] \/ (m.v[j] = m.v[k] /\ j <= k)
            /\ m.v[k] > m.v[j] \/ (m.v[k] = m.v[j] /\ k <= j)
        BY DEF Anchor, HighestOf
      <4> QED
        BY <4>1, <4>2
    <3> QED
      BY <3>1
  <2>4. held = {}
    BY <1>4, <2>1, <2>2 DEF OnManual
  <2> QED
    BY <1>1, <2>1, <2>3, <2>4 DEF NewNear, p
<1>5. CASE bus # {}
  <2>1. on' = bus \cup joiners
    BY <1>1, <1>2, <1>5 DEF Discharged, PhaseState
  <2>2. bus \subseteq Pack /\ joiners \subseteq Pack
    BY <1>2 DEF OnManual, Joiners, Installed, PhaseState
  <2>3. held = bus
    BY <1>2, <2>1, <2>2 DEF OnManual, Joiners, PhaseState
  <2>4. newcomers \subseteq joiners
    BY <1>2, <2>1 DEF OnManual
  <2>5. \A k \in newcomers : k \in Pack /\ Near(m, bus, k)
    BY <2>2, <2>4 DEF Joiners
  <2>6. IsFiniteSet(bus)
    BY <1>3, <2>2, FS_Subset
  <2> HIDE DEF bus, newcomers, held
  <2>7. \A j, k \in newcomers : Ocv(m)[j] - Ocv(m)[k] < (Cells[j] + Cells[k]) * DvPar
    BY <1>5, <2>2, <2>5, <2>6, OcvType, NearBoth
  <2>8. /\ \A k \in newcomers : held # {} => Near(m, held, k)
        /\ \A j, k \in newcomers :
              j # k => Ocv(m)[j] - Ocv(m)[k] < (Cells[j] + Cells[k]) * DvPar
    BY <2>3, <2>5, <2>7
  <2> QED
    BY <1>1, <2>8, Zenon DEF NewNear, p, newcomers, held
<1> QED
  BY <1>4, <1>5

(* No other step closes a switch.                                          *)
LEMMA NearStep == SmartSwap = FALSE /\ IInv /\ [Next]_vars => [NewNear]_vars
<1> SUFFICES ASSUME SmartSwap = FALSE, IInv, Next PROVE NewNear
  BY DEF vars
<1>1. CASE on' = on
  BY <1>1 DEF NewNear
<1>2. CASE on' # on
  <2>1. PICK m \in Sample : UpdateWith(m)
    BY <1>2 DEF Next, Update, SetPackMode, SetPvMode, ResetFaults, Restart
  <2>2. ~first
    BY <1>2, <2>1 DEF UpdateWith
  <2> QED
    BY <2>1, <2>2, JoinStep DEF IInv
<1> QED
  BY <1>1, <1>2

(* In the default configuration, without the smart swap, no pack is        *)
(* paralleled across a large voltage step, for any number of packs that    *)
(* join in one update.                                                     *)
THEOREM PolicyJoinNear ==
  ASSUME SmartSwap = FALSE
  PROVE  Spec => JoinNear
<1>1. IInv /\ [Next]_vars => [NewNear]_vars
  BY NearStep
<1>2. Spec => []IInv
  BY InitIInv, NextIInv, PTL DEF Spec
<1> QED
  BY <1>1, <1>2, PTL DEF Spec, JoinNear, NewNear
=============================================================================
