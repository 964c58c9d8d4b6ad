SPECIFICATION Spec
CONSTANTS
  NPack = 2
  Cells <- TwoPacks
  VCrit = 3
  VUv = 5
  VUvReconnect = 6
  VChgLow = 8
  VChg = 10
  VOv = 12
  DvPar = 2
  VMin = 2
  RInt = 0
  IDisMax = 2
  IChgMax = 2
  ICharging = 1
  ISurplus = 2
  OcTicks = 1
  UvTicks = 1
  PvOffTicks = 1
  SwapTicks = 1
  SmartSwap = FALSE
  Volts <- DischargeVolts
  Amps <- DisAmps
  BusVolts = {5}
  PvAmps = {"normal"}
  Suns = {FALSE}
  Temps = {"cool"}
  PackModes = {"auto", "off"}
  PvModes = {"auto"}
INVARIANTS TypeOK OcFaultOpen
PROPERTIES BusServed JoinNear
