SPECIFICATION Spec
CONSTANTS
  NPack = 2
  Cells <- TwoPacks
  VCrit = 3
  VUv = 5
  VUvReconnect = 6
  VChgLow = 8
  VChg = 10
  VOv = 12
  DvPar = 2
  VMin = 1
  RInt = 0
  IDisMax = 2
  IChgMax = 2
  ICharging = 1
  ISurplus = 2
  OcTicks = 1
  UvTicks = 1
  PvOffTicks = 1
  SwapTicks = 1
  SmartSwap = TRUE
  Volts <- ChargeVolts
  Amps <- ChgAmps
  BusVolts = {5}
  PvAmps = {"normal", "over", "hard_reverse"}
  Suns = {TRUE, FALSE}
  Temps = {"cool", "warm", "hot"}
  PackModes = {}
  PvModes = {"auto", "off"}
PROPERTIES PvGuarded
