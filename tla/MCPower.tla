------------------------------- MODULE MCPower -------------------------------
(* Constants of the TLC runs on PowerManager.                              *)
EXTENDS PowerManager

(* Two packs of one cell, so a limit is the voltage itself.                *)
TwoPacks == <<1, 1>>

DischargeVolts == {2, 3, 4, 7}  \* below crit, at crit, under uv, healthy
ChargeVolts == {7, 11}          \* below low, full
FaultVolts == {7, 10, 13}       \* below low, full, over-voltage
DisAmps == {0, 3}               \* idle, discharge over-current
ChgAmps == {-3, -2, 0}         \* charge over-current, surplus, idle
==============================================================================
