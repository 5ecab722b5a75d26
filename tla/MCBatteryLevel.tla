--------------------------- MODULE MCBatteryLevel ---------------------------
(* Model-checking instance of BatteryLevel with the default parameters.  *)
EXTENDS BatteryLevel

(* default_params.battery_threshold = { 14, 40, 99 } *)
MCThreshold == <<14, 40, 99>>
=============================================================================
