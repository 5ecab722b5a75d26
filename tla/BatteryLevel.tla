---------------------------- MODULE BatteryLevel ----------------------------
(***************************************************************************)
(* The battery level the lightbar shows (common/lightbar.c):              *)
(* quantize_battery_level, the hysteresis of get_battery_level, and the    *)
(* demo-mode forcing functions.  st.battery_level picks the colour of the *)
(* S0 and S3 patterns, so a level that is off shows the wrong colour.     *)
(* Built with HAS_TASK_CHARGER: the charge comes from charge_get_percent. *)
(***************************************************************************)
EXTENDS Integers, FiniteSets

CONSTANTS
  Threshold,    \* st.p.battery_threshold, lowest to highest (1-indexed)
  MaxStep       \* most the charge moves between two readings outside
                \* demo mode

LB_BATTERY_LEVELS == 4   \* quantized levels: 0=low 1=med 2=high 3=full

VARIABLES
  battery_level,    \* st.battery_level
  battery_percent,  \* st.battery_percent
  demo_mode,        \* demo_mode
  charge,           \* the battery's charge, what charge_get_percent()
                    \* returns: the environment, not the program's state
  read_at,          \* history: the charge get_battery_level last read
  last,             \* history: direction and charge of the last change
                    \* get_battery_level made to the level
  demo_used         \* history: demo mode has been turned on

vars == <<battery_level, battery_percent, demo_mode, charge, read_at, last,
          demo_used>>

Percent == 0..100

(* One level per threshold the charge has reached *)
quantize_battery_level(pct) ==
  Cardinality({i \in 1..LB_BATTERY_LEVELS - 1 : pct >= Threshold[i]})

Init ==
  /\ battery_level = LB_BATTERY_LEVELS - 1   \* lightbar_restore_state
  /\ battery_percent = 100
  /\ demo_mode = 0                           \* DEMO_MODE_DEFAULT
  /\ charge \in Percent
  /\ read_at = charge
  /\ last = [dir |-> "none", pct |-> 100]
  /\ demo_used = FALSE
-----------------------------------------------------------------------------
(* Mutant: hysteresis without the one-percent margin *)
NewLevel_no_margin(pct, level) ==
  LET bl == quantize_battery_level(pct) IN
  IF bl # level THEN bl ELSE level

(* Mutant: a fall lowers the level one step, not to bl *)
NewLevel_fall_one_step(pct, level) ==
  LET bl == quantize_battery_level(pct) IN
  IF bl > level /\ pct >= Threshold[bl] + 1 THEN bl
  ELSE IF bl < level /\ pct <= Threshold[bl + 1] - 1 THEN level - 1
  ELSE level

(* The level after a reading of pct: move to the quantized level only     *)
(* once the charge is a percent past the threshold on the way there.     *)
(* C's battery_threshold[bl-1] is Threshold[bl] here.                    *)
NewLevel(pct, level) ==
  LET bl == quantize_battery_level(pct) IN
  IF bl > level /\ pct >= Threshold[bl] + 1 THEN bl
  ELSE IF bl < level /\ pct <= Threshold[bl + 1] - 1 THEN bl
  ELSE level

(* get_battery_level, called by the S0 and S3 sequences: nothing in demo *)
(* mode, else st.battery_percent = pct = charge_get_percent() and update *)
(* the level from it.                                                    *)
get_battery_level ==
  /\ demo_mode = 0
  /\ battery_percent' = charge
  /\ read_at' = charge
  /\ battery_level' = NewLevel(charge, battery_level)
  /\ last' = IF battery_level' > battery_level
               THEN [dir |-> "up", pct |-> charge]
             ELSE IF battery_level' < battery_level
               THEN [dir |-> "down", pct |-> charge]
             ELSE last
  /\ UNCHANGED <<demo_mode, charge, demo_used>>

(* Mutant: the charge not clamped to 0..100 *)
demo_battery_level_no_clamp ==
  /\ demo_mode = 1
  /\ \E inc \in {-1, 1} :
       /\ battery_percent' = battery_percent + inc
       /\ battery_level' = quantize_battery_level(battery_percent')
  /\ last' = [dir |-> "none", pct |-> battery_percent']
  /\ UNCHANGED <<demo_mode, charge, read_at, demo_used>>

(* demo_battery_level(inc), from the keyboard's up/down keys in demo     *)
(* mode: step the charge, clamp it to 0..100, quantize without           *)
(* hysteresis.                                                           *)
demo_battery_level ==
  /\ demo_mode = 1
  /\ \E inc \in {-1, 1} :
       LET p == battery_percent + inc IN
       /\ battery_percent' = IF p > 100 THEN 100 ELSE IF p < 0 THEN 0 ELSE p
       /\ battery_level' = quantize_battery_level(battery_percent')
  /\ last' = [dir |-> "none", pct |-> battery_percent']
  /\ UNCHANGED <<demo_mode, charge, read_at, demo_used>>

(* LIGHTBAR_CMD_DEMO (and the console's "lightbar demo on|off"):         *)
(* demo_mode = in->demo.num ? 1 : 0                                      *)
lpc_cmd_lightbar_demo ==
  /\ demo_mode' \in {0, 1}
  /\ demo_used' = (demo_used \/ demo_mode' = 1)
  /\ UNCHANGED <<battery_level, battery_percent, charge, read_at, last>>

(* The battery charges or drains a percent at a time.  Outside demo mode *)
(* the S0 and S3 sequences read it at every tick, so it is never more    *)
(* than MaxStep from the last reading; in demo mode nothing reads it.    *)
battery_charge ==
  /\ charge' \in {charge - 1, charge + 1} \cap Percent
  /\ demo_mode = 0 => charge' - read_at \in -MaxStep..MaxStep
  /\ UNCHANGED <<battery_level, battery_percent, demo_mode, read_at, last,
                 demo_used>>

Next ==
  \/ get_battery_level \/ demo_battery_level \/ lpc_cmd_lightbar_demo
  \/ battery_charge

Spec == Init /\ [][Next]_vars
-----------------------------------------------------------------------------
TypeOK ==
  /\ battery_level \in 0..LB_BATTERY_LEVELS - 1
  /\ battery_percent \in Percent
  /\ demo_mode \in {0, 1}
  /\ charge \in Percent /\ read_at \in Percent
  /\ demo_used \in BOOLEAN
  /\ last \in [dir : {"none", "up", "down"}, pct : Percent]

Dist(a, b) == IF a >= b THEN a - b ELSE b - a

(* The level is at most one step from the one the last reading quantizes *)
(* to: the lightbar colour may lag a threshold by a percent, never by a  *)
(* whole band.                                                           *)
LevelNear == Dist(battery_level, quantize_battery_level(battery_percent)) <= 1

(* Until demo mode is first turned on, get_battery_level's hysteresis    *)
(* keeps the level within one step of the level the last reading        *)
(* quantizes to, from the boot value 100% onwards.  After demo mode      *)
(* LevelNear can fail: demo's 10% leaves level 0, and a real 40%, on     *)
(* battery_threshold[1], is not enough to move it up.                    *)
LevelWithinOne == ~demo_used => LevelNear

(* "Use some hysteresis to avoid flickering": get_battery_level undoes a *)
(* level change it made only after the charge has moved at least two    *)
(* percent back from where it made it.                                   *)
NoFlicker ==
  [][demo_mode = 0 =>
       /\ last.dir = "up" /\ battery_level' < battery_level
            => battery_percent' <= last.pct - 2
       /\ last.dir = "down" /\ battery_level' > battery_level
            => battery_percent' >= last.pct + 2]_vars
=============================================================================
