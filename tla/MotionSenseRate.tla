-------------------------- MODULE MotionSenseRate --------------------------
(***************************************************************************)
(* The sampling interval of the motion sense task (common/motion_sense.c)  *)
(* and the commands that reach the accelerometers.                         *)
(*                                                                         *)
(* motion_sense_task sets accel_interval_ms once its sensors are up; the   *)
(* chipset's suspend and resume hooks switch it between the AP-off and    *)
(* AP-on intervals; the host's MOTIONSENSE_CMD_EC_RATE sets the AP-on     *)
(* interval; the debug console's lidangle command sets the current one.   *)
(* The hooks, the host command task and the console task run beside the   *)
(* motion sense task and may come between any two of its steps.  Host      *)
(* commands come from the AP, which waits for each answer, so only while  *)
(* it is on.                                                               *)
(*                                                                         *)
(* The accelerometer driver is not in the repository: the model follows  *)
(* the sensor id each command hands it, not its settings or its answers.  *)
(* The sampling itself is MotionSense's business; here the task is its    *)
(* start and whether it is running.                                       *)
(***************************************************************************)
EXTENDS Integers

CONSTANTS
  RateData,         \* ec_rate.data values the host sends, NO_VALUE among them
  ConsoleIntervals, \* intervals typed at "lidangle on <ms>"
  ConsoleIds,       \* sensor ids typed at accelrange, accelres and accelrate
  MaxCmds,          \* host and console commands
  MaxHooks          \* chipset suspend and resume hooks

(* Bounds and defaults of the sampling interval, in ms *)
MIN_POLLING_INTERVAL_MS == 5
MAX_POLLING_INTERVAL_MS == 1000
accel_interval_ap_suspend_ms == 100
EC_MOTION_SENSE_NO_VALUE == -1

(* The two accelerometers the task assumes, one in the lid and one in    *)
(* the base; the board's enum accel_id numbers them 0..ACCEL_COUNT-1.     *)
ACCEL_COUNT == 2
ACCEL_LID == 0
ACCEL_BASE == 1

(* Sensor numbers a host command may carry: the two the EC supports and   *)
(* one it does not.                                                      *)
HostSensors == {"EC_MOTION_SENSOR_ACCEL_BASE", "EC_MOTION_SENSOR_ACCEL_LID",
                "other"}

NoId == -1   \* no sensor id handed to the accelerometer driver yet

VARIABLES
  tpc,                      \* motion_sense_task: "init", "running", "stopped"
  ap,                       \* the AP as the hooks announced it: "on", "off"
  accel_interval_ms,        \* accel_interval_ms
  accel_interval_ap_on_ms,  \* accel_interval_ap_on_ms
  rate_by,                  \* history: who last wrote accel_interval_ms
  host_rate,                \* history: the rate the host last asked for
  drv_id,                   \* history: the last sensor id the driver got
  cmds,                     \* host and console commands so far
  hooks                     \* chipset hooks so far

vars == <<tpc, ap, accel_interval_ms, accel_interval_ap_on_ms, rate_by,
          host_rate, drv_id, cmds, hooks>>

Init ==
  /\ tpc = "init"
  \* The task starts at boot, with the AP off, or after a jump to the other
  \* image, which leaves the AP as it was.
  /\ ap \in {"on", "off"}
  /\ accel_interval_ms = 0 /\ accel_interval_ap_on_ms = 10
  /\ rate_by = "none" /\ host_rate = 10
  /\ drv_id = NoId /\ cmds = 0 /\ hooks = 0
-----------------------------------------------------------------------------
(* accel_init of both sensors: on failure the task returns for good;      *)
(* else it sets the suspend interval, whatever the AP is doing, and       *)
(* writes the default range, resolution and data rate of both sensors,    *)
(* ACCEL_BASE last.                                                       *)
motion_sense_task_init ==
  /\ tpc = "init"
  /\ \/ /\ tpc' = "running"
        /\ accel_interval_ms' = accel_interval_ap_suspend_ms
        /\ rate_by' = "task"
        /\ drv_id' = ACCEL_BASE
     \/ /\ tpc' = "stopped"
        /\ UNCHANGED <<accel_interval_ms, rate_by, drv_id>>
  /\ UNCHANGED <<ap, accel_interval_ap_on_ms, host_rate, cmds, hooks>>

(* HOOK_CHIPSET_SUSPEND *)
set_ap_suspend_polling ==
  /\ ap = "on" /\ hooks < MaxHooks
  /\ ap' = "off" /\ hooks' = hooks + 1
  /\ accel_interval_ms' = accel_interval_ap_suspend_ms
  /\ rate_by' = "hook"
  /\ UNCHANGED <<tpc, accel_interval_ap_on_ms, host_rate, drv_id, cmds>>

(* HOOK_CHIPSET_RESUME *)
set_ap_on_polling ==
  /\ ap = "off" /\ hooks < MaxHooks
  /\ ap' = "on" /\ hooks' = hooks + 1
  /\ accel_interval_ms' = accel_interval_ap_on_ms
  /\ rate_by' = "hook"
  /\ UNCHANGED <<tpc, accel_interval_ap_on_ms, host_rate, drv_id, cmds>>
-----------------------------------------------------------------------------
(* The EC's id of a host sensor number, -1 for one it does not support *)
host_sensor_id_to_ec_sensor_id(host_id) ==
  CASE host_id = "EC_MOTION_SENSOR_ACCEL_BASE" -> ACCEL_BASE
    [] host_id = "EC_MOTION_SENSOR_ACCEL_LID" -> ACCEL_LID
    [] OTHER -> -1

(* Mutant: the upper bound on the rate left out *)
host_cmd_ec_rate_unbounded ==
  \E data \in RateData :
    IF data # EC_MOTION_SENSE_NO_VALUE
      THEN LET d == IF data < MIN_POLLING_INTERVAL_MS
                      THEN MIN_POLLING_INTERVAL_MS ELSE data
           IN /\ accel_interval_ap_on_ms' = d
              /\ accel_interval_ms' = d
              /\ rate_by' = "host"
              /\ host_rate' = data
      ELSE UNCHANGED <<accel_interval_ap_on_ms, accel_interval_ms, rate_by,
                       host_rate>>

(* Mutant: only the current interval set, not the AP-on one *)
host_cmd_ec_rate_current_only ==
  \E data \in RateData :
    IF data # EC_MOTION_SENSE_NO_VALUE
      THEN LET d == IF data < MIN_POLLING_INTERVAL_MS
                      THEN MIN_POLLING_INTERVAL_MS
                    ELSE IF data > MAX_POLLING_INTERVAL_MS
                      THEN MAX_POLLING_INTERVAL_MS
                    ELSE data
           IN /\ accel_interval_ms' = d
              /\ rate_by' = "host"
              /\ host_rate' = data
              /\ UNCHANGED accel_interval_ap_on_ms
      ELSE UNCHANGED <<accel_interval_ap_on_ms, accel_interval_ms, rate_by,
                       host_rate>>

(* MOTIONSENSE_CMD_EC_RATE: a rate given is bounded to MIN..MAX and       *)
(* becomes both the AP-on interval and the current one.                   *)
host_cmd_ec_rate ==
  \E data \in RateData :
    IF data # EC_MOTION_SENSE_NO_VALUE
      THEN LET d == IF data < MIN_POLLING_INTERVAL_MS
                      THEN MIN_POLLING_INTERVAL_MS
                    ELSE IF data > MAX_POLLING_INTERVAL_MS
                      THEN MAX_POLLING_INTERVAL_MS
                    ELSE data
           IN /\ accel_interval_ap_on_ms' = d
              /\ accel_interval_ms' = d
              /\ rate_by' = "host"
              /\ host_rate' = data
      ELSE UNCHANGED <<accel_interval_ap_on_ms, accel_interval_ms, rate_by,
                       host_rate>>

(* MOTIONSENSE_CMD_SENSOR_ODR and _SENSOR_RANGE: a sensor number the EC  *)
(* does not support is refused; else the driver sets the value given, if *)
(* any (and may refuse it), and its setting is read back.                *)
host_cmd_sensor_setting ==
  \E h \in HostSensors :
    LET id == host_sensor_id_to_ec_sensor_id(h) IN
    IF id < 0 THEN UNCHANGED drv_id ELSE drv_id' = id

(* host_cmd_motion_sense.  DUMP, INFO (which only checks the sensor       *)
(* number), KB_WAKE_ANGLE and an unknown command change nothing the       *)
(* model follows.                                                         *)
host_cmd_motion_sense ==
  /\ ap = "on" /\ cmds < MaxCmds
  /\ cmds' = cmds + 1
  /\ \/ host_cmd_ec_rate /\ UNCHANGED drv_id
     \/ host_cmd_sensor_setting
        /\ UNCHANGED <<accel_interval_ap_on_ms, accel_interval_ms, rate_by,
                       host_rate>>
     \/ UNCHANGED <<accel_interval_ap_on_ms, accel_interval_ms, rate_by,
                    host_rate, drv_id>>
  /\ UNCHANGED <<tpc, ap, hooks>>

(* lidangle [on|off [interval]]: an interval that parses is stored as it  *)
(* is, without the bounds EC_RATE applies; a bad or missing argument      *)
(* leaves the interval alone.                                             *)
command_ctrl_print_lid_angle_calcs ==
  /\ cmds < MaxCmds
  /\ cmds' = cmds + 1
  /\ \/ \E v \in ConsoleIntervals :
          accel_interval_ms' = v /\ rate_by' = "console"
     \/ UNCHANGED <<accel_interval_ms, rate_by>>
  /\ UNCHANGED <<tpc, ap, accel_interval_ap_on_ms, host_rate, drv_id, hooks>>

(* accelrange, accelres and accelrate id [data [roundup]]: an id below 0  *)
(* or above ACCEL_COUNT is refused, a data or roundup argument that does  *)
(* not parse is refused before the driver is called; else the driver      *)
(* sets or reads the setting of sensor id.                                *)
command_accel_setting ==
  /\ cmds < MaxCmds
  /\ cmds' = cmds + 1
  /\ \E id \in ConsoleIds :
       IF id < 0 \/ id > ACCEL_COUNT THEN UNCHANGED drv_id
                                     ELSE drv_id' \in {id, drv_id}
  /\ UNCHANGED <<tpc, ap, accel_interval_ap_on_ms, accel_interval_ms,
                 rate_by, host_rate, hooks>>
(* accelint id threshold (CONFIG_ACCEL_INTERRUPTS): an id outside        *)
(* 0..ACCEL_COUNT-1 or a threshold that does not parse is refused; else  *)
(* the driver sets the interrupt threshold of sensor id.                 *)
command_accelerometer_interrupt ==
  /\ cmds < MaxCmds
  /\ cmds' = cmds + 1
  /\ \E id \in ConsoleIds :
       IF id < 0 \/ id >= ACCEL_COUNT THEN UNCHANGED drv_id
                                      ELSE drv_id' \in {id, drv_id}
  /\ UNCHANGED <<tpc, ap, accel_interval_ap_on_ms, accel_interval_ms,
                 rate_by, host_rate, hooks>>

-----------------------------------------------------------------------------
(* Every task is done: the callers used their bounds and the task has    *)
(* started or stopped.  The motion sense task samples for ever.           *)
Done ==
  /\ tpc # "init" /\ cmds = MaxCmds /\ hooks = MaxHooks
  /\ UNCHANGED vars

Next ==
  \/ motion_sense_task_init
  \/ set_ap_suspend_polling \/ set_ap_on_polling
  \/ host_cmd_motion_sense
  \/ command_ctrl_print_lid_angle_calcs \/ command_accel_setting
  \/ command_accelerometer_interrupt
  \/ Done

Spec == Init /\ [][Next]_vars
-----------------------------------------------------------------------------
TypeOK ==
  /\ tpc \in {"init", "running", "stopped"}
  /\ ap \in {"on", "off"}
  /\ accel_interval_ms \in
       {0, accel_interval_ap_suspend_ms} \cup ConsoleIntervals
         \cup MIN_POLLING_INTERVAL_MS..MAX_POLLING_INTERVAL_MS
  /\ accel_interval_ap_on_ms \in
       MIN_POLLING_INTERVAL_MS..MAX_POLLING_INTERVAL_MS
  /\ rate_by \in {"none", "task", "hook", "host", "console"}
  /\ host_rate \in {10} \cup RateData
  /\ drv_id \in {NoId, ACCEL_LID, ACCEL_BASE} \cup ConsoleIds
  /\ cmds \in 0..MaxCmds /\ hooks \in 0..MaxHooks

(* The interval for the AP's state: the suspend interval while it is    *)
(* off, the one the host last asked for, brought within the polling      *)
(* bounds, while it is on.                                                *)
Bounded(r) ==
  IF r < MIN_POLLING_INTERVAL_MS THEN MIN_POLLING_INTERVAL_MS
  ELSE IF r > MAX_POLLING_INTERVAL_MS THEN MAX_POLLING_INTERVAL_MS ELSE r
RateFor(a) ==
  IF a = "on" THEN Bounded(host_rate) ELSE accel_interval_ap_suspend_ms

(* Once a chipset hook or the host's EC_RATE has set the sampling         *)
(* interval, it is the one for the AP's state: the hooks and EC_RATE      *)
(* interleave without leaving a stale rate, and the rate the host asked   *)
(* for, bounded, is what every later resume restores.                     *)
RateFollowsChipset ==
  rate_by \in {"hook", "host"} => accel_interval_ms = RateFor(ap)

(* Intervals "based on chipset state": from the moment the task has set   *)
(* its interval, unless the debug console changed it, the task samples   *)
(* at the interval for the AP's state.                                    *)
TaskRateFollowsChipset ==
  tpc = "running" /\ rate_by # "console" => accel_interval_ms = RateFor(ap)

(* The accelerometer driver is only ever given the id of one of the      *)
(* ACCEL_COUNT sensors.                                                  *)
DriverGetsSensorId ==
  drv_id \in {NoId} \cup 0..ACCEL_COUNT - 1
=============================================================================
