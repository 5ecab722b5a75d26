------------------------------ MODULE G781Poll ------------------------------
(***************************************************************************)
(* The G781 temperature sensor driver (drivers/temp_sensor/g781.c).       *)
(*                                                                         *)
(* The once-a-second hook temp_sensor_poll reads the local and the remote *)
(* temperature registers over I2C, each a signed byte in degrees C, and   *)
(* keeps them in Kelvin in temp_val_local and temp_val_remote; the        *)
(* thermal code reads them with g781_get_val.  The sensor's power rail    *)
(* (CONFIG_TEMP_SENSOR_POWER_GPIO) is switched by the power sequencing,   *)
(* and an I2C read fails when the rail is off or the bus errs.  The      *)
(* g781 console command reads and writes the sensor's registers; of      *)
(* those the model follows one limit register, since none of them feeds  *)
(* back into the readings.                                               *)
(*                                                                         *)
(* temp_sensor_poll runs in the hook task.  g781_get_val is also reached *)
(* from the console and host command tasks (through the board's sensor   *)
(* table, outside src/), which have higher priority and preempt the hook *)
(* task at any instruction: a reader may see the poll after a get_temp   *)
(* and before its C_TO_K, as well as between the two reads.  Each store  *)
(* of an int is one step.                                                *)
(***************************************************************************)
EXTENDS Integers

CONSTANTS
  Raw,         \* register bytes the sensor may report
  Data,        \* values typed at "g781 settemp|setbyte <offset> <data>"
  MaxPolls,    \* calls of temp_sensor_poll
  MaxCmds      \* g781_get_val calls and console commands

(* The int8_t cast of get_temp: a register byte as a signed value *)
Int8(b) == IF b >= 128 THEN b - 256 ELSE b

(* C_TO_K of util.h: degrees C to Kelvin *)
C_TO_K(t) == t + 273

(* g781_get_val's sensor indexes; any other index is unknown *)
Indexes == {"G781_IDX_INTERNAL", "G781_IDX_EXTERNAL", "other"}

VARIABLES
  power,            \* has_power(): the sensor's power GPIO
  raw_local,        \* the sensor's G781_TEMP_LOCAL register
  raw_remote,       \* the sensor's G781_TEMP_REMOTE register
  limit,            \* a limit register the console may set
  temp_val_local,
  temp_val_remote,
  ppc,              \* temp_sensor_poll's next line: "idle", "local" (88),
                    \* "local_k" (89), "remote" (91) or "remote_k" (92)
  polls,            \* polls so far
  cmds,             \* reads and console commands so far
  got               \* history: what the last g781_get_val gave its caller

vars == <<power, raw_local, raw_remote, limit, temp_val_local,
          temp_val_remote, ppc, polls, cmds, got>>

Init ==
  /\ power \in {0, 1}
  /\ raw_local \in Raw /\ raw_remote \in Raw
  /\ limit \in {d % 256 : d \in Data}   \* any byte; no reading depends on it
  /\ temp_val_local = 0 /\ temp_val_remote = 0    \* zeroed statics
  /\ ppc = "idle" /\ polls = 0 /\ cmds = 0
  /\ got = [rc |-> "none", temp |-> 0]
-----------------------------------------------------------------------------
(* The sensor measures again, or its rail is switched. *)
Sensor ==
  /\ \/ \E l, r \in Raw : raw_local' = l /\ raw_remote' = r
        /\ UNCHANGED power
     \/ power' = 1 - power /\ UNCHANGED <<raw_local, raw_remote>>
  /\ UNCHANGED <<limit, temp_val_local, temp_val_remote, ppc, polls, cmds,
                 got>>

(* get_temp(offset, &temp_ptr): the value it leaves in *temp_ptr.  A    *)
(* read fails when the sensor is unpowered and may fail on the bus; then  *)
(* get_temp returns the error and leaves *temp_ptr as it was.            *)
get_temp(old, reg) ==
  IF power = 1 THEN {Int8(reg), old} ELSE {old}

(* temp_sensor_poll: return at once when the sensor is unpowered *)
temp_sensor_poll ==
  /\ ppc = "idle" /\ polls < MaxPolls
  /\ polls' = polls + 1
  /\ ppc' = IF power = 1 THEN "local" ELSE "idle"
  /\ UNCHANGED <<power, raw_local, raw_remote, limit, temp_val_local,
                 temp_val_remote, cmds, got>>

(* get_temp(G781_TEMP_LOCAL, &temp_val_local); its result is ignored *)
temp_sensor_poll_local ==
  /\ ppc = "local"
  /\ temp_val_local' \in get_temp(temp_val_local, raw_local)
  /\ ppc' = "local_k"
  /\ UNCHANGED <<power, raw_local, raw_remote, limit, temp_val_remote,
                 polls, cmds, got>>

(* temp_val_local = C_TO_K(temp_val_local) *)
temp_sensor_poll_local_k ==
  /\ ppc = "local_k"
  /\ temp_val_local' = C_TO_K(temp_val_local)
  /\ ppc' = "remote"
  /\ UNCHANGED <<power, raw_local, raw_remote, limit, temp_val_remote,
                 polls, cmds, got>>

(* get_temp(G781_TEMP_REMOTE, &temp_val_remote) *)
temp_sensor_poll_remote ==
  /\ ppc = "remote"
  /\ temp_val_remote' \in get_temp(temp_val_remote, raw_remote)
  /\ ppc' = "remote_k"
  /\ UNCHANGED <<power, raw_local, raw_remote, limit, temp_val_local,
                 polls, cmds, got>>

(* temp_val_remote = C_TO_K(temp_val_remote) *)
temp_sensor_poll_remote_k ==
  /\ ppc = "remote_k"
  /\ temp_val_remote' = C_TO_K(temp_val_remote)
  /\ ppc' = "idle"
  /\ UNCHANGED <<power, raw_local, raw_remote, limit, temp_val_local,
                 polls, cmds, got>>
-----------------------------------------------------------------------------
(* g781_get_val(idx, &temp): by the thermal code, in another task *)
g781_get_val ==
  /\ cmds < MaxCmds /\ cmds' = cmds + 1
  /\ \E idx \in Indexes :
       got' = CASE power = 0 -> [got EXCEPT !.rc = "EC_ERROR_NOT_POWERED"]
                [] idx = "G781_IDX_INTERNAL" ->
                     [rc |-> "EC_SUCCESS", temp |-> temp_val_local]
                [] idx = "G781_IDX_EXTERNAL" ->
                     [rc |-> "EC_SUCCESS", temp |-> temp_val_remote]
                [] OTHER -> [got EXCEPT !.rc = "EC_ERROR_UNKNOWN"]
  /\ UNCHANGED <<power, raw_local, raw_remote, limit, temp_val_local,
                 temp_val_remote, ppc, polls>>

(* set_temp(offset, temp): the limit register after it; a temperature   *)
(* outside -127..127 is refused, any other is written as a uint8_t.     *)
set_temp(temp) ==
  IF temp < -127 \/ temp > 127 THEN limit ELSE temp % 256

(* The g781 console command, refused when the sensor is unpowered.       *)
(* "settemp <offset> <data>" and "setbyte <offset> <data>" write the     *)
(* limit register (setbyte the low byte i2c_write8 sends); the write may *)
(* fail on the bus.  No arguments (print_status) and getbyte only read.  *)
command_g781 ==
  /\ cmds < MaxCmds /\ cmds' = cmds + 1
  /\ power = 1
  /\ \E d \in Data :
       \/ limit' = set_temp(d)          \* settemp
       \/ limit' = d % 256              \* setbyte
       \/ UNCHANGED limit               \* a failed write, or a read only
  /\ UNCHANGED <<power, raw_local, raw_remote, temp_val_local,
                 temp_val_remote, ppc, polls, got>>

Next ==
  \/ Sensor
  \/ temp_sensor_poll
  \/ temp_sensor_poll_local \/ temp_sensor_poll_local_k
  \/ temp_sensor_poll_remote \/ temp_sensor_poll_remote_k
  \/ g781_get_val \/ command_g781

Spec == Init /\ [][Next]_vars
-----------------------------------------------------------------------------
(* A temperature as g781_get_val reports it: the Kelvin value of a byte  *)
(* the sensor can return.                                                *)
Kelvin == {C_TO_K(Int8(b)) : b \in 0..255}

TypeOK ==
  /\ power \in {0, 1} /\ raw_local \in Raw /\ raw_remote \in Raw
  /\ limit \in 0..255
  /\ ppc \in {"idle", "local", "local_k", "remote", "remote_k"}
  /\ polls \in 0..MaxPolls /\ cmds \in 0..MaxCmds

(* Every temperature g781_get_val hands the thermal code is the Kelvin   *)
(* value of a reading the sensor gave (or the zero the statics hold      *)
(* before the first poll): temp_sensor_poll converts each reading once, *)
(* and no reader sees it before its conversion.                         *)
ReportedKelvin ==
  got.rc = "EC_SUCCESS" => got.temp \in Kelvin \cup {0}
=============================================================================
