--------------------------- MODULE BaytrailPower ---------------------------
(***************************************************************************)
(* The x86 Baytrail chipset power state machine of src/src/power/baytrail.c *)
(* run by the chipset task, together with what it interacts with:          *)
(*   - the power rails, whose power-good signals follow their enables and  *)
(*     may drop on a fault;                                                *)
(*   - the PCH, which drives SLP_S3#/SLP_S4# and releases PLTRST#;          *)
(*   - the other tasks that call into baytrail.c: chipset_force_shutdown,  *)
(*     chipset_reset, chipset_throttle_cpu and the pause_in_s5 / powerfail *)
(*     host and console commands, and the power button.                    *)
(* A call of power_handle_state is split where the chipset task blocks     *)
(* (msleep, usleep, power_wait_signals and the PLTRST# poll); the other    *)
(* tasks and the hardware interleave at those points.                      *)
(***************************************************************************)
EXTENDS Naturals, TLC

CONSTANTS
  UsbPortPowerInS3,  \* CONFIG_USB_PORT_POWER_IN_S3 is built in
  ResetCallers       \* tasks that may be inside chipset_reset(0) at once

ASSUME UsbPortPowerInS3 \in BOOLEAN
ASSUME ResetCallers \in Nat

VARIABLES
  state,               \* the power state the common power loop holds
  pc,                  \* where the chipset task is inside power_handle_state
  gpio,                \* levels of the output lines baytrail.c drives
  wireless,            \* last wireless_set_state()
  sleep_ap_run,        \* SLEEP_MASK_AP_RUN set: idle deep sleep disabled
  hook,                \* last hook_notify(): event and a parity bit
  restart_from_s5,
  fake_pltrst_timeout,
  pause_in_s5,
  want_g3_exit,        \* common power code: leave G3 on the next pass
  pwrbtn_req,          \* a power-on press is pending at the PCH
  pgood,               \* power-good signal of each rail
  pch,                 \* PCH sleep level: SLP_S4#/SLP_S3# deasserted or not
  rcin_holders,        \* chipset_reset(0) calls holding RCIN# low
  throttle_req,        \* history: last level asked of chipset_throttle_cpu
  forced               \* history: chipset_force_shutdown from another task,
                       \* no power button press since

task == <<state, pc, gpio, wireless, sleep_ap_run, hook, restart_from_s5,
          fake_pltrst_timeout, want_g3_exit, pwrbtn_req>>
hw   == <<pgood, pch>>
ext  == <<pause_in_s5, rcin_holders, throttle_req, forced>>
vars == <<task, hw, ext>>

Steady      == {"G3", "S5", "S3", "S0"}
PowerStates == Steady \cup {"G3S5", "S5S3", "S3S0", "S0S3", "S3S5", "S5G3"}

(* Resume points of the chipset task inside power_handle_state; "idle" is  *)
(* the common power loop between two calls.                                *)
Labels == {"idle", "G3S5_wait", "S5S3_wait_s3", "S3S0_pp5000", "S3S0_wait",
           "S3S0_settle", "S3S0_pltrst", "S0S3_delay", "S3S5_restart"}

Outputs == {"PCH_SYS_PWROK", "PCH_CORE_PWROK", "PCH_RSMRST_L", "SUSP_VR_EN",
            "PP1350_EN", "PP3300_DX_EN", "PP5000_EN", "VCORE_EN",
            "ENABLE_TOUCHPAD", "TOUCHSCREEN_RESET_L", "CPU_PROCHOT",
            "PCH_RCIN_L"}

HookEvents == {"STARTUP", "RESUME", "SUSPEND", "SHUTDOWN"}

(* Power-good inputs, and the enable each one follows *)
Rails == {"PGOOD_S5", "PGOOD_PP5000", "PGOOD_VCORE"}
RailEnable == ("PGOOD_S5" :> "SUSP_VR_EN") @@ ("PGOOD_PP5000" :> "PP5000_EN")
              @@ ("PGOOD_VCORE" :> "VCORE_EN")

(* Input masks of baytrail.c, as sets of asserted signals *)
IN_PGOOD_S5          == {"PGOOD_S5"}
IN_PGOOD_ALWAYS_ON   == IN_PGOOD_S5
IN_PGOOD_ALL_NONCORE == {"PGOOD_PP5000"}
IN_PGOOD_ALL_CORE    == {"PGOOD_VCORE"}
IN_PGOOD_S3          == IN_PGOOD_ALWAYS_ON
IN_PGOOD_S0          == IN_PGOOD_ALWAYS_ON \cup IN_PGOOD_ALL_NONCORE
IN_ALL_PM_SLP_DEASSERTED == {"SLP_S3_DEASSERTED", "SLP_S4_DEASSERTED"}
IN_ALL_S0 == IN_PGOOD_S0 \cup IN_PGOOD_ALL_CORE \cup IN_ALL_PM_SLP_DEASSERTED

(* Levels of the PCH sleep lines *)
PCH_SLP_S4_L == IF pch \in {"S3", "S0"} THEN 1 ELSE 0
PCH_SLP_S3_L == IF pch = "S0" THEN 1 ELSE 0

power_get_signals ==
  {r \in Rails : pgood[r]}
  \cup (IF PCH_SLP_S3_L = 1 THEN {"SLP_S3_DEASSERTED"} ELSE {})
  \cup (IF PCH_SLP_S4_L = 1 THEN {"SLP_S4_DEASSERTED"} ELSE {})

power_has_signals(want) == want \subseteq power_get_signals

(* chipset_in_state(CHIPSET_STATE_ON) of the common power code *)
ChipsetOn == state = "S0"

(* The lines chipset_force_shutdown drives low *)
chipset_force_shutdown == ("PCH_SYS_PWROK" :> 0) @@ ("PCH_RSMRST_L" :> 0)

(* The lines power_chipset_init forces to their G3 level *)
G3Forced == {"PCH_CORE_PWROK", "VCORE_EN", "SUSP_VR_EN", "PP1350_EN",
             "PP3300_DX_EN", "PP5000_EN", "PCH_RSMRST_L", "PCH_SYS_PWROK"}

(* throttle_cpu: a static of baytrail.c that no code ever writes *)
throttle_cpu == 0

(* gpio_set_level on the lines of w; the rest keep their level *)
Drive(w) == gpio' = w @@ gpio

Notify(e) == hook' = [event |-> e, parity |-> 1 - hook.parity]

(* power_handle_state returns s; the common loop stores it *)
Return(s) == state' = s /\ pc' = "idle"

(* The chipset task blocks at label l, still inside the same call *)
Block(l) == pc' = l /\ UNCHANGED state
-----------------------------------------------------------------------------
(***************************************************************************)
(* Initial states.  On a cold boot the outputs have the board's reset      *)
(* levels and the AP is off.  After a jump between images the previous    *)
(* image left the system in steady state prev; power_chipset_init keeps    *)
(* S0 when every IN_ALL_S0 signal is present and forces G3 otherwise.      *)
(***************************************************************************)
Lines(on) == [o \in Outputs |-> IF o \in on THEN 1 ELSE 0]

LevelsIn(prev) ==
  CASE prev = "G3" -> Lines({"PCH_RCIN_L"})
    [] prev = "S5" -> Lines({"PCH_RCIN_L", "SUSP_VR_EN", "PCH_RSMRST_L"})
    [] prev = "S3" -> Lines({"PCH_RCIN_L", "SUSP_VR_EN", "PCH_RSMRST_L",
                             "PP1350_EN", "ENABLE_TOUCHPAD"})
    [] prev = "S0" -> Lines(Outputs \ {"CPU_PROCHOT"})

WirelessIn(prev) == CASE prev = "S0" -> "ON" [] prev = "S3" -> "SUSPEND"
                      [] OTHER -> "OFF"

PchIn(prev) == CASE prev = "S0" -> {"S0", "S3"} [] prev = "S3" -> {"S3"}
                 [] OTHER -> {"S5"}

power_chipset_init ==
  \E jumped \in BOOLEAN, prev \in Steady :
    /\ jumped \/ prev = "G3"
    /\ pgood = [r \in Rails |-> LevelsIn(prev)[RailEnable[r]] = 1]
    /\ pch \in PchIn(prev)
    /\ IF jumped /\ power_has_signals(IN_ALL_S0)
         THEN /\ state = "S0" /\ gpio = LevelsIn(prev)
              /\ wireless = "ON" /\ sleep_ap_run = TRUE
              /\ hook = [event |-> "RESUME", parity |-> 0]
         ELSE /\ state = "G3"
              /\ gpio = [o \in G3Forced |-> 0] @@ LevelsIn(prev)
              /\ wireless = IF jumped THEN "OFF" ELSE WirelessIn(prev)
              /\ sleep_ap_run = FALSE
              /\ hook = [event |-> "none", parity |-> 0]
    /\ pc = "idle"
    /\ restart_from_s5 = 0 /\ fake_pltrst_timeout = 0 /\ pause_in_s5 = 1
    /\ want_g3_exit \in BOOLEAN
    /\ pwrbtn_req = FALSE
    /\ rcin_holders = 0 /\ throttle_req = 0 /\ forced = FALSE

Init == power_chipset_init
-----------------------------------------------------------------------------
(***************************************************************************)
(* The chipset task: one call of power_handle_state per step, or one piece *)
(* of a call between two blocking points.                                  *)
(***************************************************************************)

(* Common power loop in G3: leave it once chipset_exit_hard_off asked *)
HandleG3 ==
  /\ pc = "idle" /\ state = "G3" /\ want_g3_exit
  /\ want_g3_exit' = FALSE
  /\ Return("G3S5")
  /\ UNCHANGED <<gpio, wireless, sleep_ap_run, hook, restart_from_s5,
                 fake_pltrst_timeout, pwrbtn_req, hw, ext>>

HandleS5 ==
  /\ pc = "idle" /\ state = "S5" /\ PCH_SLP_S4_L = 1
  /\ Return("S5S3")
  /\ UNCHANGED <<gpio, wireless, sleep_ap_run, hook, restart_from_s5,
                 fake_pltrst_timeout, want_g3_exit, pwrbtn_req, hw, ext>>

(* lid_is_open() is read when the handler runs: any level *)
HandleS3 ==
  /\ pc = "idle" /\ state = "S3"
  /\ \E lid \in 0..1 :
       LET ts == "TOUCHSCREEN_RESET_L" :> lid IN
       IF ~power_has_signals(IN_PGOOD_S3)
         THEN Drive(chipset_force_shutdown @@ ts) /\ Return("S3S5")
         ELSE /\ Drive(ts)
              /\ Return(CASE PCH_SLP_S3_L = 1 -> "S3S0"
                          [] PCH_SLP_S4_L = 0 -> "S3S5"
                          [] OTHER            -> "S3")
  /\ UNCHANGED <<wireless, sleep_ap_run, hook, restart_from_s5,
                 fake_pltrst_timeout, want_g3_exit, pwrbtn_req, hw, ext>>

HandleS0 ==
  /\ pc = "idle" /\ state = "S0"
  /\ IF ~power_has_signals(IN_PGOOD_S0)
       THEN Drive(chipset_force_shutdown) /\ Return("S0S3")
       ELSE /\ UNCHANGED gpio
            /\ Return(IF PCH_SLP_S3_L = 0 THEN "S0S3" ELSE "S0")
  /\ UNCHANGED <<wireless, sleep_ap_run, hook, restart_from_s5,
                 fake_pltrst_timeout, want_g3_exit, pwrbtn_req, hw, ext>>

(* G3S5: msleep(10), enable the suspend regulator, wait for PGOOD_S5 *)
G3S5_enable ==
  /\ pc = "idle" /\ state = "G3S5"
  /\ Drive("SUSP_VR_EN" :> 1)
  /\ Block("G3S5_wait")
  /\ UNCHANGED <<wireless, sleep_ap_run, hook, restart_from_s5,
                 fake_pltrst_timeout, want_g3_exit, pwrbtn_req, hw, ext>>

(* PGOOD_S5 came up: deassert RSMRST#, msleep(10), on to S5 *)
G3S5_good ==
  /\ pc = "G3S5_wait" /\ power_has_signals(IN_PGOOD_S5)
  /\ Drive("PCH_RSMRST_L" :> 1)
  /\ Return("S5")
  /\ UNCHANGED <<wireless, sleep_ap_run, hook, restart_from_s5,
                 fake_pltrst_timeout, want_g3_exit, pwrbtn_req, hw, ext>>

G3S5_timeout ==
  /\ pc = "G3S5_wait" /\ ~power_has_signals(IN_PGOOD_S5)
  /\ Drive(chipset_force_shutdown @@ ("SUSP_VR_EN" :> 0))
  /\ Return("G3")
  /\ UNCHANGED <<wireless, sleep_ap_run, hook, restart_from_s5,
                 fake_pltrst_timeout, want_g3_exit, pwrbtn_req, hw, ext>>

(* S5S3: wait for the always-on rails (the task waits at "idle", state   *)
(* S5S3), then turn on RAM power and wait for the S3 rails               *)
S5S3_always_on ==
  /\ pc = "idle" /\ state = "S5S3" /\ power_has_signals(IN_PGOOD_ALWAYS_ON)
  /\ Drive("PP1350_EN" :> 1)
  /\ Block("S5S3_wait_s3")
  /\ UNCHANGED <<wireless, sleep_ap_run, hook, restart_from_s5,
                 fake_pltrst_timeout, want_g3_exit, pwrbtn_req, hw, ext>>

S5S3_always_on_timeout ==
  /\ pc = "idle" /\ state = "S5S3" /\ ~power_has_signals(IN_PGOOD_ALWAYS_ON)
  /\ Drive(chipset_force_shutdown)
  /\ Return("S5G3")
  /\ UNCHANGED <<wireless, sleep_ap_run, hook, restart_from_s5,
                 fake_pltrst_timeout, want_g3_exit, pwrbtn_req, hw, ext>>

(* The S3 rails are good: touchpad power, HOOK_CHIPSET_STARTUP, S3 *)
S5S3_good ==
  /\ pc = "S5S3_wait_s3" /\ power_has_signals(IN_PGOOD_S3)
  /\ Drive("ENABLE_TOUCHPAD" :> 1)
  /\ Notify("STARTUP")
  /\ Return("S3")
  /\ UNCHANGED <<wireless, sleep_ap_run, restart_from_s5,
                 fake_pltrst_timeout, want_g3_exit, pwrbtn_req, hw, ext>>

S5S3_timeout ==
  /\ pc = "S5S3_wait_s3" /\ ~power_has_signals(IN_PGOOD_S3)
  /\ Drive(chipset_force_shutdown)
  /\ Return("S5G3")
  /\ UNCHANGED <<wireless, sleep_ap_run, hook, restart_from_s5,
                 fake_pltrst_timeout, want_g3_exit, pwrbtn_req, hw, ext>>

(* S3S0: turn on +5V, usleep(3 ms) *)
S3S0_pp5000 ==
  /\ pc = "idle" /\ state = "S3S0"
  /\ Drive("PP5000_EN" :> 1)
  /\ Block("S3S0_pp5000")
  /\ UNCHANGED <<wireless, sleep_ap_run, hook, restart_from_s5,
                 fake_pltrst_timeout, want_g3_exit, pwrbtn_req, hw, ext>>

(* Mutant: HOOK_CHIPSET_RESUME notified before the wait for the rails *)
S3S0_rails_resume_early ==
  /\ pc = "S3S0_pp5000"
  /\ Drive(("PP3300_DX_EN" :> 1) @@ ("TOUCHSCREEN_RESET_L" :> 1))
  /\ wireless' = "ON"
  /\ Notify("RESUME")
  /\ Block("S3S0_wait")
  /\ UNCHANGED <<sleep_ap_run, restart_from_s5,
                 fake_pltrst_timeout, want_g3_exit, pwrbtn_req, hw, ext>>

(* +3.3V DX, wireless on, touchscreen out of reset, wait for S0 rails *)
S3S0_rails ==
  /\ pc = "S3S0_pp5000"
  /\ Drive(("PP3300_DX_EN" :> 1) @@ ("TOUCHSCREEN_RESET_L" :> 1))
  /\ wireless' = "ON"
  /\ Block("S3S0_wait")
  /\ UNCHANGED <<sleep_ap_run, hook, restart_from_s5,
                 fake_pltrst_timeout, want_g3_exit, pwrbtn_req, hw, ext>>

(* Non-core rails good: +CPU_CORE on, HOOK_CHIPSET_RESUME, no deep       *)
(* sleep, msleep(15)                                                      *)
S3S0_good ==
  /\ pc = "S3S0_wait" /\ power_has_signals(IN_PGOOD_S0)
  /\ Drive("VCORE_EN" :> 1)
  /\ Notify("RESUME")
  /\ sleep_ap_run' = TRUE
  /\ Block("S3S0_settle")
  /\ UNCHANGED <<wireless, restart_from_s5, fake_pltrst_timeout,
                 want_g3_exit, pwrbtn_req, hw, ext>>

(* Mutant: the rollback returns POWER_S5 instead of POWER_S3 *)
S3S0_timeout_to_s5 ==
  /\ pc = "S3S0_wait" /\ ~power_has_signals(IN_PGOOD_S0)
  /\ Drive(("PP3300_DX_EN" :> 0) @@ ("PP5000_EN" :> 0)
           @@ ("TOUCHSCREEN_RESET_L" :> 0) @@ chipset_force_shutdown)
  /\ wireless' = "OFF"
  /\ Return("S5")
  /\ UNCHANGED <<sleep_ap_run, hook, restart_from_s5, fake_pltrst_timeout,
                 want_g3_exit, pwrbtn_req, hw, ext>>

(* Rails timed out: undo what the step turned on and fall back to S3 *)
S3S0_timeout ==
  /\ pc = "S3S0_wait" /\ ~power_has_signals(IN_PGOOD_S0)
  /\ Drive(("PP3300_DX_EN" :> 0) @@ ("PP5000_EN" :> 0)
           @@ ("TOUCHSCREEN_RESET_L" :> 0) @@ chipset_force_shutdown)
  /\ wireless' = "OFF"
  /\ Return("S3")
  /\ UNCHANGED <<sleep_ap_run, hook, restart_from_s5, fake_pltrst_timeout,
                 want_g3_exit, pwrbtn_req, hw, ext>>

(* PROCHOT from throttle_cpu, SYS and CORE PWROK on, poll PLTRST# *)
S3S0_pwrok ==
  /\ pc = "S3S0_settle"
  /\ Drive(("CPU_PROCHOT" :> throttle_cpu) @@ ("PCH_SYS_PWROK" :> 1)
           @@ ("PCH_CORE_PWROK" :> 1))
  /\ Block("S3S0_pltrst")
  /\ UNCHANGED <<wireless, sleep_ap_run, hook, restart_from_s5,
                 fake_pltrst_timeout, want_g3_exit, pwrbtn_req, hw, ext>>

(* The PCH can release platform reset only while it is powered up to S0 *)
(* and both PWROK lines and RSMRST# are high.                            *)
PltrstCanDeassert ==
  /\ pch = "S0"
  /\ gpio["PCH_SYS_PWROK"] = 1 /\ gpio["PCH_CORE_PWROK"] = 1
  /\ gpio["PCH_RSMRST_L"] = 1

(* Mutant: each timeout increments restart_from_s5 instead of setting it *)
S3S0_pltrst_counts ==
  /\ pc = "S3S0_pltrst"
  /\ \E in_time \in IF PltrstCanDeassert THEN BOOLEAN ELSE {FALSE} :
       IF in_time /\ fake_pltrst_timeout = 0
         THEN UNCHANGED <<gpio, restart_from_s5, fake_pltrst_timeout,
                          pwrbtn_req>>
         ELSE /\ pwrbtn_req' = FALSE
              /\ Drive(chipset_force_shutdown)
              /\ restart_from_s5' = restart_from_s5 + 1
              /\ fake_pltrst_timeout' = 0
  /\ Return("S0")
  /\ UNCHANGED <<wireless, sleep_ap_run, hook, want_g3_exit, hw, ext>>

(* End of the 50 x 1 ms poll: PLTRST# deasserted in time (and no faked  *)
(* failure), or force a restart from S5.  Either way the result is S0.  *)
S3S0_pltrst ==
  /\ pc = "S3S0_pltrst"
  /\ \E in_time \in IF PltrstCanDeassert THEN BOOLEAN ELSE {FALSE} :
       IF in_time /\ fake_pltrst_timeout = 0
         THEN UNCHANGED <<gpio, restart_from_s5, fake_pltrst_timeout,
                          pwrbtn_req>>
         ELSE /\ pwrbtn_req' = FALSE           \* power_button_pch_release
              /\ Drive(chipset_force_shutdown)
              /\ restart_from_s5' = 1
              /\ fake_pltrst_timeout' = 0
  /\ Return("S0")
  /\ UNCHANGED <<wireless, sleep_ap_run, hook, want_g3_exit, hw, ext>>

(* Mutant: CORE_PWROK left high when the AP suspends *)
S0S3_core_off_keeps_core_pwrok ==
  /\ pc = "idle" /\ state = "S0S3"
  /\ Notify("SUSPEND")
  /\ Drive(("PCH_SYS_PWROK" :> 0) @@ ("VCORE_EN" :> 0) @@ ("CPU_PROCHOT" :> 0))
  /\ wireless' = "SUSPEND"
  /\ sleep_ap_run' = FALSE
  /\ Block("S0S3_delay")
  /\ UNCHANGED <<restart_from_s5, fake_pltrst_timeout, want_g3_exit,
                 pwrbtn_req, hw, ext>>

(* Mutant: enable_sleep(SLEEP_MASK_AP_RUN) missing from the suspend path *)
S0S3_core_off_no_enable_sleep ==
  /\ pc = "idle" /\ state = "S0S3"
  /\ Notify("SUSPEND")
  /\ Drive(("PCH_SYS_PWROK" :> 0) @@ ("PCH_CORE_PWROK" :> 0)
           @@ ("VCORE_EN" :> 0) @@ ("CPU_PROCHOT" :> 0))
  /\ wireless' = "SUSPEND"
  /\ Block("S0S3_delay")
  /\ UNCHANGED <<sleep_ap_run, restart_from_s5, fake_pltrst_timeout,
                 want_g3_exit, pwrbtn_req, hw, ext>>

(* S0S3: HOOK_CHIPSET_SUSPEND, PWROKs off, +CPU_CORE off, wireless      *)
(* suspended, deep sleep allowed, PROCHOT off, msleep(7)                 *)
S0S3_core_off ==
  /\ pc = "idle" /\ state = "S0S3"
  /\ Notify("SUSPEND")
  /\ Drive(("PCH_SYS_PWROK" :> 0) @@ ("PCH_CORE_PWROK" :> 0)
           @@ ("VCORE_EN" :> 0) @@ ("CPU_PROCHOT" :> 0))
  /\ wireless' = "SUSPEND"
  /\ sleep_ap_run' = FALSE
  /\ Block("S0S3_delay")
  /\ UNCHANGED <<restart_from_s5, fake_pltrst_timeout, want_g3_exit,
                 pwrbtn_req, hw, ext>>

(* +3.3V DX off; +5V off unless USB ports keep it up in S3 *)
S0S3_rails_off ==
  /\ pc = "S0S3_delay"
  /\ \E usb_ports_on \in IF UsbPortPowerInS3 THEN BOOLEAN ELSE {FALSE} :
       Drive(IF usb_ports_on THEN "PP3300_DX_EN" :> 0
             ELSE ("PP3300_DX_EN" :> 0) @@ ("PP5000_EN" :> 0))
  /\ Return("S3")
  /\ UNCHANGED <<wireless, sleep_ap_run, hook, restart_from_s5,
                 fake_pltrst_timeout, want_g3_exit, pwrbtn_req, hw, ext>>

(* Mutant: S3S5 never looks at restart_from_s5 *)
S3S5_rails_off_ignores_restart ==
  /\ pc = "idle" /\ state = "S3S5"
  /\ Notify("SHUTDOWN")
  /\ Drive(("PP5000_EN" :> 0) @@ ("ENABLE_TOUCHPAD" :> 0)
           @@ ("TOUCHSCREEN_RESET_L" :> 0) @@ ("PP1350_EN" :> 0))
  /\ wireless' = "OFF"
  /\ Return(IF pause_in_s5 # 0 THEN "S5" ELSE "S5G3")
  /\ UNCHANGED <<sleep_ap_run, restart_from_s5, fake_pltrst_timeout,
                 want_g3_exit, pwrbtn_req, hw, ext>>

(* S3S5: HOOK_CHIPSET_SHUTDOWN, everything but the suspend rail off;     *)
(* then restart from S5 if asked, else S5 or straight on to G3          *)
S3S5_rails_off ==
  /\ pc = "idle" /\ state = "S3S5"
  /\ Notify("SHUTDOWN")
  /\ Drive(("PP5000_EN" :> 0) @@ ("ENABLE_TOUCHPAD" :> 0)
           @@ ("TOUCHSCREEN_RESET_L" :> 0) @@ ("PP1350_EN" :> 0))
  /\ wireless' = "OFF"
  /\ IF restart_from_s5 = 1
       THEN restart_from_s5' = 0 /\ Block("S3S5_restart")
       ELSE /\ UNCHANGED restart_from_s5
            /\ Return(IF pause_in_s5 # 0 THEN "S5" ELSE "S5G3")
  /\ UNCHANGED <<sleep_ap_run, fake_pltrst_timeout, want_g3_exit,
                 pwrbtn_req, hw, ext>>

(* After msleep(100): power_button_pch_pulse, start again from G3S5 *)
S3S5_restart ==
  /\ pc = "S3S5_restart"
  /\ pwrbtn_req' = TRUE
  /\ Return("G3S5")
  /\ UNCHANGED <<gpio, wireless, sleep_ap_run, hook, restart_from_s5,
                 fake_pltrst_timeout, want_g3_exit, hw, ext>>

S5G3_off ==
  /\ pc = "idle" /\ state = "S5G3"
  /\ Drive(("PCH_RSMRST_L" :> 0) @@ ("SUSP_VR_EN" :> 0))
  /\ Return("G3")
  /\ UNCHANGED <<wireless, sleep_ap_run, hook, restart_from_s5,
                 fake_pltrst_timeout, want_g3_exit, pwrbtn_req, hw, ext>>

power_handle_state ==
  \/ HandleG3 \/ HandleS5 \/ HandleS3 \/ HandleS0
  \/ G3S5_enable \/ G3S5_good \/ G3S5_timeout
  \/ S5S3_always_on \/ S5S3_always_on_timeout \/ S5S3_good \/ S5S3_timeout
  \/ S3S0_pp5000 \/ S3S0_rails \/ S3S0_good \/ S3S0_timeout
  \/ S3S0_pwrok \/ S3S0_pltrst
  \/ S0S3_core_off \/ S0S3_rails_off
  \/ S3S5_rails_off \/ S3S5_restart
  \/ S5G3_off
-----------------------------------------------------------------------------
(***************************************************************************)
(* The hardware: rails and the PCH                                         *)
(***************************************************************************)

(* A rail's power-good follows its enable; an enabled rail may fail *)
RailSettle(r) ==
  /\ pgood[r] # (gpio[RailEnable[r]] = 1)
  /\ pgood' = [pgood EXCEPT ![r] = ~@]
  /\ UNCHANGED <<task, pch, ext>>

RailFault(r) ==
  /\ pgood[r] /\ gpio[RailEnable[r]] = 1
  /\ pgood' = [pgood EXCEPT ![r] = FALSE]
  /\ UNCHANGED <<task, pch, ext>>

(* The PCH leaves S5 only on a power button press, wakes from S3 on any *)
(* wake event, and is put to sleep or off by the AP's OS.               *)
PchUp ==
  /\ gpio["PCH_RSMRST_L"] = 1 /\ pgood["PGOOD_S5"]
  /\ \/ pch = "S5" /\ pwrbtn_req /\ pch' = "S3" /\ pwrbtn_req' = FALSE
     \/ pch = "S3" /\ pch' = "S0" /\ UNCHANGED pwrbtn_req
  /\ UNCHANGED <<state, pc, gpio, wireless, sleep_ap_run, hook,
                 restart_from_s5, fake_pltrst_timeout, want_g3_exit,
                 pgood, ext>>

PchDown ==
  /\ \/ pch = "S0" /\ pch' = "S3"
     \/ pch = "S3" /\ pch' = "S5"
  /\ UNCHANGED <<task, pgood, ext>>

(* In RSMRST# or without its suspend well the PCH asserts every SLP# *)
PchReset ==
  /\ gpio["PCH_RSMRST_L"] = 0 \/ ~pgood["PGOOD_S5"]
  /\ pch # "S5"
  /\ pch' = "S5"
  /\ UNCHANGED <<task, pgood, ext>>
-----------------------------------------------------------------------------
(***************************************************************************)
(* The other tasks                                                         *)
(***************************************************************************)

(* chipset_force_shutdown called from another task (power button held,  *)
(* thermal shutdown, console)                                           *)
ExternalForceShutdown ==
  /\ Drive(chipset_force_shutdown)
  /\ forced' = TRUE
  /\ UNCHANGED <<state, pc, wireless, sleep_ap_run, hook, restart_from_s5,
                 fake_pltrst_timeout, want_g3_exit, pwrbtn_req, hw,
                 pause_in_s5, rcin_holders, throttle_req>>

(* Mutant: the "ignore if PWROK is already low" return dropped *)
chipset_reset_cold_unguarded ==
  /\ Drive("PCH_SYS_PWROK" :> 1)
  /\ pch' = "S5" /\ pwrbtn_req' = TRUE
  /\ UNCHANGED <<state, pc, wireless, sleep_ap_run, hook,
                 restart_from_s5, fake_pltrst_timeout, want_g3_exit,
                 pgood, ext>>

(* chipset_reset(1): ignored while PWROK is low; otherwise PWROK low,   *)
(* udelay(100), PWROK high, which reboots the PCH, which powers back on. *)
(* The 100 us busy-wait is taken as one step: PWROK ends high.          *)
chipset_reset_cold ==
  /\ gpio["PCH_SYS_PWROK"] = 1
  /\ Drive("PCH_SYS_PWROK" :> 1)
  /\ pch' = "S5" /\ pwrbtn_req' = TRUE
  /\ UNCHANGED <<state, pc, wireless, sleep_ap_run, hook,
                 restart_from_s5, fake_pltrst_timeout, want_g3_exit,
                 pgood, ext>>

(* chipset_reset(0): RCIN# low, usleep(32 ms), RCIN# high *)
chipset_reset_warm_begin ==
  /\ rcin_holders < ResetCallers
  /\ rcin_holders' = rcin_holders + 1
  /\ Drive("PCH_RCIN_L" :> 0)
  /\ UNCHANGED <<state, pc, wireless, sleep_ap_run, hook, restart_from_s5,
                 fake_pltrst_timeout, want_g3_exit, pwrbtn_req, hw,
                 pause_in_s5, throttle_req, forced>>

chipset_reset_warm_end ==
  /\ rcin_holders > 0
  /\ rcin_holders' = rcin_holders - 1
  /\ Drive("PCH_RCIN_L" :> 1)
  /\ UNCHANGED <<state, pc, wireless, sleep_ap_run, hook, restart_from_s5,
                 fake_pltrst_timeout, want_g3_exit, pwrbtn_req, hw,
                 pause_in_s5, throttle_req, forced>>

(* The level is applied only in S0 and is not stored anywhere *)
chipset_throttle_cpu(throttle) ==
  /\ throttle_req' = throttle
  /\ IF ChipsetOn THEN Drive("CPU_PROCHOT" :> throttle) ELSE UNCHANGED gpio
  /\ UNCHANGED <<state, pc, wireless, sleep_ap_run, hook, restart_from_s5,
                 fake_pltrst_timeout, want_g3_exit, pwrbtn_req, hw,
                 pause_in_s5, rcin_holders, forced>>

(* EC_CMD_GSV_PAUSE_IN_S5 with EC_GSV_SET *)
host_command_gsv(value) ==
  /\ pause_in_s5' = value
  /\ UNCHANGED <<task, hw, rcin_holders, throttle_req, forced>>

(* "pause_in_s5 on|off"; an argument parse_bool rejects changes nothing *)
console_command_gsv(value) ==
  /\ pause_in_s5' = value
  /\ UNCHANGED <<task, hw, rcin_holders, throttle_req, forced>>

console_command_powerfail ==
  /\ fake_pltrst_timeout' = 1
  /\ UNCHANGED <<state, pc, gpio, wireless, sleep_ap_run, hook,
                 restart_from_s5, want_g3_exit, pwrbtn_req, hw, ext>>

(* A user press of the power button: a press for the PCH, and           *)
(* chipset_exit_hard_off, which asks to leave G3 when in or headed for it *)
PowerButtonPress ==
  /\ pwrbtn_req' = TRUE
  /\ want_g3_exit' = (want_g3_exit \/ state \in {"G3", "S5G3"})
  /\ forced' = FALSE
  /\ UNCHANGED <<state, pc, gpio, wireless, sleep_ap_run, hook,
                 restart_from_s5, fake_pltrst_timeout, hw,
                 pause_in_s5, rcin_holders, throttle_req>>
-----------------------------------------------------------------------------
Environment ==
  \/ \E r \in Rails : RailSettle(r) \/ RailFault(r)
  \/ PchUp \/ PchDown \/ PchReset

OtherTasks ==
  \/ ExternalForceShutdown
  \/ chipset_reset_cold \/ chipset_reset_warm_begin \/ chipset_reset_warm_end
  \/ \E t \in 0..1 : chipset_throttle_cpu(t)
  \/ \E v \in 0..1 : host_command_gsv(v) \/ console_command_gsv(v)
  \/ console_command_powerfail
  \/ PowerButtonPress

Next == power_handle_state \/ Environment \/ OtherTasks

(* The chipset task runs whenever it is runnable; a rail reaches the    *)
(* level its enable sets and the PCH drops to S5 when held in reset.    *)
(* Users, the AP's OS, faults and commands are under no obligation.     *)
Fairness ==
  /\ WF_vars(power_handle_state)
  /\ \A r \in Rails : WF_vars(RailSettle(r))
  /\ WF_vars(PchReset)

Spec == Init /\ [][Next]_vars /\ Fairness
-----------------------------------------------------------------------------
(***************************************************************************)
(* Properties                                                              *)
(***************************************************************************)

TypeOK ==
  /\ state \in PowerStates
  /\ pc \in Labels
  /\ gpio \in [Outputs -> 0..1]
  /\ wireless \in {"OFF", "ON", "SUSPEND"}
  /\ sleep_ap_run \in BOOLEAN
  /\ hook \in [event : HookEvents \cup {"none"}, parity : 0..1]
  /\ restart_from_s5 \in 0..1 /\ fake_pltrst_timeout \in 0..1
  /\ pause_in_s5 \in 0..1
  /\ want_g3_exit \in BOOLEAN /\ pwrbtn_req \in BOOLEAN
  /\ pgood \in [Rails -> BOOLEAN]
  /\ pch \in {"S5", "S3", "S0"}
  /\ rcin_holders \in 0..ResetCallers
  /\ throttle_req \in 0..1 /\ forced \in BOOLEAN

(* The chipset hooks reach their subscribers (lightbar, motion sense,   *)
(* wireless, USB charging) in the order STARTUP (RESUME SUSPEND)*       *)
(* SHUTDOWN: each hook_notify in power_handle_state follows the event   *)
(* its subscribers expect before it, whatever path the machine took.    *)
HookFollows ==
  ("STARTUP" :> {"none", "SHUTDOWN"}) @@ ("RESUME" :> {"STARTUP", "SUSPEND"})
  @@ ("SUSPEND" :> {"RESUME"}) @@ ("SHUTDOWN" :> {"STARTUP", "SUSPEND"})

HookOrder == [][hook' # hook => hook.event \in HookFollows[hook'.event]]_hook

(* SYS_PWROK and CORE_PWROK are high only while every rail the AP needs *)
(* is enabled: S3S0 raises them after +CPU_CORE, S0S3 drops them before *)
(* any rail, and chipset_reset(1) only pulses a PWROK that was high.    *)
PwrokRequiresRails ==
  (gpio["PCH_SYS_PWROK"] = 1 \/ gpio["PCH_CORE_PWROK"] = 1) =>
    \A o \in {"SUSP_VR_EN", "PP1350_EN", "PP5000_EN", "PP3300_DX_EN",
              "VCORE_EN"} : gpio[o] = 1

(* Between two calls of power_handle_state the idle task's deep sleep is *)
(* disabled exactly while the AP is in S0 (or about to leave it): a      *)
(* rollback in S3S0 or a forced G3 must not leave it disabled, and S0    *)
(* reached by any path must have it disabled.                            *)
DeepSleepMatchesAp ==
  pc = "idle" => (sleep_ap_run <=> state \in {"S0", "S0S3"})

(* A PLTRST# timeout in S3S0 sets restart_from_s5; the machine then      *)
(* eventually runs S3S5's restart and starts again from G3S5.            *)
RestartHappens == restart_from_s5 = 1 ~> state = "G3S5"

(* chipset_force_shutdown says the forced-off condition holds until the *)
(* machine transitions to G3.  So once another task has forced a         *)
(* shutdown, and until the user presses the power button, the power task *)
(* may start powering up (enter G3S5) only from G3, never from S3S5's    *)
(* restart_from_s5 path with a synthesized power button press.           *)
NoRestartAfterForcedShutdown ==
  [][forced /\ state # "G3S5" /\ state' = "G3S5" => state = "G3"]_vars

(* chipset_reset(0) holds RCIN# low for 32 ms so that the PCH, with its  *)
(* 16 ms debounce, sees the reset: while any caller is inside its pulse  *)
(* RCIN# stays low, even when two tasks ask for a warm reset at once.    *)
WarmResetPulseHeld == rcin_holders > 0 => gpio["PCH_RCIN_L"] = 0

(* In G3 every line power_chipset_init lists as a G3 level is at it. *)
G3LinesAtG3Level ==
  (state = "G3" /\ pc = "idle") => \A o \in G3Forced : gpio[o] = 0

(* Whenever the AP is in S0, CPU_PROCHOT carries the throttle level last *)
(* asked of chipset_throttle_cpu, as the "Throttle CPU if necessary"     *)
(* step of S3S0 means to restore from throttle_cpu.                      *)
ProchotFollowsThrottle ==
  (state = "S0" /\ pc = "idle") => gpio["CPU_PROCHOT"] = throttle_req
=============================================================================
