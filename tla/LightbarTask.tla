---------------------------- MODULE LightbarTask ----------------------------
(***************************************************************************)
(* The lightbar task of common/lightbar.c and the single-slot message     *)
(* handoff that drives it.                                                 *)
(*                                                                         *)
(* lightbar_sequence() stores the requested sequence in pending_msg and    *)
(* sets the task's PENDING_MSG event.  lightbar_task() runs the sequence   *)
(* st.cur_seq; a sequence returns PENDING_MSG when a wait inside it        *)
(* (WAIT_OR_RET, task_wait_event) sees the event, or 0 when it is done.    *)
(* The task then either switches to pending_msg, remembering the old      *)
(* sequence in st.prev_seq, or moves on from a finished sequence.          *)
(*                                                                         *)
(* The callers of lightbar_sequence() are the chipset hooks (run by the    *)
(* chipset task in the order STARTUP (RESUME SUSPEND)* SHUTDOWN, which     *)
(* BaytrailPower's HookOrder checks) and the host and console commands.    *)
(* Both run at a higher priority than the lightbar task and may preempt it *)
(* between any two of its steps.  The animation itself (colours, PWM,     *)
(* battery level) is left out: a sequence is its name and the way it can  *)
(* end.                                                                    *)
(***************************************************************************)
EXTENDS Naturals

CONSTANTS
  HostSeqs,     \* sequence numbers the host or console may request
  MaxHostMsgs,  \* bound on host/console lightbar_sequence() calls
  MaxHooks,     \* bound on chipset hook calls
  Brightness    \* brightness values the host and console may set

VARIABLES
  cur_seq,      \* st.cur_seq
  prev_seq,     \* st.prev_seq
  pending_msg,  \* pending_msg
  event,        \* the task's TASK_EVENT_CUSTOM(PENDING_MSG) bit
  tpc,          \* lightbar task: "seq" (inside a sequence), "msg", "set"
  seen,         \* the pending_msg value lightbar_task compared with
  chipset,      \* chipset state as announced by the hooks: S5, S3, S0
  hooks,        \* chipset hook calls so far
  host_msgs,    \* host/console requests so far
  brightness,   \* the LED driver's brightness (lb_set_brightness)
  forced,       \* TEST, KONAMI or TAP runs at the brightness it forced
  saved,        \* the brightness that sequence saved, to restore on return
  asked         \* history: the brightness a caller last set

vars == <<cur_seq, prev_seq, pending_msg, event, tpc, seen, chipset, hooks,
          host_msgs, brightness, forced, saved, asked>>

bright_vars == <<brightness, forced, saved, asked>>

(* enum lightbar_sequence, from lightbar_msg_list.h; S5 is number 0 *)
Seqs == {"S5", "S3", "S0", "S5S3", "S3S0", "S0S3", "S3S5", "STOP", "RUN",
         "PULSE", "TEST", "KONAMI", "TAP", "ERROR"}

(* LIGHTBAR_NUM_SEQUENCES, the first number that names no sequence *)
NUM == "NUM"

(* How each sequence function can return.  "endless": only with        *)
(* PENDING_MSG, from a wait(-1) or an endless loop of WAIT_OR_RET.        *)
(* "interruptible": 0 when its waits are over, PENDING_MSG from any      *)
(* WAIT_OR_RET that sees a message.  "uninterruptible": always 0, since   *)
(* usleep() keeps other events pending for the next wait.  The colours   *)
(* each one draws are left out.                                          *)
pulse_google_colors == "interruptible"
sequence_S3S0 == pulse_google_colors   \* then a WAIT_OR_RET ramp, return 0
sequence_S0 == "endless"               \* while (1) { ... WAIT_OR_RET(i); }
sequence_S0S3 == pulse_google_colors   \* a WAIT_OR_RET fade, then the pulse
sequence_S3 == "endless"               \* while (1) { WAIT_OR_RET ... }
sequence_S5S3 == "uninterruptible"     \* usleep(100), "don't return early"
sequence_S3S5 == "endless"             \* WAIT_OR_RET(-1)
sequence_S5 == "endless"               \* WAIT_OR_RET(-1)
sequence_TEST == "interruptible"       \* WAIT_OR_RET(10000) per step
sequence_PULSE == "endless"            \* return TASK_EVENT_CUSTOM(wait(-1))
sequence_RUN == "uninterruptible"      \* return 0
sequence_ERROR == "interruptible"      \* WAIT_OR_RET(10 * SECOND)
sequence_KONAMI == "uninterruptible"   \* usleep() between steps
sequence_TAP == "interruptible"        \* WAIT_OR_RET until display time

Kind == [S3S0 |-> sequence_S3S0, S0 |-> sequence_S0, S0S3 |-> sequence_S0S3,
         S3 |-> sequence_S3, S5S3 |-> sequence_S5S3, S3S5 |-> sequence_S3S5,
         S5 |-> sequence_S5, TEST |-> sequence_TEST, PULSE |-> sequence_PULSE,
         RUN |-> sequence_RUN, ERROR |-> sequence_ERROR,
         KONAMI |-> sequence_KONAMI, TAP |-> sequence_TAP, STOP |-> "stop"]

Endless == {q \in Seqs : Kind[q] = "endless"}
Interruptible == {q \in Seqs : Kind[q] = "interruptible"}
Uninterruptible == {q \in Seqs : Kind[q] = "uninterruptible"}

(* The sequences after which lightbar_task returns to st.prev_seq *)
OneShot == {"TEST", "STOP", "RUN", "ERROR", "KONAMI", "TAP"}

(* The steady sequence a sequence leads to once it is done *)
Target(s) ==
  CASE s = "S5S3" -> "S3" [] s = "S3S0" -> "S0"
    [] s = "S0S3" -> "S3" [] s = "S3S5" -> "S5"
    [] OTHER -> s

(* The sequences that force full brightness and restore the saved one *)
(* when they return.                                                     *)
Forcing == {"TEST", "KONAMI", "TAP"}

Init ==
  /\ cur_seq = "S5" /\ prev_seq = "S5"   \* lightbar_restore_state, no jump tag
  /\ pending_msg = "S5"                  \* a zeroed static
  /\ event = FALSE
  /\ tpc = "seq" /\ seen = "S5"
  /\ chipset = "S5" /\ hooks = 0 /\ host_msgs = 0
  /\ brightness \in Brightness /\ asked = brightness
  /\ forced = FALSE /\ saved = brightness
-----------------------------------------------------------------------------
(***************************************************************************)
(* Callers                                                                 *)
(***************************************************************************)

(* Mutant: the upper bound taken as num <= LIGHTBAR_NUM_SEQUENCES *)
lightbar_sequence_upto_num(num) ==
  IF num # "S5" /\ num \in Seqs \cup {NUM}
    THEN pending_msg' = num /\ event' = TRUE
    ELSE UNCHANGED <<pending_msg, event>>

(* Mutant: the num > 0 test dropped, so S5 (0) is accepted *)
lightbar_sequence_accepts_zero(num) ==
  IF num \in Seqs
    THEN pending_msg' = num /\ event' = TRUE
    ELSE UNCHANGED <<pending_msg, event>>

(* lightbar_sequence(num): keep only the latest request and wake the task *)
lightbar_sequence(num) ==
  IF num # "S5" /\ num \in Seqs
    THEN pending_msg' = num /\ event' = TRUE
    ELSE UNCHANGED <<pending_msg, event>>

(* The chipset hooks lightbar_startup, _resume, _suspend and _shutdown *)
ChipsetHook ==
  /\ hooks < MaxHooks
  /\ hooks' = hooks + 1
  /\ \/ chipset = "S5" /\ chipset' = "S3" /\ lightbar_sequence("S5S3")
     \/ chipset = "S3" /\ chipset' = "S0" /\ lightbar_sequence("S3S0")
     \/ chipset = "S0" /\ chipset' = "S3" /\ lightbar_sequence("S0S3")
     \/ chipset = "S3" /\ chipset' = "S5" /\ lightbar_sequence("S3S5")
  /\ UNCHANGED <<cur_seq, prev_seq, tpc, seen, host_msgs, bright_vars>>

(* LIGHTBAR_CMD_SEQ from the host: passed on as it is *)
lpc_cmd_lightbar_seq ==
  /\ host_msgs < MaxHostMsgs
  /\ host_msgs' = host_msgs + 1
  /\ \E num \in HostSeqs : lightbar_sequence(num)
  /\ UNCHANGED <<cur_seq, prev_seq, tpc, seen, chipset, hooks, bright_vars>>

(* "lightbar seq <num|name>" on the console: an unknown name or number    *)
(* (find_msg_by_name gives NUM) is refused with EC_ERROR_PARAM2.         *)
command_lightbar_seq ==
  /\ host_msgs < MaxHostMsgs
  /\ host_msgs' = host_msgs + 1
  /\ \E num \in HostSeqs :
       IF num = NUM THEN UNCHANGED <<pending_msg, event>>
                    ELSE lightbar_sequence(num)
  /\ UNCHANGED <<cur_seq, prev_seq, tpc, seen, chipset, hooks, bright_vars>>
(* LIGHTBAR_CMD_SET_BRIGHTNESS from the host *)
lpc_cmd_lightbar_brightness ==
  /\ host_msgs < MaxHostMsgs
  /\ host_msgs' = host_msgs + 1
  /\ \E b \in Brightness : brightness' = b /\ asked' = b
  /\ UNCHANGED <<cur_seq, prev_seq, pending_msg, event, tpc, seen, chipset,
                 hooks, forced, saved>>

(* "lightbar brightness <num>": the number is read in hex and cut to its *)
(* low byte.                                                             *)
command_lightbar_brightness ==
  /\ host_msgs < MaxHostMsgs
  /\ host_msgs' = host_msgs + 1
  /\ \E num \in Brightness :
       brightness' = num % 256 /\ asked' = num % 256
  /\ UNCHANGED <<cur_seq, prev_seq, pending_msg, event, tpc, seen, chipset,
                 hooks, forced, saved>>

(* The host command and the console command: the subcommands not listed *)
(* (dump, on, off, init, registers, colours, parameters, version, the    *)
(* reads) drive the LED controller or report, and move none of the       *)
(* state above; DEMO is BatteryLevel's.                                  *)
lpc_cmd_lightbar == lpc_cmd_lightbar_seq \/ lpc_cmd_lightbar_brightness
command_lightbar == command_lightbar_seq \/ command_lightbar_brightness
-----------------------------------------------------------------------------
(***************************************************************************)
(* The lightbar task                                                       *)
(***************************************************************************)

(* sequence_TEST, sequence_KONAMI and sequence_TAP, before their first *)
(* wait: tmp = lb_get_brightness(); lb_set_brightness(255).              *)
sequence_force_brightness ==
  /\ tpc = "seq" /\ cur_seq \in Forcing /\ ~forced
  /\ forced' = TRUE /\ saved' = brightness /\ brightness' = 255
  /\ UNCHANGED <<cur_seq, prev_seq, pending_msg, event, tpc, seen, chipset,
                 hooks, host_msgs, asked>>

(* Mutant: the sequence returns without lb_set_brightness(tmp) *)
restore_brightness_dropped(s) ==
  IF s \in Forcing THEN UNCHANGED brightness /\ forced' = FALSE
                   ELSE UNCHANGED <<brightness, forced>>

(* lb_set_brightness(tmp) as the forcing sequence returns, whether its   *)
(* waits ran out or one of them saw a message.                           *)
restore_brightness(s) ==
  IF s \in Forcing THEN brightness' = saved /\ forced' = FALSE
                   ELSE UNCHANGED <<brightness, forced>>

(* Mutant: the early return after a wait skips lb_set_brightness(tmp)  *)
sequence_interrupted_no_restore ==
  /\ tpc = "seq" /\ event
  /\ cur_seq \in Endless \cup Interruptible
  /\ cur_seq \in Forcing => forced
  /\ event' = FALSE
  /\ tpc' = "msg"
  /\ forced' = FALSE
  /\ UNCHANGED <<cur_seq, prev_seq, pending_msg, seen, chipset, hooks,
                 host_msgs, saved, asked, brightness>>

(* A wait inside the running sequence returns with PENDING_MSG pending: *)
(* WAIT_OR_RET (or sequence_PULSE's wait) returns PENDING_MSG.          *)
sequence_interrupted ==
  /\ tpc = "seq" /\ event
  /\ cur_seq \in Endless \cup Interruptible
  /\ cur_seq \in Forcing => forced
  /\ event' = FALSE
  /\ tpc' = "msg"
  /\ restore_brightness(cur_seq)
  /\ UNCHANGED <<cur_seq, prev_seq, pending_msg, seen, chipset, hooks,
                 host_msgs, saved, asked>>

(* sequence_STOP: each wake-up consumes the events; only a PENDING_MSG   *)
(* wake-up with pending_msg = RUN makes it return 0, then the task goes  *)
(* back to st.prev_seq.                                                  *)
sequence_STOP ==
  /\ tpc = "seq" /\ cur_seq = "STOP" /\ event
  /\ event' = FALSE
  /\ IF pending_msg = "RUN"
       THEN cur_seq' = prev_seq
       ELSE UNCHANGED cur_seq
  /\ UNCHANGED <<prev_seq, pending_msg, tpc, seen, chipset, hooks, host_msgs,
                 bright_vars>>

(* The sequence returns 0 and lightbar_task's switch picks the next one. *)
(* An interruptible sequence gets there only if none of its waits saw a  *)
(* message; an uninterruptible one leaves the event for the next wait.   *)
(* Mutant: the LIGHTBAR_S0S3 case missing from the switch *)
AfterDone_no_S0S3(s, p) ==
  CASE s = "S5S3" -> "S3" [] s = "S3S0" -> "S0"
    [] s = "S3S5" -> "S5"
    [] s \in OneShot -> p
    [] OTHER -> s

AfterDone(s, p) ==
  CASE s = "S5S3" -> "S3" [] s = "S3S0" -> "S0"
    [] s = "S0S3" -> "S3" [] s = "S3S5" -> "S5"
    [] s \in OneShot -> p
    [] OTHER -> s

sequence_done ==
  /\ tpc = "seq"
  /\ \/ cur_seq \in Interruptible /\ ~event
     \/ cur_seq \in Uninterruptible
  /\ cur_seq \in Forcing => forced
  /\ cur_seq' = AfterDone(cur_seq, prev_seq)
  /\ restore_brightness(cur_seq)
  /\ UNCHANGED <<prev_seq, pending_msg, event, tpc, seen, chipset, hooks,
                 host_msgs, saved, asked>>

(* if (st.cur_seq != pending_msg): a message naming the running sequence *)
(* just restarts it.                                                     *)
lightbar_task_msg ==
  /\ tpc = "msg"
  /\ seen' = pending_msg
  /\ tpc' = IF cur_seq # pending_msg THEN "set" ELSE "seq"
  /\ UNCHANGED <<cur_seq, prev_seq, pending_msg, event, chipset, hooks,
                 host_msgs, bright_vars>>

(* Mutant: the two assignments swapped, prev_seq takes the new sequence *)
lightbar_task_switch_swapped ==
  /\ tpc = "set"
  /\ cur_seq' \in {seen, pending_msg}
  /\ prev_seq' = cur_seq'
  /\ tpc' = "seq"
  /\ UNCHANGED <<pending_msg, event, seen, chipset, hooks, host_msgs,
                 bright_vars>>

(* st.prev_seq = st.cur_seq; st.cur_seq = pending_msg.  pending_msg is   *)
(* neither volatile nor locked and a higher-priority caller may change   *)
(* it after the comparison: the build either reuses the value it         *)
(* compared or loads it again.                                           *)
lightbar_task_switch ==
  /\ tpc = "set"
  /\ prev_seq' = cur_seq
  /\ cur_seq' \in {seen, pending_msg}
  /\ tpc' = "seq"
  /\ UNCHANGED <<pending_msg, event, seen, chipset, hooks, host_msgs,
                 bright_vars>>
-----------------------------------------------------------------------------
LightbarTask ==
  \/ sequence_force_brightness \/ sequence_interrupted \/ sequence_STOP \/ sequence_done
  \/ lightbar_task_msg \/ lightbar_task_switch

Next ==
  \/ ChipsetHook \/ lpc_cmd_lightbar \/ command_lightbar
  \/ LightbarTask

(* The lightbar task runs whenever it is ready: the callers only run for  *)
(* a bounded time, and a sequence's timed waits expire.  No caller is     *)
(* obliged to call.                                                      *)
Spec == Init /\ [][Next]_vars /\ WF_vars(LightbarTask)
-----------------------------------------------------------------------------
TypeOK ==
  /\ cur_seq \in Seqs /\ prev_seq \in Seqs /\ pending_msg \in Seqs
  /\ seen \in Seqs /\ event \in BOOLEAN
  /\ tpc \in {"seq", "msg", "set"}
  /\ chipset \in {"S5", "S3", "S0"}
  /\ hooks \in 0..MaxHooks /\ host_msgs \in 0..MaxHostMsgs
  /\ brightness \in 0..255 /\ saved \in 0..255 /\ forced \in BOOLEAN

(* The chipset states a sequence belongs to *)
Shows(c) == IF c = "S5" THEN {"S5", "S3S5"} ELSE {c}

(* Whenever the task is inside a sequence with no message waiting, that  *)
(* sequence is the chipset's current state or the transition into it:   *)
(* no hook's message is lost or applied out of order, however the hooks  *)
(* and the task's steps interleave.                                      *)
LightbarTracksChipset ==
  tpc = "seq" /\ ~event => Target(cur_seq) = chipset

(* Once the callers stop, the lightbar settles on the sequence of the    *)
(* chipset's state and stays there.                                      *)
LightbarSettles == <>[](cur_seq \in Shows(chipset))

(* A one-shot sequence that ends by itself (TAP, KONAMI, TEST, RUN,      *)
(* ERROR; STOP waits for RUN by design) eventually gives way to one that *)
(* is not one-shot: the TODO in sequence_TAP_inner says the task must    *)
(* not end up stuck in TAP, whatever message interrupts it.              *)
OneShotEnds ==
  (cur_seq \in OneShot \ {"STOP"}) ~> (cur_seq \notin OneShot)

(* Outside TEST, KONAMI and TAP the brightness is one a caller set, never *)
(* the 255 those sequences force: each of them restores what it saved,   *)
(* whether it ends or a message cuts it short, however the host's         *)
(* requests and the chipset hooks interleave with it.                     *)
BrightnessNotLeftForced ==
  ~forced => brightness \in Brightness

(* Outside TEST, KONAMI and TAP the brightness is the one a caller last   *)
(* set.                                                                  *)
BrightnessKept ==
  ~forced => brightness = asked
=============================================================================
