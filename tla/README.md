# TLA+ models of the Chromium EC sources in this repository

This directory holds TLA+ specifications of parts of the embedded controller
firmware under `src/`, and the TLC configurations that check them.
`PROJECT.json` records the components, the runs and their expected outcomes,
the mutants that show each property can fail, the map from every definition to
the source lines it models, the findings and the hazards.

## 1. The system

The repository holds 23 files. Each row gives the part's state, its operations and what it interacts with.

| Part | Source | State | Operations | Interacts with |
|---|---|---|---|---|
| x86 Baytrail power sequencing | `src/src/power/baytrail.c` | the power state (4 steady, 6 transitional), output GPIOs (PWROK, RSMRST#, rail enables, PROCHOT, RCIN#, touch lines), `throttle_cpu`, `pause_in_s5`, `restart_from_s5`, `fake_pltrst_timeout` | `power_chipset_init`, `power_handle_state` (one case per state), `chipset_force_shutdown`, `chipset_reset`, `chipset_throttle_cpu`, the `pause_in_s5` host command and console command, the `powerfail` console command | the common power loop (not in `src/`), rail regulators, the PCH's SLP_S3#/SLP_S4#/PLTRST#, other tasks (thermal, power button, host commands), and the hooks it notifies |
| UART buffering | `src/src/common/uart_buffering.c` | TX/RX circular buffers, head/tail indices, console snapshot indices, `uart_suspended` | `uart_putc`/`__tx_char`, `uart_process_output` (DMA and byte-wise), `uart_process_input` with XOFF/XON, `uart_getc`, `uart_flush_output`, console snapshot/read host commands | the UART interrupt and the console task |
| Lightbar | `src/src/common/lightbar.c` | current sequence, `pending_msg`, LED colour state, saved parameters | the lightbar task's sequence loop, `lightbar_sequence`, the host/console commands, chipset hooks | the chipset hooks from the power state machine, the host |
| Motion sense | `src/src/common/motion_sense.c` | accelerometer samples, lid angle, LPC memory-map block with a busy bit and a sample id, sample rate | the motion-sense task loop, the chipset hooks, console commands | the host through the LPC memory map, the chipset hooks |
| G781 temperature sensor | `src/src/drivers/temp_sensor/g781.c` | last local/remote temperature | `temp_sensor_poll` (each second), `g781_get_val`, console commands | I2C |
| STM32 32-bit timer | `src/src/chip/stm32/hwtimer32.c` | counter, overflow and event deadline | `__hw_clock_event_set`, the overflow/update interrupt, `__hw_clock_source_init` | the timer core |
| BQ27541 battery gauge | `src/src/driver/battery/bq27541.c` | none beyond registers | register reads with unit conversion | I2C |
| Panic output, chip support (STM32 ADC/GPIO/system/USB, IT83xx GPIO/IRQ/JTAG, MEC1322 clock), board tables (slippy, bds, mec1322_evb), headers (`i2c.h`, `cpu.h`, `link_defs.h`), `util/iteflash.c` | | register setup tables, output formatting, host-side flashing | | |

The hard behaviours, the ones a test rarely reaches, are these:

- **Baytrail.**
  - The power task sleeps at six places inside one call of `power_handle_state`. Meanwhile other tasks call `chipset_force_shutdown`, `chipset_reset` and `chipset_throttle_cpu`, or change `pause_in_s5` and `fake_pltrst_timeout`.
  - Rails may fail at any time, and the PCH moves on its own.
  - Every wait has a timeout and a rollback.
  - The PLTRST# timeout starts a multi-state restart chain.
- **UART buffering.**
  - The task and the interrupt share indices.
  - Buffers can be full.
  - The console snapshot is taken while output continues.
- **Lightbar.** A single message slot is overwritten before the task reads it.
- **Motion sense.** The host reads the shared block while it is being rewritten. The console ids have an off-by-one bound.
- **G781.** A failed I2C read converts a stale value again.

## 2. Plan

Modules, in the order they are built:

1. `PowerAbstract`: the power-state transition table of the common power code. It has one variable, `state`, and one action that follows an edge. Weak fairness on leaving a transitional state. *(done)*
2. `BaytrailPower`: `baytrail.c` with its environment. *(done)*
3. `MCBaytrailPower`: constants for TLC, and the refinement `BaytrailPower` ⇒ `PowerAbstract`. *(done)*
4. `UartBuffer` and `MCUartBuffer`: the TX ring (printers that preempt one another, the interrupt consumer, the snapshot reader) and the RX ring with XOFF/XON. *(done)*
5. `UartTxFifo`: the transmit queue the ring promises, refined by `UartBuffer` through `INSTANCE ... WITH queue <- Pending, out <- wire`. *(done)*
6. `LightbarTask` and `MCLightbarTask`: the `pending_msg` handoff between the chipset hooks, the host and console commands and the task loop. It assumes the hook order that `BaytrailPower`'s `HookOrder` checks. *(done)*
7. `BatteryLevel` and `MCBatteryLevel`: the battery level the lightbar shows, with its hysteresis. *(done)*
8. `MotionSense` and `MCMotionSense`: the busy-bit and `sample_id` writer against a host reader. *(done)*
9. `MotionSenseRate` and `MCMotionSenseRate`: the sampling interval and the sensor ids the commands hand the driver. *(done)*
10. `G781Poll` and `MCG781Poll`: the once-a-second poll and its Kelvin conversion, with I2C reads that fail. *(done)*
11. `Hwtimer32`: 32-bit counter wrap and event deadlines. *(not done; see section 6)*

## 3. What is modelled

### `PowerAbstract`

- **State:** the power state.
- **`Edge`:** every transition `power_handle_state` can return, read off the code.
- **`Init`:** G3 or S0, the two states `power_chipset_init` returns.
- **`Spec`:** follows edges, and every transitional state is eventually left (the common loop calls the handler again right away for those).

### `BaytrailPower`

**Variables.**

- `state`: the state the common power loop stores.
- `pc`: where the chipset task is blocked inside the handler. `"idle"` means between calls.
- `gpio`: the 12 output lines.
- `wireless`: the last `wireless_set_state`.
- `sleep_ap_run`: the SLEEP_MASK_AP_RUN deep-sleep mask.
- `hook`: the last `hook_notify`, with a parity bit so that two identical notifications are distinct steps.
- The four statics of `baytrail.c`.
- The environment:
  - `pgood`: the rails' power-good signals.
  - `pch`: the level of the PCH's SLP# lines.
  - `pwrbtn_req`: a pending power-button press at the PCH.
  - `want_g3_exit`: the common loop's request to leave G3.
  - `rcin_holders`: warm-reset callers inside their RCIN# pulse.
- Two history variables:
  - `throttle_req`: the last throttle level requested.
  - `forced`: a force shutdown by another task, with no power-button press since.

**Actions of the chipset task.** There is one action per stretch of a handler between blocking points. The stretches, and where each one ends:

| State | Actions |
|---|---|
| G3S5 | `G3S5_enable` (ends in the wait for PGOOD_S5), `G3S5_good`, `G3S5_timeout` |
| S5S3 | `S5S3_always_on`, `S5S3_always_on_timeout` (the first wait happens while `pc = "idle"`), `S5S3_good`, `S5S3_timeout` |
| S3S0 | `S3S0_pp5000` (usleep 3 ms), `S3S0_rails` (wait for the S0 rails), `S3S0_good` (msleep 15), `S3S0_timeout`, `S3S0_pwrok` (PLTRST# poll), `S3S0_pltrst` |
| S0S3 | `S0S3_core_off` (msleep 7), `S0S3_rails_off` |
| S3S5 | `S3S5_rails_off` (msleep 100 when restarting), `S3S5_restart` |
| S5G3 | `S5G3_off` |
| Steady states | `HandleG3`, `HandleS5`, `HandleS3`, `HandleS0` |

Details of individual actions:

- A sleep that ends a call just before its `return` is merged into the return.
- A `power_wait_signals` is an action pair: `_good` when the signals are present, and `_timeout` when they are absent. A timeout can happen only while a signal is missing.
- `lid_is_open()` and `usb_charge_ports_enabled()` are free inputs.

**Other tasks.**

- `ExternalForceShutdown`.
- `chipset_reset_cold`: ignored while PWROK is low (line 84). Otherwise PWROK goes low for a 100 µs busy-wait and ends high again (88-90), which reboots the PCH, which then powers up. The pulse is one step. Without the guard at 84 the pulse would raise a low PWROK, and `PwrokRequiresRails` fails.
- `chipset_reset_warm_begin` and `chipset_reset_warm_end`: the 32 ms sleep splits the call in two.
- `chipset_throttle_cpu`.
- `host_command_gsv` and `console_command_gsv`.
- `console_command_powerfail`.
- `PowerButtonPress`.

**Hardware.**

- A rail's power-good follows its enable (`RailSettle`) or drops while enabled (`RailFault`).
- The PCH leaves S5 only after a power-button press, wakes from S3 on its own, sleeps on its own, and falls to S5 while RSMRST# is low or its suspend well is down.

**Not in `src/`, modelled from what the code relies on:**

- the common power loop (`Return`, `Block`, `HandleG3`'s exit request);
- `power_has_signals`;
- `chipset_in_state`;
- `hook_notify`;
- `gpio_set_level`;
- the PCH and the regulators.

`PROJECT.json` marks these `spec_modelled`.

### `MCBaytrailPower`

Constants for TLC, and `PowerAbstractSpec == Abstract!Spec`, where `Abstract == INSTANCE PowerAbstract`. The refinement mapping is the identity on `state`.

### `UartBuffer`

Models `uart_buffering.c` as built without `CONFIG_UART_RX_DMA`, with or without `CONFIG_UART_TX_DMA`. The transmit build is the variable `tx_dma`, chosen in `Init` from the constant `TxDmaBuilds` and never changed, so one run checks both builds.

- **State.** `tx_buf`, `rx_buf` and their head/tail indices, `tx_snapshot_head/tail` and `uart_suspended` are the file's statics. `tx_int` is whether the transmit interrupt is enabled (`uart_tx_start`/`uart_tx_stop`).
- **Contexts.** Each printing context in `Writers` has a program counter `wpc[w]`, the text it is printing and its queue of calls `wcalls[w]` (`puts` or `flush`). The host-command task has `hpc`, the console task reads input.
- **Preemption.** `stack` holds the contexts that are running or preempted, innermost last. A context may start only if its priority `Prio[c]` is above every context on the stack (`CanStart`), and only the innermost one steps (`Running`). This is fixed-priority scheduling with interrupts above tasks.
- **The UART interrupt** is taken as the highest priority, so `uart_process_output` and `uart_process_input` are atomic steps. `uart_process_output` sends any number k ≥ 1 of the pending bytes in one step, because the hardware FIFO's room is not modelled. `uart_process_input` takes one received byte of the constant `RxLine` per step.
- **`CONFIG_UART_TX_DMA`.** `uart_process_output_dma` is the DMA `uart_process_output`. It does nothing while suspended or while the DMA is busy (`dma_busy`). Otherwise it frees the previous transfer's `tx_dma_in_progress` slots, stops the interrupt if the ring is now empty, or starts a transfer of the contiguous block up to `tx_buf_head` or the end of the ring (`DmaBlock`). `uart_tx_dma_done` is the DMA engine finishing. It puts the bytes it read from the ring on the wire, reading them at completion, so a store into those slots during the transfer would show up on the wire. The slots stay in the ring until the next `uart_process_output`, so the bytes waiting to be sent (`Pending`) skip the `SentUnfreed` bytes of a finished transfer.
- **`__tx_char`** is three steps, because another printer can run between them:
  - `tx_char_check`: compute `tx_buf_next` and drop the byte if the ring is full;
  - `tx_char_store`: `tx_buf[tx_buf_head] = c`, with `tx_buf_head` read again (it is `volatile`);
  - `tx_char_advance`: `tx_buf_head = tx_buf_next`.
  - A newline first goes through the same three steps as its own `'\r'` byte, `CR(c)`.
- **`uart_flush_output`** checks `uart_suspended` once on entry and records in `flush_mark[w]` how many bytes had been accepted. From task context, `flush_loop` then calls `uart_tx_start` until the ring is empty, and may spin forever. From interrupt context (the writers in `IrqWriters`), `flush_process_output` calls `uart_process_output` itself: the body `OutputFifo` or `OutputDma` the interrupt also runs, without the interrupt-enable guard. That call does nothing while suspended or while the DMA is busy, and the loop spins.
- **Console snapshot and read** are modelled one loop iteration per step (`snapshot_skip`, `console_read_copy`), because a printer may preempt the host task between iterations.
- **History variables.**
  - `accepted`: the bytes for which `__tx_char` returned 0.
  - `wire`: the bytes sent.
  - `rx_stored`: the bytes buffered by the receive interrupt.
  - `got`: the bytes `uart_getc` returned.
  - `snap_ref`: the last `TX_BUF_SIZE - 1` accepted bytes at the last snapshot.
  - `read_all`: the bytes the reads since then returned.
  - `dirty`: whether a printer stored a byte after the snapshot. The source comment accepts "a bit of garbage" in that case.
- **Termination.** The calls and `RxLine` are finite. `Terminated` is the stuttering step once every writer has finished and every byte has arrived, so deadlock is still checked everywhere else.

`MCUartBuffer` gives the constants:

- a 4-byte TX ring (3 usable bytes), so a second line overflows;
- a 2-byte RX ring (1 usable byte), so input is dropped;
- `RESPONSE_MAX = 3`, so a read returns 2 bytes and must resume;
- at most 3 host commands;
- `MCRxLine = x, XOFF, y, XON`;
- `TxDmaBuilds = BOOLEAN`, both transmit builds (the race and flush configurations keep `{FALSE}`);
- `IrqWriters = {"irq"}`, the interrupt handler that prints in the race configuration and flushes in the passing one.

### `UartTxFifo`

The promise of the transmit side, with no ring in it.

- **State:** `queue`, the accepted bytes not yet sent, and `out`, the bytes sent.
- **`Accept`** appends one byte. **`Send`** moves one or more bytes from the front of the queue to `out`.
- **`Spec`** has weak fairness on `Send`: no queued byte waits for ever.

`MCUartBuffer` instantiates it with `queue <- Pending` (the bytes from `tx_buf_tail` to `tx_buf_head`, less those a finished DMA transfer already sent) and `out <- wire`, and checks `UartTxFifoSpec == Fifo!Spec` as a property. A store into a slot that is still pending, or a byte that never leaves the ring, breaks it.

### `LightbarTask`

Models the control of `lightbar.c`: which sequence runs and why it changes, and the brightness. The animations are not modelled.

- **State.** `cur_seq` and `prev_seq` (`st.cur_seq`, `st.prev_seq`), `pending_msg`, `event` (the task's PENDING_MSG bit), the task's position `tpc`, and `seen`, the value of `pending_msg` the task compared. The environment is `chipset` (the last hook's state) and two call counters.
- **Sequences.** Each sequence function is reduced to how it can return, read off its code:
  - *endless*: it returns only with PENDING_MSG (S0, S3, S3S5, S5, PULSE);
  - *interruptible*: 0 when done, or PENDING_MSG from any `WAIT_OR_RET` that sees a message (S3S0, S0S3, TEST, ERROR, TAP);
  - *uninterruptible*: always 0, because `usleep` leaves the event pending (S5S3, RUN, KONAMI);
  - STOP, which ignores every message but RUN.
- **Callers.**
  - `lightbar_sequence` keeps the latest request in `pending_msg` and refuses 0 and numbers ≥ `LIGHTBAR_NUM_SEQUENCES`.
  - `ChipsetHook` runs the four hooks along S5 → S3 → S0 → S3 → S5, the order `HookOrder` checks in `BaytrailPower`.
  - `lpc_cmd_lightbar_seq` and `command_lightbar_seq` take a number from `HostSeqs`. The console refuses `NUM`.
  - `lpc_cmd_lightbar_brightness` and `command_lightbar_brightness` set the driver's brightness to a value from `Brightness` (the console cuts its hex number to a byte). `lpc_cmd_lightbar` and `command_lightbar` are these two subcommands each; the others drive or report the LED controller and move no modelled state.
  - All callers run at a higher priority than the task, so they may interleave between any two of its steps.
- **Task actions.**
  - `sequence_force_brightness`: TEST, KONAMI and TAP save the brightness and set 255 before their first wait.
  - `sequence_interrupted`: a wait returns PENDING_MSG. TEST and TAP restore the saved brightness as they return (`restore_brightness`: the `lb_set_brightness(tmp)` at line 627 for TEST, 777 for KONAMI and 879-885 for TAP).
  - `sequence_STOP`.
  - `sequence_done`: the sequence returns 0 and `AfterDone` is the switch at lines 926-948. TEST, KONAMI and TAP restore the brightness.
  - `lightbar_task_msg`: the comparison with `pending_msg`.
  - `lightbar_task_switch`: the two assignments.
- **Brightness.** `brightness` is the LED driver's value (the `lb_*` driver is not in the repository; it is taken to keep the value last set). `forced` and `saved` are the sequence's state between its save and its restore, and the history variable `asked` is the value a caller last set.
- **The data race.** `pending_msg` is neither volatile nor locked. The new `cur_seq` is therefore either the value compared or a newer one that a caller stored in between.

`MCLightbarTask` gives the sets of host requests and brightness values each run uses.

### `G781Poll`

- **State.** `temp_val_local` and `temp_val_remote`; the sensor's two temperature registers (bytes from `Raw`) and one limit register; `power`, the sensor's power GPIO; the poll's position `ppc`; the history variable `got`, the last answer of `g781_get_val`.
- **Actions.**
  - `Sensor`: the sensor measures again, or its rail is switched, at any time.
  - `temp_sensor_poll`: the `has_power` check. Then one action per line: `temp_sensor_poll_local` (88, `get_temp` stores the Celsius reading or leaves the old value), `temp_sensor_poll_local_k` (89, `C_TO_K`), and the same pair for the remote sensor (91, 92).
  - `get_temp`: the `(int8_t)` cast of the byte read (`Int8`) when the read succeeds; the old value when it fails. A read fails when the rail is off and may fail on the bus while it is on.
  - `g781_get_val`, called by the thermal code from another task, with both indexes and an unknown one.
  - `command_g781`: `settemp` (with `set_temp`'s range check and `uint8_t` cast) and `setbyte` on the limit register, or a read only.
- **Interleaving.** `temp_sensor_poll` runs in the hook task. `g781_get_val` is also reached from the console and host command tasks, through the board's sensor table outside `src/`. Those tasks have higher priority and can preempt the hook task at any line. So readers and the rail may act between any two of the poll's lines, including between a `get_temp` and its `C_TO_K`. Each store of an `int` is one step.
- **Bounds.** `MCG781Poll` has the bytes 25 (25 °C) and 0xf6 (-10 °C), two polls (a failed read after a good one) and two commands. The violation is found within a few hundred states.

### `BatteryLevel`

- **State:** `st.battery_level`, `st.battery_percent` and `demo_mode`. The battery's real charge, `charge`, is the environment: it is what `charge_get_percent()` returns and is kept apart from the program's copy `st.battery_percent`, which demo mode overwrites. History variables record the charge at the last reading (`read_at`), the last level change (its direction and the charge), and whether demo mode has ever been on (`demo_used`).
- **Actions:**
  - `get_battery_level`: `st.battery_percent = charge`, then the hysteresis `NewLevel`;
  - `demo_battery_level`: step ±1, clamp, quantize;
  - `lpc_cmd_lightbar_demo` (also the console's `lightbar demo on|off`);
  - `battery_charge`: the charge moves 1%. Outside demo mode it stays within `MaxStep` of the last reading, because the S0 and S3 sequences read it at every tick. In demo mode nothing reads it, so it may drift any distance.
- `quantize_battery_level` counts the thresholds reached. `MCThreshold` is the default `battery_threshold` (14, 40, 99).

### `MotionSense`

- **The task.** `motion_sense_task` is five actions:
  - `motion_sense_task_init`: both `accel_init`s, then the presence bit, or the task ends;
  - `motion_sense_read`: the sensor reads, the lid angle and the rotations, which make a new sample;
  - `motion_sense_set_busy`;
  - `motion_sense_write_word`: one per word of `lpc_data`;
  - `motion_sense_publish`: `sample_id = (sample_id + 1) & 0x0f` stored with the presence bit.
  - The status byte is an integer, updated with `|` and `&` from `Bitwise`.
- **The host.** The host side is not in the repository. Its read follows the comment at lines 252-258 of `motion_sense.c`:
  - read the status and retry while busy;
  - copy the words;
  - keep the copy only if the status is unchanged.
- **Data.** It is abstracted to sample numbers: each word holds the number of the sample that wrote it.
- **History variables.** `hstart` is the number of samples published when the host read the status. `last` is the last copy kept.
- **Bounds.** `MCMotionSense` uses 2 words (enough to tear), 17 samples (so one read can span 16 publications and see the same id) and 2 reads. That gives about 460,000 states.

### `MotionSenseRate`

- **State.** `accel_interval_ms`, `accel_interval_ap_on_ms`, the AP's state `ap`, and where the task is (`tpc`: init, running, stopped). Three history variables:
  - `rate_by`: who last wrote `accel_interval_ms` (the task, a hook, the host or the console);
  - `host_rate`: the raw `data` of the last `EC_RATE` (the default 10 before any);
  - `drv_id`: the last sensor id handed to the accelerometer driver.
- **Actions.**
  - `motion_sense_task_init`: both `accel_init`s, then the suspend interval (line 212) and the default settings of `ACCEL_BASE`, or the task ends.
  - `set_ap_suspend_polling` and `set_ap_on_polling`: the chipset hooks, which also move `ap`.
  - `host_cmd_motion_sense`: one action per group of subcommands. `host_cmd_ec_rate` clamps `data` to 5..1000 and sets both intervals. `host_cmd_sensor_setting` (ODR, RANGE) maps the host's sensor id with `host_sensor_id_to_ec_sensor_id` and refuses an unknown one. The rest (DUMP, INFO, KB_WAKE_ANGLE, bad commands) change no modelled state. Host commands come only while the AP is on, since the AP waits for each answer.
  - `command_ctrl_print_lid_angle_calcs` (`lidangle on <ms>`), `command_accel_setting` (`accelrange`, `accelres`, `accelrate`, which share the check `id < 0 || id > ACCEL_COUNT`) and `command_accelerometer_interrupt` (`accelint`, which checks `id >= ACCEL_COUNT`).
- **Init.** Either AP state: after a sysjump the new image's task starts with the AP already on, and no resume hook follows.
- **Bounds.** `MCMotionSenseRate` has `EC_RATE` data of no value, below, within and above the bounds, the console ids -1, 0, 1 and 2, 3 commands and 4 hooks. So an `EC_RATE`, a suspend and a resume come in every order around the task's start. That gives about 2,200 states.

## 4. Runs

| Run | cfg | Expect | Checks |
|---|---|---|---|
| power_safety | `MCBaytrailPower.cfg` | pass | `TypeOK`; `PwrokRequiresRails` (either PWROK high ⇒ all five AP rails enabled); `DeepSleepMatchesAp` (between calls, deep sleep is disabled exactly in S0/S0S3); `HookOrder` (chipset hooks follow STARTUP (RESUME SUSPEND)* SHUTDOWN) |
| power_liveness | `MCBaytrailPowerLive.cfg` | pass | `PowerAbstractSpec` (refinement, including every transitional state resolving); `RestartHappens` (restart_from_s5 = 1 leads to G3S5) |
| forced_shutdown_restart | `MCBaytrailPowerForcedRestart.cfg` | violation | `NoRestartAfterForcedShutdown` |
| uart_buffer | `MCUartBuffer.cfg` | pass | `TypeOK`; `TxAccounted` (accepted = sent ++ bytes from tail to head); `RxAccounted` (buffered = returned by `uart_getc` ++ bytes from tail to head); `ConsoleReadFaithful` (with no store since the snapshot, the reads return a prefix of the last `TX_BUF_SIZE - 1` bytes accepted when it was taken); `UartTxFifoSpec` (the ring refines the transmit FIFO, and every pending byte is sent); `FlushDrains` (a flush returns only once every byte accepted before it is on the wire) |
| uart_tx_race | `MCUartBufferRace.cfg` | violation | `TxAccounted`, with a task and an interrupt handler both printing |
| lightbar_hooks | `MCLightbarTask.cfg` | pass | `TypeOK`; `LightbarTracksChipset` (inside a sequence with no message waiting, the sequence is the chipset's state or the transition into it); `LightbarSettles` (the lightbar ends on the chipset's sequence), with host requests that must be refused (0 and `NUM`) |
| lightbar_stop_run | `MCLightbarTaskStop.cfg` | pass | `BrightnessNotLeftForced` (outside TEST, KONAMI and TAP the brightness is one a caller set, never the forced 255, whether the sequence ended or a message cut TEST or TAP short at a `WAIT_OR_RET`), with the host sending STOP, RUN, TEST, TAP and KONAMI and setting the brightness |
| lightbar_oneshot_stuck | `MCLightbarTaskOneShot.cfg` | violation | `OneShotEnds`, with the host sending TAP and KONAMI |
| battery_level | `MCBatteryLevel.cfg` | pass | `TypeOK`; `LevelWithinOne` (until demo mode is first turned on, the level is never more than one band from the last reading's); `NoFlicker` (a level change is undone only after the charge moves 2% back) |
| motion_sense_lpc | `MCMotionSense.cfg` | pass | `TypeOK`; `SnapshotConsistent` (a read the host keeps is one whole sample, the one published when it began, unless 16 samples were published during it) |
| motion_sense_rate | `MCMotionSenseRate.cfg` | pass | `TypeOK`; `RateFollowsChipset` (once a hook or `EC_RATE` has set the interval, it is the one for the AP's state, and a resume restores the bounded rate the host last asked for) |
| g781_stale_kelvin | `MCG781Poll.cfg` | violation | `ReportedKelvin` (every temperature `g781_get_val` reports is the Kelvin value of a reading) |

What the violations show:

- **forced_shutdown_restart.** A force shutdown from another task does not keep the system off until G3, contrary to the comment in `chipset_force_shutdown`. It can arrive during S3S0, after which PWROK is re-raised over RSMRST# low, PLTRST# times out and `restart_from_s5` is set. Or it can arrive during S3S5's `msleep(100)`. Either way, S3S5 pulses the power button and goes to G3S5.
- **uart_tx_race.** `__tx_char` takes no lock. An interrupt handler that prints after the task's store (line 73) and before its head update (line 74) writes its own byte into the same slot. The task's byte is lost, yet `__tx_char` returned 0 ("transmitted") and `uart_puts` reports success.
- **lightbar_oneshot_stuck.** KONAMI arrives while TAP runs. `lightbar_task` sets `prev_seq = TAP` (line 921). When KONAMI ends, TAP runs again, and when TAP ends `cur_seq = prev_seq = TAP`, so TAP repeats for ever. The TODO in `sequence_TAP_inner` says this must not happen.

- **g781_stale_kelvin.** `temp_sensor_poll` ignores the result of `get_temp`. A failed read leaves the Kelvin value in place and line 89 adds 273 again, so each failure adds 273 K. A failure on the first poll turns the zeroed static into 273 K, which looks like a real 0 °C. The rail switched off after the `has_power` check is enough to make a read fail. The shortest trace is a second bug: a reader that preempts the poll between line 88 and line 89 gets the raw Celsius value (25) as a Kelvin temperature.

**Further configurations** reproduce violations that are recorded as hazards rather than runs:

- `MCBaytrailPowerG3Levels.cfg` (`G3LinesAtG3Level`): an S5S3 failure after `PP1350_EN` was turned on reaches G3 with RAM power still enabled.
- `MCBaytrailPowerWarmReset.cfg` (`WarmResetPulseHeld`, two reset callers): two overlapping warm resets cut the second RCIN# pulse short.
- `MCLightbarTaskTap.cfg` (`LightbarSettles`, the host sending TAP): a TAP that overwrites a hook's pending message leaves the lightbar, after TAP, on the sequence of the chipset's old state.
- `MCBaytrailPowerProchot.cfg` (`ProchotFollowsThrottle`): a throttle request made outside S0 is lost, because S3S0 restores PROCHOT from `throttle_cpu`, which nothing writes.
- `MCMotionSenseRateSysjump.cfg` (`TaskRateFollowsChipset`): a task that starts with the AP already on (after a sysjump) samples at the 100 ms suspend interval until the next suspend and resume.
- `MCMotionSenseRateConsole.cfg` (`DriverGetsSensorId`): `accelrange 2` (and `accelres`, `accelrate`) pass the check `id > ACCEL_COUNT` and hand the driver sensor id 2, one past the last.
- `MCUartBufferFlush.cfg` (`FlushReturns`, the host sending XOFF and never XON): `uart_flush_output` ignores a flush when suspended, but only checks that on entry. An XOFF received while it waits for the ring to drain stops the drain, and the loop spins until an XON arrives.
- `MCLightbarTaskBrightness.cfg` (`BrightnessKept`): the host sets the brightness while KONAMI runs, and KONAMI's restore puts back the value it saved on entry.
- `MCBatteryLevelDemo.cfg` (`LevelNear`, `LevelWithinOne` without its demo guard): demo mode's keys take the level to 0 at 10%. The real charge is 40% when demo mode is turned off. The reading of 40% sits on `battery_threshold[1]`, so the rise needs 41% and the lightbar shows level 0 where the charge quantizes to 2.
- `MCBatteryLevelJump.cfg` (`LevelWithinOne`, readings that jump): 100% then 0% then 40% leaves the level at 0 while the charge quantizes to 2, because the rise is tested only against `battery_threshold[bl-1]`.

Each property of a passing run has a mutant in `PROJECT.json`: a plausible bug in one mapped action that TLC catches under that run's config.

**Bounds and why they are enough.**

- The power model needs no counters beyond `rcin_holders` (≤ `ResetCallers`). The state space is finite because the data is abstract:
  - levels are 0/1;
  - the PCH has three levels;
  - `throttle` and `pause_in_s5` take 0/1, since the code only tests `pause_in_s5` for zero.
- **power_safety** uses two warm-reset callers (the smallest number with an overlap) and the USB-in-S3 option on (both S0S3 branches). It reaches about 780,000 distinct states.
- **power_liveness** turns the option off and drops warm resets, which never change the power state. This keeps the temporal check within a few minutes.
- **uart_buffer** has one printing task making the calls `puts("a\n")`, `flush`, `puts("b")`, and an interrupt handler that makes one `flush` at any point. The first line fills the three usable slots. An XOFF before the task's flush makes the flush return at once, and the `b` then finds the ring full and is dropped. Otherwise the ring wraps. The XOFF in `RxLine` lands before, during or after any of the calls. With both transmit builds it reaches about 500,000 distinct states in under 90 seconds; most of the time goes to the liveness part of `UartTxFifoSpec`. A second printer gives the race, which `uart_tx_race` shows; with two printers `TxAccounted` cannot hold.
- **lightbar_hooks** allows 8 hooks, two full S5 → S0 → S5 cycles, so every hook message can overwrite another that is still pending, and the task can be anywhere in a sequence when it arrives. The two refused host requests check the guard of `lightbar_sequence`. **lightbar_stop_run** allows 3 host requests among STOP, RUN, TEST, TAP, KONAMI and two brightness values, and 3 hooks. So STOP can swallow a hook, RUN can come before or after one, a hook or a host request can cut TEST or TAP short between its save and its restore, and a brightness request can land before, during or after any forcing sequence. The run checks only the brightness: with TEST or TAP and a second one-shot in play, `OneShotEnds` fails (`lightbar_oneshot_stuck`), so the liveness property is checked in that violation run and not here.
- **battery_level** starts from any real charge against the boot value of 100%. It lets the charge move 1% per reading over the full 0–100 range, with the default thresholds, and drift freely while demo mode is on, which can be switched at any point. That covers every threshold from both sides.
- **motion_sense_lpc**: see `MotionSense` above. The id wrap is reached, so the exception in `SnapshotConsistent` is exercised, not vacuous.
- **motion_sense_rate**: see `MotionSenseRate` above.
- Every action fires in one of the passing runs.

## 5. Fairness

- The chipset task runs whenever it has work: `WF_vars(power_handle_state)`. The scheduler runs the highest-priority ready task, and the chipset task is woken by every signal change.
- A rail enabled (or disabled) long enough reaches power-good (or loses it): weak fairness on each `RailSettle(r)`.
- A PCH held in RSMRST# drops to S5: weak fairness on `PchReset`.
- Nothing obliges users, the AP's OS, host commands or faults to act, so they have no fairness.
- In `UartBuffer`:
  - A printing context that is innermost runs on: `WF_vars(Writer(w))`.
  - The enabled UART interrupt is served, and the host's bytes arrive: weak fairness on `uart_process_output`, `uart_process_output_dma` and `uart_process_input`.
  - A started DMA transfer finishes: weak fairness on `uart_tx_dma_done`.
  - A host command, once started, completes: weak fairness on `snapshot_skip` and `console_read_copy`.
  - The host need not issue commands, and the console need not read. Host commands are bounded (`MaxHostCommands`): a higher-priority host task that issues commands forever would starve the printer, and that says nothing about the buffer.
- In `LightbarTask`, the task runs whenever it can: `WF_vars(LightbarTask)`. The callers run for a bounded time, and every wait in a sequence but `wait(-1)` has a timeout. The callers have no fairness. Deadlock is not checked for the lightbar, because the task blocks for good in `wait(-1)` once the callers stop, as the code does.
- `BatteryLevel`, `MotionSense`, `MotionSenseRate` and `G781Poll` state only safety properties and assume no fairness.

## 6. Not modelled

- **Within `uart_buffering.c`:**
  - the `CONFIG_UART_RX_DMA` receive path. It is polled from `HOOK_TICK`, and its circular DMA overwrites unread input with no full check, so `RxAccounted` does not hold for it by design (hazard at line 153);
  - `uart_putc` and `uart_vprintf`, which take the same `__tx_char` path as `uart_puts`;
  - `system_is_locked`, since an unlocked system is assumed;
  - the interrupt storm when `uart_tx_start` is called while suspended, where `uart_process_output` returns without stopping the interrupt (it is modelled as not enabled).
- **Within `lightbar.c`:**
  - the colours, brightness and timing of the animations;
  - the `lb_*` register access;
  - the host and console subcommands other than SEQ, brightness and DEMO, which drive or report the LED controller and move no modelled state;
  - `demo_brightness`, the keyboard's brightness keys in demo mode;
  - parameters set by `SET_PARAMS` (the defaults are used);
  - sysjump preservation of `st`.
- **Within `motion_sense.c`:**
  - the loop's timing, since the models abstract time (`MotionSenseRate` follows the interval's value, not the sleeps);
  - the float arithmetic of `calculate_lid_angle`;
  - what the accelerometer driver (not in this repository) does with the settings and ids it is given, and the contents of the DUMP, INFO and KB_WAKE_ANGLE answers.
- **Within `g781.c`:** the text `print_status` and the console command print.
- **The STM32 32-bit timer (`hwtimer32.c`).** Apart from register set-up, its one piece of logic is the interrupt handler. `__hw_clock_source_irq` reads `TIM_SR` at line 53 and then writes 0 to it at line 56. A match or overflow flag the counter raises between those two lines is cleared without being seen. What a lost flag costs is decided by `process_timers` and the 64-bit clock in `common/timer.c`, and that file is not in this repository. A model of the driver alone would have to invent that consumer, so the race is listed as a hazard (line 56) and not modelled.
- **Other files: no plans.** The remaining files are register tables, output formatting or host-side I/O, with no control state worth model checking.
- **Within `baytrail.c`:**
  - Timing is abstracted to the order of events: a 10 ms sleep is just a point where others may run.
  - `CPRINTS`/`ccprintf` output is left out.
  - The host command's response and the console command's printout are left out.
