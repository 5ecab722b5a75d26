---------------------------- MODULE MotionSense ----------------------------
(***************************************************************************)
(* The motion sense task (common/motion_sense.c) and the host's reads of   *)
(* the accelerometer block it publishes in the LPC memory map.             *)
(*                                                                         *)
(* Each pass of the task reads both accelerometers, works out the lid      *)
(* angle, sets the busy bit of EC_MEMMAP_ACC_STATUS, copies the sample     *)
(* into EC_MEMMAP_ACC_DATA one 16-bit word at a time, then stores the      *)
(* presence bit with the next sample id, which clears the busy bit.  The   *)
(* host runs on another processor and may read at any moment: it keeps a   *)
(* read only if the busy bit was clear and the status byte is the same     *)
(* before and after it copies the data.                                    *)
(*                                                                         *)
(* Data is abstracted to sample numbers: a word of the block holds the     *)
(* number of the sample that wrote it (0 for the zeroed memory map), so a  *)
(* torn read is one whose words differ.  The angle arithmetic, the         *)
(* rotations and the sampling delay are left out: they decide what a       *)
(* sample holds and when the next one comes, not how it is published.      *)
(***************************************************************************)
EXTENDS Naturals, Bitwise

CONSTANTS
  NumWords,     \* words of EC_MEMMAP_ACC_DATA the model follows (7 in the code)
  MaxSamples,   \* passes of the task's loop
  MaxReads      \* reads the host begins

(* Bits of the EC_MEMMAP_ACC_STATUS byte (ec_commands.h) *)
EC_MEMMAP_ACC_STATUS_SAMPLE_ID_MASK == 15     \* 0x0f
EC_MEMMAP_ACC_STATUS_BUSY_BIT == 16           \* 1 << 4
EC_MEMMAP_ACC_STATUS_PRESENCE_BIT == 128      \* 1 << 7

Words == 0..NumWords - 1

VARIABLES
  tpc,         \* where motion_sense_task is
  widx,        \* the lpc_data word the task writes next
  sample_id,   \* the task's sample_id
  taken,       \* samples the task has read from the accelerometers
  lpc_status,  \* the EC_MEMMAP_ACC_STATUS byte
  lpc_data,    \* EC_MEMMAP_ACC_DATA: the sample each word came from
  hpc,         \* where the host's read is
  hidx,        \* the word the host copies next
  hstatus,     \* the status byte the host read before copying
  hcopy,       \* the words the host has copied
  hstart,      \* history: samples published when the host began the copy
  reads,       \* reads the host has begun
  last         \* history: the host's last kept read

task_vars == <<tpc, widx, sample_id, taken>>
host_vars == <<hpc, hidx, hstatus, hcopy, hstart, reads, last>>
vars == <<task_vars, lpc_status, lpc_data, host_vars>>

(* Samples whose status byte has been stored: the one being copied is    *)
(* not yet published.                                                    *)
Published ==
  IF tpc \in {"busy", "data", "status"} THEN taken - 1 ELSE taken

Init ==
  /\ tpc = "init" /\ widx = 0 /\ sample_id = 0 /\ taken = 0
  /\ lpc_status = 0 /\ lpc_data = [i \in Words |-> 0]
  /\ hpc = "idle" /\ hidx = 0 /\ hstatus = 0
  /\ hcopy = [i \in Words |-> 0] /\ hstart = 0 /\ reads = 0
  /\ last = [copy |-> [i \in Words |-> 0], start |-> 0, end |-> 0]
-----------------------------------------------------------------------------
(***************************************************************************)
(* motion_sense_task                                                       *)
(***************************************************************************)

(* accel_init of both sensors: on failure the task returns for good,     *)
(* else it sets the presence bit and enters its loop.                    *)
motion_sense_task_init ==
  /\ tpc = "init"
  /\ \/ /\ tpc' = "sample"
        /\ lpc_status' = lpc_status | EC_MEMMAP_ACC_STATUS_PRESENCE_BIT
     \/ /\ tpc' = "stopped"
        /\ UNCHANGED lpc_status
  /\ UNCHANGED <<widx, sample_id, taken, lpc_data, host_vars>>

(* accel_read of both sensors, the lid angle and the rotations into the  *)
(* host's frame: a new sample.                                           *)
motion_sense_read ==
  /\ tpc = "sample"
  /\ taken < MaxSamples
  /\ taken' = taken + 1
  /\ tpc' = "busy"
  /\ UNCHANGED <<widx, sample_id, lpc_status, lpc_data, host_vars>>

(* Mutant: the busy bit never set before the copy *)
motion_sense_set_busy_dropped ==
  /\ tpc = "busy"
  /\ tpc' = "data" /\ widx' = 0
  /\ UNCHANGED <<sample_id, taken, lpc_status, lpc_data, host_vars>>

(* *lpc_status |= EC_MEMMAP_ACC_STATUS_BUSY_BIT *)
motion_sense_set_busy ==
  /\ tpc = "busy"
  /\ lpc_status' = lpc_status | EC_MEMMAP_ACC_STATUS_BUSY_BIT
  /\ tpc' = "data" /\ widx' = 0
  /\ UNCHANGED <<sample_id, taken, lpc_data, host_vars>>

(* lpc_data[i] = ...: one word of the sample *)
motion_sense_write_word ==
  /\ tpc = "data"
  /\ lpc_data' = [lpc_data EXCEPT ![widx] = taken]
  /\ widx' = widx + 1
  /\ tpc' = IF widx + 1 = NumWords THEN "status" ELSE "data"
  /\ UNCHANGED <<sample_id, taken, lpc_status, host_vars>>

(* Mutant: sample_id counted without the mask *)
motion_sense_publish_unmasked ==
  /\ tpc = "status"
  /\ sample_id' = sample_id + 1
  /\ lpc_status' = EC_MEMMAP_ACC_STATUS_PRESENCE_BIT | sample_id'
  /\ tpc' = "sample"
  /\ UNCHANGED <<widx, taken, lpc_data, host_vars>>

(* The next sample_id, stored with the presence bit, which clears the    *)
(* busy bit; then the task waits for its next pass.                      *)
motion_sense_publish ==
  /\ tpc = "status"
  /\ sample_id' = (sample_id + 1) & EC_MEMMAP_ACC_STATUS_SAMPLE_ID_MASK
  /\ lpc_status' = EC_MEMMAP_ACC_STATUS_PRESENCE_BIT | sample_id'
  /\ tpc' = "sample"
  /\ UNCHANGED <<widx, taken, lpc_data, host_vars>>

MotionSenseTask ==
  \/ motion_sense_task_init \/ motion_sense_read \/ motion_sense_set_busy
  \/ motion_sense_write_word \/ motion_sense_publish
-----------------------------------------------------------------------------
(***************************************************************************)
(* The host's read, as the comment before the busy bit asks of it          *)
(***************************************************************************)

(* Read the status byte: while busy, give up this read and try again.    *)
host_read_status ==
  /\ hpc = "idle"
  /\ reads < MaxReads
  /\ reads' = reads + 1
  /\ IF lpc_status & EC_MEMMAP_ACC_STATUS_BUSY_BIT # 0
       THEN UNCHANGED <<hpc, hidx, hstatus, hstart>>
       ELSE /\ hpc' = "data" /\ hidx' = 0
            /\ hstatus' = lpc_status
            /\ hstart' = Published
  /\ UNCHANGED <<task_vars, lpc_status, lpc_data, hcopy, last>>

host_read_word ==
  /\ hpc = "data"
  /\ hcopy' = [hcopy EXCEPT ![hidx] = lpc_data[hidx]]
  /\ hidx' = hidx + 1
  /\ hpc' = IF hidx + 1 = NumWords THEN "check" ELSE "data"
  /\ UNCHANGED <<task_vars, lpc_status, lpc_data, hstatus, hstart, reads,
                 last>>

(* Read the status byte again: keep the copy only if it is unchanged.   *)
host_check_status ==
  /\ hpc = "check"
  /\ hpc' = "idle"
  /\ last' = IF lpc_status = hstatus
               THEN [copy |-> hcopy, start |-> hstart, end |-> Published]
               ELSE last
  /\ UNCHANGED <<task_vars, lpc_status, lpc_data, hidx, hstatus, hcopy,
                 hstart, reads>>

HostRead == host_read_status \/ host_read_word \/ host_check_status

(* Both sides are done: the task stopped or took its last sample, and   *)
(* the host began its last read and finished it.                        *)
Done ==
  /\ tpc = "stopped" \/ (tpc = "sample" /\ taken = MaxSamples)
  /\ hpc = "idle" /\ reads = MaxReads
  /\ UNCHANGED vars

Next == MotionSenseTask \/ HostRead \/ Done

Spec == Init /\ [][Next]_vars
-----------------------------------------------------------------------------
TypeOK ==
  /\ tpc \in {"init", "sample", "busy", "data", "status", "stopped"}
  /\ widx \in 0..NumWords /\ hidx \in 0..NumWords
  /\ sample_id \in 0..EC_MEMMAP_ACC_STATUS_SAMPLE_ID_MASK
  /\ taken \in 0..MaxSamples
  /\ lpc_status \in {0} \cup
       {EC_MEMMAP_ACC_STATUS_PRESENCE_BIT + b + i :
          b \in {0, EC_MEMMAP_ACC_STATUS_BUSY_BIT},
          i \in 0..EC_MEMMAP_ACC_STATUS_SAMPLE_ID_MASK}
  /\ lpc_data \in [Words -> 0..MaxSamples]
  /\ hpc \in {"idle", "data", "check"}
  /\ hcopy \in [Words -> 0..MaxSamples]
  /\ reads \in 0..MaxReads

(* A read the host keeps holds one whole sample, the one published when *)
(* it began, unless the task published a multiple of 16 samples (the    *)
(* width of the sample id) while the host was copying: the busy bit and *)
(* the sample id of motion_sense_task tell every other torn read apart. *)
SnapshotConsistent ==
  last.end - last.start <= EC_MEMMAP_ACC_STATUS_SAMPLE_ID_MASK =>
    \A i \in Words : last.copy[i] = last.start
=============================================================================
