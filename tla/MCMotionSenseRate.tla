------------------------- MODULE MCMotionSenseRate -------------------------
(* Model-checking instance of MotionSenseRate.                            *)
EXTENDS MotionSenseRate

(* EC_RATE with no value, with one below the bounds, one within and one  *)
(* above; one interval from the console.                                  *)
MCRateData == {-1, 1, 20, 2000}
MCConsoleIntervals == {50}

(* Console ids: one below 0, the two sensors, and ACCEL_COUNT itself.   *)
MCConsoleIds == {-1, 0, 1, 2}

(* Three commands and four hooks: an EC_RATE, a suspend and a resume can *)
(* come in any order, around the task's start.                           *)
MCMaxCmds == 3
MCMaxHooks == 4
=============================================================================
