--------------------------- MODULE MCLightbarTask ---------------------------
(* Model-checking instance of LightbarTask.                               *)
EXTENDS LightbarTask

(* Requests the lightbar_sequence() guard turns away: 0 (S5) and         *)
(* LIGHTBAR_NUM_SEQUENCES, one past the last sequence.                   *)
MCIgnoredSeqs == {"S5", NUM}

(* A keyboard tap (TAP) and the host's Konami easter egg *)
MCTapKonami == {"TAP", "KONAMI"}

(* The host stopping the lightbar to drive it itself, then resuming *)
MCStopRun == {"STOP", "RUN"}

(* A keyboard tap alone *)
MCTap == {"TAP"}

(* The host stopping and resuming the lightbar, and its Konami sequence *)
MCStopRunKonami == {"STOP", "RUN", "KONAMI"}

(* Every host one-shot: STOP and RUN, and the three that force the       *)
(* brightness, TEST and TAP (interruptible) and KONAMI (not)             *)
MCHostOneShots == {"STOP", "RUN", "KONAMI", "TEST", "TAP"}

(* Brightness values the host and console set: one, or two to tell a    *)
(* later request from an earlier one                                     *)
MCBright == {128}
MCTwoBright == {64, 128}
=============================================================================
