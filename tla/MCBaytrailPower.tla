-------------------------- MODULE MCBaytrailPower --------------------------
(* Model-checking instance of BaytrailPower, and the refinement of the    *)
(* abstract power state machine PowerAbstract.                            *)
EXTENDS BaytrailPower

(* Safety runs: the USB-power-in-S3 build option on, so S0S3 may keep    *)
(* PP5000 up, and two tasks that may each hold RCIN# low for a warm reset. *)
MCUsbPortPowerInS3 == TRUE
MCResetCallers == 2

(* Liveness runs: the option off and no warm resets, which never change   *)
(* the power state, to keep the temporal check within reach.              *)
MCLiveUsbPortPowerInS3 == FALSE
MCLiveResetCallers == 0

Abstract == INSTANCE PowerAbstract

(* Every step of the chipset task moves the power state along an edge of *)
(* the spec's transition table, and every transitional state resolves.  *)
PowerAbstractSpec == Abstract!Spec
=============================================================================
