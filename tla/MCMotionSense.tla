--------------------------- MODULE MCMotionSense ---------------------------
(* Model-checking instance of MotionSense.                               *)
EXTENDS MotionSense

(* Two words are enough for a read to be torn; 17 samples let the task   *)
(* publish 16 while one read is in progress, a whole turn of the id.     *)
MCNumWords == 2
MCMaxSamples == 17
MCMaxReads == 2
=============================================================================
