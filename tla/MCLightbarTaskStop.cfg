\* The host stops and resumes the lightbar, runs TEST, TAP and the Konami
\* sequence and sets the brightness while the chipset goes
\* S5 -> S3 -> S0 -> S3.
CONSTANTS
  HostSeqs <- MCHostOneShots
  MaxHostMsgs = 3
  MaxHooks = 3
  Brightness <- MCTwoBright
SPECIFICATION Spec
CHECK_DEADLOCK FALSE
INVARIANT BrightnessNotLeftForced
