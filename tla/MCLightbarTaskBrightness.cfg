\* The host runs the Konami sequence and sets the brightness while it
\* runs: sequence_KONAMI's restore puts back the brightness it saved.
CONSTANTS
  HostSeqs <- MCStopRunKonami
  MaxHostMsgs = 2
  MaxHooks = 0
  Brightness <- MCTwoBright
SPECIFICATION Spec
CHECK_DEADLOCK FALSE
INVARIANT BrightnessKept
