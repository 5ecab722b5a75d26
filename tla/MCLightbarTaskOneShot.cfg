\* A keyboard tap and the Konami sequence requested while the chipset
\* comes up to S0.
CONSTANTS
  HostSeqs <- MCTapKonami
  MaxHostMsgs = 2
  MaxHooks = 2
  Brightness <- MCBright
SPECIFICATION Spec
CHECK_DEADLOCK FALSE
PROPERTY OneShotEnds
