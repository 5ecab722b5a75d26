CONSTANTS
  XOFF_ = XOFF_
  XON_ = XON_
  XOFF <- XOFF_
  XON <- XON_
  TX_BUF_SIZE = 4
  RX_BUF_SIZE = 2
  RESPONSE_MAX = 3
  MaxHostCommands = 3
  Writers <- MCRaceWriters
  Calls <- MCRaceCalls
  Newlines <- MCNewlines
  RxLine <- MCRxLine
  Prio <- MCPrio
  IrqWriters <- MCIrqWriters
  TxDmaBuilds <- MCNoTxDma
SPECIFICATION Spec
INVARIANT TxAccounted
