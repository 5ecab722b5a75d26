CONSTANTS
  XOFF_ = XOFF_
  XON_ = XON_
  XOFF <- XOFF_
  XON <- XON_
  TX_BUF_SIZE = 4
  RX_BUF_SIZE = 2
  RESPONSE_MAX = 3
  MaxHostCommands = 3
  Writers <- MCTaskWriters
  Calls <- MCTaskCalls
  Newlines <- MCNewlines
  RxLine <- MCStuckRxLine
  Prio <- MCPrio
  IrqWriters <- MCNoIrqWriters
  TxDmaBuilds <- MCNoTxDma
SPECIFICATION Spec
PROPERTY FlushReturns
