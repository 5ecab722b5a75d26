CONSTANTS
  XOFF_ = XOFF_
  XON_ = XON_
  XOFF <- XOFF_
  XON <- XON_
  TX_BUF_SIZE = 4
  RX_BUF_SIZE = 2
  RESPONSE_MAX = 3
  MaxHostCommands = 3
  Writers <- MCWriters
  Calls <- MCCalls
  Newlines <- MCNewlines
  RxLine <- MCRxLine
  Prio <- MCPrio
  IrqWriters <- MCIrqWriters
  TxDmaBuilds <- MCTxDmaBuilds
SPECIFICATION Spec
INVARIANT TypeOK
INVARIANT TxAccounted
INVARIANT RxAccounted
INVARIANT ConsoleReadFaithful
PROPERTY UartTxFifoSpec
PROPERTY FlushDrains
