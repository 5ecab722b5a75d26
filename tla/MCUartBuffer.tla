---------------------------- MODULE MCUartBuffer ----------------------------
(* Model-checking instance of UartBuffer: a 4-byte transmit ring (three    *)
(* usable bytes) and a 2-byte receive ring (one usable byte), so both fill. *)
EXTENDS UartBuffer

CONSTANTS XOFF_, XON_   \* model values for CTRL('S') and CTRL('Q')

Puts(s) == [op |-> "puts", text |-> s]
Flush   == [op |-> "flush", text |-> <<>>]

(* One printing task: a line, a flush, and a second line that finds the  *)
(* ring still partly full; and an interrupt handler that flushes the     *)
(* output over it.                                                       *)
MCWriters == {"task", "irq"}
MCCalls == ("task" :> <<Puts(<<"a", "nl">>), Flush, Puts(<<"b">>)>>)
           @@ ("irq" :> <<Flush>>)
MCIrqWriters == {"irq"}

(* The printing task alone *)
MCTaskWriters == {"task"}
MCTaskCalls == "task" :> MCCalls["task"]
MCNoIrqWriters == {}

(* A printing task and an interrupt handler that prints over it *)
MCRaceWriters == {"task", "irq"}
MCRaceCalls == ("task" :> <<Puts(<<"a">>)>>) @@ ("irq" :> <<Puts(<<"i">>)>>)

MCNewlines == {"nl"}

(* Both builds: uart_process_output with and without CONFIG_UART_TX_DMA *)
MCTxDmaBuilds == BOOLEAN
MCNoTxDma == {FALSE}

(* The host types two characters and pauses output in between *)
MCRxLine == <<"x", XOFF_, "y", XON_>>
(* The host pauses output and never resumes it *)
MCStuckRxLine == <<XOFF_>>

MCPrio == ("irq" :> 3) @@ ("host" :> 2) @@ ("task" :> 1) @@ ("console" :> 0)
(* Every byte the calls can print: their characters, and the '\r' that  *)
(* goes before each newline.                                             *)
MCTxBytes ==
  LET chars == UNION {Range(c.text) : c \in UNION {Range(Calls[w]) : w \in Writers}}
  IN  chars \cup {CR(c) : c \in chars \cap Newlines}

(* The ring refines the transmit queue: the bytes between tx_buf_tail and *)
(* tx_buf_head are the queue, the bytes the interrupt wrote out are the  *)
(* wire.                                                                  *)
Fifo == INSTANCE UartTxFifo WITH Bytes <- MCTxBytes, queue <- Pending, out <- wire

(* Every step of the printers, the interrupt and the host either appends *)
(* one byte uart_puts accepted to the pending bytes, sends some from     *)
(* their front in order, or leaves both alone; and no pending byte is    *)
(* left unsent for ever.                                                 *)
UartTxFifoSpec == Fifo!Spec
=============================================================================
