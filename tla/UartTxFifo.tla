----------------------------- MODULE UartTxFifo -----------------------------
(***************************************************************************)
(* What the transmit side of the UART buffer promises its callers          *)
(* (common/uart_buffering.c): a byte uart_puts accepts joins the end of    *)
(* a queue, the interrupt sends bytes from the front of the queue in       *)
(* order, and no byte in the queue waits for ever.  The ring, its indexes, *)
(* the interrupt enable and flow control are the implementation's business.*)
(***************************************************************************)
EXTENDS Naturals, Sequences

CONSTANT Bytes   \* the bytes printers may write

VARIABLES
  queue,  \* accepted bytes not yet sent
  out     \* bytes sent on the wire, in order

fifo_vars == <<queue, out>>

Init == queue = <<>> /\ out = <<>>

(* One byte accepted at the end of the queue *)
Accept ==
  \E b \in Bytes :
    /\ queue' = Append(queue, b)
    /\ UNCHANGED out

(* One or more bytes from the front of the queue put on the wire *)
Send ==
  \E k \in 1..Len(queue) :
    /\ out' = out \o SubSeq(queue, 1, k)
    /\ queue' = SubSeq(queue, k + 1, Len(queue))

Next == Accept \/ Send

Spec == Init /\ [][Next]_fifo_vars /\ WF_fifo_vars(Send)
=============================================================================
