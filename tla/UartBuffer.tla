----------------------------- MODULE UartBuffer -----------------------------
(***************************************************************************)
(* The console UART buffering of src/src/common/uart_buffering.c, without  *)
(* CONFIG_UART_RX_DMA, and with or without CONFIG_UART_TX_DMA:            *)
(*   - a transmit ring tx_buf[head..tail) filled by any context that       *)
(*     prints (uart_puts, through __tx_char) and drained by the UART       *)
(*     interrupt (uart_process_output);                                    *)
(*   - a receive ring filled by the UART interrupt (uart_process_input),   *)
(*     which also applies XOFF/XON flow control, and drained by the        *)
(*     console task (uart_getc);                                           *)
(*   - uart_flush_output, and the console snapshot/read host commands.     *)
(* Contexts run under fixed-priority preemption: a call in progress can be *)
(* interrupted only by a context of higher priority, which runs its whole  *)
(* call first.  The UART interrupt is above every other context, so its    *)
(* handlers are single steps.                                              *)
(***************************************************************************)
EXTENDS Naturals, Sequences, SequencesExt, FiniteSetsExt

CONSTANTS
  TX_BUF_SIZE,     \* CONFIG_UART_TX_BUF_SIZE, a power of two
  RX_BUF_SIZE,     \* CONFIG_UART_RX_BUF_SIZE, a power of two
  Writers,         \* contexts that print (tasks, interrupt handlers)
  Calls,           \* Calls[w]: the uart_puts / uart_flush_output calls of w
  Newlines,        \* the characters that are '\n'
  RxLine,          \* the bytes the host sends, in order
  XOFF, XON,       \* CTRL('S') and CTRL('Q')
  Prio,            \* priority of each context; the UART interrupt is above all
  IrqWriters,      \* the writers that are interrupt handlers
  RESPONSE_MAX,    \* args->response_max of EC_CMD_CONSOLE_READ
  MaxHostCommands, \* bound on the console host commands the host sends
  TxDmaBuilds      \* which of CONFIG_UART_TX_DMA off/on (FALSE/TRUE) to check

Contexts == Writers \cup {"host", "console"}

ASSUME \A c \in Contexts : Prio[c] \in Nat
ASSUME \A c, d \in Contexts : c # d => Prio[c] # Prio[d]

VARIABLES
  tx_buf, tx_buf_head, tx_buf_tail,
  rx_buf, rx_buf_head, rx_buf_tail,
  tx_snapshot_head, tx_snapshot_tail,
  uart_suspended,
  tx_int,       \* UART transmit interrupt enabled (uart_tx_start/_stop)
  tx_dma,       \* the build has CONFIG_UART_TX_DMA
  tx_dma_in_progress, \* uart_process_output's static: size of the last DMA
  dma_busy,     \* the DMA transfer is still running (!uart_tx_dma_ready())
  stack,        \* contexts inside a call, innermost (running) last
  wpc,          \* where each writer is: idle, check, store, advance, start, flush
  wtext,        \* characters of the current uart_puts not yet written
  wcr,          \* inside the nested __tx_char('\r') of a newline
  wnext,        \* __tx_char's local tx_buf_next
  wcalls,       \* calls each writer has still to make
  hpc,          \* host command task: idle, scan, read
  host_cmds,    \* console host commands received so far
  resp,         \* the response EC_CMD_CONSOLE_READ is building
  rx_pos,       \* bytes of RxLine received so far
  accepted,     \* history: characters __tx_char returned 0 for, in order
  wire,         \* history: characters the UART sent
  rx_stored,    \* history: characters the receive interrupt buffered
  got,          \* history: characters uart_getc returned
  snap_ref,     \* history: the recent output at the last snapshot
  read_all,     \* history: everything read since the last snapshot
  dirty,        \* history: a character was stored since the last snapshot
  flush_mark    \* history: bytes accepted when each writer's flush began

dma  == <<tx_dma, tx_dma_in_progress, dma_busy>>
tx   == <<tx_buf, tx_buf_head, tx_buf_tail, tx_int, dma>>
rx   == <<rx_buf, rx_buf_head, rx_buf_tail, rx_pos, rx_stored, got>>
wr   == <<wpc, wtext, wcr, wnext, wcalls, flush_mark>>
snap == <<tx_snapshot_head, tx_snapshot_tail, hpc, host_cmds, resp, snap_ref,
          read_all, dirty>>
vars == <<tx, rx, wr, snap, uart_suspended, stack, accepted, wire>>

NUL == ""   \* an unused byte of tx_buf

(* Mutant: the wrap taken one slot too late *)
TX_BUF_NEXT_late_wrap(i) == (i + 1) % (TX_BUF_SIZE + 1)

TX_BUF_NEXT(i) == (i + 1) % TX_BUF_SIZE
RX_BUF_NEXT(i) == (i + 1) % RX_BUF_SIZE
TX_BUF_DIFF(i, j) == (i - j + TX_BUF_SIZE) % TX_BUF_SIZE

(* '\n' is sent as "\r\n"; the '\r' of newline c is a byte of its own *)
CR(c) == "cr_" \o c

(* A context not in a call may start one when it outranks every context *)
(* inside a call; a context in a call runs when it is the innermost.    *)
CanStart(c) == \A i \in DOMAIN stack : Prio[c] > Prio[stack[i]]
Running(c)  == stack # <<>> /\ Last(stack) = c
Pop == stack' = Front(stack)

Init ==
  /\ tx_buf = [i \in 0..TX_BUF_SIZE - 1 |-> NUL]
  /\ tx_buf_head = 0 /\ tx_buf_tail = 0
  /\ rx_buf = [i \in 0..RX_BUF_SIZE - 1 |-> NUL]
  /\ rx_buf_head = 0 /\ rx_buf_tail = 0
  /\ tx_snapshot_head = 0 /\ tx_snapshot_tail = 0
  /\ uart_suspended = 0 /\ tx_int = FALSE
  /\ tx_dma \in TxDmaBuilds /\ tx_dma_in_progress = 0 /\ dma_busy = FALSE
  /\ stack = <<>>
  /\ wpc = [w \in Writers |-> "idle"] /\ wtext = [w \in Writers |-> <<>>]
  /\ wcr = [w \in Writers |-> FALSE] /\ wnext = [w \in Writers |-> 0]
  /\ wcalls = Calls /\ flush_mark = [w \in Writers |-> 0]
  /\ hpc = "idle" /\ host_cmds = 0 /\ resp = <<>>
  /\ rx_pos = 0
  /\ accepted = <<>> /\ wire = <<>> /\ rx_stored = <<>> /\ got = <<>>
  /\ snap_ref = <<>> /\ read_all = <<>> /\ dirty = FALSE
-----------------------------------------------------------------------------
(***************************************************************************)
(* Printing: uart_puts(s) calls __tx_char on each character until one is   *)
(* dropped, then starts the transmit interrupt unless output is suspended. *)
(***************************************************************************)

(* The byte the writer's current __tx_char call puts in the buffer *)
Byte(w) == IF wcr[w] THEN CR(Head(wtext[w])) ELSE Head(wtext[w])

uart_puts(w) ==
  /\ wpc[w] = "idle" /\ wcalls[w] # <<>> /\ Head(wcalls[w]).op = "puts"
  /\ CanStart(w)
  /\ stack' = Append(stack, w)
  /\ wtext' = [wtext EXCEPT ![w] = Head(wcalls[w]).text]
  /\ wcr' = [wcr EXCEPT ![w] = Head(Head(wcalls[w]).text) \in Newlines]
  /\ wcalls' = [wcalls EXCEPT ![w] = Tail(@)]
  /\ wpc' = [wpc EXCEPT ![w] = "check"]
  /\ UNCHANGED <<tx, rx, wnext, snap, uart_suspended, accepted, wire,
                 flush_mark>>

(* Mutant: no full-buffer check, a byte may overwrite unsent output *)
tx_char_check_no_full(w) ==
  /\ Running(w) /\ wpc[w] = "check"
  /\ wnext' = [wnext EXCEPT ![w] = TX_BUF_NEXT(tx_buf_head)]
  /\ wpc' = [wpc EXCEPT ![w] = "store"]
  /\ UNCHANGED <<tx, rx, wtext, wcr, wcalls, snap, uart_suspended, stack,
                 accepted, wire, flush_mark>>

(* tx_buf_next = TX_BUF_NEXT(tx_buf_head); a full buffer drops the byte, *)
(* and a dropped '\r' drops its newline: uart_puts stops there.          *)
tx_char_check(w) ==
  /\ Running(w) /\ wpc[w] = "check"
  /\ LET next == TX_BUF_NEXT(tx_buf_head) IN
       IF next = tx_buf_tail
         THEN wpc' = [wpc EXCEPT ![w] = "start"] /\ UNCHANGED wnext
         ELSE /\ wnext' = [wnext EXCEPT ![w] = next]
              /\ wpc' = [wpc EXCEPT ![w] = "store"]
  /\ UNCHANGED <<tx, rx, wtext, wcr, wcalls, snap, uart_suspended, stack,
                 accepted, wire, flush_mark>>

(* tx_buf[tx_buf_head] = c, with tx_buf_head read again *)
tx_char_store(w) ==
  /\ Running(w) /\ wpc[w] = "store"
  /\ tx_buf' = [tx_buf EXCEPT ![tx_buf_head] = Byte(w)]
  /\ dirty' = TRUE
  /\ wpc' = [wpc EXCEPT ![w] = "advance"]
  /\ UNCHANGED <<tx_buf_head, tx_buf_tail, tx_int, dma, rx, wtext, wcr, wnext,
                 wcalls, tx_snapshot_head, tx_snapshot_tail, hpc, host_cmds,
                 resp,
                 snap_ref, read_all, uart_suspended, stack, accepted, wire, flush_mark>>

(* tx_buf_head = tx_buf_next; return 0.  After the '\r' of a newline the *)
(* outer call goes on with the newline itself.                           *)
tx_char_advance(w) ==
  /\ Running(w) /\ wpc[w] = "advance"
  /\ tx_buf_head' = wnext[w]
  /\ accepted' = Append(accepted, Byte(w))
  /\ IF wcr[w]
       THEN /\ wcr' = [wcr EXCEPT ![w] = FALSE]
            /\ wpc' = [wpc EXCEPT ![w] = "check"]
            /\ UNCHANGED wtext
       ELSE LET rest == Tail(wtext[w]) IN
            /\ wtext' = [wtext EXCEPT ![w] = rest]
            /\ wcr' = [wcr EXCEPT ![w] = rest # <<>> /\ Head(rest) \in Newlines]
            /\ wpc' = [wpc EXCEPT ![w] = IF rest = <<>> THEN "start"
                                                          ELSE "check"]
  /\ UNCHANGED <<tx_buf, tx_buf_tail, tx_int, dma, rx, wnext, wcalls, snap,
                 uart_suspended, stack, wire, flush_mark>>

(* Mutant: uart_puts returns without starting the transmit interrupt *)
uart_puts_end_no_start(w) ==
  /\ Running(w) /\ wpc[w] = "start"
  /\ wpc' = [wpc EXCEPT ![w] = "idle"]
  /\ wtext' = [wtext EXCEPT ![w] = <<>>]
  /\ wcr' = [wcr EXCEPT ![w] = FALSE]
  /\ Pop
  /\ UNCHANGED <<tx_buf, tx_buf_head, tx_buf_tail, tx_int, dma, rx, wnext, wcalls,
                 snap, uart_suspended, accepted, wire, flush_mark>>

(* if (!uart_suspended) uart_tx_start(); return *)
uart_puts_end(w) ==
  /\ Running(w) /\ wpc[w] = "start"
  /\ tx_int' = (tx_int \/ uart_suspended = 0)
  /\ wpc' = [wpc EXCEPT ![w] = "idle"]
  /\ wtext' = [wtext EXCEPT ![w] = <<>>]
  /\ wcr' = [wcr EXCEPT ![w] = FALSE]
  /\ Pop
  /\ UNCHANGED <<tx_buf, tx_buf_head, tx_buf_tail, dma, rx, wnext, wcalls, snap,
                 uart_suspended, accepted, wire, flush_mark>>

(* uart_flush_output: ignored while suspended; else loop until the      *)
(* buffer is empty.  uart_suspended is not looked at again in the loop. *)
uart_flush_output(w) ==
  /\ wpc[w] = "idle" /\ wcalls[w] # <<>> /\ Head(wcalls[w]).op = "flush"
  /\ CanStart(w)
  /\ wcalls' = [wcalls EXCEPT ![w] = Tail(@)]
  /\ IF uart_suspended = 1
       THEN UNCHANGED <<wpc, stack, flush_mark>>
       ELSE /\ wpc' = [wpc EXCEPT ![w] = "flush"]
            /\ stack' = Append(stack, w)
            /\ flush_mark' = [flush_mark EXCEPT ![w] = Len(accepted)]
  /\ UNCHANGED <<tx, rx, wtext, wcr, wnext, snap, uart_suspended, accepted,
                 wire>>

(* One pass of the loop from task context, or its end: uart_tx_start()  *)
(* while the buffer is not empty, then uart_tx_flush() and return.  An  *)
(* interrupt context leaves the loop the same way when it is empty.     *)
flush_loop(w) ==
  /\ Running(w) /\ wpc[w] = "flush"
  /\ w \notin IrqWriters \/ tx_buf_head = tx_buf_tail
  /\ IF tx_buf_head # tx_buf_tail
       THEN /\ tx_int' = TRUE     \* uart_tx_start(); spins if already on
            /\ UNCHANGED <<wpc, stack>>
       ELSE /\ wpc' = [wpc EXCEPT ![w] = "idle"]   \* uart_tx_flush()
            /\ Pop
            /\ UNCHANGED tx_int
  /\ UNCHANGED <<tx_buf, tx_buf_head, tx_buf_tail, dma, rx, wtext, wcr, wnext,
                 wcalls, snap, uart_suspended, accepted, wire, flush_mark>>

-----------------------------------------------------------------------------
(***************************************************************************)
(* The UART interrupt                                                      *)
(***************************************************************************)

(* The body of uart_process_output without CONFIG_UART_TX_DMA, once past *)
(* the uart_suspended check: send bytes from the tail until the transmit *)
(* FIFO is full (k < count) or the buffer is empty, then stop the        *)
(* interrupt if the buffer is empty.                                     *)
OutputFifo ==
  LET count == TX_BUF_DIFF(tx_buf_head, tx_buf_tail) IN
  \E k \in IF count = 0 THEN {0} ELSE 1..count :
    LET tail == (tx_buf_tail + k) % TX_BUF_SIZE IN
    /\ wire' = wire \o [i \in 1..k |->
                          tx_buf[(tx_buf_tail + i - 1) % TX_BUF_SIZE]]
    /\ tx_buf_tail' = tail
    /\ tx_int' = (tail # tx_buf_head)
    /\ UNCHANGED <<tx_dma_in_progress, dma_busy>>

(* The largest contiguous block from tx_buf_tail towards head: the part *)
(* before the wrap when the ring wraps.                                  *)
DmaBlock(head, tail) == (IF head > tail THEN head ELSE TX_BUF_SIZE) - tail

(* Mutant: the slots of a transfer freed when it starts, not once done *)
OutputDma_free_at_start ==
  LET head == tx_buf_head
      tail == tx_buf_tail IN
  /\ IF head = tail
       THEN /\ tx_int' = FALSE /\ UNCHANGED <<tx_buf_tail, dma_busy>>
       ELSE /\ tx_buf_tail' = (tail + DmaBlock(head, tail)) % TX_BUF_SIZE
            /\ dma_busy' = TRUE
            /\ UNCHANGED tx_int
  /\ tx_dma_in_progress' = 0
  /\ UNCHANGED wire

(* The body of uart_process_output with CONFIG_UART_TX_DMA, once past    *)
(* the uart_suspended and uart_tx_dma_ready checks: free the block of    *)
(* the finished transfer, then stop the interrupt if the ring is empty,  *)
(* or start a transfer of the next contiguous block.                     *)
OutputDma ==
  LET head == tx_buf_head
      tail == (tx_buf_tail + tx_dma_in_progress) % TX_BUF_SIZE IN
  /\ tx_buf_tail' = tail
  /\ IF head = tail
       THEN /\ tx_int' = FALSE /\ tx_dma_in_progress' = 0
            /\ UNCHANGED dma_busy
       ELSE /\ tx_dma_in_progress' = DmaBlock(head, tail)
            /\ dma_busy' = TRUE
            /\ UNCHANGED tx_int
  /\ UNCHANGED wire

(* uart_process_output as the UART interrupt runs it; nothing happens    *)
(* while output is suspended or, with DMA, while the DMA is busy.        *)
uart_process_output ==
  /\ ~tx_dma /\ tx_int /\ uart_suspended = 0
  /\ OutputFifo
  /\ UNCHANGED <<tx_buf, tx_buf_head, tx_dma, rx, wr, snap, uart_suspended,
                 stack, accepted, flush_mark>>

uart_process_output_dma ==
  /\ tx_dma /\ tx_int /\ uart_suspended = 0 /\ ~dma_busy
  /\ OutputDma
  /\ UNCHANGED <<tx_buf, tx_buf_head, tx_dma, rx, wr, snap, uart_suspended,
                 stack, accepted, flush_mark>>

(* One pass of the loop in interrupt context, where the UART interrupt   *)
(* may not preempt: call uart_process_output directly.  It does nothing *)
(* while suspended or while the DMA is busy, and the loop spins.         *)
flush_process_output(w) ==
  /\ Running(w) /\ wpc[w] = "flush" /\ w \in IrqWriters
  /\ tx_buf_head # tx_buf_tail
  /\ uart_suspended = 0
  /\ IF tx_dma THEN ~dma_busy /\ OutputDma ELSE OutputFifo
  /\ UNCHANGED <<tx_buf, tx_buf_head, tx_dma, rx, wr, snap, uart_suspended,
                 stack, accepted>>

(* The DMA engine finishes the transfer uart_tx_dma_start began: the     *)
(* bytes it read from tx_buf[tail .. tail + tx_dma_in_progress) go out.  *)
uart_tx_dma_done ==
  /\ dma_busy
  /\ dma_busy' = FALSE
  /\ wire' = wire \o [i \in 1..tx_dma_in_progress |->
                        tx_buf[(tx_buf_tail + i - 1) % TX_BUF_SIZE]]
  /\ UNCHANGED <<tx_buf, tx_buf_head, tx_buf_tail, tx_int, tx_dma,
                 tx_dma_in_progress, rx, wr, snap, uart_suspended, stack,
                 accepted, flush_mark>>

(* Mutant: input buffered without the rx_buf_next != rx_buf_tail check *)
uart_process_input_no_full ==
  /\ rx_pos < Len(RxLine)
  /\ rx_pos' = rx_pos + 1
  /\ LET c == RxLine[rx_pos + 1] IN
     CASE c = XOFF ->
            /\ uart_suspended' = 1 /\ tx_int' = FALSE
            /\ UNCHANGED <<rx_buf, rx_buf_head, rx_stored>>
       [] c = XON ->
            /\ uart_suspended' = 0 /\ tx_int' = TRUE
            /\ UNCHANGED <<rx_buf, rx_buf_head, rx_stored>>
       [] OTHER ->
            /\ rx_buf' = [rx_buf EXCEPT ![rx_buf_head] = c]
            /\ rx_buf_head' = RX_BUF_NEXT(rx_buf_head)
            /\ rx_stored' = Append(rx_stored, c)
            /\ UNCHANGED <<uart_suspended, tx_int>>
  /\ UNCHANGED <<tx_buf, tx_buf_head, tx_buf_tail, dma, rx_buf_tail, got, wr, snap,
                 stack, accepted, wire>>

(* uart_process_input, one received byte: XOFF suspends output and stops *)
(* the transmit interrupt, XON resumes and starts it; any other byte is  *)
(* buffered unless the receive ring is full, in which case it is lost.   *)
uart_process_input ==
  /\ rx_pos < Len(RxLine)
  /\ rx_pos' = rx_pos + 1
  /\ LET c == RxLine[rx_pos + 1]
         next == RX_BUF_NEXT(rx_buf_head) IN
     CASE c = XOFF ->
            /\ uart_suspended' = 1 /\ tx_int' = FALSE
            /\ UNCHANGED <<rx_buf, rx_buf_head, rx_stored>>
       [] c = XON ->
            /\ uart_suspended' = 0 /\ tx_int' = TRUE
            /\ UNCHANGED <<rx_buf, rx_buf_head, rx_stored>>
       [] OTHER ->
            /\ IF next # rx_buf_tail
                 THEN /\ rx_buf' = [rx_buf EXCEPT ![rx_buf_head] = c]
                      /\ rx_buf_head' = next
                      /\ rx_stored' = Append(rx_stored, c)
                 ELSE UNCHANGED <<rx_buf, rx_buf_head, rx_stored>>
            /\ UNCHANGED <<uart_suspended, tx_int>>
  /\ UNCHANGED <<tx_buf, tx_buf_head, tx_buf_tail, dma, rx_buf_tail, got, wr, snap,
                 stack, accepted, wire>>
-----------------------------------------------------------------------------
(***************************************************************************)
(* The console task and the host command task                              *)
(***************************************************************************)

(* One pass of uart_getc's loop: take the byte at the tail, return it    *)
(* unless it is a flow-control character.                                *)
uart_getc ==
  /\ CanStart("console")
  /\ rx_buf_tail # rx_buf_head
  /\ rx_buf_tail' = RX_BUF_NEXT(rx_buf_tail)
  /\ LET c == rx_buf[rx_buf_tail] IN
       got' = IF c \in {XOFF, XON} THEN got ELSE Append(got, c)
  /\ UNCHANGED <<tx, rx_buf, rx_buf_head, rx_pos, rx_stored, wr, snap,
                 uart_suspended, stack, accepted, wire>>

(* History: the last TX_BUF_SIZE - 1 bytes __tx_char accepted, the most *)
(* the ring can hold besides the slot at tx_buf_head.                   *)
Recent(s) ==
  SubSeq(s, Len(s) - Min({Len(s), TX_BUF_SIZE - 1}) + 1, Len(s))

(* Mutant: the snapshot starts one slot too far and skips the oldest byte *)
host_command_console_snapshot_skip_oldest ==
  /\ hpc = "idle" /\ CanStart("host") /\ host_cmds < MaxHostCommands
  /\ host_cmds' = host_cmds + 1
  /\ tx_snapshot_head' = tx_buf_head
  /\ tx_snapshot_tail' = TX_BUF_NEXT(TX_BUF_NEXT(tx_buf_head))
  /\ snap_ref' = Recent(accepted)
  /\ read_all' = <<>> /\ dirty' = FALSE
  /\ hpc' = "scan" /\ stack' = Append(stack, "host")
  /\ UNCHANGED <<tx, rx, wr, resp, uart_suspended, accepted, wire>>

(* EC_CMD_CONSOLE_SNAPSHOT on an unlocked system: take the whole ring    *)
(* but the head slot, oldest byte first, then skip unused bytes.         *)
host_command_console_snapshot ==
  /\ hpc = "idle" /\ CanStart("host") /\ host_cmds < MaxHostCommands
  /\ host_cmds' = host_cmds + 1
  /\ tx_snapshot_head' = tx_buf_head
  /\ tx_snapshot_tail' = TX_BUF_NEXT(tx_buf_head)
  /\ snap_ref' = Recent(accepted)
  /\ read_all' = <<>> /\ dirty' = FALSE
  /\ hpc' = "scan" /\ stack' = Append(stack, "host")
  /\ UNCHANGED <<tx, rx, wr, resp, uart_suspended, accepted, wire>>

snapshot_skip ==
  /\ Running("host") /\ hpc = "scan"
  /\ IF tx_snapshot_tail # tx_snapshot_head /\ tx_buf[tx_snapshot_tail] = NUL
       THEN /\ tx_snapshot_tail' = TX_BUF_NEXT(tx_snapshot_tail)
            /\ UNCHANGED <<hpc, stack>>
       ELSE hpc' = "idle" /\ Pop /\ UNCHANGED tx_snapshot_tail
  /\ UNCHANGED <<tx, rx, wr, tx_snapshot_head, host_cmds, resp, snap_ref,
                 read_all, dirty, uart_suspended, accepted, wire>>

(* EC_CMD_CONSOLE_READ: copy used bytes from the snapshot tail until the *)
(* snapshot head or until the response holds RESPONSE_MAX - 1 bytes.     *)
(* With no snapshot data left it returns an empty response at once.     *)
host_command_console_read ==
  /\ hpc = "idle" /\ CanStart("host") /\ host_cmds < MaxHostCommands
  /\ host_cmds' = host_cmds + 1
  /\ IF tx_snapshot_head # tx_snapshot_tail
       THEN /\ resp' = <<>>
            /\ hpc' = "read" /\ stack' = Append(stack, "host")
       ELSE UNCHANGED <<resp, hpc, stack>>
  /\ UNCHANGED <<tx, rx, wr, tx_snapshot_head, tx_snapshot_tail, snap_ref,
                 read_all, dirty, uart_suspended, accepted, wire>>

console_read_copy ==
  /\ Running("host") /\ hpc = "read"
  /\ IF tx_snapshot_tail # tx_snapshot_head /\ Len(resp) < RESPONSE_MAX - 1
       THEN /\ resp' = IF tx_buf[tx_snapshot_tail] # NUL
                         THEN Append(resp, tx_buf[tx_snapshot_tail]) ELSE resp
            /\ tx_snapshot_tail' = TX_BUF_NEXT(tx_snapshot_tail)
            /\ UNCHANGED <<hpc, stack, read_all>>
       ELSE /\ read_all' = read_all \o resp     \* null-terminate, return
            /\ hpc' = "idle" /\ Pop
            /\ UNCHANGED <<resp, tx_snapshot_tail>>
  /\ UNCHANGED <<tx, rx, wr, tx_snapshot_head, host_cmds, snap_ref, dirty,
                 uart_suspended, accepted, wire>>
-----------------------------------------------------------------------------
Writer(w) ==
  \/ uart_puts(w) \/ tx_char_check(w) \/ tx_char_store(w)
  \/ tx_char_advance(w) \/ uart_puts_end(w)
  \/ uart_flush_output(w) \/ flush_loop(w) \/ flush_process_output(w)

Host ==
  \/ host_command_console_snapshot \/ snapshot_skip
  \/ host_command_console_read \/ console_read_copy

(* Every writer has made all its calls and returned, and the host has   *)
(* sent all its bytes: the model's inputs are used up.                  *)
Terminated ==
  /\ stack = <<>> /\ rx_pos = Len(RxLine)
  /\ \A w \in Writers : wpc[w] = "idle" /\ wcalls[w] = <<>>
  /\ UNCHANGED vars

Next ==
  \/ \E w \in Writers : Writer(w)
  \/ uart_process_output \/ uart_process_output_dma \/ uart_tx_dma_done
  \/ uart_process_input
  \/ uart_getc \/ Host
  \/ Terminated

(* Every context runs once it is innermost, and the UART interrupt is    *)
(* served while enabled.  The host's bytes arrive; the host and the      *)
(* console are under no obligation to issue commands or read input.      *)
Fairness ==
  /\ \A w \in Writers : WF_vars(Writer(w))
  /\ WF_vars(uart_process_output)
  /\ WF_vars(uart_process_output_dma) /\ WF_vars(uart_tx_dma_done)
  /\ WF_vars(uart_process_input)
  /\ WF_vars(snapshot_skip) /\ WF_vars(console_read_copy)

Spec == Init /\ [][Next]_vars /\ Fairness
-----------------------------------------------------------------------------
TypeOK ==
  /\ tx_buf_head \in 0..TX_BUF_SIZE - 1 /\ tx_buf_tail \in 0..TX_BUF_SIZE - 1
  /\ rx_buf_head \in 0..RX_BUF_SIZE - 1 /\ rx_buf_tail \in 0..RX_BUF_SIZE - 1
  /\ tx_snapshot_head \in 0..TX_BUF_SIZE - 1
  /\ tx_snapshot_tail \in 0..TX_BUF_SIZE - 1
  /\ uart_suspended \in 0..1 /\ tx_int \in BOOLEAN
  /\ tx_dma_in_progress \in 0..TX_BUF_SIZE - 1 /\ dma_busy \in BOOLEAN
  /\ wpc \in [Writers -> {"idle", "check", "store", "advance", "start",
                          "flush"}]
  /\ hpc \in {"idle", "scan", "read"} /\ host_cmds \in 0..MaxHostCommands
  /\ Len(stack) <= Cardinality(Contexts)

(* Bytes of a finished DMA transfer the ring has not yet freed *)
SentUnfreed == IF dma_busy THEN 0 ELSE tx_dma_in_progress

(* The bytes waiting in the ring to be sent: from tx_buf_tail, past any *)
(* sent but not yet freed, up to tx_buf_head.                           *)
Pending ==
  LET from == (tx_buf_tail + SentUnfreed) % TX_BUF_SIZE IN
  [i \in 1..TX_BUF_DIFF(tx_buf_head, from) |->
     tx_buf[(from + i - 1) % TX_BUF_SIZE]]

(* Every byte __tx_char accepted (returned 0 for) is either sent or     *)
(* waiting between tail and head, in the order accepted: none is lost,  *)
(* duplicated or reordered between the printing contexts, which may     *)
(* preempt one another inside __tx_char, and the transmit interrupt.    *)
TxAccounted == accepted = wire \o Pending

(* uart_flush_output returns only once every byte accepted before it   *)
(* was called has gone out, from task context through the interrupt it  *)
(* re-enables and from interrupt context through its own calls of        *)
(* uart_process_output, and with DMA only once the transfers holding     *)
(* those bytes have finished.                                            *)
FlushDrains ==
  [][\A w \in Writers :
       wpc[w] = "flush" /\ wpc'[w] = "idle"
         => IsPrefix(SubSeq(accepted, 1, flush_mark[w]), wire')]_vars

(* The bytes waiting in the receive ring, from rx_buf_tail to rx_buf_head *)
RxPending ==
  [i \in 1..(rx_buf_head - rx_buf_tail + RX_BUF_SIZE) % RX_BUF_SIZE |->
     rx_buf[(rx_buf_tail + i - 1) % RX_BUF_SIZE]]

(* Every byte the receive interrupt buffered is either already returned *)
(* by uart_getc or still waiting between tail and head, in arrival      *)
(* order: a byte arriving while the console is behind never overwrites  *)
(* one it has not read.                                                  *)
RxAccounted == rx_stored = got \o RxPending

(* Undisturbed by output since the snapshot, the console reads after    *)
(* EC_CMD_CONSOLE_SNAPSHOT return, across response-sized pieces, the     *)
(* last TX_BUF_SIZE - 1 bytes accepted when the snapshot was taken,      *)
(* oldest first, even if a writer was preempted half-way through         *)
(* __tx_char.                                                            *)
ConsoleReadFaithful == ~dirty => IsPrefix(read_all, snap_ref)

(* uart_flush_output returns: its comment says a suspended UART makes it *)
(* ignore the flush rather than wait.                                    *)
FlushReturns == \A w \in Writers : wpc[w] = "flush" ~> wpc[w] = "idle"
=============================================================================
