-------------------------------- MODULE Uart --------------------------------
(***************************************************************************)
(* The UART (platform/common/uart_if.cpp) with its host threads            *)
(* (fd_abstract_uart.cpp) and its two users of the receive side: the       *)
(* terminal with its escape filter (uart.cpp), one byte at a time, and     *)
(* SLIP (slip.cpp), which pushes a whole packet in one handle_input.       *)
(* Software on the hart pushes into tx_fifo and pulls from rx_fifo, a      *)
(* transmit and a receive thread do the opposite, two semaphores count     *)
(* bytes and free places, and an asynchronous event makes the simulation   *)
(* decide whether to trigger the interrupt.                                *)
(*                                                                         *)
(* Bytes are numbered as they enter; KEY_ESC is the one whose value        *)
(* matters.  A section under a mutex is one step.                          *)
(***************************************************************************)
EXTENDS Integers, Sequences

CONSTANTS
  UART_FIFO_DEPTH,
  UartMaxSent,         \* bound on the bytes software sends
  UartMaxTyped,        \* bound on the bytes the host sends
  UartWatermarks,      \* values software writes to txctrl and rxctrl
  UartFrames           \* lengths of packets SLIP pushes, escapes and END included

ASSUME UartAssumption ==
  /\ UART_FIFO_DEPTH \in Nat \ {0}
  /\ UartMaxSent \in Nat /\ UartMaxTyped \in Nat
  /\ UartWatermarks \subseteq Nat
  /\ UartFrames \subseteq Nat \ {0}

VARIABLES
  txFifo, rxFifo,
  txfull,          \* semaphore: bytes to transmit
  rxempty,         \* semaphore: free places in rx_fifo
  txcnt, rxcnt,    \* watermarks of txctrl and rxctrl
  uartIe,          \* ie, a subset of {"tx", "rx"}
  asyncEvent,      \* requested
  txPc, txData,    \* transmit thread
  rxPc, rxData,    \* receive thread
  rxLeft,          \* bytes handle_input has to push after rxData
  uartKind,        \* "terminal" or "slip"
  keyState,        \* input state machine of the terminal
  uartStop,        \* stop
  uartPosted,      \* stop_threads has joined the transmit thread, written to
                   \* stop_pipe and posted rxempty
  txSent, txOut,   \* history: bytes accepted, bytes written to the host
  rxTyped, rxGot,  \* history: bytes typed that count, bytes software read
  rxTold,          \* history: the interrupt was triggered for rx_fifo
  rxOver           \* history: at the post of stop_threads more bytes were left
                   \* to push than places free

uartVars == <<txFifo, rxFifo, txfull, rxempty, txcnt, rxcnt, uartIe, asyncEvent,
              txPc, txData, rxPc, rxData, rxLeft, uartKind, keyState, uartStop, uartPosted,
              txSent, txOut, rxTyped, rxGot, rxTold, rxOver>>

txThread == <<txPc, txData, txOut>>
rxThread == <<rxPc, rxData, rxLeft, uartKind, keyState, rxTyped, rxOver>>

UartInit ==
  /\ txFifo = <<>> /\ rxFifo = <<>>
  /\ txfull = 0 /\ rxempty = UART_FIFO_DEPTH
  /\ txcnt = 0 /\ rxcnt = 0 /\ uartIe = {}
  /\ asyncEvent = FALSE
  /\ txPc = "swait" /\ txData = 0
  /\ rxPc = "poll" /\ rxData = 0 /\ rxLeft = 0
  /\ uartKind \in {"terminal", "slip"}
  /\ keyState = "NORMAL"
  /\ uartStop = FALSE /\ uartPosted = FALSE
  /\ txSent = 0 /\ txOut = 0 /\ rxTyped = 0 /\ rxGot = 0
  /\ rxTold = FALSE /\ rxOver = FALSE

-----------------------------------------------------------------------------
(* register_access_callback: software on the hart.                         *)

RxAbove == "rx" \in uartIe /\ Len(rxFifo) > rxcnt
TxBelow == "tx" \in uartIe /\ Len(txFifo) < txcnt

\* A trigger counts until the receive condition has been false.
Forget == rxTold' = (rxTold /\ RxAbove')

\* A write that does not look for a free place.
WriteTxdataAlways ==
  /\ txSent < UartMaxSent
  /\ txSent' = txSent + 1
  /\ txFifo' = Append(txFifo, txSent')
  /\ txfull' = txfull + 1
  /\ UNCHANGED <<rxFifo, rxempty, txcnt, rxcnt, uartIe, asyncEvent, uartStop, uartPosted,
                 rxGot, rxTold, txThread, rxThread>>

\* A full FIFO ignores the write.
WriteTxdata ==
  /\ txSent < UartMaxSent
  /\ IF Len(txFifo) >= UART_FIFO_DEPTH
     THEN UNCHANGED <<txFifo, txSent, txfull>>
     ELSE /\ txSent' = txSent + 1
          /\ txFifo' = Append(txFifo, txSent')
          /\ txfull' = txfull + 1
  /\ UNCHANGED <<rxFifo, rxempty, txcnt, rxcnt, uartIe, asyncEvent, uartStop, uartPosted,
                 rxGot, rxTold, txThread, rxThread>>

ReadRxdata ==
  /\ rxFifo # <<>>
  /\ rxGot' = Head(rxFifo)
  /\ rxFifo' = Tail(rxFifo)
  /\ rxempty' = rxempty + 1
  /\ UNCHANGED <<txFifo, txfull, txcnt, rxcnt, uartIe, asyncEvent, uartStop, uartPosted,
                 txSent, txThread, rxThread>>
  /\ Forget

\* The comparison with the old watermark decides about the event, in both
\* registers when the watermark goes down.
WriteTxctrl(n) ==
  /\ txcnt' = n
  /\ asyncEvent' = (asyncEvent \/ n < txcnt)
  /\ UNCHANGED <<txFifo, rxFifo, txfull, rxempty, rxcnt, uartIe, uartStop, uartPosted,
                 txSent, rxGot, rxTold, txThread, rxThread>>

WriteRxctrlQuiet(n) ==
  /\ rxcnt' = n
  /\ UNCHANGED <<txFifo, rxFifo, txfull, rxempty, txcnt, uartIe, uartStop, uartPosted,
                 asyncEvent, txSent, rxGot, txThread, rxThread>>
  /\ Forget

WriteRxctrl(n) ==
  /\ rxcnt' = n
  /\ asyncEvent' = (asyncEvent \/ n < rxcnt)
  /\ UNCHANGED <<txFifo, rxFifo, txfull, rxempty, txcnt, uartIe, uartStop, uartPosted,
                 txSent, rxGot, txThread, rxThread>>
  /\ Forget

WriteIe(E) ==
  /\ uartIe' = E
  /\ asyncEvent' = TRUE
  /\ UNCHANGED <<txFifo, rxFifo, txfull, rxempty, txcnt, rxcnt, uartStop, uartPosted,
                 txSent, rxGot, txThread, rxThread>>
  /\ Forget

\* interrupt: the asynchronous event reached the simulation.
UartInterrupt ==
  /\ asyncEvent
  /\ asyncEvent' = FALSE
  /\ rxTold' = (rxTold \/ RxAbove)
  /\ UNCHANGED <<txFifo, rxFifo, txfull, rxempty, txcnt, rxcnt, uartIe,
                 uartStop, uartPosted, txSent, rxGot, txThread, rxThread>>

-----------------------------------------------------------------------------
(* The transmit thread: txpull, notify, write_data.                        *)

TxSwait ==
  /\ txPc = "swait" /\ txfull > 0
  /\ txfull' = txfull - 1
  /\ txPc' = "pull"
  /\ UNCHANGED <<txFifo, rxFifo, rxempty, txcnt, rxcnt, uartIe, asyncEvent,
                 uartStop, uartPosted, txSent, rxGot, rxTold, txData, txOut, rxThread>>

\* An empty FIFO, after the post of stop_threads, gives the byte 0.
TxPull ==
  /\ txPc = "pull"
  /\ txData' = IF txFifo = <<>> THEN 0 ELSE Head(txFifo)
  /\ txFifo' = IF txFifo = <<>> THEN txFifo ELSE Tail(txFifo)
  /\ txPc' = "check"
  /\ UNCHANGED <<rxFifo, txfull, rxempty, txcnt, rxcnt, uartIe, asyncEvent,
                 uartStop, uartPosted, txSent, rxGot, rxTold, txOut, rxThread>>

TxCheck ==
  /\ txPc = "check"
  /\ IF uartStop
     THEN txPc' = "end" /\ UNCHANGED asyncEvent
     ELSE txPc' = "write" /\ asyncEvent' = TRUE
  /\ UNCHANGED <<txFifo, rxFifo, txfull, rxempty, txcnt, rxcnt, uartIe,
                 uartStop, uartPosted, txSent, rxGot, rxTold, txData, txOut, rxThread>>

TxWrite ==
  /\ txPc = "write"
  /\ txOut' = txData
  /\ txPc' = IF uartStop THEN "end" ELSE "swait"
  /\ UNCHANGED <<txFifo, rxFifo, txfull, rxempty, txcnt, rxcnt, uartIe,
                 asyncEvent, uartStop, uartPosted, txSent, rxGot, rxTold, txData, rxThread>>

(* The receive thread: poll, handle_input, rxpush.                         *)

rxQuiet == <<txFifo, txfull, txcnt, rxcnt, uartIe, uartStop, uartPosted,
             txSent, rxGot, rxTold, txThread, uartKind, rxOver>>

\* handle_input has n bytes to push.
RxInput(n) ==
  /\ rxTyped + n <= UartMaxTyped
  /\ rxTyped' = rxTyped + n /\ rxData' = rxTyped + 1 /\ rxLeft' = n - 1
  /\ rxPc' = "swait"

\* A key: the first escape is kept back, a second one counts, anything else
\* after an escape is a command.  Input counts until the stop pipe is readable,
\* which poll reports first.
RxKey(esc) ==
  /\ uartKind = "terminal"
  /\ rxPc = "poll" /\ ~uartPosted
  /\ keyState' = IF esc /\ keyState = "NORMAL" THEN "COMMAND" ELSE "NORMAL"
  /\ IF esc = (keyState = "COMMAND")
     THEN RxInput(1)
     ELSE /\ rxPc' = IF uartStop THEN "end" ELSE "poll"
          /\ UNCHANGED <<rxTyped, rxData, rxLeft>>
  /\ UNCHANGED <<rxFifo, rxempty, asyncEvent, rxQuiet>>

\* SLIP::handle_input: a packet of the tunnel device.
RxFrame(n) ==
  /\ uartKind = "slip"
  /\ rxPc = "poll" /\ ~uartPosted
  /\ RxInput(n)
  /\ UNCHANGED <<rxFifo, rxempty, asyncEvent, keyState, rxQuiet>>

RxSwait ==
  /\ rxPc = "swait" /\ rxempty > 0
  /\ rxempty' = rxempty - 1
  /\ rxPc' = "push"
  /\ UNCHANGED <<rxFifo, asyncEvent, rxData, rxLeft, keyState, rxTyped, rxQuiet>>

RxPush ==
  /\ rxPc = "push"
  /\ rxFifo' = Append(rxFifo, rxData)
  /\ rxPc' = "notify"
  /\ UNCHANGED <<rxempty, asyncEvent, rxData, rxLeft, keyState, rxTyped, rxQuiet>>

\* The end of rxpush; stop is looked at when handle_input has pushed them all.
RxNotify ==
  /\ rxPc = "notify"
  /\ asyncEvent' = TRUE
  /\ IF rxLeft > 0
     THEN rxPc' = "swait" /\ rxData' = rxData + 1 /\ rxLeft' = rxLeft - 1
     ELSE rxPc' = (IF uartStop THEN "end" ELSE "poll") /\ UNCHANGED <<rxData, rxLeft>>
  /\ UNCHANGED <<rxFifo, rxempty, keyState, rxTyped, rxQuiet>>

\* The stop pipe wakes poll; the loop ends.
RxStop ==
  /\ rxPc = "poll" /\ uartPosted
  /\ rxPc' = "end"
  /\ UNCHANGED <<rxFifo, rxempty, asyncEvent, rxData, rxLeft, keyState, rxTyped, rxQuiet>>

\* A stop that forgets to post txfull.
StopThreadsHalf ==
  /\ ~uartStop
  /\ uartStop' = TRUE
  /\ UNCHANGED <<txFifo, rxFifo, txfull, rxempty, txcnt, rxcnt, uartIe, asyncEvent,
                 uartPosted, txSent, rxGot, rxTold, txThread, rxThread>>

\* stop_threads up to the join of the transmit thread; the hart no longer runs.
StopThreads ==
  /\ ~uartStop
  /\ uartStop' = TRUE
  /\ txfull' = txfull + 1
  /\ UNCHANGED <<txFifo, rxFifo, rxempty, txcnt, rxcnt, uartIe, asyncEvent,
                 uartPosted, txSent, rxGot, rxTold, txThread, rxThread>>

\* Bytes of the present input that wait for a place in rx_fifo.
RxWaiting == IF rxPc = "swait" THEN rxLeft + 1 ELSE rxLeft

\* The rest: the pipe and one post of rxempty, then the join of the receive
\* thread, which is RxStop or RxNotify reaching "end".
StopReceive ==
  /\ uartStop /\ txPc = "end" /\ ~uartPosted
  /\ uartPosted' = TRUE
  /\ rxempty' = rxempty + 1
  /\ rxOver' = (RxWaiting > rxempty')
  /\ UNCHANGED <<txFifo, rxFifo, txfull, txcnt, rxcnt, uartIe, asyncEvent, uartStop,
                 txSent, rxGot, rxTold, txThread, rxPc, rxData, rxLeft, uartKind,
                 keyState, rxTyped>>

UartSoftware ==
  /\ ~uartStop
  /\ \/ WriteTxdata
     \/ ReadRxdata
     \/ \E n \in UartWatermarks : WriteTxctrl(n) \/ WriteRxctrl(n)
     \/ \E E \in {{}, {"rx"}, {"tx", "rx"}} : WriteIe(E)
     \/ UartInterrupt

UartTransmit == TxSwait \/ TxPull \/ TxCheck \/ TxWrite
UartReceive ==
  \/ \E esc \in BOOLEAN : RxKey(esc)
  \/ \E n \in UartFrames : RxFrame(n)
  \/ RxSwait \/ RxPush \/ RxNotify \/ RxStop

UartStep ==
  UartSoftware \/ UartTransmit \/ UartReceive \/ StopThreads \/ StopReceive

\* The host schedules both threads and the destructor that joins them; it need
\* not type.
UartFairness ==
  /\ WF_uartVars(UartTransmit)
  /\ WF_uartVars(RxSwait \/ RxPush \/ RxNotify \/ RxStop)
  /\ WF_uartVars(StopReceive)

UartSpec == UartInit /\ [][UartStep]_uartVars /\ UartFairness

-----------------------------------------------------------------------------

\* The numbers first + 1, first + 2, ... in order.
Consecutive(first, s) == \A i \in 1 .. Len(s) : s[i] = first + i

\* No interleaving of software, the two threads and stop_threads loses,
\* repeats or reorders a byte: what entered is what came out, then what the
\* threads hold, then the FIFO; and neither FIFO outgrows its depth (one place
\* more once stop_threads has posted rxempty).
UartInOrder ==
  LET txHeld == IF txPc \in {"check", "write"} /\ txData # 0 THEN <<txData>> ELSE <<>>
      rxHeld == IF rxPc \in {"swait", "push"} THEN <<rxData>> ELSE <<>>
  IN /\ ~uartStop => /\ Consecutive(txOut, txHeld \o txFifo)
                     /\ txOut + Len(txHeld \o txFifo) = txSent
     /\ Consecutive(rxGot, rxFifo \o rxHeld)
     /\ rxGot + Len(rxFifo \o rxHeld) + rxLeft = rxTyped
     /\ Len(txFifo) <= UART_FIFO_DEPTH
     /\ Len(rxFifo) <= UART_FIFO_DEPTH + (IF uartPosted THEN 1 ELSE 0)

\* A receive FIFO above its watermark, with the interrupt enabled, has been
\* announced, or the event or the thread that will announce it is on its way:
\* no order of pushes, watermark and enable writes loses the interrupt.
UartRxAnnounced ==
  RxAbove => rxTold \/ asyncEvent \/ rxPc = "notify"

\* stop_threads (fd_abstract_uart.cpp:38-55) joins both threads.  The transmit
\* thread always ends, and so does the receive thread of a terminal: it waits
\* for one place, and one is posted.  That of SLIP ends exactly when what was
\* left of the packet it was pushing fitted into the places free after that one
\* post: otherwise it stays blocked on rxempty, against the comment "unblock
\* receive thread" (line 51), and the join never returns.
UartStops ==
  uartStop ~> /\ txPc = "end" /\ uartPosted
              /\ IF rxOver THEN uartKind = "slip" /\ rxPc = "swait" /\ rxempty = 0
                           ELSE rxPc = "end"
=============================================================================
