------------------------------- MODULE Serial -------------------------------
(***************************************************************************)
(* The serial line of the shell (main.c): USART2_IRQHandler, send_byte and *)
(* recv_byte, with the USART and the terminal at its other end.  The       *)
(* enabling of an interrupt by a task is a read and a write of CR1, with   *)
(* the handler possible in between; calls of the kernel are one step.  An  *)
(* interrupt that is raised is taken before the task goes on.              *)
(*                                                                         *)
(* The terminal is the environment: somebody types keys, at any time, and  *)
(* it shows the last line it was sent.                                     *)
(***************************************************************************)
EXTENDS Integers, Sequences

CONSTANTS
  Key,        \* what may be typed
  MaxKeys,    \* bound: how often
  None

(* What the shell sends of its own: the prompt, what it answers and what   *)
(* it rubs out with.                                                       *)
OwnByte == {"NUL", "NL", "BS", "$", "?", " "}

ASSUME SerialAssumption == None \notin Key \cup OwnByte /\ MaxKeys \in Nat

VARIABLES
  tdr,                  \* the data register of the transmitter, or None
  rdr,                  \* that of the receiver
  overrun,              \* ORE, with nothing in rdr
  cr1,                  \* the interrupts that are enabled
  serial_tx_wait_sem,
  serial_rx_queue,
  frozen,               \* the handler is in while(1)
  io,                   \* the step of send_byte or recv_byte
  loaded,               \* the register CR1 is changed in
  keys,                 \* how many keys the receiver got
  screen, column        \* the last line of the terminal, and the cursor

lineVars == <<tdr, rdr, overrun, cr1, serial_tx_wait_sem, serial_rx_queue, frozen>>
ioVars == <<io, loaded>>
terminalVars == <<keys, screen, column>>
serialVars == <<lineVars, ioVars, terminalVars>>

RxQueueLength == 1

-----------------------------------------------------------------------------
(* The terminal.                                                           *)

Blank(s) == \A k \in 1 .. Len(s) : s[k] = " "

Overwrite(s, col, byte) ==
  [k \in 1 .. (IF col = Len(s) THEN col + 1 ELSE Len(s)) |->
     IF k = col + 1 THEN byte ELSE s[k]]

Show(byte) ==
  CASE byte = "NUL" -> UNCHANGED <<screen, column>>
    [] byte = "NL" -> screen' = <<>> /\ column' = 0
    [] byte = "BS" -> column' = (IF column > 0 THEN column - 1 ELSE 0) /\ UNCHANGED screen
    [] OTHER -> screen' = Overwrite(screen, column, byte) /\ column' = column + 1

(* The transmitter has sent its byte, and is ready for the next.           *)
Transmit ==
  /\ tdr # None
  /\ Show(tdr)
  /\ tdr' = None
  /\ UNCHANGED <<rdr, overrun, cr1, serial_tx_wait_sem, serial_rx_queue, frozen, ioVars, keys>>

(* A key is pressed, and lost if the receiver still has the last one.      *)
Type(key) ==
  /\ keys < MaxKeys
  /\ IF rdr = None THEN rdr' = key /\ keys' = keys + 1 ELSE UNCHANGED <<rdr, keys>>
  /\ UNCHANGED <<tdr, overrun, cr1, serial_tx_wait_sem, serial_rx_queue, frozen>>
  /\ UNCHANGED <<ioVars, screen, column>>

-----------------------------------------------------------------------------
TransmitRaised == "TXE" \in cr1 /\ tdr = None
ReceiveRaised == "RXNE" \in cr1 /\ (rdr # None \/ overrun)
TasksRun == ~frozen /\ ~TransmitRaised /\ ~ReceiveRaised

(* Mutant: the receiver is disabled as well.                               *)
TransmitInterruptDisablesBoth ==
  /\ ~frozen /\ TransmitRaised
  /\ serial_tx_wait_sem' = 1
  /\ cr1' = {}
  /\ UNCHANGED <<tdr, rdr, overrun, serial_rx_queue, frozen, ioVars, terminalVars>>

(* USART2_IRQHandler.  A give of a semaphore that is there already fails   *)
(* and is ignored; a queue that is full freezes the system.                *)
TransmitInterrupt ==
  /\ ~frozen /\ TransmitRaised
  /\ serial_tx_wait_sem' = 1
  /\ cr1' = cr1 \ {"TXE"}
  /\ UNCHANGED <<tdr, rdr, overrun, serial_rx_queue, frozen, ioVars, terminalVars>>

Accepts == Len(serial_rx_queue) < RxQueueLength

(* A key that comes between the handler's reads of SR and of DR is lost,   *)
(* and leaves ORE; one lost before them does not.                          *)
ReceiveInterrupt ==
  /\ ~frozen /\ ~TransmitRaised
  /\ "RXNE" \in cr1 /\ rdr # None
  /\ rdr' = None
  /\ serial_rx_queue' = IF Accepts THEN Append(serial_rx_queue, rdr) ELSE serial_rx_queue
  /\ frozen' = ~Accepts
  /\ overrun' \in BOOLEAN
  /\ UNCHANGED <<tdr, cr1, serial_tx_wait_sem, ioVars, terminalVars>>

(* RXNEIE lets ORE through as well: neither test of the handler succeeds.  *)
OtherInterrupt ==
  /\ ~frozen /\ ~TransmitRaised
  /\ "RXNE" \in cr1 /\ rdr = None /\ overrun
  /\ frozen' = TRUE
  /\ UNCHANGED <<tdr, rdr, overrun, cr1, serial_tx_wait_sem, serial_rx_queue>>
  /\ UNCHANGED <<ioVars, terminalVars>>

(* while(1)                                                                *)
Spin == frozen /\ UNCHANGED serialVars

-----------------------------------------------------------------------------
(* USART_ITConfig(USART2, interrupt, ENABLE)                               *)
LoadCR1(from, to) ==
  /\ TasksRun /\ io = from
  /\ loaded' = cr1
  /\ io' = to
  /\ UNCHANGED <<lineVars, terminalVars>>

StoreCR1(from, to, interrupt) ==
  /\ TasksRun /\ io = from
  /\ cr1' = loaded \cup {interrupt}
  /\ io' = to
  /\ UNCHANGED <<tdr, rdr, overrun, serial_tx_wait_sem, serial_rx_queue, frozen>>
  /\ UNCHANGED <<loaded, terminalVars>>

(* Mutant: the semaphore is asked for once.                                *)
SendWaitOnce ==
  /\ TasksRun /\ io = "send"
  /\ serial_tx_wait_sem' = 0
  /\ io' = "data"
  /\ UNCHANGED <<tdr, rdr, overrun, cr1, serial_rx_queue, frozen, loaded, terminalVars>>

(* send_byte.  Writing the register loses a byte that is still there.      *)
SendWait ==
  /\ TasksRun /\ io = "send"
  /\ serial_tx_wait_sem = 1
  /\ serial_tx_wait_sem' = 0
  /\ io' = "data"
  /\ UNCHANGED <<tdr, rdr, overrun, cr1, serial_rx_queue, frozen, loaded, terminalVars>>

SendData(byte) ==
  /\ TasksRun /\ io = "data"
  /\ tdr' = byte
  /\ io' = "load"
  /\ UNCHANGED <<rdr, overrun, cr1, serial_tx_wait_sem, serial_rx_queue, frozen>>
  /\ UNCHANGED <<loaded, terminalVars>>

SendLoad == LoadCR1("load", "store")
SendEnable(next) == StoreCR1("store", next, "TXE")

(* recv_byte.  What comes after it sets io.                                *)
ReceiveLoad == LoadCR1("receive", "rxstore")
ReceiveEnable == StoreCR1("rxstore", "rxwait", "RXNE")

Receive ==
  /\ TasksRun /\ io = "rxwait"
  /\ serial_rx_queue # <<>>
  /\ serial_rx_queue' = Tail(serial_rx_queue)
  /\ UNCHANGED <<tdr, rdr, overrun, cr1, serial_tx_wait_sem, frozen, loaded, terminalVars>>

-----------------------------------------------------------------------------
(* enable_rs232_interrupts, and the kernel objects of main()               *)
SerialInit ==
  /\ tdr = None /\ rdr = None /\ overrun = FALSE /\ cr1 = {"RXNE"}
  /\ serial_tx_wait_sem = 1 /\ serial_rx_queue = <<>> /\ frozen = FALSE
  /\ io = "done" /\ loaded = {}
  /\ keys = 0 /\ screen = <<>> /\ column = 0
=============================================================================
