-------------------------------- MODULE Uart --------------------------------
(***************************************************************************)
(* The UART driver (pivos/src/dev/uart.c) between a user program and the   *)
(* device: a PL011 with two FIFOs, whose combined interrupt line the       *)
(* kernel registers as edge-triggered (main.c:44-47).                      *)
(*                                                                         *)
(* Calls and handler run with interrupts masked, so that the driver never  *)
(* interleaves with itself; the device works beside it.  One action goes   *)
(* from one access of a device register to the next.  The rings are the    *)
(* bounded queues of module Queue, which theorem RingImplementsQueue lets  *)
(* them be.                                                                *)
(*                                                                         *)
(* The program numbers the bytes it writes 1, 2, ... and offers again what *)
(* a call did not take; bytes it polls out are all POLLED.  The bytes that *)
(* arrive are numbered 1, 2, ... too.                                      *)
(***************************************************************************)
EXTENDS Integers, Sequences

CONSTANTS
  RING,     \* KDEV_UART_RING_SIZE: 4096
  DEPTH,    \* bytes in each FIFO of the device
  TXLEVEL,  \* TXIFLSEL: the transmit interrupt is raised at this level
  RXLEVEL,  \* RXIFLSEL: the receive interrupt is raised at this level
  SIZES,    \* lengths of the program's reads and writes
  MAX_OUT,  \* bound: bytes the program writes
  MAX_POLL, \* bound: bytes the program polls out
  MAX_IN    \* bound: bytes that arrive

ASSUME UartAssumption ==
  /\ RING \in Nat \ {0}
  /\ TXLEVEL \in Nat /\ RXLEVEL \in Nat \ {0}
  /\ DEPTH \in Nat /\ TXLEVEL < DEPTH /\ RXLEVEL <= DEPTH
  /\ SIZES \subseteq Nat
  /\ MAX_OUT \in Nat /\ MAX_POLL \in Nat /\ MAX_IN \in Nat

VARIABLES
  tx, rx,          \* the rings
  txfifo, rxfifo,  \* the FIFOs of the device
  txris,           \* the raw transmit interrupt
  pending,         \* the GIC has seen an edge of the line
  pc,              \* "user", or the next access or loop head of the driver
  caller,          \* who called sync_write or sync_read
  byte,            \* local of sync_write: the byte taken from the ring
  mis_rx,          \* local of the handler: RXMIS
  n, idx, dst,     \* arguments, counter and destination of the call
  base,            \* bytes the program knows to be written
  polled,          \* bytes the program knows to be polled out
  delivered,       \* bytes the program has read
  sent,            \* bytes on the wire
  arrived, lost    \* bytes that came in, and those the device dropped

rings   == <<tx, rx>>
device  == <<txfifo, rxfifo, txris, pending>>
locals  == <<caller, byte, mis_rx, n, idx, dst>>
program == <<base, polled, delivered>>
wire    == <<sent, arrived, lost>>
vars    == <<rings, device, pc, locals, program, wire>>

POLLED == 0
Out == 0 .. MAX_OUT
In  == 1 .. MAX_IN

TypeOK ==
  /\ tx \in Seq(Out) /\ Len(tx) <= RING
  /\ rx \in Seq(In) /\ Len(rx) <= RING
  /\ txfifo \in Seq(Out) /\ Len(txfifo) <= DEPTH
  /\ rxfifo \in Seq(In) /\ Len(rxfifo) <= DEPTH
  /\ txris \in BOOLEAN /\ pending \in BOOLEAN /\ mis_rx \in BOOLEAN
  /\ pc \in {"user", "isr", "eoi", "write", "tx_fr", "tx_dr",
             "read", "taken", "rx_fr", "rx_dr", "poll_fr", "poll_dr"}
  /\ caller \in {"none", "write", "read", "isr"}
  /\ byte \in Out
  /\ n \in SIZES \cup {0} /\ idx \in 0 .. n
  /\ base \in Out /\ polled \in 0 .. MAX_POLL
  /\ sent \in Seq(Out) /\ delivered \in Seq(In) /\ dst \in Seq(In)
  /\ arrived \in 0 .. MAX_IN /\ lost \subseteq In

\* dev_uart_init: both FIFOs empty, both interrupts enabled.
Init ==
  /\ tx = <<>> /\ rx = <<>> /\ txfifo = <<>> /\ rxfifo = <<>>
  /\ txris = FALSE /\ pending = FALSE /\ mis_rx = FALSE
  /\ pc = "user" /\ caller = "none" /\ byte = 0
  /\ n = 0 /\ idx = 0 /\ dst = <<>>
  /\ base = 0 /\ polled = 0 /\ delivered = <<>>
  /\ sent = <<>> /\ arrived = 0 /\ lost = {}

-----------------------------------------------------------------------------
(***************************************************************************)
(* The device.  The transmit interrupt is raised when the FIFO falls to    *)
(* its level and lowered when it is filled above it; the receive interrupt *)
(* lasts as long as the FIFO holds its level of bytes.  The driver never   *)
(* clears one by the clear register.                                       *)
(***************************************************************************)
RXRIS == Len(rxfifo) >= RXLEVEL
Line  == txris \/ RXRIS

\* The GIC remembers a rising edge of the line, even of an active interrupt.
Edge == pending' = (pending \/ (~Line /\ Line'))

Transmit ==
  /\ txfifo # <<>>
  /\ sent' = Append(sent, Head(txfifo))
  /\ txfifo' = Tail(txfifo)
  /\ txris' = (txris \/ Len(txfifo) = TXLEVEL + 1)
  /\ UNCHANGED <<rings, rxfifo, pc, locals, program, arrived, lost>>
  /\ Edge

Receive ==
  /\ arrived < MAX_IN
  /\ arrived' = arrived + 1
  /\ IF Len(rxfifo) < DEPTH
       THEN rxfifo' = Append(rxfifo, arrived + 1) /\ lost' = lost
       ELSE rxfifo' = rxfifo /\ lost' = lost \cup {arrived + 1}
  /\ UNCHANGED <<rings, txfifo, txris, pc, locals, program, sent>>
  /\ Edge

\* Registers FR and DR.
TXFF == Len(txfifo) = DEPTH
RXFE == rxfifo = <<>>

WriteDR(c) ==
  /\ txfifo' = IF TXFF THEN txfifo ELSE Append(txfifo, c)
  /\ txris' = (txris /\ Len(txfifo') <= TXLEVEL)
  /\ UNCHANGED <<rxfifo, pending>>

-----------------------------------------------------------------------------
(***************************************************************************)
(* dev_uart_sync_write and dev_uart_sync_read.                             *)
(***************************************************************************)
Return ==
  /\ pc' = CASE caller = "write" -> "write"
             [] caller = "read"  -> "taken"
             [] caller = "isr" /\ pc = "tx_fr" /\ mis_rx -> "rx_fr"
             [] OTHER -> "eoi"
  /\ idx' = IF caller = "write" THEN idx + 1 ELSE idx

FifoFull ==
  /\ pc = "tx_fr"
  /\ TXFF
  /\ Return
  /\ UNCHANGED <<rings, device, caller, byte, mis_rx, n, dst, program, wire>>

RingEmpty ==
  /\ pc = "tx_fr"
  /\ ~TXFF
  /\ tx = <<>>
  /\ Return
  /\ UNCHANGED <<rings, device, caller, byte, mis_rx, n, dst, program, wire>>

\* A driver that takes a byte from the ring before it looks at the FIFO.
TakeBlindly ==
  /\ pc = "tx_fr"
  /\ tx # <<>>
  /\ byte' = Head(tx)
  /\ tx' = Tail(tx)
  /\ pc' = "tx_dr"
  /\ UNCHANGED <<rx, device, caller, mis_rx, n, idx, dst, program, wire>>

TakeByte ==
  /\ pc = "tx_fr"
  /\ ~TXFF
  /\ tx # <<>>
  /\ byte' = Head(tx)
  /\ tx' = Tail(tx)
  /\ pc' = "tx_dr"
  /\ UNCHANGED <<rx, device, caller, mis_rx, n, idx, dst, program, wire>>

\* A driver that stops after one byte although there are more.
FeedOnce ==
  /\ pc = "tx_dr"
  /\ WriteDR(byte)
  /\ byte' = 0
  /\ Return
  /\ UNCHANGED <<rings, caller, mis_rx, n, dst, program, wire>>

FeedByte ==
  /\ pc = "tx_dr"
  /\ WriteDR(byte)
  /\ byte' = 0
  /\ pc' = "tx_fr"
  /\ UNCHANGED <<rings, caller, mis_rx, n, idx, dst, program, wire>>

dev_uart_sync_write == FifoFull \/ RingEmpty \/ TakeByte \/ FeedByte

FifoEmpty ==
  /\ pc = "rx_fr"
  /\ RXFE
  /\ Return
  /\ UNCHANGED <<rings, device, caller, byte, mis_rx, n, dst, program, wire>>

\* A driver that waits for room in the ring instead of giving up.
WaitForRoom ==
  /\ pc = "rx_fr"
  /\ ~RXFE
  /\ Len(rx) = RING
  /\ UNCHANGED vars

NoRoom ==
  /\ pc = "rx_fr"
  /\ ~RXFE
  /\ Len(rx) = RING
  /\ Return
  /\ UNCHANGED <<rings, device, caller, byte, mis_rx, n, dst, program, wire>>

\* A driver that reads the device without looking for room in the ring.
FetchAlways ==
  /\ pc = "rx_fr"
  /\ ~RXFE
  /\ pc' = "rx_dr"
  /\ UNCHANGED <<rings, device, locals, program, wire>>

ByteReady ==
  /\ pc = "rx_fr"
  /\ ~RXFE
  /\ Len(rx) # RING
  /\ pc' = "rx_dr"
  /\ UNCHANGED <<rings, device, locals, program, wire>>

FetchByte ==
  /\ pc = "rx_dr"
  /\ rx' = IF Len(rx) = RING THEN rx ELSE Append(rx, Head(rxfifo))
  /\ rxfifo' = Tail(rxfifo)
  /\ pc' = "rx_fr"
  /\ UNCHANGED <<tx, txfifo, txris, pending, locals, program, wire>>

dev_uart_sync_read == FifoEmpty \/ NoRoom \/ ByteReady \/ FetchByte

-----------------------------------------------------------------------------
(***************************************************************************)
(* The handler, from the GIC's acknowledgement (gicv2_dispatch) to its end *)
(* of interrupt.  Only a program runs with interrupts unmasked.            *)
(***************************************************************************)
gicv2_dispatch ==
  /\ pc = "user"
  /\ pending
  /\ pending' = FALSE
  /\ caller' = "isr"
  /\ pc' = "isr"
  /\ UNCHANGED <<rings, txfifo, rxfifo, txris, byte, mis_rx, n, idx, dst, program, wire>>

dev_uart_kdev_isr ==
  /\ pc = "isr"
  /\ mis_rx' = RXRIS
  /\ pc' = IF txris THEN "tx_fr" ELSE IF RXRIS THEN "rx_fr" ELSE "eoi"
  /\ UNCHANGED <<rings, device, caller, byte, n, idx, dst, program, wire>>

gicv2_end_isr ==
  /\ pc = "eoi"
  /\ caller' = "none" /\ mis_rx' = FALSE
  /\ pc' = "user"
  /\ UNCHANGED <<rings, device, byte, n, idx, dst, program, wire>>

-----------------------------------------------------------------------------
(***************************************************************************)
(* The system calls: write, read and poll out.                             *)
(***************************************************************************)
WriteCall ==
  /\ pc = "user"
  /\ n' \in {size \in SIZES : base + size <= MAX_OUT}
  /\ pc' = "write" /\ caller' = "write"
  /\ UNCHANGED <<rings, device, byte, mis_rx, idx, dst, program, wire>>

\* A write that leaves it to the handler to feed the device.
WriteWithoutSync ==
  /\ pc = "write"
  /\ idx < n /\ Len(tx) # RING
  /\ tx' = Append(tx, base + idx + 1)
  /\ idx' = idx + 1
  /\ UNCHANGED <<rx, device, pc, caller, byte, mis_rx, n, dst, program, wire>>

\* A write whose loop takes one byte too many.
WriteTooMany ==
  /\ pc = "write"
  /\ idx <= n /\ Len(tx) # RING /\ base + idx < MAX_OUT
  /\ tx' = Append(tx, base + idx + 1)
  /\ pc' = "tx_fr"
  /\ UNCHANGED <<rx, device, locals, program, wire>>

WriteByte ==
  /\ pc = "write"
  /\ idx < n /\ Len(tx) # RING
  /\ tx' = Append(tx, base + idx + 1)
  /\ pc' = "tx_fr"
  /\ UNCHANGED <<rx, device, locals, program, wire>>

\* The loop ends, or breaks on a full ring; idx is what the call returns.
WriteReturns ==
  /\ pc = "write"
  /\ idx = n \/ Len(tx) = RING
  /\ base' = base + idx
  /\ n' = 0 /\ idx' = 0 /\ caller' = "none"
  /\ pc' = "user"
  /\ UNCHANGED <<rings, device, byte, mis_rx, dst, polled, delivered, wire>>

dev_uart_kdev_write == WriteByte \/ WriteReturns

ReadCall ==
  /\ pc = "user"
  /\ n' \in SIZES
  /\ pc' = "read" /\ caller' = "read"
  /\ UNCHANGED <<rings, device, byte, mis_rx, idx, dst, program, wire>>

\* A read that takes only what the handler has brought into the ring.
ReadRingOnly ==
  /\ pc = "read"
  /\ idx < n
  /\ pc' = "taken"
  /\ UNCHANGED <<rings, device, locals, program, wire>>

ReadSyncs ==
  /\ pc = "read"
  /\ idx < n
  /\ pc' = "rx_fr"
  /\ UNCHANGED <<rings, device, locals, program, wire>>

ReadByte ==
  /\ pc = "taken"
  /\ rx # <<>>
  /\ dst' = Append(dst, Head(rx))
  /\ rx' = Tail(rx)
  /\ idx' = idx + 1
  /\ pc' = "read"
  /\ UNCHANGED <<tx, device, caller, byte, mis_rx, n, program, wire>>

ReadReturns ==
  /\ \/ pc = "read" /\ idx = n
     \/ pc = "taken" /\ rx = <<>>
  /\ delivered' = delivered \o SubSeq(dst, 1, idx)
  /\ n' = 0 /\ idx' = 0 /\ dst' = <<>> /\ caller' = "none"
  /\ pc' = "user"
  /\ UNCHANGED <<rings, device, byte, mis_rx, base, polled, wire>>

dev_uart_kdev_read == ReadSyncs \/ ReadByte \/ ReadReturns

PollCall ==
  /\ pc = "user"
  /\ polled < MAX_POLL
  /\ pc' = "poll_fr"
  /\ UNCHANGED <<rings, device, locals, program, wire>>

PollWaits ==
  /\ pc = "poll_fr"
  /\ TXFF
  /\ pc' = "user"
  /\ UNCHANGED <<rings, device, locals, program, wire>>

PollReady ==
  /\ pc = "poll_fr"
  /\ ~TXFF
  /\ pc' = "poll_dr"
  /\ UNCHANGED <<rings, device, locals, program, wire>>

PollByte ==
  /\ pc = "poll_dr"
  /\ WriteDR(POLLED)
  /\ polled' = polled + 1
  /\ pc' = "user"
  /\ UNCHANGED <<rings, locals, base, delivered, wire>>

dev_uart_kdev_pool_out == PollWaits \/ PollReady \/ PollByte

-----------------------------------------------------------------------------
KernelStep ==
  \/ dev_uart_sync_write \/ dev_uart_sync_read
  \/ dev_uart_kdev_isr \/ gicv2_end_isr
  \/ dev_uart_kdev_write \/ dev_uart_kdev_read \/ dev_uart_kdev_pool_out

Next ==
  \/ Transmit \/ Receive
  \/ gicv2_dispatch
  \/ WriteCall \/ ReadCall \/ PollCall
  \/ KernelStep

(***************************************************************************)
(* The kernel goes on, the device transmits, and a pending interrupt is    *)
(* taken, however often the program calls the kernel: between two calls    *)
(* interrupts are unmasked.  The program need not call, nor the line bring *)
(* bytes.                                                                  *)
(***************************************************************************)
Fairness ==
  /\ WF_vars(KernelStep)
  /\ WF_vars(Transmit)
  /\ SF_vars(gicv2_dispatch)

Spec == Init /\ [][Next]_vars /\ Fairness

-----------------------------------------------------------------------------
(***************************************************************************)
(* Properties.                                                             *)
(***************************************************************************)
InHand == IF pc = "tx_dr" THEN <<byte>> ELSE <<>>

AllOut == sent \o txfifo \o InHand \o tx

AllIn == delivered \o dst \o rx \o rxfifo

\* The numbered bytes of a sequence, and that they lie in the order of their
\* numbers, each once.
Numbered(s) == {s[i] : i \in DOMAIN s} \ {POLLED}

InOrder(s) ==
  \A i, j \in DOMAIN s : i < j /\ s[i] # POLLED /\ s[j] # POLLED => s[i] < s[j]

\* What the program has written lies on the wire, in the FIFO, in the
\* driver's hand and in the ring, in this order, each byte once: the count
\* that write returns is exact, so that a program that offers the rest again
\* neither repeats nor skips a byte, and the program's polled bytes are
\* neither lost nor repeated among them.
SentInOrder ==
  /\ InOrder(AllOut)
  /\ \E k \in Out : Numbered(AllOut) = 1 .. k
  /\ pc = "user" => Numbered(AllOut) = 1 .. base /\ Len(AllOut) = base + polled

\* Every byte that arrived and that the device did not drop is with the
\* program, in its buffer, in the ring or in the FIFO, in the order of
\* arrival: sync_read takes no byte that the ring cannot hold, and read
\* returns the bytes it took.
ReceivedInOrder == InOrder(AllIn) /\ Numbered(AllIn) = (1 .. arrived) \ lost

\* While a program runs, bytes left in the ring have their wake-up: the
\* interrupt is pending already, or the FIFO is above its level and will
\* raise an edge when it falls.  (With input this fails: see README.)
TxWakes ==
  pc = "user" /\ tx # <<>> => pending \/ Len(txfifo) > TXLEVEL

\* Every byte that write has accepted is sent, by interrupts alone, even if
\* the program never calls again.
TxDrains ==
  \A c \in 1 .. MAX_OUT : (\E i \in DOMAIN tx : tx[i] = c) ~> (\E i \in DOMAIN sent : sent[i] = c)

\* The loops of the driver end: each call and each interrupt returns to the
\* program, although the device works on beside them.
CallsReturn == pc # "user" ~> pc = "user"

\* A program that keeps reading gets every byte that was not dropped, even
\* when the interrupt is stuck, because read looks at the device itself.
RxByPolling ==
  []<>(pc = "read" /\ n > 0) =>
    \A c \in In : (\E i \in DOMAIN rxfifo : rxfifo[i] = c)
                     ~> (\E i \in DOMAIN delivered : delivered[i] = c)
=============================================================================
