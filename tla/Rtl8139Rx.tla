------------------------------ MODULE Rtl8139Rx ------------------------------
(***************************************************************************)
(* The receive path of the RTL8139 driver (Phase-II/pci.c) while the       *)
(* interface is up: the Rx part of rtl8139_interrupt and, as the           *)
(* environment, the chip that fills the receive ring.                      *)
(*                                                                         *)
(* Ring positions are counted in dwords.  A frame lies in the ring as a    *)
(* header dword, which holds its length, and its data up to the next dword *)
(* boundary.  The chip is set up (RCR_WRAP_SHIFT) to write a frame that    *)
(* meets the end of the ring on into the padding behind it; the next one   *)
(* starts where it would have ended in a ring.                             *)
(***************************************************************************)
EXTENDS Integers, Sequences

CONSTANTS
  RX_BUF_LEN,    \* dwords of the ring
  MaxSize,       \* dwords of the longest frame, and of the padding behind the ring
  Sizes,         \* dwords of a frame, header included
  MaxFrames,     \* bound: frames the chip takes in
  MaxErrs        \* bound: interrupts for frames received with an error

ASSUME SizesAssumption ==
  /\ RX_BUF_LEN \in Nat /\ MaxSize \in Nat /\ MaxSize < RX_BUF_LEN
  /\ Sizes # {} /\ Sizes \subseteq 2 .. MaxSize
ASSUME BoundAssumption == MaxFrames \in Nat /\ MaxErrs \in Nat

VARIABLES
  rx_ring,       \* the DMA buffer
  cur_rx,        \* position the driver reads next
  rx_packets, rx_dropped, rx_errors,    \* priv->stats
  hw_wr,         \* position the chip writes next
  hw_rd,         \* position the chip thinks the driver reads next, from CAPR
  isr,           \* the chip's interrupt status register
  rpc,           \* where the interrupt handler is
  status,        \* the handler's local copy of ISR
  rx_size,       \* the handler's local: length in the header it has read
  accepted,      \* ghost: frames the chip has taken in
  handled,       \* ghost: frames the handler has sent up or dropped
  swallowed      \* ghost: an RxOK was cleared that nobody had read

stats  == <<rx_packets, rx_dropped, rx_errors>>
chip   == <<rx_ring, hw_wr, isr>>
vars   == <<stats, chip, cur_rx, hw_rd, rpc, status, rx_size,
            accepted, handled, swallowed>>

\* The ring and the padding a last frame may run into.
Cells   == 0 .. RX_BUF_LEN + MaxSize - 1
NoCell  == [frame |-> -1, part |-> 0, size |-> 0]    \* memory never written
IsrBits == {"RxOK", "RxErr", "RxOverFlow"}

\* The ring of an open during which no frame came before RBSTART was written
\* (pci.c:1081-1096): such a frame moves the chip's position, not the driver's.
Init ==
  /\ rx_ring = [c \in Cells |-> NoCell] /\ cur_rx = 0
  /\ rx_packets = 0 /\ rx_dropped = 0 /\ rx_errors = 0
  /\ hw_wr = 0 /\ hw_rd = 0 /\ isr = {}
  /\ rpc = "idle" /\ status = {} /\ rx_size = 0
  /\ accepted = 0 /\ handled = << >> /\ swallowed = FALSE

-----------------------------------------------------------------------------
(* The chip.                                                               *)

Used == (hw_wr - hw_rd) % RX_BUF_LEN    \* 0 when the ring is empty

\* Header and data are in memory before RxBufEmpty goes off and RxOK on.
ChipReceive ==
  /\ accepted < MaxFrames
  /\ \E n \in Sizes:
       /\ Used + n < RX_BUF_LEN
       /\ rx_ring' = [c \in Cells |->
            IF c \in hw_wr .. hw_wr + n - 1
            THEN [frame |-> accepted, part |-> c - hw_wr, size |-> n]
            ELSE rx_ring[c]]
       /\ hw_wr' = (hw_wr + n) % RX_BUF_LEN
  /\ isr' = isr \cup {"RxOK"}
  /\ accepted' = accepted + 1
  /\ UNCHANGED <<stats, cur_rx, hw_rd, rpc, status, rx_size, handled, swallowed>>

\* No room: the frame is lost on the chip, which counts it (MPC).
ChipOverflow ==
  /\ \E n \in Sizes: Used + n >= RX_BUF_LEN
  /\ isr' = isr \cup {"RxOverFlow"}
  /\ UNCHANGED <<stats, rx_ring, cur_rx, hw_wr, hw_rd, rpc, status, rx_size,
                 accepted, handled, swallowed>>

\* A frame received with an error.
ChipError ==
  /\ "RxErr" \notin isr \cup status /\ rx_errors < MaxErrs
  /\ isr' = isr \cup {"RxErr"}
  /\ UNCHANGED <<stats, rx_ring, cur_rx, hw_wr, hw_rd, rpc, status, rx_size,
                 accepted, handled, swallowed>>

RxBufEmpty == hw_wr = hw_rd

-----------------------------------------------------------------------------
(* rtl8139_interrupt, the part that concerns reception.                    *)

\* The line is shared: the handler may find nothing for it.
IrqReadIsr ==
  /\ rpc = "idle"
  /\ status' = isr
  /\ rpc' = "read"
  /\ UNCHANGED <<stats, chip, cur_rx, hw_rd, rx_size, accepted, handled, swallowed>>

\* WRITEW_F(0xfff, ISR), then the tests of RxErr and RxOK.
IrqAck ==
  /\ rpc = "read"
  /\ isr' = {}
  /\ rx_errors' = rx_errors + (IF "RxErr" \in status THEN 1 ELSE 0)
  /\ rpc' = IF "RxOK" \in status THEN "test" ELSE "idle"
  /\ status' = {}    \* of no use from here on
  /\ swallowed' = (swallowed \/ "RxOK" \in isr \ status)
  /\ UNCHANGED <<rx_packets, rx_dropped, rx_ring, hw_wr, cur_rx, hw_rd,
                 rx_size, accepted, handled>>

\* The loop condition, read from CR.
RxTest ==
  /\ rpc = "test"
  /\ IF RxBufEmpty THEN rpc' = "idle" /\ swallowed' = FALSE
                   ELSE rpc' = "header" /\ UNCHANGED swallowed
  /\ UNCHANGED <<stats, chip, cur_rx, hw_rd, status, rx_size, accepted, handled>>

\* Where the header is read.
Wrapped == IF cur_rx > RX_BUF_LEN THEN cur_rx % RX_BUF_LEN ELSE cur_rx

\* A dword that is no header of a frame gives any length, 0 among them, and
\* with it a memcpy of any size: there is no telling what the kernel does next.
RxHeader ==
  /\ rpc = "header"
  /\ cur_rx' = Wrapped
  /\ IF rx_ring[Wrapped].frame >= 0 /\ rx_ring[Wrapped].part = 0
     THEN rx_size' = rx_ring[Wrapped].size /\ rpc' = "copy"
     ELSE rx_size' = 0 /\ rpc' = "lost"
  /\ UNCHANGED <<stats, chip, hw_rd, status, accepted, handled, swallowed>>

\* The frame the copied dwords belong to, if they are one whole frame.
Copied ==
  LET head == rx_ring[cur_rx]
  IN IF /\ head.size = rx_size
        /\ \A k \in 0 .. rx_size - 1:
             rx_ring[cur_rx + k] = [head EXCEPT !.part = k]
     THEN head.frame ELSE -1

\* An skb, and the frame is copied and goes up; or none, and it is dropped.
RxCopy ==
  /\ rpc = "copy"
  /\ \E skb \in BOOLEAN:
       /\ handled' = Append(handled, [frame |-> Copied, up |-> skb])
       /\ IF skb THEN rx_packets' = rx_packets + 1 /\ UNCHANGED rx_dropped
                 ELSE rx_dropped' = rx_dropped + 1 /\ UNCHANGED rx_packets
  /\ rpc' = "advance"
  /\ UNCHANGED <<rx_errors, chip, cur_rx, hw_rd, status, rx_size, accepted, swallowed>>

\* Mutant: the header dword is not counted.
RxAdvanceShort ==
  /\ rpc = "advance"
  /\ cur_rx' = cur_rx + rx_size - 1
  /\ hw_rd' = (cur_rx + rx_size - 1) % RX_BUF_LEN
  /\ rx_size' = 0
  /\ rpc' = "test"
  /\ UNCHANGED <<stats, chip, status, accepted, handled, swallowed>>

\* Mutant: CAPR is moved on, the driver's own position is not.
RxAdvanceStuck ==
  /\ rpc = "advance"
  /\ hw_rd' = (cur_rx + rx_size) % RX_BUF_LEN
  /\ rx_size' = 0
  /\ rpc' = "test"
  /\ UNCHANGED <<stats, chip, cur_rx, status, accepted, handled, swallowed>>

\* Mutant: CAPR is set to where the chip writes, past frames not yet read.
RxAdvanceToEnd ==
  /\ rpc = "advance"
  /\ cur_rx' = cur_rx + rx_size
  /\ hw_rd' = hw_wr
  /\ rx_size' = 0
  /\ rpc' = "test"
  /\ UNCHANGED <<stats, chip, status, accepted, handled, swallowed>>

\* Mutant: one frame per interrupt, an if in the place of the while.
RxAdvanceOnce ==
  /\ rpc = "advance"
  /\ cur_rx' = cur_rx + rx_size
  /\ hw_rd' = (cur_rx + rx_size) % RX_BUF_LEN
  /\ rx_size' = 0
  /\ rpc' = "idle"
  /\ UNCHANGED <<stats, chip, status, accepted, handled, swallowed>>

\* The chip takes CAPR modulo the ring.
RxAdvance ==
  /\ rpc = "advance"
  /\ cur_rx' = cur_rx + rx_size
  /\ hw_rd' = (cur_rx + rx_size) % RX_BUF_LEN
  /\ rx_size' = 0
  /\ rpc' = "test"
  /\ UNCHANGED <<stats, chip, status, accepted, handled, swallowed>>

Irq == IrqReadIsr \/ IrqAck \/ RxTest \/ RxHeader \/ RxCopy \/ RxAdvance

-----------------------------------------------------------------------------

Next == ChipReceive \/ ChipOverflow \/ ChipError \/ Irq

Spec == Init /\ [][Next]_vars

-----------------------------------------------------------------------------
(* Properties                                                              *)

\* Every variable has its type; a position is inside the memory allocated.
TypeOK ==
  /\ rx_ring \in [Cells -> [frame: Int, part: Nat, size: Nat]]
  /\ cur_rx \in Cells
  /\ rx_packets \in Nat /\ rx_dropped \in Nat /\ rx_errors \in Nat
  /\ hw_wr \in 0 .. RX_BUF_LEN - 1 /\ hw_rd \in 0 .. RX_BUF_LEN - 1
  /\ isr \subseteq IsrBits /\ status \subseteq IsrBits
  /\ rpc \in {"idle", "read", "test", "header", "copy", "advance", "lost"}
  /\ rx_size \in Sizes \cup {0}
  /\ accepted \in Nat /\ handled \in Seq([frame: Int, up: BOOLEAN])
  /\ swallowed \in BOOLEAN

\* As long as the handler finds the headers, every frame the chip took in is
\* handled once, whole and in order: no frame is overwritten before it is
\* copied, or read twice, or skipped (pci.c:633-735).
Stream == INSTANCE FrameStream WITH packets <- rx_packets, dropped <- rx_dropped

RefinesFrameStream == Stream!Spec

\* "perform address-wrap if at end-of-buffer" (pci.c:640).  There is one place
\* where the handler can miss a header all the same: the very end of the ring,
\* which the test with > in the place of >= does not wrap (pci.c:641).
LostOnlyAtEnd == rpc = "lost" => cur_rx = RX_BUF_LEN

\* The ring is empty for the chip only when the driver has handled every frame:
\* CAPR never runs ahead of the driver (pci.c:731-734).
EmptyMeansHandled ==
  RxBufEmpty /\ rpc \in {"idle", "read", "test"} => Len(handled) = accepted

\* A frame stays in the ring, with the handler gone and no interrupt pending,
\* only where the write of 0xfff to ISR cleared an RxOK the read before it did
\* not show (pci.c:497-498).
LeftOnlyIfSwallowed ==
  rpc = "idle" /\ isr = {} /\ ~RxBufEmpty => swallowed

-----------------------------------------------------------------------------
(* The inductive invariants behind these properties.                       *)

\* Frames whose room has been given back to the chip.
Freed == IF rpc = "advance" THEN Len(handled) - 1 ELSE Len(handled)

\* The cell d dwords behind the one the chip thinks is read next.
Cell(d) == IF hw_rd + d < RX_BUF_LEN THEN hw_rd + d ELSE hw_rd + d - RX_BUF_LEN

Stored(k, c, n) ==
  \A i \in 0 .. n - 1: rx_ring[c + i] = [frame |-> k, part |-> i, size |-> n]

\* Frame k begins dist[k] dwords behind hw_rd: the frames not yet given back lie
\* one behind the other, whole, up to where the chip writes, and two dwords or more
\* for each.
Laid(dist) ==
  /\ dist \in [Freed .. accepted -> 0 .. RX_BUF_LEN - 1]
  /\ dist[Freed] = 0 /\ dist[accepted] = Used
  /\ \A j \in Freed .. accepted - 1:
       \A k \in j + 1 .. accepted: dist[j + 1] + 2 * (k - j - 1) <= dist[k]
  /\ \A k \in Freed .. accepted - 1:
       /\ dist[k + 1] - dist[k] \in Sizes
       /\ Stored(k, Cell(dist[k]), dist[k + 1] - dist[k])
  /\ rpc \in {"copy", "advance"} => rx_size = dist[Freed + 1]

\* Where the driver is in the ring: a length at most behind the chip's view.
PlaceInv ==
  /\ Freed <= accepted
  /\ rpc \in {"header", "copy", "advance"} => Freed < accepted
  /\ rpc = "advance" => Len(handled) > 0
  /\ rpc \in {"copy", "advance"} => cur_rx = hw_rd
  /\ cur_rx \in {hw_rd, hw_rd + RX_BUF_LEN}
  /\ rx_ring[RX_BUF_LEN].frame >= 0 => rx_ring[RX_BUF_LEN].part # 0

RingInv == \E dist \in [Freed .. accepted -> 0 .. RX_BUF_LEN - 1]: Laid(dist)

\* A frame in the ring has an interrupt to report it, or a handler on its way.
ReportInv ==
  ~RxBufEmpty => /\ rpc = "idle" => swallowed \/ "RxOK" \in isr
                 /\ rpc = "read" => swallowed \/ "RxOK" \in isr \cup status

RxRingInv == TypeOK /\ PlaceInv /\ RingInv /\ LostOnlyAtEnd

-----------------------------------------------------------------------------
(* What follows from them.                                                 *)

\* A bound on the steps the handler still makes: four for each frame in the ring.
RxLeft ==
  IF rpc \in {"idle", "lost"} THEN 0
  ELSE 4 * (accepted - Freed) +
       (IF rpc = "read" THEN 2 ELSE IF rpc = "test" THEN 1
        ELSE IF rpc = "copy" THEN -1 ELSE IF rpc = "advance" THEN -2 ELSE 0)

\* The loop of the handler ends when the chip has nothing more to receive: each of
\* its steps leaves fewer, and only a frame received meanwhile adds its four
\* (pci.c:633-735).
HandlerEnds ==
  [][rpc \notin {"idle", "lost"} =>
       \/ Irq /\ RxLeft' < RxLeft
       \/ ChipReceive /\ RxLeft' = RxLeft + 4
       \/ RxLeft' = RxLeft /\ rpc' = rpc]_vars

\* The steps left are bounded by the ring's length, however many frames lie in it.
HandlerBounded ==
  RxLeft \in 0 .. 2 * RX_BUF_LEN /\ (rpc \notin {"idle", "lost"} => RxLeft > 0)

=============================================================================
