------------------------------ MODULE Rtl8139Tx ------------------------------
(***************************************************************************)
(* The transmit path of the RTL8139 driver (Phase-II/pci.c) while the      *)
(* interface is up: rtl8139_start_xmit, the Tx part of rtl8139_interrupt   *)
(* and, as the environment, the chip and the network core.                 *)
(*                                                                         *)
(* start_xmit runs in process or softirq context and is serialised by the  *)
(* network core; the handler runs in interrupt context and does not take   *)
(* priv->lock, so the lock only keeps the handler away on the CPU that     *)
(* holds it.  SMP says whether the handler may run on another CPU.         *)
(***************************************************************************)
EXTENDS Integers, Sequences

CONSTANTS
  NUM_TX_DESC,   \* transmit descriptors of the chip
  SMP,           \* the handler may run beside start_xmit
  MaxPkts        \* bound: packets handed to start_xmit

ASSUME DescAssumption == NUM_TX_DESC \in Nat \ {0}
ASSUME ModeAssumption == SMP \in BOOLEAN
ASSUME BoundAssumption == MaxPkts \in Nat

VARIABLES
  cur_tx,        \* descriptor the next packet goes to
  dirty_tx,      \* oldest descriptor not yet reclaimed
  stopped,       \* netif_queue_stopped(netdev)
  tx_packets, tx_errors,   \* priv->stats
  tx_dropped,    \* netdev->stats.tx_dropped
  tx_buf,        \* packet copied into each DMA buffer
  tsd,           \* status of each descriptor, TSD0 to TSD3
  hw_tx,         \* descriptor the chip transmits next
  isr,           \* the chip's interrupt status register
  xpc,           \* where start_xmit is
  ipc,           \* where the interrupt handler is
  status,        \* the handler's local copy of ISR
  drained,       \* the handler's test dirty_tx == cur_tx
  accepted,      \* ghost: packets whose transmission was triggered
  wire,          \* ghost: what the chip transmitted
  reported,      \* ghost: descriptors the handler reclaimed
  swallowed      \* ghost: the handler cleared a transmit interrupt unseen

driver == <<cur_tx, dirty_tx, stopped, tx_packets, tx_errors, tx_dropped>>
chip   == <<tx_buf, tsd, hw_tx, isr>>
ghost  == <<accepted, wire, reported, swallowed>>
vars   == <<driver, chip, xpc, ipc, status, drained, ghost>>

Desc    == 0 .. NUM_TX_DESC - 1
NoPkt   == MaxPkts                    \* content of a buffer never filled
Outcome == {"ok", "err"}              \* TxStatOK; TxAborted or TxUnderrun
TxBits  == {"TxOK", "TxErr"}
IsrBits == TxBits \cup {"RxOK"}

\* priv->lock is held with interrupts disabled on this CPU.
Locked == {"triggered", "advanced", "full"}

\* One CPU: the handler runs to its end before start_xmit goes on, and does
\* not start while start_xmit holds the lock.
XmitMayRun == SMP \/ ipc = "idle"
IrqMayRun  == SMP \/ xpc \notin Locked

Init ==
  /\ cur_tx = 0 /\ dirty_tx = 0 /\ stopped = FALSE
  /\ tx_packets = 0 /\ tx_errors = 0 /\ tx_dropped = 0
  /\ tx_buf = [d \in Desc |-> NoPkt]
  /\ tsd = [d \in Desc |-> "reset"]
  /\ hw_tx = 0 /\ isr = {}
  /\ xpc = "idle" /\ ipc = "idle" /\ status = {} /\ drained = FALSE
  /\ accepted = 0 /\ wire = << >> /\ reported = 0 /\ swallowed = FALSE

-----------------------------------------------------------------------------
(* rtl8139_start_xmit: the network core calls it while the queue is awake. *)

XmitBegins == xpc = "idle" /\ XmitMayRun /\ accepted + tx_dropped < MaxPkts

\* Mutant: the packet is copied into the buffer that is reclaimed next.
XmitCopyDirty ==
  /\ XmitBegins /\ ~stopped
  /\ tx_buf' = [tx_buf EXCEPT ![dirty_tx] = accepted]
  /\ xpc' = "copied"
  /\ UNCHANGED <<driver, tsd, hw_tx, isr, ipc, status, drained, ghost>>

XmitCopy ==
  /\ XmitBegins /\ ~stopped
  /\ tx_buf' = [tx_buf EXCEPT ![cur_tx % NUM_TX_DESC] = accepted]
  /\ xpc' = "copied"
  /\ UNCHANGED <<driver, tsd, hw_tx, isr, ipc, status, drained, ghost>>

XmitOversize ==
  /\ XmitBegins /\ ~stopped
  /\ tx_dropped' = tx_dropped + 1
  /\ UNCHANGED <<cur_tx, dirty_tx, stopped, tx_packets, tx_errors, chip, xpc,
                 ipc, status, drained, ghost>>

\* Takes the lock; writing TSD gives the descriptor to the chip.
XmitTrigger ==
  /\ xpc = "copied" /\ XmitMayRun
  /\ tsd' = [tsd EXCEPT ![cur_tx % NUM_TX_DESC] = "busy"]
  /\ accepted' = accepted + 1
  /\ xpc' = "triggered"
  /\ UNCHANGED <<driver, tx_buf, hw_tx, isr, ipc, status, drained, wire, reported,
                 swallowed>>

XmitAdvance ==
  /\ xpc = "triggered" /\ XmitMayRun
  /\ cur_tx' = (cur_tx + 1) % NUM_TX_DESC
  /\ xpc' = "advanced"
  /\ UNCHANGED <<dirty_tx, stopped, tx_packets, tx_errors, tx_dropped, chip,
                 ipc, status, drained, ghost>>

\* Mutant: a ring that has become full goes unnoticed.
XmitCompareNever ==
  /\ xpc = "advanced" /\ XmitMayRun
  /\ xpc' = "idle"
  /\ UNCHANGED <<driver, chip, ipc, status, drained, ghost>>

\* The comparison; the lock is released when there is room left.
XmitCompare ==
  /\ xpc = "advanced" /\ XmitMayRun
  /\ xpc' = IF cur_tx = dirty_tx THEN "full" ELSE "idle"
  /\ UNCHANGED <<driver, chip, ipc, status, drained, ghost>>

XmitStop ==
  /\ xpc = "full" /\ XmitMayRun
  /\ stopped' = TRUE
  /\ xpc' = "idle"
  /\ UNCHANGED <<cur_tx, dirty_tx, tx_packets, tx_errors, tx_dropped, chip,
                 ipc, status, drained, ghost>>

Xmit == XmitTrigger \/ XmitAdvance \/ XmitCompare \/ XmitStop

-----------------------------------------------------------------------------
(* The chip takes the descriptors it owns in turn, and raises interrupts.  *)

ChipTransmit ==
  /\ tsd[hw_tx] = "busy"
  /\ \E o \in Outcome:
       /\ tsd' = [tsd EXCEPT ![hw_tx] = o]
       /\ isr' = isr \cup {IF o = "ok" THEN "TxOK" ELSE "TxErr"}
       /\ wire' = Append(wire, [pkt |-> tx_buf[hw_tx], out |-> o])
  /\ hw_tx' = (hw_tx + 1) % NUM_TX_DESC
  /\ UNCHANGED <<driver, tx_buf, xpc, ipc, status, drained, accepted, reported,
                 swallowed>>

ChipReceive ==
  /\ isr' = isr \cup {"RxOK"}
  /\ UNCHANGED <<driver, tx_buf, tsd, hw_tx, xpc, ipc, status, drained, ghost>>

-----------------------------------------------------------------------------
(* rtl8139_interrupt, the part that concerns transmission.                 *)

\* isr = ioread16(ISR).  The line is shared (IRQF_SHARED): the handler also runs
\* for another device, whatever the card's ISR holds.
IrqReadIsr ==
  /\ ipc = "idle" /\ IrqMayRun
  /\ status' = isr
  /\ ipc' = "read"
  /\ UNCHANGED <<driver, chip, xpc, drained, ghost>>

\* WRITEW_F(0xfff, ISR), then the test of TxOK and TxErr
IrqAck ==
  /\ ipc = "read"
  /\ isr' = {}
  /\ IF status \cap TxBits # {}
     THEN ipc' = "scan" /\ swallowed' = FALSE
     ELSE ipc' = "idle" /\ swallowed' = (swallowed \/ isr \cap TxBits # {})
  /\ UNCHANGED <<driver, tx_buf, tsd, hw_tx, xpc, status, drained, accepted, wire,
                 reported>>

\* The loop condition, left operand first.
IrqScan ==
  /\ ipc = "scan"
  /\ ipc' = IF dirty_tx # cur_tx THEN "reap" ELSE "flag"
  /\ UNCHANGED <<driver, chip, xpc, status, drained, ghost>>

IrqFlag ==
  /\ ipc = "flag"
  /\ ipc' = IF stopped THEN "reap" ELSE "idle"
  /\ UNCHANGED <<driver, chip, xpc, status, drained, ghost>>

\* The descriptor is not concluded: break.
IrqBreak ==
  /\ ipc = "reap" /\ tsd[dirty_tx] \notin Outcome
  /\ ipc' = "idle"
  /\ UNCHANGED <<driver, chip, xpc, status, drained, ghost>>

\* Mutant: whatever is not sent counts as failed, the packets the chip still
\* holds included.
IrqReapUnchecked ==
  /\ ipc = "reap"
  /\ IF tsd[dirty_tx] = "ok"
     THEN tx_packets' = tx_packets + 1 /\ UNCHANGED tx_errors
     ELSE tx_errors' = tx_errors + 1 /\ UNCHANGED tx_packets
  /\ dirty_tx' = (dirty_tx + 1) % NUM_TX_DESC
  /\ reported' = reported + 1
  /\ ipc' = "compare"
  /\ UNCHANGED <<cur_tx, stopped, tx_dropped, chip, xpc, status, drained, accepted, wire,
                 swallowed>>

IrqReap ==
  /\ ipc = "reap" /\ tsd[dirty_tx] \in Outcome
  /\ IF tsd[dirty_tx] = "ok"
     THEN tx_packets' = tx_packets + 1 /\ UNCHANGED tx_errors
     ELSE tx_errors' = tx_errors + 1 /\ UNCHANGED tx_packets
  /\ dirty_tx' = (dirty_tx + 1) % NUM_TX_DESC
  /\ reported' = reported + 1
  /\ ipc' = "compare"
  /\ UNCHANGED <<cur_tx, stopped, tx_dropped, chip, xpc, status, drained, accepted, wire,
                 swallowed>>

\* (dirty_tx == cur_tx) & netif_queue_stopped(), left operand first
IrqCompare ==
  /\ ipc = "compare"
  /\ drained' = (dirty_tx = cur_tx)
  /\ ipc' = "wake"
  /\ UNCHANGED <<driver, chip, xpc, status, ghost>>

\* Mutant: the drained ring does not wake its queue.
IrqWakeForgotten ==
  /\ ipc = "wake"
  /\ ipc' = "scan"
  /\ UNCHANGED <<driver, chip, xpc, status, drained, ghost>>

\* Mutant: one descriptor per interrupt, an if in the place of the while.
IrqWakeOnce ==
  /\ ipc = "wake"
  /\ stopped' = (stopped /\ ~drained)
  /\ ipc' = "idle"
  /\ UNCHANGED <<cur_tx, dirty_tx, tx_packets, tx_errors, tx_dropped, chip,
                 xpc, status, drained, ghost>>

IrqWake ==
  /\ ipc = "wake"
  /\ stopped' = (stopped /\ ~drained)
  /\ ipc' = "scan"
  /\ UNCHANGED <<cur_tx, dirty_tx, tx_packets, tx_errors, tx_dropped, chip,
                 xpc, status, drained, ghost>>

Irq == \/ IrqReadIsr \/ IrqAck \/ IrqScan \/ IrqFlag
       \/ IrqBreak \/ IrqReap \/ IrqCompare \/ IrqWake

-----------------------------------------------------------------------------

Next == \/ XmitCopy \/ XmitOversize \/ Xmit
        \/ ChipTransmit \/ ChipReceive
        \/ Irq

Spec == Init /\ [][Next]_vars

\* start_xmit and a handler that has begun run on, the chip transmits what it
\* owns, and an interrupt that stays asserted is taken.  Nobody has to send or
\* to receive, and no other device has to raise an interrupt.
IrqDue == (ipc # "idle" \/ isr # {}) /\ Irq

Fairness == WF_vars(Xmit) /\ WF_vars(IrqDue) /\ WF_vars(ChipTransmit)

FairSpec == Spec /\ Fairness

(* Properties                                                              *)

\* Every variable has its type; the indices stay inside the ring.
TypeOK ==
  /\ cur_tx \in Desc /\ dirty_tx \in Desc /\ hw_tx \in Desc
  /\ stopped \in BOOLEAN /\ drained \in BOOLEAN
  /\ tx_packets \in Nat /\ tx_errors \in Nat /\ tx_dropped \in Nat
  /\ tx_buf \in [Desc -> Nat]
  /\ tsd \in [Desc -> Outcome \cup {"reset", "busy"}]
  /\ isr \subseteq IsrBits /\ status \subseteq IsrBits
  /\ xpc \in {"idle", "copied"} \cup Locked
  /\ ipc \in {"idle", "read", "scan", "flag", "reap", "compare", "wake"}
  /\ accepted \in Nat /\ reported \in Nat /\ swallowed \in BOOLEAN
  /\ wire \in Seq([pkt: Nat, out: Outcome])

Outstanding == accepted - reported    \* descriptors not yet reclaimed
Transmitted == Len(wire)

\* start_xmit copies a packet only into a buffer whose descriptor has been
\* transmitted and reclaimed (pci.c:964-975 checks nothing itself: this rests
\* on the queue being stopped in time and woken no earlier).
CopyTargetFree ==
  xpc = "copied" => Outstanding < NUM_TX_DESC /\ tsd[cur_tx] # "busy"

\* Between two calls of start_xmit a full ring has its queue stopped
\* (pci.c:1009-1017).
FullRingIsStopped ==
  xpc = "idle" /\ Outstanding >= NUM_TX_DESC => stopped

\* A stopped queue has a packet whose completion will wake it, or the handler
\* is just about to wake it (pci.c:599-604): a queue stopped over an empty
\* ring has nobody to wake it, as the driver has no ndo_tx_timeout.
StoppedHasWork ==
  stopped => Outstanding > 0 \/ ipc \in {"compare", "wake"}

\* When the handler is over and no transmit interrupt is pending, nothing the
\* chip has finished is left unreported: clearing ISR before the loop loses
\* nothing (pci.c:497-498, 547-605), except when what it cleared came after its
\* look at ISR, and that look was for something else.
NothingLeftBehind ==
  ipc = "idle" /\ isr \cap TxBits = {} => reported = Transmitted \/ swallowed

\* While the queue is stopped somebody goes on: the handler, which has begun or has
\* an interrupt to answer, or the chip, which has a packet to send (pci.c:541-605).
\* StopEnds without the fairness.
StoppedGoesOn ==
  stopped => ipc # "idle" \/ isr # {} \/ tsd[hw_tx] = "busy" \/ swallowed

\* The driver is a bounded FIFO: packets reach the wire once each, unharmed
\* and in order, and each is counted once under its own outcome.
Ring == INSTANCE TxRing WITH Capacity <- NUM_TX_DESC,
                             packets <- tx_packets, errors <- tx_errors

RefinesTxRing == Ring!Spec

\* A stopped queue is woken again (comment at pci.c:541-545).
StopEnds == stopped ~> ~stopped

\* Whatever the chip has transmitted is reported (comment at pci.c:531-535),
\* or its interrupt was swallowed.
CompletionReported ==
  \A k \in 1..MaxPkts: Transmitted >= k ~> reported >= k \/ swallowed

-----------------------------------------------------------------------------
(* The inductive invariant behind these properties on one CPU.             *)

Slot(k) == k % NUM_TX_DESC    \* descriptor of packet k

\* The three indices are the three counts, modulo the ring; start_xmit moves
\* cur_tx one step after it gave the packet to the chip.
IndexInv ==
  /\ reported <= Transmitted /\ Transmitted <= accepted
  /\ Outstanding <= NUM_TX_DESC
  /\ dirty_tx = Slot(reported) /\ hw_tx = Slot(Transmitted)
  /\ xpc # "triggered" => cur_tx = Slot(accepted)
  /\ xpc = "triggered" => cur_tx = Slot(accepted - 1)

\* Every outstanding packet is in its buffer, and its descriptor says what
\* has become of it; the chip owns no other descriptor.
SlotInv ==
  /\ \A k \in reported .. accepted - 1:
       /\ tx_buf[Slot(k)] = k
       /\ tsd[Slot(k)] = IF k < Transmitted THEN wire[k + 1].out ELSE "busy"
  /\ \A d \in Desc: tsd[d] = "busy" =>
       \E k \in Transmitted .. accepted - 1: d = Slot(k)
  /\ xpc = "copied" => tx_buf[cur_tx] = accepted

\* start_xmit leaves the queue awake only with a descriptor to spare.
XmitInv ==
  /\ xpc \in {"idle", "copied"} /\ ~stopped => Outstanding < NUM_TX_DESC
  /\ xpc # "idle" => ~stopped
  /\ xpc \in Locked => ipc = "idle" /\ Outstanding > 0
  /\ xpc = "full" => Outstanding = NUM_TX_DESC

\* Where the handler stands in its loop says how full the ring is.
IrqInv ==
  /\ ipc = "flag" => Outstanding \in {0, NUM_TX_DESC}
  /\ ipc = "reap" => Outstanding > 0
  /\ ipc \in {"compare", "wake"} => Outstanding < NUM_TX_DESC
  /\ ipc = "wake" => (drained <=> Outstanding = 0)
  /\ StoppedHasWork

RingInv == TypeOK /\ IndexInv /\ SlotInv /\ XmitInv /\ IrqInv

\* An interrupt of a completion nobody reported is pending, or was read, until
\* the handler enters its loop or swallows it.
PendingInv ==
  /\ ipc = "read" /\ (isr \cup status) \cap TxBits = {} =>
        reported = Transmitted \/ swallowed
  /\ NothingLeftBehind

-----------------------------------------------------------------------------
(* What follows on one CPU, and what is left on several.                   *)

\* A bound on the steps the handler still makes: five for each descriptor it may
\* still reclaim.
IrqLeft ==
  IF ipc = "idle" THEN 0
  ELSE 5 * Outstanding +
       (IF ipc = "reap" THEN 1 ELSE IF ipc = "flag" THEN 2
        ELSE IF ipc = "scan" THEN 3 ELSE IF ipc = "compare" THEN 5 ELSE 4)

\* The loop of the handler ends, with interrupts pending or not: each of its steps
\* leaves fewer, and nothing adds any (pci.c:547-605).
HandlerEnds ==
  [][ipc # "idle" => \/ Irq /\ IrqLeft' < IrqLeft
                     \/ IrqLeft' = IrqLeft /\ ipc' = ipc]_vars

HandlerBounded == IrqLeft \in 0 .. 5 * NUM_TX_DESC + 5 /\ (ipc # "idle" => IrqLeft > 0)

\* With the handler beside start_xmit the ring overruns.  Even so the chip sends
\* once for each call at most, in turn, and never an older packet than that of the
\* call, and the counters add up (pci.c:547-605, 964-1017).
CallsBound ==
  /\ Transmitted <= accepted
  /\ \A k \in DOMAIN wire: wire[k].pkt >= k - 1 /\ wire[k].pkt <= accepted
  /\ tx_packets + tx_errors = reported

\* The indices still follow the counts; a descriptor the chip owns was given to it
\* by a call whose turn has not come, and holds the packet of that call or a later
\* one.
AnyCpuInv ==
  /\ CallsBound
  /\ dirty_tx = Slot(reported) /\ hw_tx = Slot(Transmitted)
  /\ xpc # "triggered" => cur_tx = Slot(accepted)
  /\ xpc = "triggered" => accepted > 0 /\ cur_tx = Slot(accepted - 1)
  /\ xpc = "copied" => tx_buf[cur_tx] = accepted
  /\ \A d \in Desc: tsd[d] = "busy" =>
       /\ tx_buf[d] <= accepted
       /\ \E k \in Transmitted .. accepted - 1: d = Slot(k) /\ k <= tx_buf[d]

=============================================================================
