---------------------------- MODULE Rtl8139UpDown ----------------------------
(***************************************************************************)
(* The transmit path of Rtl8139Tx on an interface that is opened and       *)
(* closed again and again: rtl8139_open and rtl8139_stop, called by the    *)
(* network core, against the handler and the chip.  Memory that is refused *)
(* is Rtl8139Life's.                                                       *)
(*                                                                         *)
(* The network core calls start_xmit between the end of open and the       *)
(* beginning of stop only, and waits for it before it calls stop.  The     *)
(* handler is registered from request_irq to free_irq; between the two it  *)
(* runs whenever another device on the line raises an interrupt, whatever  *)
(* the card's own mask says.  The counts accepted, wire and reported are   *)
(* those of the current opening.                                           *)
(***************************************************************************)
EXTENDS Rtl8139Tx

CONSTANTS MaxOpens    \* bound: calls of open

ASSUME OpensAssumption == MaxOpens \in Nat

VARIABLES
  npc,       \* where open or stop is; "down" or "up" in between
  chip_on,   \* transmitter and receiver are enabled (CR)
  imr,       \* the card's interrupts are enabled (IMR)
  opens,     \* ghost: calls of open so far
  disturbed  \* ghost: the handler moved an index that open was resetting

life  == <<npc, chip_on, imr, opens>>
lives == <<vars, life, disturbed>>

LifeInit ==
  /\ Init
  /\ npc = "down" /\ chip_on = FALSE /\ imr = FALSE /\ opens = 0
  /\ disturbed = FALSE

-----------------------------------------------------------------------------
(* rtl8139_open.  XmitMayRun: on one CPU, not in the middle of a handler.  *)

\* request_irq and the DMA memory; the handler looks at no Tx buffer.
OpenRequest ==
  /\ npc = "down" /\ XmitMayRun /\ opens < MaxOpens
  /\ tx_buf' = [d \in Desc |-> NoPkt]
  /\ npc' = "requested" /\ opens' = opens + 1
  /\ UNCHANGED <<driver, tsd, hw_tx, isr, xpc, ipc, status, drained, ghost,
                 chip_on, imr, disturbed>>

OpenDirty ==
  /\ npc = "requested" /\ XmitMayRun
  /\ dirty_tx' = 0
  /\ npc' = "dirty" /\ disturbed' = FALSE
  /\ UNCHANGED <<cur_tx, stopped, tx_packets, tx_errors, tx_dropped, chip,
                 xpc, ipc, status, drained, ghost, chip_on, imr, opens>>

\* Mutant: the descriptor to use next is left where the last opening had it.
OpenCurKept ==
  /\ npc = "dirty" /\ XmitMayRun
  /\ npc' = "indexed"
  /\ UNCHANGED <<vars, chip_on, imr, opens, disturbed>>

OpenCur ==
  /\ npc = "dirty" /\ XmitMayRun
  /\ cur_tx' = 0
  /\ npc' = "indexed"
  /\ UNCHANGED <<dirty_tx, stopped, tx_packets, tx_errors, tx_dropped, chip,
                 xpc, ipc, status, drained, ghost, chip_on, imr, opens, disturbed>>

\* Mutant: the chip is enabled as it is, its descriptors as they were.
OpenNoReset ==
  /\ npc = "indexed" /\ XmitMayRun
  /\ chip_on' = TRUE
  /\ accepted' = 0 /\ wire' = << >> /\ reported' = 0 /\ swallowed' = FALSE
  /\ npc' = "reset"
  /\ UNCHANGED <<driver, chip, xpc, ipc, status, drained, imr, opens, disturbed>>

\* rtl8139_hardware_start: the chip is reset, and enabled with its interrupts
\* still masked ...
OpenReset ==
  /\ npc = "indexed" /\ XmitMayRun
  /\ tsd' = [d \in Desc |-> "reset"] /\ hw_tx' = 0 /\ isr' = {}
  /\ chip_on' = TRUE /\ imr' = FALSE
  /\ accepted' = 0 /\ wire' = << >> /\ reported' = 0 /\ swallowed' = FALSE
  /\ npc' = "reset"
  /\ UNCHANGED <<driver, tx_buf, xpc, ipc, status, drained, opens, disturbed>>

\* ... and its interrupts are, last.
OpenUnmask ==
  /\ npc = "reset" /\ XmitMayRun
  /\ imr' = TRUE
  /\ npc' = "unmasked"
  /\ UNCHANGED <<vars, chip_on, opens, disturbed>>

\* Mutant: the queue is left as the last opening left it.
OpenUnstarted ==
  /\ npc = "unmasked" /\ XmitMayRun
  /\ npc' = "up"
  /\ UNCHANGED <<vars, chip_on, imr, opens, disturbed>>

\* netif_start_queue
OpenStart ==
  /\ npc = "unmasked" /\ XmitMayRun
  /\ stopped' = FALSE
  /\ npc' = "up"
  /\ UNCHANGED <<cur_tx, dirty_tx, tx_packets, tx_errors, tx_dropped, chip,
                 xpc, ipc, status, drained, ghost, chip_on, imr, opens, disturbed>>

Open == \/ OpenRequest \/ OpenDirty \/ OpenCur
        \/ OpenReset \/ OpenUnmask \/ OpenStart

-----------------------------------------------------------------------------
(* rtl8139_stop                                                            *)

\* netif_stop_queue
StopQueue ==
  /\ npc = "up" /\ xpc = "idle" /\ XmitMayRun
  /\ stopped' = TRUE
  /\ npc' = "stopping"
  /\ UNCHANGED <<cur_tx, dirty_tx, tx_packets, tx_errors, tx_dropped, chip,
                 xpc, ipc, status, drained, ghost, chip_on, imr, opens, disturbed>>

\* CR and IMR, under the lock the handler does not take.  TSD and ISR keep
\* what they hold.
StopChip ==
  /\ npc = "stopping" /\ XmitMayRun
  /\ chip_on' = FALSE /\ imr' = FALSE
  /\ npc' = "masked"
  /\ UNCHANGED <<vars, opens, disturbed>>

\* free_irq, which waits for the handler, and the DMA memory.
StopFree ==
  /\ npc = "masked" /\ ipc = "idle"
  /\ npc' = "down"
  /\ UNCHANGED <<vars, chip_on, imr, opens, disturbed>>

Stop == StopQueue \/ StopChip \/ StopFree

-----------------------------------------------------------------------------
(* What Rtl8139Tx does, while there is an interface to do it.              *)

Entered == npc # "down"

\* A packet that is too long changes nothing but tx_dropped; it is left to
\* Rtl8139Tx.
UpXmit == npc = "up" /\ (XmitCopy \/ Xmit) /\ UNCHANGED <<life, disturbed>>

UpChip == chip_on /\ (ChipTransmit \/ ChipReceive) /\ UNCHANGED <<life, disturbed>>

Disturbs == npc \in {"dirty", "indexed"} /\ ipc = "reap" /\ tsd[dirty_tx] \in Outcome

UpIrq ==
  /\ Irq /\ (ipc = "idle" => Entered)
  /\ disturbed' = (disturbed \/ Disturbs)
  /\ UNCHANGED life

LifeNext == Open \/ Stop \/ UpXmit \/ UpChip \/ UpIrq

LifeSpec == LifeInit /\ [][LifeNext]_lives

\* start_xmit, the handler and the chip go on, as in Rtl8139Tx; nobody has to
\* open or to close, or to get to the end of it.
LifeFairness ==
  /\ WF_lives(Xmit /\ UNCHANGED <<life, disturbed>>)
  /\ WF_lives((ipc # "idle" \/ (imr /\ isr # {})) /\ UpIrq)
  /\ WF_lives(chip_on /\ ChipTransmit /\ UNCHANGED <<life, disturbed>>)

LifeFairSpec == LifeSpec /\ LifeFairness

-----------------------------------------------------------------------------
(* Properties                                                              *)

\* The packets of an opening go to the wire in the order of their calls, each
\* as it was handed over: open puts driver and chip at the same descriptor
\* (pci.c:837, 1061-1071).
WireInOrder == \A i \in DOMAIN wire: wire[i].pkt = i - 1

\* While the interface is up the handler counts only what has been transmitted
\* and not been counted, under its own outcome (pci.c:547-597): what it finds
\* in a descriptor is never an outcome of an earlier opening, or of the lap
\* before.
CountsOnceWhileUp ==
  [][npc = "up" /\ tx_packets + tx_errors # tx_packets' + tx_errors' =>
       /\ reported < Transmitted
       /\ tx_packets' # tx_packets <=> wire[reported + 1].out = "ok"]_lives

\* On an interface that stays up a stopped queue is woken again, also when the
\* ring was left full by an earlier opening (pci.c:599-604, 853), unless the
\* handler has cleared a transmit interrupt between its two accesses to ISR
\* (pci.c:497-498), or has moved dirty_tx between open's resets of the indices
\* (pci.c:836-837): the interface then comes up with indices that differ, and
\* its first full ring looks like none.
UpStopEnds ==
  npc = "up" /\ stopped ~> npc # "up" \/ ~stopped \/ swallowed \/ disturbed

-----------------------------------------------------------------------------
(* The inductive invariant behind these properties on one CPU.             *)

\* Open has reset the chip and sent nothing yet; the handler finds nothing.
FreshInv ==
  /\ accepted = 0 /\ reported = 0 /\ wire = << >> /\ hw_tx = 0
  /\ \A d \in Desc: tsd[d] = "reset"
  /\ ipc \notin {"compare", "wake"}

\* The interface has come up with dirty_tx ahead of cur_tx: until they meet, the
\* ring is used from its beginning up to there, the descriptor the handler looks
\* at is one that was never used, and from then on the queue stays stopped.
SkewInv ==
  /\ reported = 0 /\ dirty_tx # 0
  /\ Transmitted <= accepted /\ accepted <= dirty_tx
  /\ hw_tx = Transmitted
  /\ cur_tx = IF xpc = "triggered" THEN accepted - 1 ELSE accepted
  /\ \A d \in Desc: d >= accepted => tsd[d] = "reset"
  /\ \A d \in Desc: tsd[d] = "busy" => Transmitted <= d
  /\ \A k \in Transmitted .. accepted - 1: tx_buf[k] = k
  /\ xpc = "copied" => tx_buf[cur_tx] = accepted
  /\ xpc = "triggered" => accepted > 0
  /\ xpc \in {"idle", "copied"} /\ ~stopped => accepted < dirty_tx
  /\ xpc # "idle" => ~stopped
  /\ xpc = "full" => accepted = dirty_tx
  /\ ipc \notin {"compare", "wake"}

\* What the chip has still to send is what was handed to it.
ChipInv ==
  /\ Transmitted <= accepted /\ accepted - Transmitted <= NUM_TX_DESC
  /\ hw_tx = Slot(Transmitted)
  /\ \A k \in Transmitted .. accepted - 1: tx_buf[Slot(k)] = k
  /\ \A d \in Desc: tsd[d] = "busy" =>
       \E k \in Transmitted .. accepted - 1: d = Slot(k)

LifeTypeOK ==
  /\ npc \in {"down", "requested", "dirty", "indexed", "reset", "unmasked", "up",
              "stopping", "masked"}
  /\ chip_on \in BOOLEAN /\ imr \in BOOLEAN /\ opens \in 0 .. MaxOpens
  /\ disturbed \in BOOLEAN

PhaseInv ==
  /\ npc # "up" => xpc = "idle"
  /\ chip_on => npc \in {"reset", "unmasked", "up", "stopping"}
  /\ npc \in {"indexed", "reset", "unmasked"} => cur_tx = 0
  /\ npc \in {"reset", "unmasked"} => FreshInv
  /\ npc = "up" => RingInv \/ SkewInv
  /\ npc = "stopping" => ChipInv

UpDownInv == TypeOK /\ LifeTypeOK /\ PhaseInv /\ WireInOrder

\* When the handler left dirty_tx alone while open was resetting the indices, the
\* two agree, and no interrupt of this opening is lost but one swallowed.
AgreeInv ==
  /\ npc \in {"dirty", "indexed", "reset", "unmasked"} /\ ~disturbed => dirty_tx = 0
  /\ npc = "up" /\ ~disturbed => dirty_tx = Slot(reported) /\ PendingInv

-----------------------------------------------------------------------------
(* What follows from it.                                                   *)

\* An interface that comes up undisturbed is one that was never closed before: a
\* full ring is stopped, a stopped queue has work that will wake it, no completion
\* is left behind, and there is always somebody to go on with a stopped queue
\* (pci.c:547-605, 1009-1017).
UpUndisturbed ==
  npc = "up" /\ ~disturbed =>
    FullRingIsStopped /\ StoppedHasWork /\ NothingLeftBehind /\ StoppedGoesOn

\* Each step of an interface that is up is one of the ring of TxRing or none,
\* also when its indices differ, and the ring was empty when the interface came
\* up (pci.c:836-853).
UpIsRing ==
  [][/\ npc = "up" => [Ring!Next]_(Ring!vars)
     /\ npc # "up" /\ npc' = "up" => accepted = 0 /\ wire = << >> /\ reported = 0]_lives

\* An interface that has come up with indices that differ and has stopped its
\* queue is stuck: the handler counts nothing and wakes nobody until the interface
\* is opened anew (pci.c:836-837, 547-604).
Skewed == npc = "up" /\ reported = 0 /\ dirty_tx # 0

StuckUntilClosed ==
  [][Skewed /\ stopped => stopped' /\ reported' = 0 /\ UNCHANGED <<tx_packets, tx_errors>>]_lives

\* The handler of an interface that is up comes to its end, whatever it did to the
\* indices while open was resetting them (pci.c:547-605).
UpHandlerEnds ==
  [][npc = "up" /\ ipc # "idle" => \/ Irq /\ IrqLeft' < IrqLeft
                                   \/ IrqLeft' = IrqLeft /\ ipc' = ipc]_lives

=============================================================================
