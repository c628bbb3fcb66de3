----------------------------- MODULE Rtl8139Life -----------------------------
(***************************************************************************)
(* The life of one RTL8139 card under the driver (Phase-II/pci.c): probe   *)
(* and remove, called by the PCI core, open and stop, called by the        *)
(* network core under its own lock, and the interrupt handler, which may   *)
(* run on another CPU at any moment it is registered, because the line is  *)
(* shared (IRQF_SHARED).  Every step that asks the kernel for something    *)
(* may be refused.                                                         *)
(***************************************************************************)
EXTENDS Integers, Sequences

CONSTANTS MaxLeaks    \* bound: opens that fail with their handler registered

ASSUME BoundAssumption == MaxLeaks \in Nat

VARIABLES
  ppc, rung,         \* where probe or remove is, and on which rung of probe
  npc,               \* where open or stop is; "down" or "up" in between
  res,               \* what the binding of driver and card holds
  handlers,          \* registrations of rtl8139_interrupt for this netdev
  tx_bufs, rx_ring,  \* pointers to the DMA memory
  chip_on,           \* transmitter and receiver are enabled (CR)
  accepts,           \* the receive filter lets frames in (RCR)
  tsad, rbstart,     \* whose memory is in TSAD0-3 and RBSTART: "ours", of the
                     \* interface that is open, or "other": what a reset leaves,
                     \* or what was freed
  imr,               \* interrupts are enabled (IMR)
  frame,             \* a frame is in the receive ring and RxOK is set in ISR
  hpc,               \* where the interrupt handler is
  own,               \* ghost: it was entered for an interrupt of this card
  leaked,            \* ghost: opens that failed and left their handler
  faults,            \* ghost: what has gone wrong that nobody cleans up after
  lost,              \* ghost: what past bindings have not given back
  unheld             \* ghost: what they have given back and did not have

ghost   == <<faults, lost, unheld>>
binding == <<ppc, rung, res, ghost>>
memory  == <<tx_bufs, rx_ring>>
dma     == <<tsad, rbstart>>
card    == <<chip_on, accepts, dma, imr, frame>>
handler == <<hpc, own>>
vars    == <<binding, npc, handlers, memory, card, handler, leaked>>

Resources == {"enabled", "mwi", "region", "iomap", "netdev", "registered"}

Init ==
  /\ ppc = "unbound" /\ rung = 1 /\ npc = "down"
  /\ res = {} /\ handlers = 0 /\ leaked = 0
  /\ tx_bufs = "null" /\ rx_ring = "null"
  /\ chip_on = FALSE /\ imr = FALSE /\ frame = FALSE
  /\ accepts \in BOOLEAN /\ tsad = "other" /\ rbstart = "other"
  /\ hpc = "idle" /\ own = FALSE
  /\ faults = {} /\ lost = {} /\ unheld = {}

-----------------------------------------------------------------------------
(* rtl8139_probe: a ladder of requests, and the labels a refused one jumps  *)
(* to, each of which falls through to the next.                            *)

Rungs == <<
  [asks |-> "pci_enable_device", gets |-> {"enabled"},    fails |-> "return"],
  [asks |-> "pci_set_mwi",       gets |-> {"mwi"},        fails |-> "disable"],
  [asks |-> "BAR1 length",       gets |-> {},             fails |-> "mwi"],
  [asks |-> "BAR1 flags",        gets |-> {},             fails |-> "mwi"],
  [asks |-> "request_mem_region",gets |-> {"region"},     fails |-> "mwi"],
  [asks |-> "ioremap",           gets |-> {"iomap"},      fails |-> "release"],
  [asks |-> "DMA mask",          gets |-> {},             fails |-> "release"],
  [asks |-> "alloc_etherdev",    gets |-> {"netdev"},     fails |-> "unmap"],
  [asks |-> "register_netdev",   gets |-> {"registered"}, fails |-> "freedev"] >>

\* pci_release_regions gives back the regions of both BARs; only that of BAR1 was
\* requested.
Released == {"region", "BAR0"}

Labels == <<
  [name |-> "freedev", frees |-> {"netdev"}],
  [name |-> "unmap",   frees |-> {"iomap"}],
  [name |-> "release", frees |-> Released],
  [name |-> "mwi",     frees |-> {"mwi"}],
  [name |-> "disable", frees |-> {"enabled"}] >>

\* Mutant: a label frees its own resource and returns.
UnwoundAlone(label) ==
  UNION {Labels[l].frees : l \in {l \in DOMAIN Labels: Labels[l].name = label}}

Unwound(label) ==
  UNION {Labels[l].frees : l \in {l \in DOMAIN Labels:
      \E from \in DOMAIN Labels: from <= l /\ Labels[from].name = label}}

ProbeCall ==
  /\ ppc = "unbound"
  /\ ppc' = "probing" /\ rung' = 1
  /\ UNCHANGED <<npc, res, ghost, handlers, memory, card, handler, leaked>>

ProbeGranted ==
  /\ ppc = "probing"
  /\ res' = res \cup Rungs[rung].gets
  /\ IF rung = Len(Rungs) THEN ppc' = "bound" /\ rung' = 1
                          ELSE rung' = rung + 1 /\ UNCHANGED ppc
  /\ UNCHANGED <<npc, ghost, handlers, memory, card, handler, leaked>>

ProbeRefused ==
  /\ ppc = "probing"
  /\ lost' = lost \cup (res \ Unwound(Rungs[rung].fails))
  /\ unheld' = unheld \cup (Unwound(Rungs[rung].fails) \ res)
  /\ faults' = faults \cup
       (IF Rungs[rung].asks = "DMA mask" THEN {"DMA mask"} ELSE {})
  /\ res' = {} /\ ppc' = "unbound" /\ rung' = 1
  /\ UNCHANGED <<npc, handlers, memory, card, handler, leaked>>

-----------------------------------------------------------------------------
(* rtl8139_remove                                                          *)

RemoveCall ==
  /\ ppc = "bound"
  /\ ppc' = "removing"
  /\ UNCHANGED <<rung, npc, res, ghost, handlers, memory, card, handler, leaked>>

\* unregister_netdev waits for the network core's lock, and closes the
\* interface if it is up.
RemoveClose ==
  /\ ppc = "removing" /\ npc = "up"
  /\ ppc' = "closing" /\ npc' = "stop"
  /\ UNCHANGED <<rung, res, ghost, handlers, memory, card, handler, leaked>>

RemoveUnregister ==
  /\ ppc \in {"removing", "closing"} /\ npc = "down"
  /\ res' = res \ {"registered"}
  /\ ppc' = "freeing"
  /\ UNCHANGED <<rung, npc, ghost, handlers, memory, card, handler, leaked>>

\* A handler that a failed open has left stays registered for memory that is
\* no more; what it does from here on is anybody's guess.
RemoveFree ==
  /\ ppc = "freeing"
  /\ res' = res \ {"netdev"}
  /\ handlers' = 0 /\ leaked' = 0
  /\ faults' = faults \cup (IF handlers > 0 THEN {"stale handler"} ELSE {})
  /\ ppc' = "unmapping"
  /\ UNCHANGED <<rung, npc, lost, unheld, memory, card, handler>>

\* priv->mmio_addr is read out of the memory just freed: what it says is
\* either still the address of the mapping or anything else.
RemoveUnmap ==
  /\ ppc = "unmapping"
  /\ \E intact \in BOOLEAN:
       LET given == Released \cup {"mwi", "enabled"} \cup
                    (IF intact THEN {"iomap"} ELSE {}) IN
       /\ lost' = lost \cup (res \ given) /\ unheld' = unheld \cup (given \ res)
       /\ faults' = faults \cup (IF intact THEN {} ELSE {"priv reused"})
  /\ res' = {} /\ ppc' = "unbound"
  /\ UNCHANGED <<rung, npc, handlers, memory, card, handler, leaked>>

-----------------------------------------------------------------------------
(* rtl8139_open                                                            *)

MayOpen == npc = "down" /\ "registered" \in res /\ ppc # "closing"

\* request_irq; refused, the open fails and nothing has changed.
OpenIrq ==
  /\ MayOpen
  /\ handlers' = handlers + 1
  /\ npc' = "txalloc"
  /\ UNCHANGED <<binding, memory, card, handler, leaked>>

OpenTxAlloc ==
  /\ npc = "txalloc"
  /\ tx_bufs' = "live"
  /\ npc' = "rxalloc"
  /\ UNCHANGED <<binding, handlers, rx_ring, card, handler, leaked>>

\* Label irq: free_irq is given rtl8139_interrupt, not netdev, and finds no
\* registration under that name.
OpenTxRefused ==
  /\ npc = "txalloc" /\ leaked < MaxLeaks
  /\ tx_bufs' = "null"
  /\ leaked' = leaked + 1
  /\ npc' = "down"
  /\ UNCHANGED <<binding, handlers, rx_ring, card, handler>>

OpenRxAlloc ==
  /\ npc = "rxalloc"
  /\ rx_ring' = "live"
  /\ npc' = "reset"
  /\ UNCHANGED <<binding, handlers, tx_bufs, card, handler, leaked>>

\* Label dma_tx, which does not fall through to label irq.
OpenRxRefused ==
  /\ npc = "rxalloc" /\ leaked < MaxLeaks
  /\ rx_ring' = "null" /\ tx_bufs' = "freed"
  /\ leaked' = leaked + 1
  /\ npc' = "down"
  /\ UNCHANGED <<binding, handlers, card, handler>>

\* rtl8139_hardware_start, write by write: the chip is reset, which may or may not
\* leave RCR alone, ...
OpenReset ==
  /\ npc = "reset"
  /\ chip_on' = FALSE /\ imr' = FALSE /\ frame' = FALSE
  /\ accepts' \in {accepts, FALSE}
  /\ npc' = "enable"
  /\ UNCHANGED <<binding, handlers, memory, dma, handler, leaked>>

\* ... is enabled by CR ...
OpenEnable ==
  /\ npc = "enable"
  /\ chip_on' = TRUE
  /\ npc' = "accept"
  /\ UNCHANGED <<binding, handlers, memory, accepts, dma, imr, frame, handler, leaked>>

\* ... lets frames in by RCR ...
OpenAccept ==
  /\ npc = "accept"
  /\ accepts' = TRUE
  /\ npc' = "tsad"
  /\ UNCHANGED <<binding, handlers, memory, chip_on, dma, imr, frame, handler, leaked>>

\* ... and is told where the memory is only then, ...
OpenTsad ==
  /\ npc = "tsad"
  /\ tsad' = "ours"
  /\ npc' = "rbstart"
  /\ UNCHANGED <<binding, handlers, memory, chip_on, accepts, rbstart, imr, frame, handler,
                 leaked>>

OpenRbstart ==
  /\ npc = "rbstart"
  /\ rbstart' = "ours"
  /\ npc' = "unmask"
  /\ UNCHANGED <<binding, handlers, memory, chip_on, accepts, tsad, imr, frame, handler,
                 leaked>>

\* ... its interrupts last; then the queue is started.
OpenUnmask ==
  /\ npc = "unmask"
  /\ imr' = TRUE
  /\ npc' = "up"
  /\ UNCHANGED <<binding, handlers, memory, chip_on, accepts, dma, frame, handler, leaked>>

-----------------------------------------------------------------------------
(* rtl8139_stop                                                            *)

StopCall ==
  /\ npc = "up" /\ ppc # "closing"
  /\ npc' = "stop"
  /\ UNCHANGED <<binding, handlers, memory, card, handler, leaked>>

\* Mutant: interrupts are masked, the chip goes on.
StopChipMasked ==
  /\ npc = "stop"
  /\ imr' = FALSE
  /\ npc' = "freeirq"
  /\ UNCHANGED <<binding, handlers, memory, chip_on, accepts, dma, frame, handler, leaked>>

\* Under priv->lock, which the handler does not take.  ISR keeps its bits.
StopChip ==
  /\ npc = "stop"
  /\ chip_on' = FALSE /\ imr' = FALSE
  /\ npc' = "freeirq"
  /\ UNCHANGED <<binding, handlers, memory, accepts, dma, frame, handler, leaked>>

\* Mutant: the memory is freed beside a handler that still runs.
StopFreeIrqNoWait ==
  /\ npc = "freeirq"
  /\ handlers' = handlers - 1
  /\ npc' = "freedma"
  /\ UNCHANGED <<binding, memory, card, handler, leaked>>

\* Mutant: free_irq is given another dev_id, as in the error path of open.
StopFreeIrqCookie ==
  /\ npc = "freeirq" /\ hpc = "idle"
  /\ npc' = "freedma"
  /\ UNCHANGED <<binding, handlers, memory, card, handler, leaked>>

\* free_irq returns when the handler is over.
StopFreeIrq ==
  /\ npc = "freeirq" /\ hpc = "idle"
  /\ handlers' = handlers - 1
  /\ npc' = "freedma"
  /\ UNCHANGED <<binding, memory, card, handler, leaked>>

\* The chip keeps the addresses.
StopFreeDma ==
  /\ npc = "freedma"
  /\ tx_bufs' = "null" /\ rx_ring' = "null"
  /\ tsad' = "other" /\ rbstart' = "other"
  /\ npc' = "down"
  /\ UNCHANGED <<binding, handlers, chip_on, accepts, imr, frame, handler, leaked>>

-----------------------------------------------------------------------------
(* The chip, and rtl8139_interrupt.                                        *)

\* To wherever RBSTART says.
ChipReceive ==
  /\ chip_on /\ accepts
  /\ frame' = TRUE
  /\ UNCHANGED <<binding, npc, handlers, memory, chip_on, accepts, dma, imr, handler, leaked>>

\* The handler is entered for this card, or for another one on the line.
IrqEnter ==
  /\ hpc = "idle" /\ handlers > 0
  /\ own' = (imr /\ frame)
  /\ hpc' = "read"
  /\ UNCHANGED <<binding, npc, handlers, memory, card, leaked>>

\* It reads ISR through priv->mmio_addr.
IrqReadIsr ==
  /\ hpc = "read"
  /\ hpc' = IF frame THEN "receive" ELSE "idle"
  /\ UNCHANGED <<binding, npc, handlers, memory, card, own, leaked>>

\* It copies the frame out of rx_ring.
IrqReceive ==
  /\ hpc = "receive"
  /\ frame' = FALSE
  /\ hpc' = "idle"
  /\ UNCHANGED <<binding, npc, handlers, memory, chip_on, accepts, dma, imr, own, leaked>>

-----------------------------------------------------------------------------

Probe  == ProbeCall \/ ProbeGranted \/ ProbeRefused
Remove == \/ RemoveCall \/ RemoveClose \/ RemoveUnregister
          \/ RemoveFree \/ RemoveUnmap
Open   == \/ OpenIrq \/ OpenTxAlloc \/ OpenTxRefused \/ OpenRxAlloc
          \/ OpenRxRefused \/ OpenReset \/ OpenEnable \/ OpenAccept
          \/ OpenTsad \/ OpenRbstart \/ OpenUnmask
Stop   == StopCall \/ StopChip \/ StopFreeIrq \/ StopFreeDma
Irq    == IrqEnter \/ IrqReadIsr \/ IrqReceive

Next == Probe \/ Remove \/ Open \/ Stop \/ ChipReceive \/ Irq

Spec == Init /\ [][Next]_vars

-----------------------------------------------------------------------------
(* Properties                                                              *)

BindingType ==
  /\ ppc \in {"unbound", "probing", "bound", "removing", "closing", "freeing",
              "unmapping"}
  /\ rung \in DOMAIN Rungs
  /\ res \subseteq Resources /\ lost \subseteq Resources
  /\ unheld \subseteq Resources \cup {"BAR0"}
  /\ faults \subseteq {"DMA mask", "priv reused", "stale handler"}

OpeningType ==
  /\ npc \in {"down", "txalloc", "rxalloc", "reset", "enable", "accept", "tsad",
              "rbstart", "unmask", "up", "stop", "freeirq", "freedma"}
  /\ handlers \in Nat /\ leaked \in Nat
  /\ tx_bufs \in {"null", "live", "freed"} /\ rx_ring \in {"null", "live"}

CardType ==
  /\ chip_on \in BOOLEAN /\ accepts \in BOOLEAN /\ imr \in BOOLEAN /\ frame \in BOOLEAN
  /\ tsad \in {"ours", "other"} /\ rbstart \in {"ours", "other"}
  /\ hpc \in {"idle", "read", "receive"} /\ own \in BOOLEAN

\* Every variable has its type.
TypeOK == BindingType /\ OpeningType /\ CardType

Mapped == {"netdev", "iomap"} \subseteq res

\* No memory is freed under a chip that is enabled, on any way out (pci.c:899-931,
\* 1134), and what it reads and writes is this opening's, but for the hardware start:
\* from CR to RBSTART the receiver is on, and from RCR on it takes frames in, while
\* RBSTART holds another address, and so does TSAD up to its own write
\* (pci.c:1071, 1081, 1088-1096).
ChipOwnsMemory ==
  chip_on =>
    /\ tx_bufs = "live" /\ rx_ring = "live"
    /\ rbstart = "other" <=> npc \in {"accept", "tsad", "rbstart"}
    /\ tsad = "other"    <=> npc \in {"accept", "tsad"}

\* Entered for an interrupt of this card, the handler finds the private
\* structure, the registers and the receive ring in place, whatever open,
\* stop and remove are doing; entered for another card on the line, it finds
\* the first two, if no open has failed half-way (pci.c:482, 497, 653, 923).
HandlerSafe ==
  /\ hpc # "idle" /\ (own \/ (leaked = 0 /\ "stale handler" \notin faults))
       => Mapped
  /\ hpc = "receive" /\ own => rx_ring = "live"

\* The handler is registered once for the interface that is up or on its way,
\* and once for each open that failed after request_irq (pci.c:795, 860-867,
\* 923): a close gives back exactly what its open took.
IrqBalance ==
  handlers = leaked + (IF npc \in {"down", "freedma"} THEN 0 ELSE 1)

\* A binding that has ended has given everything back, the mapping of the
\* registers excepted, which stays when the DMA mask was refused ("goto unmap
\* if unable to set DMA 32 bit mask" says pci.c:301, and 310 does not) or when
\* remove found the freed private structure reused (pci.c:308-311, 458-472,
\* 1135-1146).  It has given back nothing that it did not have but the region of
\* BAR0 (pci.c:265-277, 465, 1140).
LossExplained ==
  /\ lost # {} => lost = {"iomap"} /\ faults \cap {"DMA mask", "priv reused"} # {}
  /\ unheld \subseteq {"BAR0"}

\* The handler reads a frame through a null rx_ring only for an RxOK of an
\* earlier run that another card's interrupt brings it to, while open has the
\* handler registered and no ring yet, or after an open that failed and left
\* its handler registered (pci.c:653, 795, 823, 865).
NullRingExplained ==
  hpc = "receive" /\ rx_ring = "null" =>
    /\ ~own
    /\ npc \in {"txalloc", "rxalloc"} \/ leaked > 0 \/ "stale handler" \in faults

-----------------------------------------------------------------------------
(* The inductive invariant behind these properties.                        *)

\* What the binding holds says how far probe or remove has come.
LadderInv ==
  /\ ppc = "unbound" => res = {}
  /\ ppc = "probing" =>
       /\ "enabled" \in res <=> rung > 1
       /\ "mwi" \in res     <=> rung > 2
       /\ "region" \in res  <=> rung > 5
       /\ "iomap" \in res   <=> rung > 6
       /\ "netdev" \in res  <=> rung > 8
       /\ "registered" \notin res
  /\ ppc \in {"bound", "removing", "closing"} => res = Resources
  /\ ppc = "freeing"   => res = Resources \ {"registered"}
  /\ ppc = "unmapping" => res = Resources \ {"registered", "netdev"}

\* rtl8139_hardware_start, before its last write to a DMA register.
Starting == {"reset", "enable", "accept", "tsad", "rbstart"}

\* Where open and stop stand says what memory there is and what the chip may
\* do; they are nowhere while the interface is not registered.
PhaseInv ==
  /\ npc # "down" => ppc \in {"bound", "removing", "closing"}
  /\ npc \in Starting \cup {"rxalloc", "unmask", "up", "stop", "freeirq", "freedma"}
       => tx_bufs = "live"
  /\ npc \in Starting \cup {"unmask", "up", "stop", "freeirq", "freedma"}
       => rx_ring = "live"
  /\ chip_on => npc \in {"accept", "tsad", "rbstart", "unmask", "up", "stop"}
  /\ rbstart = "ours" <=> npc \in {"unmask", "up", "stop", "freeirq", "freedma"}
  /\ tsad = "ours" <=> npc \in {"rbstart", "unmask", "up", "stop", "freeirq", "freedma"}
  /\ imr => npc \in {"up", "stop"}

\* free_irq holds stop back while a handler runs, so the one entered for this
\* card is over before the memory goes.
HandlerInv == hpc # "idle" /\ own => npc \in {"up", "stop", "freeirq"}

\* One entered for another card needs an open that has not failed.
OtherCardInv ==
  hpc # "idle" /\ leaked = 0 /\ "stale handler" \notin faults
    => npc \notin {"down", "freedma"}

LifeInv ==
  /\ TypeOK /\ LadderInv /\ PhaseInv /\ HandlerInv /\ OtherCardInv
  /\ IrqBalance /\ LossExplained

=============================================================================
