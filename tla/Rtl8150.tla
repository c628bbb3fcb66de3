------------------------------- MODULE Rtl8150 -------------------------------
(***************************************************************************)
(* The RTL8150 USB driver (Phase-II/usb.c): open, close and start_xmit,    *)
(* called by the network core, the completion callbacks of the receive,    *)
(* transmit and interrupt URBs, called by the USB core, and the end of a   *)
(* binding, by a refused probe or a disconnect.                            *)
(*                                                                         *)
(* A submitted URB is given back later, by a callback that may run beside  *)
(* anything else; unlinking one asks for that and does not wait for it.    *)
(* Callbacks of one pipe run one at a time.                                *)
(***************************************************************************)
EXTENDS Integers

CONSTANTS
  MaxOpens,   \* bound: calls of open
  MaxPkts     \* bound: packets handed to start_xmit

ASSUME BoundAssumption == MaxOpens \in Nat /\ MaxPkts \in Nat

VARIABLES
  ppc,        \* where probe or disconnect is
  npc,        \* where open or close is; "down" or "up" in between
  xpc,        \* where start_xmit is
  enabled,    \* the USB core takes URBs for this device
  stopped,    \* netif_queue_stopped
  gen,        \* priv->rx_urb, priv->intr_urb: those of the gen-th open
  rx,         \* the receive URB of each open
  dma,        \* the skb each receive URB was submitted with
  rx_skb,     \* priv->rx_skb
  tx_cur,     \* priv->tx_skb, priv->tx_urb: those of the tx_cur-th packet
  tx,         \* the URB of each packet
  rxcb,       \* where read_bulk_callback is, and what its URB received into
  intr,       \* where the interrupt URB of the last open is
  txcb,       \* where write_bulk_callback is, and the packet of its URB
  handed,     \* ghost: the skb handed up last
  deaf,       \* ghost: a resubmission of the receive URB was refused
  mixed,      \* ghost: an open found a receive URB of another in circulation
  left,       \* ghost: a receive URB was left, or put, on an interface that is down
  late,       \* ghost: an open started the queue over an earlier transmission
  fate        \* ghost: what became of each packet

binding == <<ppc, enabled>>
receive == <<rx, dma, rx_skb, rxcb, handed, mixed, left, deaf>>
send    == <<stopped, tx_cur, tx, txcb, late, fate>>
vars    == <<binding, npc, xpc, gen, receive, intr, send>>

Opens == 1 .. MaxOpens
Pkts  == 1 .. MaxPkts
Skbs  == 1 .. MaxOpens + 4
Urb   == {"idle", "flight", "unlinked"}

Init ==
  /\ ppc = "probing" /\ enabled = TRUE    \* the interface is registered
  /\ npc = "down" /\ xpc = "idle" /\ stopped = FALSE
  /\ gen = 0 /\ tx_cur = 0 /\ rx_skb = 0 /\ handed = 0
  /\ rx = [g \in Opens |-> "idle"] /\ intr = "idle"
  /\ dma = [g \in Opens |-> 0] /\ tx = [p \in Pkts |-> "idle"]
  /\ rxcb = [at |-> "idle", skb |-> 0]
  /\ txcb = [at |-> "idle", pkt |-> 0]
  /\ deaf = FALSE /\ mixed = FALSE /\ left = FALSE /\ late = FALSE
  /\ fate = [p \in Pkts |-> "none"]

RxQuiet   == rxcb.at = "idle" /\ \A g \in Opens: rx[g] = "idle"
IntrQuiet == intr \in {"idle", "refused"}
TxQuiet   == txcb.at = "idle" /\ \A p \in Pkts: tx[p] = "idle"
Quiet     == RxQuiet /\ IntrQuiet /\ TxQuiet

-----------------------------------------------------------------------------
(* The USB core.                                                           *)

Unlinked(state) == IF state = "flight" THEN "unlinked" ELSE state

\* What a URB may be given back with: -ECONNRESET or -ESHUTDOWN if it was
\* unlinked, success or an error of the device otherwise.  -ENOENT is for
\* usb_kill_urb, which nobody calls here.
Completion(state) == IF state = "unlinked" THEN {"unlink"} ELSE {"ok", "error"}

\* The interrupt URB, if unlinked, comes back to a callback that returns at
\* once; one in its callback is not unlinked.
Withdrawn == IF intr = "flight" THEN "idle" ELSE intr

\* The device goes: the core takes no more URBs and unlinks those it has ...
Disconnect ==
  /\ ppc = "bound"
  /\ ppc' = "flush" /\ enabled' = FALSE
  /\ rx' = [g \in Opens |-> Unlinked(rx[g])]
  /\ intr' = Withdrawn
  /\ tx' = [p \in Pkts |-> Unlinked(tx[p])]
  /\ UNCHANGED <<npc, xpc, gen, dma, rx_skb, rxcb, handed, mixed, left, deaf,
                 stopped, tx_cur, txcb, late, fate>>

\* ... and calls rtl8150_disconnect when they have been given back.
Flushed ==
  /\ ppc = "flush" /\ Quiet
  /\ ppc' = "undo"
  /\ UNCHANGED <<enabled, npc, xpc, gen, receive, intr, send>>

-----------------------------------------------------------------------------
(* The end of rtl8150_probe, and rtl8150_disconnect.                       *)

\* The MAC address has been read, or could not be.  The interface has been
\* registered since before, and may be open.
ProbeGranted ==
  /\ ppc = "probing"
  /\ ppc' = "bound"
  /\ UNCHANGED <<enabled, npc, xpc, gen, receive, intr, send>>

ProbeRefused ==
  /\ ppc = "probing"
  /\ ppc' = "undo"
  /\ UNCHANGED <<enabled, npc, xpc, gen, receive, intr, send>>

\* unregister_netdev closes the interface if it is up.
UnregisterUp ==
  /\ ppc = "undo" /\ npc = "up" /\ xpc = "idle"
  /\ ppc' = "unregister" /\ npc' = "close"
  /\ stopped' = TRUE
  /\ UNCHANGED <<enabled, xpc, gen, receive, intr, tx_cur, tx, txcb, late, fate>>

UnregisterDown ==
  /\ ppc = "undo" /\ npc = "down"
  /\ ppc' = "unregister"
  /\ UNCHANGED <<enabled, npc, xpc, gen, receive, intr, send>>

\* Mutant: the net device is freed without being unregistered.
FreeAtOnce ==
  /\ ppc \in {"undo", "unregister"}
  /\ ppc' = "freed"
  /\ UNCHANGED <<enabled, npc, xpc, gen, receive, intr, send>>

\* free_netdev, and the private structure with it.
Free ==
  /\ ppc = "unregister" /\ npc = "down"
  /\ ppc' = "freed"
  /\ UNCHANGED <<enabled, npc, xpc, gen, receive, intr, send>>

-----------------------------------------------------------------------------
(* rtl8150_open                                                            *)

\* New URBs take the place of the old, which nobody frees.
OpenUrbs ==
  /\ npc = "down" /\ ppc \notin {"unregister", "freed"} /\ gen < MaxOpens
  /\ gen' = gen + 1 /\ deaf' = FALSE
  /\ mixed' = (mixed \/ ~RxQuiet)
  /\ npc' = "skb"
  /\ UNCHANGED <<binding, xpc, rx, dma, rx_skb, rxcb, handed, left, intr, send>>

\* dev_alloc_skb: memory that nobody else has.
NewSkb ==
  LET Taken == {rx_skb, handed, rxcb.skb} \cup {dma[g]: g \in Opens}
  IN \E s \in Skbs \ Taken: /\ \A t \in Skbs \ Taken: s <= t
                            /\ rx_skb' = s

OpenSkb ==
  /\ npc = "skb"
  /\ NewSkb
  /\ npc' = "rx"
  /\ UNCHANGED <<binding, xpc, gen, rx, dma, rxcb, handed, mixed, left, deaf, intr, send>>

OpenRx ==
  /\ npc = "rx" /\ enabled /\ rx[gen] = "idle"
  /\ rx' = [rx EXCEPT ![gen] = "flight"] /\ dma' = [dma EXCEPT ![gen] = rx_skb]
  /\ npc' = "intr"
  /\ UNCHANGED <<binding, xpc, gen, rx_skb, rxcb, handed, mixed, left, deaf, intr, send>>

OpenIntr ==
  /\ npc = "intr" /\ enabled
  /\ intr' = "flight"
  /\ npc' = "start"
  /\ UNCHANGED <<binding, xpc, gen, receive, send>>

\* Either submission may be refused; what was submitted stays.
OpenRefused ==
  /\ npc \in {"rx", "intr"}
  /\ npc' = "down"
  /\ left' = (left \/ npc = "intr")
  /\ UNCHANGED <<binding, xpc, gen, rx, dma, rx_skb, rxcb, handed, mixed, deaf,
                 intr, send>>

\* rtl8150_hardware_start, then the queue is started.
OpenStart ==
  /\ npc = "start"
  /\ stopped' = FALSE
  /\ late' = (late \/ ~TxQuiet)
  /\ npc' = "up"
  /\ UNCHANGED <<binding, xpc, gen, receive, intr, tx_cur, tx, txcb, fate>>

-----------------------------------------------------------------------------
(* rtl8150_close.  The network core waits for start_xmit to be over.        *)

CloseCall ==
  /\ npc = "up" /\ xpc = "idle"
  /\ stopped' = TRUE
  /\ npc' = "close"
  /\ UNCHANGED <<binding, xpc, gen, receive, intr, tx_cur, tx, txcb, late, fate>>

\* Mutant: the receive URB is forgotten.
CloseUnlinkTx ==
  /\ npc = "close"
  /\ intr' = Withdrawn
  /\ tx' = [p \in Pkts |-> IF p = tx_cur THEN Unlinked(tx[p]) ELSE tx[p]]
  /\ npc' = "down"
  /\ UNCHANGED <<binding, xpc, gen, receive, stopped, tx_cur, txcb, late, fate>>

\* A URB that is in its callback is not unlinked.
CloseUnlink ==
  /\ npc = "close"
  /\ rx' = [rx EXCEPT ![gen] = Unlinked(rx[gen])]
  /\ intr' = Withdrawn
  /\ tx' = [p \in Pkts |-> IF p = tx_cur THEN Unlinked(tx[p]) ELSE tx[p]]
  /\ npc' = "down"
  /\ UNCHANGED <<binding, xpc, gen, dma, rx_skb, rxcb, handed, mixed, left, deaf,
                 stopped, tx_cur, txcb, late, fate>>

-----------------------------------------------------------------------------
(* rtl8150_start_xmit                                                      *)

XmitBegins == npc = "up" /\ xpc = "idle" /\ ~stopped /\ tx_cur < MaxPkts

\* Mutant: the queue goes on while the packet is in flight.
XmitCallNoStop ==
  /\ XmitBegins
  /\ tx_cur' = tx_cur + 1 /\ fate' = [fate EXCEPT ![tx_cur'] = "ours"]
  /\ xpc' = "submit"
  /\ UNCHANGED <<binding, npc, gen, receive, intr, stopped, tx, txcb, late>>

XmitCall ==
  /\ XmitBegins
  /\ stopped' = TRUE
  /\ tx_cur' = tx_cur + 1 /\ fate' = [fate EXCEPT ![tx_cur'] = "ours"]
  /\ xpc' = "submit"
  /\ UNCHANGED <<binding, npc, gen, receive, intr, tx, txcb, late>>

XmitSubmit ==
  /\ xpc = "submit" /\ enabled
  /\ tx' = [tx EXCEPT ![tx_cur] = "flight"]
  /\ xpc' = "idle"
  /\ UNCHANGED <<binding, npc, gen, receive, intr, stopped, tx_cur, txcb, late, fate>>

\* Mutant: the queue is left to a completion that does not come.
XmitRefusedStopped ==
  /\ xpc = "submit"
  /\ fate' = [fate EXCEPT ![tx_cur] = "failed"]
  /\ xpc' = "idle"
  /\ UNCHANGED <<binding, npc, gen, receive, intr, stopped, tx_cur, tx, txcb, late>>

\* The queue is started again; the skb is freed by nobody, for the network
\* core takes a negative result for a packet consumed.
XmitRefused ==
  /\ xpc = "submit"
  /\ stopped' = FALSE /\ fate' = [fate EXCEPT ![tx_cur] = "failed"]
  /\ xpc' = "idle"
  /\ UNCHANGED <<binding, npc, gen, receive, intr, tx_cur, tx, txcb, late>>

-----------------------------------------------------------------------------
(* read_bulk_callback.  Given back after the private structure is freed, a  *)
(* URB finds anything; the model lets it end there.                        *)

RxGiveback(g) ==
  /\ rx[g] # "idle" /\ rxcb.at = "idle"
  /\ rx' = [rx EXCEPT ![g] = "idle"] /\ dma' = [dma EXCEPT ![g] = 0]
  /\ \E status \in Completion(rx[g]):
       rxcb' = IF ppc = "freed" THEN rxcb
               ELSE [at  |-> IF status = "ok" THEN "handup" ELSE "refill",
                     skb |-> IF status = "ok" THEN dma[g] ELSE 0]
  /\ UNCHANGED <<binding, npc, xpc, gen, rx_skb, handed, mixed, left, deaf, intr, send>>

\* netif_rx
RxHandUp ==
  /\ rxcb.at = "handup"
  /\ handed' = rx_skb
  /\ rxcb' = [at |-> "refill", skb |-> 0]
  /\ UNCHANGED <<binding, npc, xpc, gen, rx, dma, rx_skb, mixed, left, deaf, intr, send>>

\* Mutant: the next packet is received into the skb just handed up.
RxRefillKeeps ==
  /\ rxcb.at = "refill"
  /\ rxcb' = [at |-> "submit", skb |-> 0]
  /\ UNCHANGED <<binding, npc, xpc, gen, rx, dma, rx_skb, handed, mixed, left, deaf,
                 intr, send>>

RxRefill ==
  /\ rxcb.at = "refill"
  /\ NewSkb
  /\ rxcb' = [at |-> "submit", skb |-> 0]
  /\ UNCHANGED <<binding, npc, xpc, gen, rx, dma, handed, mixed, left, deaf, intr, send>>

\* It submits priv->rx_urb, whichever URB it was called for.
RxSubmit ==
  /\ rxcb.at = "submit" /\ enabled /\ rx[gen] = "idle"
  /\ rx' = [rx EXCEPT ![gen] = "flight"] /\ dma' = [dma EXCEPT ![gen] = rx_skb]
  /\ rxcb' = [rxcb EXCEPT !.at = "idle"]
  /\ left' = (left \/ npc = "down")
  /\ UNCHANGED <<binding, npc, xpc, gen, rx_skb, handed, mixed, deaf, intr, send>>

\* Refused, because the URB is in flight (-EBUSY) or otherwise: nobody looks.
RxSubmitRefused ==
  /\ rxcb.at = "submit"
  /\ rxcb' = [rxcb EXCEPT !.at = "idle"]
  /\ deaf' = (deaf \/ rx[gen] = "idle")
  /\ UNCHANGED <<binding, npc, xpc, gen, rx, dma, rx_skb, handed, mixed, left, intr, send>>

-----------------------------------------------------------------------------
(* intr_callback: it returns if the URB was unlinked, and submits it again  *)
(* otherwise.  One that a close has missed goes round by itself, and is not *)
(* followed any more once the next open has submitted its own.             *)

\* Mutant: an error of the device is taken for the end.
IntrGivebackGivesUp ==
  /\ intr = "flight"
  /\ \E status \in Completion("flight"):
       intr' = IF status = "error" \/ ppc = "freed" THEN "idle" ELSE "callback"
  /\ UNCHANGED <<binding, npc, xpc, gen, receive, send>>

\* Given back with success or an error, it goes on.
IntrGiveback ==
  /\ intr = "flight"
  /\ intr' = IF ppc = "freed" THEN "idle" ELSE "callback"
  /\ UNCHANGED <<binding, npc, xpc, gen, receive, send>>

IntrSubmit ==
  /\ intr = "callback"
  /\ intr' \in {"refused"} \cup (IF enabled THEN {"flight"} ELSE {})
  /\ UNCHANGED <<binding, npc, xpc, gen, receive, send>>

-----------------------------------------------------------------------------
(* write_bulk_callback                                                     *)

\* Mutant: a packet that could not be sent is freed like any other.
TxGivebackFrees(p) ==
  /\ tx[p] # "idle" /\ txcb.at = "idle"
  /\ tx' = [tx EXCEPT ![p] = "idle"]
  /\ \E status \in Completion(tx[p]):
       /\ fate' = [fate EXCEPT ![p] = IF status = "ok" THEN @ ELSE "failed"]
       /\ txcb' = IF ppc = "freed" THEN txcb ELSE [at |-> "free", pkt |-> p]
  /\ UNCHANGED <<binding, npc, xpc, gen, receive, intr, stopped, tx_cur, late>>

TxGiveback(p) ==
  /\ tx[p] # "idle" /\ txcb.at = "idle"
  /\ tx' = [tx EXCEPT ![p] = "idle"]
  /\ \E status \in Completion(tx[p]):
       /\ fate' = [fate EXCEPT ![p] = IF status = "ok" THEN @ ELSE "failed"]
       /\ txcb' = IF ppc = "freed" THEN txcb
                  ELSE [at |-> IF status = "ok" THEN "free" ELSE "enable", pkt |-> p]
  /\ UNCHANGED <<binding, npc, xpc, gen, receive, intr, stopped, tx_cur, late>>

\* It frees priv->tx_skb, whichever packet it was called for.
TxFree ==
  /\ txcb.at = "free"
  /\ txcb' = [txcb EXCEPT !.at = "enable"]
  /\ fate' = [fate EXCEPT ![tx_cur] = IF @ = "ours" THEN "freed" ELSE "spoilt"]
  /\ UNCHANGED <<binding, npc, xpc, gen, receive, intr, stopped, tx_cur, tx, late>>

TxEnable ==
  /\ txcb.at = "enable"
  /\ stopped' = FALSE
  /\ txcb' = [at |-> "idle", pkt |-> 0]
  /\ UNCHANGED <<binding, npc, xpc, gen, receive, intr, tx_cur, tx, late, fate>>

-----------------------------------------------------------------------------

Binding == \/ Disconnect \/ Flushed \/ ProbeGranted \/ ProbeRefused
           \/ UnregisterUp \/ UnregisterDown \/ Free
Open  == OpenUrbs \/ OpenSkb \/ OpenRx \/ OpenIntr \/ OpenRefused \/ OpenStart
Close == CloseCall \/ CloseUnlink
Xmit  == XmitSubmit \/ XmitRefused
RxCallback   == \/ \E g \in Opens: RxGiveback(g)
                \/ RxHandUp \/ RxRefill \/ RxSubmit \/ RxSubmitRefused
IntrCallback == IntrGiveback \/ IntrSubmit
TxCallback   == (\E p \in Pkts: TxGiveback(p)) \/ TxFree \/ TxEnable

Next == \/ Binding \/ Open \/ Close \/ XmitCall \/ Xmit
        \/ RxCallback \/ IntrCallback \/ TxCallback

Spec == Init /\ [][Next]_vars

-----------------------------------------------------------------------------
(* Properties                                                              *)

\* Every variable has its type, and a submitted receive URB has an skb.
TypeOK ==
  /\ ppc \in {"probing", "bound", "flush", "undo", "unregister", "freed"}
  /\ npc \in {"down", "skb", "rx", "intr", "start", "up", "close"}
  /\ xpc \in {"idle", "submit"}
  /\ enabled \in BOOLEAN /\ stopped \in BOOLEAN
  /\ deaf \in BOOLEAN /\ mixed \in BOOLEAN /\ left \in BOOLEAN /\ late \in BOOLEAN
  /\ fate \in [Pkts -> {"none", "ours", "freed", "failed", "spoilt"}]
  /\ gen \in 0..MaxOpens /\ tx_cur \in 0..MaxPkts
  /\ rx \in [Opens -> Urb] /\ tx \in [Pkts -> Urb]
  /\ intr \in {"idle", "flight", "callback", "refused"}
  /\ rx_skb \in Skbs \cup {0} /\ handed \in Skbs \cup {0}
  /\ dma \in [Opens -> Skbs \cup {0}]
  /\ \A g \in Opens: rx[g] # "idle" => dma[g] \in Skbs
  /\ rxcb \in [at: {"idle", "handup", "refill", "submit"}, skb: Skbs \cup {0}]
  /\ txcb \in [at: {"idle", "free", "enable"}, pkt: 0..MaxPkts]

\* What goes up is what was received, and nothing is received into it any
\* more, unless an open came upon a receive URB that an earlier close had left
\* (usb.c:300-302, 317-321, 468-475).
ReceivedGoesUp ==
  ~mixed => /\ rxcb.at = "handup" => rx_skb = rxcb.skb
            /\ \A g \in Opens: rx[g] # "idle" => dma[g] # handed

\* The skb that a completion frees is the one that was sent, and a packet in
\* flight keeps the queue stopped, so that no other takes its place, unless an
\* open started the queue over a transmission that an earlier close had left
\* (usb.c:419, 430, 500, 625-630).
SentIsFreed ==
  ~late => /\ txcb.at = "free" => txcb.pkt = tx_cur
           /\ npc = "up" /\ ~TxQuiet => stopped

\* The packet is in start_xmit, in flight, or in the callback that frees it.
Carried(p) == \/ xpc = "submit" /\ p = tx_cur
              \/ tx[p] # "idle"
              \/ txcb = [at |-> "free", pkt |-> p]

\* Every packet taken is freed once when it was sent, and left to nobody when
\* it was not: its submission refused, or its transmission failed or unlinked
\* (usb.c:410-419, 653-656).  Once the private structure is gone, or with the
\* overlap that SentIsFreed names, any of them may be freed or left.
FreedOrFailed ==
  ~late /\ ppc # "freed" => \A p \in 1 .. tx_cur:
     IF Carried(p) THEN fate[p] = "ours" ELSE fate[p] \in {"freed", "failed"}

\* An interface that is down has a receive URB in flight only if an open that
\* failed left it (usb.c:490), if a callback submitted it again after the close
\* (usb.c:321), or if the close knew another one (usb.c:599).
DownIsQuiet == npc = "down" /\ ~left /\ ~mixed => \A g \in Opens: rx[g] # "flight"

\* While the interface is up the driver listens on both pipes, whatever errors
\* and races there were, unless a resubmission was refused, which no callback
\* looks at (usb.c:321, 376).
ListensWhileUp ==
  npc = "up" /\ enabled =>
    /\ deaf \/ rx[gen] = "flight" \/ rxcb.at # "idle"
    /\ intr # "idle"

\* The private structure outlives its users: when a disconnect frees it, no
\* call is in it and no URB can come back to it.  A probe refused after an
\* open frees it regardless (usb.c:236-253, 693-694).
PrivOutlives ==
  ppc = "freed" /\ (~enabled \/ gen = 0) => Quiet /\ npc = "down" /\ xpc = "idle"

\* The queue stopped by start_xmit has somebody to start it again: start_xmit
\* itself if the submission is refused, or the completion (usb.c:427-430,
\* 653-656).  The driver has no transmit timeout that would do it otherwise.
StoppedIsCarried == npc = "up" /\ stopped => xpc = "submit" \/ ~TxQuiet

-----------------------------------------------------------------------------
(* The inductive invariants behind these properties.                       *)

\* Where open, start_xmit and the binding may be together.
ShapeInv ==
  /\ npc = "rx" \/ rxcb.at = "submit" => rx_skb # 0
  /\ ppc = "unregister" => npc \in {"close", "down"}
  /\ ppc = "freed" => npc = "down"
  /\ xpc = "submit" => npc = "up" /\ tx_cur # 0
  /\ npc # "down" => gen # 0
  /\ gen = 0 => tx_cur = 0 /\ intr = "idle" /\ RxQuiet
  /\ tx_cur = 0 => TxQuiet

\* Without an overlap the receive URB is the last open's, its skb is in the
\* URB, in the callback or with open, and none of them has been handed up.
OneReceive ==
  /\ \A g \in Opens: rx[g] # "idle" => g = gen /\ dma[g] = rx_skb /\ dma[g] # handed
  /\ rxcb.at # "idle" \/ npc \in {"skb", "rx"} => \A g \in Opens: rx[g] = "idle"
  /\ npc \in {"skb", "rx"} => rxcb.at = "idle"
  /\ npc = "rx" \/ rxcb.at = "submit" => rx_skb # handed
  /\ rxcb.at = "handup" => rx_skb = rxcb.skb

RxInv == ~mixed => OneReceive

\* Without an overlap there is one transmission, of the last packet, and the
\* queue is stopped until it is over.
OneTransmission ==
  /\ \A p \in Pkts: tx[p] # "idle" => p = tx_cur
  /\ txcb.at # "idle" => txcb.pkt = tx_cur /\ \A p \in Pkts: tx[p] = "idle"
  /\ xpc = "submit" => TxQuiet
  /\ (npc = "up" /\ ~TxQuiet) \/ xpc = "submit" => stopped

TxInv == ~late => OneTransmission

\* While open has submitted the receive URB nobody takes it back.
ListenInv ==
  enabled =>
    /\ npc \in {"intr", "start", "up"} =>
         /\ rx[gen] # "unlinked"
         /\ deaf \/ rx[gen] = "flight" \/ rxcb.at # "idle"
    /\ npc \in {"start", "up"} => intr # "idle"

\* rtl8150_disconnect is called when nothing is left that could come back, and
\* the core takes no more.
GoneInv ==
  /\ ppc = "flush" => ~enabled
  /\ ~enabled => ppc \notin {"probing", "bound"}
  /\ ~enabled /\ ppc \in {"undo", "unregister", "freed"} => Quiet

UsbInv == /\ TypeOK /\ ShapeInv /\ RxInv /\ TxInv /\ ListenInv /\ GoneInv
          /\ FreedOrFailed /\ DownIsQuiet /\ StoppedIsCarried

=============================================================================
