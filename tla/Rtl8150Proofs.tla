---------------------------- MODULE Rtl8150Proofs ----------------------------
(***************************************************************************)
(* Proofs about Rtl8150, for any number of opens and of packets.           *)
(***************************************************************************)
EXTENDS Rtl8150, TLAPS

(* The types                                                               *)

Flags ==
  /\ ppc \in {"probing", "bound", "flush", "undo", "unregister", "freed"}
  /\ npc \in {"down", "skb", "rx", "intr", "start", "up", "close"}
  /\ xpc \in {"idle", "submit"}
  /\ enabled \in BOOLEAN /\ stopped \in BOOLEAN
  /\ deaf \in BOOLEAN /\ mixed \in BOOLEAN /\ left \in BOOLEAN /\ late \in BOOLEAN
  /\ intr \in {"idle", "flight", "callback", "refused"}

Sending ==
  /\ fate \in [Pkts -> {"none", "ours", "freed", "failed", "spoilt"}]
  /\ tx_cur \in 0..MaxPkts /\ tx \in [Pkts -> Urb]
  /\ txcb \in [at: {"idle", "free", "enable"}, pkt: 0..MaxPkts]

Receiving ==
  /\ gen \in 0..MaxOpens /\ rx \in [Opens -> Urb]
  /\ rx_skb \in Skbs \cup {0} /\ handed \in Skbs \cup {0}
  /\ dma \in [Opens -> Skbs \cup {0}]
  /\ \A g \in Opens: rx[g] # "idle" => dma[g] \in Skbs
  /\ rxcb \in [at: {"idle", "handup", "refill", "submit"}, skb: Skbs \cup {0}]

LEMMA TypeParts == TypeOK <=> Flags /\ Sending /\ Receiving
BY Zenon DEF TypeOK, Flags, Sending, Receiving

LEMMA FlagsStep == ASSUME Flags, Next PROVE Flags'
<1> USE DEF Flags, binding, receive, send
<1>1. CASE Disconnect \/ CloseUnlink
  BY <1>1, Zenon DEF Disconnect, CloseUnlink, Withdrawn
<1>2. CASE \/ Flushed \/ ProbeGranted \/ ProbeRefused
           \/ UnregisterUp \/ UnregisterDown \/ Free
  BY <1>2, Zenon DEF Flushed, ProbeGranted, ProbeRefused, UnregisterUp,
                     UnregisterDown, Free
<1>3. CASE Open
  <2>1. CASE OpenUrbs \/ OpenSkb \/ OpenRx
    BY <2>1, Zenon DEF OpenUrbs, OpenSkb, OpenRx
  <2>2. CASE OpenIntr \/ OpenRefused \/ OpenStart
    BY <2>2, Zenon DEF OpenIntr, OpenRefused, OpenStart
  <2>3. QED
    BY <1>3, <2>1, <2>2, Zenon DEF Open
<1>4. CASE CloseCall \/ XmitCall \/ Xmit
  BY <1>4, Zenon DEF CloseCall, XmitCall, Xmit, XmitSubmit, XmitRefused
<1>5. CASE RxCallback
  BY <1>5, Zenon DEF RxCallback, RxGiveback, RxHandUp, RxRefill, RxSubmit,
                     RxSubmitRefused
<1>6. CASE IntrCallback
  BY <1>6, Zenon DEF IntrCallback, IntrGiveback, IntrSubmit
<1>7. CASE TxCallback
  BY <1>7, Zenon DEF TxCallback, TxGiveback, TxFree, TxEnable
<1>8. QED
  BY <1>1, <1>2, <1>3, <1>4, <1>5, <1>6, <1>7, Zenon DEF Next, Binding, Close

LEMMA SendingStep == ASSUME Sending, Next PROVE Sending'
<1> USE DEF Sending, binding, receive, send, Urb
<1>1. CASE Disconnect \/ CloseUnlink
  BY <1>1, SMT DEF Disconnect, CloseUnlink, Unlinked
<1>2. CASE OpenStart \/ CloseCall \/ UnregisterUp
  BY <1>2, Zenon DEF OpenStart, CloseCall, UnregisterUp
<1>3. CASE XmitCall
  BY <1>3, BoundAssumption, SMT DEF XmitCall, XmitBegins, Pkts
<1>4. CASE XmitSubmit \/ XmitRefused
  BY <1>4, SMT DEF XmitSubmit, XmitRefused
<1>5. ASSUME NEW p \in Pkts, TxGiveback(p) PROVE Sending'
  <2>1. tx' \in [Pkts -> Urb] /\ tx_cur' \in 0..MaxPkts
    BY <1>5, Zenon DEF TxGiveback
  <2>2. PICK status \in Completion(tx[p]):
          /\ fate' = [fate EXCEPT ![p] = IF status = "ok" THEN @ ELSE "failed"]
          /\ txcb' = IF ppc = "freed" THEN txcb
                     ELSE [at |-> IF status = "ok" THEN "free" ELSE "enable", pkt |-> p]
    BY <1>5, Zenon DEF TxGiveback
  <2>3. fate' \in [Pkts -> {"none", "ours", "freed", "failed", "spoilt"}]
    BY <2>2, SMT
  <2>4. p \in 0..MaxPkts
    BY BoundAssumption, SMT DEF Pkts
  <2>5. txcb' \in [at: {"idle", "free", "enable"}, pkt: 0..MaxPkts]
    BY <2>2, <2>4, SMT
  <2>6. QED
    BY <2>1, <2>3, <2>5
<1>6. CASE TxFree \/ TxEnable
  BY <1>6, BoundAssumption, SMT DEF TxFree, TxEnable
<1>7. CASE UNCHANGED <<tx_cur, tx, txcb, fate>>
  BY <1>7, Zenon
<1>8. Next => \/ Disconnect \/ CloseUnlink \/ OpenStart \/ CloseCall \/ UnregisterUp
              \/ XmitCall \/ XmitSubmit \/ XmitRefused
              \/ (\E p \in Pkts: TxGiveback(p)) \/ TxFree \/ TxEnable
              \/ UNCHANGED <<tx_cur, tx, txcb, fate>>
  BY Zenon DEF Next, Binding, Flushed, ProbeGranted, ProbeRefused, UnregisterDown,
     Free, Open, OpenUrbs, OpenSkb, OpenRx, OpenIntr, OpenRefused, Close, Xmit,
     RxCallback, RxGiveback, RxHandUp, RxRefill, RxSubmit, RxSubmitRefused,
     IntrCallback, IntrGiveback, IntrSubmit, TxCallback
<1>9. QED
  BY <1>1, <1>2, <1>3, <1>4, <1>5, <1>6, <1>7, <1>8, Zenon

\* A new skb is an skb that nobody has.
LEMMA NewSkbIsNew ==
  ASSUME NewSkb
  PROVE  /\ rx_skb' \in Skbs /\ rx_skb' # 0
         /\ rx_skb' # handed /\ \A g \in Opens: rx_skb' # dma[g]
<1>1. PICK s \in Skbs \ ({rx_skb, handed, rxcb.skb} \cup {dma[g]: g \in Opens}):
        rx_skb' = s
  BY Zenon DEF NewSkb
<1>2. s # 0
  BY <1>1, SMT DEF Skbs
<1>3. QED
  BY <1>1, <1>2, Zenon

LEMMA ReceivingStep ==
  ASSUME Receiving, ShapeInv, Next
  PROVE  Receiving'
<1> USE DEF Receiving, binding, receive, send, Urb
<1>1. CASE Disconnect \/ CloseUnlink
  BY <1>1, SMT DEF Disconnect, CloseUnlink, Unlinked
<1>2. CASE OpenUrbs
  BY <1>2, BoundAssumption, SMT DEF OpenUrbs
<1>3. CASE OpenSkb
  <2>1. rx_skb' \in Skbs
    BY <1>3, NewSkbIsNew DEF OpenSkb
  <2>2. QED
    BY <1>3, <2>1, Zenon DEF OpenSkb
<1>4. CASE OpenRx \/ RxSubmit
  <2>1. /\ rx_skb \in Skbs
        /\ rx' = [rx EXCEPT ![gen] = "flight"] /\ dma' = [dma EXCEPT ![gen] = rx_skb]
        /\ gen' = gen /\ rx_skb' = rx_skb /\ handed' = handed
    BY <1>4, Zenon DEF OpenRx, RxSubmit, ShapeInv
  <2>2. rxcb' = rxcb \/ rxcb' = [rxcb EXCEPT !.at = "idle"]
    BY <1>4, Zenon DEF OpenRx, RxSubmit
  <2>3. rxcb' \in [at: {"idle", "handup", "refill", "submit"}, skb: Skbs \cup {0}]
    BY <2>2, SMT
  <2>4. rx' \in [Opens -> Urb] /\ dma' \in [Opens -> Skbs \cup {0}]
    BY <2>1, Zenon
  <2>5. ASSUME NEW g \in Opens, rx'[g] # "idle" PROVE dma'[g] \in Skbs
    BY <2>1, <2>5, Zenon
  <2>6. QED
    BY <2>1, <2>3, <2>4, <2>5, Zenon
<1>5. CASE OpenRefused \/ RxSubmitRefused
  BY <1>5, SMT DEF OpenRefused, RxSubmitRefused
<1>6. ASSUME NEW g \in Opens, RxGiveback(g) PROVE Receiving'
  <2>1. /\ rx' = [rx EXCEPT ![g] = "idle"] /\ dma' = [dma EXCEPT ![g] = 0]
        /\ gen' = gen /\ rx_skb' = rx_skb /\ handed' = handed
    BY <1>6, Zenon DEF RxGiveback
  <2>2. PICK status \in Completion(rx[g]):
          rxcb' = IF ppc = "freed" THEN rxcb
                  ELSE [at  |-> IF status = "ok" THEN "handup" ELSE "refill",
                        skb |-> IF status = "ok" THEN dma[g] ELSE 0]
    BY <1>6, Zenon DEF RxGiveback
  <2>3. rxcb' \in [at: {"idle", "handup", "refill", "submit"}, skb: Skbs \cup {0}]
    BY <2>2, SMT
  <2>4. QED
    BY <2>1, <2>3, SMT
<1>7. CASE RxHandUp
  BY <1>7, SMT DEF RxHandUp
<1>8. CASE RxRefill
  <2>1. rx_skb' \in Skbs
    BY <1>8, NewSkbIsNew DEF RxRefill
  <2>2. rxcb' \in [at: {"idle", "handup", "refill", "submit"}, skb: Skbs \cup {0}]
    BY <1>8, SMT DEF RxRefill
  <2>3. QED
    BY <1>8, <2>1, <2>2, Zenon DEF RxRefill
<1>9. CASE UNCHANGED <<gen, rx, dma, rx_skb, handed, rxcb>>
  BY <1>9, Zenon
<1>10. Next => \/ Disconnect \/ CloseUnlink \/ OpenUrbs \/ OpenSkb \/ OpenRx \/ RxSubmit
               \/ OpenRefused \/ RxSubmitRefused \/ (\E g \in Opens: RxGiveback(g))
               \/ RxHandUp \/ RxRefill
               \/ UNCHANGED <<gen, rx, dma, rx_skb, handed, rxcb>>
  BY Zenon DEF Next, Binding, Flushed, ProbeGranted, ProbeRefused, UnregisterUp,
     UnregisterDown, Free, Open, OpenIntr, OpenStart, Close, CloseCall, XmitCall, Xmit,
     XmitSubmit, XmitRefused, RxCallback, IntrCallback, IntrGiveback, IntrSubmit,
     TxCallback, TxGiveback, TxFree, TxEnable
<1>11. QED
  BY <1>1, <1>2, <1>3, <1>4, <1>5, <1>6, <1>7, <1>8, <1>9, <1>10, Zenon

(* The binding, and who may be in the driver                               *)

LEMMA ShapeStep ==
  ASSUME Receiving, Sending, ShapeInv, Next
  PROVE  ShapeInv'
<1> USE DEF ShapeInv, binding, receive, send, RxQuiet, TxQuiet
<1>1. CASE Disconnect
  BY <1>1, Zenon DEF Disconnect, Withdrawn, Unlinked, Receiving, Sending
<1>2. CASE CloseUnlink
  BY <1>2, Zenon DEF CloseUnlink, Withdrawn, Unlinked, Receiving, Sending
<1>3. CASE \/ Flushed \/ ProbeGranted \/ ProbeRefused
           \/ UnregisterUp \/ UnregisterDown \/ Free
  BY <1>3, Zenon DEF Flushed, ProbeGranted, ProbeRefused, UnregisterUp,
                     UnregisterDown, Free
<1>4. CASE OpenUrbs
  <2>1. gen' # 0
    BY <1>4, SMT DEF OpenUrbs, Receiving
  <2>2. QED
    BY <1>4, <2>1, Zenon DEF OpenUrbs
<1>5. CASE OpenSkb
  BY <1>5, NewSkbIsNew, Zenon DEF OpenSkb
<1>6. CASE OpenRx
  BY <1>6, Zenon DEF OpenRx
<1>7. CASE OpenIntr \/ OpenRefused \/ OpenStart
  BY <1>7, Zenon DEF OpenIntr, OpenRefused, OpenStart
<1>8. CASE CloseCall \/ XmitRefused
  BY <1>8, Zenon DEF CloseCall, XmitRefused
<1>9. CASE XmitCall
  <2>1. tx_cur' # 0
    BY <1>9, SMT DEF XmitCall, Sending
  <2>2. QED
    BY <1>9, <2>1, Zenon DEF XmitCall, XmitBegins
<1>10. CASE XmitSubmit
  BY <1>10, Zenon DEF XmitSubmit
<1>11. CASE RxHandUp \/ RxSubmitRefused
  BY <1>11, SMT DEF RxHandUp, RxSubmitRefused, Receiving
<1>12. CASE RxRefill
  BY <1>12, NewSkbIsNew, Zenon DEF RxRefill
<1>13. CASE RxSubmit
  BY <1>13, SMT DEF RxSubmit, Receiving
<1>14. ASSUME NEW g \in Opens, RxGiveback(g) PROVE ShapeInv'
  <2>1. gen # 0
    BY <1>14, Zenon DEF RxGiveback
  <2>2. rxcb' = rxcb \/ rxcb'.at \in {"handup", "refill"}
    BY <1>14, SMT DEF RxGiveback
  <2>3. rxcb'.at # "submit"
    BY <1>14, <2>2, SMT DEF RxGiveback
  <2>4. QED
    BY <1>14, <2>1, <2>3, Zenon DEF RxGiveback
<1>15. CASE IntrCallback
  BY <1>15, Zenon DEF IntrCallback, IntrGiveback, IntrSubmit
<1>16. ASSUME NEW p \in Pkts, TxGiveback(p) PROVE ShapeInv'
  BY <1>16, Zenon DEF TxGiveback
<1>17. CASE TxFree \/ TxEnable
  BY <1>17, Zenon DEF TxFree, TxEnable
<1>18. QED
  BY <1>1, <1>2, <1>3, <1>4, <1>5, <1>6, <1>7, <1>8, <1>9, <1>10, <1>11, <1>12, <1>13,
     <1>14, <1>15, <1>16, <1>17, Zenon
  DEF Next, Binding, Open, Close, Xmit, RxCallback, TxCallback

\* Nothing is submitted any more once the core takes no URBs, so what is quiet
\* stays quiet.
LEMMA QuietStays ==
  ASSUME Next, ~enabled, Quiet
  PROVE  Quiet'
<1> USE DEF binding, receive, send, Quiet, RxQuiet, IntrQuiet, TxQuiet
<1>1. CASE \/ Flushed \/ ProbeGranted \/ ProbeRefused
           \/ UnregisterUp \/ UnregisterDown \/ Free
  BY <1>1, Zenon DEF Flushed, ProbeGranted, ProbeRefused, UnregisterUp,
                     UnregisterDown, Free
<1>2. CASE Disconnect
  <2>1. rx' = [g \in Opens |-> "idle"] /\ tx' = [p \in Pkts |-> "idle"]
    BY <1>2, Zenon DEF Disconnect, Unlinked
  <2>2. QED
    BY <1>2, <2>1, Zenon DEF Disconnect, Withdrawn
<1>3. CASE CloseUnlink
  <2>1. /\ \A g \in Opens: rx'[g] = "idle"
        /\ \A p \in Pkts: tx'[p] = "idle"
    BY <1>3, SMT DEF CloseUnlink, Unlinked
  <2>2. QED
    BY <1>3, <2>1, Zenon DEF CloseUnlink, Withdrawn
<1>4. CASE Open
  BY <1>4, Zenon DEF Open, OpenUrbs, OpenSkb, OpenRx, OpenIntr, OpenRefused, OpenStart
<1>5. CASE CloseCall \/ XmitCall \/ Xmit
  BY <1>5, Zenon DEF CloseCall, XmitCall, Xmit, XmitSubmit, XmitRefused
<1>6. ~ RxCallback
  BY Zenon DEF RxCallback, RxHandUp, RxRefill, RxSubmit, RxSubmitRefused, RxGiveback
<1>7. ~ IntrCallback
  BY Zenon DEF IntrCallback, IntrGiveback, IntrSubmit
<1>8. ~ TxCallback
  BY Zenon DEF TxCallback, TxGiveback, TxFree, TxEnable
<1>9. QED
  BY <1>1, <1>2, <1>3, <1>4, <1>5, <1>6, <1>7, <1>8, Zenon DEF Next, Binding, Close

LEMMA GoneStep == ASSUME GoneInv, Next PROVE GoneInv'
<1> USE DEF GoneInv, binding, receive, send
<1>1. CASE Disconnect \/ Flushed \/ ProbeGranted \/ ProbeRefused
  <2>1. UNCHANGED <<npc, xpc, gen, receive, intr, send>> /\ Quiet => Quiet'
    BY Zenon DEF Quiet, RxQuiet, IntrQuiet, TxQuiet
  <2>2. QED
    BY <1>1, <2>1, Zenon DEF Disconnect, Flushed, ProbeGranted, ProbeRefused
<1>2. CASE UnregisterUp \/ UnregisterDown \/ Free
  <2>1. Quiet => Quiet'
    BY <1>2, Zenon DEF UnregisterUp, UnregisterDown, Free, Quiet, RxQuiet, IntrQuiet, TxQuiet
  <2>2. QED
    BY <1>2, <2>1, Zenon DEF UnregisterUp, UnregisterDown, Free
<1>3. CASE UNCHANGED <<ppc, enabled>>
  BY <1>3, QuietStays, Zenon
<1>4. Next => \/ Disconnect \/ Flushed \/ ProbeGranted \/ ProbeRefused
              \/ UnregisterUp \/ UnregisterDown \/ Free
              \/ UNCHANGED <<ppc, enabled>>
  BY Zenon DEF Next, Binding, Open, OpenUrbs, OpenSkb, OpenRx, OpenIntr, OpenRefused,
     OpenStart, Close, CloseCall, CloseUnlink, XmitCall, Xmit, XmitSubmit, XmitRefused,
     RxCallback, RxGiveback, RxHandUp, RxRefill, RxSubmit, RxSubmitRefused,
     IntrCallback, IntrGiveback, IntrSubmit, TxCallback, TxGiveback, TxFree, TxEnable
<1>5. QED
  BY <1>1, <1>2, <1>3, <1>4, Zenon

(* The receive URB                                                         *)

LEMMA RxStep ==
  ASSUME Receiving, ShapeInv, RxInv, Next
  PROVE  RxInv'
<1> SUFFICES ASSUME ~mixed'
             PROVE  OneReceive'
  BY DEF RxInv
<1> USE DEF OneReceive, binding, receive, send, RxQuiet
<1>1. ~ mixed
  BY Zenon DEF Next, Binding, Disconnect, Flushed, ProbeGranted, ProbeRefused,
     UnregisterUp, UnregisterDown, Free, Open, OpenUrbs, OpenSkb, OpenRx, OpenIntr,
     OpenRefused, OpenStart, Close, CloseCall, CloseUnlink, XmitCall, Xmit, XmitSubmit,
     XmitRefused, RxCallback, RxGiveback, RxHandUp, RxRefill, RxSubmit,
     RxSubmitRefused, IntrCallback, IntrGiveback, IntrSubmit, TxCallback, TxGiveback,
     TxFree, TxEnable
<1>2. /\ \A g \in Opens: rx[g] # "idle" => g = gen /\ dma[g] = rx_skb /\ dma[g] # handed
      /\ rxcb.at # "idle" \/ npc \in {"skb", "rx"} => \A g \in Opens: rx[g] = "idle"
      /\ npc \in {"skb", "rx"} => rxcb.at = "idle"
      /\ npc = "rx" \/ rxcb.at = "submit" => rx_skb # handed
      /\ rxcb.at = "handup" => rx_skb = rxcb.skb
  BY <1>1, Zenon DEF RxInv, OneReceive
<1>3. CASE Disconnect \/ CloseUnlink
  <2>1. \A g \in Opens: rx'[g] # "idle" => rx[g] # "idle"
    BY <1>3, Zenon DEF Disconnect, CloseUnlink, Unlinked, Receiving
  <2>2. /\ gen' = gen /\ dma' = dma /\ rx_skb' = rx_skb /\ handed' = handed
        /\ rxcb' = rxcb /\ npc' \in {npc, "down"}
    BY <1>3, Zenon DEF Disconnect, CloseUnlink
  <2>3. QED
    BY <1>2, <2>1, <2>2, Zenon
<1>4. CASE OpenUrbs
  <2>1. RxQuiet
    BY <1>4, Zenon DEF OpenUrbs
  <2>2. QED
    BY <1>4, <2>1, Zenon DEF OpenUrbs
<1>5. CASE OpenSkb
  BY <1>2, <1>5, NewSkbIsNew, Zenon DEF OpenSkb
<1>6. CASE OpenRx
  <2>1. /\ rx' = [rx EXCEPT ![gen] = "flight"] /\ dma' = [dma EXCEPT ![gen] = rx_skb]
        /\ gen' = gen /\ rx_skb' = rx_skb /\ handed' = handed /\ rxcb' = rxcb
        /\ npc = "rx" /\ npc' = "intr"
    BY <1>6, Zenon DEF OpenRx
  <2>2. QED
    BY <1>2, <2>1, Zenon DEF Receiving
<1>7. CASE OpenIntr \/ OpenRefused \/ OpenStart
  BY <1>2, <1>7, Zenon DEF OpenIntr, OpenRefused, OpenStart
<1>8. ASSUME NEW g \in Opens, RxGiveback(g) PROVE OneReceive'
  <2>1. /\ rx[g] # "idle" /\ rxcb.at = "idle"
        /\ rx' = [rx EXCEPT ![g] = "idle"] /\ dma' = [dma EXCEPT ![g] = 0]
        /\ gen' = gen /\ rx_skb' = rx_skb /\ handed' = handed /\ npc' = npc
    BY <1>8, Zenon DEF RxGiveback
  <2>2. \/ rxcb' = rxcb
        \/ rxcb' = [at |-> "handup", skb |-> dma[g]]
        \/ rxcb' = [at |-> "refill", skb |-> 0]
    BY <1>8, Zenon DEF RxGiveback
  <2>3. \/ rxcb'.at = "idle"
        \/ rxcb'.at = "handup" /\ rxcb'.skb = dma[g]
        \/ rxcb'.at = "refill"
    BY <2>1, <2>2, SMT
  <2>4. \A h \in Opens: rx'[h] = "idle"
    BY <1>2, <2>1, Zenon DEF Receiving
  <2>5. dma[g] = rx_skb /\ npc \notin {"skb", "rx"}
    BY <1>2, <2>1, Zenon
  <2>6. QED
    BY <2>1, <2>3, <2>4, <2>5, SMT
<1>9. CASE RxHandUp
  <2>1. /\ rxcb.at = "handup" /\ rxcb'.at = "refill"
        /\ rx' = rx /\ npc' = npc
    BY <1>9, SMT DEF RxHandUp
  <2>2. QED
    BY <1>2, <2>1, SMT
<1>10. CASE RxRefill
  <2>1. /\ rxcb.at = "refill" /\ rxcb'.at = "submit"
        /\ rx' = rx /\ npc' = npc /\ rx_skb' # handed /\ handed' = handed
    BY <1>10, NewSkbIsNew, SMT DEF RxRefill
  <2>2. QED
    BY <1>2, <2>1, SMT
<1>11. CASE RxSubmit
  <2>1. /\ rx' = [rx EXCEPT ![gen] = "flight"] /\ dma' = [dma EXCEPT ![gen] = rx_skb]
        /\ gen' = gen /\ rx_skb' = rx_skb /\ handed' = handed
        /\ rxcb.at = "submit" /\ npc' = npc
    BY <1>11, Zenon DEF RxSubmit
  <2>2. rxcb'.at = "idle"
    BY <1>11, SMT DEF RxSubmit, Receiving
  <2>3. npc \notin {"skb", "rx"} /\ rx_skb # handed /\ \A g \in Opens: rx[g] = "idle"
    BY <1>2, <2>1, SMT
  <2>4. \A g \in Opens: rx'[g] # "idle" => g = gen /\ dma'[g] = rx_skb
    BY <2>1, <2>3, Zenon DEF Receiving
  <2>5. QED
    BY <2>1, <2>2, <2>3, <2>4, SMT
<1>12. CASE RxSubmitRefused
  <2>1. /\ rxcb'.at = "idle" /\ rxcb.at = "submit"
        /\ UNCHANGED <<rx, dma, rx_skb, handed, gen, npc>>
    BY <1>12, SMT DEF RxSubmitRefused, Receiving
  <2>2. QED
    BY <1>2, <2>1, SMT
<1>13. CASE /\ UNCHANGED <<gen, rx, dma, rx_skb, handed, rxcb>>
            /\ npc' = npc \/ npc' \notin {"skb", "rx"}
  BY <1>2, <1>13, Zenon
<1>14. \/ Disconnect \/ CloseUnlink \/ OpenUrbs \/ OpenSkb \/ OpenRx \/ RxSubmit
       \/ OpenIntr \/ OpenRefused \/ OpenStart \/ RxSubmitRefused
       \/ (\E g \in Opens: RxGiveback(g)) \/ RxHandUp \/ RxRefill
       \/ /\ UNCHANGED <<gen, rx, dma, rx_skb, handed, rxcb>>
          /\ npc' = npc \/ npc' \notin {"skb", "rx"}
  BY Zenon DEF Next, Binding, Flushed, ProbeGranted, ProbeRefused, UnregisterUp,
     UnregisterDown, Free, Open, Close, CloseCall, XmitCall, Xmit,
     XmitSubmit, XmitRefused, RxCallback, IntrCallback, IntrGiveback, IntrSubmit,
     TxCallback, TxGiveback, TxFree, TxEnable
<1>15. QED
  BY <1>3, <1>4, <1>5, <1>6, <1>7, <1>8, <1>9, <1>10, <1>11, <1>12, <1>13, <1>14, Zenon

LEMMA ListenStep ==
  ASSUME Flags, Receiving, ShapeInv, ListenInv, Next
  PROVE  ListenInv'
<1> USE DEF ListenInv, binding, receive, send
<1>1. CASE Disconnect \/ CloseUnlink
  BY <1>1, Zenon DEF Disconnect, CloseUnlink
<1>2. CASE OpenUrbs \/ OpenSkb \/ OpenRefused
  BY <1>2, Zenon DEF OpenUrbs, OpenSkb, OpenRefused
<1>3. gen \in 0..MaxOpens /\ (gen # 0 => gen \in Opens)
  BY BoundAssumption, SMT DEF Receiving, Opens
<1>4. CASE OpenRx
  <2>1. gen \in Opens
    BY <1>3, <1>4, Zenon DEF OpenRx, ShapeInv
  <2>2. rx'[gen] = "flight"
    BY <1>4, <2>1, Zenon DEF OpenRx, Receiving
  <2>3. QED
    BY <1>4, <2>2, SMT DEF OpenRx
<1>5. CASE OpenIntr
  BY <1>5, SMT DEF OpenIntr
<1>6. CASE OpenStart
  BY <1>6, SMT DEF OpenStart
<1>7. ASSUME NEW g \in Opens, RxGiveback(g) PROVE ListenInv'
  <2>1. CASE ppc = "freed"
    BY <1>7, <2>1, Zenon DEF RxGiveback, ShapeInv
  <2>2. CASE ppc # "freed"
    <3>1. rxcb'.at # "idle"
      BY <1>7, <2>2, SMT DEF RxGiveback
    <3>2. /\ UNCHANGED <<enabled, npc, intr, gen, deaf>>
          /\ rx' = [rx EXCEPT ![g] = "idle"]
      BY <1>7, Zenon DEF RxGiveback
    <3>3. gen \in Opens => rx'[gen] = "idle" \/ rx'[gen] = rx[gen]
      BY <3>2, Zenon DEF Receiving
    <3>4. npc \in {"intr", "start", "up"} => gen \in Opens
      BY <1>3, Zenon DEF ShapeInv
    <3>5. QED
      BY <3>1, <3>2, <3>3, <3>4, SMT
  <2>3. QED
    BY <2>1, <2>2
<1>8. CASE RxHandUp \/ RxRefill
  <2>1. rxcb'.at # "idle"
    BY <1>8, SMT DEF RxHandUp, RxRefill
  <2>2. UNCHANGED <<enabled, npc, intr, gen, deaf, rx>>
    BY <1>8, Zenon DEF RxHandUp, RxRefill
  <2>3. QED
    BY <2>1, <2>2, Zenon
<1>9. CASE RxSubmit
  <2>1. npc \in {"intr", "start", "up"} => rx'[gen] = "flight"
    BY <1>3, <1>9, Zenon DEF RxSubmit, Receiving, ShapeInv
  <2>2. UNCHANGED <<enabled, npc, intr, gen, deaf>>
    BY <1>9, Zenon DEF RxSubmit
  <2>3. QED
    BY <2>1, <2>2, SMT
<1>10. CASE RxSubmitRefused
  <2>1. UNCHANGED <<enabled, npc, intr, gen, rx>> /\ deaf' = (deaf \/ rx[gen] = "idle")
    BY <1>10, Zenon DEF RxSubmitRefused
  <2>2. npc \in {"intr", "start", "up"} => rx[gen] \in Urb
    BY <1>3, Zenon DEF Receiving, ShapeInv
  <2>3. QED
    BY <2>1, <2>2, Zenon DEF Urb
<1>11. CASE IntrGiveback
  BY <1>11, Zenon DEF IntrGiveback, ShapeInv
<1>12. CASE IntrSubmit
  BY <1>12, Zenon DEF IntrSubmit
<1>13. CASE /\ UNCHANGED <<enabled, gen, rx, deaf, rxcb, intr>>
            /\ npc' = npc \/ npc' = "close"
  BY <1>13, SMT
<1>14. \/ Disconnect \/ CloseUnlink \/ OpenUrbs \/ OpenSkb \/ OpenRefused \/ OpenRx
       \/ OpenIntr \/ OpenStart \/ (\E g \in Opens: RxGiveback(g)) \/ RxHandUp
       \/ RxRefill \/ RxSubmit \/ RxSubmitRefused \/ IntrGiveback \/ IntrSubmit
       \/ /\ UNCHANGED <<enabled, gen, rx, deaf, rxcb, intr>>
          /\ npc' = npc \/ npc' = "close"
  BY Zenon DEF Next, Binding, Flushed, ProbeGranted, ProbeRefused, UnregisterUp,
     UnregisterDown, Free, Open, Close, CloseCall, XmitCall, Xmit,
     XmitSubmit, XmitRefused, RxCallback, IntrCallback,
     TxCallback, TxGiveback, TxFree, TxEnable
<1>15. QED
  BY <1>1, <1>2, <1>4, <1>5, <1>6, <1>7, <1>8, <1>9, <1>10, <1>11, <1>12, <1>13, <1>14,
     Zenon

(* The packets                                                             *)

\* An overlap of transmissions is never forgotten.
LEMMA LateStays == ASSUME Next, late PROVE late'
BY Zenon DEF Next, Binding, Disconnect, Flushed, ProbeGranted, ProbeRefused,
   UnregisterUp, UnregisterDown, Free, Open, OpenUrbs, OpenSkb, OpenRx, OpenIntr,
   OpenRefused, OpenStart, Close, CloseCall, CloseUnlink, XmitCall, Xmit, XmitSubmit,
   XmitRefused, RxCallback, RxGiveback, RxHandUp, RxRefill, RxSubmit,
   RxSubmitRefused, IntrCallback, IntrGiveback, IntrSubmit, TxCallback, TxGiveback,
   TxFree, TxEnable, binding, receive, send

\* The steps that send nothing, stop nothing and let the interface be up only
\* if it was.
Apart == /\ UNCHANGED <<xpc, send>>
         /\ npc' = npc \/ npc' \notin {"up", "close"}

LEMMA SendingSteps ==
  ASSUME Next
  PROVE  \/ Disconnect \/ CloseUnlink \/ OpenStart \/ CloseCall \/ UnregisterUp
         \/ XmitCall \/ XmitSubmit \/ XmitRefused
         \/ (\E p \in Pkts: TxGiveback(p)) \/ TxFree \/ TxEnable
         \/ Apart
BY Zenon DEF Next, Binding, Flushed, ProbeGranted, ProbeRefused, UnregisterDown,
   Free, Open, OpenUrbs, OpenSkb, OpenRx, OpenIntr, OpenRefused, Close, Xmit,
   RxCallback, RxGiveback, RxHandUp, RxRefill, RxSubmit, RxSubmitRefused,
   IntrCallback, IntrGiveback, IntrSubmit, TxCallback, Apart, binding, receive, send

\* What a close or a disconnect leaves of the transmissions.
LEMMA UnlinkedTx ==
  ASSUME Sending, Disconnect \/ CloseUnlink
  PROVE  /\ \A p \in Pkts: tx'[p] = "idle" <=> tx[p] = "idle"
         /\ UNCHANGED <<xpc, stopped, tx_cur, txcb, late, fate>>
         /\ npc' = npc \/ npc' = "down"
BY Zenon DEF Disconnect, CloseUnlink, Unlinked, Sending

LEMMA TxStep ==
  ASSUME Sending, ShapeInv, TxInv, Next
  PROVE  TxInv'
<1> SUFFICES ASSUME ~late' PROVE OneTransmission'
  BY DEF TxInv
<1> USE DEF OneTransmission, TxQuiet
<1>1. ~late /\ OneTransmission
  BY LateStays, Zenon DEF TxInv
<1>2. CASE Disconnect \/ CloseUnlink
  BY <1>1, <1>2, UnlinkedTx, Zenon DEF ShapeInv
<1>3. CASE OpenStart
  BY <1>1, <1>3, Zenon DEF OpenStart, receive, ShapeInv
<1>4. CASE CloseCall \/ UnregisterUp
  BY <1>1, <1>4, Zenon DEF CloseCall, UnregisterUp
<1>5. CASE XmitCall
  <2>1. TxQuiet
    BY <1>1, <1>5, Zenon DEF XmitCall, XmitBegins
  <2>2. QED
    BY <1>5, <2>1, Zenon DEF XmitCall
<1>6. CASE XmitSubmit
  <2>1. TxQuiet /\ stopped /\ tx' = [tx EXCEPT ![tx_cur] = "flight"]
        /\ UNCHANGED <<stopped, tx_cur, txcb>> /\ xpc' = "idle"
    BY <1>1, <1>6, Zenon DEF XmitSubmit
  <2>2. QED
    BY <2>1, SMT DEF Sending
<1>7. CASE XmitRefused
  BY <1>1, <1>7, Zenon DEF XmitRefused
<1>8. ASSUME NEW p \in Pkts, TxGiveback(p) PROVE OneTransmission'
  <2>1. /\ tx[p] # "idle" /\ txcb.at = "idle" /\ tx' = [tx EXCEPT ![p] = "idle"]
        /\ UNCHANGED <<npc, xpc, stopped, tx_cur>>
    BY <1>8, Zenon DEF TxGiveback
  <2>2. p = tx_cur /\ xpc # "submit" /\ (npc = "up" => stopped)
    BY <1>1, <2>1, Zenon
  <2>3. \A q \in Pkts: tx'[q] = "idle"
    BY <1>1, <2>1, <2>2, Zenon DEF Sending
  <2>4. txcb'.at # "idle" => txcb'.pkt = p
    BY <1>8, <2>1, SMT DEF TxGiveback
  <2>5. QED
    BY <2>1, <2>2, <2>3, <2>4, SMT
<1>9. CASE TxFree
  <2>1. txcb.at = "free" /\ txcb'.pkt = txcb.pkt /\ txcb'.at = "enable"
        /\ UNCHANGED <<npc, xpc, stopped, tx_cur, tx>>
    BY <1>9, SMT DEF TxFree, Sending
  <2>2. QED
    BY <1>1, <2>1, SMT
<1>10. CASE TxEnable
  <2>1. txcb.at = "enable" /\ txcb'.at = "idle" /\ UNCHANGED <<xpc, tx_cur, tx>>
    BY <1>10, SMT DEF TxEnable
  <2>2. \A p \in Pkts: tx[p] = "idle"
    BY <1>1, <2>1, SMT
  <2>3. xpc # "submit"
    BY <1>1, <2>1, SMT
  <2>4. QED
    BY <2>1, <2>2, <2>3, SMT
<1>11. CASE Apart
  BY <1>1, <1>11, Zenon DEF Apart, send
<1>12. QED
  BY <1>2, <1>3, <1>4, <1>5, <1>6, <1>7, <1>8, <1>9, <1>10, <1>11, SendingSteps, Zenon

LEMMA StoppedStep ==
  ASSUME Sending, ShapeInv, StoppedIsCarried, Next
  PROVE  StoppedIsCarried'
<1> USE DEF StoppedIsCarried, TxQuiet
<1>1. CASE Disconnect \/ CloseUnlink
  BY <1>1, UnlinkedTx, Zenon
<1>2. CASE OpenStart \/ CloseCall \/ UnregisterUp
  BY <1>2, Zenon DEF OpenStart, CloseCall, UnregisterUp
<1>3. CASE XmitCall \/ XmitRefused \/ TxEnable
  BY <1>3, Zenon DEF XmitCall, XmitRefused, TxEnable
<1>4. CASE XmitSubmit
  <2>1. tx_cur \in Pkts
    BY <1>4, BoundAssumption, SMT DEF XmitSubmit, ShapeInv, Sending, Pkts
  <2>2. tx'[tx_cur] = "flight"
    BY <1>4, <2>1, Zenon DEF XmitSubmit, Sending
  <2>3. QED
    BY <2>1, <2>2, SMT
<1>5. ASSUME NEW p \in Pkts, TxGiveback(p) PROVE StoppedIsCarried'
  <2>1. CASE ppc = "freed"
    BY <1>5, <2>1, Zenon DEF TxGiveback, ShapeInv
  <2>2. CASE ppc # "freed"
    <3>1. txcb'.at # "idle"
      BY <1>5, <2>2, SMT DEF TxGiveback
    <3>2. QED
      BY <3>1, Zenon
  <2>3. QED
    BY <2>1, <2>2
<1>6. CASE TxFree
  <2>1. txcb'.at = "enable"
    BY <1>6, SMT DEF TxFree, Sending
  <2>2. QED
    BY <2>1, SMT
<1>7. CASE Apart
  BY <1>7, Zenon DEF Apart, send
<1>8. QED
  BY <1>1, <1>2, <1>3, <1>4, <1>5, <1>6, <1>7, SendingSteps, Zenon

LEMMA DownStep ==
  ASSUME Receiving, ShapeInv, RxInv, DownIsQuiet, Next
  PROVE  DownIsQuiet'
<1> USE DEF DownIsQuiet, receive
<1>1. CASE Disconnect
  BY <1>1, Zenon DEF Disconnect, Unlinked, Receiving
<1>2. CASE CloseUnlink
  <2>1. ASSUME ~mixed', NEW g \in Opens PROVE rx'[g] # "flight"
    <3>1. rx[g] # "idle" => g = gen
      BY <1>2, <2>1, Zenon DEF CloseUnlink, RxInv, OneReceive
    <3>2. rx' = [rx EXCEPT ![gen] = Unlinked(rx[gen])]
      BY <1>2, Zenon DEF CloseUnlink
    <3>3. g # gen => rx'[g] = rx[g] /\ rx[g] = "idle"
      BY <3>1, <3>2, Zenon DEF Receiving
    <3>4. g = gen => rx'[g] = Unlinked(rx[g])
      BY <3>2, Zenon DEF Receiving
    <3>5. QED
      BY <3>3, <3>4, SMT DEF Unlinked
  <2>2. QED
    BY <2>1, Zenon
<1>3. CASE OpenRefused
  <2>1. CASE npc = "rx"
    <3>1. ~mixed' => \A g \in Opens: rx'[g] = "idle"
      BY <1>3, <2>1, Zenon DEF OpenRefused, RxInv, OneReceive
    <3>2. QED
      BY <3>1, SMT
  <2>2. CASE npc = "intr"
    BY <1>3, <2>2, Zenon DEF OpenRefused
  <2>3. QED
    BY <1>3, <2>1, <2>2, Zenon DEF OpenRefused
<1>4. CASE RxSubmit
  BY <1>4, Zenon DEF RxSubmit
<1>5. ASSUME NEW g \in Opens, RxGiveback(g) PROVE DownIsQuiet'
  <2>1. \A h \in Opens: rx'[h] = "idle" \/ rx'[h] = rx[h]
    BY <1>5, Zenon DEF RxGiveback, Receiving
  <2>2. UNCHANGED <<npc, left, mixed>>
    BY <1>5, Zenon DEF RxGiveback
  <2>3. QED
    BY <2>1, <2>2, SMT
<1>6. CASE npc' # "down"
  BY <1>6, Zenon
<1>7. CASE UNCHANGED <<npc, rx, left, mixed>>
  BY <1>7, Zenon
<1>8. \/ Disconnect \/ CloseUnlink \/ OpenRefused \/ RxSubmit
      \/ (\E g \in Opens: RxGiveback(g))
      \/ npc' # "down" \/ UNCHANGED <<npc, rx, left, mixed>>
  BY Zenon DEF Next, Binding, Flushed, ProbeGranted, ProbeRefused, UnregisterUp,
     UnregisterDown, Free, Open, OpenUrbs, OpenSkb, OpenRx, OpenIntr, OpenStart, Close,
     CloseCall, XmitCall, Xmit, XmitSubmit, XmitRefused, RxCallback, RxHandUp, RxRefill,
     RxSubmitRefused, IntrCallback, IntrGiveback, IntrSubmit, TxCallback, TxGiveback,
     TxFree, TxEnable
<1>9. QED
  BY <1>1, <1>2, <1>3, <1>4, <1>5, <1>6, <1>7, <1>8, Zenon

LEMMA FateStep ==
  ASSUME Sending, ShapeInv, TxInv, FreedOrFailed, Next
  PROVE  FreedOrFailed'
<1> DEFINE Settled(p) == IF Carried(p) THEN fate[p] = "ours" ELSE fate[p] \in {"freed", "failed"}
<1> SUFFICES ASSUME ~late', ppc' # "freed", NEW p \in 1 .. tx_cur'
             PROVE  Settled(p)'
  BY Zenon DEF FreedOrFailed
<1>1. ppc # "freed"
  BY Zenon DEF Next, Binding, Disconnect, Flushed, ProbeGranted, ProbeRefused,
     UnregisterUp, UnregisterDown, Free, Open, OpenUrbs, OpenSkb, OpenRx, OpenIntr,
     OpenRefused, OpenStart, Close, CloseCall, CloseUnlink, XmitCall, Xmit, XmitSubmit,
     XmitRefused, RxCallback, RxGiveback, RxHandUp, RxRefill, RxSubmit,
     RxSubmitRefused, IntrCallback, IntrGiveback, IntrSubmit, TxCallback, TxGiveback,
     TxFree, TxEnable, binding, receive, send
<1>2. ~late /\ OneTransmission
  BY LateStays, Zenon DEF TxInv
<1>3. p \in 1 .. tx_cur => Settled(p)
  BY <1>1, <1>2, Zenon DEF FreedOrFailed
<1>4. tx_cur \in 0..MaxPkts /\ (p \in 1 .. tx_cur => p \in Pkts)
  BY BoundAssumption, SMT DEF Sending, Pkts
<1>5. CASE Disconnect \/ CloseUnlink
  BY <1>3, <1>4, <1>5, UnlinkedTx, Zenon DEF Carried
<1>6. CASE OpenStart \/ CloseCall \/ UnregisterUp
  BY <1>3, <1>6, Zenon DEF OpenStart, CloseCall, UnregisterUp, Carried, receive
<1>7. CASE XmitCall
  <2>1. /\ tx_cur' = tx_cur + 1 /\ fate' = [fate EXCEPT ![tx_cur'] = "ours"]
        /\ xpc = "idle" /\ xpc' = "submit" /\ tx' = tx /\ txcb' = txcb
        /\ tx_cur < MaxPkts /\ ~stopped /\ npc = "up"
    BY <1>7, Zenon DEF XmitCall, XmitBegins
  <2>2. tx_cur' \in Pkts
    BY <1>4, <2>1, BoundAssumption, SMT DEF Pkts
  <2>3. CASE p = tx_cur'
    <3>1. Carried(p)'
      BY <2>1, <2>3, Zenon DEF Carried
    <3>2. fate'[p] = "ours"
      BY <2>1, <2>2, <2>3, Zenon DEF Sending
    <3>3. QED
      BY <3>1, <3>2, Zenon
  <2>4. CASE p # tx_cur'
    <3>1. p \in 1 .. tx_cur /\ p \in Pkts
      BY <1>4, <2>1, <2>4, SMT
    <3>2. TxQuiet
      BY <1>2, <2>1, Zenon DEF OneTransmission
    <3>3. ~Carried(p) /\ ~Carried(p)'
      BY <2>1, <2>4, <3>1, <3>2, SMT DEF Carried, TxQuiet
    <3>4. fate'[p] = fate[p]
      BY <2>1, <2>4, <3>1, Zenon DEF Sending
    <3>5. QED
      BY <1>3, <3>1, <3>3, <3>4, Zenon
  <2>5. QED
    BY <2>3, <2>4
<1>8. CASE XmitSubmit
  <2>1. /\ tx' = [tx EXCEPT ![tx_cur] = "flight"] /\ xpc = "submit" /\ xpc' = "idle"
        /\ UNCHANGED <<tx_cur, txcb, fate>>
    BY <1>8, Zenon DEF XmitSubmit
  <2>2. p \in 1 .. tx_cur /\ p \in Pkts
    BY <1>4, <2>1, Zenon
  <2>3. p = tx_cur => tx'[p] = "flight" /\ Carried(p)
    BY <2>1, <2>2, Zenon DEF Sending, Carried
  <2>4. p # tx_cur => tx'[p] = tx[p]
    BY <2>1, <2>2, Zenon DEF Sending
  <2>5. Carried(p)' <=> Carried(p)
    BY <2>1, <2>3, <2>4, SMT DEF Carried
  <2>6. QED
    BY <1>3, <2>1, <2>2, <2>5, Zenon
<1>9. CASE XmitRefused
  <2>1. /\ fate' = [fate EXCEPT ![tx_cur] = "failed"] /\ xpc = "submit" /\ xpc' = "idle"
        /\ UNCHANGED <<tx_cur, tx, txcb>>
    BY <1>9, Zenon DEF XmitRefused
  <2>2. TxQuiet /\ p \in 1 .. tx_cur /\ p \in Pkts
    BY <1>2, <1>4, <2>1, Zenon DEF OneTransmission
  <2>3. ~Carried(p)' /\ (p # tx_cur => ~Carried(p))
    BY <2>1, <2>2, SMT DEF Carried, TxQuiet
  <2>4. fate'[p] = IF p = tx_cur THEN "failed" ELSE fate[p]
    BY <2>1, <2>2, Zenon DEF Sending
  <2>5. QED
    BY <1>3, <2>2, <2>3, <2>4, Zenon
<1>10. ASSUME NEW q \in Pkts, TxGiveback(q) PROVE Settled(p)'
  <2>1. /\ tx[q] # "idle" /\ txcb.at = "idle" /\ tx' = [tx EXCEPT ![q] = "idle"]
        /\ UNCHANGED <<xpc, tx_cur>>
    BY <1>10, Zenon DEF TxGiveback
  <2>2. p \in 1 .. tx_cur /\ p \in Pkts
    BY <1>4, <2>1, Zenon
  <2>3. xpc # "submit" /\ q = tx_cur
    BY <1>2, <2>1, Zenon DEF OneTransmission, TxQuiet
  <2>4. \/ fate' = fate /\ txcb' = [at |-> "free", pkt |-> q]
        \/ fate' = [fate EXCEPT ![q] = "failed"] /\ txcb' = [at |-> "enable", pkt |-> q]
    <3>1. PICK status \in Completion(tx[q]):
            /\ fate' = [fate EXCEPT ![q] = IF status = "ok" THEN @ ELSE "failed"]
            /\ txcb' = [at |-> IF status = "ok" THEN "free" ELSE "enable", pkt |-> q]
      BY <1>1, <1>10, Zenon DEF TxGiveback
    <3>2. [fate EXCEPT ![q] = fate[q]] = fate
      BY Zenon DEF Sending
    <3>3. QED
      BY <3>1, <3>2, Zenon
  <2>5. CASE p = q
    <3>1. fate[p] = "ours"
      BY <1>3, <2>1, <2>2, <2>5, Zenon DEF Carried
    <3>2. tx'[p] = "idle"
      BY <2>1, <2>5, Zenon DEF Sending
    <3>3. CASE fate' = fate /\ txcb' = [at |-> "free", pkt |-> q]
      BY <2>5, <3>1, <3>3, Zenon DEF Carried
    <3>4. CASE fate' = [fate EXCEPT ![q] = "failed"] /\ txcb' = [at |-> "enable", pkt |-> q]
      <4>1. ~Carried(p)'
        BY <2>1, <2>3, <3>2, <3>4, SMT DEF Carried
      <4>2. fate'[p] = "failed"
        BY <2>5, <3>4, Zenon DEF Sending
      <4>3. QED
        BY <4>1, <4>2, Zenon
    <3>5. QED
      BY <2>4, <3>3, <3>4, Zenon
  <2>6. CASE p # q
    <3>1. tx'[p] = tx[p] /\ fate'[p] = fate[p]
      BY <2>1, <2>2, <2>4, <2>6, SMT DEF Sending
    <3>2. Carried(p)' <=> Carried(p)
      BY <2>1, <2>3, <2>4, <2>6, <3>1, SMT DEF Carried
    <3>3. QED
      BY <1>3, <2>2, <3>1, <3>2, Zenon
  <2>7. QED
    BY <2>5, <2>6
<1>11. CASE TxFree
  <2>1. /\ txcb.at = "free" /\ txcb' = [txcb EXCEPT !.at = "enable"]
        /\ fate' = [fate EXCEPT ![tx_cur] = IF @ = "ours" THEN "freed" ELSE "spoilt"]
        /\ UNCHANGED <<xpc, tx_cur, tx>>
    BY <1>11, Zenon DEF TxFree
  <2>2. txcb.pkt = tx_cur /\ tx[p] = "idle" /\ p \in 1 .. tx_cur /\ p \in Pkts
    BY <1>2, <1>4, <2>1, SMT DEF OneTransmission
  <2>3. txcb = [at |-> "free", pkt |-> tx_cur] /\ txcb' = [at |-> "enable", pkt |-> tx_cur]
    BY <2>1, <2>2, SMT DEF Sending
  <2>4. xpc # "submit"
    BY <1>2, <2>1, SMT DEF OneTransmission, TxQuiet
  <2>5. ~Carried(p)' /\ (Carried(p) <=> p = tx_cur)
    BY <2>1, <2>2, <2>3, <2>4, SMT DEF Carried
  <2>6. fate'[p] = IF p # tx_cur THEN fate[p]
                   ELSE IF fate[p] = "ours" THEN "freed" ELSE "spoilt"
    BY <2>1, <2>2, Zenon DEF Sending
  <2>7. QED
    BY <1>3, <2>2, <2>5, <2>6, Zenon
<1>12. CASE TxEnable
  <2>1. txcb.at = "enable" /\ txcb' = [at |-> "idle", pkt |-> 0]
        /\ UNCHANGED <<xpc, tx_cur, tx, fate>>
    BY <1>12, Zenon DEF TxEnable
  <2>2. Carried(p)' <=> Carried(p)
    BY <2>1, SMT DEF Carried
  <2>3. QED
    BY <1>3, <2>1, <2>2, Zenon
<1>13. CASE Apart
  BY <1>3, <1>13, Zenon DEF Apart, send, Carried
<1>14. QED
  BY <1>5, <1>6, <1>7, <1>8, <1>9, <1>10, <1>11, <1>12, <1>13, SendingSteps, Zenon

(* The theorems                                                            *)

LEMMA InitUsbInv == Init => UsbInv
<1> SUFFICES ASSUME Init PROVE UsbInv
  OBVIOUS
<1>1. TypeOK
  <2>1. Flags
    BY Zenon DEF Init, Flags
  <2>2. Sending /\ Receiving
    BY BoundAssumption, SMT DEF Init, Sending, Receiving, Urb
  <2>3. QED
    BY <2>1, <2>2, TypeParts
<1>2. RxQuiet /\ IntrQuiet /\ TxQuiet
  BY SMT DEF Init, RxQuiet, IntrQuiet, TxQuiet
<1>3. ShapeInv /\ ListenInv /\ GoneInv /\ StoppedIsCarried
  BY <1>2, Zenon DEF Init, ShapeInv, ListenInv, GoneInv, StoppedIsCarried
<1>4. RxInv /\ TxInv /\ DownIsQuiet
  BY <1>2, SMT DEF Init, RxInv, OneReceive, TxInv, OneTransmission, RxQuiet, TxQuiet,
                   DownIsQuiet
<1>5. FreedOrFailed
  BY SMT DEF Init, FreedOrFailed
<1>6. QED
  BY <1>1, <1>3, <1>4, <1>5 DEF UsbInv

\* Open, close, start_xmit, the callbacks and the end of the binding keep their
\* URBs, skbs and packets apart, but for the overlaps named.
THEOREM UsbCorrect == Spec => []UsbInv
<1>1. UsbInv /\ [Next]_vars => UsbInv'
  <2> SUFFICES ASSUME UsbInv, [Next]_vars PROVE UsbInv'
    OBVIOUS
  <2> USE DEF UsbInv
  <2>1. CASE Next
    <3>1. TypeOK'
      BY <2>1, TypeParts, FlagsStep, SendingStep, ReceivingStep, Zenon DEF TypeOK, Flags,
         Sending, Receiving
    <3>2. Flags /\ Sending /\ Receiving
      BY TypeParts
    <3>3. ShapeInv' /\ GoneInv' /\ RxInv' /\ TxInv' /\ ListenInv'
      BY <2>1, <3>2, ShapeStep, GoneStep, RxStep, TxStep, ListenStep
    <3>4. FreedOrFailed' /\ DownIsQuiet' /\ StoppedIsCarried'
      BY <2>1, <3>2, FateStep, DownStep, StoppedStep
    <3>5. QED
      BY <3>1, <3>3, <3>4
  <2>2. CASE UNCHANGED vars
    <3> USE DEF vars, binding, receive, send
    <3>1. TypeOK'
      <4>1. Flags /\ Sending /\ Receiving
        BY TypeParts
      <4>2. Flags'
        <5>1. /\ ppc' = ppc /\ npc' = npc /\ xpc' = xpc /\ enabled' = enabled
              /\ stopped' = stopped /\ deaf' = deaf /\ mixed' = mixed /\ left' = left
              /\ late' = late /\ intr' = intr
          BY <2>2, Zenon
        <5>2. /\ enabled' \in BOOLEAN /\ stopped' \in BOOLEAN /\ deaf' \in BOOLEAN
              /\ mixed' \in BOOLEAN /\ left' \in BOOLEAN /\ late' \in BOOLEAN
          BY <4>1, <5>1, SMT DEF Flags
        <5>3. QED
          BY <4>1, <5>1, <5>2, SMT DEF Flags
      <4>3. Sending'
        BY <2>2, <4>1, Zenon DEF Sending
      <4>4. Receiving'
        BY <2>2, <4>1, Zenon DEF Receiving
      <4>5. QED
        BY <4>2, <4>3, <4>4, Zenon DEF TypeOK, Flags, Sending, Receiving
    <3>2. ShapeInv'
      BY <2>2, Zenon DEF ShapeInv, RxQuiet, TxQuiet
    <3>3. GoneInv'
      BY <2>2, Zenon DEF GoneInv, Quiet, RxQuiet, IntrQuiet, TxQuiet
    <3>4. RxInv' /\ TxInv' /\ ListenInv'
      BY <2>2, Zenon DEF RxInv, OneReceive, TxInv, OneTransmission, TxQuiet, ListenInv
    <3>5. FreedOrFailed' /\ DownIsQuiet' /\ StoppedIsCarried'
      BY <2>2, Zenon DEF FreedOrFailed, Carried, DownIsQuiet, StoppedIsCarried, TxQuiet
    <3>6. QED
      BY <3>1, <3>2, <3>3, <3>4, <3>5
  <2>3. QED
    BY <2>1, <2>2
<1>2. QED
  BY <1>1, InitUsbInv, PTL DEF Spec

\* Every variable keeps its type, and a submitted receive URB has an skb.
THEOREM TypeCorrect == Spec => []TypeOK
<1>1. UsbInv => TypeOK
  BY DEF UsbInv
<1>2. QED
  BY <1>1, UsbCorrect, PTL

\* What goes up is what was received, and is received into no more.
THEOREM HandsUpReceived == Spec => []ReceivedGoesUp
<1>1. UsbInv => ReceivedGoesUp
  BY Zenon DEF UsbInv, RxInv, OneReceive, ReceivedGoesUp
<1>2. QED
  BY <1>1, UsbCorrect, PTL

\* A completion frees the packet that was sent.
THEOREM FreesSent == Spec => []SentIsFreed
<1>1. UsbInv => SentIsFreed
  BY SMT DEF UsbInv, TxInv, OneTransmission, SentIsFreed
<1>2. QED
  BY <1>1, UsbCorrect, PTL

\* Every packet taken is freed once, or left to nobody when it was not sent.
THEOREM PacketsSettle == Spec => []FreedOrFailed
<1>1. UsbInv => FreedOrFailed
  BY DEF UsbInv
<1>2. QED
  BY <1>1, UsbCorrect, PTL

\* An interface that is down receives only what the three overlaps left it.
THEOREM QuietWhenDown == Spec => []DownIsQuiet
<1>1. UsbInv => DownIsQuiet
  BY DEF UsbInv
<1>2. QED
  BY <1>1, UsbCorrect, PTL

\* While the interface is up the driver listens on both pipes.
THEOREM Listens == Spec => []ListensWhileUp
<1>1. UsbInv => ListensWhileUp
  BY SMT DEF UsbInv, ListenInv, ListensWhileUp
<1>2. QED
  BY <1>1, UsbCorrect, PTL

\* A disconnect frees the private structure when nobody is left in it.
THEOREM StructureOutlives == Spec => []PrivOutlives
<1>1. UsbInv => PrivOutlives
  BY Zenon DEF UsbInv, TypeOK, ShapeInv, GoneInv, PrivOutlives, Quiet, IntrQuiet
<1>2. QED
  BY <1>1, UsbCorrect, PTL

\* A stopped queue has a submission or a completion to start it again.
THEOREM StoppedComesBack == Spec => []StoppedIsCarried
<1>1. UsbInv => StoppedIsCarried
  BY DEF UsbInv
<1>2. QED
  BY <1>1, UsbCorrect, PTL

=============================================================================
